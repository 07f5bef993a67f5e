------------------------------ MODULE Display ------------------------------
(***************************************************************************)
(* When the X server may switch the monitor off (DPMS, blpm-dpms.c) or     *)
(* blank it (its screen saver, blpm_update_blank_time): both follow the    *)
(* settings, the presentation mode and the power source, which is kept     *)
(* twice, by the power object and by the DPMS object.                      *)
(***************************************************************************)
EXTENDS Naturals

CONSTANTS
    DpmsSettings,   \* the dpms-* settings the user may have
    BlankMinutes    \* the values of the two blank-* settings

ASSUME DpmsAssumption ==
    DpmsSettings \subseteq [enabled : BOOLEAN, standby : BOOLEAN, sleepOnAc : Nat,
                            offOnAc : Nat, sleepOnBattery : Nat, offOnBattery : Nat]
ASSUME BlankAssumption == BlankMinutes \subseteq Nat

VARIABLES
    dpms,              \* the dpms-* settings
    onAcBlank,         \* priv->on_ac_blank
    onBatteryBlank,    \* priv->on_battery_blank
    presentationMode,  \* priv->presentation_mode
    source,            \* does the machine run on battery, as UPower tells?
    onBattery,         \* XfpmPower's on_battery
    devices,           \* does XfpmPower know any power device?
    inhibited,         \* XfpmDpms's inhibited
    dpmsOnBattery,     \* XfpmDpms's on_battery
    enabled,           \* X server: is DPMS enabled?
    timeouts,          \* X server: DPMS timeouts, in seconds
    blank              \* X server: screen saver timeout, in seconds

settingVars == <<dpms, onAcBlank, onBatteryBlank>>
serverVars  == <<enabled, timeouts>>
displayVars == <<settingVars, presentationMode, source, onBattery, devices, inhibited,
                 dpmsOnBattery, serverVars, blank>>

(* Minutes of the settings in the seconds of a guint16.                     *)
Seconds(minutes) == (minutes * 60) % 65536

Timeouts(s, battery) ==
    LET sleep == Seconds(IF battery THEN s.sleepOnBattery ELSE s.sleepOnAc)
    IN  [standby |-> IF s.standby THEN sleep ELSE 0,
         suspend |-> IF s.standby THEN 0 ELSE sleep,
         off     |-> Seconds(IF battery THEN s.offOnBattery ELSE s.offOnAc)]

(* blpm_dpms_refresh, for the given settings and state of the DPMS object.  *)
Refresh(s, inhibit, battery) ==
    /\ enabled' = (s.enabled /\ ~inhibit)
    /\ timeouts' = IF s.enabled /\ ~inhibit THEN Timeouts(s, battery) ELSE timeouts

(* blpm_update_blank_time                                                   *)
BlankTime(presenting, battery, acMinutes, batteryMinutes) ==
    IF presenting THEN 0 ELSE 60 * (IF battery THEN batteryMinutes ELSE acMinutes)

DisplayInit ==
    /\ dpms \in DpmsSettings
    /\ onAcBlank \in BlankMinutes /\ onBatteryBlank \in BlankMinutes
    /\ presentationMode = FALSE /\ inhibited = FALSE
    /\ devices \in BOOLEAN
    /\ source = FALSE /\ onBattery = FALSE /\ dpmsOnBattery = FALSE
    /\ enabled = dpms.enabled
    /\ timeouts = IF dpms.enabled THEN Timeouts(dpms, FALSE)
                  ELSE [standby |-> 0, suspend |-> 0, off |-> 0]
    /\ blank = BlankTime(FALSE, FALSE, onAcBlank, onBatteryBlank)

(* blpm_dpms_settings_changed_cb: one dpms-* setting was changed.           *)
DpmsSettingChanged ==
    /\ dpms' \in DpmsSettings \ {dpms}
    /\ Refresh(dpms', inhibited, dpmsOnBattery)
    /\ UNCHANGED <<onAcBlank, onBatteryBlank, presentationMode, source, onBattery,
                   devices, inhibited, dpmsOnBattery, blank>>

(* blpm_power_set_property, for the blank times                             *)
BlankSettingChanged ==
    /\ \/ onAcBlank' \in BlankMinutes \ {onAcBlank} /\ UNCHANGED onBatteryBlank
       \/ onBatteryBlank' \in BlankMinutes \ {onBatteryBlank} /\ UNCHANGED onAcBlank
    /\ blank' = BlankTime(presentationMode, onBattery, onAcBlank', onBatteryBlank')
    /\ UNCHANGED <<dpms, presentationMode, source, onBattery, devices, inhibited,
                   dpmsOnBattery, serverVars>>

(* blpm_power_change_presentation_mode, with blpm_dpms_inhibit              *)
ChangePresentationMode ==
    /\ presentationMode' = ~presentationMode
    /\ inhibited' = presentationMode'
    /\ Refresh(dpms, presentationMode', dpmsOnBattery)
    /\ blank' = BlankTime(presentationMode', onBattery, onAcBlank, onBatteryBlank)
    /\ UNCHANGED <<settingVars, source, onBattery, devices, dpmsOnBattery>>

\* Mutant: an inhibited DPMS object does not look at the power source.
CheckPowerUninhibited ==
    /\ source # onBattery
    /\ onBattery' = source
    /\ dpmsOnBattery' = IF inhibited THEN dpmsOnBattery ELSE source
    /\ Refresh(dpms, inhibited, dpmsOnBattery')
    /\ blank' = IF devices THEN BlankTime(presentationMode, source, onAcBlank, onBatteryBlank)
                           ELSE blank
    /\ UNCHANGED <<settingVars, presentationMode, source, devices, inhibited>>

(* blpm_power_check_power, with blpm_dpms_set_on_battery.  The blank time   *)
(* is set once for every known device, and not at all when there is none.   *)
CheckPower ==
    /\ source # onBattery
    /\ onBattery' = source
    /\ dpmsOnBattery' = source
    /\ Refresh(dpms, inhibited, source)
    /\ blank' = IF devices THEN BlankTime(presentationMode, source, onAcBlank, onBatteryBlank)
                           ELSE blank
    /\ UNCHANGED <<settingVars, presentationMode, source, devices, inhibited>>

(* The plug, and the devices UPower adds and removes: a machine that runs   *)
(* on battery has one, and one whose last battery or UPS goes does not.     *)
SourceChanges ==
    /\ devices
    /\ source' = ~source
    /\ UNCHANGED <<settingVars, presentationMode, onBattery, devices, inhibited,
                   dpmsOnBattery, serverVars, blank>>

DevicesChange ==
    /\ devices' = ~devices
    /\ source' = (source /\ devices')
    /\ UNCHANGED <<settingVars, presentationMode, onBattery, inhibited, dpmsOnBattery,
                   serverVars, blank>>

DisplayNext ==
    \/ DpmsSettingChanged \/ BlankSettingChanged \/ ChangePresentationMode
    \/ CheckPower \/ SourceChanges \/ DevicesChange

DisplaySpec == DisplayInit /\ [][DisplayNext]_displayVars

---------------------------------------------------------------------------
(* Properties.                                                              *)

Handled == onBattery = source

(* The screen is neither switched off nor blanked during a presentation.    *)
(* DPMS is enabled just when the settings say so and no presentation runs,  *)
(* and then has the timeouts set for the present power source, whatever     *)
(* changed while it was disabled, by the setting or for a presentation.     *)
DisplayFollowsSettings ==
    /\ presentationMode => ~enabled /\ blank = 0
    /\ Handled =>
         /\ enabled = (dpms.enabled /\ ~presentationMode)
         /\ enabled =>
              /\ timeouts.off = 60 * (IF source THEN dpms.offOnBattery ELSE dpms.offOnAc)
              /\ timeouts.standby + timeouts.suspend =
                   60 * (IF source THEN dpms.sleepOnBattery ELSE dpms.sleepOnAc)
              /\ (IF dpms.standby THEN timeouts.suspend ELSE timeouts.standby) = 0
=============================================================================
