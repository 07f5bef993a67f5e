---------------------------- MODULE InhibitProofs ----------------------------
(***************************************************************************)
(* Proofs about Inhibit for any clients, names and bounds: the types, the  *)
(* safety invariants that hold whatever the clients do (CopiesAgree,       *)
(* CookiesUnique, WatchesHold), what a held cookie is good for, and that   *)
(* every step is one of the contract's.                                    *)
(***************************************************************************)
EXTENDS Inhibit, SequenceTheorems, TLAPS

(* Taking the oldest message keeps the inbox a sequence of messages. *)
LEMMA DispatchInbox ==
    ASSUME inbox \in Seq(Message), inbox # <<>>
    PROVE  Head(inbox) \in Message /\ Tail(inbox) \in Seq(Message)
OBVIOUS

(* A message has the fields of its kind. *)
LEMMA MessageKinds ==
    ASSUME NEW m \in Message
    PROVE  /\ m.kind \in {"inhibit", "ownerlost"} => m.conn \in Conns
           /\ m.kind = "uninhibit" => m.cookie \in Cookie
BY DEF Message

(* A fresh cookie is a cookie, above every live one. *)
LEMMA FreshCookie ==
    ASSUME TypeOK, NEW k, GetCookie(k)
    PROVE  k \in Cookie /\ \A i \in inhibitors : i.cookie < k
<1>1. PICK max \in {0} \cup {i.cookie : i \in inhibitors} :
            /\ \A i \in inhibitors : i.cookie <= max
            /\ k \in (max + 1)..(max + CookieSpread)
    BY DEF GetCookie
<1>2. \A i \in inhibitors : i.cookie \in Nat
    BY DEF TypeOK, Inhibitor, Cookie
<1>3. max \in Nat
    BY <1>2
<1> QED
    BY <1>1, <1>2, <1>3, InhibitAssumption DEF Cookie

(* What the safety of the service rests on, all of it kept by every step.   *)
IInv ==
    /\ TypeOK
    /\ CopiesAgree
    /\ CookiesUnique
    /\ WatchesHold

(* The initial state of the daemon, before any client called it. *)
LEMMA IInvInit == Init => IInv
<1> SUFFICES ASSUME Init PROVE IInv
    OBVIOUS
<1>1. inbox \in Seq(Message)
    BY DEF Init
<1>2. TypeOK
    BY <1>1 DEF Init, TypeOK
<1>3. CopiesAgree
    BY DEF Init, CopiesAgree
<1>4. CookiesUnique /\ WatchesHold
    BY DEF Init, CookiesUnique, WatchesHold
<1> QED
    BY <1>2, <1>3, <1>4 DEF IInv

(* Answering an Inhibit call: the fresh cookie is above all live ones, so   *)
(* it is unique, and the watch is for the name the inhibitor was added for. *)
LEMMA IInvDispatchInhibit ==
    ASSUME IInv, inbox \in Seq(Message), NEW m \in Message, DispatchInhibit(m)
    PROVE  /\ inhibitors' \subseteq Inhibitor
           /\ held' \in [Conns -> SUBSET Cookie]
           /\ watched' \subseteq Conns
           /\ CopiesAgree' /\ CookiesUnique' /\ WatchesHold'
<1>1. m.conn \in Conns
    BY MessageKinds DEF DispatchInhibit
<1>2. PICK k \in 0..MaxCookie :
        /\ GetCookie(k)
        /\ inhibitors' = inhibitors \cup {[cookie |-> k, conn |-> m.conn]}
        /\ held' = [held EXCEPT ![m.conn] = @ \cup {k}]
    BY DEF DispatchInhibit
<1>3. k \in Cookie /\ \A i \in inhibitors : i.cookie < k
    BY <1>2, FreshCookie DEF IInv
<1>4. inhibitors' \subseteq Inhibitor
    BY <1>1, <1>2, <1>3 DEF IInv, TypeOK, Inhibitor
<1>5. held' \in [Conns -> SUBSET Cookie]
    BY <1>1, <1>2, <1>3 DEF IInv, TypeOK
<1>6. watched' \subseteq Conns
    BY <1>1 DEF IInv, TypeOK, DispatchInhibit
<1>7. CopiesAgree'
    BY DEF IInv, CopiesAgree, DispatchInhibit, HasInhibitChanged
<1>8. CookiesUnique'
    <2> SUFFICES ASSUME NEW i \in inhibitors', NEW j \in inhibitors', i.cookie = j.cookie
                 PROVE  i = j
        BY DEF CookiesUnique
    <2>1. \A x \in inhibitors : x.cookie \in Nat /\ x.cookie # k
        BY <1>3 DEF IInv, TypeOK, Inhibitor, Cookie
    <2> QED
        BY <1>2, <2>1 DEF IInv, CookiesUnique
<1>9. WatchesHold'
    <2>1. m.conn \in Holders' /\ Holders \subseteq Holders'
        <3> DEFINE new == [cookie |-> k, conn |-> m.conn]
        <3>1. new \in inhibitors' /\ new.conn = m.conn
            BY <1>2
        <3>2. inhibitors \subseteq inhibitors'
            BY <1>2
        <3> HIDE DEF new
        <3> QED
            BY <3>1, <3>2 DEF Holders
    <2>2. watched' = watched \cup {m.conn}
        BY DEF DispatchInhibit
    <2> QED
        BY <2>1, <2>2 DEF IInv, WatchesHold
<1> QED
    BY <1>4, <1>5, <1>6, <1>7, <1>8, <1>9

(* Releasing a cookie: the watch goes with the inhibitor, even if the       *)
(* client has another one. *)
LEMMA IInvDispatchUnInhibit ==
    ASSUME IInv, NEW m, DispatchUnInhibit(m)
    PROVE  /\ inhibitors' \subseteq Inhibitor
           /\ watched' \subseteq Conns
           /\ CopiesAgree' /\ CookiesUnique' /\ WatchesHold'
<1>1. PICK i \in inhibitors :
        /\ watched' = watched \ {i.conn}
        /\ inhibitors' = inhibitors \ {i}
    BY DEF DispatchUnInhibit
<1>2. CopiesAgree'
    BY DEF IInv, CopiesAgree, DispatchUnInhibit, HasInhibitChanged
<1>3. WatchesHold'
    <2> SUFFICES ASSUME NEW c \in watched' PROVE c \in Holders'
        BY DEF WatchesHold
    <2>0. c \in watched /\ c # i.conn
        BY <1>1
    <2>1. PICK j \in inhibitors : j.conn = c
        BY <2>0 DEF IInv, WatchesHold, Holders
    <2>2. j # i
        BY <1>1, <2>1
    <2> QED
        BY <1>1, <2>1, <2>2 DEF Holders
<1> QED
    BY <1>1, <1>2, <1>3 DEF IInv, TypeOK, CookiesUnique

(* Losing a name: its watch is consumed together with one inhibitor. *)
LEMMA IInvDispatchOwnerLost ==
    ASSUME IInv, NEW m, DispatchOwnerLost(m)
    PROVE  /\ inhibitors' \subseteq Inhibitor
           /\ watched' \subseteq Conns
           /\ CopiesAgree' /\ CookiesUnique' /\ WatchesHold'
<1>1. CASE m.conn \in watched
    <2>1. inhibitors' = inhibitors \ FirstOf(m.conn) /\ watched' = watched \ {m.conn}
        BY <1>1 DEF DispatchOwnerLost
    <2>2. CopiesAgree'
        BY <1>1 DEF IInv, CopiesAgree, DispatchOwnerLost, HasInhibitChanged
    <2>3. WatchesHold'
        <3> SUFFICES ASSUME NEW c \in watched' PROVE c \in Holders'
            BY DEF WatchesHold
        <3>1. PICK j \in inhibitors : j.conn = c
            BY <2>1 DEF IInv, WatchesHold, Holders
        <3>2. j \notin FirstOf(m.conn)
            BY <2>1, <3>1 DEF FirstOf
        <3> QED
            BY <2>1, <3>1, <3>2 DEF Holders
    <2> QED
        BY <2>1, <2>2, <2>3 DEF IInv, TypeOK, CookiesUnique
<1>2. CASE m.conn \notin watched
    BY <1>2 DEF DispatchOwnerLost, daemonVars, IInv, TypeOK, CopiesAgree,
                CookiesUnique, WatchesHold, Holders
<1> QED
    BY <1>1, <1>2

(* Sending appends a message. *)
LEMMA SendInbox ==
    ASSUME inbox \in Seq(Message), NEW m \in Message, Send(m)
    PROVE  inbox' \in Seq(Message)
BY DEF Send

(* Every step of the specification keeps the invariant. *)
LEMMA IInvNext == IInv /\ [Next]_vars => IInv'
<1> SUFFICES ASSUME IInv, [Next]_vars PROVE IInv'
    OBVIOUS
<1> USE DEF IInv
<1>1. CASE Dispatch
    <2> DEFINE m == Head(inbox)
    <2>1. inbox \in Seq(Message) /\ inbox # <<>>
        BY <1>1 DEF Dispatch, TypeOK
    <2>2. m \in Message /\ inbox' \in Seq(Message)
        BY <1>1, <2>1, DispatchInbox DEF Dispatch
    <2>3. UNCHANGED <<sleeps, restarts, drops, online, owner>>
        BY <1>1 DEF Dispatch, DispatchInhibit, DispatchUnInhibit,
                    DispatchUnknownCookie, DispatchOwnerLost, clientVars
    <2>4. CASE DispatchInhibit(m)
        <3>1. inhibited' \in BOOLEAN /\ managerInhibited' \in BOOLEAN /\ powerInhibited' \in BOOLEAN
            BY <2>4 DEF DispatchInhibit, HasInhibitChanged, TypeOK
        <3> QED
            BY <2>1, <2>2, <2>3, <2>4, <3>1, IInvDispatchInhibit DEF TypeOK
    <2>5. CASE DispatchUnInhibit(m)
        <3>1. inhibited' \in BOOLEAN /\ managerInhibited' \in BOOLEAN /\ powerInhibited' \in BOOLEAN
            BY <2>5 DEF DispatchUnInhibit, HasInhibitChanged, TypeOK
        <3>2. held' = held
            BY <2>5 DEF DispatchUnInhibit, clientVars
        <3> QED
            BY <2>2, <2>3, <2>5, <3>1, <3>2, IInvDispatchUnInhibit DEF TypeOK
    <2>6. CASE DispatchUnknownCookie(m)
        BY <2>2, <2>3, <2>6 DEF DispatchUnknownCookie, daemonVars, clientVars, TypeOK,
                CopiesAgree, CookiesUnique, WatchesHold, Holders
    <2>7. CASE DispatchOwnerLost(m)
        <3>1. inhibited' \in BOOLEAN /\ managerInhibited' \in BOOLEAN /\ powerInhibited' \in BOOLEAN
            BY <2>7 DEF DispatchOwnerLost, HasInhibitChanged, TypeOK, daemonVars
        <3>2. held' = held
            BY <2>7 DEF DispatchOwnerLost, clientVars
        <3> QED
            BY <2>2, <2>3, <2>7, <3>1, <3>2, IInvDispatchOwnerLost DEF TypeOK
    <2> QED
        BY <1>1, <2>4, <2>5, <2>6, <2>7 DEF Dispatch
<1>2. CASE AlarmTimeout
    BY <1>2 DEF AlarmTimeout, daemonVars, clientVars, TypeOK, CopiesAgree,
                CookiesUnique, WatchesHold, Holders
<1>3. CASE Restart
    <2>1. inbox' \in Seq(Message)
        BY <1>3 DEF Restart
    <2>2. TypeOK'
        <3>1. inhibitors' \subseteq Inhibitor /\ watched' \subseteq Conns
            BY <1>3 DEF Restart
        <3>2. inhibited' \in BOOLEAN /\ managerInhibited' \in BOOLEAN /\ powerInhibited' \in BOOLEAN
            BY <1>3 DEF Restart
        <3>3. sleeps' \in Nat /\ restarts' \in Nat /\ drops' \in Nat
            BY <1>3 DEF Restart, TypeOK
        <3>4. /\ online' \subseteq Conns
              /\ owner' \in [Names -> Conns \cup {NoConn}]
              /\ held' \in [Conns -> SUBSET Cookie]
            BY <1>3 DEF Restart, TypeOK
        <3> QED
            BY <2>1, <3>1, <3>2, <3>3, <3>4 DEF TypeOK
    <2>3. CopiesAgree'
        BY <1>3 DEF Restart, CopiesAgree
    <2>4. CookiesUnique' /\ WatchesHold'
        BY <1>3 DEF Restart, CookiesUnique, WatchesHold
    <2> QED
        BY <2>2, <2>3, <2>4
<1>4. ASSUME NEW c \in Conns, ClientInhibits(c) PROVE IInv'
    <2>1. InhibitCall(c) \in Message
        BY DEF InhibitCall, Message
    <2>2. inbox' \in Seq(Message)
        BY <1>4, <2>1, SendInbox DEF ClientInhibits, TypeOK
    <2> QED
        BY <1>4, <2>2 DEF ClientInhibits, daemonVars, TypeOK, CopiesAgree,
                CookiesUnique, WatchesHold, Holders
<1>5. ASSUME NEW c \in Conns, ClientReleases(c) PROVE IInv'
    <2>1. PICK k \in held[c] : held' = [held EXCEPT ![c] = @ \ {k}] /\ Send(UnInhibitCall(k))
        BY <1>5 DEF ClientReleases
    <2>2. UnInhibitCall(k) \in Message
        <3>1. k \in Cookie
            BY <2>1 DEF TypeOK
        <3> QED
            BY <3>1 DEF UnInhibitCall, Message
    <2>3. inbox' \in Seq(Message)
        BY <2>1, <2>2, SendInbox DEF TypeOK
    <2>4. held' \in [Conns -> SUBSET Cookie]
        BY <2>1 DEF TypeOK
    <2> QED
        BY <1>5, <2>3, <2>4 DEF ClientReleases, daemonVars, TypeOK, CopiesAgree,
                CookiesUnique, WatchesHold, Holders
<1>6. ASSUME NEW c \in Conns, ClientExits(c) PROVE IInv'
    <2>1. OwnerLost(c) \in Message
        BY DEF OwnerLost, Message
    <2>2. inbox' \in Seq(Message)
        BY <1>6, <2>1, SendInbox DEF ClientExits, TypeOK
    <2> QED
        BY <1>6, <2>2 DEF ClientExits, daemonVars, TypeOK, CopiesAgree,
                CookiesUnique, WatchesHold, Holders
<1>7. ASSUME NEW c \in Conns, NEW n \in Names, ClientOwnsName(c, n) PROVE IInv'
    BY <1>7 DEF ClientOwnsName, daemonVars, TypeOK, CopiesAgree,
                CookiesUnique, WatchesHold, Holders
<1>8. ASSUME NEW c \in Conns, NEW n \in Names, ClientDropsName(c, n) PROVE IInv'
    <2>1. OwnerLost(c) \in Message
        BY DEF OwnerLost, Message
    <2>2. inbox' \in Seq(Message)
        BY <1>8, <2>1, SendInbox DEF ClientDropsName, TypeOK
    <2> QED
        BY <1>8, <2>2 DEF ClientDropsName, daemonVars, TypeOK, CopiesAgree,
                CookiesUnique, WatchesHold, Holders
<1>9. CASE UNCHANGED vars
    BY <1>9 DEF vars, daemonVars, clientVars, TypeOK, CopiesAgree,
                CookiesUnique, WatchesHold, Holders
<1> QED
    BY <1>1, <1>2, <1>3, <1>4, <1>5, <1>6, <1>7, <1>8, <1>9 DEF Next

(* The invariant holds in every reachable state. *)
THEOREM IInvAlways == Spec => []IInv
BY IInvInit, IInvNext, PTL DEF Spec

(* Type correctness, for any clients, names and bounds. *)
THEOREM TypeCorrect == Spec => []TypeOK
<1>1. IInv => TypeOK
    BY DEF IInv
<1> QED
    BY <1>1, IInvAlways, PTL

(* HasInhibit and both copies of the flag tell the truth about the list in  *)
(* every reachable state: nobody sleeps on a stale copy. *)
THEOREM CopiesAlwaysAgree == Spec => []CopiesAgree
<1>1. IInv => CopiesAgree
    BY DEF IInv
<1> QED
    BY <1>1, IInvAlways, PTL

(* No two live inhibitors ever share a cookie, however cookies are drawn    *)
(* and released, restarts included. *)
THEOREM CookiesAlwaysUnique == Spec => []CookiesUnique
<1>1. IInv => CookiesUnique
    BY DEF IInv
<1> QED
    BY <1>1, IInvAlways, PTL

(* A watched name always has an inhibitor left. *)
THEOREM WatchesAlwaysHold == Spec => []WatchesHold
<1>1. IInv => WatchesHold
    BY DEF IInv
<1> QED
    BY <1>1, IInvAlways, PTL

-----------------------------------------------------------------------------
(* Held cookies, and what is on its way to the daemon.                      *)

Entry(k, c) == [cookie |-> k, conn |-> c]

HeldLive == \A c \in online : \A k \in held[c] : Entry(k, c) \in inhibitors

\* A release on its way finds the inhibitor it is meant for, whose client has given the cookie
\* up and is not reported lost before.
Released ==
    \A p \in 1..Len(inbox) : inbox[p].kind = "uninhibit" =>
        \E c \in Conns :
            /\ Entry(inbox[p].cookie, c) \in inhibitors
            /\ inbox[p].cookie \notin held[c]
            /\ \A q \in 1..Len(inbox) : inbox[q] = OwnerLost(c) => p < q

ReleasedOnce ==
    \A p, q \in 1..Len(inbox) :
        inbox[p].kind = "uninhibit" /\ inbox[q] = inbox[p] => p = q

\* Only clients that left the bus are reported lost.
Left == \A q \in 1..Len(inbox) : inbox[q].kind = "ownerlost" => inbox[q].conn \notin online

Delivered == NothingForgotten => HeldLive /\ Released /\ ReleasedOnce /\ Left

(* Taking a message from the inbox, as an index sees it. *)
LEMMA TakenInbox ==
    ASSUME inbox \in Seq(Message), inbox # <<>>, inbox' = Tail(inbox)
    PROVE  /\ Len(inbox) \in Nat \ {0} /\ Head(inbox) = inbox[1]
           /\ Len(inbox') = Len(inbox) - 1
           /\ \A p \in 1..Len(inbox') : p + 1 \in 1..Len(inbox) /\ inbox'[p] = inbox[p + 1]
OBVIOUS

(* Sending, as an index sees it. *)
LEMMA SentInbox ==
    ASSUME inbox \in Seq(Message), NEW m \in Message, Send(m)
    PROVE  /\ Len(inbox) \in Nat /\ Len(inbox') = Len(inbox) + 1
           /\ \A p \in 1..Len(inbox) : inbox'[p] = inbox[p]
           /\ inbox'[Len(inbox) + 1] = m
           /\ \A p \in 1..Len(inbox') : p \in 1..Len(inbox) \/ p = Len(inbox) + 1
BY DEF Send

(* The messages behind the first keep their meaning if their inhibitors stay. *)
LEMMA RestKept ==
    ASSUME inbox \in Seq(Message), inbox # <<>>, inbox' = Tail(inbox),
           Released, ReleasedOnce, Left, online' = online,
           \A p \in 2..Len(inbox), c \in Conns :
             /\ inbox[p].kind = "uninhibit" /\ Entry(inbox[p].cookie, c) \in inhibitors
             /\ inbox[p].cookie \notin held[c] /\ inbox[1] # OwnerLost(c)
             => Entry(inbox[p].cookie, c) \in inhibitors' /\ inbox[p].cookie \notin held'[c]
    PROVE  Released' /\ ReleasedOnce' /\ Left'
<1>1. /\ Len(inbox) \in Nat \ {0} /\ Len(inbox') = Len(inbox) - 1
      /\ \A p \in 1..Len(inbox') : p + 1 \in 1..Len(inbox) /\ inbox'[p] = inbox[p + 1]
    BY TakenInbox
<1>2. Released'
    <2> SUFFICES ASSUME NEW p \in 1..Len(inbox'), inbox'[p].kind = "uninhibit"
                 PROVE  \E c \in Conns :
                            /\ Entry(inbox'[p].cookie, c) \in inhibitors'
                            /\ inbox'[p].cookie \notin held'[c]
                            /\ \A q \in 1..Len(inbox') : inbox'[q] = OwnerLost(c) => p < q
        BY DEF Released, Entry, OwnerLost
    <2>1. p + 1 \in 2..Len(inbox) /\ p + 1 \in 1..Len(inbox) /\ inbox'[p] = inbox[p + 1]
        BY <1>1
    <2>2. PICK c \in Conns :
            /\ Entry(inbox[p + 1].cookie, c) \in inhibitors
            /\ inbox[p + 1].cookie \notin held[c]
            /\ \A q \in 1..Len(inbox) : inbox[q] = OwnerLost(c) => p + 1 < q
        BY <2>1 DEF Released
    <2>3. inbox[1] # OwnerLost(c)
        BY <1>1, <2>2
    <2>4. Entry(inbox'[p].cookie, c) \in inhibitors' /\ inbox'[p].cookie \notin held'[c]
        BY <2>1, <2>2, <2>3
    <2>5. ASSUME NEW q \in 1..Len(inbox'), inbox'[q] = OwnerLost(c) PROVE p < q
        BY <1>1, <2>2, <2>5
    <2> QED
        BY <2>4, <2>5
<1>3. ReleasedOnce'
    <2> SUFFICES ASSUME NEW p \in 1..Len(inbox'), NEW q \in 1..Len(inbox'),
                        inbox'[p].kind = "uninhibit", inbox'[q] = inbox'[p]
                 PROVE  p = q
        BY DEF ReleasedOnce
    <2>1. p + 1 = q + 1
        BY <1>1 DEF ReleasedOnce
    <2> QED
        BY <1>1, <2>1
<1>4. Left'
    BY <1>1 DEF Left
<1> QED
    BY <1>2, <1>3, <1>4

(* A message at the end leaves those before it as they are. *)
LEMMA FormerKept ==
    ASSUME inbox \in Seq(Message), NEW m \in Message, Send(m), inhibitors' = inhibitors,
           online' \subseteq online, \A c \in Conns : held'[c] \subseteq held[c],
           Released, ReleasedOnce, Left,
           m.kind = "ownerlost" => m.conn \notin online',
           m.kind = "uninhibit" =>
             /\ \A p \in 1..Len(inbox) : inbox[p] # m
             /\ \E c \in Conns :
                  /\ Entry(m.cookie, c) \in inhibitors /\ m.cookie \notin held'[c]
                  /\ c \in online
    PROVE  Released' /\ ReleasedOnce' /\ Left'
<1>1. /\ Len(inbox) \in Nat /\ Len(inbox') = Len(inbox) + 1
      /\ \A p \in 1..Len(inbox) : inbox'[p] = inbox[p]
      /\ inbox'[Len(inbox) + 1] = m
      /\ \A p \in 1..Len(inbox') : p \in 1..Len(inbox) \/ p = Len(inbox) + 1
    BY SentInbox
<1>2. Released'
    <2> SUFFICES ASSUME NEW p \in 1..Len(inbox'), inbox'[p].kind = "uninhibit"
                 PROVE  \E c \in Conns :
                            /\ Entry(inbox'[p].cookie, c) \in inhibitors'
                            /\ inbox'[p].cookie \notin held'[c]
                            /\ \A q \in 1..Len(inbox') : inbox'[q] = OwnerLost(c) => p < q
        BY DEF Released, Entry, OwnerLost
    <2>1. CASE p \in 1..Len(inbox)
        <3>1. PICK c \in Conns :
                /\ Entry(inbox[p].cookie, c) \in inhibitors
                /\ inbox[p].cookie \notin held[c]
                /\ \A q \in 1..Len(inbox) : inbox[q] = OwnerLost(c) => p < q
            BY <1>1, <2>1 DEF Released
        <3>2. \A q \in 1..Len(inbox') : inbox'[q] = OwnerLost(c) => p < q
            BY <1>1, <2>1, <3>1
        <3>3. Entry(inbox'[p].cookie, c) \in inhibitors' /\ inbox'[p].cookie \notin held'[c]
            BY <1>1, <2>1, <3>1
        <3> QED
            BY <3>2, <3>3
    <2>2. CASE p = Len(inbox) + 1
        <3>0. inbox'[p] = m
            BY <1>1, <2>2
        <3>1. PICK c \in Conns :
                /\ Entry(m.cookie, c) \in inhibitors /\ m.cookie \notin held'[c]
                /\ c \in online
            BY <3>0
        <3>2. ASSUME NEW q \in 1..Len(inbox'), inbox'[q] = OwnerLost(c) PROVE FALSE
            <4>1. OwnerLost(c).kind = "ownerlost" /\ OwnerLost(c).conn = c
                BY DEF OwnerLost
            <4>2. q \in 1..Len(inbox)
                BY <1>1, <3>0, <3>2, <4>1
            <4>3. inbox[q] = OwnerLost(c)
                BY <1>1, <3>2, <4>2
            <4> QED
                BY <3>1, <4>1, <4>2, <4>3 DEF Left
        <3> QED
            BY <3>0, <3>1, <3>2
    <2> QED
        BY <1>1, <2>1, <2>2
<1>3. ReleasedOnce'
    BY <1>1 DEF ReleasedOnce
<1>4. Left'
    BY <1>1 DEF Left
<1> QED
    BY <1>2, <1>3, <1>4

LEMMA DeliveredInit == Init => Delivered
BY DEF Init, Delivered, HeldLive, Released, ReleasedOnce, Left

(* Each step keeps it: an answer adds an entry, and an entry goes by a      *)
(* release that finds its own, or with a client that left.                  *)
LEMMA DeliveredNext == IInv /\ Delivered /\ [Next]_vars => Delivered'
<1> SUFFICES ASSUME IInv, Delivered, [Next]_vars, NothingForgotten'
             PROVE  HeldLive' /\ Released' /\ ReleasedOnce' /\ Left'
    BY DEF Delivered
<1>0. /\ inbox \in Seq(Message) /\ inhibitors \subseteq Inhibitor /\ online \subseteq Conns
      /\ held \in [Conns -> SUBSET Cookie] /\ drops \in Nat /\ restarts \in Nat
    BY DEF IInv, TypeOK
<1>1. NothingForgotten
    BY <1>0 DEF Next, Dispatch, AlarmTimeout, Restart, ClientInhibits, ClientReleases, ClientExits,
                ClientOwnsName, ClientDropsName, vars, NothingForgotten
<1>2. HeldLive /\ Released /\ ReleasedOnce /\ Left
    BY <1>1 DEF Delivered
<1>3. CASE Dispatch
    <2> DEFINE m == Head(inbox)
    <2>1. inbox # <<>> /\ inbox' = Tail(inbox) /\ m = inbox[1] /\ m \in Message /\ 1 \in 1..Len(inbox)
        BY <1>0, <1>3, TakenInbox DEF Dispatch
    <2>2. online' = online
        BY <1>3 DEF Dispatch, DispatchInhibit, DispatchUnInhibit, DispatchUnknownCookie,
                    DispatchOwnerLost, clientVars
    <2> HIDE DEF m
    <2>3. CASE DispatchInhibit(m)
        <3>1. m.conn \in Conns
            BY <2>1, <2>3, MessageKinds DEF DispatchInhibit
        <3>2. PICK k \in 0..MaxCookie :
                /\ GetCookie(k)
                /\ inhibitors' = inhibitors \cup {Entry(k, m.conn)}
                /\ held' = [held EXCEPT ![m.conn] = @ \cup {k}]
            BY <2>3 DEF DispatchInhibit, Entry
        <3>3. \A i \in inhibitors : i.cookie < k /\ i.cookie \in Nat
            BY <1>0, <3>2, FreshCookie DEF IInv, Inhibitor, Cookie
        <3>4. HeldLive'
            BY <1>0, <1>2, <2>2, <3>1, <3>2 DEF HeldLive, Entry
        <3>5. ASSUME NEW j, NEW c \in Conns, Entry(j, c) \in inhibitors, j \notin held[c]
              PROVE  Entry(j, c) \in inhibitors' /\ j \notin held'[c]
            <4>1. j < k /\ j \in Nat
                BY <3>3, <3>5 DEF Entry
            <4>2. j # k
                BY <3>2, <4>1
            <4> QED
                BY <1>0, <3>1, <3>2, <3>5, <4>2
        <3> QED
            BY <1>0, <1>2, <2>1, <2>2, <3>4, <3>5, RestKept
    <2>4. CASE DispatchUnInhibit(m)
        <3>1. PICK i \in inhibitors : i.cookie = m.cookie /\ inhibitors' = inhibitors \ {i}
            BY <2>4 DEF DispatchUnInhibit
        <3>2. held' = held /\ m.kind = "uninhibit"
            BY <2>4 DEF DispatchUnInhibit, clientVars
        <3>3. PICK c \in Conns : Entry(m.cookie, c) \in inhibitors /\ m.cookie \notin held[c]
            BY <1>2, <2>1, <3>2 DEF Released
        <3>4. i = Entry(m.cookie, c)
            BY <3>1, <3>3 DEF IInv, CookiesUnique, Entry
        <3>5. HeldLive'
            <4> SUFFICES ASSUME NEW d \in online, NEW k \in held[d] PROVE Entry(k, d) # i
                BY <1>2, <2>2, <3>1, <3>2 DEF HeldLive
            <4> QED
                BY <3>3, <3>4 DEF Entry
        <3>6. ASSUME NEW p \in 2..Len(inbox), NEW d \in Conns, inbox[p].kind = "uninhibit"
              PROVE  Entry(inbox[p].cookie, d) # i
            <4>1. inbox[p] \in Message /\ p \in 1..Len(inbox) /\ p # 1
                BY <1>0, <3>6
            <4>2. inbox[p] # m
                BY <1>2, <2>1, <3>2, <4>1 DEF ReleasedOnce
            <4>3. inbox[p].cookie # m.cookie
                BY <2>1, <3>2, <3>6, <4>1, <4>2 DEF Message
            <4> QED
                BY <3>1, <4>3 DEF Entry
        <3> QED
            BY <1>0, <1>2, <2>1, <2>2, <3>1, <3>2, <3>5, <3>6, RestKept
    <2>5. CASE DispatchUnknownCookie(m)
        <3>1. inhibitors' = inhibitors /\ held' = held
            BY <2>5 DEF DispatchUnknownCookie, daemonVars, clientVars
        <3> QED
            BY <1>0, <1>2, <2>1, <2>2, <3>1, RestKept DEF HeldLive
    <2>6. CASE DispatchOwnerLost(m)
        <3>1. m.kind = "ownerlost" /\ held' = held
            BY <2>6 DEF DispatchOwnerLost, clientVars
        <3>2. inhibitors \ FirstOf(m.conn) \subseteq inhibitors'
            BY <2>6 DEF DispatchOwnerLost, daemonVars
        <3>3. m.conn \notin online /\ m = OwnerLost(m.conn)
            BY <1>2, <2>1, <3>1 DEF Left, OwnerLost, Message
        <3>4. ASSUME NEW k, NEW c, Entry(k, c) \in inhibitors, c # m.conn
              PROVE  Entry(k, c) \in inhibitors'
            BY <3>2, <3>4 DEF FirstOf, Entry
        <3>5. HeldLive'
            BY <1>2, <2>2, <3>1, <3>3, <3>4 DEF HeldLive
        <3> QED
            BY <1>0, <1>2, <2>1, <2>2, <3>1, <3>3, <3>4, <3>5, RestKept
    <2> QED
        BY <1>3, <2>3, <2>4, <2>5, <2>6 DEF Dispatch, m
<1>4. CASE AlarmTimeout \/ UNCHANGED vars
    BY <1>2, <1>4 DEF AlarmTimeout, vars, daemonVars, clientVars, HeldLive, Released, ReleasedOnce, Left
<1>5. CASE Restart
    BY <1>0, <1>5 DEF Restart, NothingForgotten
<1>6. ASSUME NEW c \in Conns, ClientInhibits(c)
      PROVE  HeldLive' /\ Released' /\ ReleasedOnce' /\ Left'
    <2>1. InhibitCall(c) \in Message /\ InhibitCall(c).kind = "inhibit"
        BY DEF InhibitCall, Message
    <2>2. Send(InhibitCall(c)) /\ inhibitors' = inhibitors /\ online' = online /\ held' = held
        BY <1>6 DEF ClientInhibits, daemonVars
    <2> QED
        BY <1>0, <1>2, <2>1, <2>2, FormerKept DEF HeldLive
<1>7. ASSUME NEW c \in Conns, ClientReleases(c)
      PROVE  HeldLive' /\ Released' /\ ReleasedOnce' /\ Left'
    <2>1. PICK k \in held[c] : held' = [held EXCEPT ![c] = @ \ {k}] /\ Send(UnInhibitCall(k))
        BY <1>7 DEF ClientReleases
    <2>2. c \in online /\ inhibitors' = inhibitors /\ online' = online
        BY <1>7 DEF ClientReleases, daemonVars
    <2>3. k \in Cookie
        BY <1>0, <2>1
    <2> DEFINE m == UnInhibitCall(k)
    <2>4. m \in Message /\ m.kind = "uninhibit" /\ m.cookie = k
        BY <2>3 DEF UnInhibitCall, Message
    <2>5. Entry(k, c) \in inhibitors
        BY <1>2, <2>1, <2>2 DEF HeldLive
    <2>6. k \notin held'[c] /\ \A d \in Conns : held'[d] \subseteq held[d]
        BY <1>0, <2>1
    <2>7. ASSUME NEW p \in 1..Len(inbox), inbox[p] = m PROVE FALSE
        <3>1. PICK d \in Conns : Entry(k, d) \in inhibitors /\ k \notin held[d]
            BY <1>2, <2>4, <2>7 DEF Released
        <3>2. Entry(k, d) = Entry(k, c)
            BY <2>5, <3>1 DEF IInv, CookiesUnique, Entry
        <3> QED
            BY <2>1, <3>1, <3>2 DEF Entry
    <2>8. HeldLive'
        BY <1>0, <1>2, <2>2, <2>6 DEF HeldLive
    <2> HIDE DEF m
    <2>9. Send(m)
        BY <2>1 DEF m
    <2> QED
        BY <1>0, <1>2, <2>2, <2>4, <2>5, <2>6, <2>7, <2>8, <2>9, FormerKept
<1>8. ASSUME NEW c \in Conns, ClientExits(c) PROVE HeldLive' /\ Released' /\ ReleasedOnce' /\ Left'
    <2>1. OwnerLost(c) \in Message /\ OwnerLost(c).kind = "ownerlost" /\ OwnerLost(c).conn = c
        BY DEF OwnerLost, Message
    <2>2. Send(OwnerLost(c)) /\ inhibitors' = inhibitors /\ online' = online \ {c} /\ held' = held
        BY <1>8 DEF ClientExits, daemonVars
    <2> QED
        BY <1>0, <1>2, <2>1, <2>2, FormerKept DEF HeldLive
<1>9. ASSUME NEW c \in Conns, NEW n \in Names, ClientOwnsName(c, n)
      PROVE  HeldLive' /\ Released' /\ ReleasedOnce' /\ Left'
    BY <1>2, <1>9 DEF ClientOwnsName, daemonVars, HeldLive, Released, ReleasedOnce, Left
<1>10. ASSUME NEW c \in Conns, NEW n \in Names, ClientDropsName(c, n) PROVE FALSE
    BY <1>0, <1>10 DEF ClientDropsName, NothingForgotten
<1> QED
    BY <1>3, <1>4, <1>5, <1>6, <1>7, <1>8, <1>9, <1>10 DEF Next

LEMMA DeliveredAlways == Spec => []Delivered
BY IInvAlways, DeliveredInit, DeliveredNext, PTL DEF Spec

(* Cookies that connected clients hold are live, for any number of clients, *)
(* cookies and names, as long as no name was given up and the daemon was    *)
(* not restarted.                                                           *)
THEOREM HeldCookiesAlwaysLive == Spec => []HeldCookiesLive
<1>1. Delivered => HeldCookiesLive
    BY DEF Delivered, HeldLive, HeldCookiesLive, Entry
<1> QED
    BY <1>1, DeliveredAlways, PTL

(* The idle sleep never starts while a connected client holds a cookie,     *)
(* under the same condition: the cookie has an entry, a list that is not    *)
(* empty sets the flag, and the manager's copy follows the flag.            *)
THEOREM NeverIdleSleepWhileHeld == Spec => NoIdleSleepWhileHeld
<1>1. IInv /\ Delivered /\ [Next]_vars
      => [sleeps' # sleeps /\ NothingForgotten => \A c \in online : held[c] = {}]_vars
    <2> SUFFICES ASSUME IInv, Delivered, [Next]_vars, sleeps' # sleeps, NothingForgotten,
                        NEW c \in online, NEW k \in held[c]
                 PROVE  FALSE
        BY DEF IInv, TypeOK
    <2>1. AlarmTimeout
        BY DEF Next, Dispatch, Restart, ClientInhibits, ClientReleases, ClientExits,
               ClientOwnsName, ClientDropsName, vars
    <2>2. inhibitors = {}
        BY <2>1 DEF AlarmTimeout, IInv, CopiesAgree, TypeOK
    <2> QED
        BY <2>2 DEF Delivered, HeldLive
<1> QED
    BY <1>1, IInvAlways, DeliveredAlways, PTL DEF Spec, NoIdleSleepWhileHeld

-----------------------------------------------------------------------------
(* The contract: every step is one of the contract's, or changes nothing it *)
(* speaks of.                                                               *)

Wanting == {c \in Plain \cap online : held[c] # {}}
Kept    == Plain \cap Holders

LEMMA ContractInit == Init => Contract!CInit
BY DEF Init, Contract!CInit, Holders, NothingForgotten

(* The flag after a step, in the contract's terms. *)
LEMMA FlagInForce == IInv' => Contract!InForce
BY DEF IInv, CopiesAgree, Contract!InForce, Holders

LEMMA ContractDispatch ==
    ASSUME IInv, IInv', Delivered, Dispatch
    PROVE  [Contract!CNext]_(Contract!cvars)
<1> DEFINE m == Head(inbox)
<1>0. /\ m \in Message /\ m = inbox[1] /\ 1 \in 1..Len(inbox)
      /\ held \in [Conns -> SUBSET Cookie] /\ Plain \subseteq Conns
    <2>1. inbox \in Seq(Message) /\ inbox # <<>> /\ inbox' = Tail(inbox)
        BY DEF Dispatch, IInv, TypeOK
    <2> QED
        BY <2>1, TakenInbox, InhibitAssumption DEF IInv, TypeOK
<1>1. Contract!InForce
    BY FlagInForce
<1>2. online' = online /\ NothingForgotten' = NothingForgotten
    BY DEF Dispatch, DispatchInhibit, DispatchUnInhibit, DispatchUnknownCookie,
           DispatchOwnerLost, clientVars, NothingForgotten
<1> HIDE DEF m
<1>3. CASE DispatchInhibit(m)
    <2>1. PICK k \in 0..MaxCookie :
            /\ inhibitors' = inhibitors \cup {Entry(k, m.conn)}
            /\ held' = [held EXCEPT ![m.conn] = @ \cup {k}]
        BY <1>3 DEF DispatchInhibit, Entry
    <2>2. m.conn \in Conns
        BY <1>0, <1>3, MessageKinds DEF DispatchInhibit
    <2>3. Holders' = Holders \cup {m.conn}
        <3> DEFINE new == Entry(k, m.conn)
        <3>1. new.conn = m.conn
            BY DEF Entry
        <3> HIDE DEF new
        <3>2. inhibitors' = inhibitors \cup {new}
            BY <2>1 DEF new
        <3> QED
            BY <3>1, <3>2 DEF Holders
    <2>4. CASE m.conn \in Plain
        <3>1. Kept' = Kept \cup {m.conn}
            BY <2>3, <2>4 DEF Kept
        <3>2. Wanting' \in {Wanting, Wanting \cup {m.conn}}
            <4>1. \A c \in Conns : held'[c] = IF c = m.conn THEN held[c] \cup {k} ELSE held[c]
                BY <1>0, <2>1, <2>2
            <4>2. CASE m.conn \in online
                BY <1>0, <1>2, <2>4, <4>1, <4>2 DEF Wanting
            <4>3. CASE m.conn \notin online
                BY <1>0, <1>2, <4>1, <4>3 DEF Wanting
            <4> QED
                BY <4>2, <4>3
        <3> QED
            BY <1>1, <1>2, <2>4, <3>1, <3>2
               DEF Contract!CNext, Contract!Grant, Wanting, Kept
    <2>5. CASE m.conn \notin Plain
        <3>1. Kept' = Kept
            BY <2>3, <2>5 DEF Kept
        <3>2. Wanting' = Wanting
            BY <1>0, <1>2, <2>1, <2>2, <2>5 DEF Wanting
        <3> QED
            BY <1>1, <1>2, <3>1, <3>2 DEF Contract!CNext, Contract!Others, Wanting, Kept
    <2> QED
        BY <2>4, <2>5
\* An entry goes, and with it perhaps the last one of its client.
<1>4. ASSUME NEW c \in Conns, held' = held, inhibitors' \subseteq inhibitors,
             \A i \in inhibitors : i.conn # c => i \in inhibitors',
             NothingForgotten /\ c \in online /\ held[c] # {} => c \in Holders'
      PROVE  [Contract!CNext]_(Contract!cvars)
    <2>1. Wanting' = Wanting
        BY <1>2, <1>4 DEF Wanting
    <2>2. Holders' \subseteq Holders /\ Holders \subseteq Holders' \cup {c}
        BY <1>4 DEF Holders
    <2>3. CASE c \in Kept /\ c \notin Kept'
        <3>1. Kept' = Kept \ {c} /\ c \in Plain
            BY <2>2, <2>3 DEF Kept
        <3>2. c \notin Wanting \/ ~NothingForgotten
            BY <1>4, <2>3 DEF Wanting, Kept
        <3> QED
            BY <1>1, <1>2, <2>1, <2>3, <3>1, <3>2 DEF Contract!CNext, Contract!Drop, Wanting, Kept
    <2>4. CASE ~(c \in Kept /\ c \notin Kept')
        <3>1. Kept' = Kept
            BY <2>2, <2>4 DEF Kept
        <3> QED
            BY <1>1, <1>2, <2>1, <3>1 DEF Contract!CNext, Contract!Others, Wanting, Kept
    <2> QED
        BY <2>3, <2>4
<1>5. CASE DispatchUnInhibit(m)
    <2>1. PICK i \in inhibitors : i.cookie = m.cookie /\ inhibitors' = inhibitors \ {i}
        BY <1>5 DEF DispatchUnInhibit
    <2>2. held' = held /\ m.kind = "uninhibit"
        BY <1>5 DEF DispatchUnInhibit, clientVars
    <2>3. i.conn \in Conns /\ i = Entry(i.cookie, i.conn)
        BY <2>1 DEF IInv, TypeOK, Inhibitor, Entry
    <2>4. ASSUME NothingForgotten, i.conn \in online, NEW k \in held[i.conn]
          PROVE  i.conn \in Holders'
        <3>1. Entry(k, i.conn) \in inhibitors
            BY <2>4 DEF Delivered, HeldLive
        <3>2. PICK c \in Conns : Entry(m.cookie, c) \in inhibitors /\ m.cookie \notin held[c]
            BY <1>0, <2>2, <2>4 DEF Delivered, Released
        <3>3. i = Entry(m.cookie, c)
            BY <2>1, <3>2 DEF IInv, CookiesUnique, Entry
        <3>4. Entry(k, i.conn) # i
            BY <2>4, <3>2, <3>3 DEF Entry
        <3>5. Entry(k, i.conn) \in inhibitors' /\ Entry(k, i.conn).conn = i.conn
            BY <2>1, <3>1, <3>4 DEF Entry
        <3> QED
            BY <3>5 DEF Holders
    <2> QED
        BY <1>4, <2>1, <2>2, <2>3, <2>4
<1>6. CASE DispatchUnknownCookie(m)
    BY <1>2, <1>6 DEF DispatchUnknownCookie, daemonVars, clientVars, Holders, Contract!cvars
<1>7. CASE DispatchOwnerLost(m)
    <2>1. m.conn \in Conns /\ m.kind = "ownerlost" /\ held' = held
        BY <1>0, <1>7, MessageKinds DEF DispatchOwnerLost, clientVars
    <2>2. inhibitors' = inhibitors \/ inhibitors' = inhibitors \ FirstOf(m.conn)
        BY <1>7 DEF DispatchOwnerLost, daemonVars
    <2>3. inhibitors' \subseteq inhibitors /\ \A i \in inhibitors : i.conn # m.conn => i \in inhibitors'
        BY <2>2 DEF FirstOf
    <2>4. NothingForgotten => m.conn \notin online
        BY <1>0, <2>1 DEF Delivered, Left
    <2> QED
        BY <1>4, <2>1, <2>3, <2>4
<1> QED
    BY <1>3, <1>5, <1>6, <1>7 DEF Dispatch, m

LEMMA ContractNext ==
    ASSUME IInv, IInv', Delivered, [Next]_vars
    PROVE  [Contract!CNext]_(Contract!cvars)
<1>0. held \in [Conns -> SUBSET Cookie] /\ Plain \subseteq Conns /\ drops \in Nat /\ restarts \in Nat
    BY InhibitAssumption DEF IInv, TypeOK
<1>1. Contract!InForce
    BY FlagInForce
<1>2. ASSUME UNCHANGED <<inhibitors, inhibited, online, held, drops, restarts>>
      PROVE  [Contract!CNext]_(Contract!cvars)
    BY <1>2 DEF Holders, NothingForgotten, Contract!cvars
<1>3. CASE AlarmTimeout \/ UNCHANGED vars
    BY <1>2, <1>3 DEF AlarmTimeout, vars, daemonVars, clientVars
<1>4. CASE Restart
    <2>1. Wanting' = Wanting /\ Kept' = {} /\ ~NothingForgotten'
        BY <1>0, <1>4 DEF Restart, Wanting, Kept, Holders, NothingForgotten
    <2> QED
        BY <1>1, <2>1 DEF Contract!CNext, Contract!Forget, Wanting, Kept
<1>5. ASSUME NEW c \in Conns, ClientInhibits(c) \/ (\E n \in Names : ClientOwnsName(c, n))
      PROVE  [Contract!CNext]_(Contract!cvars)
    BY <1>2, <1>5 DEF ClientInhibits, ClientOwnsName, daemonVars
\* A client gives up a cookie or leaves: it wants no more, or as before.
<1>6. ASSUME NEW c \in Conns, UNCHANGED <<inhibitors, inhibited, drops, restarts>>,
             Wanting' = Wanting \/ (c \in Plain /\ Wanting' = Wanting \ {c})
      PROVE  [Contract!CNext]_(Contract!cvars)
    <2>1. Kept' = Kept /\ NothingForgotten' = NothingForgotten
        BY <1>6 DEF Kept, Holders, NothingForgotten
    <2> QED
        BY <1>1, <1>6, <2>1
           DEF Contract!CNext, Contract!Others, Contract!Withdraw, Wanting, Kept
<1>7. ASSUME NEW c \in Conns, ClientReleases(c) PROVE [Contract!CNext]_(Contract!cvars)
    <2>1. PICK k \in held[c] : held' = [held EXCEPT ![c] = @ \ {k}]
        BY <1>7 DEF ClientReleases
    <2>2. online' = online /\ UNCHANGED <<inhibitors, inhibited, drops, restarts>>
        BY <1>7 DEF ClientReleases, daemonVars
    <2>3. \A d \in Conns : held'[d] = IF d = c THEN held[d] \ {k} ELSE held[d]
        BY <1>0, <2>1
    <2>4. CASE held[c] \ {k} = {} /\ c \in Plain
        <3>1. Wanting' = Wanting \ {c}
            BY <1>0, <2>2, <2>3, <2>4 DEF Wanting
        <3> QED
            BY <1>6, <2>2, <2>4, <3>1
    <2>5. CASE ~(held[c] \ {k} = {} /\ c \in Plain)
        <3>1. Wanting' = Wanting
            BY <1>0, <2>1, <2>2, <2>3, <2>5 DEF Wanting
        <3> QED
            BY <1>6, <2>2, <3>1
    <2> QED
        BY <2>4, <2>5
<1>8. ASSUME NEW c \in Conns, ClientExits(c) PROVE [Contract!CNext]_(Contract!cvars)
    <2>1. online' = online \ {c} /\ held' = held /\ UNCHANGED <<inhibitors, inhibited, drops, restarts>>
        BY <1>8 DEF ClientExits, daemonVars
    <2>2. Wanting' = Wanting \ {c} /\ (c \notin Plain => Wanting' = Wanting)
        BY <2>1 DEF Wanting
    <2>3. CASE c \in Plain
        BY <1>6, <2>1, <2>2, <2>3
    <2>4. CASE c \notin Plain
        BY <1>6, <2>1, <2>2, <2>4
    <2> QED
        BY <2>3, <2>4
<1>9. ASSUME NEW c \in Conns, NEW n \in Names, ClientDropsName(c, n)
      PROVE  [Contract!CNext]_(Contract!cvars)
    <2>1. Wanting' = Wanting /\ Kept' = Kept /\ ~NothingForgotten'
        BY <1>0, <1>9 DEF ClientDropsName, daemonVars, Wanting, Kept, Holders, NothingForgotten
    <2> QED
        BY <1>1, <2>1 DEF Contract!CNext, Contract!Forget, Wanting, Kept
<1> QED
    BY <1>3, <1>4, <1>5, <1>7, <1>8, <1>9, ContractDispatch DEF Next

(* The service implements the contract's safety for any clients, names and  *)
(* bounds: it begins as the contract does, and each of its steps is a step  *)
(* of the contract or changes nothing of it.                                *)
THEOREM ImplementsSafety == Spec => Contract!CInit /\ [][Contract!CNext]_(Contract!cvars)
<1>1. IInv /\ IInv' /\ Delivered /\ [Next]_vars => [Contract!CNext]_(Contract!cvars)
    BY ContractNext
<1> QED
    BY <1>1, ContractInit, IInvAlways, DeliveredAlways, PTL DEF Spec
=============================================================================
