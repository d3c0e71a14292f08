---------------------------- MODULE ServerProofs ----------------------------
(***************************************************************************)
(* Proofs about Server: typing, that addresses are exclusive and correctly *)
(* routed, that the limit per user is kept, and that the handlers          *)
(* implement the lease of addresses, for any number of connections, users, *)
(* addresses and administrative events.                                    *)
(***************************************************************************)
EXTENDS Server, SequenceTheorems, FiniteSetTheorems, TLAPS

\* What remains of a per-user list when a socket leaves it: a list, shorter by
\* one if the socket was there, of the same other sockets, without repetition.
LEMMA WithoutProperties ==
    ASSUME NEW S, NEW s \in Seq(S), NEW e
    PROVE  /\ Without(s, e) \in Seq(S)
           /\ Len(Without(s, e)) <= Len(s)
           /\ IsInjective(s) => /\ IsInjective(Without(s, e))
                                /\ ToSet(Without(s, e)) = ToSet(s) \ {e}
<1>1. CASE ~ \E i \in DOMAIN s : s[i] = e
  BY <1>1 DEF Without, ToSet
<1>2. CASE \E i \in DOMAIN s : s[i] = e
  <2> DEFINE k == CHOOSE i \in DOMAIN s : s[i] = e
             w == RemoveAt(s, k)
  <2>1. k \in 1..Len(s) /\ s[k] = e
    BY <1>2
  <2>2. Without(s, e) = w
    BY <1>2 DEF Without
  <2> HIDE DEF k
  <2>3. /\ w \in Seq(S)
        /\ Len(w) = Len(s) - 1
        /\ \A i \in 1..(Len(s) - 1) : w[i] = IF i < k THEN s[i] ELSE s[i + 1]
    <3> DEFINE a == SubSeq(s, 1, k - 1)
               b == SubSeq(s, k + 1, Len(s))
    <3>1. /\ a \in Seq(S) /\ Len(a) = k - 1
          /\ \A i \in 1..(k - 1) : a[i] = s[i]
      BY <2>1
    <3>2. /\ b \in Seq(S) /\ Len(b) = Len(s) - k
          /\ \A i \in 1..(Len(s) - k) : b[i] = s[k + i]
      BY <2>1
    <3>3. w = a \o b
      BY DEF RemoveAt
    <3> HIDE DEF a, b, w
    <3>4. w \in Seq(S) /\ Len(w) = Len(s) - 1
      BY <2>1, <3>1, <3>2, <3>3
    <3>5. ASSUME NEW i \in 1..(Len(s) - 1)
          PROVE  w[i] = IF i < k THEN s[i] ELSE s[i + 1]
      <4>1. CASE i < k
        BY <4>1, <2>1, <3>1, <3>2, <3>3, ConcatProperties
      <4>2. CASE i >= k
        <5>1. w[i] = b[i - (k - 1)]
          BY <4>2, <2>1, <3>1, <3>2, <3>3, ConcatProperties
        <5>2. b[i - (k - 1)] = s[k + (i - (k - 1))]
          BY <4>2, <2>1, <3>2
        <5> QED BY <5>1, <5>2, <4>2, <2>1
      <4> QED BY <4>1, <4>2, <2>1
    <3> QED BY <3>4, <3>5
  <2> HIDE DEF w
  <2>4. ASSUME IsInjective(s) PROVE IsInjective(w)
    <3> SUFFICES ASSUME NEW i \in 1..(Len(s) - 1), NEW j \in 1..(Len(s) - 1),
                        w[i] = w[j]
                 PROVE  i = j
      BY <2>3 DEF IsInjective
    <3> DEFINE f(x) == IF x < k THEN x ELSE x + 1
    <3>1. f(i) \in 1..Len(s) /\ f(j) \in 1..Len(s) /\ w[i] = s[f(i)] /\ w[j] = s[f(j)]
      BY <2>1, <2>3
    <3>2. \A x, y \in 1..Len(s) : s[x] = s[y] => x = y
      BY <2>4 DEF IsInjective
    <3> HIDE DEF f
    <3>3. f(i) = f(j)
      BY <3>1, <3>2
    <3> QED BY <3>3, <2>1 DEF f
  <2>5. ASSUME IsInjective(s) PROVE ToSet(w) \subseteq ToSet(s) \ {e}
    BY <2>1, <2>3, <2>5 DEF IsInjective, ToSet
  <2>6. ToSet(s) \ {e} \subseteq ToSet(w)
    <3> SUFFICES ASSUME NEW j \in 1..Len(s), s[j] # e
                 PROVE  \E i \in 1..(Len(s) - 1) : w[i] = s[j]
      BY <2>3 DEF ToSet
    <3>1. CASE j < k
      BY <3>1, <2>1, <2>3
    <3>2. CASE j > k
      <4>1. j - 1 \in 1..(Len(s) - 1) /\ w[j - 1] = s[j]
        BY <3>2, <2>1, <2>3
      <4> QED BY <4>1
    <3> QED BY <3>1, <3>2, <2>1
  <2> QED
    BY <2>2, <2>3, <2>4, <2>5, <2>6
<1> QED
  BY <1>1, <1>2
----------------------------------------------------------------------------
(* Typing *)

\* From MakeSocket on, the slot is one the subnet has an address for.
Addressed ==
    \A c \in Conns :
        pc[c] \in {"ifaced", "made", "listed", "assigned", "configured", "serving",
                  "waiting", "unlist", "closeSocket", "closeIface"}
            => slot[c] \in Addresses

USE ConnsAssumption, LimitsAssumption DEF Stages, Modes, OneInterfacePerConnection

\* The types hold when the server starts.
LEMMA TypingInit == Init => TypeOK /\ Addressed
<1> SUFFICES ASSUME Init PROVE TypeOK /\ Addressed
  OBVIOUS
<1>1. authenticatedSockets \in [Users -> Seq(Conns)]
  BY DEF Init
<1>2. ipTable \in [Addresses -> Conns \cup {NoConn}]
  BY DEF Init
<1>3. limit \in [Conns -> Limits \cup {0}] /\ slot \in [Conns -> Nat]
  BY DEF Init
<1>4. reloads \in 0..setup.reloads /\ deletes \in 0..setup.deletes
  BY SetupsAssumption, SMT DEF Init
<1>7. stopped \in BOOLEAN
  BY DEF Init
<1>8. config \in [max : Limits, mode : Modes]
  BY SetupsAssumption DEF Init
<1>5. pc \in [Conns -> Stages] /\ user \in [Conns -> Users \cup {NoUser}]
  BY DEF Init
<1>6. Addressed
  BY DEF Init, Addressed
<1> QED
  BY <1>1, <1>2, <1>3, <1>4, <1>5, <1>6, <1>7, <1>8 DEF Init, TypeOK

\* The user whose limit is reached has an oldest connection to close.
LEMMA OldestIsASocket ==
    ASSUME TypeOK, NEW c \in Conns, AtLimit(c)
    PROVE  /\ user[c] \in Users
           /\ authenticatedSockets[user[c]] \in Seq(Conns)
           /\ authenticatedSockets[user[c]] # <<>>
           /\ Head(authenticatedSockets[user[c]]) \in Conns
<1> DEFINE list == authenticatedSockets[user[c]]
<1>1. limit[c] \in Nat
  <2>1. limit[c] \in Limits \cup {0}
    BY DEF TypeOK
  <2>2. \A x \in Limits : x \in Nat
    BY LimitsAssumption
  <2>3. CASE limit[c] \in Limits
    BY <2>2, <2>3, Zenon
  <2>4. CASE limit[c] = 0
    BY <2>4
  <2> QED BY <2>1, <2>3, <2>4
<1>2. user[c] \in Users /\ list \in Seq(Conns) /\ Len(list) >= limit[c] /\ limit[c] > 0
  BY DEF TypeOK, AtLimit, Limited
<1> HIDE DEF list
<1>3. list # <<>> /\ Head(list) \in Conns
  BY <1>1, <1>2
<1> QED BY <1>2, <1>3 DEF list

\* Every step keeps the types.
LEMMA TypingNext == TypeOK /\ Addressed /\ [Next]_vars => TypeOK' /\ Addressed'
<1> SUFFICES ASSUME TypeOK, Addressed, [Next]_vars
             PROVE  TypeOK' /\ Addressed'
  OBVIOUS
<1> USE DEF TypeOK, Addressed, Addresses, handlerVars, tableVars, configVars, socketVars,
            otherVars
<1>1. ASSUME NEW c \in Conns, Upgrade(c) PROVE TypeOK' /\ Addressed'
  BY <1>1 DEF Upgrade, Goto
<1>2. ASSUME NEW c \in Conns, AddCloser(c) PROVE TypeOK' /\ Addressed'
  BY <1>2 DEF AddCloser, Goto
<1>3. ASSUME NEW c \in Conns, AllocateSlot(c) PROVE TypeOK' /\ Addressed'
  BY <1>3 DEF AllocateSlot, Goto, Candidates
<1>4. ASSUME NEW c \in Conns, SlotsExhausted(c) PROVE TypeOK' /\ Addressed'
  BY <1>4 DEF SlotsExhausted, Goto
<1>5. ASSUME NEW c \in Conns, AddressFails(c) PROVE TypeOK' /\ Addressed'
  BY <1>5 DEF AddressFails, Goto, HasAddress
<1>6. ASSUME NEW c \in Conns, CreateInterface(c) PROVE TypeOK' /\ Addressed'
  BY <1>6 DEF CreateInterface, Goto, HasAddress
<1>7. ASSUME NEW c \in Conns, ConfigureInterfaceFails(c) PROVE TypeOK' /\ Addressed'
  BY <1>7 DEF ConfigureInterfaceFails, Goto
<1>8. ASSUME NEW c \in Conns, MakeSocket(c) PROVE TypeOK' /\ Addressed'
  BY <1>8 DEF MakeSocket, Goto, HasAddress
<1>9. ASSUME NEW c \in Conns, AdmitFree(c) PROVE TypeOK' /\ Addressed'
  BY <1>9 DEF AdmitFree, Goto, List, Limited, AtLimit
<1>10. ASSUME NEW c \in Conns, AdmitKillOldest(c) PROVE TypeOK' /\ Addressed'
  <2> DEFINE list == authenticatedSockets[user[c]]
  <2>1. user[c] \in Users /\ list \in Seq(Conns) /\ list # <<>> /\ Head(list) \in Conns
    BY <1>10, OldestIsASocket DEF AdmitKillOldest
  <2>2. Append(Tail(list), c) \in Seq(Conns)
    BY <2>1
  <2>3. authenticatedSockets' \in [Users -> Seq(Conns)]
    BY <1>10, <2>1, <2>2 DEF AdmitKillOldest
  <2> HIDE DEF list
  <2>4. /\ closing' \subseteq Conns /\ erroring' \subseteq Conns
        /\ open' \subseteq Conns /\ ifaces' \subseteq Conns
        /\ ipTable' \in [Addresses -> Conns \cup {NoConn}]
    BY <1>10, <2>1 DEF AdmitKillOldest, CloseError, UnregisterSocket, list
  <2> QED
    BY <1>10, <2>3, <2>4 DEF AdmitKillOldest, List, Goto
<1>11. ASSUME NEW c \in Conns, RefuseNew(c) PROVE TypeOK' /\ Addressed'
  BY <1>11 DEF RefuseNew, Goto, CloseError, UnregisterSocket
<1>12. ASSUME NEW c \in Conns, AssignIP(c) PROVE TypeOK' /\ Addressed'
  BY <1>12 DEF AssignIP, Goto
<1>13. ASSUME NEW c \in Conns, ConfigureSocket(c) PROVE TypeOK' /\ Addressed'
  BY <1>13 DEF ConfigureSocket, Goto
<1>14. ASSUME NEW c \in Conns, Serve(c) PROVE TypeOK' /\ Addressed'
  <2>1. slot[c] \in Addresses /\ OldSocket(c) \in Conns \cup {NoConn}
    BY <1>14 DEF Serve, OldSocket
  <2>2. RegisterSocket(c) \in [Addresses -> Conns \cup {NoConn}]
    BY <2>1 DEF RegisterSocket, UnregisterSocket
  <2>3. /\ closing' \subseteq Conns /\ erroring' \subseteq Conns
        /\ open' \subseteq Conns /\ ifaces' \subseteq Conns
        /\ lateRoutes' \subseteq Conns
        /\ ipTable' \in [Addresses -> Conns \cup {NoConn}]
    BY <1>14, <2>1, <2>2 DEF Serve
  <2> QED
    BY <1>14, <2>3 DEF Serve, Goto
<1>15. ASSUME NEW c \in Conns, SendInit(c) PROVE TypeOK' /\ Addressed'
  BY <1>15 DEF SendInit, Goto
<1>16. ASSUME NEW c \in Conns, InitFails(c) PROVE TypeOK' /\ Addressed'
  BY <1>16 DEF InitFails, Goto, CloseError, UnregisterSocket
<1>17. ASSUME NEW c \in Conns, WaitReturns(c) PROVE TypeOK' /\ Addressed'
  BY <1>17 DEF WaitReturns, Goto
<1>18. ASSUME NEW c \in Conns, Unlist(c) PROVE TypeOK' /\ Addressed'
  BY <1>18, WithoutProperties DEF Unlist, Goto
<1>19. ASSUME NEW c \in Conns, CloseSocket(c) PROVE TypeOK' /\ Addressed'
  BY <1>19 DEF CloseSocket, Goto, Close, UnregisterSocket
<1>20. ASSUME NEW c \in Conns, CloseInterface(c) PROVE TypeOK' /\ Addressed'
  BY <1>20 DEF CloseInterface, Goto
<1>21. ASSUME NEW c \in Conns, ReleaseSlot(c) PROVE TypeOK' /\ Addressed'
  BY <1>21 DEF ReleaseSlot, Goto
<1>22. ASSUME NEW c \in Conns, CloseAdapter(c) PROVE TypeOK' /\ Addressed'
  BY <1>22 DEF CloseAdapter, Goto
<1>23. ASSUME NEW c \in Conns, ReceiveVersion(c) PROVE TypeOK' /\ Addressed'
  BY <1>23 DEF ReceiveVersion
<1>24. ASSUME NEW c \in Conns, AdapterEnds(c) PROVE TypeOK' /\ Addressed'
  BY <1>24 DEF AdapterEnds
<1>25. ASSUME NEW c \in Conns, GoroutineCloses(c) PROVE TypeOK' /\ Addressed'
  BY <1>25 DEF GoroutineCloses, Close, UnregisterSocket
<1>26. ASSUME NEW c \in Conns, ErrorCloses(c) PROVE TypeOK' /\ Addressed'
  BY <1>26 DEF ErrorCloses
<1>27. ASSUME NEW c \in Conns, ApiLookup(c) PROVE TypeOK' /\ Addressed'
  BY <1>27, SetupsAssumption DEF ApiLookup
<1>28. ASSUME NEW c \in Conns, ApiClose(c) PROVE TypeOK' /\ Addressed'
  BY <1>28 DEF ApiClose, Close, UnregisterSocket
<1>29. CASE Reload
  <2>1. config' \in [max : Limits, mode : Modes]
    BY <1>29 DEF Reload
  <2>2. setup' = setup
    BY <1>29 DEF Reload
  <2>3. Addresses' = Addresses
    BY <2>2
  <2>4. reloads' \in 0..setup'.reloads
    BY <1>29, SetupsAssumption DEF Reload
  <2> HIDE DEF Addresses
  <2> QED BY <1>29, <2>1, <2>3, <2>4 DEF Reload
<1>30. CASE ServerClose
  BY <1>30 DEF ServerClose, closeAll
<1>31. CASE ServeReturns
  BY <1>31 DEF ServeReturns, closeAll
<1>32. CASE Finished
  BY <1>32 DEF Finished, vars
<1>33. CASE UNCHANGED vars
  BY <1>33 DEF vars
<1> QED
  BY <1>1, <1>2, <1>3, <1>4, <1>5, <1>6, <1>7, <1>8, <1>9, <1>10, <1>11, <1>12, <1>13,
      <1>14, <1>15, <1>16, <1>17, <1>18, <1>19, <1>20, <1>21, <1>22, <1>23, <1>24,
      <1>25, <1>26, <1>27, <1>28, <1>29, <1>30, <1>31, <1>32, <1>33
     DEF Next, Handler, Environment

\* The variables always have their types: in particular the IP switch is only
\* ever asked for addresses of the subnet, and the per-user lists hold sockets.
LEMMA TypingInvariant == Spec => [](TypeOK /\ Addressed)
BY TypingInit, TypingNext, PTL DEF Spec

\* Type correctness of the connection handlers for every number of connections,
\* users and addresses.
THEOREM TypeCorrect == Spec => []TypeOK
BY TypingInvariant, PTL

----------------------------------------------------------------------------
(* Slots.  usedSlots and the stages of the handlers say the same thing, and  *)
(* no two handlers that hold a slot hold the same one.                       *)

IfaceStages == {"ifaced", "made", "listed", "assigned", "configured", "serving",
                "waiting", "unlist", "closeSocket", "closeIface"}

HoldersDistinct == \A c, d \in Holders : slot[c] = slot[d] => c = d

IfacesHeld == \A c \in ifaces : pc[c] \in IfaceStages

SlotInv == SlotsAccounted /\ HoldersDistinct /\ IfacesHeld

\* No slot is taken when the server starts.
LEMMA SlotInit == Init => SlotInv
BY DEF Init, SlotInv, SlotsAccounted, HoldersDistinct, IfacesHeld, Holders, Holding

\* A step that leaves the slots alone and moves no handler across the
\* allocation or the release keeps the accounts.
LEMMA SlotFrame ==
    ASSUME SlotsAccounted, HoldersDistinct, UNCHANGED <<usedSlots, slot>>,
        Holders' = Holders
    PROVE  SlotsAccounted' /\ HoldersDistinct'
BY DEF SlotsAccounted, HoldersDistinct

\* Every step keeps the accounts of the slots.
LEMMA SlotNext == TypeOK /\ SlotInv /\ [Next]_vars => SlotInv'
<1> SUFFICES ASSUME TypeOK, SlotInv, [Next]_vars PROVE SlotInv'
  OBVIOUS
<1> USE DEF TypeOK, SlotInv, handlerVars, tableVars, configVars, socketVars, otherVars
<1>1. ASSUME NEW c \in Conns, Upgrade(c) PROVE SlotInv'
  <2>1. Holders' = Holders /\ UNCHANGED <<usedSlots, slot>>
    BY <1>1 DEF Upgrade, Goto, Holders, Holding
  <2>2. IfacesHeld'
    BY <1>1 DEF Upgrade, Goto, IfacesHeld, IfaceStages
  <2> QED BY <2>1, <2>2, SlotFrame
<1>2. ASSUME NEW c \in Conns, AddCloser(c) PROVE SlotInv'
  <2>1. Holders' = Holders /\ UNCHANGED <<usedSlots, slot>>
    BY <1>2 DEF AddCloser, Goto, Holders, Holding
  <2>2. IfacesHeld'
    BY <1>2 DEF AddCloser, Goto, IfacesHeld, IfaceStages
  <2> QED BY <2>1, <2>2, SlotFrame
<1>3. ASSUME NEW c \in Conns, AllocateSlot(c) PROVE SlotInv'
  <2>1. PICK s \in Candidates : /\ s \notin usedSlots
                                /\ slot' = [slot EXCEPT ![c] = s]
                                /\ usedSlots' = usedSlots \cup {s}
    BY <1>3 DEF AllocateSlot, FirstFree
  <2>2. Holders' = Holders \cup {c} /\ c \notin Holders
    BY <1>3 DEF AllocateSlot, Goto, Holders, Holding
  <2>3. slot'[c] = s /\ \A d \in Holders : slot'[d] = slot[d]
    BY <2>1, <2>2 DEF Holders
  <2>4. \A d \in Holders : slot[d] # s
    BY <2>1 DEF SlotsAccounted
  <2>5. SlotsAccounted'
    BY <2>1, <2>2, <2>3 DEF SlotsAccounted
  <2>6. HoldersDistinct'
    BY <2>2, <2>3, <2>4 DEF HoldersDistinct
  <2>7. IfacesHeld'
    BY <1>3 DEF AllocateSlot, Goto, IfacesHeld, IfaceStages
  <2> QED BY <2>5, <2>6, <2>7
<1>4. ASSUME NEW c \in Conns, SlotsExhausted(c) PROVE SlotInv'
  <2>1. Holders' = Holders /\ UNCHANGED <<usedSlots, slot>>
    BY <1>4 DEF SlotsExhausted, Goto, Holders, Holding
  <2>2. IfacesHeld'
    BY <1>4 DEF SlotsExhausted, Goto, IfacesHeld, IfaceStages
  <2> QED BY <2>1, <2>2, SlotFrame
<1>5. ASSUME NEW c \in Conns, AddressFails(c) PROVE SlotInv'
  <2>1. Holders' = Holders /\ UNCHANGED <<usedSlots, slot>>
    BY <1>5 DEF AddressFails, Goto, Holders, Holding
  <2>2. IfacesHeld'
    BY <1>5 DEF AddressFails, Goto, IfacesHeld, IfaceStages
  <2> QED BY <2>1, <2>2, SlotFrame
<1>6. ASSUME NEW c \in Conns, CreateInterface(c) PROVE SlotInv'
  <2>1. Holders' = Holders /\ UNCHANGED <<usedSlots, slot>>
    BY <1>6 DEF CreateInterface, Goto, Holders, Holding
  <2>2. IfacesHeld'
    BY <1>6 DEF CreateInterface, Goto, IfacesHeld, IfaceStages
  <2> QED BY <2>1, <2>2, SlotFrame
<1>7. ASSUME NEW c \in Conns, ConfigureInterfaceFails(c) PROVE SlotInv'
  <2>1. Holders' = Holders /\ UNCHANGED <<usedSlots, slot>>
    BY <1>7 DEF ConfigureInterfaceFails, Goto, Holders, Holding
  <2>2. IfacesHeld'
    BY <1>7 DEF ConfigureInterfaceFails, Goto, IfacesHeld, IfaceStages
  <2> QED BY <2>1, <2>2, SlotFrame
<1>8. ASSUME NEW c \in Conns, MakeSocket(c) PROVE SlotInv'
  <2>1. Holders' = Holders /\ UNCHANGED <<usedSlots, slot>>
    BY <1>8 DEF MakeSocket, Goto, Holders, Holding
  <2>2. IfacesHeld'
    BY <1>8 DEF MakeSocket, Goto, IfacesHeld, IfaceStages
  <2> QED BY <2>1, <2>2, SlotFrame
<1>9. ASSUME NEW c \in Conns, AdmitFree(c) PROVE SlotInv'
  <2>1. Holders' = Holders /\ UNCHANGED <<usedSlots, slot>>
    BY <1>9 DEF AdmitFree, Goto, List, Holders, Holding
  <2>2. IfacesHeld'
    BY <1>9 DEF AdmitFree, Goto, List, IfacesHeld, IfaceStages
  <2> QED BY <2>1, <2>2, SlotFrame
<1>10. ASSUME NEW c \in Conns, AdmitKillOldest(c) PROVE SlotInv'
  <2>1. Holders' = Holders /\ UNCHANGED <<usedSlots, slot>>
    BY <1>10 DEF AdmitKillOldest, Goto, List, Holders, Holding
  <2>2. IfacesHeld'
    BY <1>10 DEF AdmitKillOldest, Goto, List, CloseError, IfacesHeld, IfaceStages
  <2> QED BY <2>1, <2>2, SlotFrame
<1>11. ASSUME NEW c \in Conns, RefuseNew(c) PROVE SlotInv'
  <2>1. Holders' = Holders /\ UNCHANGED <<usedSlots, slot>>
    BY <1>11 DEF RefuseNew, Goto, Holders, Holding
  <2>2. IfacesHeld'
    BY <1>11 DEF RefuseNew, Goto, CloseError, IfacesHeld, IfaceStages
  <2> QED BY <2>1, <2>2, SlotFrame
<1>12. ASSUME NEW c \in Conns, AssignIP(c) PROVE SlotInv'
  <2>1. Holders' = Holders /\ UNCHANGED <<usedSlots, slot>>
    BY <1>12 DEF AssignIP, Goto, Holders, Holding
  <2>2. IfacesHeld'
    BY <1>12 DEF AssignIP, Goto, IfacesHeld, IfaceStages
  <2> QED BY <2>1, <2>2, SlotFrame
<1>13. ASSUME NEW c \in Conns, ConfigureSocket(c) PROVE SlotInv'
  <2>1. Holders' = Holders /\ UNCHANGED <<usedSlots, slot>>
    BY <1>13 DEF ConfigureSocket, Goto, Holders, Holding
  <2>2. IfacesHeld'
    BY <1>13 DEF ConfigureSocket, Goto, IfacesHeld, IfaceStages
  <2> QED BY <2>1, <2>2, SlotFrame
<1>14. ASSUME NEW c \in Conns, Serve(c) PROVE SlotInv'
  <2>1. Holders' = Holders /\ UNCHANGED <<usedSlots, slot>>
    BY <1>14 DEF Serve, Goto, Holders, Holding
  <2>2. IfacesHeld'
    BY <1>14 DEF Serve, Goto, IfacesHeld, IfaceStages
  <2> QED BY <2>1, <2>2, SlotFrame
<1>15. ASSUME NEW c \in Conns, SendInit(c) PROVE SlotInv'
  <2>1. Holders' = Holders /\ UNCHANGED <<usedSlots, slot>>
    BY <1>15 DEF SendInit, Goto, Holders, Holding
  <2>2. IfacesHeld'
    BY <1>15 DEF SendInit, Goto, IfacesHeld, IfaceStages
  <2> QED BY <2>1, <2>2, SlotFrame
<1>16. ASSUME NEW c \in Conns, InitFails(c) PROVE SlotInv'
  <2>1. Holders' = Holders /\ UNCHANGED <<usedSlots, slot>>
    BY <1>16 DEF InitFails, Goto, Holders, Holding
  <2>2. IfacesHeld'
    BY <1>16 DEF InitFails, Goto, CloseError, IfacesHeld, IfaceStages
  <2> QED BY <2>1, <2>2, SlotFrame
<1>17. ASSUME NEW c \in Conns, WaitReturns(c) PROVE SlotInv'
  <2>1. Holders' = Holders /\ UNCHANGED <<usedSlots, slot>>
    BY <1>17 DEF WaitReturns, Goto, Holders, Holding
  <2>2. IfacesHeld'
    BY <1>17 DEF WaitReturns, Goto, IfacesHeld, IfaceStages
  <2> QED BY <2>1, <2>2, SlotFrame
<1>18. ASSUME NEW c \in Conns, Unlist(c) PROVE SlotInv'
  <2>1. Holders' = Holders /\ UNCHANGED <<usedSlots, slot>>
    BY <1>18 DEF Unlist, Goto, Holders, Holding
  <2>2. IfacesHeld'
    BY <1>18 DEF Unlist, Goto, IfacesHeld, IfaceStages
  <2> QED BY <2>1, <2>2, SlotFrame
<1>19. ASSUME NEW c \in Conns, CloseSocket(c) PROVE SlotInv'
  <2>1. Holders' = Holders /\ UNCHANGED <<usedSlots, slot>>
    BY <1>19 DEF CloseSocket, Goto, Holders, Holding
  <2>2. IfacesHeld'
    BY <1>19 DEF CloseSocket, Goto, Close, IfacesHeld, IfaceStages
  <2> QED BY <2>1, <2>2, SlotFrame
<1>20. ASSUME NEW c \in Conns, CloseInterface(c) PROVE SlotInv'
  <2>1. Holders' = Holders /\ UNCHANGED <<usedSlots, slot>>
    BY <1>20 DEF CloseInterface, Goto, Holders, Holding
  <2>2. IfacesHeld'
    BY <1>20 DEF CloseInterface, Goto, IfacesHeld, IfaceStages
  <2> QED BY <2>1, <2>2, SlotFrame
<1>21. ASSUME NEW c \in Conns, ReleaseSlot(c) PROVE SlotInv'
  <2>1. Holders' = Holders \ {c} /\ c \in Holders
    BY <1>21 DEF ReleaseSlot, Goto, Holders, Holding
  <2>2. \A d \in Holders \ {c} : slot[d] # slot[c]
    BY <2>1 DEF HoldersDistinct
  <2>3. SlotsAccounted'
    BY <1>21, <2>1, <2>2 DEF ReleaseSlot, SlotsAccounted
  <2>4. HoldersDistinct'
    BY <1>21, <2>1 DEF ReleaseSlot, HoldersDistinct
  <2>5. IfacesHeld'
    BY <1>21 DEF ReleaseSlot, Goto, IfacesHeld, IfaceStages
  <2> QED BY <2>3, <2>4, <2>5
<1>22. ASSUME NEW c \in Conns, CloseAdapter(c) PROVE SlotInv'
  <2>1. Holders' = Holders /\ UNCHANGED <<usedSlots, slot>>
    BY <1>22 DEF CloseAdapter, Goto, Holders, Holding
  <2>2. IfacesHeld'
    BY <1>22 DEF CloseAdapter, Goto, IfacesHeld, IfaceStages
  <2> QED BY <2>1, <2>2, SlotFrame
<1>23. ASSUME NEW c \in Conns, ReceiveVersion(c) PROVE SlotInv'
  <2>1. Holders' = Holders /\ UNCHANGED <<usedSlots, slot>>
    BY <1>23 DEF ReceiveVersion, Holders, Holding
  <2>2. IfacesHeld'
    BY <1>23 DEF ReceiveVersion, IfacesHeld, IfaceStages
  <2> QED BY <2>1, <2>2, SlotFrame
<1>24. ASSUME NEW c \in Conns, AdapterEnds(c) PROVE SlotInv'
  <2>1. Holders' = Holders /\ UNCHANGED <<usedSlots, slot>>
    BY <1>24 DEF AdapterEnds, Holders, Holding
  <2>2. IfacesHeld'
    BY <1>24 DEF AdapterEnds, IfacesHeld, IfaceStages
  <2> QED BY <2>1, <2>2, SlotFrame
<1>25. ASSUME NEW c \in Conns, GoroutineCloses(c) PROVE SlotInv'
  <2>1. Holders' = Holders /\ UNCHANGED <<usedSlots, slot>>
    BY <1>25 DEF GoroutineCloses, Holders, Holding
  <2>2. IfacesHeld'
    BY <1>25 DEF GoroutineCloses, Close, IfacesHeld, IfaceStages
  <2> QED BY <2>1, <2>2, SlotFrame
<1>26. ASSUME NEW c \in Conns, ErrorCloses(c) PROVE SlotInv'
  <2>1. Holders' = Holders /\ UNCHANGED <<usedSlots, slot>>
    BY <1>26 DEF ErrorCloses, Holders, Holding
  <2>2. IfacesHeld'
    BY <1>26 DEF ErrorCloses, IfacesHeld, IfaceStages
  <2> QED BY <2>1, <2>2, SlotFrame
<1>27. ASSUME NEW c \in Conns, ApiLookup(c) PROVE SlotInv'
  <2>1. Holders' = Holders /\ UNCHANGED <<usedSlots, slot>>
    BY <1>27 DEF ApiLookup, Holders, Holding
  <2>2. IfacesHeld'
    BY <1>27 DEF ApiLookup, IfacesHeld, IfaceStages
  <2> QED BY <2>1, <2>2, SlotFrame
<1>28. ASSUME NEW c \in Conns, ApiClose(c) PROVE SlotInv'
  <2>1. Holders' = Holders /\ UNCHANGED <<usedSlots, slot>>
    BY <1>28 DEF ApiClose, Holders, Holding
  <2>2. IfacesHeld'
    BY <1>28 DEF ApiClose, Close, IfacesHeld, IfaceStages
  <2> QED BY <2>1, <2>2, SlotFrame
<1>29. CASE Reload
  BY <1>29, SlotFrame DEF Reload, Holders, IfacesHeld
<1>30. CASE ServerClose
  BY <1>30, SlotFrame DEF ServerClose, closeAll, Holders, IfacesHeld
<1>31. CASE ServeReturns
  BY <1>31, SlotFrame DEF ServeReturns, closeAll, Holders, IfacesHeld
<1>32. CASE Finished
  BY <1>32, SlotFrame DEF Finished, vars, Holders, IfacesHeld
<1>33. CASE UNCHANGED vars
  BY <1>33, SlotFrame DEF vars, Holders, IfacesHeld
<1> QED
  BY <1>1, <1>2, <1>3, <1>4, <1>5, <1>6, <1>7, <1>8, <1>9, <1>10, <1>11, <1>12, <1>13,
      <1>14, <1>15, <1>16, <1>17, <1>18, <1>19, <1>20, <1>21, <1>22, <1>23, <1>24,
      <1>25, <1>26, <1>27, <1>28, <1>29, <1>30, <1>31, <1>32, <1>33
     DEF Next, Handler, Environment

\* The slot accounts are right in every reachable state.
LEMMA SlotInvariant == Spec => []SlotInv
<1>1. Spec => []TypeOK
  BY TypeCorrect
<1> QED
  BY <1>1, SlotInit, SlotNext, PTL DEF Spec

\* No early return of the handler leaks a slot and no slot is freed twice.
THEOREM SlotsAreAccounted == Spec => []SlotsAccounted
<1>1. SlotInv => SlotsAccounted
  BY DEF SlotInv
<1> QED
  BY <1>1, SlotInvariant, PTL

\* Two live sockets never have the same address, and neither do two open
\* per-connection interfaces.
THEOREM AddressesExclusive == Spec => []NoSharedAddress
<1>1. TypeOK /\ SlotInv => NoSharedAddress
  <2> SUFFICES ASSUME TypeOK, SlotInv PROVE NoSharedAddress
    OBVIOUS
  <2>1. LiveSockets \subseteq Holders
    BY DEF LiveSockets, Holders, Holding
  <2>2. ifaces \subseteq Holders
    BY DEF TypeOK, SlotInv, IfacesHeld, IfaceStages, Holders, Holding
  <2> QED
    BY <2>1, <2>2 DEF SlotInv, HoldersDistinct, NoSharedAddress
<1> QED
  BY <1>1, SlotInvariant, TypeCorrect, PTL
----------------------------------------------------------------------------
(* Routes.  An entry of the IP switch's table lies under its socket's own    *)
(* address, belongs to a socket that has been registered, and belongs to a   *)
(* closed one as soon as the handler has run the deferred Close.             *)

Registered == {"serving", "waiting", "unlist", "closeSocket", "closeIface",
               "releaseSlot", "closeAdapter", "done"}

EntriesOwned ==
    \A s \in DOMAIN ipTable :
        ipTable[s] # NoConn =>
            /\ slot[ipTable[s]] = s
            /\ pc[ipTable[s]] \in Registered
            /\ \/ ipTable[s] \in closing
               \/ pc[ipTable[s]] \in {"serving", "waiting", "unlist", "closeSocket"}

RouteInv == EntriesOwned /\ RouteToOwner /\ ClosedUnrouted

\* The IP switch starts empty.
LEMMA RouteInit == Init => RouteInv
BY DEF Init, RouteInv, EntriesOwned, RouteToOwner, ClosedUnrouted

\* UnregisterSocket removes the socket from the table and nothing else.
LEMMA UnregisterEffect ==
    ASSUME TypeOK, EntriesOwned, NEW k
    PROVE  /\ DOMAIN UnregisterSocket(ipTable, k) = Addresses
           /\ \A s \in Addresses :
                 UnregisterSocket(ipTable,
                     k)[s] = IF ipTable[s] = k THEN NoConn ELSE ipTable[s]
BY DEF TypeOK, EntriesOwned, UnregisterSocket

\* Closing a socket keeps the routes of the others.
LEMMA RouteClose ==
    ASSUME TypeOK, Addressed, RouteInv, NEW k \in Conns, UNCHANGED <<setup, pc, slot,
        lateRoutes>>,
           closing' = closing \cup {k}, ipTable' = UnregisterSocket(ipTable, k)
    PROVE  RouteInv'
<1>1. /\ DOMAIN ipTable' = Addresses
      /\ \A s \in Addresses :
            ipTable'[s] = IF ipTable[s] = k THEN NoConn ELSE ipTable[s]
  BY UnregisterEffect DEF RouteInv
<1>2. EntriesOwned'
  BY <1>1 DEF TypeOK, RouteInv, EntriesOwned
<1>3. RouteToOwner'
  BY <1>1 DEF RouteInv, RouteToOwner, Addressed
<1>4. ClosedUnrouted'
  <2> SUFFICES ASSUME NEW s \in Addresses, ipTable'[s] \in closing'
               PROVE  ipTable'[s] \in lateRoutes
    BY <1>1 DEF ClosedUnrouted
  <2>1. DOMAIN ipTable = Addresses /\ closing' \subseteq Conns
    BY DEF TypeOK
  <2>2. ipTable'[s] # NoConn
    BY <2>1, ConnsAssumption
  <2>3. ipTable'[s] = ipTable[s] /\ ipTable[s] # k /\ ipTable[s] \in closing
    BY <1>1, <2>2
  <2> QED BY <2>1, <2>3 DEF RouteInv, ClosedUnrouted
<1> QED BY <1>2, <1>3, <1>4 DEF RouteInv

\* The same when a handler moves on in that step: one that has not registered its
\* socket yet, or the one whose socket is closed.
LEMMA RouteCloseMove ==
    ASSUME TypeOK, Addressed, RouteInv, NEW k \in Conns, UNCHANGED <<setup, slot,
        lateRoutes>>,
           closing' = closing \cup {k}, ipTable' = UnregisterSocket(ipTable, k),
           NEW c \in Conns, \A d \in Conns \ {c} : pc'[d] = pc[d],
           pc'[c] \notin {"serving", "waiting"}, pc[c] \notin Registered \/ c = k
    PROVE  RouteInv'
<1>1. /\ DOMAIN ipTable' = Addresses
      /\ \A s \in Addresses :
            ipTable'[s] = IF ipTable[s] = k THEN NoConn ELSE ipTable[s]
  BY UnregisterEffect DEF RouteInv
<1>2. EntriesOwned'
  <2> SUFFICES ASSUME NEW s \in Addresses, ipTable'[s] # NoConn
               PROVE  /\ slot[ipTable'[s]] = s
                      /\ pc'[ipTable'[s]] \in Registered
                      /\ \/ ipTable'[s] \in closing'
                         \/ pc'[ipTable'[s]] \in {"serving", "waiting", "unlist",
                             "closeSocket"}
    BY <1>1 DEF EntriesOwned
  <2>0. DOMAIN ipTable = Addresses
    BY DEF TypeOK
  <2>1. ipTable'[s] = ipTable[s] /\ ipTable[s] # k /\ ipTable[s] \in Conns
    BY <1>1 DEF TypeOK
  <2>2. pc[ipTable[s]] \in Registered
    BY <2>0, <2>1, ConnsAssumption DEF RouteInv, EntriesOwned
  <2>3. ipTable[s] # c
    BY <2>1, <2>2
  <2> QED
    BY <2>0, <2>1, <2>3, ConnsAssumption DEF RouteInv, EntriesOwned
<1>3. RouteToOwner'
  BY <1>1 DEF TypeOK, RouteInv, RouteToOwner, Addressed
<1>4. ClosedUnrouted'
  <2> SUFFICES ASSUME NEW s \in Addresses, ipTable'[s] \in closing'
               PROVE  ipTable'[s] \in lateRoutes
    BY <1>1 DEF ClosedUnrouted
  <2>1. DOMAIN ipTable = Addresses /\ closing' \subseteq Conns
    BY DEF TypeOK
  <2>2. ipTable'[s] # NoConn
    BY <2>1, ConnsAssumption
  <2>3. ipTable'[s] = ipTable[s] /\ ipTable[s] # k /\ ipTable[s] \in closing
    BY <1>1, <2>2
  <2> QED BY <2>1, <2>3 DEF RouteInv, ClosedUnrouted
<1> QED BY <1>2, <1>3, <1>4 DEF RouteInv

\* Every step keeps the routes.
LEMMA RouteNext ==
    TypeOK /\ Addressed /\ SlotInv /\ RouteInv /\ [Next]_vars => RouteInv'
<1> SUFFICES ASSUME TypeOK, Addressed, SlotInv, RouteInv, [Next]_vars PROVE RouteInv'
  OBVIOUS
<1> USE DEF TypeOK, RouteInv, EntriesOwned, RouteToOwner, ClosedUnrouted, Registered,
            handlerVars, tableVars, configVars, socketVars, otherVars
<1>1. ASSUME NEW c \in Conns, Upgrade(c) PROVE RouteInv'
  BY <1>1 DEF Upgrade, Goto
<1>2. ASSUME NEW c \in Conns, AddCloser(c) PROVE RouteInv'
  BY <1>2 DEF AddCloser, Goto
<1>3. ASSUME NEW c \in Conns, AllocateSlot(c) PROVE RouteInv'
  <2>1. /\ pc[c] = "closable" /\ pc' = [pc EXCEPT ![c] = "slotted"]
        /\ \A d \in Conns \ {c} : slot'[d] = slot[d]
        /\ UNCHANGED <<setup, ipTable, closing, lateRoutes>>
    BY <1>3 DEF AllocateSlot, Goto
  <2>2. \A s \in Addresses : ipTable[s] # c
    BY <2>1
  <2>3. EntriesOwned'
    BY <2>1, <2>2
  <2>4. RouteToOwner' /\ ClosedUnrouted'
    BY <2>1, <2>2
  <2> QED BY <2>3, <2>4
<1>4. ASSUME NEW c \in Conns, SlotsExhausted(c) PROVE RouteInv'
  BY <1>4 DEF SlotsExhausted, Goto
<1>5. ASSUME NEW c \in Conns, AddressFails(c) PROVE RouteInv'
  BY <1>5 DEF AddressFails, Goto
<1>6. ASSUME NEW c \in Conns, CreateInterface(c) PROVE RouteInv'
  <2>1. /\ pc[c] = "slotted" /\ pc'[c] \in {"ifaced", "releaseSlot"}
        /\ \A d \in Conns \ {c} : pc'[d] = pc[d]
        /\ UNCHANGED <<setup, slot, lateRoutes, closing, ipTable>>
    BY <1>6 DEF CreateInterface, Goto
  <2>2. EntriesOwned'
    BY <2>1
  <2>3. RouteToOwner' /\ ClosedUnrouted'
    BY <2>1
  <2> QED BY <2>2, <2>3
<1>7. ASSUME NEW c \in Conns, ConfigureInterfaceFails(c) PROVE RouteInv'
  BY <1>7 DEF ConfigureInterfaceFails, Goto
<1>8. ASSUME NEW c \in Conns, MakeSocket(c) PROVE RouteInv'
  BY <1>8 DEF MakeSocket, Goto
<1>9. ASSUME NEW c \in Conns, AdmitFree(c) PROVE RouteInv'
  BY <1>9 DEF AdmitFree, Goto, List
<1>10. ASSUME NEW c \in Conns, AdmitKillOldest(c) PROVE RouteInv'
  <2> DEFINE k == Head(authenticatedSockets[user[c]])
  <2>1. /\ closing' = closing \cup {k} /\ ipTable' = UnregisterSocket(ipTable, k)
        /\ pc[c] \notin Registered /\ pc'[c] \notin {"serving", "waiting"}
        /\ \A d \in Conns \ {c} : pc'[d] = pc[d]
        /\ UNCHANGED <<setup, slot, lateRoutes>>
    BY <1>10 DEF AdmitKillOldest, CloseError, List, Goto
  <2>2. k \in Conns
    BY <1>10, OldestIsASocket DEF AdmitKillOldest
  <2> HIDE DEF k, TypeOK, RouteInv, EntriesOwned, RouteToOwner, ClosedUnrouted, Registered
  <2> QED BY <2>1, <2>2, RouteCloseMove
<1>11. ASSUME NEW c \in Conns, RefuseNew(c) PROVE RouteInv'
  <2>1. /\ closing' = closing \cup {c} /\ ipTable' = UnregisterSocket(ipTable, c)
        /\ pc'[c] \notin {"serving", "waiting"}
        /\ \A d \in Conns \ {c} : pc'[d] = pc[d]
        /\ UNCHANGED <<setup, slot, lateRoutes>>
    BY <1>11 DEF RefuseNew, CloseError, Goto
  <2> HIDE DEF TypeOK, RouteInv, EntriesOwned, RouteToOwner, ClosedUnrouted, Registered
  <2> QED BY <2>1, RouteCloseMove
<1>12. ASSUME NEW c \in Conns, AssignIP(c) PROVE RouteInv'
  BY <1>12 DEF AssignIP, Goto
<1>13. ASSUME NEW c \in Conns, ConfigureSocket(c) PROVE RouteInv'
  BY <1>13 DEF ConfigureSocket, Goto
<1>14. ASSUME NEW c \in Conns, Serve(c) PROVE RouteInv'
  <2>1. CASE OneInterfacePerConnection
    BY <1>14, <2>1 DEF Serve, Goto
  <2>2. CASE ~OneInterfacePerConnection
    <3> DEFINE old == OldSocket(c)
    <3>1. /\ slot[c] \in Addresses /\ old \in Conns \cup {NoConn} /\ old # c
          /\ old # NoConn => slot[old] = slot[c]
      BY <1>14 DEF Serve, OldSocket, Addressed
    <3>2. RegisterSocket(c) = [ipTable EXCEPT ![slot[c]] = c]
      BY <3>1 DEF RegisterSocket, UnregisterSocket
    <3>3. /\ ipTable' = [ipTable EXCEPT ![slot[c]] = c]
          /\ closing' = closing \cup ({old} \ {NoConn})
          /\ lateRoutes' = IF c \in closing THEN lateRoutes \cup {c} ELSE lateRoutes
          /\ pc' = [pc EXCEPT ![c] = "serving"] /\ UNCHANGED <<setup, slot>>
      BY <1>14, <2>2, <3>2 DEF Serve, Goto
    <3>4. \A d \in Conns : pc[d] \in {"serving", "waiting"} => slot[d] # slot[c]
      BY <1>14 DEF Serve, SlotInv, HoldersDistinct, Holders, Holding
    <3> HIDE DEF old
    <3>5. EntriesOwned'
      BY <3>1, <3>3
    <3>6. RouteToOwner'
      BY <3>1, <3>3, <3>4
    <3>7. ClosedUnrouted'
      BY <3>1, <3>3
    <3> QED BY <3>5, <3>6, <3>7
  <2> QED BY <2>1, <2>2
<1>15. ASSUME NEW c \in Conns, SendInit(c) PROVE RouteInv'
  BY <1>15 DEF SendInit, Goto
<1>16. ASSUME NEW c \in Conns, InitFails(c) PROVE RouteInv'
  <2>1. /\ closing' = closing \cup {c} /\ ipTable' = UnregisterSocket(ipTable, c)
        /\ pc'[c] \notin {"serving", "waiting"}
        /\ \A d \in Conns \ {c} : pc'[d] = pc[d]
        /\ UNCHANGED <<setup, slot, lateRoutes>>
    BY <1>16 DEF InitFails, CloseError, Goto
  <2> HIDE DEF TypeOK, RouteInv, EntriesOwned, RouteToOwner, ClosedUnrouted, Registered
  <2> QED BY <2>1, RouteCloseMove
<1>17. ASSUME NEW c \in Conns, WaitReturns(c) PROVE RouteInv'
  BY <1>17 DEF WaitReturns, Goto
<1>18. ASSUME NEW c \in Conns, Unlist(c) PROVE RouteInv'
  BY <1>18 DEF Unlist, Goto
<1>19. ASSUME NEW c \in Conns, CloseSocket(c) PROVE RouteInv'
  <2>1. CASE c \in closing
    BY <1>19, <2>1 DEF CloseSocket, Close, Goto
  <2>2. CASE c \notin closing
    <3>1. /\ closing' = closing \cup {c} /\ ipTable' = UnregisterSocket(ipTable, c)
          /\ pc'[c] \notin {"serving", "waiting"}
          /\ \A d \in Conns \ {c} : pc'[d] = pc[d]
          /\ UNCHANGED <<setup, slot, lateRoutes>>
      BY <1>19, <2>2 DEF CloseSocket, Close, Goto
    <3> HIDE DEF TypeOK, RouteInv, EntriesOwned, RouteToOwner, ClosedUnrouted, Registered
    <3> QED BY <3>1, RouteCloseMove
  <2> QED BY <2>1, <2>2
<1>20. ASSUME NEW c \in Conns, CloseInterface(c) PROVE RouteInv'
  BY <1>20 DEF CloseInterface, Goto
<1>21. ASSUME NEW c \in Conns, ReleaseSlot(c) PROVE RouteInv'
  BY <1>21 DEF ReleaseSlot, Goto
<1>22. ASSUME NEW c \in Conns, CloseAdapter(c) PROVE RouteInv'
  BY <1>22 DEF CloseAdapter, Goto
<1>23. ASSUME NEW c \in Conns, ReceiveVersion(c) PROVE RouteInv'
  BY <1>23 DEF ReceiveVersion
<1>24. ASSUME NEW c \in Conns, AdapterEnds(c) PROVE RouteInv'
  BY <1>24 DEF AdapterEnds
<1>25. ASSUME NEW c \in Conns, GoroutineCloses(c) PROVE RouteInv'
  <2>1. /\ closing' = closing \cup {c} /\ ipTable' = UnregisterSocket(ipTable, c)
        /\ UNCHANGED <<setup, pc, slot, lateRoutes>>
    BY <1>25 DEF GoroutineCloses, Close
  <2> HIDE DEF TypeOK, RouteInv, EntriesOwned, RouteToOwner, ClosedUnrouted, Registered
  <2> QED BY <2>1, RouteClose
<1>26. ASSUME NEW c \in Conns, ErrorCloses(c) PROVE RouteInv'
  BY <1>26 DEF ErrorCloses
<1>27. ASSUME NEW c \in Conns, ApiLookup(c) PROVE RouteInv'
  BY <1>27 DEF ApiLookup
<1>28. ASSUME NEW c \in Conns, ApiClose(c) PROVE RouteInv'
  <2>1. CASE c \in closing
    BY <1>28, <2>1 DEF ApiClose, Close
  <2>2. CASE c \notin closing
    <3>1. /\ closing' = closing \cup {c} /\ ipTable' = UnregisterSocket(ipTable, c)
          /\ UNCHANGED <<setup, pc, slot, lateRoutes>>
      BY <1>28, <2>2 DEF ApiClose, Close
    <3> HIDE DEF TypeOK, RouteInv, EntriesOwned, RouteToOwner, ClosedUnrouted, Registered
    <3> QED BY <3>1, RouteClose
  <2> QED BY <2>1, <2>2
<1>29. CASE Reload
  BY <1>29 DEF Reload
<1>30. CASE ServerClose
  BY <1>30 DEF ServerClose, closeAll
<1>31. CASE ServeReturns
  BY <1>31 DEF ServeReturns, closeAll
<1>32. CASE Finished
  BY <1>32 DEF Finished, vars
<1>33. CASE UNCHANGED vars
  BY <1>33 DEF vars
<1> QED
  BY <1>1, <1>2, <1>3, <1>4, <1>5, <1>6, <1>7, <1>8, <1>9, <1>10, <1>11, <1>12, <1>13,
      <1>14, <1>15, <1>16, <1>17, <1>18, <1>19, <1>20, <1>21, <1>22, <1>23, <1>24,
      <1>25, <1>26, <1>27, <1>28, <1>29, <1>30, <1>31, <1>32, <1>33
     DEF Next, Handler, Environment

\* The routes are right in every reachable state.
LEMMA RouteInvariant == Spec => []RouteInv
BY TypingInvariant, SlotInvariant, RouteInit, RouteNext, PTL DEF Spec

\* A live socket that is being served is the one the IP switch finds under its
\* address.
THEOREM RoutesReachOwner == Spec => []RouteToOwner
<1>1. RouteInv => RouteToOwner
  BY DEF RouteInv
<1> QED
  BY <1>1, RouteInvariant, PTL

\* Only a socket closed between listing and registration can leave a stale entry
\* in the IP switch.
THEOREM StaleRoutesExplained == Spec => []ClosedUnrouted
<1>1. RouteInv => ClosedUnrouted
  BY DEF RouteInv
<1> QED
  BY <1>1, RouteInvariant, PTL

\* The registration of a socket never disconnects a live one.
THEOREM NoLiveConflict == Spec => []ConflictOnlyWithClosed
<1>1. TypeOK /\ Addressed /\ SlotInv /\ RouteInv => ConflictOnlyWithClosed
  <2> SUFFICES ASSUME TypeOK, Addressed, SlotInv, RouteInv,
                      NEW c \in Conns, pc[c] = "configured"
               PROVE  OldSocket(c) \in closing \cup {NoConn}
    BY DEF ConflictOnlyWithClosed
  <2>1. slot[c] \in Addresses /\ OldSocket(c) \in Conns \cup {NoConn}
    BY DEF TypeOK, Addressed, OldSocket
  <2>2. CASE OldSocket(c) # NoConn /\ OldSocket(c) \notin closing
    <3>1. /\ slot[OldSocket(c)] = slot[c]
          /\ pc[OldSocket(c)] \in {"serving", "waiting", "unlist", "closeSocket"}
      BY <2>1, <2>2 DEF TypeOK, RouteInv, EntriesOwned, OldSocket
    <3>2. OldSocket(c) \in Holders /\ c \in Holders
      BY <2>1, <2>2, <3>1 DEF Holders, Holding
    <3> QED
      BY <3>1, <3>2 DEF SlotInv, HoldersDistinct
  <2> QED BY <2>1, <2>2
<1> QED
  BY <1>1, TypingInvariant, SlotInvariant, RouteInvariant, PTL

----------------------------------------------------------------------------
(* The limit.  A listed socket is between its admission and its removal, and *)
(* a list is no longer than the largest limit that one of its user's         *)
(* connections has read.  While the limit of the start is in force every     *)
(* handler has read that one.                                                *)

LimitInForce == reloads = 0 /\ config.max > 0

ListedStages == {"listed", "assigned", "configured", "serving", "waiting", "unlist"}

LaterStages == ListedStages \cup {"closeSocket", "closeIface", "releaseSlot", "closeAdapter", "done"}

ListedServed == \A c \in sockets : pc[c] \in ListedStages

LimitRead ==
    \A c \in Conns :
        /\ limit[c] \in {0, config.max}
        /\ pc[c] \in {"made"} \cup ListedStages => limit[c] = config.max

ListsBounded ==
    \A u \in Users :
        Len(authenticatedSockets[u]) = 0
          \/ \E c \in PastAdmission(u) : Len(authenticatedSockets[u]) <= limit[c]

LimitInv ==
    /\ ListedServed
    /\ UserListsCurrent
    /\ ListsBounded
    /\ LimitInForce => LimitRead

\* Nothing is listed when the server starts.
LEMMA LimitInit == Init => LimitInv
<1> SUFFICES ASSUME Init PROVE LimitInv
  OBVIOUS
<1>1. ListedServed
  BY DEF Init, ListedServed
<1>2. \A u \in Users : authenticatedSockets[u] = <<>>
  BY DEF Init
<1>3. UserListsCurrent
  BY <1>2 DEF Init, UserListsCurrent, Counted, ToSet, IsInjective
<1>4. LimitRead
  BY DEF Init, LimitRead, ListedStages
<1>5. ListsBounded
  BY <1>2 DEF ListsBounded
<1> QED
  BY <1>1, <1>3, <1>4, <1>5 DEF LimitInv

\* The configured maximum is a number, and so is what a handler has read.
LEMMA MaxIsANumber ==
    ASSUME TypeOK
    PROVE  config.max \in Nat /\ \A c \in Conns : limit[c] \in Nat
<1>1. config.max \in Nat
  BY LimitsAssumption DEF TypeOK
<1>2. ASSUME NEW c \in Conns PROVE limit[c] \in Nat
  <2>1. limit[c] \in Limits \/ limit[c] = 0
    BY DEF TypeOK
  <2>2. CASE limit[c] \in Limits
    BY <2>2, LimitsAssumption, Zenon
  <2>3. CASE limit[c] = 0
    BY <2>3
  <2> QED BY <2>1, <2>2, <2>3
<1> QED BY <1>1, <1>2

\* Whoever is past its admission stays there, with the limit it has read.
LEMMA AdmissionFrame ==
    ASSUME NEW u,
           \A c \in Conns : pc[c] \in LaterStages =>
               pc'[c] \in LaterStages /\ limit'[c] = limit[c] /\ user'[c] = user[c]
    PROVE  \A c \in PastAdmission(u) : c \in PastAdmission(u)' /\ limit'[c] = limit[c]
BY DEF PastAdmission, LaterStages, ListedStages

\* A step that changes neither the tables nor the configuration keeps the lists:
\* closing a socket only shortens what they must hold.
LEMMA LimitFrame ==
    ASSUME LimitInv, sockets \subseteq Conns,
           UNCHANGED <<sockets, authenticatedSockets, config, reloads>>,
           closing \subseteq closing',
           \A c \in sockets : pc'[c] \in ListedStages,
           \A c \in Conns : pc[c] \in LaterStages =>
               pc'[c] \in LaterStages /\ limit'[c] = limit[c] /\ user'[c] = user[c],
           \A c \in Conns : limit'[c] = limit[c] \/ limit'[c] = config.max,
           \A c \in Conns : pc'[c] \in {"made"} \cup ListedStages =>
               limit'[c] = config.max
                 \/ (pc[c] \in {"made"} \cup ListedStages /\ limit'[c] = limit[c])
    PROVE  LimitInv'
<1>1. ListedServed'
  BY DEF ListedServed
<1>2. UserListsCurrent'
  <2>1. \A c \in sockets : user'[c] = user[c] /\ limit'[c] = limit[c]
    BY DEF LimitInv, ListedServed, LaterStages
  <2>2. \A u \in Users : Counted(u)' = Counted(u)
    BY <2>1 DEF Counted
  <2> QED BY <2>2 DEF LimitInv, UserListsCurrent
<1>3. ListsBounded'
  <2> SUFFICES ASSUME NEW u \in Users, Len(authenticatedSockets[u]) # 0
               PROVE  \E c \in PastAdmission(u)' : Len(authenticatedSockets[u]) <= limit'[c]
    BY DEF ListsBounded
  <2>1. PICK c \in PastAdmission(u) : Len(authenticatedSockets[u]) <= limit[c]
    BY DEF LimitInv, ListsBounded
  <2>2. c \in PastAdmission(u)' /\ limit'[c] = limit[c]
    BY AdmissionFrame
  <2> QED BY <2>1, <2>2
<1>4. LimitInForce' => LimitRead'
  BY DEF LimitInv, LimitInForce, LimitRead
<1> QED BY <1>1, <1>2, <1>3, <1>4 DEF LimitInv

\* A list without repetition stays so when a new socket is appended.
LEMMA ListAppended ==
    ASSUME NEW S, NEW s \in Seq(S), NEW e \in S
    PROVE  /\ Append(s, e) \in Seq(S)
           /\ Len(Append(s, e)) = Len(s) + 1
           /\ ToSet(Append(s, e)) = ToSet(s) \cup {e}
           /\ IsInjective(s) /\ e \notin ToSet(s) => IsInjective(Append(s, e))
<1> DEFINE t == Append(s, e)
<1>1. /\ t \in Seq(S) /\ Len(t) = Len(s) + 1
      /\ \A i \in 1..Len(s) : t[i] = s[i]
      /\ t[Len(s) + 1] = e
  OBVIOUS
<1> HIDE DEF t
<1>2. ToSet(t) = ToSet(s) \cup {e}
  <2>1. DOMAIN t = 1..(Len(s) + 1) /\ DOMAIN s = 1..Len(s) /\ Len(s) \in Nat
    BY <1>1
  <2>2. \A i \in 1..(Len(s) + 1) : i \in 1..Len(s) \/ i = Len(s) + 1
    BY <2>1
  <2>3. ToSet(t) \subseteq ToSet(s) \cup {e}
    BY <1>1, <2>1, <2>2 DEF ToSet
  <2>4. ToSet(s) \cup {e} \subseteq ToSet(t)
    BY <1>1, <2>1 DEF ToSet
  <2> QED BY <2>3, <2>4
<1>3. ASSUME IsInjective(s), e \notin ToSet(s) PROVE IsInjective(t)
  BY <1>1, <1>3 DEF IsInjective, ToSet
<1> QED BY <1>1, <1>2, <1>3 DEF t

\* The list of which the oldest socket has been dropped.
LEMMA OldestDropped ==
    ASSUME NEW S, NEW s \in Seq(S), s # <<>>
    PROVE  /\ Tail(s) \in Seq(S)
           /\ Len(Tail(s)) = Len(s) - 1
           /\ ToSet(s) \ {Head(s)} \subseteq ToSet(Tail(s))
           /\ ToSet(Tail(s)) \subseteq ToSet(s)
           /\ IsInjective(s) => IsInjective(Tail(s)) /\ Head(s) \notin ToSet(Tail(s))
<1> DEFINE t == Tail(s)
<1>1. /\ t \in Seq(S) /\ Len(t) = Len(s) - 1 /\ Len(s) >= 1
      /\ \A i \in 1..(Len(s) - 1) : t[i] = s[i + 1]
      /\ Head(s) = s[1]
  OBVIOUS
<1> HIDE DEF t
<1>2. ToSet(s) \ {Head(s)} \subseteq ToSet(t)
  <2> SUFFICES ASSUME NEW j \in 1..Len(s), s[j] # Head(s)
               PROVE  \E i \in 1..Len(t) : t[i] = s[j]
    BY <1>1 DEF ToSet
  <2>1. j - 1 \in 1..Len(t) /\ t[j - 1] = s[j]
    BY <1>1
  <2> QED BY <2>1
<1>3. ToSet(t) \subseteq ToSet(s)
  <2> SUFFICES ASSUME NEW i \in 1..(Len(s) - 1) PROVE \E j \in 1..Len(s) : s[j] = t[i]
    BY <1>1 DEF ToSet
  <2>1. i + 1 \in 1..Len(s) /\ s[i + 1] = t[i]
    BY <1>1
  <2> QED BY <2>1
<1>4. ASSUME IsInjective(s) PROVE IsInjective(t) /\ Head(s) \notin ToSet(t)
  <2>1. \A x, y \in 1..Len(s) : s[x] = s[y] => x = y
    BY <1>4 DEF IsInjective
  <2>2. IsInjective(t)
    BY <1>1, <2>1 DEF IsInjective
  <2>3. Head(s) \notin ToSet(t)
    BY <1>1, <2>1 DEF ToSet
  <2> QED BY <2>2, <2>3
<1> QED BY <1>1, <1>2, <1>3, <1>4 DEF t


\* Every step keeps the lists and their bound.
LEMMA LimitNext == TypeOK /\ LimitInv /\ [Next]_vars => LimitInv'
<1> SUFFICES ASSUME TypeOK, LimitInv, [Next]_vars PROVE LimitInv'
  OBVIOUS
<1> USE DEF handlerVars, tableVars, configVars, socketVars, otherVars
<1>0. /\ pc \in [Conns -> Stages] /\ limit \in [Conns -> Limits \cup {0}]
      /\ user \in [Conns -> Users \cup {NoUser}]
      /\ sockets \subseteq Conns /\ \A c \in sockets : pc[c] \in ListedStages
  BY DEF TypeOK, LimitInv, ListedServed
<1>1. ASSUME NEW c \in Conns, Upgrade(c) PROVE LimitInv'
  BY <1>0, <1>1, LimitFrame DEF ListedStages, LaterStages, Upgrade, Goto
<1>2. ASSUME NEW c \in Conns, AddCloser(c) PROVE LimitInv'
  BY <1>0, <1>2, LimitFrame DEF ListedStages, LaterStages, AddCloser, Goto
<1>3. ASSUME NEW c \in Conns, AllocateSlot(c) PROVE LimitInv'
  BY <1>0, <1>3, LimitFrame DEF ListedStages, LaterStages, AllocateSlot, Goto
<1>4. ASSUME NEW c \in Conns, SlotsExhausted(c) PROVE LimitInv'
  BY <1>0, <1>4, LimitFrame DEF ListedStages, LaterStages, SlotsExhausted, Goto
<1>5. ASSUME NEW c \in Conns, AddressFails(c) PROVE LimitInv'
  BY <1>0, <1>5, LimitFrame DEF ListedStages, LaterStages, AddressFails, Goto
<1>6. ASSUME NEW c \in Conns, CreateInterface(c) PROVE LimitInv'
  BY <1>0, <1>6, LimitFrame DEF ListedStages, LaterStages, CreateInterface, Goto
<1>7. ASSUME NEW c \in Conns, ConfigureInterfaceFails(c) PROVE LimitInv'
  BY <1>0, <1>7, LimitFrame DEF ListedStages, LaterStages, ConfigureInterfaceFails, Goto
<1>8. ASSUME NEW c \in Conns, MakeSocket(c) PROVE LimitInv'
  BY <1>0, <1>8, LimitFrame DEF ListedStages, LaterStages, MakeSocket, Goto
<1>9. ASSUME NEW c \in Conns, AdmitFree(c) PROVE LimitInv'
  <2>1. /\ pc[c] = "made" /\ pc' = [pc EXCEPT ![c] = "listed"]
        /\ sockets' = sockets \cup {c}
        /\ UNCHANGED <<user, limit, closing, config, reloads>>
    BY <1>9 DEF AdmitFree, List, Goto
  <2>2. c \notin sockets
    BY <1>0, <2>1 DEF ListedStages
  <2>3. /\ ListedServed' /\ (LimitInForce' => LimitRead')
        /\ \A d \in Conns : pc[d] \in LaterStages =>
               pc'[d] \in LaterStages /\ limit'[d] = limit[d] /\ user'[d] = user[d]
    BY <1>0, <2>1
       DEF LimitInv, LimitInForce, LimitRead, ListedServed, LaterStages, ListedStages
  <2>4. \A u \in Users : \A d \in PastAdmission(u) :
            d \in PastAdmission(u)' /\ limit'[d] = limit[d]
    BY <2>3, AdmissionFrame
  <2>5. CASE ~Limited(c)
    <3>1. authenticatedSockets' = authenticatedSockets
      BY <1>9, <2>5 DEF AdmitFree
    <3>2. user[c] = NoUser \/ limit[c] = 0
      BY <2>5, MaxIsANumber DEF Limited
    <3>3. \A u \in Users : Counted(u)' = Counted(u)
      BY <2>1, <3>2, UsersAssumption DEF Counted
    <3>4. UserListsCurrent'
      BY <2>1, <3>1, <3>3 DEF LimitInv, UserListsCurrent
    <3>5. ListsBounded'
      BY <2>4, <3>1 DEF LimitInv, ListsBounded
    <3> QED BY <2>3, <3>4, <3>5 DEF LimitInv
  <2>6. CASE Limited(c)
    <3> DEFINE v == user[c]
               list == authenticatedSockets[v]
    <3>1. v \in Users /\ list \in Seq(Conns) /\ limit[c] > 0
      BY <2>6 DEF Limited, TypeOK
    <3>2. Len(list) < limit[c]
      <4>1. ~(Len(list) >= limit[c])
        BY <1>9, <2>6 DEF AdmitFree, AtLimit
      <4>2. Len(list) \in Nat /\ limit[c] \in Nat
        BY <3>1, MaxIsANumber
      <4> QED BY <4>1, <4>2
    <3>3. /\ authenticatedSockets'[v] = Append(list, c)
          /\ \A u \in Users \ {v} : authenticatedSockets'[u] = authenticatedSockets[u]
      BY <1>9, <2>6, <3>1 DEF AdmitFree, TypeOK
    <3>4. /\ Counted(v)' = Counted(v) \cup {c}
          /\ \A u \in Users \ {v} : Counted(u)' = Counted(u)
      BY <2>1, <3>1 DEF Counted
    <3>5. /\ IsInjective(list) /\ ToSet(list) \subseteq Counted(v)
          /\ Counted(v) \ closing \subseteq ToSet(list)
      BY <3>1 DEF LimitInv, UserListsCurrent
    <3> HIDE DEF list
    <3>6. c \notin ToSet(list)
      BY <2>2, <3>5 DEF Counted
    <3>7. /\ IsInjective(Append(list, c)) /\ ToSet(Append(list, c)) = ToSet(list) \cup {c}
          /\ Len(Append(list, c)) = Len(list) + 1
      BY <3>1, <3>5, <3>6, ListAppended
    <3>8. UserListsCurrent'
      <4> SUFFICES ASSUME NEW u \in Users
                   PROVE  /\ IsInjective(authenticatedSockets'[u])
                          /\ ToSet(authenticatedSockets'[u]) \subseteq Counted(u)'
                          /\ Counted(u)' \ closing \subseteq ToSet(authenticatedSockets'[u])
        BY <2>1 DEF UserListsCurrent
      <4>1. CASE u = v
        BY <2>1, <3>3, <3>4, <3>5, <3>7, <4>1 DEF Counted
      <4>2. CASE u # v
        BY <3>3, <3>4, <4>2 DEF LimitInv, UserListsCurrent
      <4> QED BY <4>1, <4>2
    <3>9. ListsBounded'
      <4> SUFFICES ASSUME NEW u \in Users
                   PROVE  \/ Len(authenticatedSockets'[u]) = 0
                          \/ \E d \in PastAdmission(u)' : Len(authenticatedSockets'[u]) <= limit'[d]
        BY DEF ListsBounded
      <4>1. CASE u = v
        <5>1. c \in PastAdmission(u)' /\ limit'[c] = limit[c]
          BY <1>0, <2>1, <4>1 DEF PastAdmission
        <5>2. Len(list) + 1 <= limit[c]
          <6>1. Len(list) \in Nat /\ limit[c] \in Nat
            BY <3>1, MaxIsANumber
          <6> QED BY <3>2, <6>1
        <5> QED BY <3>3, <3>7, <4>1, <5>1, <5>2
      <4>2. CASE u # v
        BY <2>4, <3>3, <4>2 DEF LimitInv, ListsBounded
      <4> QED BY <4>1, <4>2
    <3> QED BY <2>3, <3>8, <3>9 DEF LimitInv
  <2> QED BY <2>5, <2>6
<1>10. ASSUME NEW c \in Conns, AdmitKillOldest(c) PROVE LimitInv'
  <2> DEFINE v == user[c]
             list == authenticatedSockets[v]
             oldest == Head(list)
             new == Append(Tail(list), c)
  <2>1. /\ pc[c] = "made" /\ pc' = [pc EXCEPT ![c] = "listed"]
        /\ sockets' = sockets \cup {c}
        /\ UNCHANGED <<user, limit, config, reloads>>
        /\ closing' = closing \cup {oldest}
        /\ authenticatedSockets' = [authenticatedSockets EXCEPT ![v] = new]
    BY <1>10 DEF AdmitKillOldest, List, Goto, CloseError
  <2>2. c \notin sockets
    BY <1>0, <2>1 DEF ListedStages
  <2>3. /\ ListedServed' /\ (LimitInForce' => LimitRead')
        /\ \A d \in Conns : pc[d] \in LaterStages =>
               pc'[d] \in LaterStages /\ limit'[d] = limit[d] /\ user'[d] = user[d]
    BY <1>0, <2>1
       DEF LimitInv, LimitInForce, LimitRead, ListedServed, LaterStages, ListedStages
  <2>4. /\ v \in Users /\ list \in Seq(Conns) /\ list # <<>> /\ oldest \in Conns
        /\ limit[c] > 0
    BY <1>10, OldestIsASocket DEF AdmitKillOldest, AtLimit, Limited
  <2>5. /\ authenticatedSockets'[v] = new
        /\ \A u \in Users \ {v} : authenticatedSockets'[u] = authenticatedSockets[u]
    BY <2>1, <2>4 DEF TypeOK
  <2>6. /\ Counted(v)' = Counted(v) \cup {c}
        /\ \A u \in Users \ {v} : Counted(u)' = Counted(u)
    BY <2>1, <2>4 DEF Counted
  <2>7. /\ IsInjective(list) /\ ToSet(list) \subseteq Counted(v)
        /\ Counted(v) \ closing \subseteq ToSet(list)
    BY <2>4 DEF LimitInv, UserListsCurrent
  <2> HIDE DEF list
  <2>8. /\ Tail(list) \in Seq(Conns) /\ Len(Tail(list)) = Len(list) - 1
        /\ ToSet(Tail(list)) = ToSet(list) \ {oldest} /\ IsInjective(Tail(list))
    BY <2>4, <2>7, OldestDropped
  <2>9. c \notin ToSet(Tail(list))
    BY <2>2, <2>7, <2>8 DEF Counted
  <2>10. /\ IsInjective(new) /\ ToSet(new) = (ToSet(list) \ {oldest}) \cup {c}
         /\ Len(new) = Len(list)
    <3>1. /\ IsInjective(new) /\ ToSet(new) = ToSet(Tail(list)) \cup {c}
          /\ Len(new) = Len(Tail(list)) + 1
      <4> DEFINE t == Tail(list)
      <4>1. t \in Seq(Conns) /\ IsInjective(t) /\ c \notin ToSet(t)
        BY <2>8, <2>9
      <4> HIDE DEF t
      <4>2. /\ IsInjective(Append(t, c)) /\ ToSet(Append(t, c)) = ToSet(t) \cup {c}
            /\ Len(Append(t, c)) = Len(t) + 1
        BY <4>1, ListAppended
      <4> QED BY <4>2 DEF t
    <3>2. Len(list) \in Nat
      BY <2>4
    <3> QED BY <2>8, <3>1, <3>2
  <2> HIDE DEF new, oldest
  <2>11. UserListsCurrent'
    <3> SUFFICES ASSUME NEW u \in Users
                 PROVE  /\ IsInjective(authenticatedSockets'[u])
                        /\ ToSet(authenticatedSockets'[u]) \subseteq Counted(u)'
                        /\ Counted(u)' \ closing' \subseteq ToSet(authenticatedSockets'[u])
      BY DEF UserListsCurrent
    <3>1. CASE u = v
      BY <2>1, <2>5, <2>6, <2>7, <2>10, <3>1
    <3>2. CASE u # v
      BY <2>1, <2>5, <2>6, <3>2 DEF LimitInv, UserListsCurrent
    <3> QED BY <3>1, <3>2
  <2>12. ListsBounded'
    <3> SUFFICES ASSUME NEW u \in Users, Len(authenticatedSockets'[u]) # 0
                 PROVE  \E d \in PastAdmission(u)' : Len(authenticatedSockets'[u]) <= limit'[d]
      BY DEF ListsBounded
    <3>1. Len(authenticatedSockets'[u]) = Len(authenticatedSockets[u])
      BY <2>5, <2>10 DEF list
    <3>2. PICK d \in PastAdmission(u) : Len(authenticatedSockets[u]) <= limit[d]
      BY <3>1 DEF LimitInv, ListsBounded
    <3> QED BY <2>3, <3>1, <3>2, AdmissionFrame
  <2> QED BY <2>3, <2>11, <2>12 DEF LimitInv
<1>11. ASSUME NEW c \in Conns, RefuseNew(c) PROVE LimitInv'
  BY <1>0, <1>11, LimitFrame DEF ListedStages, LaterStages, RefuseNew, CloseError, Goto
<1>12. ASSUME NEW c \in Conns, AssignIP(c) PROVE LimitInv'
  BY <1>0, <1>12, LimitFrame DEF ListedStages, LaterStages, AssignIP, Goto
<1>13. ASSUME NEW c \in Conns, ConfigureSocket(c) PROVE LimitInv'
  BY <1>0, <1>13, LimitFrame DEF ListedStages, LaterStages, ConfigureSocket, Goto
<1>14. ASSUME NEW c \in Conns, Serve(c) PROVE LimitInv'
  BY <1>0, <1>14, LimitFrame DEF ListedStages, LaterStages, Serve, Goto
<1>15. ASSUME NEW c \in Conns, SendInit(c) PROVE LimitInv'
  BY <1>0, <1>15, LimitFrame DEF ListedStages, LaterStages, SendInit, Goto
<1>16. ASSUME NEW c \in Conns, InitFails(c) PROVE LimitInv'
  BY <1>0, <1>16, LimitFrame DEF ListedStages, LaterStages, InitFails, CloseError, Goto
<1>17. ASSUME NEW c \in Conns, WaitReturns(c) PROVE LimitInv'
  BY <1>0, <1>17, LimitFrame DEF ListedStages, LaterStages, WaitReturns, Goto
<1>18. ASSUME NEW c \in Conns, Unlist(c) PROVE LimitInv'
  <2>1. /\ pc[c] = "unlist" /\ pc' = [pc EXCEPT ![c] = "closeSocket"]
        /\ sockets' = sockets \ {c}
        /\ UNCHANGED <<user, limit, closing, config, reloads>>
    BY <1>18 DEF Unlist, Goto
  <2>2. /\ ListedServed' /\ (LimitInForce' => LimitRead')
        /\ \A d \in Conns : pc[d] \in LaterStages =>
               pc'[d] \in LaterStages /\ limit'[d] = limit[d] /\ user'[d] = user[d]
    BY <1>0, <2>1
       DEF LimitInv, LimitInForce, LimitRead, ListedServed, LaterStages, ListedStages
  <2>3. ASSUME NEW u \in Users
        PROVE  /\ IsInjective(authenticatedSockets'[u])
               /\ ToSet(authenticatedSockets'[u]) \subseteq Counted(u)'
               /\ Counted(u)' \ closing \subseteq ToSet(authenticatedSockets'[u])
               /\ Len(authenticatedSockets'[u]) <= Len(authenticatedSockets[u])
               /\ authenticatedSockets'[u] \in Seq(Conns)
    <3> DEFINE list == authenticatedSockets[u]
    <3>1. /\ IsInjective(list) /\ ToSet(list) \subseteq Counted(u)
          /\ Counted(u) \ closing \subseteq ToSet(list) /\ list \in Seq(Conns)
      BY DEF LimitInv, UserListsCurrent, TypeOK
    <3>2. Counted(u)' = Counted(u) \ {c}
      BY <2>1 DEF Counted
    <3>3. CASE u = user[c]
      <4>1. authenticatedSockets'[u] = Without(list, c)
        BY <1>18, <3>3, UsersAssumption DEF Unlist, TypeOK
      <4> HIDE DEF list
      <4>2. /\ IsInjective(Without(list, c)) /\ ToSet(Without(list, c)) = ToSet(list) \ {c}
            /\ Len(Without(list, c)) <= Len(list) /\ Without(list, c) \in Seq(Conns)
        BY <3>1, WithoutProperties
      <4> QED BY <3>1, <3>2, <4>1, <4>2 DEF list
    <3>4. CASE u # user[c]
      <4>1. authenticatedSockets'[u] = list
        BY <1>18, <3>4 DEF Unlist, TypeOK
      <4>2. c \notin Counted(u)
        BY <3>4 DEF Counted
      <4>3. Len(list) <= Len(list)
        BY <3>1
      <4> QED BY <3>1, <3>2, <4>1, <4>2, <4>3
    <3> QED BY <3>3, <3>4
  <2>4. UserListsCurrent'
    BY <2>1, <2>3 DEF UserListsCurrent
  <2>5. ListsBounded'
    <3> SUFFICES ASSUME NEW u \in Users, Len(authenticatedSockets'[u]) # 0
                 PROVE  \E d \in PastAdmission(u)' : Len(authenticatedSockets'[u]) <= limit'[d]
      BY DEF ListsBounded
    <3> DEFINE m == Len(authenticatedSockets'[u])
               n == Len(authenticatedSockets[u])
    <3>1. m \in Nat /\ n \in Nat /\ m <= n
      BY <2>3 DEF TypeOK
    <3>2. n # 0
      BY <3>1
    <3>3. PICK d \in PastAdmission(u) : n <= limit[d]
      BY <3>2 DEF LimitInv, ListsBounded
    <3>4. d \in PastAdmission(u)' /\ limit'[d] = limit[d] /\ limit[d] \in Nat
      BY <2>2, AdmissionFrame, MaxIsANumber DEF PastAdmission
    <3>5. m <= limit'[d]
      BY <3>1, <3>3, <3>4
    <3> QED BY <3>4, <3>5
  <2> QED BY <2>2, <2>4, <2>5 DEF LimitInv
<1>19. ASSUME NEW c \in Conns, CloseSocket(c) PROVE LimitInv'
  BY <1>0, <1>19, LimitFrame DEF ListedStages, LaterStages, CloseSocket, Close, Goto
<1>20. ASSUME NEW c \in Conns, CloseInterface(c) PROVE LimitInv'
  BY <1>0, <1>20, LimitFrame DEF ListedStages, LaterStages, CloseInterface, Goto
<1>21. ASSUME NEW c \in Conns, ReleaseSlot(c) PROVE LimitInv'
  BY <1>0, <1>21, LimitFrame DEF ListedStages, LaterStages, ReleaseSlot, Goto
<1>22. ASSUME NEW c \in Conns, CloseAdapter(c) PROVE LimitInv'
  BY <1>0, <1>22, LimitFrame DEF ListedStages, LaterStages, CloseAdapter, Goto
<1>23. ASSUME NEW c \in Conns, ReceiveVersion(c) PROVE LimitInv'
  BY <1>0, <1>23, LimitFrame DEF ListedStages, LaterStages, ReceiveVersion
<1>24. ASSUME NEW c \in Conns, AdapterEnds(c) PROVE LimitInv'
  BY <1>0, <1>24, LimitFrame DEF ListedStages, LaterStages, AdapterEnds
<1>25. ASSUME NEW c \in Conns, GoroutineCloses(c) PROVE LimitInv'
  BY <1>0, <1>25, LimitFrame DEF ListedStages, LaterStages, GoroutineCloses, Close
<1>26. ASSUME NEW c \in Conns, ErrorCloses(c) PROVE LimitInv'
  BY <1>0, <1>26, LimitFrame DEF ListedStages, LaterStages, ErrorCloses
<1>27. ASSUME NEW c \in Conns, ApiLookup(c) PROVE LimitInv'
  BY <1>0, <1>27, LimitFrame DEF ListedStages, LaterStages, ApiLookup
<1>28. ASSUME NEW c \in Conns, ApiClose(c) PROVE LimitInv'
  BY <1>0, <1>28, LimitFrame DEF ListedStages, LaterStages, ApiClose, Close
<1>29. CASE Reload
  <2>1. reloads' # 0
        /\ UNCHANGED <<pc, user, limit, sockets, authenticatedSockets, closing>>
    BY <1>29, SetupsAssumption DEF Reload, TypeOK
  <2>2. \A u : Counted(u)' = Counted(u) /\ PastAdmission(u)' = PastAdmission(u)
    BY <2>1 DEF Counted, PastAdmission
  <2> QED BY <2>1, <2>2
     DEF LimitInv, LimitInForce, ListedServed, UserListsCurrent, ListsBounded
<1>30. CASE ServerClose
  BY <1>0, <1>30, LimitFrame DEF ServerClose, closeAll
<1>31. CASE ServeReturns
  BY <1>0, <1>31, LimitFrame DEF ServeReturns, closeAll
<1>32. CASE Finished
  BY <1>0, <1>32, LimitFrame DEF Finished, vars
<1>33. CASE UNCHANGED vars
  BY <1>0, <1>33, LimitFrame DEF vars
<1> QED
  BY <1>1, <1>2, <1>3, <1>4, <1>5, <1>6, <1>7, <1>8, <1>9, <1>10, <1>11, <1>12, <1>13,
      <1>14, <1>15, <1>16, <1>17, <1>18, <1>19, <1>20, <1>21, <1>22, <1>23, <1>24,
      <1>25, <1>26, <1>27, <1>28, <1>29, <1>30, <1>31, <1>32, <1>33
     DEF Next, Handler, Environment

\* The lists are right, and bounded, in every reachable state.
LEMMA LimitInvariant == Spec => [](TypeOK /\ LimitInv)
BY TypingInvariant, LimitInit, LimitNext, PTL DEF Spec

\* What the per-user limit counts is what is connected: whatever order admission,
\* kill-oldest, API deletes and disconnections come in, a user's list holds each of the
\* user's live listed connections once and nobody else.
THEOREM ListsHoldLiveConnections == Spec => []UserListsCurrent
<1>1. LimitInv => UserListsCurrent
  BY DEF LimitInv
<1> QED
  BY <1>1, LimitInvariant, PTL

\* A set that a list covers has no more members than the list has entries.
LEMMA CoveredByList ==
    ASSUME NEW S, NEW s \in Seq(S), NEW T \in SUBSET ToSet(s)
    PROVE  Cardinality(T) \in Nat /\ Cardinality(T) <= Len(s)
<1>1. Len(s) \in Nat /\ DOMAIN s = 1..Len(s)
  OBVIOUS
<1>2. s \in Surjection(1..Len(s), ToSet(s))
  BY <1>1 DEF Surjection, ToSet
<1>3. IsFiniteSet(1..Len(s)) /\ Cardinality(1..Len(s)) = Len(s)
  <2>1. 1 \in Int /\ Len(s) \in Int
    BY <1>1
  <2>2. IsFiniteSet(1..Len(s)) /\ Cardinality(1..Len(s)) = IF 1 > Len(s) THEN 0 ELSE Len(s) - 1 + 1
    BY <2>1, FS_Interval, Zenon
  <2> QED BY <1>1, <2>2
<1>4. IsFiniteSet(ToSet(s)) /\ Cardinality(ToSet(s)) <= Len(s)
  BY <1>2, <1>3, FS_Surjection
<1>5. IsFiniteSet(T) /\ Cardinality(T) <= Cardinality(ToSet(s))
  BY <1>4, FS_Subset
<1>6. Cardinality(T) \in Nat /\ Cardinality(ToSet(s)) \in Nat
  BY <1>4, <1>5, FS_CardinalityType
<1> QED BY <1>1, <1>4, <1>5, <1>6

\* max-connections-per-user is never exceeded, for any number of users and connections and
\* any limit; and whatever reloads do between its read and its use, a user never has more
\* connections that count than the largest limit that one of the user's connections read.
THEOREM LimitRespected == Spec => []UserLimit
<1>1. TypeOK /\ LimitInv => UserLimit
  <2> SUFFICES ASSUME TypeOK, LimitInv, NEW u \in Users
               PROVE  /\ LimitInForce => Cardinality(LiveConnections(u)) <= config.max
                      /\ \/ Counted(u) \subseteq closing
                         \/ \E c \in PastAdmission(u) :
                               Cardinality(Counted(u) \ closing) <= limit[c]
    BY DEF UserLimit, LimitInForce
  <2> DEFINE list == authenticatedSockets[u]
             live == Counted(u) \ closing
  <2>1. live \subseteq ToSet(list) /\ list \in Seq(Conns)
    BY DEF TypeOK, LimitInv, UserListsCurrent
  <2>2. Len(list) = 0 \/ \E c \in PastAdmission(u) : Len(list) <= limit[c]
    BY DEF LimitInv, ListsBounded
  <2>3. LimitInForce => LiveConnections(u) = live
    BY MaxIsANumber
       DEF LimitInv, LimitInForce, LimitRead, ListedServed, LiveConnections, Counted, TypeOK
  <2>4. LimitInForce => \A c \in PastAdmission(u) : limit[c] <= config.max
    BY MaxIsANumber DEF LimitInv, LimitInForce, LimitRead, PastAdmission
  <2>5. PastAdmission(u) \subseteq Conns
    BY DEF PastAdmission
  <2> HIDE DEF list, live
  <2>6. Len(list) \in Nat /\ Cardinality(live) \in Nat /\ Cardinality(live) <= Len(list)
    BY <2>1, CoveredByList
  <2>7. CASE Len(list) = 0
    <3>1. ToSet(list) = {}
      BY <2>1, <2>7 DEF ToSet
    <3>2. Counted(u) \subseteq closing
      BY <2>1, <3>1 DEF live
    <3>3. LimitInForce => Cardinality(LiveConnections(u)) <= config.max
      BY <2>3, <2>6, <2>7, MaxIsANumber DEF LimitInForce
    <3> QED BY <3>2, <3>3
  <2>8. ASSUME NEW c \in PastAdmission(u), Len(list) <= limit[c]
        PROVE  /\ LimitInForce => Cardinality(LiveConnections(u)) <= config.max
               /\ Cardinality(live) <= limit[c]
    <3>1. limit[c] \in Nat /\ config.max \in Nat
      BY <2>5, MaxIsANumber
    <3>2. Cardinality(live) <= limit[c]
      BY <2>6, <2>8, <3>1
    <3>3. LimitInForce => Cardinality(live) <= config.max
      BY <2>4, <2>6, <3>1, <3>2
    <3> QED BY <2>3, <3>2, <3>3
  <2> QED BY <2>2, <2>7, <2>8 DEF live
<1> QED
  BY <1>1, LimitInvariant, PTL

----------------------------------------------------------------------------
(* The lease of addresses: the handlers implement it *)

\* The stages in which the handler has a socket.
LiveStages == {"made", "listed", "assigned", "configured", "serving", "waiting",
               "unlist", "closeSocket"}

\* A slot number is never 0, which stands for "no lease".
SlotsPositive == \A c \in Holders : slot[c] # 0

----------------------------------------------------------------------------
(* The kinds of steps, seen from the lease *)

\* A step that leaves slots, sockets and interfaces as they were, and moves no handler
\* across an allocation, a release or the life of its socket, is a stutter.
LEMMA LeaseFrame ==
    ASSUME UNCHANGED <<slot, closing, ifaces>>,
           \A d \in Conns : pc'[d] \in Holding <=> pc[d] \in Holding,
           \A d \in Conns : pc'[d] \in LiveStages <=> pc[d] \in LiveStages
    PROVE  UNCHANGED Addressing!vars
<1>1. Holders' = Holders
  BY DEF Holders
<1>2. Lease' = Lease
  BY <1>1 DEF Lease
<1>3. LiveSockets' = LiveSockets
  BY DEF LiveSockets, LiveStages
<1> QED BY <1>2, <1>3 DEF Addressing!vars

\* Closing a socket, and moving another handler along, ends at most the use of the
\* address of the closed one.
LEMMA LeaseStop ==
    ASSUME NEW k \in Conns, UNCHANGED slot,
           closing' = closing \cup {k}, ifaces' = ifaces \ {k},
           \A d \in Conns : pc'[d] \in Holding <=> pc[d] \in Holding,
           \A d \in Conns \ {k} : pc'[d] \in LiveStages <=> pc[d] \in LiveStages
    PROVE  [Addressing!Next]_(Addressing!vars)
<1>1. Holders' = Holders
  BY DEF Holders
<1>2. Lease' = Lease
  BY <1>1 DEF Lease
<1>3. (LiveSockets \cup ifaces)' = (LiveSockets \cup ifaces) \ {k}
  BY DEF LiveSockets, LiveStages
<1>4. Addressing!StopUsing(k)
  BY <1>2, <1>3 DEF Addressing!StopUsing
<1> QED BY <1>4 DEF Addressing!Next

----------------------------------------------------------------------------
\* No slot is held at the start.
LEMMA PositiveInit == Init => SlotsPositive
BY DEF Init, SlotsPositive, Holders, Holding

\* The scan starts at slot 1.
LEMMA PositiveNext == TypeOK /\ SlotsPositive /\ [Next]_vars => SlotsPositive'
<1> SUFFICES ASSUME TypeOK, SlotsPositive, [Next]_vars PROVE SlotsPositive'
  OBVIOUS
<1> USE DEF TypeOK, SlotsPositive, Holders, Holding, handlerVars, tableVars, configVars,
            socketVars, otherVars
<1>1. ASSUME NEW c \in Conns, AllocateSlot(c) PROVE SlotsPositive'
  BY <1>1 DEF AllocateSlot, Goto, Candidates
<1>2. ASSUME NEW c \in Conns, Handler(c), ~AllocateSlot(c) PROVE SlotsPositive'
  <2>1. slot' = slot /\ Holders' \subseteq Holders
    BY <1>2 DEF Handler, Goto, List, Upgrade, AddCloser, SlotsExhausted, AddressFails,
                CreateInterface, ConfigureInterfaceFails, MakeSocket, AdmitFree,
                AdmitKillOldest, RefuseNew, AssignIP, ConfigureSocket, Serve, SendInit,
                InitFails, WaitReturns, Unlist, CloseSocket, CloseInterface, ReleaseSlot,
                CloseAdapter
  <2> QED BY <2>1
<1>3. ASSUME NEW c \in Conns, Environment(c) PROVE SlotsPositive'
  <2>1. UNCHANGED <<pc, slot>>
    BY <1>3 DEF Environment, ReceiveVersion, AdapterEnds, GoroutineCloses, ErrorCloses,
                ApiLookup, ApiClose
  <2> QED BY <2>1
<1>4. CASE Reload \/ ServerClose \/ ServeReturns \/ Finished \/ UNCHANGED vars
  <2>1. UNCHANGED <<pc, slot>>
    BY <1>4 DEF Reload, ServerClose, ServeReturns, Finished, vars
  <2> QED BY <2>1
<1> QED BY <1>1, <1>2, <1>3, <1>4 DEF Next

----------------------------------------------------------------------------
\* The server starts with nothing leased.
LEMMA LeaseInit == Init => Addressing!Init
BY DEF Init, Addressing!Init, Lease, LiveSockets, Holders, Holding

\* Every step of the server is a step of the lease, or none.
LEMMA LeaseNext ==
    TypeOK /\ SlotInv /\ SlotsPositive /\ [Next]_vars => [Addressing!Next]_(Addressing!vars)
<1> SUFFICES ASSUME TypeOK, SlotInv, SlotsPositive, [Next]_vars
             PROVE  [Addressing!Next]_(Addressing!vars)
  OBVIOUS
<1> DEFINE Step == [Addressing!Next]_(Addressing!vars)
<1> USE DEF TypeOK, Holding, LiveStages, handlerVars, tableVars, configVars, socketVars,
            otherVars
<1>1. ASSUME NEW c \in Conns, AddCloser(c) PROVE Step
  BY <1>1, LeaseFrame DEF AddCloser, Goto
<1>2. ASSUME NEW c \in Conns, SlotsExhausted(c) PROVE Step
  BY <1>2, LeaseFrame DEF SlotsExhausted, Goto
<1>3. ASSUME NEW c \in Conns, AddressFails(c) PROVE Step
  BY <1>3, LeaseFrame DEF AddressFails, Goto
<1>4. ASSUME NEW c \in Conns, AdmitFree(c) PROVE Step
  BY <1>4, LeaseFrame DEF AdmitFree, List, Goto
<1>5. ASSUME NEW c \in Conns, AssignIP(c) PROVE Step
  BY <1>5, LeaseFrame DEF AssignIP, Goto
<1>6. ASSUME NEW c \in Conns, ConfigureSocket(c) PROVE Step
  BY <1>6, LeaseFrame DEF ConfigureSocket, Goto
<1>7. ASSUME NEW c \in Conns, SendInit(c) PROVE Step
  BY <1>7, LeaseFrame DEF SendInit, Goto
<1>8. ASSUME NEW c \in Conns, WaitReturns(c) PROVE Step
  BY <1>8, LeaseFrame DEF WaitReturns, Goto
<1>9. ASSUME NEW c \in Conns, Unlist(c) PROVE Step
  BY <1>9, LeaseFrame DEF Unlist, Goto
<1>10. ASSUME NEW c \in Conns, CloseAdapter(c) PROVE Step
  BY <1>10, LeaseFrame DEF CloseAdapter, Goto
<1>11. ASSUME NEW c \in Conns, Upgrade(c) PROVE Step
  BY <1>11, LeaseFrame DEF Upgrade, Goto
<1>12. ASSUME NEW c \in Conns, ConfigureInterfaceFails(c) PROVE Step
  BY <1>12, LeaseFrame DEF ConfigureInterfaceFails, Goto
<1>13. ASSUME NEW c \in Conns, AllocateSlot(c) PROVE Step
  <2> PICK s \in Candidates : /\ s \notin usedSlots
                              /\ slot' = [slot EXCEPT ![c] = s]
    BY <1>13 DEF AllocateSlot, FirstFree
  <2>1. s # 0
    BY DEF Candidates
  <2>2. /\ pc[c] = "closable" /\ pc' = [pc EXCEPT ![c] = "slotted"]
        /\ UNCHANGED <<closing, ifaces>>
    BY <1>13 DEF AllocateSlot, Goto
  <2>3. c \notin Holders /\ Holders' = Holders \cup {c}
    BY <2>2 DEF Holders
  <2>4. Lease[c] = 0 /\ Lease' = [Lease EXCEPT ![c] = s] /\ Lease'[c] = s
    BY <2>3 DEF Lease
  <2>5. \A d \in Conns : Lease[d] # s
    BY <2>1 DEF Lease, SlotInv, SlotsAccounted, Holders
  <2>6. LiveSockets' = LiveSockets
    BY <2>2 DEF LiveSockets
  <2>7. Addressing!Grant(c)
    BY <2>1, <2>2, <2>4, <2>5, <2>6 DEF Addressing!Grant
  <2> QED BY <2>7 DEF Addressing!Next
<1>14. ASSUME NEW c \in Conns, CreateInterface(c) PROVE Step
  <2>1. /\ pc[c] = "slotted" /\ pc'[c] \in {"ifaced", "releaseSlot"}
        /\ \A d \in Conns \ {c} : pc'[d] = pc[d]
        /\ ifaces' \in {ifaces, ifaces \cup {c}} /\ UNCHANGED <<slot, closing>>
    BY <1>14 DEF CreateInterface, Goto
  <2>2. CASE ifaces' = ifaces
    BY <2>1, <2>2, LeaseFrame
  <2>3. CASE ifaces' = ifaces \cup {c}
    <3>1. Holders' = Holders /\ c \in Holders
      BY <2>1 DEF Holders
    <3>2. Lease' = Lease /\ Lease[c] # 0
      BY <2>1, <3>1 DEF Lease, SlotsPositive
    <3>3. (LiveSockets \cup ifaces)' = (LiveSockets \cup ifaces) \cup {c}
      BY <2>1, <2>3 DEF LiveSockets
    <3>4. Addressing!Use(c)
      BY <3>2, <3>3 DEF Addressing!Use
    <3> QED BY <3>4 DEF Addressing!Next
  <2> QED BY <2>1, <2>2, <2>3
<1>15. ASSUME NEW c \in Conns, MakeSocket(c) PROVE Step
  <2>1. /\ pc[c] \in {"ifaced", "slotted"} /\ pc' = [pc EXCEPT ![c] = "made"]
        /\ UNCHANGED <<slot, closing, ifaces>>
    BY <1>15 DEF MakeSocket, Goto
  <2>2. Holders' = Holders /\ c \in Holders
    BY <2>1 DEF Holders
  <2>3. Lease' = Lease /\ Lease[c] # 0
    BY <2>1, <2>2 DEF Lease, SlotsPositive
  <2>4. CASE c \in closing
    <3>1. (LiveSockets \cup ifaces)' = LiveSockets \cup ifaces
      BY <2>1, <2>4 DEF LiveSockets
    <3> QED BY <2>3, <3>1 DEF Addressing!vars
  <2>5. CASE c \notin closing
    <3>1. (LiveSockets \cup ifaces)' = (LiveSockets \cup ifaces) \cup {c}
      BY <2>1, <2>5 DEF LiveSockets
    <3>2. Addressing!Use(c)
      BY <2>3, <3>1 DEF Addressing!Use
    <3> QED BY <3>2 DEF Addressing!Next
  <2> QED BY <2>4, <2>5
<1>16. ASSUME NEW c \in Conns, AdmitKillOldest(c) PROVE Step
  <2> DEFINE k == Head(authenticatedSockets[user[c]])
  <2>1. k \in Conns
    BY <1>16, OldestIsASocket DEF AdmitKillOldest
  <2>2. /\ closing' = closing \cup {k} /\ ifaces' = ifaces \ {k}
        /\ pc[c] = "made" /\ pc' = [pc EXCEPT ![c] = "listed"] /\ UNCHANGED slot
    BY <1>16 DEF AdmitKillOldest, CloseError, List, Goto
  <2> HIDE DEF k
  <2> QED BY <2>1, <2>2, LeaseStop
<1>17. ASSUME NEW c \in Conns, RefuseNew(c) PROVE Step
  BY <1>17, LeaseStop DEF RefuseNew, CloseError, Goto
<1>18. ASSUME NEW c \in Conns, InitFails(c) PROVE Step
  BY <1>18, LeaseStop DEF InitFails, CloseError, Goto
<1>19. ASSUME NEW c \in Conns, Serve(c) PROVE Step
  <2> DEFINE old == OldSocket(c)
  <2>1. /\ pc[c] = "configured" /\ pc' = [pc EXCEPT ![c] = "serving"]
        /\ UNCHANGED <<slot, ifaces>>
        /\ closing' = closing \/ closing' = closing \cup ({old} \ {NoConn})
    BY <1>19 DEF Serve, Goto
  <2> HIDE DEF old
  <2>2. Holders' = Holders
    BY <2>1 DEF Holders
  <2>3. Lease' = Lease
    BY <2>1, <2>2 DEF Lease
  <2>4. \/ LiveSockets' = LiveSockets
        \/ old \in Conns /\ LiveSockets' = LiveSockets \ {old}
    <3>1. CASE closing' = closing
      <4>1. LiveSockets' = LiveSockets
        BY <2>1, <3>1 DEF LiveSockets
      <4> QED BY <4>1
    <3>2. CASE closing' = closing \cup ({old} \ {NoConn}) /\ old \in Conns
      <4>1. LiveSockets' = LiveSockets \ {old}
        BY <2>1, <3>2, ConnsAssumption DEF LiveSockets
      <4> QED BY <3>2, <4>1
    <3>3. CASE closing' = closing \cup ({old} \ {NoConn}) /\ old \notin Conns
      <4>1. LiveSockets' = LiveSockets
        BY <2>1, <3>3 DEF LiveSockets
      <4> QED BY <4>1
    <3> QED BY <2>1, <3>1, <3>2, <3>3
  <2>5. CASE (LiveSockets \cup ifaces)' = LiveSockets \cup ifaces
    BY <2>3, <2>5 DEF Addressing!vars
  <2>6. CASE old \in Conns /\ (LiveSockets \cup ifaces)' = (LiveSockets \cup ifaces) \ {old}
    <3>1. Addressing!StopUsing(old)
      BY <2>3, <2>6 DEF Addressing!StopUsing
    <3> QED BY <2>6, <3>1 DEF Addressing!Next
  <2> QED BY <2>1, <2>4, <2>5, <2>6
<1>20. ASSUME NEW c \in Conns, CloseSocket(c) PROVE Step
  <2>1. /\ pc[c] = "closeSocket" /\ pc' = [pc EXCEPT ![c] = "closeIface"]
        /\ UNCHANGED slot
    BY <1>20 DEF CloseSocket, Goto
  <2>2. CASE c \in closing
    <3>1. UNCHANGED <<closing, ifaces>>
      BY <1>20, <2>2 DEF CloseSocket, Close
    <3>2. Holders' = Holders
      BY <2>1 DEF Holders
    <3>3. Lease' = Lease /\ LiveSockets' = LiveSockets
      BY <2>1, <2>2, <3>1, <3>2 DEF Lease, LiveSockets
    <3> QED BY <3>1, <3>3 DEF Addressing!vars
  <2>3. CASE c \notin closing
    BY <1>20, <2>1, <2>3, LeaseStop DEF CloseSocket, Close
  <2> QED BY <2>2, <2>3
<1>21. ASSUME NEW c \in Conns, CloseInterface(c) PROVE Step
  <2>1. /\ pc[c] = "closeIface" /\ pc' = [pc EXCEPT ![c] = "releaseSlot"]
        /\ ifaces' = ifaces \ {c} /\ UNCHANGED <<slot, closing>>
    BY <1>21 DEF CloseInterface, Goto
  <2>2. Holders' = Holders
    BY <2>1 DEF Holders
  <2>3. Lease' = Lease
    BY <2>1, <2>2 DEF Lease
  <2>4. (LiveSockets \cup ifaces)' = (LiveSockets \cup ifaces) \ {c}
    BY <2>1 DEF LiveSockets
  <2>5. Addressing!StopUsing(c)
    BY <2>3, <2>4 DEF Addressing!StopUsing
  <2> QED BY <2>5 DEF Addressing!Next
<1>22. ASSUME NEW c \in Conns, ReleaseSlot(c) PROVE Step
  <2>1. /\ pc[c] = "releaseSlot" /\ pc' = [pc EXCEPT ![c] = "closeAdapter"]
        /\ UNCHANGED <<slot, closing, ifaces>>
    BY <1>22 DEF ReleaseSlot, Goto
  <2>2. Holders' = Holders \ {c}
    BY <2>1 DEF Holders
  <2>3. Lease' = [Lease EXCEPT ![c] = 0]
    BY <2>1, <2>2 DEF Lease
  <2>4. LiveSockets' = LiveSockets
    BY <2>1 DEF LiveSockets
  <2>5. c \notin LiveSockets \cup ifaces
    BY <2>1 DEF LiveSockets, SlotInv, IfacesHeld, IfaceStages
  <2>6. Addressing!Return(c)
    BY <2>1, <2>3, <2>4, <2>5 DEF Addressing!Return
  <2> QED BY <2>6 DEF Addressing!Next
<1>23. ASSUME NEW c \in Conns, ReceiveVersion(c) PROVE Step
  BY <1>23, LeaseFrame DEF ReceiveVersion
<1>24. ASSUME NEW c \in Conns, AdapterEnds(c) PROVE Step
  BY <1>24, LeaseFrame DEF AdapterEnds
<1>25. ASSUME NEW c \in Conns, ErrorCloses(c) PROVE Step
  BY <1>25, LeaseFrame DEF ErrorCloses
<1>26. ASSUME NEW c \in Conns, ApiLookup(c) PROVE Step
  BY <1>26, LeaseFrame DEF ApiLookup
<1>27. ASSUME NEW c \in Conns, GoroutineCloses(c) PROVE Step
  BY <1>27, LeaseStop DEF GoroutineCloses, Close
<1>28. ASSUME NEW c \in Conns, ApiClose(c) PROVE Step
  <2>1. CASE c \in closing
    BY <1>28, <2>1, LeaseFrame DEF ApiClose, Close
  <2>2. CASE c \notin closing
    BY <1>28, <2>2, LeaseStop DEF ApiClose, Close
  <2> QED BY <2>1, <2>2
<1>29. CASE Reload \/ ServerClose \/ ServeReturns \/ Finished \/ UNCHANGED vars
  BY <1>29, LeaseFrame DEF Reload, ServerClose, ServeReturns, Finished, vars
<1> QED
  BY <1>1, <1>2, <1>3, <1>4, <1>5, <1>6, <1>7, <1>8, <1>9, <1>10,
     <1>11, <1>12, <1>13, <1>14, <1>15, <1>16, <1>17, <1>18, <1>19, <1>20,
     <1>21, <1>22, <1>23, <1>24, <1>25, <1>26, <1>27, <1>28, <1>29
     DEF Next, Handler, Environment

\* The detailed specification of the connection handlers implements the abstract lease
\* of addresses (serveSocket: the slot is released after the socket and the interface
\* are closed, on every path).
THEOREM HandlersImplementLease == Spec => ImplementsLease
<1>1. Spec => []SlotsPositive
  BY TypingInvariant, PositiveInit, PositiveNext, PTL DEF Spec
<1> QED
  BY <1>1, TypingInvariant, SlotInvariant, LeaseInit, LeaseNext, PTL
     DEF Spec, ImplementsLease, Addressing!Spec

----------------------------------------------------------------------------
(* What the lease promises *)

\* A client that uses an address has one, and no address is leased twice.
LeaseInv ==
    /\ LiveSockets \cup ifaces \subseteq Conns
    /\ Lease = [c \in Conns |-> Lease[c]]
    /\ \A c \in LiveSockets \cup ifaces : Lease[c] # 0
    /\ \A c, d \in Conns : Lease[c] = Lease[d] /\ Lease[c] # 0 => c = d

\* Whoever follows the protocol of AddressLease never has two clients use one address: this
\* is what serveSocket's slot table is for.  Nothing of the handlers is used here.
THEOREM LeaseIsExclusive == Addressing!Spec => []Addressing!ExclusiveUse
<1>1. Addressing!Init => LeaseInv
  BY DEF Addressing!Init, LeaseInv
<1>2. LeaseInv /\ [Addressing!Next]_(Addressing!vars) => LeaseInv'
  <2> SUFFICES ASSUME LeaseInv, [Addressing!Next]_(Addressing!vars) PROVE LeaseInv'
    OBVIOUS
  <2>1. ASSUME NEW c \in Conns, Addressing!Grant(c) PROVE LeaseInv'
    <3> DEFINE a == Lease'[c]
    <3>1. /\ Lease' = [Lease EXCEPT ![c] = a] /\ a # 0
          /\ (LiveSockets \cup ifaces)' = LiveSockets \cup ifaces
          /\ \A d \in Conns : Lease[d] # a
      BY <2>1 DEF Addressing!Grant
    <3> HIDE DEF a
    <3> QED BY <3>1 DEF LeaseInv
  <2>2. ASSUME NEW c \in Conns, Addressing!Use(c) PROVE LeaseInv'
    BY <2>2 DEF Addressing!Use, LeaseInv
  <2>3. ASSUME NEW c \in Conns, Addressing!StopUsing(c) PROVE LeaseInv'
    BY <2>3 DEF Addressing!StopUsing, LeaseInv
  <2>4. ASSUME NEW c \in Conns, Addressing!Return(c) PROVE LeaseInv'
    BY <2>4 DEF Addressing!Return, LeaseInv
  <2>5. CASE UNCHANGED Addressing!vars
    BY <2>5 DEF Addressing!vars, LeaseInv
  <2> QED
    BY <2>1, <2>2, <2>3, <2>4, <2>5 DEF Addressing!Next
<1>3. LeaseInv => Addressing!ExclusiveUse
  BY DEF LeaseInv, Addressing!ExclusiveUse
<1> QED
  BY <1>1, <1>2, <1>3, PTL DEF Addressing!Spec

\* No connection's socket or interface has an address that another connection's socket or
\* interface has: what the lease promises, for the handlers that implement it.
THEOREM HandlersUseExclusively == Spec => []Addressing!ExclusiveUse
<1> QED BY HandlersImplementLease, LeaseIsExclusive, PTL DEF ImplementsLease
=============================================================================
