------------------------ MODULE FragmentationProofs ------------------------
(***************************************************************************)
(* Proofs about Fragmentation: what the receiver puts together is a packet *)
(* that was sent, unless two identifiers collide on the wire.              *)
(***************************************************************************)
EXTENDS Fragmentation, FiniteSetTheorems, TLAPS

\* Division with remainder, for the number of fragments.
LEMMA DivMod ==
    ASSUME NEW n \in Nat, NEW c \in Nat \ {0}
    PROVE  /\ n \div c \in Nat /\ n % c \in 0..(c - 1)
           /\ n = c * (n \div c) + (n % c)
BY SMT

\* uint16 arithmetic is exact below the modulus ...
LEMMA ModSmall ==
    ASSUME NEW n \in Nat, NEW c \in Nat \ {0}, n < c
    PROVE  n % c = n
BY SMT

\* ... and wraps around once below twice the modulus.
LEMMA ModOver ==
    ASSUME NEW n \in Nat, NEW c \in Nat \ {0}, n >= c, n < 2 * c
    PROVE  n % c = n - c
BY SMT

\* Multiplication is monotone.
LEMMA Monotone ==
    ASSUME NEW a \in Nat, NEW b \in Nat, NEW c \in Nat, a <= b
    PROVE  a * c <= b * c /\ a * c \in Nat
BY SMT

\* The product of a successor.
LEMMA NextProduct ==
    ASSUME NEW a \in Nat, NEW c \in Nat
    PROVE  (a + 1) * c = a * c + c
BY SMT

\* Multiplication by a positive number reflects the order.
LEMMA Reflects ==
    ASSUME NEW a \in Nat, NEW b \in Nat, NEW c \in Nat, a * c < b * c
    PROVE  a < b
BY SMT

----------------------------------------------------------------------------
(* The invariant *)

\* An attempt cuts a packet that was accepted and does not fit into one payload.
Cuttable(a) ==
    /\ a \in Attempts
    /\ a.len < UintMod
    /\ \E m \in Payloads : a.chunk = m - FragmentHeader /\ a.len >= m

SoundAttempt(a) ==
    /\ Cuttable(a)
    /\ a.frag = 0
    /\ a.len = len[a.packet]
    /\ pc[a.packet] # "idle"

AttemptsSound == \A a \in attempts : SoundAttempt(a)

Base(p) == [attempt[p] EXCEPT !.frag = 0]

\* A call that sends fragments is inside one of the attempts.
WritersSound ==
    \A p \in Packets :
        /\ pc[p] = "fragments" =>
              /\ attempt[p] \in Attempts
              /\ Base(p) \in attempts /\ attempt[p].packet = p
              /\ attempt[p].frag \in 0..(fragmentCount(Base(p)) - 1)
        /\ pc[p] \in {"write", "whole"} => InBounds(len[p])

\* The slice of fragment f, without wrapping around.
Exact(a, f) ==
    Slice(a.packet, f * a.chunk,
          IF f = fragmentCount(a) - 1 THEN a.len ELSE (f + 1) * a.chunk)

IsWhole(m) == \E p \in Packets : pc[p] # "idle" /\ m = Whole(p)

IsFragment(m, a, f) ==
    m = [code |-> EncodeID(a.id), index |-> f, last |-> f = fragmentCount(a) - 1,
         slice |-> Exact(a, f)]

\* Every datagram is a whole packet or a fragment of an attempt.
NetSound ==
    \A m \in net :
        \/ IsWhole(m)
        \/ \E a \in attempts : \E f \in 0..(fragmentCount(a) - 1) : IsFragment(m, a, f)

\* What the buffer holds under an identifier are fragments of one attempt.
Holds(info, a) ==
    /\ DOMAIN info.data \subseteq 0..(fragmentCount(a) - 1)
    /\ \A i \in DOMAIN info.data : info.data[i] = Exact(a, i)
    /\ info.lastIndex \in {NotSet, fragmentCount(a) - 1}

BufferSound ==
    \A k \in DOMAIN defragBuffer :
        \E a \in attempts : EncodeID(a.id) = k /\ Holds(defragBuffer[k], a)

AllOf(a) == [i \in 0..(fragmentCount(a) - 1) |-> Exact(a, i)]

\* What was delivered is a whole packet, or all fragments of an attempt.
DeliveredSound ==
    \A d \in delivered :
        \/ \E p \in Packets : pc[p] # "idle" /\ d = [i \in {0} |-> Slice(p, 0, len[p])]
        \/ \E a \in attempts : d = AllOf(a)

FragInv ==
    /\ TypeOK
    /\ AttemptsSound
    /\ WritersSound
    /\ NetSound
    /\ CodesDistinct => BufferSound /\ DeliveredSound

----------------------------------------------------------------------------
(* The arithmetic of an attempt *)

\* An attempt has between 2 and 128 fragments, and its packet ends in the last.
LEMMA CountBounds ==
    ASSUME NEW a, Cuttable(a)
    PROVE  /\ a.chunk \in Nat \ {0} /\ a.len \in Nat /\ a.len < UintMod
           /\ fragmentCount(a) \in 2..128
           /\ (fragmentCount(a) - 1) * a.chunk < a.len
           /\ a.len <= fragmentCount(a) * a.chunk
<1> DEFINE c == a.chunk
           n == a.len
           q == n \div c
           k == fragmentCount(a)
<1>1. PICK m \in Payloads : c = m - FragmentHeader /\ n >= m
  BY DEF Cuttable
<1>2. /\ m \in Nat /\ m > FragmentHeader /\ 128 * c >= UintMod /\ UintMod \in Nat
      /\ c \in Nat \ {0} /\ n > c
  BY <1>1, PayloadsAssumption, ModAssumption DEF FragmentHeader, Cuttable, Attempts
<1>3. n \in Nat /\ n < UintMod
  BY DEF Cuttable, Attempts
<1> HIDE DEF c, n
<1>4. q \in Nat /\ n % c \in 0..(c - 1) /\ n = c * q + (n % c)
  BY <1>2, <1>3, DivMod
<1>5. k = IF n % c # 0 THEN q + 1 ELSE q
  BY <1>4 DEF fragmentCount, c, n
<1> HIDE DEF q, k
<1>6. (q + 1) * c = q * c + c /\ q * c = c * q /\ q * c \in Nat
  BY <1>2, <1>4, NextProduct
<1>7. q >= 1
  <2>1. CASE q = 0
    BY <1>2, <1>3, <1>4, <1>6, <2>1
  <2> QED BY <1>4, <2>1
<1>8. k \in Nat /\ k >= 1 /\ n <= k * c /\ (k - 1) * c < n
  <2>1. CASE n % c # 0
    BY <1>2, <1>3, <1>4, <1>5, <1>6, <2>1
  <2>2. CASE n % c = 0
    <3>1. q - 1 \in Nat /\ (q - 1 + 1) * c = (q - 1) * c + c
      BY <1>2, <1>4, <1>7, NextProduct
    <3>2. q - 1 + 1 = q
      BY <1>4
    <3>3. (q - 1) * c \in Nat
      BY <3>1, <1>2, Monotone
    <3> QED BY <1>2, <1>3, <1>4, <1>5, <1>6, <1>7, <2>2, <3>1, <3>2, <3>3
  <2> QED BY <2>1, <2>2
<1>9. k # 1
  BY <1>2, <1>3, <1>8
<1>10. k - 1 \in Nat /\ (k - 1) * c < 128 * c
  BY <1>2, <1>3, <1>8
<1>11. k - 1 < 128
  BY <1>2, <1>10, Reflects
<1> QED BY <1>2, <1>3, <1>8, <1>9, <1>11 DEF c, n, k

\* A fragment whose slice exists has the slice exact arithmetic gives.
LEMMA SliceExact ==
    ASSUME NEW a, Cuttable(a), NEW f \in 0..(fragmentCount(a) - 1),
           fragStart(a, f) <= fragEnd(a, f)
    PROVE  /\ fragStart(a, f) = f * a.chunk
           /\ fragEnd(a, f) = IF f = fragmentCount(a) - 1 THEN a.len
                              ELSE (f + 1) * a.chunk
           /\ (f + 1) * a.chunk = f * a.chunk + a.chunk
           /\ f * a.chunk \in Nat
<1> DEFINE c == a.chunk
           n == a.len
           k == fragmentCount(a)
<1>1. /\ c \in Nat \ {0} /\ n \in Nat /\ n < UintMod /\ k \in 2..128
      /\ (k - 1) * c < n /\ n <= k * c /\ UintMod \in Nat \ {0}
  BY CountBounds, ModAssumption
<1>2. f \in Nat /\ k - 1 \in Nat /\ f <= k - 1
  BY <1>1
<1>8. c < UintMod
  <2>1. PICK m \in Payloads : c = m - FragmentHeader /\ n >= m
    BY DEF Cuttable
  <2> QED BY <2>1, <1>1, PayloadsAssumption DEF FragmentHeader
<1>9. fragStart(a, f) = Uint16(f * c)
  BY DEF fragStart
<1>10. fragEnd(a, f) = IF Uint16(fragStart(a, f) + c) > n THEN n
                       ELSE Uint16(fragStart(a, f) + c)
  BY DEF fragEnd
<1> HIDE DEF c, n, k
<1>3. f * c <= (k - 1) * c /\ f * c \in Nat /\ (f + 1) * c = f * c + c
  BY <1>1, <1>2, Monotone, NextProduct
<1>11. (k - 1) * c \in Nat
  BY <1>1, <1>2, Monotone
<1>4. f * c < UintMod
  BY <1>1, <1>3, <1>11
<1>5. fragStart(a, f) = f * c
  BY <1>1, <1>3, <1>4, <1>9, ModSmall DEF Uint16
<1>6. f * c + c < UintMod
  <2> SUFFICES ASSUME f * c + c >= UintMod PROVE FALSE
    BY <1>1, <1>3
  <2>1. Uint16(f * c + c) = f * c + c - UintMod
    <3>1. f * c + c \in Nat /\ f * c + c < 2 * UintMod
      BY <1>1, <1>3, <1>4, <1>8
    <3> DEFINE e == f * c + c
    <3> HIDE DEF e
    <3>2. e % UintMod = e - UintMod
      BY <1>1, <3>1, ModOver DEF e
    <3>3. Uint16(e) = e - UintMod
      BY <3>2 DEF Uint16
    <3> QED BY <3>3, <3>1, <1>1 DEF e, c
  <2>2. f * c < n
    BY <1>1, <1>3, <1>11
  <2>3. fragEnd(a, f) < f * c
    BY <1>1, <1>3, <1>4, <1>5, <1>8, <1>10, <2>1, <2>2
  <2> QED BY <1>1, <1>3, <1>4, <1>5, <1>8, <1>10, <2>1, <2>3
<1>7. Uint16(f * c + c) = f * c + c
  BY <1>1, <1>3, <1>6, ModSmall DEF Uint16
<1>12. fragEnd(a, f) = IF f = k - 1 THEN n ELSE (f + 1) * c
  <2>1. CASE f = k - 1
    <3>1. k * c = f * c + c
      BY <1>1, <1>2, <1>3, <2>1
    <3> QED BY <1>1, <1>3, <1>5, <1>7, <1>10, <2>1, <3>1
  <2>2. CASE f # k - 1
    <3>1. f + 1 <= k - 1 /\ f + 1 \in Nat
      BY <1>1, <1>2, <2>2
    <3>2. (f + 1) * c <= (k - 1) * c
      BY <1>1, <1>2, <3>1, Monotone
    <3> QED BY <1>1, <1>3, <1>5, <1>7, <1>10, <1>11, <2>2, <3>2
  <2> QED BY <2>1, <2>2
<1> QED BY <1>3, <1>5, <1>12 DEF c, n, k

\* The datagram of a fragment whose slice exists is the fragment of the attempt.
LEMMA FragmentIsExact ==
    ASSUME NEW a, Cuttable(a), NEW f \in 0..(fragmentCount(a) - 1),
           fragStart(a, f) <= fragEnd(a, f)
    PROVE  IsFragment(Fragment(a, f), a, f)
<1>1. f \in 0..127 /\ fragmentCount(a) \in 2..128
  BY CountBounds
<1>2. f % 128 = f /\ f % 256 = f
  BY <1>1
<1>3. /\ fragStart(a, f) = f * a.chunk
      /\ fragEnd(a, f) = IF f = fragmentCount(a) - 1 THEN a.len ELSE (f + 1) * a.chunk
  BY SliceExact
<1> QED BY <1>1, <1>2, <1>3 DEF IsFragment, Fragment, Exact

\* The fragments of an attempt, put together, are its packet.
LEMMA AllOfIntact ==
    ASSUME TypeOK, NEW a, SoundAttempt(a)
    PROVE  Intact(AllOf(a))
<1> DEFINE n == fragmentCount(a) - 1
           d == AllOf(a)
<1>1. /\ n \in 0..127 /\ fragmentCount(a) = n + 1 /\ a.chunk \in Nat
      /\ a.packet \in Packets /\ a.len = len[a.packet]
  BY CountBounds DEF SoundAttempt, Cuttable, Attempts
<1> HIDE DEF n
<1>2. DOMAIN d = 0..n /\ \A i \in 0..n : d[i] = Exact(a, i)
  BY <1>1 DEF AllOf, n
<1>3. \A i \in 0..n : d[i].packet = a.packet
  BY <1>2 DEF Exact, Slice
<1>4. d[0].from = 0
  <2>1. d[0] = Exact(a, 0) /\ 0 * a.chunk = 0
    BY <1>1, <1>2
  <2> QED BY <2>1 DEF Exact, Slice
<1>5. ASSUME NEW i \in 0..(n - 1) PROVE d[i].to = d[i + 1].from
  <2>1. i \in 0..n /\ i + 1 \in 0..n /\ i # n
    BY <1>1
  <2> QED BY <1>1, <1>2, <2>1 DEF Exact, Slice
<1>6. d[n].to = len[a.packet]
  <2>1. n \in 0..n /\ n = fragmentCount(a) - 1
    BY <1>1
  <2> QED BY <1>1, <1>2, <2>1 DEF Exact, Slice
<1> HIDE DEF d
<1>7. Intact(d)
  BY <1>1, <1>2, <1>3, <1>4, <1>5, <1>6 DEF Intact
<1> QED BY <1>7 DEF d

\* A packet sent whole is intact.
LEMMA WholeIntact ==
    ASSUME TypeOK, NEW p \in Packets
    PROVE  Intact([i \in {0} |-> Slice(p, 0, len[p])])
<1> DEFINE d == [i \in {0} |-> Slice(p, 0, len[p])]
<1>1. DOMAIN d = 0..0 /\ d[0] = Slice(p, 0, len[p])
  OBVIOUS
<1> HIDE DEF d
<1>2. /\ \A i \in 0..0 : d[i].packet = p
      /\ d[0].from = 0 /\ d[0].to = len[p]
  BY <1>1 DEF Slice
<1>3. 0 \in 0..127 /\ \A i \in 0..(0 - 1) : d[i].to = d[i + 1].from
  OBVIOUS
<1>4. Intact(d)
  BY <1>1, <1>2, <1>3 DEF Intact
<1> QED BY <1>4 DEF d

----------------------------------------------------------------------------
(* The induction *)

\* No call becomes idle again, and none changes its packet.
Steady ==
    \A p \in Packets : pc[p] # "idle" => pc'[p] # "idle" /\ len'[p] = len[p]

\* Attempts and datagrams stay what they are.
LEMMA SteadySound ==
    ASSUME Steady, AttemptsSound, attempts \subseteq attempts'
    PROVE  /\ \A a \in attempts : SoundAttempt(a)'
           /\ \A m : IsWhole(m) => IsWhole(m)'
           /\ NetSound => \A m \in net :
                 \/ IsWhole(m)'
                 \/ \E a \in attempts' : \E f \in 0..(fragmentCount(a) - 1) :
                       IsFragment(m, a, f)
           /\ CodesDistinct' => CodesDistinct
           /\ BufferSound /\ defragBuffer' = defragBuffer => BufferSound'
           /\ DeliveredSound /\ delivered' = delivered => DeliveredSound'
<1>1. ASSUME NEW a \in attempts PROVE SoundAttempt(a)'
  BY <1>1 DEF Steady, AttemptsSound, SoundAttempt, Cuttable, Attempts
<1>2. ASSUME NEW m, IsWhole(m) PROVE IsWhole(m)'
  BY <1>2 DEF IsWhole, Whole, Steady
<1>3. ASSUME NetSound, NEW m \in net
      PROVE  \/ IsWhole(m)'
             \/ \E a \in attempts' : \E f \in 0..(fragmentCount(a) - 1) :
                   IsFragment(m, a, f)
  BY <1>2, <1>3 DEF NetSound
<1>4. CodesDistinct' => CodesDistinct
  BY DEF CodesDistinct
<1>5. BufferSound /\ defragBuffer' = defragBuffer => BufferSound'
  BY DEF BufferSound
<1>6. DeliveredSound /\ delivered' = delivered => DeliveredSound'
  BY DEF DeliveredSound, Steady
<1> QED BY <1>1, <1>2, <1>3, <1>4, <1>5, <1>6

\* Nothing is on its way when the first packet is written.
LEMMA FragInit == Init => FragInv
<1> SUFFICES ASSUME Init PROVE FragInv
  OBVIOUS
<1>1. TypeOK
  BY LengthsAssumption, IdsAssumption, BoundsAssumption DEF Init, TypeOK, Payloads
<1>2. AttemptsSound /\ WritersSound /\ NetSound
  BY DEF Init, AttemptsSound, WritersSound, NetSound
<1>3. BufferSound /\ DeliveredSound
  BY DEF Init, BufferSound, DeliveredSound
<1> QED BY <1>1, <1>2, <1>3 DEF FragInv

\* A chunk is what the payload limit leaves for data.
LEMMA ChunkFits ==
    ASSUME NEW m \in Payloads
    PROVE  /\ m \in Nat /\ m < UintMod /\ m > FragmentHeader
           /\ Uint16(m - FragmentHeader) = m - FragmentHeader
           /\ m - FragmentHeader \in Nat \ {0}
<1>1. /\ m \in Nat /\ m < UintMod /\ m > FragmentHeader
      /\ m - FragmentHeader \in Nat \ {0} /\ m - FragmentHeader < UintMod
      /\ UintMod \in Nat \ {0}
  BY PayloadsAssumption, ModAssumption DEF FragmentHeader
<1> DEFINE e == m - FragmentHeader
<1>2. e \in Nat /\ e < UintMod
  BY <1>1
<1> HIDE DEF e
<1>3. Uint16(e) = e
  BY <1>1, <1>2, ModSmall DEF Uint16
<1> QED BY <1>1, <1>3 DEF e

\* A packet that does not fit into a payload is at least as long as the payload.
LEMMA TooLong ==
    ASSUME NEW n \in Nat, InBounds(n), NEW m \in Payloads, Uint16(n + 1) > m
    PROVE  n >= m /\ n < UintMod
<1>1. UintMod \in Nat \ {0} /\ n < UintMod /\ m \in Nat
  BY ModAssumption, ChunkFits DEF InBounds
<1>2. CASE n + 1 = UintMod
  <2>1. Uint16(n + 1) = 0
    BY <1>1, <1>2 DEF Uint16
  <2> QED BY <1>1, <2>1
<1>3. CASE n + 1 < UintMod
  <2>1. Uint16(n + 1) = n + 1
    BY <1>1, <1>3, ModSmall DEF Uint16
  <2> QED BY <1>1, <2>1
<1> QED BY <1>1, <1>2, <1>3

\* What the buffer holds after a fragment has been added.
LEMMA AddedHolds ==
    ASSUME FragInv, CodesDistinct, NEW a \in attempts,
           NEW f \in 0..(fragmentCount(a) - 1), NEW m, IsFragment(m, a, f)
    PROVE  Holds(Added(FragInfo(m.code), m), a)
<1> DEFINE info == FragInfo(m.code)
<1>1. m.code = EncodeID(a.id) /\ m.index = f /\ m.slice = Exact(a, f)
      /\ m.last = (f = fragmentCount(a) - 1)
  BY DEF IsFragment
<1>2. Holds(info, a)
  <2>1. CASE m.code \in DOMAIN defragBuffer
    <3>1. PICK b \in attempts : EncodeID(b.id) = m.code /\ Holds(defragBuffer[m.code], b)
      BY <2>1 DEF FragInv, BufferSound
    <3>2. b = a
      BY <1>1, <3>1 DEF CodesDistinct
    <3> QED BY <2>1, <3>1, <3>2 DEF FragInfo
  <2>2. CASE m.code \notin DOMAIN defragBuffer
    BY <2>2 DEF FragInfo, Holds
  <2> QED BY <2>1, <2>2
<1> HIDE DEF info
<1>3. Holds(Added(info, m), a)
  BY <1>1, <1>2 DEF Holds, Added
<1> QED BY <1>3 DEF info

\* A complete entry of the buffer is the whole attempt.
LEMMA CompleteJoins ==
    ASSUME NEW a, Cuttable(a), NEW info, Holds(info, a), Complete(info)
    PROVE  Joined(info) = AllOf(a)
<1> DEFINE k == fragmentCount(a)
           D == DOMAIN info.data
<1>1. k \in 2..128
  BY CountBounds
<1>2. D \subseteq 0..(k - 1) /\ info.lastIndex \in {NotSet, k - 1}
  BY DEF Holds
<1> HIDE DEF k
<1>3. /\ IsFiniteSet(0..(k - 1))
      /\ Cardinality(0..(k - 1)) = k
  BY <1>1, FS_Interval
<1>4. IsFiniteSet(D) /\ Cardinality(D) \in Nat
  BY <1>2, <1>3, FS_Subset, FS_CardinalityType
<1>5. Cardinality(D) = info.lastIndex + 1
  BY DEF Complete
<1>6. info.lastIndex = k - 1
  BY <1>2, <1>4, <1>5 DEF NotSet
<1>7. Cardinality(D) = Cardinality(0..(k - 1))
  BY <1>1, <1>3, <1>5, <1>6
<1>8. D = 0..(k - 1)
  BY <1>2, <1>3, <1>7, FS_Subset
<1>9. \A i \in D : info.data[i] = Exact(a, i)
  BY DEF Holds
<1>10. Joined(info) = [i \in 0..(k - 1) |-> Exact(a, i)]
  BY <1>6, <1>8, <1>9 DEF Joined
<1> QED BY <1>10 DEF AllOf, k

\* A step of the sender that starts no attempt and writes nothing.
LEMMA SenderFrame ==
    ASSUME FragInv, TypeOK', Steady, WritersSound',
           UNCHANGED <<attempts, net, defragBuffer, delivered>>
    PROVE  FragInv'
<1>1. AttemptsSound' /\ NetSound'
  BY SteadySound DEF FragInv, AttemptsSound, NetSound
<1>2. CodesDistinct' => BufferSound' /\ DeliveredSound'
  BY SteadySound DEF FragInv
<1> QED BY <1>1, <1>2 DEF FragInv

\* A step of the receiver.
LEMMA ReceiverFrame ==
    ASSUME FragInv, UNCHANGED senderVars, UNCHANGED <<skips, refreshes>>,
           net' \subseteq net,
           CodesDistinct => BufferSound' /\ DeliveredSound'
    PROVE  FragInv'
<1> USE DEF senderVars
<1>1. Steady /\ TypeOK' /\ WritersSound'
  BY DEF FragInv, Steady, TypeOK, WritersSound, Base
<1>2. AttemptsSound' /\ NetSound'
  BY <1>1, SteadySound DEF FragInv, AttemptsSound, NetSound
<1>3. CodesDistinct' => CodesDistinct
  BY DEF CodesDistinct
<1> QED BY <1>1, <1>2, <1>3 DEF FragInv

\* A datagram that is not whole is a fragment of an attempt, and conversely.
LEMMA NotWhole ==
    ASSUME FragInv, NEW m \in net
    PROVE  /\ m.last /\ m.index = 0 => IsWhole(m)
           /\ ~(m.last /\ m.index = 0) =>
                 \E a \in attempts : \E f \in 0..(fragmentCount(a) - 1) : IsFragment(m, a, f)
<1>1. IsWhole(m) => m.last /\ m.index = 0
  BY DEF IsWhole, Whole
<1>2. ASSUME NEW a \in attempts, NEW f \in 0..(fragmentCount(a) - 1), IsFragment(m, a, f)
      PROVE  ~(m.last /\ m.index = 0)
  <2>1. fragmentCount(a) \in 2..128
    BY CountBounds DEF FragInv, AttemptsSound, SoundAttempt
  <2>2. m.index = f /\ m.last = (f = fragmentCount(a) - 1)
    BY <1>2 DEF IsFragment
  <2>3. CASE f # 0
    BY <2>2, <2>3
  <2>4. CASE f = 0
    <3>1. (f = fragmentCount(a) - 1) = FALSE
      BY <2>1, <2>4
    <3> QED BY <2>2, <3>1
  <2> QED BY <2>3, <2>4
<1> QED BY <1>1, <1>2 DEF FragInv, NetSound

\* The length of a packet is a number.
LEMMA LengthNat ==
    ASSUME TypeOK, NEW p \in Packets
    PROVE  len[p] \in Nat
<1>1. len \in [Packets -> Lengths \cup {0}]
  BY DEF TypeOK
<1>2. len[p] \in Lengths \cup {0}
  BY <1>1
<1>3. 0 \in Nat
  OBVIOUS
<1>4. \A n \in Lengths : n \in Nat
  BY LengthsAssumption
<1> QED BY <1>2, <1>3, <1>4, Zenon

\* Every step keeps the invariant.
LEMMA FragNext == FragInv /\ [Next]_vars => FragInv'
<1> SUFFICES ASSUME FragInv, [Next]_vars PROVE FragInv'
  OBVIOUS
<1> USE LengthsAssumption, IdsAssumption, BoundsAssumption, ModAssumption
<1>t. TypeOK /\ AttemptsSound /\ WritersSound /\ NetSound
  BY DEF FragInv
<1>1. ASSUME NEW p \in Packets, WritePacket(p) PROVE FragInv'
  <2>1. TypeOK'
    BY <1>1, <1>t DEF WritePacket, TypeOK
  <2>2. Steady
    BY <1>1, <1>t DEF WritePacket, TypeOK, Steady
  <2>3. WritersSound'
    BY <1>1, <1>t DEF WritePacket, TypeOK, WritersSound, Base
  <2> QED BY <1>1, <2>1, <2>2, <2>3, SenderFrame DEF WritePacket
<1>2. ASSUME NEW p \in Packets, SendWhole(p) PROVE FragInv'
  <2>1. TypeOK' /\ Steady
    BY <1>2, <1>t DEF SendWhole, TypeOK, Steady
  <2>2. WritersSound'
    BY <1>2, <1>t DEF SendWhole, TypeOK, WritersSound, Base
  <2> QED BY <1>2, <2>1, <2>2, SenderFrame DEF SendWhole
<1>3. ASSUME NEW p \in Packets, StartFragments(p) PROVE FragInv'
  <2>0. PICK a : a = [id |-> lastFragmentID', packet |-> p, len |-> len[p],
                      chunk |-> Uint16(maxPayloadLen - FragmentHeader), frag |-> 0]
    OBVIOUS
  <2>1. /\ pc[p] = "write" /\ pc' = [pc EXCEPT ![p] = "fragments"]
        /\ Uint16(len[p] + 1) > maxPayloadLen
        /\ attempts' = attempts \cup {a} /\ attempt' = [attempt EXCEPT ![p] = a]
        /\ lastFragmentID' = (lastFragmentID + 1) % IdMod
        /\ UNCHANGED <<len, sending, maxPayloadLen, net, defragBuffer, delivered, skips,
                       refreshes>>
    BY <1>3, <2>0 DEF StartFragments
  <2>2. lastFragmentID' \in 0..(IdMod - 1)
    BY <1>t, <2>1, DivMod DEF TypeOK
  <2>3. InBounds(len[p]) /\ len[p] \in Nat /\ maxPayloadLen \in Payloads
    <3>1. len[p] \in Nat /\ maxPayloadLen \in Payloads
      BY <1>t, LengthNat DEF TypeOK
    <3>2. InBounds(len[p])
      BY <1>t, <2>1 DEF WritersSound
    <3> QED BY <3>1, <3>2
  <2>4. /\ len[p] >= maxPayloadLen /\ len[p] < UintMod
        /\ Uint16(maxPayloadLen - FragmentHeader) = maxPayloadLen - FragmentHeader
        /\ maxPayloadLen - FragmentHeader \in Nat \ {0}
    BY <2>1, <2>3, TooLong, ChunkFits
  <2>5. /\ a \in Attempts /\ a.frag = 0 /\ a.len = len[p] /\ a.packet = p
        /\ a.chunk = maxPayloadLen - FragmentHeader /\ a.chunk > 0
    BY <2>0, <2>2, <2>3, <2>4 DEF Attempts
  <2>6. Cuttable(a) /\ SoundAttempt(a)'
    <3>1. Cuttable(a)
      BY <2>3, <2>4, <2>5 DEF Cuttable
    <3>2. pc'[p] # "idle" /\ len'[p] = len[p]
      BY <1>t, <2>1 DEF TypeOK
    <3> QED BY <2>5, <3>1, <3>2 DEF SoundAttempt, Cuttable
  <2>7. TypeOK'
    BY <1>t, <2>1, <2>2, <2>5 DEF TypeOK
  <2>8. Steady
    BY <1>t, <2>1 DEF TypeOK, Steady
  <2>9. AttemptsSound' /\ NetSound'
    <3>1. /\ \A b \in attempts : SoundAttempt(b)'
          /\ \A m \in net :
                \/ IsWhole(m)'
                \/ \E b \in attempts' : \E f \in 0..(fragmentCount(b) - 1) :
                      IsFragment(m, b, f)
      BY <1>t, <2>1, <2>8, SteadySound
    <3> QED BY <2>1, <2>6, <3>1 DEF AttemptsSound, NetSound
  <2>10. WritersSound'
    <3> SUFFICES ASSUME NEW q \in Packets
                 PROVE  /\ pc'[q] = "fragments" =>
                              /\ attempt'[q] \in Attempts
                              /\ Base(q)' \in attempts' /\ attempt'[q].packet = q
                              /\ attempt'[q].frag \in 0..(fragmentCount(Base(q)') - 1)
                        /\ pc'[q] \in {"write", "whole"} => InBounds(len'[q])
      BY DEF WritersSound
    <3>1. CASE q # p
      BY <1>t, <2>1, <3>1 DEF WritersSound, TypeOK, Base
    <3>2. CASE q = p
      <4>1. fragmentCount(a) \in 2..128
        BY <2>6, CountBounds
      <4>2. attempt'[q] = a /\ pc'[q] = "fragments" /\ a \in attempts'
        BY <1>t, <2>1, <3>2 DEF TypeOK
      <4>3. Base(q)' = a
        BY <2>5, <4>2 DEF Base, Attempts
      <4> QED BY <2>5, <3>2, <4>1, <4>2, <4>3
    <3> QED BY <3>1, <3>2
  <2>11. CodesDistinct' => BufferSound' /\ DeliveredSound'
    BY <1>t, <2>1, <2>8, SteadySound DEF FragInv
  <2> QED BY <2>7, <2>9, <2>10, <2>11 DEF FragInv
<1>4. ASSUME NEW p \in Packets, OutOfRange(p) PROVE FragInv'
  <2>1. TypeOK' /\ Steady
    BY <1>4, <1>t DEF OutOfRange, TypeOK, Steady
  <2>2. WritersSound'
    BY <1>4, <1>t DEF OutOfRange, TypeOK, WritersSound, Base
  <2> QED BY <1>4, <2>1, <2>2, SenderFrame DEF OutOfRange
<1>5. ASSUME NEW p \in Packets, SendDatagram(p) PROVE FragInv'
  <2> DEFINE m == Datagram(p)
             b == Base(p)
             f == attempt[p].frag
  <2>1. /\ net' = net \cup {m} /\ sending' = sending \ {p}
        /\ UNCHANGED <<len, maxPayloadLen, lastFragmentID, attempts, defragBuffer,
                       delivered, skips, refreshes>>
        /\ pc[p] \in {"whole", "fragments"}
    BY <1>5 DEF SendDatagram, Writing
  <2>2. \/ pc' = [pc EXCEPT ![p] = "done"] /\ attempt' = attempt
        \/ /\ pc[p] = "fragments" /\ f # fragmentCount(attempt[p]) - 1
           /\ attempt' = [attempt EXCEPT ![p].frag = @ + 1] /\ pc' = pc
    BY <1>5, <2>1 DEF SendDatagram
  <2>3. pc[p] = "fragments" =>
           /\ attempt[p] \in Attempts /\ b \in attempts /\ f \in 0..(fragmentCount(b) - 1)
           /\ attempt[p].packet = p
           /\ fragmentCount(b) = fragmentCount(attempt[p])
           /\ fragStart(b, f) = fragStart(attempt[p], f)
           /\ fragEnd(b, f) = fragEnd(attempt[p], f)
           /\ Fragment(b, f) = Fragment(attempt[p], f)
    <3> SUFFICES ASSUME pc[p] = "fragments"
                 PROVE  /\ attempt[p] \in Attempts /\ b \in attempts
                        /\ attempt[p].packet = p
                        /\ f \in 0..(fragmentCount(b) - 1)
                        /\ fragmentCount(b) = fragmentCount(attempt[p])
                        /\ fragStart(b, f) = fragStart(attempt[p], f)
                        /\ fragEnd(b, f) = fragEnd(attempt[p], f)
                        /\ Fragment(b, f) = Fragment(attempt[p], f)
      OBVIOUS
    <3>1. /\ attempt[p] \in Attempts /\ b \in attempts /\ f \in 0..(fragmentCount(b) - 1)
          /\ attempt[p].packet = p
      BY <1>t DEF WritersSound
    <3>2. /\ b.id = attempt[p].id /\ b.packet = attempt[p].packet
          /\ b.len = attempt[p].len /\ b.chunk = attempt[p].chunk
      BY <3>1 DEF Base, Attempts
    <3>3. fragmentCount(b) = fragmentCount(attempt[p])
      BY <3>2 DEF fragmentCount
    <3>4. fragStart(b, f) = fragStart(attempt[p], f)
      BY <3>2 DEF fragStart
    <3>5. fragEnd(b, f) = fragEnd(attempt[p], f)
      BY <3>2, <3>4 DEF fragEnd
    <3> QED BY <3>1, <3>2, <3>3, <3>4, <3>5 DEF Fragment
  <2>4. IsWhole(m) \/ (b \in attempts /\ f \in 0..(fragmentCount(b) - 1) /\ IsFragment(m, b, f))
    <3>1. CASE pc[p] = "whole"
      BY <3>1 DEF IsWhole, Datagram
    <3>2. CASE pc[p] = "fragments"
      <4>1. Cuttable(b) /\ fragStart(b, f) <= fragEnd(b, f)
        BY <1>5, <1>t, <2>3, <3>2 DEF SendDatagram, Writing, AttemptsSound, SoundAttempt
      <4>2. m = Fragment(b, f)
        BY <2>3, <3>2 DEF Datagram
      <4> HIDE DEF b, f, m
      <4>3. IsFragment(Fragment(b, f), b, f)
        BY <2>3, <3>2, <4>1, FragmentIsExact
      <4> QED BY <2>3, <3>2, <4>2, <4>3
    <3> QED BY <2>1, <3>1, <3>2
  <2>5. Steady
    BY <1>t, <2>1, <2>2 DEF TypeOK, Steady
  <2>6. TypeOK' /\ WritersSound'
    <3>1. CASE pc' = [pc EXCEPT ![p] = "done"] /\ attempt' = attempt
      BY <1>t, <2>1, <3>1 DEF TypeOK, WritersSound, Base
    <3>2. CASE /\ pc[p] = "fragments" /\ f # fragmentCount(attempt[p]) - 1
               /\ attempt' = [attempt EXCEPT ![p].frag = @ + 1] /\ pc' = pc
      <4>1. /\ attempt'[p] = [attempt[p] EXCEPT !.frag = @ + 1]
            /\ \A q \in Packets \ {p} : attempt'[q] = attempt[q]
        BY <1>t, <3>2 DEF TypeOK
      <4>2. f \in Nat /\ f + 1 \in 0..(fragmentCount(b) - 1)
        <5>1. fragmentCount(b) \in 2..128
          BY <1>t, <2>3, <3>2, CountBounds DEF AttemptsSound, SoundAttempt
        <5> QED BY <2>3, <3>2, <5>1
      <4>3. /\ attempt'[p] \in Attempts /\ attempt'[p].frag = f + 1 /\ Base(p)' = b
            /\ attempt'[p].packet = attempt[p].packet
        BY <2>3, <3>2, <4>1, <4>2 DEF Attempts, Base
      <4>4. TypeOK'
        BY <1>t, <2>1, <3>2, <4>1, <4>3 DEF TypeOK
      <4>5. ASSUME NEW q \in Packets \ {p} PROVE Base(q)' = Base(q)
        BY <4>1 DEF Base
      <4> HIDE DEF b, f
      <4>6. WritersSound'
        BY <1>t, <2>1, <2>3, <3>2, <4>1, <4>2, <4>3, <4>5 DEF WritersSound
      <4> QED BY <4>4, <4>6
    <3> QED BY <2>2, <3>1, <3>2
  <2> HIDE DEF m, b, f
  <2>7. AttemptsSound' /\ NetSound'
    BY <1>t, <2>1, <2>4, <2>5, SteadySound DEF AttemptsSound, NetSound
  <2>8. CodesDistinct' => BufferSound' /\ DeliveredSound'
    BY <1>t, <2>1, <2>5, SteadySound DEF FragInv
  <2> QED BY <2>6, <2>7, <2>8 DEF FragInv
<1>6. ASSUME NEW p \in Packets, PayloadTooLarge(p) PROVE FragInv'
  <2>1. TypeOK' /\ Steady
    BY <1>6, <1>t DEF PayloadTooLarge, TypeOK, Steady
  <2>2. WritersSound'
    BY <1>6, <1>t DEF PayloadTooLarge, TypeOK, WritersSound, Base
  <2> QED BY <1>6, <2>1, <2>2, SenderFrame DEF PayloadTooLarge
<1>7. ASSUME NEW p \in Packets, PayloadLimitReduced(p) PROVE FragInv'
  <2>1. /\ maxPayloadLen' \in Payloads /\ pc' = [pc EXCEPT ![p] = "write"]
        /\ pc[p] \in {"whole", "fragments"} /\ sending' = sending \ {p}
        /\ UNCHANGED <<len, attempt, lastFragmentID, attempts, net, defragBuffer,
                       delivered, skips, refreshes>>
    BY <1>7 DEF PayloadLimitReduced, Payloads, Writing
  <2>2. TypeOK' /\ Steady
    BY <1>t, <2>1 DEF TypeOK, Steady
  <2>3. InBounds(len[p])
    <3>1. CASE pc[p] = "whole"
      BY <1>t, <3>1 DEF WritersSound
    <3>2. CASE pc[p] = "fragments"
      <4>1. SoundAttempt(Base(p)) /\ attempt[p] \in Attempts
        BY <1>t, <3>2 DEF WritersSound, AttemptsSound
      <4>2. Base(p).len < UintMod /\ Base(p).len > 0 /\ Base(p).len = len[Base(p).packet]
        <5>1. /\ Base(p).chunk \in Nat /\ Base(p).len \in Nat /\ Base(p).len < UintMod
              /\ \E m \in Payloads : Base(p).len >= m
          BY <4>1, CountBounds DEF SoundAttempt, Cuttable
        <5> QED BY <4>1, <5>1, ChunkFits DEF SoundAttempt, FragmentHeader
      <4>3. Base(p).packet = p
        BY <1>t, <3>2 DEF WritersSound, Base, Attempts
      <4>4. len[p] \in Nat /\ len[p] < UintMod /\ len[p] > 0
        BY <1>t, <4>2, <4>3, LengthNat
      <4> QED BY <4>4 DEF InBounds
    <3> QED BY <2>1, <3>1, <3>2
  <2>4. WritersSound'
    BY <1>t, <2>1, <2>3 DEF TypeOK, WritersSound, Base
  <2> QED BY <2>1, <2>2, <2>4, SenderFrame
<1>8. CASE RefreshFeatures
  <2>1. TypeOK' /\ Steady
    BY <1>8, <1>t DEF RefreshFeatures, TypeOK, Steady, Payloads
  <2>2. WritersSound'
    BY <1>8, <1>t DEF RefreshFeatures, WritersSound, Base
  <2> QED BY <1>8, <2>1, <2>2, SenderFrame DEF RefreshFeatures
<1>9. CASE OthersLost
  <2>1. PICK n \in Skips : lastFragmentID' = (lastFragmentID + n) % IdMod
    BY <1>9 DEF OthersLost
  <2>2. lastFragmentID' \in 0..(IdMod - 1)
    BY <1>t, <2>1, DivMod DEF TypeOK
  <2>3. TypeOK' /\ Steady
    BY <1>9, <1>t, <2>2 DEF OthersLost, TypeOK, Steady
  <2>4. WritersSound'
    BY <1>9, <1>t DEF OthersLost, WritersSound, Base
  <2> QED BY <1>9, <2>3, <2>4, SenderFrame DEF OthersLost
<1>10. ASSUME NEW m \in net, ReceiveWhole(m) PROVE FragInv'
  <2>1. PICK p \in Packets : pc[p] # "idle" /\ m = Whole(p)
    BY <1>10, NotWhole DEF ReceiveWhole, IsWhole
  <2>2. m.slice = Slice(p, 0, len[p])
    BY <2>1 DEF Whole
  <2>3. CodesDistinct => BufferSound' /\ DeliveredSound'
    BY <1>10, <2>1, <2>2 DEF ReceiveWhole, FragInv, BufferSound, DeliveredSound, senderVars
  <2> QED BY <1>10, <2>3, ReceiverFrame DEF ReceiveWhole
<1>11. ASSUME NEW m \in net, ReceiveLast(m) PROVE FragInv'
  <2> DEFINE info == Added(FragInfo(m.code), m)
  <2>1. PICK a \in attempts : \E f \in 0..(fragmentCount(a) - 1) : IsFragment(m, a, f)
    BY <1>11, NotWhole DEF ReceiveLast
  <2>2. CodesDistinct => Joined(info) = AllOf(a)
    <3> SUFFICES ASSUME CodesDistinct PROVE Joined(info) = AllOf(a)
      OBVIOUS
    <3>1. Holds(info, a)
      BY <2>1, AddedHolds
    <3>2. Complete(info) /\ Cuttable(a)
      BY <1>11, <1>t DEF ReceiveLast, AttemptsSound, SoundAttempt
    <3> HIDE DEF info
    <3> QED BY <3>1, <3>2, CompleteJoins
  <2>3. /\ defragBuffer' = Without(m.code) /\ delivered' = delivered \cup {Joined(info)}
        /\ UNCHANGED <<pc, len, attempts>>
    BY <1>11 DEF ReceiveLast, senderVars
  <2> HIDE DEF info
  <2>4. CodesDistinct => BufferSound'
    BY <2>3 DEF FragInv, BufferSound, Without
  <2>5. CodesDistinct => DeliveredSound'
    BY <2>2, <2>3 DEF FragInv, DeliveredSound
  <2> QED BY <1>11, <2>4, <2>5, ReceiverFrame DEF ReceiveLast
<1>12. ASSUME NEW m \in net, ReceiveFragment(m) PROVE FragInv'
  <2> DEFINE info == Added(FragInfo(m.code), m)
  <2>1. PICK a \in attempts : \E f \in 0..(fragmentCount(a) - 1) : IsFragment(m, a, f)
    BY <1>12, NotWhole DEF ReceiveFragment
  <2>2. CodesDistinct => Holds(info, a)
    BY <2>1, AddedHolds
  <2>3. EncodeID(a.id) = m.code
    BY <2>1 DEF IsFragment
  <2>4. /\ defragBuffer' = [k \in DOMAIN defragBuffer \cup {m.code} |->
                               IF k = m.code THEN info ELSE defragBuffer[k]]
        /\ UNCHANGED <<pc, len, attempts, delivered>>
    BY <1>12 DEF ReceiveFragment, senderVars
  <2> HIDE DEF info
  <2>5. CodesDistinct => BufferSound'
    BY <2>2, <2>3, <2>4 DEF FragInv, BufferSound
  <2>6. CodesDistinct => DeliveredSound'
    BY <2>4 DEF FragInv, DeliveredSound
  <2> QED BY <1>12, <2>5, <2>6, ReceiverFrame DEF ReceiveFragment
<1>13. CASE CleanupFragments
  <2>1. CodesDistinct => BufferSound' /\ DeliveredSound'
    BY <1>13 DEF CleanupFragments, FragInv, BufferSound, DeliveredSound, senderVars
  <2> QED BY <1>13, <2>1, ReceiverFrame DEF CleanupFragments
<1>16. ASSUME NEW p \in Packets, WriteDataMessage(p) PROVE FragInv'
  <2>1. TypeOK' /\ Steady
    BY <1>16, <1>t DEF WriteDataMessage, TypeOK, Steady
  <2>2. WritersSound'
    BY <1>16, <1>t DEF WriteDataMessage, WritersSound, Base
  <2> QED BY <1>16, <2>1, <2>2, SenderFrame DEF WriteDataMessage
<1>17. ASSUME NEW p \in Packets, SendFails(p) PROVE FragInv'
  <2>1. TypeOK' /\ Steady
    BY <1>17, <1>t DEF SendFails, TypeOK, Steady
  <2>2. WritersSound'
    BY <1>17, <1>t DEF SendFails, TypeOK, WritersSound, Base
  <2> QED BY <1>17, <2>1, <2>2, SenderFrame DEF SendFails
<1>14. CASE UNCHANGED vars
  BY <1>14, <1>t, SenderFrame
     DEF vars, senderVars, TypeOK, Steady, WritersSound, Base
<1>15. CASE Finished
  BY <1>14, <1>15 DEF Finished
<1> QED
  BY <1>1, <1>2, <1>3, <1>4, <1>5, <1>6, <1>7, <1>8, <1>9, <1>10, <1>11, <1>12, <1>13,
     <1>14, <1>15, <1>16, <1>17 DEF Next, Writer, Receiver

\* The invariant holds in every reachable state.
LEMMA FragInvariant == Spec => []FragInv
BY FragInit, FragNext, PTL DEF Spec

\* Type correctness; in particular no packet is divided into empty chunks.
THEOREM FragmentationTypes == Spec => []TypeOK
<1>1. FragInv => TypeOK
  BY DEF FragInv
<1> QED BY <1>1, FragInvariant, PTL

\* For every set of packets, lengths and payload limits: unless two identifiers
\* collide on the wire, whatever the receiver hands on is a packet that was sent,
\* complete and in order.
THEOREM ReassemblyIntact == Spec => []IntactUnlessCollision
<1>1. FragInv => IntactUnlessCollision
  <2> SUFFICES ASSUME FragInv, CodesDistinct, NEW d \in delivered PROVE Intact(d)
    BY DEF IntactUnlessCollision
  <2>1. CASE \E p \in Packets : pc[p] # "idle" /\ d = [i \in {0} |-> Slice(p, 0, len[p])]
    BY <2>1, WholeIntact DEF FragInv
  <2>2. CASE \E a \in attempts : d = AllOf(a)
    BY <2>2, AllOfIntact DEF FragInv, AttemptsSound
  <2> QED BY <2>1, <2>2 DEF FragInv, DeliveredSound
<1> QED BY <1>1, FragInvariant, PTL
=============================================================================
