--------------------------- MODULE MACSwitchProofs ---------------------------
(***************************************************************************)
(* Proofs about MACSwitch: for any sockets, addresses, settings and number *)
(* of reloads, which claims on addresses there can be.                     *)
(***************************************************************************)
EXTENDS MACSwitch, FiniteSetTheorems, SequenceTheorems, TLAPS

----------------------------------------------------------------------------
(* The cache *)

\* A list with every address once.
Distinct(list) == \A i, j \in 1..Len(list) : list[i] = list[j] => i = j

\* The addresses of a list are those at its positions.
LEMMA InList ==
    ASSUME NEW S, NEW list \in Seq(S), NEW x
    PROVE  x \in ToSet(list) <=> \E i \in 1..Len(list) : list[i] = x
BY DEF ToSet

\* They are of the type of the list.
LEMMA AddressesTyped ==
    ASSUME NEW S, NEW list \in Seq(S)
    PROVE  ToSet(list) \subseteq S
BY DEF ToSet

\* An empty list has none.
LEMMA NoAddresses == ToSet(<<>>) = {}
BY DEF ToSet

\* There are no more of them than the list is long.
LEMMA AddressesCounted ==
    ASSUME NEW S, NEW list \in Seq(S)
    PROVE  IsFiniteSet(ToSet(list)) /\ Cardinality(ToSet(list)) <= Len(list)
<1>1. IsFiniteSet(1..Len(list)) /\ Cardinality(1..Len(list)) = Len(list)
  <2>1. Len(list) \in Nat
    OBVIOUS
  <2> QED BY <2>1, FS_Interval
<1>2. list \in Surjection(1..Len(list), ToSet(list))
  BY InList DEF Surjection, ToSet
<1> QED BY <1>1, <1>2, FS_Surjection

\* The list without one of its addresses.
LEMMA RemovedAt ==
    ASSUME NEW S, NEW list \in Seq(S), NEW i \in 1..Len(list)
    PROVE  /\ RemoveAt(list, i) \in Seq(S)
           /\ Len(RemoveAt(list, i)) = Len(list) - 1
           /\ \A j \in 1..(Len(list) - 1) :
                 RemoveAt(list, i)[j] = IF j < i THEN list[j] ELSE list[j + 1]
<1> DEFINE a == SubSeq(list, 1, i - 1)
           b == SubSeq(list, i + 1, Len(list))
<1>1. a \in Seq(S) /\ Len(a) = i - 1 /\ \A j \in 1..(i - 1) : a[j] = list[j]
  OBVIOUS
<1>2. /\ b \in Seq(S) /\ Len(b) = Len(list) - i
      /\ \A j \in 1..(Len(list) - i) : b[j] = list[i + j]
  OBVIOUS
<1> HIDE DEF a, b
<1>3. a \o b \in Seq(S) /\ Len(a \o b) = Len(a) + Len(b)
  BY <1>1, <1>2, ConcatProperties
<1>4. Len(a) + Len(b) = Len(list) - 1
  BY <1>1, <1>2
<1>5. ASSUME NEW j \in 1..(Len(list) - 1)
      PROVE  (a \o b)[j] = IF j < i THEN list[j] ELSE list[j + 1]
  <2>1. (a \o b)[j] = IF j <= i - 1 THEN a[j] ELSE b[j - (i - 1)]
    BY <1>1, <1>2
  <2> QED BY <2>1, <1>1, <1>2
<1> QED BY <1>3, <1>4, <1>5 DEF RemoveAt, a, b

\* An address that is in the list once is removed where it is.
LEMMA RemovedFirst ==
    ASSUME NEW S, NEW list \in Seq(S), NEW i \in 1..Len(list), Distinct(list)
    PROVE  RemoveFirst(list, list[i]) = RemoveAt(list, i)
<1> DEFINE I == {k \in 1..Len(list) : list[k] = list[i]}
<1>1. I = {i}
  BY DEF Distinct
<1>2. Min(I) = i
  BY <1>1 DEF Min
<1>3. SelectInSeq(list, LAMBDA v : v = list[i]) = IF I # {} THEN Min(I) ELSE 0
  BY DEF SelectInSeq
<1> HIDE DEF I
<1>4. SelectInSeq(list, LAMBDA v : v = list[i]) = i
  BY <1>1, <1>2, <1>3
<1> QED BY <1>4 DEF RemoveFirst

\* Making an address the newest one keeps the others, and every one once.
LEMMA MadeNewest ==
    ASSUME NEW S, NEW list \in Seq(S), NEW m \in S, Distinct(list)
    PROVE  LET t == Append(RemoveFirst(list, m), m)
           IN  /\ t \in Seq(S) /\ Distinct(t)
               /\ ToSet(t) = ToSet(list) \cup {m}
               /\ Len(t) = IF m \in ToSet(list) THEN Len(list) ELSE Len(list) + 1
               /\ Len(t) \in Nat \ {0}
<1> DEFINE t == Append(RemoveFirst(list, m), m)
<1> HIDE DEF t
<1> SUFFICES /\ t \in Seq(S) /\ Distinct(t)
             /\ ToSet(t) = ToSet(list) \cup {m}
             /\ Len(t) = IF m \in ToSet(list) THEN Len(list) ELSE Len(list) + 1
             /\ Len(t) \in Nat \ {0}
  BY DEF t
<1>1. CASE m \notin ToSet(list)
  <2>1. \A i \in 1..Len(list) : list[i] # m
    BY <1>1, InList
  <2>2. RemoveFirst(list, m) = list
    BY <2>1 DEF RemoveFirst
  <2>3. /\ t \in Seq(S) /\ Len(t) = Len(list) + 1 /\ Len(list) \in Nat
        /\ \A i \in 1..Len(list) : t[i] = list[i]
        /\ t[Len(list) + 1] = m
    BY <2>2 DEF t
  <2>4. Distinct(t)
    BY <2>1, <2>3 DEF Distinct
  <2>5. ASSUME NEW x PROVE x \in ToSet(t) <=> x \in ToSet(list) \/ x = m
    <3>1. x \in ToSet(t) <=> \E i \in 1..Len(t) : t[i] = x
      BY <2>3, InList
    <3>2. x \in ToSet(list) <=> \E i \in 1..Len(list) : list[i] = x
      BY InList
    <3> QED BY <2>3, <3>1, <3>2
  <2> QED BY <1>1, <2>3, <2>4, <2>5
<1>2. CASE m \in ToSet(list)
  <2>1. PICK k \in 1..Len(list) : list[k] = m
    BY <1>2, InList
  <2> DEFINE u == RemoveAt(list, k)
  <2>2. t = Append(u, m)
    BY <2>1, RemovedFirst DEF t
  <2>3. /\ u \in Seq(S) /\ Len(u) = Len(list) - 1
        /\ \A j \in 1..(Len(list) - 1) : u[j] = IF j < k THEN list[j] ELSE list[j + 1]
    BY RemovedAt
  <2> HIDE DEF u
  <2>4. /\ t \in Seq(S) /\ Len(t) = Len(list) /\ Len(list) \in Nat \ {0}
        /\ \A j \in 1..(Len(list) - 1) : t[j] = IF j < k THEN list[j] ELSE list[j + 1]
        /\ t[Len(list)] = m
    BY <2>2, <2>3
  <2>5. \A j \in 1..Len(list) :
           \E i \in 1..Len(list) : /\ t[j] = list[i]
                                  /\ i = IF j = Len(list) THEN k ELSE IF j < k THEN j ELSE j + 1
    BY <2>1, <2>4
  <2>6. Distinct(t)
    <3> SUFFICES ASSUME NEW i \in 1..Len(list), NEW j \in 1..Len(list), t[i] = t[j]
                 PROVE  i = j
      BY <2>4 DEF Distinct
    <3> DEFINE At(n) == IF n = Len(list) THEN k ELSE IF n < k THEN n ELSE n + 1
    <3>1. At(i) \in 1..Len(list) /\ At(j) \in 1..Len(list) /\ list[At(i)] = list[At(j)]
      BY <2>5
    <3>2. At(i) = At(j)
      BY <3>1 DEF Distinct
    <3> QED BY <2>4, <3>2
  <2>7. \A i \in 1..Len(list) : \E j \in 1..Len(list) : t[j] = list[i]
    <3> SUFFICES ASSUME NEW i \in 1..Len(list) PROVE \E j \in 1..Len(list) : t[j] = list[i]
      OBVIOUS
    <3> DEFINE j == IF i = k THEN Len(list) ELSE IF i < k THEN i ELSE i - 1
    <3>1. j \in 1..Len(list) /\ t[j] = list[i]
      BY <2>1, <2>4
    <3> QED BY <3>1
  <2>8. ASSUME NEW x PROVE x \in ToSet(t) <=> x \in ToSet(list)
    <3>1. t \in Seq(S) /\ Len(t) = Len(list)
      BY <2>4
    <3>2. x \in ToSet(t) <=> \E i \in 1..Len(t) : t[i] = x
      BY <3>1, InList
    <3>3. x \in ToSet(list) <=> \E i \in 1..Len(list) : list[i] = x
      BY InList
    <3>4. \A j \in 1..Len(list) : \E i \in 1..Len(list) : t[j] = list[i]
      BY <2>5
    <3>5. ASSUME x \in ToSet(t) PROVE x \in ToSet(list)
      <4>1. PICK j \in 1..Len(list) : t[j] = x
        BY <3>1, <3>2, <3>5
      <4>2. PICK i \in 1..Len(list) : t[j] = list[i]
        BY <3>4
      <4> QED BY <3>3, <4>1, <4>2
    <3>6. ASSUME x \in ToSet(list) PROVE x \in ToSet(t)
      <4>1. PICK i \in 1..Len(list) : list[i] = x
        BY <3>3, <3>6
      <4>2. PICK j \in 1..Len(list) : t[j] = list[i]
        BY <2>7
      <4> QED BY <3>1, <3>2, <4>1, <4>2
    <3> QED BY <3>5, <3>6
  <2> QED BY <1>2, <2>4, <2>6, <2>8
<1> QED BY <1>1, <1>2

\* Dropping the oldest address keeps the others.
LEMMA OldestDropped ==
    ASSUME NEW S, NEW t \in Seq(S), t # <<>>, Distinct(t)
    PROVE  /\ Tail(t) \in Seq(S) /\ Distinct(Tail(t)) /\ Len(Tail(t)) = Len(t) - 1
           /\ Head(t) \in S /\ Head(t) \notin ToSet(Tail(t))
           /\ ToSet(t) = ToSet(Tail(t)) \cup {Head(t)}
<1> DEFINE u == Tail(t)
<1>1. /\ u \in Seq(S) /\ Len(u) = Len(t) - 1 /\ Len(t) \in Nat /\ Len(t) >= 1
      /\ \A i \in 1..(Len(t) - 1) : u[i] = t[i + 1]
      /\ Head(t) = t[1] /\ Head(t) \in S
  OBVIOUS
<1> HIDE DEF u
<1>2. \A i \in 1..Len(u) : i + 1 \in 1..Len(t) /\ u[i] = t[i + 1] /\ i + 1 # 1
  BY <1>1
<1>3. Distinct(u)
  <2> SUFFICES ASSUME NEW i \in 1..Len(u), NEW j \in 1..Len(u), u[i] = u[j]
               PROVE  i = j
    BY DEF Distinct
  <2>1. i + 1 = j + 1
    BY <1>2 DEF Distinct
  <2> QED BY <2>1, <1>1
<1>4. \A x : x \in ToSet(u) <=> \E i \in 1..Len(u) : u[i] = x
  BY <1>1, InList
<1>5. \A x : x \in ToSet(t) <=> \E i \in 1..Len(t) : t[i] = x
  BY InList
<1>6. t[1] \notin ToSet(u)
  <2> SUFFICES ASSUME NEW i \in 1..Len(u), u[i] = t[1] PROVE FALSE
    BY <1>4
  <2>1. i + 1 = 1
    BY <1>1, <1>2 DEF Distinct
  <2> QED BY <1>2, <2>1
<1>7. \A i \in 1..Len(t) : i = 1 \/ (i - 1 \in 1..Len(u) /\ u[i - 1] = t[i])
  BY <1>1
<1>8. ASSUME NEW x PROVE x \in ToSet(t) <=> x \in ToSet(u) \/ x = t[1]
  BY <1>1, <1>2, <1>4, <1>5, <1>7
<1> QED BY <1>1, <1>3, <1>6, <1>8 DEF u

\* The newest addresses of a longer list.
LEMMA NewestKept ==
    ASSUME NEW S, NEW list \in Seq(S), NEW n \in Nat, Len(list) > n, Distinct(list)
    PROVE  /\ Newest(list, n) \in Seq(S) /\ Distinct(Newest(list, n))
           /\ Len(Newest(list, n)) = n
<1> DEFINE u == Newest(list, n)
<1>1. Len(list) \in Nat /\ Len(list) - n + 1 \in 1..Len(list) + 1
  OBVIOUS
<1>2. /\ u \in Seq(S) /\ Len(u) = n
      /\ \A i \in 1..n : u[i] = list[Len(list) - n + i]
  BY <1>1 DEF Newest
<1> HIDE DEF u
<1>3. Distinct(u)
  <2> SUFFICES ASSUME NEW i \in 1..n, NEW j \in 1..n, u[i] = u[j] PROVE i = j
    BY <1>2 DEF Distinct
  <2>1. /\ Len(list) - n + i \in 1..Len(list) /\ Len(list) - n + j \in 1..Len(list)
        /\ list[Len(list) - n + i] = list[Len(list) - n + j]
    BY <1>1, <1>2
  <2>2. Len(list) - n + i = Len(list) - n + j
    BY <2>1 DEF Distinct
  <2> QED BY <1>1, <2>2
<1> QED BY <1>2, <1>3 DEF u

----------------------------------------------------------------------------
(* The inductive invariant *)

\* A cache has every address once and no more than its size, and only the cache of
\* a registered socket is filled.
CacheInv ==
    \A s \in Sockets :
        /\ Distinct(cache[s]) /\ Len(cache[s]) <= size[s]
        /\ table[s] = "new" => pc[s] = "idle" /\ cache[s] = <<>>
        /\ table[s] # "new" => size[s] \in Sizes
        /\ pc[s] # "idle" => mac[s] \in Macs
        /\ pc[s] = "evict" => evicted[s] \in Macs

\* A socket leaves the table, and its cache is purged, only when it is closing.
ClosingInv ==
    \A s \in Sockets :
        /\ closer[s] # "none" \/ table[s] = "out" => s \in closing
        /\ closer[s] \in {"purge", "evict"} => table[s] = "out"
        /\ \A m \in Macs : <<s, m>> \in overtaken => table[s] = "out"

\* Without a reload no cache is resized.
SettingInv ==
    reloads = 0 =>
        /\ resizing = {} /\ shrinking = {}
        /\ \A s \in Sockets : table[s] # "new" => size[s] = config.allowed

\* ClaimsExplained, address by address.
Explained(s, m) ==
    \/ table[s] = "in" /\ m \in ToSet(cache[s])
    \/ pc[s] = "add" /\ m = mac[s]
    \/ pc[s] = "evict" /\ m = evicted[s]
    \/ m \in shrinking
    \/ <<s, m>> \in overtaken

ClaimsInv ==
    \A s \in Sockets, m \in Macs : macTable[m] = s => Explained(s, m)

\* The addresses of a registered socket are claimed by it, but for those whose
\* claim an eviction has removed.
Held(s, m) == macTable[m] = s \/ m \in clobbered

HeldInv ==
    reloads = 0 =>
        \A s \in Sockets : table[s] = "in" =>
            /\ \A m \in ToSet(cache[s]) : Held(s, m)
            /\ pc[s] = "add" => Held(s, mac[s])
            /\ pc[s] = "evict" => evicted[s] \notin ToSet(cache[s])

\* A socket that has left the table keeps at most one claim: its reader handles one
\* last frame.
LeftInv ==
    reloads = 0 =>
        \A s \in Sockets : table[s] = "out" =>
            /\ \A a, b \in Macs : macTable[a] = s /\ macTable[b] = s => a = b
            /\ pc[s] \in {"looked", "unknown", "claim"} => \A a \in Macs : macTable[a] # s

\* A live socket that may not change its address has at most one in its cache, and
\* only frames with that one have passed.
OneAddress(s) ==
    /\ \A a, b \in used[s] : a = b
    /\ s \notin closing =>
          /\ used[s] \subseteq ToSet(cache[s])
          /\ \A a, b \in ToSet(cache[s]) : a = b
          /\ pc[s] = "claim" => cache[s] = <<>>
          /\ pc[s] \in {"add", "accept"} => ToSet(cache[s]) \subseteq {mac[s]}
          /\ pc[s] = "accept" => mac[s] \in ToSet(cache[s])
          /\ pc[s] # "evict"

OneInv == reloads = 0 /\ ~config.changing => \A s \in Sockets : OneAddress(s)

----------------------------------------------------------------------------
(* What the operations on a cache do *)

\* A cache has room for at least one address.
LEMMA SizesAreNumbers == 0 \in Nat /\ \A n \in Sizes : n \in Nat /\ n >= 1
BY SizesAssumption

\* Add makes the reader's address the newest one, and evicts another one only if
\* the cache is full and does not have it.
LEMMA AddEffect ==
    ASSUME TypeOK, CacheInv, NEW s \in Sockets, Add(s)
    PROVE  /\ cache' = [cache EXCEPT ![s] = cache'[s]]
           /\ cache'[s] \in Seq(Macs) /\ Distinct(cache'[s]) /\ Len(cache'[s]) <= size[s]
           /\ \/ /\ evicted' = evicted /\ pc' = [pc EXCEPT ![s] = "accept"]
                 /\ ToSet(cache'[s]) = ToSet(cache[s]) \cup {mac[s]}
              \/ /\ evicted' = [evicted EXCEPT ![s] = evicted'[s]]
                 /\ pc' = [pc EXCEPT ![s] = "evict"]
                 /\ evicted'[s] \in Macs /\ evicted'[s] \notin ToSet(cache'[s])
                 /\ ToSet(cache[s]) \cup {mac[s]} = ToSet(cache'[s]) \cup {evicted'[s]}
                 /\ mac[s] \notin ToSet(cache[s]) /\ Len(cache[s]) = size[s]
<1> DEFINE t == Touched(s)
<1>1. /\ cache[s] \in Seq(Macs) /\ mac[s] \in Macs /\ Distinct(cache[s])
      /\ Len(cache[s]) <= size[s] /\ Len(cache[s]) \in Nat /\ size[s] \in Nat
  <2>1. cache[s] \in Seq(Macs) /\ size[s] \in Sizes \cup {0}
    BY DEF TypeOK
  <2>2. mac[s] \in Macs /\ Distinct(cache[s]) /\ Len(cache[s]) <= size[s]
    BY DEF CacheInv, Add
  <2>3. Len(cache[s]) \in Nat
    BY <2>1
  <2>4. size[s] \in Nat
    BY <2>1, SizesAreNumbers
  <2> QED BY <2>1, <2>2, <2>3, <2>4
<1>2. t = Append(RemoveFirst(cache[s], mac[s]), mac[s])
  BY DEF Touched
<1>3. /\ cache' = [cache EXCEPT ![s] = IF Len(t) > size[s] THEN Tail(t) ELSE t]
      /\ evicted' = IF Len(t) > size[s] THEN [evicted EXCEPT ![s] = Head(t)] ELSE evicted
      /\ pc' = [pc EXCEPT ![s] = IF Len(t) > size[s] THEN "evict" ELSE "accept"]
  BY DEF Add, Goto, Overflows
<1>4. cache'[s] = (IF Len(t) > size[s] THEN Tail(t) ELSE t)
  BY <1>3 DEF TypeOK
<1> HIDE DEF t
<1>5. /\ t \in Seq(Macs) /\ Distinct(t) /\ ToSet(t) = ToSet(cache[s]) \cup {mac[s]}
      /\ Len(t) = IF mac[s] \in ToSet(cache[s]) THEN Len(cache[s]) ELSE Len(cache[s]) + 1
      /\ Len(t) \in Nat \ {0}
  BY <1>1, <1>2, MadeNewest
<1>6. CASE Len(t) > size[s]
  <2>1. mac[s] \notin ToSet(cache[s]) /\ Len(cache[s]) = size[s]
    BY <1>1, <1>5, <1>6
  <2>2. t # <<>>
    BY <1>5
  <2>3. /\ Tail(t) \in Seq(Macs) /\ Distinct(Tail(t)) /\ Len(Tail(t)) = Len(t) - 1
        /\ Head(t) \in Macs /\ Head(t) \notin ToSet(Tail(t))
        /\ ToSet(t) = ToSet(Tail(t)) \cup {Head(t)}
    BY <1>5, <2>2, OldestDropped
  <2>4. cache'[s] = Tail(t) /\ evicted'[s] = Head(t) /\ evicted' = [evicted EXCEPT ![s] = Head(t)]
    BY <1>3, <1>4, <1>6 DEF TypeOK
  <2>5. Len(Tail(t)) <= size[s]
    BY <1>1, <1>5, <2>1, <2>3
  <2> QED BY <1>3, <1>4, <1>5, <1>6, <2>1, <2>3, <2>4, <2>5
<1>7. CASE ~(Len(t) > size[s])
  <2>1. cache'[s] = t /\ evicted' = evicted /\ Len(t) <= size[s]
    BY <1>1, <1>3, <1>4, <1>5, <1>7
  <2> QED BY <1>3, <1>5, <1>7, <2>1
<1> QED BY <1>6, <1>7

\* Resize keeps the newest addresses, as many as are allowed.
LEMMA ResizeEffect ==
    ASSUME TypeOK, CacheInv, NEW s \in Sockets, Resize(s)
    PROVE  /\ cache' = [cache EXCEPT ![s] = cache'[s]]
           /\ cache'[s] \in Seq(Macs) /\ Distinct(cache'[s])
           /\ Len(cache'[s]) <= config.allowed /\ config.allowed \in Nat
           /\ cache[s] = <<>> => cache'[s] = <<>>
           /\ shrinking' = ToSet(cache[s]) \ ToSet(cache'[s])
           /\ shrinking' \subseteq Macs
<1> DEFINE n == config.allowed
           kept == IF Len(cache[s]) > n THEN Newest(cache[s], n) ELSE cache[s]
<1>1. /\ cache[s] \in Seq(Macs) /\ Distinct(cache[s]) /\ n \in Nat /\ Len(cache[s]) \in Nat
  <2>1. cache[s] \in Seq(Macs) /\ n \in Sizes
    BY DEF TypeOK
  <2>2. Distinct(cache[s])
    BY DEF CacheInv
  <2>3. Len(cache[s]) \in Nat
    BY <2>1
  <2>4. n \in Nat
    BY <2>1, SizesAssumption
  <2> QED BY <2>1, <2>2, <2>3, <2>4
<1>2. /\ cache' = [cache EXCEPT ![s] = kept]
      /\ shrinking' = ToSet(cache[s]) \ ToSet(kept)
  BY DEF Resize
<1>3. cache'[s] = kept
  BY <1>2 DEF TypeOK
<1>4. kept \in Seq(Macs) /\ Distinct(kept) /\ Len(kept) <= n
  BY <1>1, NewestKept
<1>5. cache[s] = <<>> => kept = cache[s]
  BY <1>1
<1>6. ToSet(cache[s]) \subseteq Macs
  BY <1>1, AddressesTyped
<1> HIDE DEF n, kept
<1> QED BY <1>1, <1>2, <1>3, <1>4, <1>5, <1>6 DEF n

----------------------------------------------------------------------------
(* Initially *)

\* A switch that knows no socket yet.
LEMMA SwitchInit ==
    Init => /\ TypeOK /\ CacheInv /\ ClosingInv /\ SettingInv
            /\ ClaimsInv /\ HeldInv /\ LeftInv /\ OneInv
<1> SUFFICES ASSUME Init
             PROVE  /\ TypeOK /\ CacheInv /\ ClosingInv /\ SettingInv
                    /\ ClaimsInv /\ HeldInv /\ LeftInv /\ OneInv
  OBVIOUS
<1> USE DEF Init
<1>1. TypeOK
  <2>1. cache \in [Sockets -> Seq(Macs)] /\ reloads \in 0..MaxReloads
    BY ReloadsAssumption
  <2> QED BY <2>1 DEF TypeOK
<1>2. Distinct(<<>>) /\ Len(<<>>) = 0 /\ ToSet(<<>>) = {}
  BY NoAddresses DEF Distinct
<1>3. CacheInv /\ ClosingInv /\ SettingInv
  BY <1>2 DEF CacheInv, ClosingInv, SettingInv
<1>4. ClaimsInv
  BY SocketsAssumption DEF ClaimsInv
<1>5. HeldInv /\ LeftInv
  BY DEF HeldInv, LeftInv
<1>6. OneInv
  BY <1>2 DEF OneInv, OneAddress
<1> QED BY <1>1, <1>3, <1>4, <1>5, <1>6

----------------------------------------------------------------------------
(* Every step *)

\* Every step keeps the types.
LEMMA TypingNext == TypeOK /\ CacheInv /\ [Next]_vars => TypeOK'
<1> SUFFICES ASSUME TypeOK, CacheInv, [Next]_vars PROVE TypeOK'
  OBVIOUS
<1> USE DEF TypeOK, vars, readerVars, closerVars, configVars, tableVars, history
<1>1. ASSUME NEW s \in Sockets, RegisterSocket(s) PROVE TypeOK'
  BY <1>1, ReloadsAssumption DEF RegisterSocket, CacheInv
<1>2. ASSUME NEW s \in Sockets, HandlePacket(s) PROVE TypeOK'
  BY <1>2, ReloadsAssumption DEF HandlePacket, Goto, CacheInv
<1>3. ASSUME NEW s \in Sockets, LookUp(s) PROVE TypeOK'
  BY <1>3, ReloadsAssumption DEF LookUp, Goto, CacheInv
<1>4. ASSUME NEW s \in Sockets, CheckChanging(s) PROVE TypeOK'
  BY <1>4, ReloadsAssumption DEF CheckChanging, Return, Goto, CacheInv
<1>5. ASSUME NEW s \in Sockets, Claim(s) PROVE TypeOK'
  BY <1>5, ReloadsAssumption DEF Claim, Goto, CacheInv
<1>6. ASSUME NEW s \in Sockets, Collide(s) PROVE TypeOK'
  BY <1>6, ReloadsAssumption DEF Collide, Goto, CacheInv
<1>7. ASSUME NEW s \in Sockets, CloseError(s) PROVE TypeOK'
  BY <1>7, ReloadsAssumption DEF CloseError, Return, Goto, CacheInv
<1>8. ASSUME NEW s \in Sockets, Add(s) PROVE TypeOK'
  <2>1. cache' \in [Sockets -> Seq(Macs)]
    BY <1>8, AddEffect
  <2>2. /\ pc' \in [Sockets -> {"idle", "looked", "unknown", "claim", "collision", "add",
                             "evict", "accept"}]
        /\ evicted' \in [Sockets -> Macs \cup {NoMac}]
    BY <1>8, AddEffect
  <2>3. overtaken' \subseteq Sockets \X Macs
    BY <1>8 DEF Add, CacheInv
  <2> QED BY <1>8, <2>1, <2>2, <2>3 DEF Add
<1>9. ASSUME NEW s \in Sockets, onMACEvicted(s) PROVE TypeOK'
  BY <1>9, ReloadsAssumption DEF onMACEvicted, Forget, Goto, CacheInv
<1>10. ASSUME NEW s \in Sockets, Accept(s) PROVE TypeOK'
  BY <1>10, ReloadsAssumption DEF Accept, Return, Goto, CacheInv
<1>11. ASSUME NEW s \in Sockets, Close(s) PROVE TypeOK'
  BY <1>11, ReloadsAssumption DEF Close, CacheInv
<1>12. ASSUME NEW s \in Sockets, UnregisterSocket(s) PROVE TypeOK'
  BY <1>12, ReloadsAssumption DEF UnregisterSocket, CacheInv
<1>13. ASSUME NEW s \in Sockets, Purge(s) PROVE TypeOK'
  <2>1. ToSet(cache[s]) \subseteq Macs
    <3>1. cache[s] \in Seq(Macs)
      OBVIOUS
    <3> QED BY <3>1, AddressesTyped
  <2>2. cache' \in [Sockets -> Seq(Macs)] /\ purging' \in [Sockets -> SUBSET Macs]
    BY <1>13, <2>1 DEF Purge
  <2> QED BY <1>13, <2>2 DEF Purge
<1>14. ASSUME NEW s \in Sockets, PurgeEvicts(s) PROVE TypeOK'
  BY <1>14, ReloadsAssumption DEF PurgeEvicts, Forget, CacheInv
<1>15. ASSUME NEW s \in Sockets, Closed(s) PROVE TypeOK'
  BY <1>15, ReloadsAssumption DEF Closed, CacheInv
<1>16. ASSUME NEW s \in Sockets, Resize(s) PROVE TypeOK'
  BY <1>16, ResizeEffect DEF Resize
<1>17. CASE Reload
  BY <1>17, ReloadsAssumption DEF Reload, CacheInv
<1>18. CASE ResizeEvicts
  BY <1>18, ReloadsAssumption DEF ResizeEvicts, Forget, CacheInv
<1>19. CASE UNCHANGED vars
  BY <1>19
<1> QED BY <1>1, <1>2, <1>3, <1>4, <1>5, <1>6, <1>7, <1>8, <1>9, <1>10, <1>11, <1>12,
    <1>13, <1>14, <1>15, <1>16, <1>17, <1>18, <1>19
  DEF Next, Reader, Closer, Finished

\* Every step keeps the caches in order.
LEMMA CacheNext == TypeOK /\ CacheInv /\ ClosingInv /\ [Next]_vars => CacheInv'
<1> SUFFICES ASSUME TypeOK, CacheInv, ClosingInv, [Next]_vars PROVE CacheInv'
  OBVIOUS
<1> USE DEF TypeOK, CacheInv, vars, readerVars, closerVars, configVars, tableVars, history
<1>1. ASSUME NEW s \in Sockets, RegisterSocket(s) PROVE CacheInv'
  <2>1. Distinct(<<>>) /\ Len(<<>>) = 0
    BY DEF Distinct
  <2>2. config.allowed \in Sizes /\ config.allowed \in Nat /\ cache[s] = <<>>
    BY <1>1, SizesAssumption DEF RegisterSocket
  <2> QED BY <1>1, <2>1, <2>2 DEF RegisterSocket
<1>2. ASSUME NEW s \in Sockets, HandlePacket(s) PROVE CacheInv'
  BY <1>2, SizesAssumption DEF HandlePacket, Goto, Distinct
<1>3. ASSUME NEW s \in Sockets, LookUp(s) PROVE CacheInv'
  BY <1>3, SizesAssumption DEF LookUp, Goto, Distinct
<1>4. ASSUME NEW s \in Sockets, CheckChanging(s) PROVE CacheInv'
  BY <1>4, SizesAssumption DEF CheckChanging, Return, Goto, Distinct
<1>5. ASSUME NEW s \in Sockets, Claim(s) PROVE CacheInv'
  BY <1>5, SizesAssumption DEF Claim, Goto, Distinct
<1>6. ASSUME NEW s \in Sockets, Collide(s) PROVE CacheInv'
  BY <1>6, SizesAssumption DEF Collide, Goto, Distinct
<1>7. ASSUME NEW s \in Sockets, CloseError(s) PROVE CacheInv'
  BY <1>7, SizesAssumption DEF CloseError, Return, Goto, Distinct
<1>8. ASSUME NEW s \in Sockets, Add(s) PROVE CacheInv'
  <2>1. \A r \in Sockets :
           r # s => cache'[r] = cache[r] /\ pc'[r] = pc[r] /\ evicted'[r] = evicted[r]
    BY <1>8 DEF Add, Goto
  <2>0. UNCHANGED <<size, mac, table>> /\ pc[s] = "add" /\ table[s] # "new"
    BY <1>8 DEF Add
  <2>2. /\ Distinct(cache'[s]) /\ Len(cache'[s]) <= size[s]
        /\ pc'[s] \in {"accept", "evict"}
        /\ pc'[s] = "evict" => evicted'[s] \in Macs
    BY <1>8, AddEffect
  <2> QED BY <2>0, <2>1, <2>2
<1>9. ASSUME NEW s \in Sockets, onMACEvicted(s) PROVE CacheInv'
  BY <1>9, SizesAssumption DEF onMACEvicted, Forget, Goto, Distinct
<1>10. ASSUME NEW s \in Sockets, Accept(s) PROVE CacheInv'
  BY <1>10, SizesAssumption DEF Accept, Return, Goto, Distinct
<1>11. ASSUME NEW s \in Sockets, Close(s) PROVE CacheInv'
  BY <1>11, SizesAssumption DEF Close, Distinct
<1>12. ASSUME NEW s \in Sockets, UnregisterSocket(s) PROVE CacheInv'
  BY <1>12, SizesAssumption DEF UnregisterSocket, Distinct
<1>13. ASSUME NEW s \in Sockets, Purge(s) PROVE CacheInv'
  <2>1. Distinct(<<>>) /\ Len(<<>>) = 0
    BY DEF Distinct
  <2>2. size[s] \in Nat /\ table[s] = "out"
    BY <1>13, SizesAssumption DEF Purge, ClosingInv
  <2> QED BY <1>13, <2>1, <2>2 DEF Purge
<1>14. ASSUME NEW s \in Sockets, PurgeEvicts(s) PROVE CacheInv'
  BY <1>14, SizesAssumption DEF PurgeEvicts, Forget, Distinct
<1>15. ASSUME NEW s \in Sockets, Closed(s) PROVE CacheInv'
  BY <1>15, SizesAssumption DEF Closed, Distinct
<1>16. ASSUME NEW s \in Sockets, Resize(s) PROVE CacheInv'
  BY <1>16, ResizeEffect DEF Resize
<1>17. CASE Reload
  BY <1>17, SizesAssumption DEF Reload, Distinct
<1>18. CASE ResizeEvicts
  BY <1>18, SizesAssumption DEF ResizeEvicts, Forget, Distinct
<1>19. CASE UNCHANGED vars
  BY <1>19
<1> QED BY <1>1, <1>2, <1>3, <1>4, <1>5, <1>6, <1>7, <1>8, <1>9, <1>10, <1>11, <1>12,
    <1>13, <1>14, <1>15, <1>16, <1>17, <1>18, <1>19
  DEF Next, Reader, Closer, Finished

\* Every step keeps the order in which a socket leaves.
LEMMA ClosingNext == TypeOK /\ CacheInv /\ ClosingInv /\ [Next]_vars => ClosingInv'
<1> SUFFICES ASSUME TypeOK, CacheInv, ClosingInv, [Next]_vars PROVE ClosingInv'
  OBVIOUS
<1> USE DEF TypeOK, ClosingInv, vars, readerVars, closerVars, configVars, tableVars, history
<1>1. ASSUME NEW s \in Sockets, RegisterSocket(s) PROVE ClosingInv'
  BY <1>1 DEF RegisterSocket, CacheInv
<1>2. ASSUME NEW s \in Sockets, HandlePacket(s) PROVE ClosingInv'
  BY <1>2 DEF HandlePacket, Goto, CacheInv
<1>3. ASSUME NEW s \in Sockets, LookUp(s) PROVE ClosingInv'
  BY <1>3 DEF LookUp, Goto, CacheInv
<1>4. ASSUME NEW s \in Sockets, CheckChanging(s) PROVE ClosingInv'
  BY <1>4 DEF CheckChanging, Return, Goto, CacheInv
<1>5. ASSUME NEW s \in Sockets, Claim(s) PROVE ClosingInv'
  BY <1>5 DEF Claim, Goto, CacheInv
<1>6. ASSUME NEW s \in Sockets, Collide(s) PROVE ClosingInv'
  BY <1>6 DEF Collide, Goto, CacheInv
<1>7. ASSUME NEW s \in Sockets, CloseError(s) PROVE ClosingInv'
  BY <1>7 DEF CloseError, Return, Goto, CacheInv
<1>8. ASSUME NEW s \in Sockets, Add(s) PROVE ClosingInv'
  BY <1>8 DEF Add, Goto, CacheInv
<1>9. ASSUME NEW s \in Sockets, onMACEvicted(s) PROVE ClosingInv'
  BY <1>9 DEF onMACEvicted, Forget, Goto, CacheInv
<1>10. ASSUME NEW s \in Sockets, Accept(s) PROVE ClosingInv'
  BY <1>10 DEF Accept, Return, Goto, CacheInv
<1>11. ASSUME NEW s \in Sockets, Close(s) PROVE ClosingInv'
  BY <1>11 DEF Close, CacheInv
<1>12. ASSUME NEW s \in Sockets, UnregisterSocket(s) PROVE ClosingInv'
  BY <1>12 DEF UnregisterSocket, CacheInv
<1>13. ASSUME NEW s \in Sockets, Purge(s) PROVE ClosingInv'
  BY <1>13 DEF Purge, CacheInv
<1>14. ASSUME NEW s \in Sockets, PurgeEvicts(s) PROVE ClosingInv'
  BY <1>14 DEF PurgeEvicts, Forget, CacheInv
<1>15. ASSUME NEW s \in Sockets, Closed(s) PROVE ClosingInv'
  BY <1>15 DEF Closed, CacheInv
<1>16. ASSUME NEW s \in Sockets, Resize(s) PROVE ClosingInv'
  BY <1>16 DEF Resize, CacheInv
<1>17. CASE Reload
  BY <1>17 DEF Reload, CacheInv
<1>18. CASE ResizeEvicts
  BY <1>18 DEF ResizeEvicts, Forget, CacheInv
<1>19. CASE UNCHANGED vars
  BY <1>19 DEF vars
<1> QED BY <1>1, <1>2, <1>3, <1>4, <1>5, <1>6, <1>7, <1>8, <1>9, <1>10, <1>11, <1>12,
    <1>13, <1>14, <1>15, <1>16, <1>17, <1>18, <1>19
  DEF Next, Reader, Closer, Finished

\* Until a reload every cache keeps the size it was made with.
LEMMA SettingNext == TypeOK /\ CacheInv /\ SettingInv /\ [Next]_vars => SettingInv'
<1> SUFFICES ASSUME TypeOK, CacheInv, SettingInv, [Next]_vars PROVE SettingInv'
  OBVIOUS
<1> USE DEF TypeOK, SettingInv, vars, readerVars, closerVars, configVars, tableVars, history
<1>1. ASSUME NEW s \in Sockets, RegisterSocket(s) PROVE SettingInv'
  BY <1>1, ReloadsAssumption DEF RegisterSocket, CacheInv
<1>2. ASSUME NEW s \in Sockets, HandlePacket(s) PROVE SettingInv'
  BY <1>2, ReloadsAssumption DEF HandlePacket, Goto, CacheInv
<1>3. ASSUME NEW s \in Sockets, LookUp(s) PROVE SettingInv'
  BY <1>3, ReloadsAssumption DEF LookUp, Goto, CacheInv
<1>4. ASSUME NEW s \in Sockets, CheckChanging(s) PROVE SettingInv'
  BY <1>4, ReloadsAssumption DEF CheckChanging, Return, Goto, CacheInv
<1>5. ASSUME NEW s \in Sockets, Claim(s) PROVE SettingInv'
  BY <1>5, ReloadsAssumption DEF Claim, Goto, CacheInv
<1>6. ASSUME NEW s \in Sockets, Collide(s) PROVE SettingInv'
  BY <1>6, ReloadsAssumption DEF Collide, Goto, CacheInv
<1>7. ASSUME NEW s \in Sockets, CloseError(s) PROVE SettingInv'
  BY <1>7, ReloadsAssumption DEF CloseError, Return, Goto, CacheInv
<1>8. ASSUME NEW s \in Sockets, Add(s) PROVE SettingInv'
  BY <1>8, ReloadsAssumption DEF Add, Goto, CacheInv
<1>9. ASSUME NEW s \in Sockets, onMACEvicted(s) PROVE SettingInv'
  BY <1>9, ReloadsAssumption DEF onMACEvicted, Forget, Goto, CacheInv
<1>10. ASSUME NEW s \in Sockets, Accept(s) PROVE SettingInv'
  BY <1>10, ReloadsAssumption DEF Accept, Return, Goto, CacheInv
<1>11. ASSUME NEW s \in Sockets, Close(s) PROVE SettingInv'
  BY <1>11, ReloadsAssumption DEF Close, CacheInv
<1>12. ASSUME NEW s \in Sockets, UnregisterSocket(s) PROVE SettingInv'
  BY <1>12, ReloadsAssumption DEF UnregisterSocket, CacheInv
<1>13. ASSUME NEW s \in Sockets, Purge(s) PROVE SettingInv'
  BY <1>13, ReloadsAssumption DEF Purge, CacheInv
<1>14. ASSUME NEW s \in Sockets, PurgeEvicts(s) PROVE SettingInv'
  BY <1>14, ReloadsAssumption DEF PurgeEvicts, Forget, CacheInv
<1>15. ASSUME NEW s \in Sockets, Closed(s) PROVE SettingInv'
  BY <1>15, ReloadsAssumption DEF Closed, CacheInv
<1>16. ASSUME NEW s \in Sockets, Resize(s) PROVE SettingInv'
  BY <1>16, ReloadsAssumption DEF Resize, CacheInv
<1>17. CASE Reload
  BY <1>17, ReloadsAssumption DEF Reload, CacheInv
<1>18. CASE ResizeEvicts
  BY <1>18, ReloadsAssumption DEF ResizeEvicts, Forget, CacheInv
<1>19. CASE UNCHANGED vars
  BY <1>19, ReloadsAssumption DEF vars
<1> QED BY <1>1, <1>2, <1>3, <1>4, <1>5, <1>6, <1>7, <1>8, <1>9, <1>10, <1>11, <1>12,
    <1>13, <1>14, <1>15, <1>16, <1>17, <1>18, <1>19
  DEF Next, Reader, Closer, Finished

\* No step leaves a claim that is not explained.
LEMMA ClaimsNext == TypeOK /\ CacheInv /\ ClosingInv /\ ClaimsInv /\ [Next]_vars => ClaimsInv'
<1> SUFFICES ASSUME TypeOK, CacheInv, ClosingInv, ClaimsInv, [Next]_vars PROVE ClaimsInv'
  OBVIOUS
<1> USE DEF TypeOK, ClaimsInv, Explained, vars, readerVars, closerVars, configVars,
    tableVars, history
<1>1. ASSUME NEW s \in Sockets, RegisterSocket(s) PROVE ClaimsInv'
  BY <1>1 DEF RegisterSocket, CacheInv, ClosingInv
<1>2. ASSUME NEW s \in Sockets, HandlePacket(s) PROVE ClaimsInv'
  BY <1>2 DEF HandlePacket, Goto, CacheInv, ClosingInv
<1>3. ASSUME NEW s \in Sockets, LookUp(s) PROVE ClaimsInv'
  BY <1>3 DEF LookUp, Goto, CacheInv, ClosingInv
<1>4. ASSUME NEW s \in Sockets, CheckChanging(s) PROVE ClaimsInv'
  BY <1>4 DEF CheckChanging, Return, Goto, CacheInv, ClosingInv
<1>5. ASSUME NEW s \in Sockets, Claim(s) PROVE ClaimsInv'
  BY <1>5, SocketsAssumption DEF Claim, Goto, CacheInv, ClosingInv
<1>6. ASSUME NEW s \in Sockets, Collide(s) PROVE ClaimsInv'
  BY <1>6 DEF Collide, Goto, CacheInv, ClosingInv
<1>7. ASSUME NEW s \in Sockets, CloseError(s) PROVE ClaimsInv'
  BY <1>7 DEF CloseError, Return, Goto, CacheInv, ClosingInv
<1>8. ASSUME NEW s \in Sockets, Add(s) PROVE ClaimsInv'
  <2> SUFFICES ASSUME NEW r \in Sockets, NEW m \in Macs, macTable'[m] = r
               PROVE  Explained(r, m)'
    BY DEF Explained
  <2>1. /\ Explained(r, m) /\ UNCHANGED <<macTable, table, mac, shrinking>> /\ pc[s] = "add"
        /\ overtaken \subseteq overtaken'
    BY <1>8 DEF Add
  <2>2. CASE r # s
    <3>1. cache'[r] = cache[r] /\ pc'[r] = pc[r] /\ evicted'[r] = evicted[r]
      BY <1>8, <2>2 DEF Add, Goto
    <3> QED BY <2>1, <3>1
  <2>3. CASE r = s /\ table[s] = "in"
    <3>1. m \in ToSet(cache[s]) \cup {mac[s]} \/ m \in shrinking \/ <<s, m>> \in overtaken
      BY <2>1, <2>3
    <3>2. \/ ToSet(cache'[s]) = ToSet(cache[s]) \cup {mac[s]}
          \/ /\ ToSet(cache[s]) \cup {mac[s]} = ToSet(cache'[s]) \cup {evicted'[s]}
             /\ pc'[s] = "evict"
      BY <1>8, AddEffect
    <3> QED BY <2>1, <2>3, <3>1, <3>2
  <2>4. CASE r = s /\ table[s] # "in"
    <3>1. table[s] = "out"
      BY <1>8, <2>4 DEF Add, CacheInv
    <3>2. <<s, mac[s]>> \in overtaken'
      BY <1>8, <3>1 DEF Add
    <3> QED BY <2>1, <2>4, <3>2
  <2> QED BY <2>2, <2>3, <2>4
<1>9. ASSUME NEW s \in Sockets, onMACEvicted(s) PROVE ClaimsInv'
  BY <1>9, SocketsAssumption DEF onMACEvicted, Forget, Goto, CacheInv, ClosingInv
<1>10. ASSUME NEW s \in Sockets, Accept(s) PROVE ClaimsInv'
  BY <1>10 DEF Accept, Return, Goto, CacheInv, ClosingInv
<1>11. ASSUME NEW s \in Sockets, Close(s) PROVE ClaimsInv'
  BY <1>11 DEF Close, CacheInv, ClosingInv
<1>12. ASSUME NEW s \in Sockets, UnregisterSocket(s) PROVE ClaimsInv'
  <2>1. /\ UNCHANGED <<pc, mac, evicted, cache, shrinking, overtaken>>
        /\ \A r \in Sockets : r # s => table'[r] = table[r]
        /\ \A m \in Macs : macTable'[m] = macTable[m]
                           \/ macTable'[m] = NoSocket
    BY <1>12 DEF UnregisterSocket
  <2>2. \A m \in Macs : table[s] = "in" /\ m \in ToSet(cache[s]) => macTable'[m] = NoSocket
    BY <1>12 DEF UnregisterSocket
  <2> QED BY <2>1, <2>2, SocketsAssumption
<1>13. ASSUME NEW s \in Sockets, Purge(s) PROVE ClaimsInv'
  BY <1>13 DEF Purge, CacheInv, ClosingInv
<1>14. ASSUME NEW s \in Sockets, PurgeEvicts(s) PROVE ClaimsInv'
  BY <1>14, SocketsAssumption DEF PurgeEvicts, Forget, CacheInv, ClosingInv
<1>15. ASSUME NEW s \in Sockets, Closed(s) PROVE ClaimsInv'
  BY <1>15 DEF Closed, CacheInv, ClosingInv
<1>16. ASSUME NEW s \in Sockets, Resize(s) PROVE ClaimsInv'
  BY <1>16, ResizeEffect DEF Resize, CacheInv, ClosingInv
<1>17. CASE Reload
  BY <1>17 DEF Reload, CacheInv, ClosingInv
<1>18. CASE ResizeEvicts
  BY <1>18, SocketsAssumption DEF ResizeEvicts, Forget, CacheInv, ClosingInv
<1>19. CASE UNCHANGED vars
  BY <1>19
<1> QED BY <1>1, <1>2, <1>3, <1>4, <1>5, <1>6, <1>7, <1>8, <1>9, <1>10, <1>11, <1>12,
    <1>13, <1>14, <1>15, <1>16, <1>17, <1>18, <1>19
  DEF Next, Reader, Closer, Finished

\* No step but an eviction takes the claim on an address in use from its socket.
LEMMA HeldNext == TypeOK /\ CacheInv /\ ClosingInv /\ SettingInv /\ HeldInv /\ [Next]_vars => HeldInv'
<1> SUFFICES ASSUME TypeOK, CacheInv, ClosingInv, SettingInv, HeldInv,
    [Next]_vars PROVE HeldInv'
  OBVIOUS
<1> USE DEF TypeOK, HeldInv, Held, vars, readerVars, closerVars, configVars, tableVars,
    history
<1>1. ASSUME NEW s \in Sockets, RegisterSocket(s) PROVE HeldInv'
  <2>1. ToSet(cache[s]) = {} /\ pc[s] = "idle" /\ UNCHANGED <<macTable, pc, mac,
      evicted, cache, clobbered, reloads>>
    BY <1>1, NoAddresses DEF RegisterSocket, CacheInv
  <2>2. \A r \in Sockets : r # s => table'[r] = table[r]
    BY <1>1 DEF RegisterSocket
  <2> QED BY <2>1, <2>2
<1>2. ASSUME NEW s \in Sockets, HandlePacket(s) PROVE HeldInv'
  BY <1>2 DEF HandlePacket, Goto, CacheInv, ClosingInv, SettingInv
<1>3. ASSUME NEW s \in Sockets, LookUp(s) PROVE HeldInv'
  BY <1>3 DEF LookUp, Goto, CacheInv, ClosingInv, SettingInv
<1>4. ASSUME NEW s \in Sockets, CheckChanging(s) PROVE HeldInv'
  BY <1>4 DEF CheckChanging, Return, Goto, CacheInv, ClosingInv, SettingInv
<1>5. ASSUME NEW s \in Sockets, Claim(s) PROVE HeldInv'
  <2>1. /\ UNCHANGED <<cache, table, mac, evicted, clobbered, reloads>>
        /\ pc' = [pc EXCEPT ![s] = "add"]
        /\ mac[s] \in Macs /\ macTable[mac[s]] = NoSocket
        /\ macTable' = [macTable EXCEPT ![mac[s]] = s]
    BY <1>5 DEF Claim, Goto, CacheInv
  <2>2. ASSUME NEW r \in Sockets, NEW m, Held(r, m) PROVE Held(r, m)'
    BY <2>1, <2>2, SocketsAssumption
  <2>3. Held(s, mac[s])'
    BY <2>1
  <2> QED BY <2>1, <2>2, <2>3
<1>6. ASSUME NEW s \in Sockets, Collide(s) PROVE HeldInv'
  BY <1>6 DEF Collide, Goto, CacheInv, ClosingInv, SettingInv
<1>7. ASSUME NEW s \in Sockets, CloseError(s) PROVE HeldInv'
  BY <1>7 DEF CloseError, Return, Goto, CacheInv, ClosingInv, SettingInv
<1>8. ASSUME NEW s \in Sockets, Add(s) PROVE HeldInv'
  <2>1. /\ UNCHANGED <<macTable, table, mac, clobbered, reloads>> /\ pc[s] = "add"
        /\ \A r \in Sockets : r # s => /\ cache'[r] = cache[r] /\ pc'[r] = pc[r]
                                       /\ evicted'[r] = evicted[r]
    BY <1>8 DEF Add, Goto
  <2>2. /\ ToSet(cache'[s]) \subseteq ToSet(cache[s]) \cup {mac[s]} /\ pc'[s] # "add"
        /\ pc'[s] = "evict" => evicted'[s] \notin ToSet(cache'[s])
    BY <1>8, AddEffect
  <2> QED BY <2>1, <2>2
<1>9. ASSUME NEW s \in Sockets, onMACEvicted(s) PROVE HeldInv'
  BY <1>9, SocketsAssumption DEF onMACEvicted, Forget, Goto, CacheInv, ClosingInv,
      SettingInv
<1>10. ASSUME NEW s \in Sockets, Accept(s) PROVE HeldInv'
  BY <1>10 DEF Accept, Return, Goto, CacheInv, ClosingInv, SettingInv
<1>11. ASSUME NEW s \in Sockets, Close(s) PROVE HeldInv'
  BY <1>11 DEF Close, CacheInv, ClosingInv, SettingInv
<1>12. ASSUME NEW s \in Sockets, UnregisterSocket(s) PROVE HeldInv'
  <2> SUFFICES ASSUME reloads = 0, NEW r \in Sockets, table'[r] = "in"
               PROVE  /\ \A m \in ToSet(cache[r]) : Held(r, m)'
                      /\ pc[r] = "add" => Held(r, mac[r])'
                      /\ pc[r] = "evict" => evicted[r] \notin ToSet(cache[r])
    BY <1>12 DEF UnregisterSocket
  <2>1. r # s /\ table[r] = "in" /\ clobbered' = clobbered
    BY <1>12 DEF UnregisterSocket
  <2>2. ASSUME NEW m \in Macs, Held(r, m) PROVE Held(r, m)'
    <3>1. CASE table[s] = "in" /\ m \in ToSet(cache[s])
      BY <2>1, <2>2, <3>1
    <3>2. CASE ~(table[s] = "in" /\ m \in ToSet(cache[s]))
      BY <1>12, <2>1, <2>2, <3>2 DEF UnregisterSocket
    <3> QED BY <3>1, <3>2
  <2>3. ToSet(cache[r]) \subseteq Macs /\ (pc[r] = "add" => mac[r] \in Macs)
    <3>1. cache[r] \in Seq(Macs)
      OBVIOUS
    <3> QED BY <3>1, AddressesTyped DEF CacheInv
  <2>4. UNCHANGED <<pc, mac, evicted, cache>>
    BY <1>12 DEF UnregisterSocket
  <2> QED BY <2>1, <2>2, <2>3, <2>4
<1>13. ASSUME NEW s \in Sockets, Purge(s) PROVE HeldInv'
  BY <1>13 DEF Purge, CacheInv, ClosingInv, SettingInv
<1>14. ASSUME NEW s \in Sockets, PurgeEvicts(s) PROVE HeldInv'
  BY <1>14, SocketsAssumption DEF PurgeEvicts, Forget, CacheInv, ClosingInv, SettingInv
<1>15. ASSUME NEW s \in Sockets, Closed(s) PROVE HeldInv'
  BY <1>15 DEF Closed, CacheInv, ClosingInv, SettingInv
<1>16. ASSUME NEW s \in Sockets, Resize(s) PROVE HeldInv'
  BY <1>16, ResizeEffect DEF Resize, CacheInv, ClosingInv, SettingInv
<1>17. CASE Reload
  BY <1>17 DEF Reload, CacheInv, ClosingInv, SettingInv
<1>18. CASE ResizeEvicts
  BY <1>18, SocketsAssumption DEF ResizeEvicts, Forget, CacheInv, ClosingInv, SettingInv
<1>19. CASE UNCHANGED vars
  BY <1>19
<1> QED BY <1>1, <1>2, <1>3, <1>4, <1>5, <1>6, <1>7, <1>8, <1>9, <1>10, <1>11, <1>12,
    <1>13, <1>14, <1>15, <1>16, <1>17, <1>18, <1>19
  DEF Next, Reader, Closer, Finished

\* The last frame of a socket that has left adds at most one claim.
LEMMA LeftNext == TypeOK /\ CacheInv /\ ClosingInv /\ SettingInv /\ ClaimsInv /\ LeftInv /\ [Next]_vars => LeftInv'
<1> SUFFICES ASSUME TypeOK, CacheInv, ClosingInv, SettingInv, ClaimsInv, LeftInv,
    [Next]_vars PROVE LeftInv'
  OBVIOUS
<1> USE DEF TypeOK, LeftInv, vars, readerVars, closerVars, configVars, tableVars, history
<1>1. ASSUME NEW s \in Sockets, RegisterSocket(s) PROVE LeftInv'
  BY <1>1 DEF RegisterSocket
<1>2. ASSUME NEW s \in Sockets, HandlePacket(s) PROVE LeftInv'
  BY <1>2 DEF HandlePacket, Goto
<1>3. ASSUME NEW s \in Sockets, LookUp(s) PROVE LeftInv'
  BY <1>3 DEF LookUp, Goto
<1>4. ASSUME NEW s \in Sockets, CheckChanging(s) PROVE LeftInv'
  <2>1. UNCHANGED <<macTable, table, reloads>> /\ pc[s] = "unknown"
    BY <1>4 DEF CheckChanging
  <2>2. \A r \in Sockets : pc'[r] \in {"looked", "unknown",
      "claim"} => pc[r] \in {"looked", "unknown", "claim"}
    BY <1>4 DEF CheckChanging, Return, Goto
  <2> QED BY <2>1, <2>2
<1>5. ASSUME NEW s \in Sockets, Claim(s) PROVE LeftInv'
  BY <1>5, SocketsAssumption DEF Claim, Goto
<1>6. ASSUME NEW s \in Sockets, Collide(s) PROVE LeftInv'
  BY <1>6 DEF Collide, Goto
<1>7. ASSUME NEW s \in Sockets, CloseError(s) PROVE LeftInv'
  BY <1>7 DEF CloseError, Return, Goto
<1>8. ASSUME NEW s \in Sockets, Add(s) PROVE LeftInv'
  BY <1>8 DEF Add, Goto
<1>9. ASSUME NEW s \in Sockets, onMACEvicted(s) PROVE LeftInv'
  BY <1>9, SocketsAssumption DEF onMACEvicted, Forget, Goto
<1>10. ASSUME NEW s \in Sockets, Accept(s) PROVE LeftInv'
  BY <1>10 DEF Accept, Return, Goto
<1>11. ASSUME NEW s \in Sockets, Close(s) PROVE LeftInv'
  BY <1>11 DEF Close
<1>12. ASSUME NEW s \in Sockets, UnregisterSocket(s) PROVE LeftInv'
  <2>1. /\ UNCHANGED <<pc, mac, evicted, cache, shrinking, overtaken, reloads>>
        /\ \A r \in Sockets : r # s => table'[r] = table[r]
        /\ \A m \in Macs : macTable'[m] = macTable[m] \/ macTable'[m] = NoSocket
    BY <1>12 DEF UnregisterSocket
  <2>2. CASE table[s] # "in"
    BY <1>12, <2>1, <2>2, SocketsAssumption DEF UnregisterSocket
  <2>3. CASE table[s] = "in"
    <3> SUFFICES ASSUME reloads = 0 PROVE LeftInv'
      BY <2>1
    <3>1. \A m \in Macs : m \in ToSet(cache[s]) => macTable'[m] = NoSocket
      BY <1>12, <2>3 DEF UnregisterSocket
    <3>2. \A m \in Macs : macTable'[m] = s =>
             (pc[s] = "add" /\ m = mac[s]) \/ (pc[s] = "evict" /\ m = evicted[s])
      BY <2>1, <2>3, <3>1, SocketsAssumption DEF ClaimsInv, Explained, SettingInv,
          ClosingInv
    <3>3. ASSUME NEW a \in Macs, NEW b \in Macs, macTable'[a] = s,
        macTable'[b] = s PROVE a = b
      BY <3>2, <3>3
    <3>4. pc[s] \in {"looked", "unknown", "claim"} => \A a \in Macs : macTable'[a] # s
      BY <3>2
    <3>5. ASSUME NEW r \in Sockets, r # s, table'[r] = "out"
          PROVE  /\ \A a, b \in Macs : macTable'[a] = r /\ macTable'[b] = r => a = b
                 /\ pc[r] \in {"looked", "unknown",
                     "claim"} => \A a \in Macs : macTable'[a] # r
      <4>1. table[r] = "out" /\ \A m \in Macs : macTable'[m] = r => macTable[m] = r
        BY <2>1, <3>5, SocketsAssumption
      <4> QED BY <4>1
    <3> QED BY <2>1, <3>3, <3>4, <3>5
  <2> QED BY <2>2, <2>3
<1>13. ASSUME NEW s \in Sockets, Purge(s) PROVE LeftInv'
  BY <1>13 DEF Purge
<1>14. ASSUME NEW s \in Sockets, PurgeEvicts(s) PROVE LeftInv'
  BY <1>14, SocketsAssumption DEF PurgeEvicts, Forget
<1>15. ASSUME NEW s \in Sockets, Closed(s) PROVE LeftInv'
  BY <1>15 DEF Closed
<1>16. ASSUME NEW s \in Sockets, Resize(s) PROVE LeftInv'
  BY <1>16, ResizeEffect DEF Resize
<1>17. CASE Reload
  BY <1>17 DEF Reload
<1>18. CASE ResizeEvicts
  BY <1>18, SocketsAssumption DEF ResizeEvicts, Forget
<1>19. CASE UNCHANGED vars
  BY <1>19
<1> QED BY <1>1, <1>2, <1>3, <1>4, <1>5, <1>6, <1>7, <1>8, <1>9, <1>10, <1>11, <1>12,
    <1>13, <1>14, <1>15, <1>16, <1>17, <1>18, <1>19
  DEF Next, Reader, Closer, Finished

\* No step lets a second address pass.
LEMMA OneNext == TypeOK /\ CacheInv /\ ClosingInv /\ SettingInv /\ OneInv /\ [Next]_vars => OneInv'
<1> SUFFICES ASSUME TypeOK, CacheInv, ClosingInv, SettingInv, OneInv,
    [Next]_vars PROVE OneInv'
  OBVIOUS
<1> USE DEF TypeOK, OneInv, OneAddress, vars, readerVars, closerVars, configVars,
    tableVars, history
<1>1. ASSUME NEW s \in Sockets, RegisterSocket(s) PROVE OneInv'
  BY <1>1 DEF RegisterSocket, CacheInv, ClosingInv, SettingInv, MayChange
<1>2. ASSUME NEW s \in Sockets, HandlePacket(s) PROVE OneInv'
  BY <1>2 DEF HandlePacket, Goto, CacheInv, ClosingInv, SettingInv, MayChange
<1>3. ASSUME NEW s \in Sockets, LookUp(s) PROVE OneInv'
  BY <1>3 DEF LookUp, Goto, CacheInv, ClosingInv, SettingInv, MayChange
<1>4. ASSUME NEW s \in Sockets, CheckChanging(s) PROVE OneInv'
  BY <1>4 DEF CheckChanging, Return, Goto, CacheInv, ClosingInv, SettingInv, MayChange
<1>5. ASSUME NEW s \in Sockets, Claim(s) PROVE OneInv'
  <2>1. UNCHANGED <<used, mac, closing, reloads, config,
      cache>> /\ pc' = [pc EXCEPT ![s] = "add"] /\ pc[s] = "claim"
    BY <1>5 DEF Claim, Goto
  <2>2. cache[s] = <<>> => ToSet(cache[s]) = {}
    BY NoAddresses
  <2> QED BY <2>1, <2>2
<1>6. ASSUME NEW s \in Sockets, Collide(s) PROVE OneInv'
  BY <1>6 DEF Collide, Goto, CacheInv, ClosingInv, SettingInv, MayChange
<1>7. ASSUME NEW s \in Sockets, CloseError(s) PROVE OneInv'
  BY <1>7 DEF CloseError, Return, Goto, CacheInv, ClosingInv, SettingInv, MayChange
<1>8. ASSUME NEW s \in Sockets, Add(s) PROVE OneInv'
  <2>1. /\ UNCHANGED <<used, mac, closing, reloads, config>> /\ pc[s] = "add"
        /\ \A r \in Sockets : r # s => cache'[r] = cache[r] /\ pc'[r] = pc[r]
    BY <1>8 DEF Add, Goto
  <2>2. ASSUME reloads = 0, ~config.changing, s \notin closing
        PROVE  /\ used[s] \subseteq ToSet(cache'[s])
               /\ ToSet(cache'[s]) = {mac[s]} /\ pc'[s] = "accept"
    <3>1. ToSet(cache[s]) \subseteq {mac[s]} /\ used[s] \subseteq ToSet(cache[s])
      BY <2>1, <2>2
    <3>2. cache[s] \in Seq(Macs) /\ size[s] \in Sizes
      BY <2>1 DEF CacheInv
    <3>3. size[s] \in Nat /\ size[s] >= 1
      BY <3>2, SizesAreNumbers
    <3>4. ~(mac[s] \notin ToSet(cache[s]) /\ Len(cache[s]) = size[s])
      <4> SUFFICES ASSUME ToSet(cache[s]) = {}, Len(cache[s]) >= 1 PROVE FALSE
        BY <3>1, <3>3
      <4>1. 1 \in 1..Len(cache[s])
        BY <3>2
      <4>2. cache[s][1] \in ToSet(cache[s])
        BY <3>2, <4>1 DEF ToSet
      <4> QED BY <4>2
    <3>5. ToSet(cache'[s]) = ToSet(cache[s]) \cup {mac[s]} /\ pc'[s] = "accept"
      BY <1>8, <3>4, AddEffect
    <3> QED BY <3>1, <3>5
  <2>3. ASSUME reloads = 0, ~config.changing, NEW r \in Sockets
        PROVE  OneAddress(r)'
    <3>1. CASE r # s
      BY <2>1, <2>3, <3>1
    <3>2. CASE r = s
      BY <2>1, <2>2, <2>3, <3>2
    <3> QED BY <3>1, <3>2
  <2> QED BY <2>1, <2>3
<1>9. ASSUME NEW s \in Sockets, onMACEvicted(s) PROVE OneInv'
  BY <1>9, SocketsAssumption DEF onMACEvicted, Forget, Goto, CacheInv, ClosingInv,
      SettingInv, MayChange
<1>10. ASSUME NEW s \in Sockets, Accept(s) PROVE OneInv'
  BY <1>10 DEF Accept, Return, Goto, CacheInv, ClosingInv, SettingInv, MayChange
<1>11. ASSUME NEW s \in Sockets, Close(s) PROVE OneInv'
  BY <1>11 DEF Close, CacheInv, ClosingInv, SettingInv, MayChange
<1>12. ASSUME NEW s \in Sockets, UnregisterSocket(s) PROVE OneInv'
  BY <1>12, SocketsAssumption DEF UnregisterSocket, CacheInv, ClosingInv, SettingInv,
      MayChange
<1>13. ASSUME NEW s \in Sockets, Purge(s) PROVE OneInv'
  BY <1>13 DEF Purge, CacheInv, ClosingInv, SettingInv, MayChange
<1>14. ASSUME NEW s \in Sockets, PurgeEvicts(s) PROVE OneInv'
  BY <1>14, SocketsAssumption DEF PurgeEvicts, Forget, CacheInv, ClosingInv, SettingInv,
      MayChange
<1>15. ASSUME NEW s \in Sockets, Closed(s) PROVE OneInv'
  BY <1>15 DEF Closed, CacheInv, ClosingInv, SettingInv, MayChange
<1>16. ASSUME NEW s \in Sockets, Resize(s) PROVE OneInv'
  BY <1>16, ResizeEffect DEF Resize, CacheInv, ClosingInv, SettingInv, MayChange
<1>17. CASE Reload
  BY <1>17 DEF Reload, CacheInv, ClosingInv, SettingInv, MayChange
<1>18. CASE ResizeEvicts
  BY <1>18, SocketsAssumption DEF ResizeEvicts, Forget, CacheInv, ClosingInv,
      SettingInv, MayChange
<1>19. CASE UNCHANGED vars
  BY <1>19
<1> QED BY <1>1, <1>2, <1>3, <1>4, <1>5, <1>6, <1>7, <1>8, <1>9, <1>10, <1>11, <1>12,
    <1>13, <1>14, <1>15, <1>16, <1>17, <1>18, <1>19
  DEF Next, Reader, Closer, Finished

----------------------------------------------------------------------------
(* The theorems *)

SwitchInv == /\ TypeOK /\ CacheInv /\ ClosingInv /\ SettingInv
             /\ ClaimsInv /\ HeldInv /\ LeftInv /\ OneInv

\* The invariant holds of every reachable state.
LEMMA SwitchInvariant == Spec => []SwitchInv
<1>1. Init => SwitchInv
  BY SwitchInit DEF SwitchInv
<1>2. SwitchInv /\ [Next]_vars => SwitchInv'
  BY TypingNext, CacheNext, ClosingNext, SettingNext, ClaimsNext, HeldNext, LeftNext,
      OneNext
     DEF SwitchInv
<1> QED BY <1>1, <1>2, PTL DEF Spec

\* The types hold, whatever sockets and addresses there are and however often the
\* settings are reloaded: also an address that an eviction callback receives is a
\* real one (setMACFrom, onMACEvicted, ConfigUpdate).
THEOREM TypeCorrect == Spec => []TypeOK
<1>1. SwitchInv => TypeOK
  BY DEF SwitchInv
<1> QED BY SwitchInvariant, <1>1, PTL

\* A socket has a claim only while it is registered and its cache has the address,
\* while its reader or a resize is exchanging it, or because the socket was
\* unregistered before the reader's Add: no other interleaving of readers, closing
\* sockets and reloads leaves an address that nobody can claim again (setMACFrom,
\* UnregisterSocket, onMACEvicted).
THEOREM ClaimsAreExplained == Spec => []ClaimsExplained
<1>1. SwitchInv => ClaimsExplained
  BY DEF SwitchInv, ClaimsInv, Explained, ClaimsExplained, Claims, InFlight
<1> QED BY SwitchInvariant, <1>1, PTL

\* A socket that may not change its address uses one address in all its life, for
\* any sequence of frames and closes (setMACFrom with AllowMACChanging off).
THEOREM OneAddressOnly == Spec => []OneMACOnly
<1>1. SwitchInv => OneMACOnly
  <2> SUFFICES ASSUME SwitchInv, reloads = 0, ~config.changing, NEW s \in Sockets
               PROVE  Cardinality(used[s]) <= 1
    BY DEF OneMACOnly
  <2>1. \A a, b \in used[s] : a = b
    BY DEF SwitchInv, OneInv, OneAddress
  <2>2. CASE used[s] = {}
    BY <2>2, FS_EmptySet
  <2>3. CASE used[s] # {}
    <3>1. PICK a : used[s] = {a}
      BY <2>1, <2>3
    <3>2. Cardinality({a}) = 1
      BY FS_Singleton
    <3> QED BY <3>1, <3>2
  <2> QED BY <2>2, <2>3
<1> QED BY SwitchInvariant, <1>1, PTL

\* No two live sockets use the same address, but for one whose claim the late
\* eviction of a third party has removed, for any number of sockets and addresses
\* (setMACFrom's check under macLock, against UnregisterSocket and Purge).
THEOREM AddressesExclusive == Spec => []Exclusive
<1>1. SwitchInv => Exclusive
  <2> SUFFICES ASSUME SwitchInv, reloads = 0, NEW s \in Sockets \ closing,
                      NEW t \in Sockets \ closing, s # t,
                      NEW m \in ToSet(cache[s]) \cap ToSet(cache[t])
               PROVE  m \in clobbered
    BY DEF Exclusive
  <2>1. ASSUME NEW r \in Sockets \ closing, m \in ToSet(cache[r])
        PROVE  Held(r, m)
    <3>1. table[r] # "out"
      BY DEF SwitchInv, ClosingInv
    <3>2. table[r] # "new"
      BY <2>1, NoAddresses DEF SwitchInv, CacheInv
    <3>3. table[r] = "in"
      BY <3>1, <3>2 DEF SwitchInv, TypeOK
    <3> QED BY <2>1, <3>3 DEF SwitchInv, HeldInv
  <2>2. Held(s, m) /\ Held(t, m)
    BY <2>1
  <2> QED BY <2>2 DEF Held
<1> QED BY SwitchInvariant, <1>1, PTL

\* Until a reload no socket has more claims than allowed-macs-per-connection, but
\* for the one address that is being exchanged, for every value of the setting: a
\* socket that has been unregistered keeps at most one (Add's eviction and
\* UnregisterSocket).
THEOREM ClaimsAreBounded == Spec => []ClaimsBounded
<1>1. SwitchInv => ClaimsBounded
  <2> DEFINE extra(r) == IF pc[r] \in {"add", "evict"} THEN 1 ELSE 0
  <2> SUFFICES ASSUME SwitchInv, reloads = 0, NEW s \in Sockets
               PROVE  Cardinality(Claims(s)) <= config.allowed + extra(s)
    BY DEF ClaimsBounded
  <2>1. config.allowed \in Nat /\ config.allowed >= 1 /\ extra(s) \in {0, 1}
    <3>1. config.allowed \in Sizes
      BY DEF SwitchInv, TypeOK
    <3> QED BY <3>1, SizesAreNumbers
  <2>2. /\ shrinking = {}
        /\ \A m \in Claims(s) : Explained(s, m)
    BY DEF SwitchInv, SettingInv, ClaimsInv, Claims
  <2>3. CASE table[s] = "new"
    <3>1. pc[s] = "idle" /\ \A m \in Macs : <<s, m>> \notin overtaken
      BY <2>3 DEF SwitchInv, CacheInv, ClosingInv
    <3>2. Claims(s) = {}
      BY <2>2, <2>3, <3>1 DEF Explained, Claims
    <3>3. Cardinality(Claims(s)) = 0
      BY <3>2, FS_EmptySet
    <3> QED BY <2>1, <3>3
  <2>4. CASE table[s] = "out"
    <3>1. \A a, b \in Claims(s) : a = b
      BY <2>4 DEF SwitchInv, LeftInv, Claims
    <3>2. CASE Claims(s) = {}
      <4>1. Cardinality(Claims(s)) = 0
        BY <3>2, FS_EmptySet
      <4> QED BY <2>1, <4>1
    <3>3. CASE Claims(s) # {}
      <4>1. PICK a : Claims(s) = {a}
        BY <3>1, <3>3
      <4>2. Cardinality(Claims(s)) = 1
        BY <4>1, FS_Singleton
      <4> QED BY <2>1, <4>2
    <3> QED BY <3>2, <3>3
  <2>5. CASE table[s] = "in"
    <3> DEFINE C == ToSet(cache[s])
    <3>1. cache[s] \in Seq(Macs) /\ Len(cache[s]) <= size[s] /\ size[s] = config.allowed
      BY <2>5 DEF SwitchInv, TypeOK, CacheInv, SettingInv
    <3>2. IsFiniteSet(C) /\ Cardinality(C) <= Len(cache[s])
      BY <3>1, AddressesCounted
    <3>3. Cardinality(C) \in Nat /\ Len(cache[s]) \in Nat
      BY <3>1, <3>2, FS_CardinalityType
    <3>4. Cardinality(C) <= config.allowed
      BY <2>1, <3>1, <3>2, <3>3
    <3>5. \A m \in Macs : <<s, m>> \notin overtaken
      BY <2>5 DEF SwitchInv, ClosingInv
    <3> HIDE DEF C
    <3>6. ASSUME NEW x, extra(s) = 1, Claims(s) \subseteq C \cup {x}
          PROVE  Cardinality(Claims(s)) <= config.allowed + extra(s)
      <4>1. IsFiniteSet(C \cup {x}) /\ Cardinality(C \cup {x}) <= Cardinality(C) + 1
        <5>1. /\ IsFiniteSet(C \cup {x})
              /\ Cardinality(C \cup {x}) = IF x \in C THEN Cardinality(C) ELSE Cardinality(C) + 1
          BY <3>2, FS_AddElement
        <5> QED BY <3>3, <5>1
      <4>2. /\ Cardinality(Claims(s)) <= Cardinality(C \cup {x})
            /\ IsFiniteSet(Claims(s))
        BY <3>6, <4>1, FS_Subset
      <4>3. Cardinality(Claims(s)) \in Nat /\ Cardinality(C \cup {x}) \in Nat
        BY <4>1, <4>2, FS_CardinalityType
      <4> QED BY <2>1, <3>3, <3>4, <3>6, <4>1, <4>2, <4>3
    <3>7. CASE pc[s] = "add"
      <4>1. Claims(s) \subseteq C \cup {mac[s]}
        BY <2>2, <3>5, <3>7 DEF Explained, Claims, C
      <4> QED BY <3>6, <3>7, <4>1
    <3>8. CASE pc[s] = "evict"
      <4>1. Claims(s) \subseteq C \cup {evicted[s]}
        BY <2>2, <3>5, <3>8 DEF Explained, Claims, C
      <4> QED BY <3>6, <3>8, <4>1
    <3>9. CASE pc[s] \notin {"add", "evict"}
      <4>1. Claims(s) \subseteq C
        BY <2>2, <3>5, <3>9 DEF Explained, Claims, C
      <4>2. Cardinality(Claims(s)) <= Cardinality(C) /\ IsFiniteSet(Claims(s))
        BY <3>2, <4>1, FS_Subset
      <4>3. Cardinality(Claims(s)) \in Nat
        BY <4>2, FS_CardinalityType
      <4> QED BY <2>1, <3>3, <3>4, <4>2, <4>3
    <3> QED BY <3>7, <3>8, <3>9
  <2> QED BY <2>3, <2>4, <2>5 DEF SwitchInv, TypeOK
<1> QED BY SwitchInvariant, <1>1, PTL
==============================================================================
