---------------------------- MODULE ServingProofs ----------------------------
(***************************************************************************)
(* Proofs about Serving: for any connections, limits and packets, and      *)
(* however the calls are nested, a lock is held exactly by the goroutine   *)
(* that is going to release it, locks are taken in one order, and no       *)
(* goroutines wait for each other in a circle.                             *)
(***************************************************************************)
EXTENDS Serving, FiniteSetTheorems, SequenceTheorems, WellFoundedInduction, TLAPS

----------------------------------------------------------------------------
(* The programs of the goroutines *)

\* The locks that are given back with an "unlock".
CloseLocks == {"closeLock"} \X Conns
OuterLocks == {socketsLock, closerLock} \cup CloseLocks

ServerSteps == {"readIface", "accept", "awaitError", "closeAll", "return", "setMTU"}
ConnSteps == {"addCloser", "admit", "serve", "write", "wait", "unlist", "close", "closeError",
              "closeAdapter", "readPeer", "lookUp"}
Errors == {"none", "main iface closed", "http: Server closed"}

Instructions ==
    [do : ServerSteps, arg : {"server"}]
        \cup [do : {"testError", "setError"}, arg : Errors]
        \cup [do : {"closeOther"}, arg : {"mainIface", "http"}]
        \cup [do : {"exit"}, arg : {"clean", "panic"}]
        \cup [do : {"unlock"}, arg : OuterLocks]
        \cup [do : ConnSteps, arg : Conns]

\* A handler forwards no packets, and only the handler of a connection serves it.
InstructionsOf(p) ==
    {i \in Instructions :
        /\ p[1] = "handler" => i.do \notin {"readIface", "readPeer", "setMTU"}
        /\ i.do = "serve" => p = handler(i.arg)}

Has(s, what) == \E i \in 1..Len(s) : s[i].do = what
Releases(s, l) == \E i \in 1..Len(s) : s[i].do = "unlock" /\ s[i].arg = l

\* An instruction may be done under locks of a lower rank than this.  A write may turn into a
\* CloseError, and a handler writes under no lock.
Depth(p, i) ==
    CASE i.do = "unlock" -> Rank(i.arg)
      [] i.do \in {"addCloser", "closeAll", "admit", "unlist", "setMTU", "lookUp"} -> 1
      [] i.do \in {"close", "closeError"} -> 2
      [] i.do = "write" -> IF p[1] = "handler" THEN 0 ELSE 2
      [] i.do \in {"closeAdapter", "closeOther"} -> 3
      [] OTHER -> 0

\* Critical sections are nested by rank.
Nested(p, s) ==
    \A i, j \in 1..Len(s) :
        i < j /\ s[j].do = "unlock" => Rank(s[j].arg) < Depth(p, s[i])

ServedOnce(s) == \A i, j \in 1..Len(s) : s[i].do = "serve" /\ s[j].do = "serve" => i = j

\* A well-formed program of p.
Program(p, s) == s \in Seq(InstructionsOf(p)) /\ Nested(p, s) /\ ServedOnce(s)

----------------------------------------------------------------------------
(* The inductive invariant *)

Programs ==
    /\ todo = [p \in Procs |-> todo[p]]
    /\ \A p \in Procs : Program(p, todo[p])

\* The head of the program is a write that keeps the lock while it waits.
WritesUnder(s, l) == s # <<>> /\ \E c \in Conns : l = writeLock(c) /\ Head(s) = Do("write", c)

LocksHeld ==
    /\ holder \in [Locks -> Procs \cup {Nobody}]
    /\ \A p \in Procs, l \in Locks :
          /\ Releases(todo[p], l) => holder[l] = p
          /\ holder[l] = p => Releases(todo[p], l) \/ WritesUnder(todo[p], l)

\* What has not been started yet has nothing to do.
NotStarted ==
    /\ \A c \in coming : todo[handler(c)] = <<>> /\ todo[reader(c)] = <<>>
    /\ \A c \in Conns : Has(todo[handler(c)], "serve") => todo[reader(c)] = <<>>
    /\ \A c \in Conns \ closing : todo[errorSender(c)] = <<>>
    /\ \A e \in events \cap {"reload", "delete", "signal"} : todo[ofServer(e)] = <<>>

TablesTyped ==
    /\ sockets \subseteq Conns /\ routes \subseteq Conns
    /\ userSocks \in Seq(Conns)
    /\ closers \in Seq(Conns \cup {"mainIface", "http"})
    /\ closing \subseteq Conns
    /\ open \subseteq Conns \cup {"mainIface", "http"}
    /\ stalled \subseteq Conns \cap open

ServeTyped ==
    /\ serveError \in Errors \cup {"nil"}
    /\ exit \in {"running", "clean", "panic"}
    /\ coming \subseteq Conns /\ \E setup \in Setups : events \subseteq setup.events
    /\ packets \in Nat /\ faults \in Nat

\* Instructions are records.
LEMMA InstructionRecords ==
    /\ \A w \in ConnSteps, c \in Conns : Do(w, c) \in Instructions
    /\ \A w \in ServerSteps : Do(w, "server") \in Instructions
    /\ \A e \in Errors : Do("testError", e) \in Instructions /\ Do("setError", e) \in Instructions
    /\ \A l \in OuterLocks : Do("unlock", l) \in Instructions
    /\ \A x \in {"mainIface", "http"} : Do("closeOther", x) \in Instructions
    /\ \A x \in {"clean", "panic"} : Do("exit", x) \in Instructions
    /\ \A w, x : Do(w, x).do = w /\ Do(w, x).arg = x
BY DEF Do, Instructions

\* The argument of an instruction.
LEMMA Arguments ==
    ASSUME NEW i \in Instructions
    PROVE  /\ i.do \in ConnSteps => i.arg \in Conns
           /\ i.do \in {"testError", "setError"} => i.arg \in Errors
           /\ i.do = "closeOther" => i.arg \in {"mainIface", "http"}
           /\ i.do = "exit" => i.arg \in {"clean", "panic"}
           /\ i.do = "unlock" => i.arg \in OuterLocks
           /\ i.do \in ServerSteps => i.arg = "server"
           /\ i = Do(i.do, i.arg)
BY DEF Instructions, ConnSteps, ServerSteps, Do

----------------------------------------------------------------------------
(* The locks and their ranks *)

\* The locks, by name.
LEMMA LockNames ==
    /\ \A l \in Locks : l \in OuterLocks \/ \E c \in Conns : l = writeLock(c)
    /\ \A l \in OuterLocks : \/ l = socketsLock \/ l = closerLock
                             \/ \E c \in Conns : l = closeLock(c)
    /\ socketsLock \in OuterLocks /\ closerLock \in OuterLocks
    /\ OuterLocks \subseteq Locks
    /\ \A c \in Conns : /\ closeLock(c) \in OuterLocks
                        /\ writeLock(c) \in Locks /\ writeLock(c) \notin OuterLocks
    /\ \A c, d \in Conns : writeLock(c) = writeLock(d) => c = d
BY DEF Locks, OuterLocks, CloseLocks, socketsLock, closerLock, closeLock, writeLock

\* The ranks.
LEMMA Ranks ==
    /\ Rank(socketsLock) = 1 /\ Rank(closerLock) = 1
    /\ \A c \in Conns : Rank(closeLock(c)) = 2 /\ Rank(writeLock(c)) = 3
    /\ \A l \in OuterLocks : Rank(l) \in 1..2
    /\ \A l \in Locks : Rank(l) \in 1..3
<1>1. Rank(socketsLock) = 1 /\ Rank(closerLock) = 1
  BY DEF Rank, socketsLock, closerLock
<1>2. \A c \in Conns : Rank(closeLock(c)) = 2 /\ Rank(writeLock(c)) = 3
  BY DEF Rank, socketsLock, closerLock, closeLock, writeLock
<1>3. \A l \in OuterLocks : Rank(l) \in 1..2
  BY <1>1, <1>2, LockNames
<1>4. \A l \in Locks : Rank(l) \in 1..3
  BY <1>2, <1>3, LockNames
<1> QED BY <1>1, <1>2, <1>3, <1>4

\* Whose instruction needs which lock.
LEMMA WhoNeeds ==
    ASSUME NEW p \in Procs, NEW i \in InstructionsOf(p), NEW l \in Locks, Needs(l, i)
    PROVE  /\ Depth(p, i) <= Rank(l) /\ i.do # "unlock"
           /\ \A c \in Conns : l = writeLock(c) => i.arg = c /\ i.do \in {"write", "closeAdapter"}
<1>1. CASE l = socketsLock
  <2>1. i.do \in {"admit", "unlist", "setMTU", "lookUp"}
    BY <1>1 DEF Needs, socketsLock, closerLock
  <2>2. Depth(p, i) = 1
    BY <2>1 DEF Depth
  <2> QED BY <1>1, <2>1, <2>2, Ranks, LockNames
<1>2. CASE l = closerLock
  <2>1. i.do \in {"addCloser", "closeAll"}
    BY <1>2 DEF Needs, socketsLock, closerLock
  <2>2. Depth(p, i) = 1
    BY <2>1 DEF Depth
  <2> QED BY <1>2, <2>1, <2>2, Ranks, LockNames
<1>3. ASSUME NEW c \in Conns, l = closeLock(c)
      PROVE  i.do \in {"close", "closeError"} /\ Depth(p, i) = 2 /\ Rank(l) = 2
  <2>1. i.do \in {"close", "closeError"}
    BY <1>3 DEF Needs, socketsLock, closerLock, closeLock
  <2>2. Depth(p, i) = 2
    BY <2>1 DEF Depth
  <2> QED BY <1>3, <2>1, <2>2, Ranks
<1>4. ASSUME NEW c \in Conns, l = writeLock(c)
      PROVE  /\ i.do \in {"write", "closeAdapter"} /\ i.arg = c
             /\ Depth(p, i) \in {0, 2, 3} /\ Rank(l) = 3
  <2>1. i.do \in {"write", "closeAdapter"} /\ i.arg = c
    BY <1>4 DEF Needs, socketsLock, closerLock, writeLock
  <2>2. Depth(p, i) \in {0, 2, 3}
    BY <2>1 DEF Depth
  <2> QED BY <1>4, <2>1, <2>2, Ranks
<1>5. CASE l \in OuterLocks
  BY <1>1, <1>2, <1>3, <1>5, LockNames
<1>6. CASE \E c \in Conns : l = writeLock(c)
  BY <1>4, <1>6
<1> QED BY <1>5, <1>6, LockNames

\* The depths.
LEMMA Depths ==
    ASSUME NEW p, NEW i \in Instructions
    PROVE  /\ Depth(p, i) \in 0..3
           /\ i.do = "unlock" => Depth(p, i) = Rank(i.arg)
           /\ i.do \in {"addCloser", "closeAll", "admit", "unlist", "setMTU", "lookUp"}
                 => Depth(p, i) = 1
           /\ i.do \in {"close", "closeError"} => Depth(p, i) = 2
           /\ i.do = "write" => Depth(p, i) = IF p[1] = "handler" THEN 0 ELSE 2
           /\ i.do \in {"closeAdapter", "closeOther"} => Depth(p, i) = 3
           /\ i.do \in {"readIface", "accept", "awaitError", "return", "testError", "setError",
                        "exit", "serve", "wait", "readPeer"} => Depth(p, i) = 0
<1>1. i.do = "unlock" => Depth(p, i) = Rank(i.arg) /\ Rank(i.arg) \in 1..3
  BY Arguments, Ranks, LockNames DEF Depth
<1>2. /\ i.do \in {"addCloser", "closeAll", "admit", "unlist", "setMTU", "lookUp"}
            => Depth(p, i) = 1
      /\ i.do \in {"close", "closeError"} => Depth(p, i) = 2
      /\ i.do = "write" => Depth(p, i) = IF p[1] = "handler" THEN 0 ELSE 2
      /\ i.do \in {"closeAdapter", "closeOther"} => Depth(p, i) = 3
      /\ i.do \in {"readIface", "accept", "awaitError", "return", "testError", "setError",
                   "exit", "serve", "wait", "readPeer"} => Depth(p, i) = 0
  BY DEF Depth
<1>3. i.do \in {"unlock", "addCloser", "closeAll", "admit", "unlist", "setMTU", "lookUp",
                "close", "closeError", "write", "closeAdapter", "closeOther", "readIface",
                "accept", "awaitError", "return", "testError", "setError", "exit", "serve",
                "wait", "readPeer"}
  BY DEF Instructions, ConnSteps, ServerSteps
<1> QED BY <1>1, <1>2, <1>3

----------------------------------------------------------------------------
(* Programs: what remains of one, and one put before another *)

\* Whatever p's instruction is done under releases a lock of a lower rank.
LEMMA HeadDepth ==
    ASSUME NEW p, NEW s, Program(p, s), s # <<>>
    PROVE  /\ Head(s) \in InstructionsOf(p) /\ Head(s) \in Instructions
           /\ \A l \in Locks : Releases(Tail(s), l) => Rank(l) < Depth(p, Head(s))
<1> DEFINE t == Tail(s)
<1>1. /\ Head(s) = s[1] /\ Len(s) \in Nat /\ Len(s) >= 1 /\ Len(t) = Len(s) - 1
      /\ \A i \in 1..(Len(s) - 1) : t[i] = s[i + 1]
      /\ Head(s) \in InstructionsOf(p)
  BY DEF Program
<1> HIDE DEF t
<1>2. ASSUME NEW l \in Locks, Releases(t, l) PROVE Rank(l) < Depth(p, s[1])
  <2>1. PICK i \in 1..Len(t) : t[i].do = "unlock" /\ t[i].arg = l
    BY <1>2 DEF Releases
  <2>2. i + 1 \in 1..Len(s) /\ 1 \in 1..Len(s) /\ 1 < i + 1 /\ s[i + 1] = t[i]
    BY <1>1, <2>1
  <2> QED BY <2>1, <2>2 DEF Program, Nested
<1> QED BY <1>1, <1>2 DEF InstructionsOf, t

\* What remains of a program when its first instruction has been done.
LEMMA TailProgram ==
    ASSUME NEW p, NEW s, Program(p, s), s # <<>>
    PROVE  /\ Program(p, Tail(s))
           /\ \A l \in Locks : Releases(Tail(s), l) <=>
                                  Releases(s, l) /\ ~(Head(s).do = "unlock" /\ Head(s).arg = l)
           /\ \A w : Has(Tail(s), w) => Has(s, w)
           /\ Head(s).do = "serve" => ~Has(Tail(s), "serve")
<1> DEFINE t == Tail(s)
<1>1. /\ t \in Seq(InstructionsOf(p))
      /\ Head(s) = s[1] /\ Len(s) \in Nat /\ Len(s) >= 1 /\ Len(t) = Len(s) - 1
      /\ \A i \in 1..(Len(s) - 1) : t[i] = s[i + 1]
  BY DEF Program
<1>2. \A l \in Locks : Releases(t, l) => Rank(l) < Depth(p, Head(s))
  BY HeadDepth
<1> HIDE DEF t
<1>3. \A i \in 1..Len(t) : i + 1 \in 1..Len(s) /\ t[i] = s[i + 1] /\ i + 1 # 1
  BY <1>1
<1>4. \A i \in 1..Len(s) : i = 1 \/ (i - 1 \in 1..Len(t) /\ t[i - 1] = s[i])
  BY <1>1
<1>5. Nested(p, t)
  <2> SUFFICES ASSUME NEW i \in 1..Len(t), NEW j \in 1..Len(t), i < j, t[j].do = "unlock"
               PROVE  Rank(t[j].arg) < Depth(p, t[i])
    BY DEF Nested
  <2>1. i + 1 < j + 1
    OBVIOUS
  <2> QED BY <1>3, <2>1 DEF Program, Nested
<1>6. ServedOnce(t)
  <2> SUFFICES ASSUME NEW i \in 1..Len(t), NEW j \in 1..Len(t),
                      t[i].do = "serve", t[j].do = "serve"
               PROVE  i = j
    BY DEF ServedOnce
  <2>1. i + 1 = j + 1
    BY <1>3 DEF Program, ServedOnce
  <2> QED BY <2>1
<1>7. ASSUME NEW l \in Locks
      PROVE  Releases(t, l) <=> Releases(s, l) /\ ~(Head(s).do = "unlock" /\ Head(s).arg = l)
  <2>1. Releases(t, l) => Releases(s, l)
    BY <1>3 DEF Releases
  <2>2. Releases(t, l) => ~(Head(s).do = "unlock" /\ Head(s).arg = l)
    <3> SUFFICES ASSUME Releases(t, l), Head(s).do = "unlock", Head(s).arg = l PROVE FALSE
      OBVIOUS
    <3>1. Depth(p, Head(s)) = Rank(l)
      BY HeadDepth, Depths
    <3> QED BY <1>2, <3>1, Ranks
  <2>3. Releases(s, l) /\ ~(Head(s).do = "unlock" /\ Head(s).arg = l) => Releases(t, l)
    BY <1>1, <1>4 DEF Releases
  <2> QED BY <2>1, <2>2, <2>3
<1>8. \A w : Has(t, w) => Has(s, w)
  BY <1>3 DEF Has
<1>9. ASSUME Head(s).do = "serve", Has(t, "serve") PROVE FALSE
  <2>1. PICK i \in 1..Len(t) : t[i].do = "serve"
    BY <1>9 DEF Has
  <2>2. 1 \in 1..Len(s) /\ s[1].do = "serve" /\ s[i + 1].do = "serve" /\ i + 1 \in 1..Len(s)
    BY <1>1, <1>3, <1>9, <2>1
  <2>3. i + 1 = 1
    BY <2>2 DEF Program, ServedOnce
  <2> QED BY <2>3
<1> QED BY <1>1, <1>5, <1>6, <1>7, <1>8, <1>9 DEF Program, t

\* What concatenation is.
LEMMA Concatenated ==
    ASSUME NEW S, NEW t \in Seq(S), NEW e \in Seq(S)
    PROVE  /\ Len(t) \in Nat /\ Len(e) \in Nat /\ Len(t \o e) = Len(t) + Len(e)
           /\ t \o e \in Seq(S)
           /\ \A i \in 1..(Len(t) + Len(e)) :
                 (t \o e)[i] = IF i <= Len(t) THEN t[i] ELSE e[i - Len(t)]
OBVIOUS

\* One program put before another: the instructions of the first are done under the locks
\* that the second releases.
LEMMA Joined ==
    ASSUME NEW p, NEW s, NEW t, Program(p, s), Program(p, t), ~Has(t, "serve"),
           \A i \in 1..Len(t), l \in Locks : Releases(s, l) => Rank(l) < Depth(p, t[i])
    PROVE  /\ Program(p, t \o s)
           /\ \A l : Releases(t \o s, l) <=> Releases(t, l) \/ Releases(s, l)
           /\ \A w : Has(t \o s, w) <=> Has(t, w) \/ Has(s, w)
<1> DEFINE u == t \o s
<1>1. u \in Seq(InstructionsOf(p)) /\ Len(u) = Len(t) + Len(s)
      /\ Len(t) \in Nat /\ Len(s) \in Nat
      /\ \A i \in 1..(Len(t) + Len(s)) : u[i] = IF i <= Len(t) THEN t[i] ELSE s[i - Len(t)]
  BY DEF Program
<1> HIDE DEF u
<1>2. \A i \in 1..Len(u) : \/ i \in 1..Len(t) /\ u[i] = t[i]
                           \/ i - Len(t) \in 1..Len(s) /\ u[i] = s[i - Len(t)] /\ i > Len(t)
  BY <1>1
<1>3. /\ \A i \in 1..Len(t) : i \in 1..Len(u) /\ u[i] = t[i]
      /\ \A i \in 1..Len(s) : i + Len(t) \in 1..Len(u) /\ u[i + Len(t)] = s[i]
  BY <1>1
<1>4. Nested(p, u)
  <2> SUFFICES ASSUME NEW i \in 1..Len(u), NEW j \in 1..Len(u), i < j, u[j].do = "unlock"
               PROVE  Rank(u[j].arg) < Depth(p, u[i])
    BY DEF Nested
  <2>1. CASE j \in 1..Len(t)
    <3>1. i \in 1..Len(t) /\ u[i] = t[i] /\ u[j] = t[j]
      BY <1>1, <1>3, <2>1
    <3> QED BY <2>1, <3>1 DEF Program, Nested
  <2>2. CASE j - Len(t) \in 1..Len(s) /\ u[j] = s[j - Len(t)] /\ j > Len(t)
    <3>1. CASE i \in 1..Len(t) /\ u[i] = t[i]
      <4>1. s[j - Len(t)] \in Instructions
        BY <2>2 DEF Program, InstructionsOf
      <4>2. u[j].arg \in Locks
        BY <2>2, <4>1, Arguments, LockNames
      <4>3. Releases(s, u[j].arg)
        BY <2>2 DEF Releases
      <4> QED BY <3>1, <4>2, <4>3
    <3>2. CASE i - Len(t) \in 1..Len(s) /\ u[i] = s[i - Len(t)]
      <4>1. i - Len(t) < j - Len(t)
        BY <1>1
      <4> QED BY <2>2, <3>2, <4>1 DEF Program, Nested
    <3> QED BY <1>2, <3>1, <3>2
  <2> QED BY <1>2, <2>1, <2>2
<1>5. ServedOnce(u)
  <2> SUFFICES ASSUME NEW i \in 1..Len(u), NEW j \in 1..Len(u),
                      u[i].do = "serve", u[j].do = "serve"
               PROVE  i = j
    BY DEF ServedOnce
  <2>1. i - Len(t) \in 1..Len(s) /\ j - Len(t) \in 1..Len(s)
        /\ s[i - Len(t)].do = "serve" /\ s[j - Len(t)].do = "serve"
    BY <1>2 DEF Has
  <2>2. i - Len(t) = j - Len(t)
    BY <2>1 DEF Program, ServedOnce
  <2> QED BY <1>1, <2>2
<1>6. ASSUME NEW l PROVE Releases(u, l) <=> Releases(t, l) \/ Releases(s, l)
  <2>1. Releases(u, l) => Releases(t, l) \/ Releases(s, l)
    BY <1>2 DEF Releases
  <2>2. Releases(t, l) => Releases(u, l)
    BY <1>3 DEF Releases
  <2>3. Releases(s, l) => Releases(u, l)
    BY <1>3 DEF Releases
  <2> QED BY <2>1, <2>2, <2>3
<1>7. ASSUME NEW w PROVE Has(u, w) <=> Has(t, w) \/ Has(s, w)
  <2>1. Has(u, w) => Has(t, w) \/ Has(s, w)
    BY <1>2 DEF Has
  <2>2. Has(t, w) => Has(u, w)
    BY <1>3 DEF Has
  <2>3. Has(s, w) => Has(u, w)
    BY <1>3 DEF Has
  <2> QED BY <2>1, <2>2, <2>3
<1> QED BY <1>1, <1>4, <1>5, <1>6, <1>7 DEF Program, u

\* Instructions without critical sections make a program.
LEMMA PlainProgram ==
    ASSUME NEW p, NEW t \in Seq(InstructionsOf(p)), ~Has(t, "unlock"), ~Has(t, "serve")
    PROVE  Program(p, t) /\ \A l : ~Releases(t, l)
BY DEF Program, Nested, ServedOnce, Releases, Has

\* So do instructions with the release of a lock of a lower rank behind them.
LEMMA Section ==
    ASSUME NEW p, NEW t \in Seq(InstructionsOf(p)), ~Has(t, "unlock"), ~Has(t, "serve"),
           NEW k \in OuterLocks, \A i \in 1..Len(t) : Rank(k) < Depth(p, t[i])
    PROVE  LET u == t \o <<Do("unlock", k)>> IN
           /\ Program(p, u) /\ ~Has(u, "serve")
           /\ \A l : Releases(u, l) <=> l = k
           /\ Len(u) = Len(t) + 1 /\ Len(t) \in Nat
           /\ \A i \in 1..Len(t) : u[i] = t[i]
           /\ u[Len(t) + 1] = Do("unlock", k)
<1> DEFINE e == <<Do("unlock", k)>>
<1>1. Do("unlock", k) \in InstructionsOf(p)
  BY InstructionRecords DEF InstructionsOf
<1>2. e \in Seq(InstructionsOf(p)) /\ Len(e) = 1 /\ e[1] = Do("unlock", k)
  BY <1>1
<1> HIDE DEF e
<1>3. Nested(p, e) /\ ServedOnce(e)
  BY <1>2 DEF Nested, ServedOnce
<1>4. Program(p, e)
  BY <1>2, <1>3 DEF Program
<1>5. \A l : Releases(e, l) <=> l = k
  BY <1>2, InstructionRecords DEF Releases
<1>6. ~Has(e, "serve")
  BY <1>2, InstructionRecords DEF Has
<1>7. Program(p, t) /\ \A l : ~Releases(t, l)
  BY PlainProgram
<1>8. \A i \in 1..Len(t), l \in Locks : Releases(e, l) => Rank(l) < Depth(p, t[i])
  BY <1>5
<1>9. /\ Program(p, t \o e)
      /\ \A l : Releases(t \o e, l) <=> Releases(t, l) \/ Releases(e, l)
      /\ \A w : Has(t \o e, w) <=> Has(t, w) \/ Has(e, w)
  BY <1>4, <1>7, <1>8, Joined
<1>10. /\ Len(t \o e) = Len(t) + 1 /\ Len(t) \in Nat
       /\ \A i \in 1..(Len(t) + 1) : (t \o e)[i] = IF i <= Len(t) THEN t[i] ELSE e[i - Len(t)]
  BY <1>2, Concatenated
<1>11. /\ \A i \in 1..Len(t) : (t \o e)[i] = t[i]
       /\ (t \o e)[Len(t) + 1] = e[1]
  <2>1. Len(t) + 1 \in 1..(Len(t) + 1) /\ ~(Len(t) + 1 <= Len(t)) /\ (Len(t) + 1) - Len(t) = 1
    BY <1>10
  <2>2. (t \o e)[Len(t) + 1] = e[1]
    BY <1>10, <2>1
  <2>3. \A i \in 1..Len(t) : i \in 1..(Len(t) + 1) /\ i <= Len(t)
    BY <1>10
  <2> QED BY <1>10, <2>2, <2>3
<1> QED BY <1>2, <1>5, <1>6, <1>7, <1>9, <1>10, <1>11 DEF e

\* A program without its first two instructions.
LEMMA WithoutTwo ==
    ASSUME NEW p, NEW s, Program(p, s)
    PROVE  LET u == SubSeq(s, 3, Len(s)) IN
           /\ Program(p, u)
           /\ \A l : Releases(u, l) => Releases(s, l)
           /\ \A w : Has(u, w) => Has(s, w)
<1> DEFINE u == SubSeq(s, 3, Len(s))
<1>1. /\ u \in Seq(InstructionsOf(p)) /\ Len(s) \in Nat /\ Len(u) \in Nat
      /\ \A i \in 1..Len(u) : i + 2 \in 1..Len(s) /\ u[i] = s[i + 2]
  BY DEF Program
<1> HIDE DEF u
<1>2. Nested(p, u)
  <2> SUFFICES ASSUME NEW i \in 1..Len(u), NEW j \in 1..Len(u), i < j, u[j].do = "unlock"
               PROVE  Rank(u[j].arg) < Depth(p, u[i])
    BY DEF Nested
  <2>1. i + 2 < j + 2
    OBVIOUS
  <2> QED BY <1>1, <2>1 DEF Program, Nested
<1>3. ServedOnce(u)
  <2> SUFFICES ASSUME NEW i \in 1..Len(u), NEW j \in 1..Len(u),
                      u[i].do = "serve", u[j].do = "serve"
               PROVE  i = j
    BY DEF ServedOnce
  <2>1. i + 2 = j + 2
    BY <1>1 DEF Program, ServedOnce
  <2> QED BY <2>1
<1>4. \A l : Releases(u, l) => Releases(s, l)
  BY <1>1 DEF Releases
<1>5. \A w : Has(u, w) => Has(s, w)
  BY <1>1 DEF Has
<1> QED BY <1>1, <1>2, <1>3, <1>4, <1>5 DEF Program, u

----------------------------------------------------------------------------
(* A step of a goroutine *)

ServingInv == Programs /\ LocksHeld /\ NotStarted /\ TablesTyped /\ ServeTyped

\* The program of one goroutine is replaced.
LEMMA Replaced ==
    ASSUME Programs, NEW p \in Procs, NEW s, todo' = [todo EXCEPT ![p] = s]
    PROVE  /\ todo' = [q \in Procs |-> todo'[q]] /\ todo'[p] = s
           /\ \A q \in Procs \ {p} : todo'[q] = todo[q]
BY DEF Programs

\* The programs of two goroutines are replaced.
LEMMA TwoReplaced ==
    ASSUME Programs, NEW p \in Procs, NEW s, NEW r \in Procs, NEW t, p # r,
           todo' = [todo EXCEPT ![p] = s, ![r] = t]
    PROVE  /\ todo' = [q \in Procs |-> todo'[q]] /\ todo'[p] = s /\ todo'[r] = t
           /\ \A q \in Procs \ {p, r} : todo'[q] = todo[q]
BY DEF Programs

\* What is to be shown of the goroutines whose programs a step replaces, and of the locks.
Fits(p, s, held) ==
    /\ Program(p, s)
    /\ \A l \in Locks : /\ Releases(s, l) => held[l] = p
                        /\ held[l] = p => Releases(s, l) \/ WritesUnder(s, l)

\* A step that replaces the programs of some goroutines keeps the rest.
LEMMA Keeps ==
    ASSUME Programs, LocksHeld, NEW C \in SUBSET Procs,
           todo' = [q \in Procs |-> todo'[q]], \A q \in Procs \ C : todo'[q] = todo[q],
           \A q \in C : Fits(q, todo'[q], holder'),
           holder' \in [Locks -> Procs \cup {Nobody}],
           \A l \in Locks, q \in Procs \ C : holder'[l] = q <=> holder[l] = q
    PROVE  Programs' /\ LocksHeld'
<1>1. \A q \in Procs : Program(q, todo'[q])
  BY DEF Programs, Fits
<1>2. Programs'
  BY <1>1 DEF Programs
<1>3. ASSUME NEW q \in Procs, NEW l \in Locks
      PROVE  /\ Releases(todo'[q], l) => holder'[l] = q
             /\ holder'[l] = q => Releases(todo'[q], l) \/ WritesUnder(todo'[q], l)
  <2>1. CASE q \in C
    BY <2>1 DEF Fits
  <2>2. CASE q \notin C
    <3>1. todo'[q] = todo[q] /\ (holder'[l] = q <=> holder[l] = q)
      BY <2>2
    <3> QED BY <3>1 DEF LocksHeld
  <2> QED BY <2>1, <2>2
<1> QED BY <1>2, <1>3 DEF LocksHeld

\* No connection or event comes back, and no socket stops closing.
NothingNew ==
    /\ coming' \subseteq coming /\ events' \subseteq events /\ closing \subseteq closing'
    /\ coming \subseteq Conns

\* What has not been started is left alone.
LEMMA StartsNothing ==
    ASSUME NotStarted, NothingNew,
           \A q \in Procs : todo[q] = <<>> => todo'[q] = <<>>,
           \A q \in Procs : Has(todo'[q], "serve") => Has(todo[q], "serve")
    PROVE  NotStarted'
<1>1. /\ \A c \in Conns : {handler(c), reader(c), errorSender(c)} \subseteq Procs
      /\ \A e \in {"reload", "delete", "signal"} : ofServer(e) \in Procs
  BY DEF Procs, handler, reader, errorSender, ofServer
<1>2. \A c \in coming' : todo'[handler(c)] = <<>> /\ todo'[reader(c)] = <<>>
  BY <1>1 DEF NotStarted, NothingNew
<1>3. \A c \in Conns : Has(todo'[handler(c)], "serve") => todo'[reader(c)] = <<>>
  BY <1>1 DEF NotStarted, NothingNew
<1>4. \A c \in Conns \ closing' : todo'[errorSender(c)] = <<>>
  BY <1>1 DEF NotStarted, NothingNew
<1>5. \A e \in events' \cap {"reload", "delete", "signal"} : todo'[ofServer(e)] = <<>>
  BY <1>1 DEF NotStarted, NothingNew
<1> QED BY <1>2, <1>3, <1>4, <1>5 DEF NotStarted

\* A step of p alone after which p's program is s.
LEMMA Goes ==
    ASSUME Programs, LocksHeld, NotStarted, NEW p \in Procs, NEW s, todo[p] # <<>>,
           todo' = [todo EXCEPT ![p] = s], Fits(p, s, holder'),
           Has(s, "serve") => Has(todo[p], "serve"),
           holder' \in [Locks -> Procs \cup {Nobody}],
           \A l \in Locks : holder'[l] = holder[l] \/ {holder[l], holder'[l]} \subseteq {p, Nobody},
           NothingNew
    PROVE  Programs' /\ LocksHeld' /\ NotStarted'
<1>1. /\ todo' = [q \in Procs |-> todo'[q]] /\ todo'[p] = s
      /\ \A q \in Procs \ {p} : todo'[q] = todo[q]
  BY Replaced
<1>2. \A l \in Locks, q \in Procs \ {p} : holder'[l] = q <=> holder[l] = q
  BY NobodyAssumption
<1>3. Programs' /\ LocksHeld'
  <2> DEFINE C == {p}
  <2>1. C \in SUBSET Procs /\ \A q \in Procs \ C : todo'[q] = todo[q]
    BY <1>1
  <2>2. \A q \in C : Fits(q, todo'[q], holder')
    BY <1>1
  <2>3. \A l \in Locks, q \in Procs \ C : holder'[l] = q <=> holder[l] = q
    BY <1>2
  <2> HIDE DEF C
  <2> QED BY <1>1, <2>1, <2>2, <2>3, Keeps
<1>4. NotStarted'
  BY <1>1, StartsNothing
<1> QED BY <1>3, <1>4

\* p's instruction, which is none that has a lock to itself, is replaced by others.
LEMMA GoesOn ==
    ASSUME Programs, LocksHeld, NotStarted, NEW p \in Procs, todo[p] # <<>>,
           NEW t \in Seq(InstructionsOf(p)), Then(p, t), UNCHANGED holder,
           Head(todo[p]).do \notin {"unlock", "write"},
           \A i \in 1..Len(t) : /\ t[i].do \notin {"unlock", "serve"}
                                /\ Depth(p, t[i]) >= Depth(p, Head(todo[p])),
           NothingNew
    PROVE  Programs' /\ LocksHeld' /\ NotStarted'
<1> DEFINE s == Tail(todo[p])
<1>1. /\ Program(p, s)
      /\ \A l \in Locks : Releases(s, l) <=> Releases(todo[p], l)
      /\ Has(s, "serve") => Has(todo[p], "serve")
  BY TailProgram DEF Programs
<1>2. /\ Head(todo[p]) \in Instructions
      /\ \A l \in Locks : Releases(s, l) => Rank(l) < Depth(p, Head(todo[p]))
  BY HeadDepth DEF Programs
<1> HIDE DEF s
<1>3. ~Has(t, "unlock") /\ ~Has(t, "serve")
  BY DEF Has
<1>4. Program(p, t) /\ \A l : ~Releases(t, l)
  BY <1>3, PlainProgram
<1>5. \A i \in 1..Len(t), l \in Locks : Releases(s, l) => Rank(l) < Depth(p, t[i])
  <2> SUFFICES ASSUME NEW i \in 1..Len(t), NEW l \in Locks, Releases(s, l)
               PROVE  Rank(l) < Depth(p, t[i])
    OBVIOUS
  <2>1. t[i] \in Instructions
    BY DEF InstructionsOf
  <2>2. Depth(p, t[i]) \in 0..3 /\ Depth(p, Head(todo[p])) \in 0..3
    BY <1>2, <2>1, Depths
  <2> QED BY <1>2, <2>2, Ranks
<1>6. /\ Program(p, t \o s)
      /\ \A l : Releases(t \o s, l) <=> Releases(t, l) \/ Releases(s, l)
      /\ \A w : Has(t \o s, w) <=> Has(t, w) \/ Has(s, w)
  BY <1>1, <1>3, <1>4, <1>5, Joined
<1>7. \A l \in Locks : ~WritesUnder(todo[p], l)
  BY InstructionRecords DEF WritesUnder
<1>8. Fits(p, t \o s, holder')
  <2>1. \A l \in Locks : Releases(t \o s, l) <=> Releases(todo[p], l)
    BY <1>1, <1>4, <1>6
  <2>2. \A l \in Locks : holder[l] = p <=> Releases(todo[p], l)
    BY <1>7 DEF LocksHeld
  <2> QED BY <1>6, <2>1, <2>2 DEF Fits
<1>9. todo' = [todo EXCEPT ![p] = t \o s]
  BY DEF Then, s
<1>10. holder' \in [Locks -> Procs \cup {Nobody}]
  BY DEF LocksHeld
<1> QED BY <1>1, <1>3, <1>6, <1>8, <1>9, <1>10, Goes

\* p's instruction has been done, and nothing comes in its place.
LEMMA GoesBy ==
    ASSUME Programs, LocksHeld, NotStarted, NEW p \in Procs, todo[p] # <<>>,
           Then(p, <<>>), UNCHANGED holder,
           Head(todo[p]).do \notin {"unlock", "write"},
           NothingNew
    PROVE  Programs' /\ LocksHeld' /\ NotStarted'
<1> DEFINE t == << >>
<1>1. t \in Seq(InstructionsOf(p)) /\ 1..Len(t) = {} /\ Then(p, t)
  OBVIOUS
<1> HIDE DEF t
<1> QED BY <1>1, GoesOn

\* p's instruction is replaced by a critical section.
LEMMA GoesUnder ==
    ASSUME Programs, LocksHeld, NotStarted, NEW p \in Procs, todo[p] # <<>>,
           NEW t \in Seq(InstructionsOf(p)), NEW k \in OuterLocks, Holding(p, k, t), Free(k),
           Head(todo[p]).do \notin {"unlock", "write"}, Depth(p, Head(todo[p])) <= Rank(k),
           \A i \in 1..Len(t) : /\ t[i].do \notin {"unlock", "serve"}
                                /\ Rank(k) < Depth(p, t[i]),
           NothingNew
    PROVE  Programs' /\ LocksHeld' /\ NotStarted'
<1>1. CASE t = <<>>
  BY <1>1, GoesBy DEF Holding
<1>2. CASE t # <<>>
  <2> DEFINE s == Tail(todo[p])
             u == t \o <<Do("unlock", k)>>
  <2>1. /\ Program(p, s)
        /\ \A l \in Locks : Releases(s, l) <=> Releases(todo[p], l)
        /\ Has(s, "serve") => Has(todo[p], "serve")
    BY TailProgram DEF Programs
  <2>2. /\ Head(todo[p]) \in Instructions
        /\ \A l \in Locks : Releases(s, l) => Rank(l) < Depth(p, Head(todo[p]))
    BY HeadDepth DEF Programs
  <2>3. ~Has(t, "unlock") /\ ~Has(t, "serve")
    BY DEF Has
  <2>4. /\ Program(p, u) /\ ~Has(u, "serve")
        /\ \A l : Releases(u, l) <=> l = k
        /\ Len(u) = Len(t) + 1 /\ Len(t) \in Nat
        /\ \A i \in 1..Len(t) : u[i] = t[i]
        /\ u[Len(t) + 1] = Do("unlock", k)
    BY <2>3, Section
  <2>5. todo' = [todo EXCEPT ![p] = u \o s] /\ holder' = [holder EXCEPT ![k] = p]
    BY <1>2 DEF Holding, Then
  <2> HIDE DEF s, u
  <2>6. \A i \in 1..Len(u), l \in Locks : Releases(s, l) => Rank(l) < Depth(p, u[i])
    <3> SUFFICES ASSUME NEW i \in 1..Len(u), NEW l \in Locks, Releases(s, l)
                 PROVE  Rank(l) < Depth(p, u[i])
      OBVIOUS
    <3>1. Rank(l) < Rank(k) /\ Rank(l) \in Nat /\ Rank(k) \in Nat
      <4>1. Depth(p, Head(todo[p])) \in 0..3
        BY <2>2, Depths
      <4> QED BY <2>2, <4>1, Ranks, LockNames
    <3>2. CASE i \in 1..Len(t)
      <4>1. t[i] \in Instructions
        BY <3>2 DEF InstructionsOf
      <4>2. Depth(p, t[i]) \in 0..3
        BY <4>1, Depths
      <4> QED BY <2>4, <3>1, <3>2, <4>2
    <3>3. CASE i = Len(t) + 1
      <4>1. Depth(p, u[i]) = Rank(k)
        BY <2>4, <3>3, InstructionRecords, Depths
      <4> QED BY <3>1, <4>1
    <3>4. i \in 1..Len(t) \/ i = Len(t) + 1
      BY <2>4
    <3> QED BY <3>2, <3>3, <3>4
  <2>7. /\ Program(p, u \o s)
        /\ \A l : Releases(u \o s, l) <=> Releases(u, l) \/ Releases(s, l)
        /\ \A w : Has(u \o s, w) <=> Has(u, w) \/ Has(s, w)
    BY <2>1, <2>4, <2>6, Joined
  <2>8. \A l \in Locks : ~WritesUnder(todo[p], l)
    BY InstructionRecords DEF WritesUnder
  <2>9. /\ holder' \in [Locks -> Procs \cup {Nobody}] /\ k \in Locks /\ holder'[k] = p
        /\ \A l \in Locks \ {k} : holder'[l] = holder[l]
        /\ holder[k] = Nobody
    BY <2>5, LockNames DEF LocksHeld, Free
  <2>10. Fits(p, u \o s, holder')
    BY <2>1, <2>4, <2>7, <2>8, <2>9 DEF Fits, LocksHeld
  <2>11. \A l \in Locks : holder'[l] = holder[l] \/ {holder[l], holder'[l]} \subseteq {p, Nobody}
    BY <2>9
  <2> QED BY <2>1, <2>4, <2>5, <2>7, <2>9, <2>10, <2>11, Goes
<1> QED BY <1>1, <1>2

----------------------------------------------------------------------------
(* The parts of the steps *)

\* The goroutines.
LEMMA ProcNames ==
    /\ \A c \in Conns : {handler(c), reader(c), pinger(c), errorSender(c)} \subseteq Procs
    /\ \A e \in {"main", "http", "serve", "signal", "reload", "delete"} : ofServer(e) \in Procs
    /\ \A c : /\ handler(c)[1] = "handler" /\ reader(c)[1] = "reader" /\ pinger(c)[1] = "pinger"
              /\ errorSender(c)[1] = "errorSender"
    /\ \A e : ofServer(e)[1] = e
    /\ \A c, d : /\ handler(c) = handler(d) => c = d
                 /\ reader(c) = reader(d) => c = d
                 /\ errorSender(c) = errorSender(d) => c = d
BY DEF Procs, handler, reader, pinger, errorSender, ofServer

\* The instruction p is at.
LEMMA AtHead ==
    ASSUME Programs, NEW p \in Procs, NEW w, At(p, w)
    PROVE  /\ todo[p] # <<>> /\ Program(p, todo[p]) /\ exit = "running"
           /\ Head(todo[p]) \in InstructionsOf(p) /\ Head(todo[p]) \in Instructions
           /\ Head(todo[p]).do = w /\ Head(todo[p]).arg = Arg(p)
           /\ Head(todo[p]) = Do(w, Arg(p))
<1>1. todo[p] # <<>> /\ Program(p, todo[p]) /\ Head(todo[p]).do = w /\ exit = "running"
  BY DEF At, Programs
<1>2. Head(todo[p]) \in InstructionsOf(p) /\ Head(todo[p]) \in Instructions
  BY <1>1, HeadDepth
<1> QED BY <1>1, <1>2, Arguments DEF Arg

\* Instructions any goroutine may have.
LEMMA Common ==
    ASSUME NEW p
    PROVE  /\ \A w \in ConnSteps \ {"serve", "readPeer"}, c \in Conns :
                 Do(w, c) \in InstructionsOf(p)
           /\ \A w \in {"accept", "awaitError", "closeAll", "return"} :
                 Do(w, "server") \in InstructionsOf(p)
           /\ \A x \in {"mainIface", "http"} : Do("closeOther", x) \in InstructionsOf(p)
           /\ \A x \in {"clean", "panic"} : Do("exit", x) \in InstructionsOf(p)
           /\ \A x \in Errors : /\ Do("testError", x) \in InstructionsOf(p)
                                /\ Do("setError", x) \in InstructionsOf(p)
           /\ p[1] # "handler" => /\ Do("readIface", "server") \in InstructionsOf(p)
                                  /\ Do("setMTU", "server") \in InstructionsOf(p)
                                  /\ \A c \in Conns : Do("readPeer", c) \in InstructionsOf(p)
           /\ \A c \in Conns : p = handler(c) => Do("serve", c) \in InstructionsOf(p)
BY InstructionRecords, ProcNames DEF InstructionsOf, ConnSteps, ServerSteps

\* One instruction as a sequence.
LEMMA One ==
    ASSUME NEW p, NEW i \in InstructionsOf(p)
    PROVE  /\ <<i>> \in Seq(InstructionsOf(p)) /\ Len(<<i>>) = 1 /\ <<i>> # <<>>
           /\ \A n \in 1..Len(<<i>>) : <<i>>[n] = i
OBVIOUS

\* No instruction as a sequence.
LEMMA None ==
    ASSUME NEW S
    PROVE  << >> \in Seq(S) /\ 1..Len(<< >>) = {}
OBVIOUS

\* An instruction of a connection, or none.
LEMMA AtMostOne ==
    ASSUME NEW p, NEW w \in ConnSteps \ {"serve", "readPeer"}, NEW c \in Conns,
           NEW t, t = << >> \/ t = <<Do(w, c)>>
    PROVE  /\ t \in Seq(InstructionsOf(p))
           /\ \A i \in 1..Len(t) : t[i] = Do(w, c) /\ t[i] \in Instructions /\ t[i].do = w
<1>1. /\ Do(w, c) \in InstructionsOf(p) /\ Do(w, c) \in Instructions
      /\ Do(w, c).do = w
  BY Common, InstructionRecords DEF InstructionsOf
<1>2. CASE t = << >>
  BY <1>2, None
<1>3. CASE t = <<Do(w, c)>>
  <2> DEFINE i == Do(w, c)
  <2>1. i \in InstructionsOf(p) /\ i \in Instructions /\ i.do = w /\ t = <<i>>
    BY <1>1, <1>3
  <2> HIDE DEF i
  <2>2. t \in Seq(InstructionsOf(p)) /\ \A n \in 1..Len(t) : t[n] = i
    BY <2>1, One
  <2> QED BY <2>1, <2>2 DEF i
<1> QED BY <1>2, <1>3

\* A set of connections in some order.
LEMMA InSomeOrder ==
    ASSUME NEW S \in SUBSET Conns
    PROVE  SetToSeq(S) \in Seq(S)
<1>1. IsFiniteSet(S)
  BY ConnsAssumption, FS_Subset
<1>2. Cardinality(S) \in Nat /\ ExistsBijection(1..Cardinality(S), S)
  BY <1>1, FS_CardinalityType
<1>3. PICK f \in Bijection(1..Cardinality(S), S) : TRUE
  BY <1>2 DEF ExistsBijection
<1>4. f \in [1..Cardinality(S) -> S] /\ IsInjective(f)
  BY <1>3 DEF Bijection, Injection, Surjection, IsInjective
<1>5. SetToSeq(S) \in [1..Cardinality(S) -> S]
  BY <1>4 DEF SetToSeq
<1> QED BY <1>2, <1>5

\* Packets to some connections.
LEMMA Writes ==
    ASSUME NEW p, NEW S \in SUBSET Conns
    PROVE  /\ HandlePacket(S) \in Seq(InstructionsOf(p))
           /\ \A i \in 1..Len(HandlePacket(S)) :
                 HandlePacket(S)[i] \in Instructions /\ HandlePacket(S)[i].do = "write"
<1> DEFINE list == SetToSeq(S)
           t == [i \in DOMAIN list |-> Do("write", list[i])]
<1>1. list \in Seq(S) /\ Len(list) \in Nat /\ DOMAIN list = 1..Len(list)
  BY InSomeOrder
<1>2. \A i \in 1..Len(list) : list[i] \in Conns
  BY <1>1
<1> HIDE DEF list
<1>3. \A i \in 1..Len(list) : Do("write", list[i]) \in InstructionsOf(p)
  BY <1>2, Common DEF ConnSteps
<1>4. t \in Seq(InstructionsOf(p)) /\ Len(t) = Len(list)
  BY <1>1, <1>3
<1>5. \A i \in 1..Len(t) : t[i] = Do("write", list[i]) /\ t[i] \in Instructions
  BY <1>1, <1>3, <1>4 DEF InstructionsOf
<1> QED BY <1>4, <1>5, InstructionRecords DEF HandlePacket, list

\* The closers, as closeAll calls them.
LEMMA Closings ==
    ASSUME TablesTyped, NEW p
    PROVE  LET t == [i \in DOMAIN closers |->
                        Do(IF closers[i] \in Conns THEN "closeAdapter" ELSE "closeOther",
                           closers[i])]
           IN  /\ t \in Seq(InstructionsOf(p))
               /\ \A i \in 1..Len(t) : /\ t[i] \in Instructions
                                       /\ t[i].do \in {"closeAdapter", "closeOther"}
<1> DEFINE t == [i \in DOMAIN closers |->
                    Do(IF closers[i] \in Conns THEN "closeAdapter" ELSE "closeOther", closers[i])]
<1>1. /\ Len(closers) \in Nat /\ DOMAIN closers = 1..Len(closers)
      /\ \A i \in 1..Len(closers) : closers[i] \in Conns \cup {"mainIface", "http"}
  BY DEF TablesTyped
<1>2. \A i \in 1..Len(closers) :
         Do(IF closers[i] \in Conns THEN "closeAdapter" ELSE "closeOther", closers[i])
             \in InstructionsOf(p)
  BY <1>1, Common DEF ConnSteps
<1>3. t \in Seq(InstructionsOf(p)) /\ Len(t) = Len(closers)
  BY <1>1, <1>2
<1>4. \A i \in 1..Len(t) :
         /\ t[i] = Do(IF closers[i] \in Conns THEN "closeAdapter" ELSE "closeOther", closers[i])
         /\ t[i] \in Instructions
  BY <1>1, <1>2, <1>3 DEF InstructionsOf
<1> HIDE DEF t
<1>5. \A i \in 1..Len(t) : t[i].do \in {"closeAdapter", "closeOther"}
  BY <1>4, InstructionRecords
<1> QED BY <1>3, <1>4, <1>5 DEF t

\* Some natural numbers have a least one.
LEMMA SmallestOf ==
    ASSUME NEW T \in SUBSET Nat, T # {}
    PROVE  \E m \in T : \A n \in T : m <= n
<1> DEFINE R == OpToRel(<, Nat)
<1>1. IsWellFoundedOn(R, Nat)
  BY NatLessThanWellFounded
<1>2. \E x \in T : \A y \in T : ~(<<y, x>> \in R)
  <2> HIDE DEF R
  <2> QED BY <1>1, WFMin
<1>3. \A x, y \in Nat : <<y, x>> \in R <=> y < x
  BY DEF OpToRel
<1> HIDE DEF R
<1>4. PICK x \in T : \A y \in T : ~(<<y, x>> \in R)
  BY <1>2
<1>5. \A y \in T : ~(y < x) /\ y \in Nat /\ x \in Nat
  BY <1>3, <1>4
<1>6. \A y \in T : x <= y
  BY <1>5
<1> QED BY <1>6

\* The list of the user's connections without one of them.
LEMMA StillConns ==
    ASSUME NEW S, NEW list \in Seq(S), NEW c
    PROVE  RemoveFirst(list, c) \in Seq(S)
<1>1. CASE ~\E i \in 1..Len(list) : list[i] = c
  BY <1>1 DEF RemoveFirst
<1>2. CASE \E i \in 1..Len(list) : list[i] = c
  <2> DEFINE k == SelectInSeq(list, LAMBDA v : v = c)
             a == SubSeq(list, 1, k - 1)
             b == SubSeq(list, k + 1, Len(list))
             I == {i \in 1..Len(list) : list[i] = c}
  <2>1. k = Min(I)
    BY <1>2 DEF SelectInSeq
  <2>2. I # {} /\ I \subseteq Nat
    BY <1>2
  <2>3. Min(I) \in I
    <3> HIDE DEF I
    <3>1. \E m \in I : \A n \in I : m <= n
      BY <2>2, SmallestOf
    <3> QED BY <3>1 DEF Min
  <2>4. k \in 1..Len(list)
    BY <2>1, <2>3
  <2> HIDE DEF k
  <2>5. a \in Seq(S) /\ b \in Seq(S)
    BY <2>4
  <2> HIDE DEF a, b
  <2>6. a \o b \in Seq(S)
    BY <2>5
  <2> QED BY <1>2, <2>6 DEF RemoveFirst, RemoveAt, k, a, b
<1> QED BY <1>1, <1>2

\* Where p may do anything, it is going to release nothing.
LEMMA Bare ==
    ASSUME NEW p, NEW s, Program(p, s), s # <<>>, Depth(p, Head(s)) = 0
    PROVE  \A l \in Locks : ~Releases(s, l)
<1>1. Head(s) \in Instructions /\ \A l \in Locks : Releases(Tail(s), l) => Rank(l) < 0
  BY HeadDepth
<1>2. Head(s).do # "unlock"
  BY <1>1, Depths, Arguments, Ranks
<1>3. \A l \in Locks : ~Releases(Tail(s), l)
  BY <1>1, Ranks
<1> QED BY <1>2, <1>3, TailProgram

\* Only these locks are given back with an "unlock".
LEMMA ReleasedLocks ==
    ASSUME NEW p, NEW s, Program(p, s), NEW l, Releases(s, l)
    PROVE  l \in OuterLocks
<1>1. PICK i \in 1..Len(s) : s[i].do = "unlock" /\ s[i].arg = l
  BY DEF Releases
<1>2. s[i] \in Instructions
  BY <1>1 DEF Program, InstructionsOf
<1> QED BY <1>1, <1>2, Arguments

----------------------------------------------------------------------------
(* Other kinds of steps *)

\* A goroutine that has no lock, and is at no write, gets another program.
LEMMA GoesFreely ==
    ASSUME Programs, LocksHeld, NotStarted, NEW p \in Procs, NEW s, todo[p] # <<>>,
           todo' = [todo EXCEPT ![p] = s], UNCHANGED holder, Program(p, s),
           Depth(p, Head(todo[p])) = 0, Head(todo[p]).do # "write",
           \A l \in Locks : ~Releases(s, l),
           Has(s, "serve") => Has(todo[p], "serve"),
           NothingNew
    PROVE  Programs' /\ LocksHeld' /\ NotStarted'
<1>1. \A l \in Locks : ~Releases(todo[p], l)
  BY Bare DEF Programs
<1>2. \A l \in Locks : ~WritesUnder(todo[p], l)
  BY InstructionRecords DEF WritesUnder
<1>3. \A l \in Locks : holder'[l] # p
  BY <1>1, <1>2 DEF LocksHeld
<1>4. Fits(p, s, holder')
  BY <1>3 DEF Fits
<1>5. holder' \in [Locks -> Procs \cup {Nobody}] /\ \A l \in Locks : holder'[l] = holder[l]
  BY DEF LocksHeld
<1> QED BY <1>4, <1>5, Goes

\* A goroutine is started that has nothing to do with locks yet.
LEMMA Started ==
    ASSUME Programs, LocksHeld, NEW r \in Procs, todo[r] = <<>>, NEW t, Program(r, t),
           \A l \in Locks : ~Releases(t, l), UNCHANGED holder
    PROVE  Fits(r, t, holder')
<1>1. \A l \in Locks : ~Releases(todo[r], l) /\ ~WritesUnder(todo[r], l)
  BY DEF Releases, WritesUnder
<1>2. \A l \in Locks : holder'[l] # r
  BY <1>1 DEF LocksHeld
<1> QED BY <1>2 DEF Fits

\* It is started, and the others go on as before.
LEMMA Starts ==
    ASSUME Programs, LocksHeld, NEW r \in Procs, todo[r] = <<>>, NEW t, Program(r, t),
           \A l \in Locks : ~Releases(t, l), UNCHANGED holder,
           todo' = [todo EXCEPT ![r] = t]
    PROVE  /\ Programs' /\ LocksHeld' /\ todo'[r] = t
           /\ \A q \in Procs \ {r} : todo'[q] = todo[q]
<1> DEFINE C == {r}
<1>1. /\ todo' = [q \in Procs |-> todo'[q]] /\ todo'[r] = t
      /\ \A q \in Procs \ C : todo'[q] = todo[q]
  BY Replaced
<1>2. Fits(r, t, holder')
  BY Started
<1>3. C \in SUBSET Procs /\ \A q \in C : Fits(q, todo'[q], holder')
  BY <1>1, <1>2
<1>4. /\ holder' \in [Locks -> Procs \cup {Nobody}]
      /\ \A l \in Locks, q \in Procs \ C : holder'[l] = q <=> holder[l] = q
  BY DEF LocksHeld
<1> HIDE DEF C
<1>5. Programs' /\ LocksHeld'
  BY <1>1, <1>3, <1>4, Keeps
<1> QED BY <1>1, <1>5 DEF C

\* p's instruction starts another goroutine.
LEMMA GoesAndStarts ==
    ASSUME Programs, LocksHeld, NEW p \in Procs, todo[p] # <<>>,
           NEW r \in Procs, todo[r] = <<>>, NEW t, Program(r, t),
           \A l \in Locks : ~Releases(t, l), UNCHANGED holder,
           Head(todo[p]).do \notin {"unlock", "write"},
           todo' = [todo EXCEPT ![p] = Tail(todo[p]), ![r] = t]
    PROVE  /\ Programs' /\ LocksHeld' /\ todo'[r] = t /\ todo'[p] = Tail(todo[p])
           /\ \A q \in Procs \ {p, r} : todo'[q] = todo[q]
<1> DEFINE C == {p, r}
           s == Tail(todo[p])
<1>1. /\ Program(p, s)
      /\ \A l \in Locks : Releases(s, l) <=> Releases(todo[p], l)
  BY TailProgram DEF Programs
<1> HIDE DEF s
<1>2. /\ todo' = [q \in Procs |-> todo'[q]] /\ todo'[r] = t /\ todo'[p] = s
      /\ \A q \in Procs \ C : todo'[q] = todo[q]
  BY TwoReplaced DEF s
<1>3. Fits(r, t, holder')
  BY Started
<1>4. Fits(p, s, holder')
  <2>1. \A l \in Locks : ~WritesUnder(todo[p], l)
    BY InstructionRecords DEF WritesUnder
  <2>2. \A l \in Locks : holder[l] = p <=> Releases(todo[p], l)
    BY <2>1 DEF LocksHeld
  <2> QED BY <1>1, <2>2 DEF Fits
<1>5. C \in SUBSET Procs /\ \A q \in C : Fits(q, todo'[q], holder')
  BY <1>2, <1>3, <1>4
<1>6. /\ holder' \in [Locks -> Procs \cup {Nobody}]
      /\ \A l \in Locks, q \in Procs \ C : holder'[l] = q <=> holder[l] = q
  BY DEF LocksHeld
<1> HIDE DEF C
<1>7. Programs' /\ LocksHeld'
  BY <1>2, <1>5, <1>6, Keeps
<1> QED BY <1>2, <1>7 DEF C, s

\* Nobody has anything to do.
LEMMA NothingToDo ==
    ASSUME todo' = [p \in Procs |-> <<>>], holder' = [l \in Locks |-> Nobody],
           coming' \subseteq Conns
    PROVE  Programs' /\ LocksHeld' /\ NotStarted'
<1>1. \A p : Program(p, << >>) /\ \A l : ~Releases(<< >>, l)
  BY DEF Program, Nested, ServedOnce, Releases
<1>2. Programs'
  BY <1>1 DEF Programs
<1>3. LocksHeld'
  BY <1>1, NobodyAssumption DEF LocksHeld
<1>4. \A c \in Conns : ~Has(<< >>, "serve")
  BY DEF Has
<1>5. NotStarted'
  BY <1>4, ProcNames DEF NotStarted
<1> QED BY <1>2, <1>3, <1>5

\* Every goroutine stays where it is.
LEMMA NobodyMoves ==
    ASSUME Programs, LocksHeld, NotStarted, UNCHANGED <<todo, holder>>,
           NothingNew
    PROVE  Programs' /\ LocksHeld' /\ NotStarted'
<1>1. Programs'
  BY DEF Programs
<1>2. LocksHeld'
  BY DEF LocksHeld
<1>3. NotStarted'
  BY StartsNothing
<1> QED BY <1>1, <1>2, <1>3

----------------------------------------------------------------------------
(* The steps of the goroutines *)

\* The loop of the main interface ends.
LEMMA ReadIfaceFailsKeeps ==
    ASSUME ServingInv, NEW p \in Procs, ReadIfaceFails(p)
    PROVE  ServingInv'
<1>1. At(p, "readIface") /\ Then(p, <<>>) /\ UNCHANGED holder
  BY DEF ReadIfaceFails
<1>2. /\ todo[p] # <<>> /\ Head(todo[p]) \in Instructions
      /\ Head(todo[p]).do = "readIface" /\ Head(todo[p]).arg = Arg(p)
  BY <1>1, AtHead DEF ServingInv
<1>3. NothingNew
  BY DEF NothingNew, ServingInv, ServeTyped, bounds, connVars, ReadIfaceFails
<1>4. Programs' /\ LocksHeld' /\ NotStarted'
  BY <1>1, <1>2, <1>3, GoesBy DEF ServingInv
<1>5. TablesTyped'
  BY <1>1, <1>2, Arguments
     DEF ServingInv, TablesTyped, ConnSteps, tableVars, connVars, ReadIfaceFails
<1>6. ServeTyped'
  BY <1>1 DEF ServingInv, ServeTyped, serveVars, bounds, ReadIfaceFails
<1> QED BY <1>4, <1>5, <1>6 DEF ServingInv

\* The listener ends.
LEMMA AcceptFailsKeeps ==
    ASSUME ServingInv, NEW p \in Procs, AcceptFails(p)
    PROVE  ServingInv'
<1>1. At(p, "accept") /\ Then(p, <<>>) /\ UNCHANGED holder
  BY DEF AcceptFails
<1>2. /\ todo[p] # <<>> /\ Head(todo[p]) \in Instructions
      /\ Head(todo[p]).do = "accept" /\ Head(todo[p]).arg = Arg(p)
  BY <1>1, AtHead DEF ServingInv
<1>3. NothingNew
  BY DEF NothingNew, ServingInv, ServeTyped, bounds, connVars, AcceptFails
<1>4. Programs' /\ LocksHeld' /\ NotStarted'
  BY <1>1, <1>2, <1>3, GoesBy DEF ServingInv
<1>5. TablesTyped'
  BY <1>1, <1>2, Arguments DEF ServingInv, TablesTyped, ConnSteps, tableVars, connVars, AcceptFails
<1>6. ServeTyped'
  BY <1>1 DEF ServingInv, ServeTyped, serveVars, bounds, AcceptFails
<1> QED BY <1>4, <1>5, <1>6 DEF ServingInv

\* Serve goes on.
LEMMA AwaitErrorKeeps ==
    ASSUME ServingInv, NEW p \in Procs, AwaitError(p)
    PROVE  ServingInv'
<1>1. At(p, "awaitError") /\ Then(p, <<>>) /\ UNCHANGED holder
  BY DEF AwaitError
<1>2. /\ todo[p] # <<>> /\ Head(todo[p]) \in Instructions
      /\ Head(todo[p]).do = "awaitError" /\ Head(todo[p]).arg = Arg(p)
  BY <1>1, AtHead DEF ServingInv
<1>3. NothingNew
  BY DEF NothingNew, ServingInv, ServeTyped, bounds, connVars, AwaitError
<1>4. Programs' /\ LocksHeld' /\ NotStarted'
  BY <1>1, <1>2, <1>3, GoesBy DEF ServingInv
<1>5. TablesTyped'
  BY <1>1, <1>2, Arguments DEF ServingInv, TablesTyped, ConnSteps, tableVars, connVars, AwaitError
<1>6. ServeTyped'
  BY <1>1 DEF ServingInv, ServeTyped, serveVars, bounds, AwaitError
<1> QED BY <1>4, <1>5, <1>6 DEF ServingInv

\* The handler goes on.
LEMMA WaitReturnsKeeps ==
    ASSUME ServingInv, NEW p \in Procs, WaitReturns(p)
    PROVE  ServingInv'
<1>1. At(p, "wait") /\ Then(p, <<>>) /\ UNCHANGED holder
  BY DEF WaitReturns
<1>2. /\ todo[p] # <<>> /\ Head(todo[p]) \in Instructions
      /\ Head(todo[p]).do = "wait" /\ Head(todo[p]).arg = Arg(p)
  BY <1>1, AtHead DEF ServingInv
<1>3. NothingNew
  BY DEF NothingNew, ServingInv, ServeTyped, bounds, connVars, WaitReturns
<1>4. Programs' /\ LocksHeld' /\ NotStarted'
  BY <1>1, <1>2, <1>3, GoesBy DEF ServingInv
<1>5. TablesTyped'
  BY <1>1, <1>2, Arguments DEF ServingInv, TablesTyped, ConnSteps, tableVars, connVars, WaitReturns
<1>6. ServeTyped'
  BY <1>1 DEF ServingInv, ServeTyped, serveVars, bounds, WaitReturns
<1> QED BY <1>4, <1>5, <1>6 DEF ServingInv

\* An adapter is closed.
LEMMA CloseAdapterKeeps ==
    ASSUME ServingInv, NEW p \in Procs, CloseAdapter(p)
    PROVE  ServingInv'
<1>1. At(p, "closeAdapter") /\ Then(p, <<>>) /\ UNCHANGED holder
  BY DEF CloseAdapter
<1>2. /\ todo[p] # <<>> /\ Head(todo[p]) \in Instructions
      /\ Head(todo[p]).do = "closeAdapter" /\ Head(todo[p]).arg = Arg(p)
  BY <1>1, AtHead DEF ServingInv
<1>3. NothingNew
  BY DEF NothingNew, ServingInv, ServeTyped, bounds, connVars, CloseAdapter
<1>4. Programs' /\ LocksHeld' /\ NotStarted'
  BY <1>1, <1>2, <1>3, GoesBy DEF ServingInv
<1>5. TablesTyped'
  BY <1>1, <1>2, Arguments DEF ServingInv, TablesTyped, ConnSteps, tableVars, connVars, CloseAdapter
<1>6. ServeTyped'
  BY <1>1 DEF ServingInv, ServeTyped, serveVars, bounds, CloseAdapter
<1> QED BY <1>4, <1>5, <1>6 DEF ServingInv

\* The interface or the listener is closed.
LEMMA CloseOtherKeeps ==
    ASSUME ServingInv, NEW p \in Procs, CloseOther(p)
    PROVE  ServingInv'
<1>1. At(p, "closeOther") /\ Then(p, <<>>) /\ UNCHANGED holder
  BY DEF CloseOther
<1>2. /\ todo[p] # <<>> /\ Head(todo[p]) \in Instructions
      /\ Head(todo[p]).do = "closeOther" /\ Head(todo[p]).arg = Arg(p)
  BY <1>1, AtHead DEF ServingInv
<1>3. NothingNew
  BY DEF NothingNew, ServingInv, ServeTyped, bounds, connVars, CloseOther
<1>4. Programs' /\ LocksHeld' /\ NotStarted'
  BY <1>1, <1>2, <1>3, GoesBy DEF ServingInv
<1>5. TablesTyped'
  BY ConnsAssumption, <1>1, <1>2, Arguments
     DEF ServingInv, TablesTyped, ConnSteps, tableVars, connVars, CloseOther
<1>6. ServeTyped'
  BY <1>1 DEF ServingInv, ServeTyped, serveVars, bounds, CloseOther
<1> QED BY <1>4, <1>5, <1>6 DEF ServingInv

\* The closers get one more.
LEMMA AddCloserKeeps ==
    ASSUME ServingInv, NEW p \in Procs, AddCloser(p)
    PROVE  ServingInv'
<1>1. At(p, "addCloser") /\ Then(p, <<>>) /\ UNCHANGED holder
  BY DEF AddCloser
<1>2. /\ todo[p] # <<>> /\ Head(todo[p]) \in Instructions
      /\ Head(todo[p]).do = "addCloser" /\ Head(todo[p]).arg = Arg(p)
  BY <1>1, AtHead DEF ServingInv
<1>3. NothingNew
  BY DEF NothingNew, ServingInv, ServeTyped, bounds, connVars, AddCloser
<1>4. Programs' /\ LocksHeld' /\ NotStarted'
  BY <1>1, <1>2, <1>3, GoesBy DEF ServingInv
<1>5. TablesTyped'
  BY <1>1, <1>2, Arguments DEF ServingInv, TablesTyped, ConnSteps, tableVars, connVars, AddCloser
<1>6. ServeTyped'
  BY <1>1 DEF ServingInv, ServeTyped, serveVars, bounds, AddCloser
<1> QED BY <1>4, <1>5, <1>6 DEF ServingInv

\* A connection is taken off the list.
LEMMA UnlistKeeps ==
    ASSUME ServingInv, NEW p \in Procs, Unlist(p)
    PROVE  ServingInv'
<1>1. At(p, "unlist") /\ Then(p, <<>>) /\ UNCHANGED holder
  BY DEF Unlist
<1>2. /\ todo[p] # <<>> /\ Head(todo[p]) \in Instructions
      /\ Head(todo[p]).do = "unlist" /\ Head(todo[p]).arg = Arg(p)
  BY <1>1, AtHead DEF ServingInv
<1>3. NothingNew
  BY DEF NothingNew, ServingInv, ServeTyped, bounds, connVars, Unlist
<1>4. Programs' /\ LocksHeld' /\ NotStarted'
  BY <1>1, <1>2, <1>3, GoesBy DEF ServingInv
<1>5. TablesTyped'
  BY StillConns, <1>1, <1>2, Arguments
     DEF ServingInv, TablesTyped, ConnSteps, tableVars, connVars, Unlist
<1>6. ServeTyped'
  BY <1>1 DEF ServingInv, ServeTyped, serveVars, bounds, Unlist
<1> QED BY <1>4, <1>5, <1>6 DEF ServingInv

\* The reader of a connection ends.
LEMMA ReadPeerFailsKeeps ==
    ASSUME ServingInv, NEW p \in Procs, ReadPeerFails(p)
    PROVE  ServingInv'
<1>1. At(p, "readPeer")
  BY DEF ReadPeerFails
<1>2. /\ todo[p] # <<>> /\ Head(todo[p]) \in Instructions
      /\ Head(todo[p]).do = "readPeer" /\ Head(todo[p]).arg = Arg(p)
  BY <1>1, AtHead DEF ServingInv
<1>3. NothingNew
  BY DEF NothingNew, ServingInv, ServeTyped, bounds, connVars, ReadPeerFails
<1>4. Arg(p) \in Conns
  BY <1>2, Arguments DEF ConnSteps
<1> DEFINE t == IF Arg(p) \in closing THEN << >> ELSE <<Do("close", Arg(p))>>
<1>5. /\ t \in Seq(InstructionsOf(p))
      /\ \A i \in 1..Len(t) : t[i] = Do("close", Arg(p)) /\ t[i] \in Instructions
  <2>1. "close" \in ConnSteps \ {"serve", "readPeer"}
    BY DEF ConnSteps
  <2>2. t = << >> \/ t = <<Do("close", Arg(p))>>
    OBVIOUS
  <2> HIDE DEF t
  <2> QED BY <1>4, <2>1, <2>2, AtMostOne
<1>6. Then(p, t) /\ UNCHANGED holder
  BY DEF ReadPeerFails, closeDone
<1> HIDE DEF t
<1>7. Programs' /\ LocksHeld' /\ NotStarted'
  <2>1. Depth(p, Head(todo[p])) = 0
    BY <1>2, Depths
  <2>2. \A i \in 1..Len(t) : /\ t[i].do \notin {"unlock", "serve"}
                             /\ Depth(p, t[i]) >= Depth(p, Head(todo[p]))
    BY <1>5, <2>1, Depths, InstructionRecords
  <2> QED BY <1>2, <1>3, <1>5, <1>6, <2>2, GoesOn DEF ServingInv
<1>8. TablesTyped'
  BY <1>1, <1>2, Arguments
     DEF ServingInv, TablesTyped, ConnSteps, tableVars, connVars, ReadPeerFails
<1>9. ServeTyped'
  BY <1>1 DEF ServingInv, ServeTyped, serveVars, bounds, ReadPeerFails
<1> QED BY <1>7, <1>8, <1>9 DEF ServingInv

\* A DELETE has found its connection.
LEMMA LookUpKeeps ==
    ASSUME ServingInv, NEW p \in Procs, LookUp(p)
    PROVE  ServingInv'
<1>1. At(p, "lookUp")
  BY DEF LookUp
<1>2. /\ todo[p] # <<>> /\ Head(todo[p]) \in Instructions
      /\ Head(todo[p]).do = "lookUp" /\ Head(todo[p]).arg = Arg(p)
  BY <1>1, AtHead DEF ServingInv
<1>3. NothingNew
  BY DEF NothingNew, ServingInv, ServeTyped, bounds, connVars, LookUp
<1>4. Arg(p) \in Conns
  BY <1>2, Arguments DEF ConnSteps
<1> DEFINE t == IF Arg(p) \in sockets THEN <<Do("close", Arg(p))>> ELSE << >>
<1>5. /\ t \in Seq(InstructionsOf(p))
      /\ \A i \in 1..Len(t) : t[i] = Do("close", Arg(p)) /\ t[i] \in Instructions
  <2>1. "close" \in ConnSteps \ {"serve", "readPeer"}
    BY DEF ConnSteps
  <2>2. t = << >> \/ t = <<Do("close", Arg(p))>>
    OBVIOUS
  <2> HIDE DEF t
  <2> QED BY <1>4, <2>1, <2>2, AtMostOne
<1>6. Then(p, t) /\ UNCHANGED holder
  BY DEF LookUp
<1> HIDE DEF t
<1>7. Programs' /\ LocksHeld' /\ NotStarted'
  <2>1. Depth(p, Head(todo[p])) = 1
    BY <1>2, Depths
  <2>2. \A i \in 1..Len(t) : /\ t[i].do \notin {"unlock", "serve"}
                             /\ Depth(p, t[i]) >= Depth(p, Head(todo[p]))
    BY <1>5, <2>1, Depths, InstructionRecords
  <2> QED BY <1>2, <1>3, <1>5, <1>6, <2>2, GoesOn DEF ServingInv
<1>8. TablesTyped'
  BY <1>1, <1>2, Arguments DEF ServingInv, TablesTyped, ConnSteps, tableVars, connVars, LookUp
<1>9. ServeTyped'
  BY <1>1 DEF ServingInv, ServeTyped, serveVars, bounds, LookUp
<1> QED BY <1>7, <1>8, <1>9 DEF ServingInv

\* Serve returns to Main.
LEMMA ReturnKeeps ==
    ASSUME ServingInv, NEW p \in Procs, Return(p)
    PROVE  ServingInv'
<1>1. At(p, "return")
  BY DEF Return
<1>2. /\ todo[p] # <<>> /\ Head(todo[p]) \in Instructions
      /\ Head(todo[p]).do = "return" /\ Head(todo[p]).arg = Arg(p)
  BY <1>1, AtHead DEF ServingInv
<1>3. NothingNew
  BY DEF NothingNew, ServingInv, ServeTyped, bounds, connVars, Return
<1> DEFINE i1 == Do("closeAll", "server")
           i2 == Do("exit", IF serveError = "none" THEN "clean" ELSE "panic")
           t == <<i1, i2>>
<1>4. i1 \in InstructionsOf(p) /\ i2 \in InstructionsOf(p) /\ i1.do = "closeAll" /\ i2.do = "exit"
  BY Common, InstructionRecords
<1>5. Then(p, t) /\ UNCHANGED holder
  BY DEF Return
<1> HIDE DEF i1, i2
<1>6. t \in Seq(InstructionsOf(p)) /\ \A i \in 1..Len(t) : t[i] \in {i1, i2}
  BY <1>4
<1> HIDE DEF t
<1>7. Programs' /\ LocksHeld' /\ NotStarted'
  <2>1. Depth(p, Head(todo[p])) = 0
    BY <1>2, Depths
  <2>2. Depth(p, i1) = 1 /\ Depth(p, i2) = 0
    BY <1>4, Depths DEF InstructionsOf
  <2>3. \A i \in 1..Len(t) : /\ t[i].do \notin {"unlock", "serve"}
                             /\ Depth(p, t[i]) >= Depth(p, Head(todo[p]))
    BY <1>4, <1>6, <2>1, <2>2
  <2> QED BY <1>2, <1>3, <1>5, <1>6, <2>3, GoesOn DEF ServingInv
<1>8. TablesTyped'
  BY <1>1, <1>2, Arguments DEF ServingInv, TablesTyped, ConnSteps, tableVars, connVars, Return
<1>9. ServeTyped'
  BY <1>1 DEF ServingInv, ServeTyped, serveVars, bounds, Return
<1> QED BY <1>7, <1>8, <1>9 DEF ServingInv

\* A socket is closed with its closeLock held.
LEMMA CloseKeeps ==
    ASSUME ServingInv, NEW p \in Procs, Close(p)
    PROVE  ServingInv'
<1>1. At(p, "close")
  BY DEF Close
<1>2. /\ todo[p] # <<>> /\ Head(todo[p]) \in Instructions
      /\ Head(todo[p]).do = "close" /\ Head(todo[p]).arg = Arg(p)
  BY <1>1, AtHead DEF ServingInv
<1>3. NothingNew
  BY DEF NothingNew, ServingInv, ServeTyped, bounds, connVars, Close
<1>4. Arg(p) \in Conns
  BY <1>2, Arguments DEF ConnSteps
<1> DEFINE t == IF Arg(p) \in closing THEN << >> ELSE CloseBody(Arg(p))
           k == closeLock(Arg(p))
<1>5. /\ t \in Seq(InstructionsOf(p))
      /\ \A i \in 1..Len(t) : t[i] = Do("closeAdapter", Arg(p)) /\ t[i] \in Instructions
  <2>1. "closeAdapter" \in ConnSteps \ {"serve", "readPeer"}
    BY DEF ConnSteps
  <2>2. t = << >> \/ t = <<Do("closeAdapter", Arg(p))>>
    BY DEF CloseBody
  <2> HIDE DEF t
  <2> QED BY <1>4, <2>1, <2>2, AtMostOne
<1>6. Holding(p, k, t) /\ Free(k)
  BY DEF Close
<1> HIDE DEF t
<1>7. Programs' /\ LocksHeld' /\ NotStarted'
  <2>1. Depth(p, Head(todo[p])) = 2 /\ k \in OuterLocks /\ Rank(k) = 2
    BY <1>2, <1>4, Depths, LockNames, Ranks
  <2>2. \A i \in 1..Len(t) : t[i].do \notin {"unlock", "serve"} /\ Rank(k) < Depth(p, t[i])
    BY <1>5, <2>1, Depths, InstructionRecords
  <2> HIDE DEF k
  <2> QED BY <1>2, <1>3, <1>5, <1>6, <2>1, <2>2, GoesUnder DEF ServingInv
<1>8. TablesTyped'
  BY <1>1, <1>2, Arguments DEF ServingInv, TablesTyped, ConnSteps, tableVars, connVars, Close
<1>9. ServeTyped'
  BY <1>1 DEF ServingInv, ServeTyped, serveVars, bounds, Close
<1> QED BY <1>7, <1>8, <1>9 DEF ServingInv

\* The MTU is sent to every socket with socketsLock held; no handler does that.
LEMMA SetMTUKeeps ==
    ASSUME ServingInv, NEW p \in Procs, SetMTU(p)
    PROVE  ServingInv'
<1>1. At(p, "setMTU")
  BY DEF SetMTU
<1>2. /\ todo[p] # <<>> /\ Head(todo[p]) \in Instructions
      /\ Head(todo[p]).do = "setMTU" /\ Head(todo[p]).arg = Arg(p)
  BY <1>1, AtHead DEF ServingInv
<1>3. NothingNew
  BY DEF NothingNew, ServingInv, ServeTyped, bounds, connVars, SetMTU
<1> DEFINE t == HandlePacket(sockets)
<1>4. /\ t \in Seq(InstructionsOf(p))
      /\ \A i \in 1..Len(t) : t[i] \in Instructions /\ t[i].do = "write"
  BY Writes DEF ServingInv, TablesTyped
<1>5. Holding(p, socketsLock, t) /\ Free(socketsLock)
  BY DEF SetMTU, HandlePacket
<1> HIDE DEF t
<1>6. Programs' /\ LocksHeld' /\ NotStarted'
  <2>1. Head(todo[p]) \in InstructionsOf(p)
    BY <1>1, AtHead DEF ServingInv
  <2>2. p[1] # "handler"
    BY <1>2, <2>1 DEF InstructionsOf
  <2>3. Depth(p, Head(todo[p])) = 1 /\ socketsLock \in OuterLocks /\ Rank(socketsLock) = 1
    BY <1>2, Depths, LockNames, Ranks
  <2>4. \A i \in 1..Len(t) : Depth(p, t[i]) = 2
    BY <1>4, <2>2, Depths
  <2>5. \A i \in 1..Len(t) : /\ t[i].do \notin {"unlock", "serve"}
                             /\ Rank(socketsLock) < Depth(p, t[i])
    BY <1>4, <2>3, <2>4
  <2> QED BY <1>2, <1>3, <1>4, <1>5, <2>3, <2>5, GoesUnder DEF ServingInv
<1>7. TablesTyped'
  BY <1>1, <1>2, Arguments DEF ServingInv, TablesTyped, ConnSteps, tableVars, connVars, SetMTU
<1>8. ServeTyped'
  BY <1>1 DEF ServingInv, ServeTyped, serveVars, bounds, SetMTU
<1> QED BY <1>6, <1>7, <1>8 DEF ServingInv

\* Everything is closed with closerLock held.
LEMMA CloseAllKeeps ==
    ASSUME ServingInv, NEW p \in Procs, CloseAll(p)
    PROVE  ServingInv'
<1>1. At(p, "closeAll")
  BY DEF CloseAll
<1>2. /\ todo[p] # <<>> /\ Head(todo[p]) \in Instructions
      /\ Head(todo[p]).do = "closeAll" /\ Head(todo[p]).arg = Arg(p)
  BY <1>1, AtHead DEF ServingInv
<1>3. NothingNew
  BY DEF NothingNew, ServingInv, ServeTyped, bounds, connVars, CloseAll
<1> DEFINE t == [i \in DOMAIN closers |->
                    Do(IF closers[i] \in Conns THEN "closeAdapter" ELSE "closeOther", closers[i])]
<1>4. /\ t \in Seq(InstructionsOf(p))
      /\ \A i \in 1..Len(t) : /\ t[i] \in Instructions
                              /\ t[i].do \in {"closeAdapter", "closeOther"}
  BY Closings DEF ServingInv
<1>5. Holding(p, closerLock, t) /\ Free(closerLock)
  BY DEF CloseAll
<1> HIDE DEF t
<1>6. Programs' /\ LocksHeld' /\ NotStarted'
  <2>1. Depth(p, Head(todo[p])) = 1 /\ closerLock \in OuterLocks /\ Rank(closerLock) = 1
    BY <1>2, Depths, LockNames, Ranks
  <2>2. \A i \in 1..Len(t) : Depth(p, t[i]) = 3
    BY <1>4, Depths
  <2>3. \A i \in 1..Len(t) : /\ t[i].do \notin {"unlock", "serve"}
                             /\ Rank(closerLock) < Depth(p, t[i])
    BY <1>4, <2>1, <2>2
  <2> QED BY <1>2, <1>3, <1>4, <1>5, <2>1, <2>3, GoesUnder DEF ServingInv
<1>7. TablesTyped'
  BY <1>1, <1>2, Arguments DEF ServingInv, TablesTyped, ConnSteps, tableVars, connVars, CloseAll
<1>8. ServeTyped'
  BY <1>1 DEF ServingInv, ServeTyped, serveVars, bounds, CloseAll
<1> QED BY <1>6, <1>7, <1>8 DEF ServingInv

\* A connection is admitted, and the oldest one of a user with too many closed.
LEMMA AdmitKeeps ==
    ASSUME ServingInv, NEW p \in Procs, Admit(p)
    PROVE  ServingInv'
<1>1. At(p, "admit")
  BY DEF Admit
<1>2. /\ todo[p] # <<>> /\ Head(todo[p]) \in Instructions
      /\ Head(todo[p]).do = "admit" /\ Head(todo[p]).arg = Arg(p)
  BY <1>1, AtHead DEF ServingInv
<1>3. NothingNew
  BY DEF NothingNew, ServingInv, ServeTyped, bounds, connVars, Admit
<1>4. Arg(p) \in Conns /\ userSocks \in Seq(Conns)
  BY <1>2, Arguments DEF ConnSteps, ServingInv, TablesTyped
<1> DEFINE full == Len(userSocks) >= MaxPerUser
           t == IF full THEN <<Do("closeError", Head(userSocks))>> ELSE << >>
<1>5. full => Head(userSocks) \in Conns /\ Tail(userSocks) \in Seq(Conns)
  <2>1. full => userSocks # << >>
    BY <1>4, LimitAssumption
  <2> QED BY <1>4, <2>1
<1>6. Holding(p, socketsLock, t) /\ Free(socketsLock)
  BY DEF Admit
<1>7. Programs' /\ LocksHeld' /\ NotStarted'
  <2>1. /\ t \in Seq(InstructionsOf(p))
        /\ \A i \in 1..Len(t) : t[i] \in Instructions /\ t[i].do = "closeError"
    <3>1. "closeError" \in ConnSteps \ {"serve", "readPeer"}
      BY DEF ConnSteps
    <3>2. CASE full
      <4>1. t = << >> \/ t = <<Do("closeError", Head(userSocks))>>
        BY <3>2
      <4> HIDE DEF t
      <4> QED BY <1>5, <3>1, <3>2, <4>1, AtMostOne
    <3>3. CASE ~full
      BY <3>3, None
    <3> QED BY <3>2, <3>3
  <2> HIDE DEF t
  <2>2. Depth(p, Head(todo[p])) = 1 /\ socketsLock \in OuterLocks /\ Rank(socketsLock) = 1
    BY <1>2, Depths, LockNames, Ranks
  <2>3. \A i \in 1..Len(t) : Depth(p, t[i]) = 2
    BY <2>1, Depths
  <2>4. \A i \in 1..Len(t) : /\ t[i].do \notin {"unlock", "serve"}
                             /\ Rank(socketsLock) < Depth(p, t[i])
    BY <2>1, <2>2, <2>3
  <2> QED BY <1>2, <1>3, <1>6, <2>1, <2>2, <2>4, GoesUnder DEF ServingInv
<1>8. TablesTyped'
  <2>1. userSocks' \in Seq(Conns)
    <3>1. CASE full
      <4>1. userSocks' = Append(Tail(userSocks), Arg(p))
        BY <3>1 DEF Admit
      <4> QED BY <1>4, <1>5, <3>1, <4>1
    <3>2. CASE ~full
      <4>1. userSocks' = Append(userSocks, Arg(p))
        BY <3>2 DEF Admit
      <4> QED BY <1>4, <4>1
    <3> QED BY <3>1, <3>2
  <2> QED BY <1>4, <2>1 DEF ServingInv, TablesTyped, connVars, Admit
<1>9. ServeTyped'
  BY <1>1 DEF ServingInv, ServeTyped, serveVars, bounds, Admit
<1> QED BY <1>7, <1>8, <1>9 DEF ServingInv

\* The lock whose release is the next instruction is free afterwards.
LEMMA UnlockKeeps ==
    ASSUME ServingInv, NEW p \in Procs, Unlock(p)
    PROVE  ServingInv'
<1>1. At(p, "unlock")
  BY DEF Unlock
<1>2. /\ todo[p] # <<>> /\ Head(todo[p]) \in Instructions
      /\ Head(todo[p]).do = "unlock" /\ Head(todo[p]).arg = Arg(p)
  BY <1>1, AtHead DEF ServingInv
<1>3. NothingNew
  BY DEF NothingNew, ServingInv, ServeTyped, bounds, connVars, Unlock
<1> DEFINE k == Arg(p)
           s == Tail(todo[p])
<1>4. k \in OuterLocks /\ k \in Locks
  BY <1>2, Arguments, LockNames
<1>5. /\ Program(p, s)
      /\ \A l \in Locks : Releases(s, l) <=> Releases(todo[p], l) /\ l # k
      /\ Has(s, "serve") => Has(todo[p], "serve")
  BY <1>2, TailProgram DEF ServingInv, Programs
<1>6. todo' = [todo EXCEPT ![p] = s] /\ holder' = [holder EXCEPT ![k] = Nobody]
  <2>1. << >> \o s = s
    BY <1>5 DEF Program
  <2> QED BY <2>1 DEF Unlock, Then
<1> HIDE DEF s, k
<1>7. Programs' /\ LocksHeld' /\ NotStarted'
  <2>1. /\ holder' \in [Locks -> Procs \cup {Nobody}] /\ holder'[k] = Nobody
        /\ \A l \in Locks \ {k} : holder'[l] = holder[l]
    BY <1>4, <1>6 DEF ServingInv, LocksHeld
  <2>2. holder[k] = p
    <3>1. Len(todo[p]) \in Nat /\ Len(todo[p]) >= 1 /\ Head(todo[p]) = todo[p][1]
      BY <1>2 DEF ServingInv, Programs, Program
    <3>2. Releases(todo[p], k)
      BY <1>2, <3>1 DEF Releases, k
    <3> QED BY <1>4, <3>2 DEF ServingInv, LocksHeld
  <2>3. \A l \in Locks : ~WritesUnder(todo[p], l)
    BY <1>2, InstructionRecords DEF WritesUnder
  <2>4. Fits(p, s, holder')
    <3>1. \A l \in Locks \ {k} : holder'[l] = p <=> Releases(s, l)
      BY <1>5, <2>1, <2>3 DEF ServingInv, LocksHeld
    <3>2. holder'[k] # p /\ ~Releases(s, k)
      BY <1>4, <1>5, <2>1, NobodyAssumption
    <3> QED BY <1>5, <3>1, <3>2 DEF Fits
  <2>5. \A l \in Locks : holder'[l] = holder[l] \/ {holder[l], holder'[l]} \subseteq {p, Nobody}
    BY <2>1, <2>2
  <2> QED BY <1>2, <1>3, <1>5, <1>6, <2>1, <2>4, <2>5, Goes DEF ServingInv
<1>8. TablesTyped'
  BY <1>1, <1>2, Arguments DEF ServingInv, TablesTyped, ConnSteps, tableVars, connVars, Unlock
<1>9. ServeTyped'
  BY <1>1 DEF ServingInv, ServeTyped, serveVars, bounds, Unlock
<1> QED BY <1>7, <1>8, <1>9 DEF ServingInv

\* A write waits and keeps the lock.
LEMMA WriteWaitsKeeps ==
    ASSUME ServingInv, NEW p \in Procs, WriteWaits(p)
    PROVE  ServingInv'
<1>1. At(p, "write")
  BY DEF WriteWaits
<1>2. /\ todo[p] # <<>> /\ Head(todo[p]) \in Instructions
      /\ Head(todo[p]).do = "write" /\ Head(todo[p]).arg = Arg(p)
  BY <1>1, AtHead DEF ServingInv
<1>3. NothingNew
  BY DEF NothingNew, ServingInv, ServeTyped, bounds, connVars, WriteWaits
<1> DEFINE k == writeLock(Arg(p))
<1>4. /\ Arg(p) \in Conns /\ k \in Locks /\ Free(k) /\ holder' = [holder EXCEPT ![k] = p]
      /\ UNCHANGED todo
  BY <1>2, Arguments, LockNames DEF ConnSteps, WriteWaits
<1>5. WritesUnder(todo[p], k)
  BY <1>1, <1>2, <1>4, AtHead DEF ServingInv, WritesUnder
<1> HIDE DEF k
<1>6. /\ holder' \in [Locks -> Procs \cup {Nobody}] /\ holder'[k] = p
      /\ \A l \in Locks \ {k} : holder'[l] = holder[l]
      /\ holder[k] = Nobody
  BY <1>4 DEF ServingInv, LocksHeld, Free
<1>7. Programs' /\ LocksHeld' /\ NotStarted'
  <2>1. Programs'
    BY <1>4 DEF ServingInv, Programs
  <2>2. \A q \in Procs : ~Releases(todo[q], k)
    BY <1>4, <1>6, NobodyAssumption DEF ServingInv, LocksHeld
  <2>3. LocksHeld'
    <3> SUFFICES ASSUME NEW q \in Procs, NEW l \in Locks
                 PROVE  /\ Releases(todo[q], l) => holder'[l] = q
                        /\ holder'[l] = q => Releases(todo[q], l) \/ WritesUnder(todo[q], l)
      BY <1>4, <1>6 DEF LocksHeld
    <3>1. CASE l = k
      BY <1>5, <1>6, <2>2, <3>1
    <3>2. CASE l # k
      BY <1>6, <3>2 DEF ServingInv, LocksHeld
    <3> QED BY <3>1, <3>2
  <2>4. NotStarted'
    BY <1>3, <1>4, StartsNothing DEF ServingInv
  <2> QED BY <2>1, <2>3, <2>4
<1>8. TablesTyped'
  BY <1>1, <1>2, Arguments DEF ServingInv, TablesTyped, ConnSteps, tableVars, connVars, WriteWaits
<1>9. ServeTyped'
  BY <1>1 DEF ServingInv, ServeTyped, serveVars, bounds, WriteWaits
<1> QED BY <1>7, <1>8, <1>9 DEF ServingInv

\* A write ends, and a failed one turns into CloseError.
LEMMA WriteReturnsKeeps ==
    ASSUME ServingInv, NEW p \in Procs, WriteReturns(p)
    PROVE  ServingInv'
<1>1. At(p, "write")
  BY DEF WriteReturns
<1>2. /\ todo[p] # <<>> /\ Head(todo[p]) \in Instructions
      /\ Head(todo[p]).do = "write" /\ Head(todo[p]).arg = Arg(p)
  BY <1>1, AtHead DEF ServingInv
<1>3. NothingNew
  BY DEF NothingNew, ServingInv, ServeTyped, bounds, connVars, WriteReturns
<1> DEFINE c == Arg(p)
           k == writeLock(c)
           e == Do("closeError", c)
<1>4. /\ c \in Conns /\ k \in Locks /\ k \notin OuterLocks
      /\ holder[k] \in {Nobody, p} /\ holder' = [holder EXCEPT ![k] = Nobody]
  BY <1>2, Arguments, LockNames DEF ConnSteps, WriteReturns
<1>5. /\ holder' \in [Locks -> Procs \cup {Nobody}] /\ holder'[k] = Nobody
      /\ \A l \in Locks \ {k} : holder'[l] = holder[l]
  BY <1>4 DEF ServingInv, LocksHeld
<1>6. \A l \in Locks : WritesUnder(todo[p], l) => l = k
  BY <1>2, InstructionRecords DEF WritesUnder
<1>7. ASSUME NEW s, Program(p, s), todo' = [todo EXCEPT ![p] = s],
             Has(s, "serve") => Has(todo[p], "serve"),
             \A l \in Locks : Releases(s, l) <=> Releases(todo[p], l)
      PROVE  Programs' /\ LocksHeld' /\ NotStarted'
  <2>1. ~Releases(s, k) /\ holder'[k] # p
    BY <1>4, <1>5, <1>7, ReleasedLocks, NobodyAssumption
  <2>2. \A l \in Locks \ {k} : holder'[l] = p <=> Releases(s, l)
    BY <1>5, <1>6, <1>7 DEF ServingInv, LocksHeld
  <2>3. Fits(p, s, holder')
    BY <1>7, <2>1, <2>2 DEF Fits
  <2>4. \A l \in Locks : holder'[l] = holder[l] \/ {holder[l], holder'[l]} \subseteq {p, Nobody}
    BY <1>4, <1>5
  <2> HIDE DEF k, c
  <2> QED BY <1>2, <1>3, <1>5, <1>7, <2>3, <2>4, Goes DEF ServingInv
<1>8. /\ Program(p, todo[p]) /\ Program(p, Tail(todo[p]))
      /\ \A l \in Locks : Releases(Tail(todo[p]), l) <=> Releases(todo[p], l)
      /\ \A l \in Locks : Releases(Tail(todo[p]), l) => Rank(l) < Depth(p, Head(todo[p]))
      /\ Has(Tail(todo[p]), "serve") => Has(todo[p], "serve")
  BY <1>2, TailProgram, HeadDepth DEF ServingInv, Programs
<1>9. /\ e \in InstructionsOf(p) /\ e.do = "closeError" /\ Depth(p, e) = 2
  BY <1>4, Common, InstructionRecords, Depths DEF ConnSteps, InstructionsOf
<1>10. Programs' /\ LocksHeld' /\ NotStarted'
  <2>1. CASE Then(p, <<>>)
    <3>1. << >> \o Tail(todo[p]) = Tail(todo[p])
      BY <1>8 DEF Program
    <3>2. todo' = [todo EXCEPT ![p] = Tail(todo[p])]
      BY <2>1, <3>1 DEF Then
    <3> QED BY <1>7, <1>8, <3>2
  <2>2. CASE c \notin open /\ p = handler(c)
    <3> DEFINE t == <<e, e>>
               s == SubSeq(todo[p], 3, Len(todo[p]))
    <3>1. todo' = [todo EXCEPT ![p] = t \o s]
      BY <2>2 DEF WriteReturns
    <3>2. /\ Program(p, s) /\ \A l : Releases(s, l) => Releases(todo[p], l)
          /\ \A w : Has(s, w) => Has(todo[p], w)
      BY <1>8, WithoutTwo
    <3> HIDE DEF s, e
    <3>3. t \in Seq(InstructionsOf(p)) /\ \A i \in 1..Len(t) : t[i] = e
      BY <1>9
    <3> HIDE DEF t
    <3>4. ~Has(t, "unlock") /\ ~Has(t, "serve")
      BY <1>9, <3>3 DEF Has
    <3>5. Program(p, t) /\ \A l : ~Releases(t, l)
      BY <3>3, <3>4, PlainProgram
    <3>6. Depth(p, Head(todo[p])) = 0
      BY <1>2, <2>2, Depths, ProcNames
    <3>7. \A l \in Locks : ~Releases(todo[p], l)
      BY <1>2, <1>8, <3>6, Bare
    <3>8. /\ Program(p, t \o s)
          /\ \A l : Releases(t \o s, l) <=> Releases(t, l) \/ Releases(s, l)
          /\ \A w : Has(t \o s, w) <=> Has(t, w) \/ Has(s, w)
      BY <3>2, <3>4, <3>5, <3>7, Joined
    <3> QED BY <1>7, <3>1, <3>2, <3>4, <3>5, <3>7, <3>8
  <2>3. CASE Then(p, <<e>>)
    <3> DEFINE t == <<e>>
               s == Tail(todo[p])
    <3>1. todo' = [todo EXCEPT ![p] = t \o s]
      BY <2>3 DEF Then
    <3> HIDE DEF s, e
    <3>2. t \in Seq(InstructionsOf(p)) /\ \A i \in 1..Len(t) : t[i] = e
      BY <1>9, One
    <3> HIDE DEF t
    <3>3. ~Has(t, "unlock") /\ ~Has(t, "serve")
      BY <1>9, <3>2 DEF Has
    <3>4. Program(p, t) /\ \A l : ~Releases(t, l)
      BY <3>2, <3>3, PlainProgram
    <3>5. Depth(p, Head(todo[p])) \in {0, 2}
      BY <1>2, Depths
    <3>6. \A l \in Locks : Releases(s, l) => Rank(l) < 2
      BY <1>8, <3>5, Ranks DEF s
    <3>7. /\ Program(p, t \o s)
          /\ \A l : Releases(t \o s, l) <=> Releases(t, l) \/ Releases(s, l)
          /\ \A w : Has(t \o s, w) <=> Has(t, w) \/ Has(s, w)
      <4>1. \A i \in 1..Len(t), l \in Locks : Releases(s, l) => Rank(l) < Depth(p, t[i])
        BY <1>9, <3>2, <3>6
      <4> QED BY <1>8, <3>3, <3>4, <4>1, Joined DEF s
    <3> QED BY <1>7, <1>8, <3>1, <3>3, <3>4, <3>7 DEF s
  <2> QED BY <2>1, <2>2, <2>3 DEF WriteReturns
<1>11. TablesTyped'
  BY <1>1, <1>2, Arguments DEF ServingInv, TablesTyped, ConnSteps, tableVars, connVars, WriteReturns
<1>12. ServeTyped'
  BY <1>1 DEF ServingInv, ServeTyped, serveVars, bounds, WriteReturns
<1> QED BY <1>10, <1>11, <1>12 DEF ServingInv

\* Without an error the goroutine goes on to set one, with one it leaves that out.
LEMMA TestErrorKeeps ==
    ASSUME ServingInv, NEW p \in Procs, TestError(p)
    PROVE  ServingInv'
<1>1. At(p, "testError")
  BY DEF TestError
<1>2. /\ todo[p] # <<>> /\ Head(todo[p]) \in Instructions
      /\ Head(todo[p]).do = "testError" /\ Head(todo[p]).arg = Arg(p)
  BY <1>1, AtHead DEF ServingInv
<1>3. NothingNew
  BY DEF NothingNew, ServingInv, ServeTyped, bounds, connVars, TestError
<1> DEFINE s == IF serveError # "nil" THEN SubSeq(todo[p], 3, Len(todo[p])) ELSE Tail(todo[p])
<1>4. todo' = [todo EXCEPT ![p] = s] /\ UNCHANGED holder
  BY DEF TestError
<1>5. Depth(p, Head(todo[p])) = 0 /\ Program(p, todo[p])
  BY <1>2, Depths DEF ServingInv, Programs
<1>6. /\ Program(p, s) /\ \A l \in Locks : Releases(s, l) => Releases(todo[p], l)
      /\ Has(s, "serve") => Has(todo[p], "serve")
  <2>1. CASE serveError # "nil"
    BY <1>5, <2>1, WithoutTwo
  <2>2. CASE serveError = "nil"
    BY <1>2, <1>5, <2>2, TailProgram
  <2> QED BY <2>1, <2>2
<1> HIDE DEF s
<1>7. Programs' /\ LocksHeld' /\ NotStarted'
  <2>1. \A l \in Locks : ~Releases(s, l)
    BY <1>2, <1>5, <1>6, Bare
  <2> QED BY <1>2, <1>3, <1>4, <1>5, <1>6, <2>1, GoesFreely DEF ServingInv
<1>8. TablesTyped'
  BY <1>1, <1>2, Arguments DEF ServingInv, TablesTyped, ConnSteps, tableVars, connVars, TestError
<1>9. ServeTyped'
  BY <1>1 DEF ServingInv, ServeTyped, serveVars, bounds, TestError
<1> QED BY <1>7, <1>8, <1>9 DEF ServingInv

\* The error is set; the second time the process ends.
LEMMA SetErrorKeeps ==
    ASSUME ServingInv, NEW p \in Procs, SetError(p)
    PROVE  ServingInv'
<1>1. At(p, "setError")
  BY DEF SetError
<1>2. /\ todo[p] # <<>> /\ Head(todo[p]) \in Instructions
      /\ Head(todo[p]).do = "setError" /\ Head(todo[p]).arg = Arg(p)
  BY <1>1, AtHead DEF ServingInv
<1>3. NothingNew
  BY DEF NothingNew, ServingInv, ServeTyped, bounds, connVars, SetError
<1>4. Programs' /\ LocksHeld' /\ NotStarted'
  <2>1. CASE notified
    BY <1>3, <2>1, NothingToDo DEF SetError, End, bounds, NothingNew
  <2>2. CASE ~notified
    BY <1>2, <1>3, <2>2, GoesBy DEF SetError, ServingInv
  <2> QED BY <2>1, <2>2
<1>5. TablesTyped'
  BY DEF ServingInv, TablesTyped, tableVars, connVars, SetError
<1>6. ServeTyped'
  <2>1. Arg(p) \in Errors
    BY <1>2, Arguments
  <2>2. exit' \in {"running", "clean", "panic"}
    BY DEF SetError, End, ServingInv, ServeTyped
  <2> QED BY <2>1, <2>2 DEF ServingInv, ServeTyped, bounds, SetError
<1> QED BY <1>4, <1>5, <1>6 DEF ServingInv

\* The process ends.
LEMMA ExitKeeps ==
    ASSUME ServingInv, NEW p \in Procs, Exit(p)
    PROVE  ServingInv'
<1>1. At(p, "exit")
  BY DEF Exit
<1>2. /\ todo[p] # <<>> /\ Head(todo[p]) \in Instructions
      /\ Head(todo[p]).do = "exit" /\ Head(todo[p]).arg = Arg(p)
  BY <1>1, AtHead DEF ServingInv
<1>3. NothingNew
  BY DEF NothingNew, ServingInv, ServeTyped, bounds, connVars, Exit
<1>4. Programs' /\ LocksHeld' /\ NotStarted'
  BY <1>3, NothingToDo DEF Exit, End, bounds, NothingNew
<1>5. TablesTyped'
  BY DEF ServingInv, TablesTyped, tableVars, connVars, Exit
<1>6. ServeTyped'
  <2>1. Arg(p) \in {"clean", "panic"}
    BY <1>2, Arguments
  <2>2. exit' \in {"running", "clean", "panic"}
    BY <2>1 DEF Exit, End
  <2> QED BY <2>2 DEF ServingInv, ServeTyped, bounds, Exit
<1> QED BY <1>4, <1>5, <1>6 DEF ServingInv

\* A socket that is not closing yet gets a goroutine of its own for the error.
LEMMA CloseErrorKeeps ==
    ASSUME ServingInv, NEW p \in Procs, CloseError(p)
    PROVE  ServingInv'
<1>1. At(p, "closeError")
  BY DEF CloseError
<1>2. /\ todo[p] # <<>> /\ Head(todo[p]) \in Instructions
      /\ Head(todo[p]).do = "closeError" /\ Head(todo[p]).arg = Arg(p)
  BY <1>1, AtHead DEF ServingInv
<1>3. NothingNew
  BY DEF NothingNew, ServingInv, ServeTyped, bounds, connVars, CloseError
<1> DEFINE c == Arg(p)
           k == closeLock(c)
           r == errorSender(c)
<1>4. c \in Conns /\ closing' = closing \cup {c} /\ Free(k)
  BY <1>2, Arguments DEF ConnSteps, CloseError
<1>5. Programs' /\ LocksHeld' /\ NotStarted'
  <2>1. CASE c \in closing
    <3> DEFINE t == <<Do("closeAdapter", c)>>
    <3>1. Holding(p, k, t)
      BY <2>1 DEF CloseError
    <3>2. /\ "closeAdapter" \in ConnSteps \ {"serve", "readPeer"}
          /\ t = << >> \/ t = <<Do("closeAdapter", c)>>
      BY DEF ConnSteps
    <3> HIDE DEF t
    <3>3. /\ t \in Seq(InstructionsOf(p))
          /\ \A i \in 1..Len(t) : t[i] \in Instructions /\ t[i].do = "closeAdapter"
      BY <1>4, <3>2, AtMostOne
    <3>4. Depth(p, Head(todo[p])) = 2 /\ k \in OuterLocks /\ Rank(k) = 2
      BY <1>2, <1>4, Depths, LockNames, Ranks
    <3>5. \A i \in 1..Len(t) : t[i].do \notin {"unlock", "serve"} /\ Rank(k) < Depth(p, t[i])
      BY <3>3, <3>4, Depths
    <3> HIDE DEF k
    <3> QED BY <1>2, <1>3, <1>4, <3>1, <3>3, <3>4, <3>5, GoesUnder DEF ServingInv
  <2>2. CASE c \notin closing
    <3> DEFINE i1 == Do("write", c)
               i2 == Do("closeAdapter", c)
               t == <<i1, i2>>
    <3>1. /\ todo' = [todo EXCEPT ![p] = Tail(todo[p]), ![r] = t]
          /\ UNCHANGED holder
      BY <2>2 DEF CloseError
    <3>2. todo[r] = << >> /\ r \in Procs
      BY <1>4, <2>2, ProcNames DEF ServingInv, NotStarted
    <3>3. /\ i1 \in InstructionsOf(r) /\ i2 \in InstructionsOf(r)
          /\ i1.do = "write" /\ i2.do = "closeAdapter"
      BY <1>4, Common, InstructionRecords DEF ConnSteps
    <3> HIDE DEF i1, i2
    <3>4. t \in Seq(InstructionsOf(r)) /\ \A i \in 1..Len(t) : t[i] \in {i1, i2}
      BY <3>3
    <3> HIDE DEF t
    <3>5. ~Has(t, "unlock") /\ ~Has(t, "serve")
      BY <3>3, <3>4 DEF Has
    <3>6. Program(r, t) /\ \A l : ~Releases(t, l)
      BY <3>4, <3>5, PlainProgram
    <3> HIDE DEF r
    <3>7. /\ Programs' /\ LocksHeld' /\ todo'[p] = Tail(todo[p])
          /\ \A q \in Procs \ {p, r} : todo'[q] = todo[q]
      BY <1>2, <3>1, <3>2, <3>6, GoesAndStarts DEF ServingInv
    <3>8. Has(Tail(todo[p]), "serve") => Has(todo[p], "serve")
      BY <1>2, TailProgram DEF ServingInv, Programs
    <3>9. \A q \in Procs \ {r} : /\ todo[q] = << >> => todo'[q] = << >>
                                 /\ Has(todo'[q], "serve") => Has(todo[q], "serve")
      BY <1>2, <3>7, <3>8
    <3>10. /\ \A d \in Conns : handler(d) \in Procs \ {r} /\ reader(d) \in Procs \ {r}
           /\ \A d \in Conns \ {c} : errorSender(d) \in Procs \ {r}
           /\ \A e \in {"reload", "delete", "signal"} : ofServer(e) \in Procs \ {r}
      BY ProcNames DEF r
    <3> HIDE DEF c
    <3>11. /\ \A d \in coming' : todo'[handler(d)] = <<>> /\ todo'[reader(d)] = <<>>
           /\ \A d \in Conns : Has(todo'[handler(d)], "serve") => todo'[reader(d)] = <<>>
      BY <1>3, <3>9, <3>10 DEF ServingInv, NotStarted, NothingNew
    <3>12. \A d \in Conns \ closing' : todo'[errorSender(d)] = <<>>
      BY <1>4, <3>9, <3>10 DEF ServingInv, NotStarted
    <3>13. \A e \in events' \cap {"reload", "delete", "signal"} : todo'[ofServer(e)] = <<>>
      BY <1>3, <3>9, <3>10 DEF ServingInv, NotStarted, NothingNew
    <3> QED BY <3>7, <3>11, <3>12, <3>13 DEF NotStarted
  <2> QED BY <2>1, <2>2
<1>6. TablesTyped'
  BY <1>1, <1>2, Arguments DEF ServingInv, TablesTyped, ConnSteps, tableVars, connVars, CloseError
<1>7. ServeTyped'
  BY <1>1 DEF ServingInv, ServeTyped, serveVars, bounds, CloseError
<1> QED BY <1>5, <1>6, <1>7 DEF ServingInv

\* The handler starts the reader of its connection.
LEMMA ServeKeeps ==
    ASSUME ServingInv, NEW p \in Procs, Serve(p)
    PROVE  ServingInv'
<1>1. At(p, "serve")
  BY DEF Serve
<1>2. /\ todo[p] # <<>> /\ Head(todo[p]) \in Instructions
      /\ Head(todo[p]).do = "serve" /\ Head(todo[p]).arg = Arg(p)
  BY <1>1, AtHead DEF ServingInv
<1>3. NothingNew
  BY DEF NothingNew, ServingInv, ServeTyped, bounds, connVars, Serve
<1> DEFINE c == Arg(p)
           r == reader(c)
           t == <<Do("readPeer", c)>>
<1>4. c \in Conns /\ p = handler(c)
  <2>1. Head(todo[p]) \in InstructionsOf(p)
    BY <1>1, AtHead DEF ServingInv
  <2> QED BY <1>2, <2>1, Arguments DEF ConnSteps, InstructionsOf
<1>5. /\ todo' = [todo EXCEPT ![p] = Tail(todo[p]), ![r] = t]
      /\ UNCHANGED holder
  BY DEF Serve
<1>6. Programs' /\ LocksHeld' /\ NotStarted'
  <2>1. Has(todo[p], "serve") /\ ~Has(Tail(todo[p]), "serve")
    <3>1. Len(todo[p]) \in Nat /\ Len(todo[p]) >= 1 /\ Head(todo[p]) = todo[p][1]
      BY <1>2 DEF ServingInv, Programs, Program
    <3>2. Has(todo[p], "serve")
      BY <1>2, <3>1 DEF Has
    <3> QED BY <1>2, <3>2, TailProgram DEF ServingInv, Programs
  <2>2. todo[r] = << >> /\ r \in Procs /\ r # p
    BY <1>4, <2>1, ProcNames DEF ServingInv, NotStarted
  <2>3. /\ Do("readPeer", c) \in InstructionsOf(r) /\ Do("readPeer", c).do = "readPeer"
    BY <1>4, Common, ProcNames, InstructionRecords
  <2>4. t \in Seq(InstructionsOf(r)) /\ \A i \in 1..Len(t) : t[i] = Do("readPeer", c)
    BY <2>3, One
  <2> HIDE DEF t
  <2>5. ~Has(t, "unlock") /\ ~Has(t, "serve")
    BY <2>3, <2>4 DEF Has
  <2>6. Program(r, t) /\ \A l : ~Releases(t, l)
    BY <2>4, <2>5, PlainProgram
  <2> HIDE DEF r
  <2>7. /\ Programs' /\ LocksHeld' /\ todo'[p] = Tail(todo[p])
        /\ \A q \in Procs \ {p, r} : todo'[q] = todo[q]
    BY <1>2, <1>5, <2>2, <2>6, GoesAndStarts DEF ServingInv
  <2>8. /\ \A d \in Conns \ {c} : handler(d) \in Procs \ {p, r} /\ reader(d) \in Procs \ {p, r}
        /\ \A d \in Conns : errorSender(d) \in Procs \ {p, r}
        /\ \A e \in {"reload", "delete", "signal"} : ofServer(e) \in Procs \ {p, r}
    BY <1>4, ProcNames DEF r
  <2>9. \A d \in coming' : todo'[handler(d)] = <<>> /\ todo'[reader(d)] = <<>>
    <3>1. \A d \in coming' : d \in Conns \ {c}
      BY <1>2, <1>3, <1>4 DEF ServingInv, NotStarted, NothingNew
    <3> HIDE DEF c
    <3> QED BY <1>3, <2>7, <2>8, <3>1 DEF ServingInv, NotStarted, NothingNew
  <2>10. \A d \in Conns : Has(todo'[handler(d)], "serve") => todo'[reader(d)] = <<>>
    <3>1. \A d \in Conns \ {c} : Has(todo'[handler(d)], "serve") => todo'[reader(d)] = <<>>
      BY <2>7, <2>8 DEF ServingInv, NotStarted
    <3>2. ~Has(todo'[handler(c)], "serve")
      BY <1>4, <2>1, <2>7
    <3> QED BY <3>1, <3>2
  <2>11. \A d \in Conns \ closing' : todo'[errorSender(d)] = <<>>
    BY <1>3, <2>7, <2>8 DEF ServingInv, NotStarted, NothingNew
  <2>12. \A e \in events' \cap {"reload", "delete", "signal"} : todo'[ofServer(e)] = <<>>
    BY <1>3, <2>7, <2>8 DEF ServingInv, NotStarted, NothingNew
  <2> QED BY <2>7, <2>9, <2>10, <2>11, <2>12 DEF NotStarted
<1>7. TablesTyped'
  BY <1>1, <1>2, Arguments DEF ServingInv, TablesTyped, ConnSteps, tableVars, connVars, Serve
<1>8. ServeTyped'
  BY <1>1 DEF ServingInv, ServeTyped, serveVars, bounds, Serve
<1> QED BY <1>6, <1>7, <1>8 DEF ServingInv

\* Every step of a goroutine.
LEMMA StepKeeps ==
    ASSUME ServingInv, NEW p \in Procs, Step(p)
    PROVE  ServingInv'
BY UnlockKeeps, WriteReturnsKeeps, WriteWaitsKeeps, CloseAdapterKeeps, CloseOtherKeeps,
   CloseKeeps, CloseErrorKeeps, AddCloserKeeps, AdmitKeeps, ServeKeeps, WaitReturnsKeeps,
   UnlistKeeps, ReadIfaceFailsKeeps, ReadPeerFailsKeeps, SetMTUKeeps, LookUpKeeps,
   AcceptFailsKeeps, CloseAllKeeps, TestErrorKeeps, SetErrorKeeps, AwaitErrorKeeps,
   ReturnKeeps, ExitKeeps DEF Step

----------------------------------------------------------------------------
(* What happens from outside *)

\* Packets for some connections come before what a goroutine without locks has to do.
LEMMA Forwards ==
    ASSUME ServingInv, NEW p \in Procs, NEW S \in SUBSET Conns, todo[p] # <<>>,
           Head(todo[p]).do \in {"readIface", "readPeer"}, UNCHANGED holder,
           todo' = [todo EXCEPT ![p] = HandlePacket(S) \o todo[p]],
           coming' \subseteq coming, events' \subseteq events, closing \subseteq closing'
    PROVE  Programs' /\ LocksHeld' /\ NotStarted'
<1> DEFINE t == HandlePacket(S)
<1>1. Program(p, todo[p]) /\ Head(todo[p]) \in Instructions /\ coming \subseteq Conns
  BY HeadDepth DEF ServingInv, Programs, ServeTyped
<1>2. Depth(p, Head(todo[p])) = 0
  BY <1>1, Depths
<1>3. t \in Seq(InstructionsOf(p)) /\ \A i \in 1..Len(t) : t[i].do = "write"
  BY Writes
<1> HIDE DEF t
<1>4. ~Has(t, "unlock") /\ ~Has(t, "serve")
  BY <1>3 DEF Has
<1>5. Program(p, t) /\ \A l : ~Releases(t, l)
  BY <1>3, <1>4, PlainProgram
<1>6. \A l \in Locks : ~Releases(todo[p], l)
  BY <1>1, <1>2, Bare
<1>7. /\ Program(p, t \o todo[p])
      /\ \A l : Releases(t \o todo[p], l) <=> Releases(t, l) \/ Releases(todo[p], l)
      /\ \A w : Has(t \o todo[p], w) <=> Has(t, w) \/ Has(todo[p], w)
  BY <1>1, <1>4, <1>5, <1>6, Joined
<1>8. todo' = [todo EXCEPT ![p] = t \o todo[p]]
  BY DEF t
<1> QED BY <1>1, <1>2, <1>4, <1>5, <1>6, <1>7, <1>8, GoesFreely DEF ServingInv, NothingNew

\* A packet from the main interface.
LEMMA ReadIfaceKeeps ==
    ASSUME ServingInv, ReadIface
    PROVE  ServingInv'
<1> DEFINE p == ofServer("main")
<1>1. p \in Procs /\ At(p, "readIface")
  BY ProcNames DEF ReadIface
<1>2. todo[p] # <<>> /\ Head(todo[p]).do = "readIface"
  BY <1>1 DEF At
<1>3. PICK S \in {{c} : c \in routes} \cup {routes} :
         todo' = [todo EXCEPT ![p] = HandlePacket(S) \o todo[p]]
  BY DEF ReadIface
<1>4. S \in SUBSET Conns
  BY <1>3 DEF ServingInv, TablesTyped
<1>5. UNCHANGED <<holder, coming, events, closing>>
  BY DEF ReadIface, connVars
<1> HIDE DEF p
<1>6. Programs' /\ LocksHeld' /\ NotStarted'
  BY <1>1, <1>2, <1>3, <1>4, <1>5, Forwards
<1>7. TablesTyped'
  BY DEF ReadIface, ServingInv, TablesTyped, tableVars, connVars
<1>8. ServeTyped'
  BY DEF ReadIface, ServingInv, ServeTyped, serveVars
<1> QED BY <1>6, <1>7, <1>8 DEF ServingInv

\* A packet from a connection.
LEMMA ReadPeerKeeps ==
    ASSUME ServingInv, NEW c \in Conns, ReadPeer(c)
    PROVE  ServingInv'
<1> DEFINE p == reader(c)
<1>1. p \in Procs /\ At(p, "readPeer")
  BY ProcNames DEF ReadPeer
<1>2. todo[p] # <<>> /\ Head(todo[p]).do = "readPeer"
  BY <1>1 DEF At
<1>3. PICK d \in routes \cup {c} : todo' = [todo EXCEPT ![p] = HandlePacket({d}) \o todo[p]]
  BY DEF ReadPeer
<1>4. {d} \in SUBSET Conns
  BY <1>3 DEF ServingInv, TablesTyped
<1>5. UNCHANGED <<holder, coming, events, closing>>
  BY DEF ReadPeer, connVars
<1> HIDE DEF p
<1>6. Programs' /\ LocksHeld' /\ NotStarted'
  BY <1>1, <1>2, <1>3, <1>4, <1>5, Forwards
<1>7. TablesTyped'
  BY DEF ReadPeer, ServingInv, TablesTyped, tableVars, connVars
<1>8. ServeTyped'
  BY DEF ReadPeer, ServingInv, ServeTyped, serveVars
<1> QED BY <1>6, <1>7, <1>8 DEF ServingInv

\* Peers stop and go on reading, and leave; the interface fails.
LEMMA FaultsKeep ==
    ASSUME ServingInv,
           IfaceFails \/ \E c \in Conns : Stall(c) \/ StallEnds(c) \/ PeerLeaves(c)
    PROVE  ServingInv'
<1>1. /\ UNCHANGED <<todo, holder, coming, closing>> /\ events' \subseteq events
      /\ coming \subseteq Conns
  BY DEF IfaceFails, Happens, Stall, StallEnds, PeerLeaves, bounds, ServingInv, ServeTyped
<1>2. Programs' /\ LocksHeld' /\ NotStarted'
  BY <1>1, NobodyMoves DEF ServingInv, NothingNew
<1>3. TablesTyped'
  <2>1. CASE IfaceFails
    BY <2>1, ConnsAssumption DEF IfaceFails, Happens, ServingInv, TablesTyped, tableVars
  <2>2. ASSUME NEW c \in Conns, Stall(c) PROVE TablesTyped'
    BY <2>2 DEF Stall, ServingInv, TablesTyped, tableVars
  <2>3. ASSUME NEW c \in Conns, StallEnds(c) PROVE TablesTyped'
    BY <2>3 DEF StallEnds, ServingInv, TablesTyped, tableVars
  <2>4. ASSUME NEW c \in Conns, PeerLeaves(c) PROVE TablesTyped'
    BY <2>4 DEF PeerLeaves, ServingInv, TablesTyped, tableVars
  <2> QED BY <2>1, <2>2, <2>3, <2>4
<1>4. ServeTyped'
  <2>1. CASE IfaceFails
    BY <2>1 DEF IfaceFails, Happens, ServingInv, ServeTyped, serveVars
  <2>2. ASSUME NEW c \in Conns, Stall(c) \/ PeerLeaves(c) PROVE ServeTyped'
    BY <2>2 DEF Stall, PeerLeaves, ServingInv, ServeTyped, serveVars
  <2>3. ASSUME NEW c \in Conns, StallEnds(c) PROVE ServeTyped'
    BY <2>3 DEF StallEnds, ServingInv, ServeTyped, serveVars, bounds
  <2> QED BY <2>1, <2>2, <2>3
<1> QED BY <1>2, <1>3, <1>4 DEF ServingInv

\* One instruction is a program.
LEMMA OneProgram ==
    ASSUME NEW p, NEW i \in InstructionsOf(p), i.do \notin {"unlock", "serve"}
    PROVE  Program(p, <<i>>) /\ (\A l : ~Releases(<<i>>, l)) /\ ~Has(<<i>>, "serve")
<1> DEFINE t == <<i>>
<1>1. t \in Seq(InstructionsOf(p)) /\ \A n \in 1..Len(t) : t[n] = i
  BY One
<1> HIDE DEF t
<1>2. ~Has(t, "unlock") /\ ~Has(t, "serve")
  BY <1>1 DEF Has
<1>3. Program(p, t) /\ \A l : ~Releases(t, l)
  BY <1>1, <1>2, PlainProgram
<1> QED BY <1>2, <1>3 DEF t

\* What Server.Close and the end of the process are.
LEMMA ClosePrograms ==
    ASSUME NEW p
    PROVE  LET t == ServerClose \o <<Do("exit", "clean")>> IN
           Program(p, t) /\ (\A l : ~Releases(t, l)) /\ ~Has(t, "serve")
<1> DEFINE i1 == Do("closeAll", "server")
           i2 == Do("testError", "none")
           i3 == Do("setError", "none")
           i4 == Do("exit", "clean")
           t == (<<i1>> \o <<i2, i3>>) \o <<i4>>
<1>1. /\ {i1, i2, i3, i4} \subseteq InstructionsOf(p)
      /\ \A i \in {i1, i2, i3, i4} : i.do \notin {"unlock", "serve"}
  <2>1. i1 \in InstructionsOf(p) /\ i4 \in InstructionsOf(p)
    BY Common
  <2>2. i2 \in InstructionsOf(p) /\ i3 \in InstructionsOf(p)
    BY Common DEF Errors
  <2>3. i1.do = "closeAll" /\ i2.do = "testError" /\ i3.do = "setError" /\ i4.do = "exit"
    BY InstructionRecords
  <2> HIDE DEF i1, i2, i3, i4
  <2> QED BY <2>1, <2>2, <2>3
<1> HIDE DEF i1, i2, i3, i4
<1>2. <<i1>> \o <<i2, i3>> \in Seq(InstructionsOf(p)) /\ <<i4>> \in Seq(InstructionsOf(p))
  BY <1>1
<1>3. t \in Seq(InstructionsOf(p))
  BY <1>2, Concatenated
<1>4. \A n \in 1..Len(t) : t[n] \in {i1, i2, i3, i4}
  BY <1>1
<1> HIDE DEF t
<1>5. ~Has(t, "unlock") /\ ~Has(t, "serve")
  BY <1>1, <1>4 DEF Has
<1>6. Program(p, t) /\ \A l : ~Releases(t, l)
  BY <1>3, <1>5, PlainProgram
<1> QED BY <1>5, <1>6 DEF t, i1, i2, i3, i4, ServerClose, setServeError

\* The program of a handler.
LEMMA HandlerProgram ==
    ASSUME NEW c \in Conns
    PROVE  Program(handler(c), serveSocket(c)) /\ \A l : ~Releases(serveSocket(c), l)
<1> DEFINE p == handler(c)
           t == serveSocket(c)
<1>1. \A w \in ConnSteps \ {"readPeer"} : Do(w, c) \in InstructionsOf(p) /\ Do(w, c).do = w
  BY Common, InstructionRecords
<1>2. /\ Len(t) = 7
      /\ t[1] = Do("addCloser", c) /\ t[2] = Do("admit", c) /\ t[3] = Do("serve", c)
      /\ t[4] = Do("write", c) /\ t[5] = Do("wait", c) /\ t[6] = Do("unlist", c)
      /\ t[7] = Do("close", c)
  BY DEF serveSocket
<1>3. t \in Seq(InstructionsOf(p))
  BY <1>1 DEF serveSocket, ConnSteps
<1> HIDE DEF t, p
<1>4. \A i \in 1..Len(t) : t[i].do # "unlock" /\ (t[i].do = "serve" => i = 3)
  <2>1. \A i \in 1..7 : i \in {1, 2, 3, 4, 5, 6, 7}
    OBVIOUS
  <2> QED BY <1>1, <1>2, <2>1 DEF ConnSteps
<1>5. Nested(p, t) /\ \A l : ~Releases(t, l)
  BY <1>4 DEF Nested, Releases
<1>6. ServedOnce(t)
  BY <1>4 DEF ServedOnce
<1> QED BY <1>3, <1>5, <1>6 DEF Program, t, p

\* A goroutine is started that no part of NotStarted is about any more.
LEMMA StartsOne ==
    ASSUME ServingInv, NEW r \in Procs, todo[r] = <<>>, NEW t, Program(r, t),
           \A l \in Locks : ~Releases(t, l), UNCHANGED holder, todo' = [todo EXCEPT ![r] = t],
           coming' \subseteq coming, events' \subseteq events, UNCHANGED closing,
           \A c \in Conns : r # reader(c) /\ r # errorSender(c),
           \A c \in Conns : r = handler(c) => c \notin coming' /\ todo[reader(c)] = <<>>,
           \A e \in events' \cap {"reload", "delete", "signal"} : r # ofServer(e)
    PROVE  Programs' /\ LocksHeld' /\ NotStarted'
<1>1. Programs' /\ LocksHeld' /\ \A q \in Procs \ {r} : todo'[q] = todo[q]
  BY Starts DEF ServingInv
<1>2. coming \subseteq Conns
  BY DEF ServingInv, ServeTyped
<1>3. \A c \in Conns : /\ todo'[reader(c)] = todo[reader(c)]
                       /\ todo'[errorSender(c)] = todo[errorSender(c)]
  BY <1>1, ProcNames
<1>4. \A c \in coming' : todo'[handler(c)] = <<>> /\ todo'[reader(c)] = <<>>
  BY <1>1, <1>2, <1>3, ProcNames DEF ServingInv, NotStarted
<1>5. \A c \in Conns : Has(todo'[handler(c)], "serve") => todo'[reader(c)] = <<>>
  BY <1>1, <1>3, ProcNames DEF ServingInv, NotStarted
<1>6. \A c \in Conns \ closing' : todo'[errorSender(c)] = <<>>
  BY <1>3 DEF ServingInv, NotStarted
<1>7. \A e \in events' \cap {"reload", "delete", "signal"} : todo'[ofServer(e)] = <<>>
  BY <1>1, ProcNames DEF ServingInv, NotStarted
<1> QED BY <1>1, <1>4, <1>5, <1>6, <1>7 DEF NotStarted

\* The names of the goroutines an event starts.
LEMMA EventNames ==
    /\ \A e \in {"reload", "delete", "signal"}, c \in Conns :
          ofServer(e) # reader(c) /\ ofServer(e) # errorSender(c) /\ ofServer(e) # handler(c)
    /\ \A e, f : ofServer(e) = ofServer(f) => e = f
    /\ \A c, d \in Conns : /\ pinger(c) # reader(d) /\ pinger(c) # errorSender(d)
                           /\ pinger(c) # handler(d)
                           /\ handler(c) # reader(d) /\ handler(c) # errorSender(d)
    /\ \A e \in {"reload", "delete", "signal"}, c \in Conns :
          ofServer(e) # pinger(c) /\ ofServer(e) # handler(c)
BY ProcNames DEF ofServer

\* An event starts its goroutine.
LEMMA EventStarts ==
    ASSUME ServingInv, NEW e \in {"reload", "delete", "signal"}, Happens(e), NEW t,
           todo' = [todo EXCEPT ![ofServer(e)] = t], UNCHANGED open,
           Program(ofServer(e), t), \A l : ~Releases(t, l)
    PROVE  ServingInv'
<1> DEFINE r == ofServer(e)
<1>1. r \in Procs /\ todo[r] = <<>> /\ UNCHANGED <<holder, coming, closing>>
      /\ events' = events \ {e}
  BY ProcNames DEF Happens, ServingInv, NotStarted
<1>2. /\ \A c \in Conns : r # reader(c) /\ r # errorSender(c) /\ r # handler(c)
      /\ \A f \in events' : r # ofServer(f)
  BY <1>1, EventNames
<1> HIDE DEF r
<1>3. Programs' /\ LocksHeld' /\ NotStarted'
  BY <1>1, <1>2, StartsOne DEF r
<1>4. TablesTyped'
  BY DEF Happens, ServingInv, TablesTyped, tableVars
<1>5. ServeTyped'
  BY <1>1 DEF Happens, ServingInv, ServeTyped, serveVars
<1> QED BY <1>3, <1>4, <1>5 DEF ServingInv

\* Reload, DELETE and the signal.
LEMMA EventsKeep ==
    ASSUME ServingInv, Reload \/ Signal \/ \E c \in Conns : Delete(c)
    PROVE  ServingInv'
<1>1. CASE Reload
  <2> DEFINE i == Do("setMTU", "server")
             r == ofServer("reload")
  <2>1. i \in InstructionsOf(r) /\ i.do = "setMTU"
    BY Common, ProcNames, InstructionRecords
  <2>2. Program(r, <<i>>) /\ \A l : ~Releases(<<i>>, l)
    BY <2>1, OneProgram
  <2>3. Happens("reload") /\ todo' = [todo EXCEPT ![r] = <<i>>] /\ UNCHANGED open
    BY <1>1 DEF Reload
  <2> HIDE DEF i
  <2> QED BY <2>2, <2>3, EventStarts
<1>2. CASE Signal
  <2> DEFINE t == ServerClose \o <<Do("exit", "clean")>>
             r == ofServer("signal")
  <2>1. Program(r, t) /\ \A l : ~Releases(t, l)
    BY ClosePrograms
  <2>2. Happens("signal") /\ todo' = [todo EXCEPT ![r] = t] /\ UNCHANGED open
    BY <1>2 DEF Signal
  <2> HIDE DEF t
  <2> QED BY <2>1, <2>2, EventStarts
<1>3. ASSUME NEW c \in Conns, Delete(c) PROVE ServingInv'
  <2> DEFINE i == Do("lookUp", c)
             r == ofServer("delete")
  <2>1. i \in InstructionsOf(r) /\ i.do = "lookUp"
    BY Common, InstructionRecords DEF ConnSteps
  <2>2. Program(r, <<i>>) /\ \A l : ~Releases(<<i>>, l)
    BY <2>1, OneProgram
  <2>3. Happens("delete") /\ todo' = [todo EXCEPT ![r] = <<i>>] /\ UNCHANGED open
    BY <1>3 DEF Delete
  <2> HIDE DEF i
  <2> QED BY <2>2, <2>3, EventStarts
<1> QED BY <1>1, <1>2, <1>3

\* A connection is accepted.
LEMMA AcceptKeeps ==
    ASSUME ServingInv, NEW c \in Conns, Accept(c)
    PROVE  ServingInv'
<1> DEFINE r == handler(c)
           t == serveSocket(c)
<1>1. /\ r \in Procs /\ todo[r] = <<>> /\ todo[reader(c)] = <<>>
      /\ todo' = [todo EXCEPT ![r] = t]
      /\ UNCHANGED <<holder, closing, events>> /\ coming' = coming \ {c}
  BY ProcNames DEF Accept, ServingInv, NotStarted
<1>2. Program(r, t) /\ \A l : ~Releases(t, l)
  BY HandlerProgram
<1>3. /\ \A d \in Conns : r # reader(d) /\ r # errorSender(d)
      /\ \A d \in Conns : r = handler(d) => d = c
      /\ \A e \in events' \cap {"reload", "delete", "signal"} : r # ofServer(e)
  BY EventNames, ProcNames
<1> HIDE DEF r, t
<1>4. Programs' /\ LocksHeld' /\ NotStarted'
  <2>1. \A d \in Conns : r = handler(d) => d \notin coming' /\ todo[reader(d)] = <<>>
    BY <1>1, <1>3
  <2> QED BY <1>1, <1>2, <1>3, <2>1, StartsOne
<1>5. TablesTyped'
  BY DEF Accept, ServingInv, TablesTyped, tableVars
<1>6. ServeTyped'
  BY <1>1 DEF Accept, ServingInv, ServeTyped, serveVars
<1> QED BY <1>4, <1>5, <1>6 DEF ServingInv

\* The pinger gives a peer up.
LEMMA PingTimeoutKeeps ==
    ASSUME ServingInv, NEW c \in Conns, PingTimeout(c)
    PROVE  ServingInv'
<1> DEFINE r == pinger(c)
           i == Do("close", c)
<1>1. /\ r \in Procs /\ todo[r] = <<>> /\ todo' = [todo EXCEPT ![r] = <<i>>]
      /\ UNCHANGED <<holder, closing, coming, events>>
  BY ProcNames DEF PingTimeout, connVars, bounds
<1>2. Program(r, <<i>>) /\ \A l : ~Releases(<<i>>, l)
  <2>1. i \in InstructionsOf(r) /\ i.do = "close"
    BY Common, InstructionRecords DEF ConnSteps
  <2> QED BY <2>1, OneProgram
<1>3. /\ \A d \in Conns : r # reader(d) /\ r # errorSender(d) /\ r # handler(d)
      /\ \A e \in events' \cap {"reload", "delete", "signal"} : r # ofServer(e)
  BY EventNames
<1> HIDE DEF r, i
<1>4. Programs' /\ LocksHeld' /\ NotStarted'
  BY <1>1, <1>2, <1>3, StartsOne
<1>5. TablesTyped'
  BY DEF PingTimeout, ServingInv, TablesTyped, tableVars, connVars
<1>6. ServeTyped'
  BY DEF PingTimeout, ServingInv, ServeTyped, serveVars, bounds
<1> QED BY <1>4, <1>5, <1>6 DEF ServingInv

----------------------------------------------------------------------------
(* The invariant *)

\* Every step keeps the invariant.
LEMMA NextKeeps ==
    ServingInv /\ [Next]_vars => ServingInv'
<1> SUFFICES ASSUME ServingInv, [Next]_vars PROVE ServingInv'
  OBVIOUS
<1>1. CASE \E p \in Procs : Step(p)
  BY <1>1, StepKeeps
<1>2. CASE Outside
  BY <1>2, ReadIfaceKeeps, ReadPeerKeeps, FaultsKeep, EventsKeep, AcceptKeeps, PingTimeoutKeeps
     DEF Outside
<1>3. CASE UNCHANGED vars
  <2>1. UNCHANGED <<todo, holder, tableVars, connVars, serveError, exit, bounds>>
    BY <1>3 DEF vars, serveVars
  <2>2. Programs' /\ LocksHeld' /\ NotStarted'
    BY <2>1, NobodyMoves DEF ServingInv, ServeTyped, connVars, bounds, NothingNew
  <2>3. TablesTyped'
    BY <2>1 DEF ServingInv, TablesTyped, tableVars, connVars
  <2>4. ServeTyped'
    BY <2>1 DEF ServingInv, ServeTyped, bounds
  <2> QED BY <2>2, <2>3, <2>4 DEF ServingInv
<1>4. CASE Finished
  BY <1>3, <1>4 DEF Finished
<1> QED BY <1>1, <1>2, <1>3, <1>4 DEF Next

\* What the loop of the main interface and that of the listener have to do.
LEMMA LoopPrograms ==
    ASSUME NEW p, NEW i \in InstructionsOf(p), i.do \notin {"unlock", "serve"}, NEW e \in Errors
    PROVE  LET t == <<i>> \o setServeError(e) IN
           t \in Seq(InstructionsOf(p)) /\ ~Has(t, "unlock") /\ ~Has(t, "serve")
<1> DEFINE i2 == Do("testError", e)
           i3 == Do("setError", e)
           t == <<i>> \o <<i2, i3>>
<1>1. /\ i2 \in InstructionsOf(p) /\ i3 \in InstructionsOf(p)
      /\ i2.do = "testError" /\ i3.do = "setError"
  BY Common, InstructionRecords
<1> HIDE DEF i2, i3
<1>2. t \in Seq(InstructionsOf(p)) /\ \A n \in 1..Len(t) : t[n] \in {i, i2, i3}
  BY <1>1
<1> HIDE DEF t
<1>3. ~Has(t, "unlock") /\ ~Has(t, "serve")
  BY <1>1, <1>2 DEF Has
<1> QED BY <1>2, <1>3 DEF t, i2, i3, setServeError

\* Three instructions.
LEMMA ThreePrograms ==
    ASSUME NEW p, NEW i1 \in InstructionsOf(p), NEW i2 \in InstructionsOf(p),
           NEW i3 \in InstructionsOf(p), \A i \in {i1, i2, i3} : i.do \notin {"unlock", "serve"}
    PROVE  LET t == <<i1, i2, i3>> IN
           t \in Seq(InstructionsOf(p)) /\ ~Has(t, "unlock") /\ ~Has(t, "serve")
<1> DEFINE t == <<i1, i2, i3>>
<1>1. t \in Seq(InstructionsOf(p)) /\ \A n \in 1..Len(t) : t[n] \in {i1, i2, i3}
  OBVIOUS
<1> HIDE DEF t
<1>2. ~Has(t, "unlock") /\ ~Has(t, "serve")
  BY <1>1 DEF Has
<1> QED BY <1>1, <1>2 DEF t

\* Some instructions of a program.
LEMMA Part ==
    ASSUME NEW S, NEW t \in Seq(S), NEW m \in 1..Len(t), NEW n \in m..Len(t)
    PROVE  LET u == SubSeq(t, m, n) IN
           u \in Seq(S) /\ \A i \in 1..Len(u) : \E j \in m..n : u[i] = t[j]
<1>1. Len(t) \in Nat /\ m \in Int /\ n \in Int /\ m <= n /\ \A i \in m..n : t[i] \in S
  OBVIOUS
<1> DEFINE u == SubSeq(t, m, n)
<1>2. /\ u \in Seq(S) /\ Len(u) = n - m + 1
      /\ \A i \in 1..(n - m + 1) : u[i] = t[m + i - 1]
  BY <1>1, SubSeqProperties
<1> HIDE DEF u
<1>3. \A i \in 1..(n - m + 1) : m + i - 1 \in m..n
  BY <1>1
<1> QED BY <1>2, <1>3 DEF u

\* What the handler of a served connection has still to do.
LEMMA HandlerRest ==
    ASSUME NEW c \in Conns
    PROVE  LET u == SubSeq(serveSocket(c), 5, 7) IN
           u \in Seq(InstructionsOf(handler(c))) /\ ~Has(u, "unlock") /\ ~Has(u, "serve")
<1> DEFINE t == serveSocket(c)
           u == SubSeq(t, 5, 7)
<1>1. t \in Seq(InstructionsOf(handler(c)))
  BY HandlerProgram DEF Program
<1>2. 5 \in 1..Len(t) /\ 7 \in 5..Len(t)
  BY DEF serveSocket
<1>3. \A j \in 5..7 : t[j].do \in {"wait", "unlist", "close"}
  <2>1. t[5] = Do("wait", c) /\ t[6] = Do("unlist", c) /\ t[7] = Do("close", c)
    BY DEF serveSocket
  <2>2. \A j \in 5..7 : j \in {5, 6, 7}
    OBVIOUS
  <2> HIDE DEF t
  <2> QED BY <2>1, <2>2, InstructionRecords
<1> HIDE DEF t
<1>4. u \in Seq(InstructionsOf(handler(c))) /\ \A i \in 1..Len(u) : \E j \in 5..7 : u[i] = t[j]
  BY <1>1, <1>2, Part
<1> HIDE DEF u
<1>5. ~Has(u, "unlock") /\ ~Has(u, "serve")
  BY <1>3, <1>4 DEF Has
<1> QED BY <1>4, <1>5 DEF u, t

\* The programs at the start: critical sections are all still to come.
LEMMA FirstPrograms ==
    ASSUME NEW there \in Seq(Conns), InitWith(there)
    PROVE  /\ todo = [p \in Procs |-> todo[p]]
           /\ \A p \in Procs : /\ todo[p] \in Seq(InstructionsOf(p))
                               /\ ~Has(todo[p], "unlock") /\ ~Has(todo[p], "serve")
           /\ \A c \in Conns \ Range(there) : todo[handler(c)] = <<>> /\ todo[reader(c)] = <<>>
           /\ \A c \in Conns : todo[errorSender(c)] = <<>>
           /\ \A e \in {"reload", "delete", "signal"} : todo[ofServer(e)] = <<>>
<1> DEFINE first(p) ==
          CASE p = ofServer("main") ->
                  <<Do("readIface", "server")>> \o setServeError("main iface closed")
            [] p = ofServer("http") ->
                  <<Do("accept", "server")>> \o setServeError("http: Server closed")
            [] p = ofServer("serve") ->
                  <<Do("awaitError", "server"), Do("closeAll", "server"), Do("return", "server")>>
            [] p[1] = "handler" /\ p[2] \in Range(there) -> SubSeq(serveSocket(p[2]), 5, 7)
            [] p[1] = "reader" /\ p[2] \in Range(there) -> <<Do("readPeer", p[2])>>
            [] OTHER -> <<>>
           Plain(p, t) == t \in Seq(InstructionsOf(p)) /\ ~Has(t, "unlock") /\ ~Has(t, "serve")
<1>1. todo = [p \in Procs |-> first(p)]
  BY DEF InitWith
<1>2. Plain(ofServer("main"), first(ofServer("main")))
  <2> DEFINE p == ofServer("main")
             i == Do("readIface", "server")
  <2>1. i \in InstructionsOf(p) /\ i.do = "readIface" /\ "main iface closed" \in Errors
    BY Common, ProcNames, InstructionRecords DEF Errors
  <2>2. first(p) = <<i>> \o setServeError("main iface closed")
    BY DEF ofServer
  <2> HIDE DEF p, i, first
  <2> QED BY <2>1, <2>2, LoopPrograms DEF p
<1>3. Plain(ofServer("http"), first(ofServer("http")))
  <2> DEFINE p == ofServer("http")
             i == Do("accept", "server")
  <2>1. i \in InstructionsOf(p) /\ i.do = "accept" /\ "http: Server closed" \in Errors
    BY Common, InstructionRecords DEF Errors
  <2>2. first(p) = <<i>> \o setServeError("http: Server closed")
    BY DEF ofServer
  <2> HIDE DEF p, i, first
  <2> QED BY <2>1, <2>2, LoopPrograms DEF p
<1>4. Plain(ofServer("serve"), first(ofServer("serve")))
  <2> DEFINE p == ofServer("serve")
             i1 == Do("awaitError", "server")
             i2 == Do("closeAll", "server")
             i3 == Do("return", "server")
  <2>1. /\ i1 \in InstructionsOf(p) /\ i2 \in InstructionsOf(p) /\ i3 \in InstructionsOf(p)
        /\ i1.do = "awaitError" /\ i2.do = "closeAll" /\ i3.do = "return"
    BY Common, InstructionRecords
  <2>2. first(p) = <<i1, i2, i3>>
    BY DEF ofServer
  <2> HIDE DEF p, i1, i2, i3, first
  <2> QED BY <2>1, <2>2, ThreePrograms DEF p
<1>5. ASSUME NEW c \in Conns
      PROVE  /\ first(handler(c)) =
                   IF c \in Range(there) THEN SubSeq(serveSocket(c), 5, 7) ELSE <<>>
             /\ first(reader(c)) = IF c \in Range(there) THEN <<Do("readPeer", c)>> ELSE <<>>
             /\ first(errorSender(c)) = <<>> /\ first(pinger(c)) = <<>>
  BY DEF ofServer, handler, reader, errorSender, pinger
<1>6. \A e \in {"signal", "reload", "delete"} : first(ofServer(e)) = <<>>
  BY DEF ofServer
<1> HIDE DEF first
<1>7. \A p : Plain(p, << >>)
  BY None DEF Has
<1>8. ASSUME NEW c \in Conns PROVE Plain(handler(c), SubSeq(serveSocket(c), 5, 7))
  BY <1>8, HandlerRest
<1>9. ASSUME NEW c \in Conns PROVE Plain(reader(c), <<Do("readPeer", c)>>)
  <2> DEFINE p == reader(c)
             i == Do("readPeer", c)
  <2>1. i \in InstructionsOf(p) /\ i.do = "readPeer"
    BY Common, ProcNames, InstructionRecords
  <2> HIDE DEF p, i
  <2>2. <<i>> \in Seq(InstructionsOf(p)) /\ \A n \in 1..Len(<<i>>) : <<i>>[n] = i
    BY <2>1, One
  <2> QED BY <2>1, <2>2 DEF Has, p, i
<1> HIDE DEF Plain
<1>10. ASSUME NEW p \in Procs PROVE Plain(p, first(p))
  <2>1. \/ \E e \in {"main", "http", "serve", "signal", "reload", "delete"} : p = ofServer(e)
        \/ \E c \in Conns : p \in {handler(c), reader(c), pinger(c), errorSender(c)}
    BY DEF Procs, handler, reader, pinger, errorSender
  <2>2. \A c \in Conns : Plain(handler(c), first(handler(c))) /\ Plain(reader(c), first(reader(c)))
    BY <1>5, <1>7, <1>8, <1>9
  <2>3. \A c \in Conns : /\ Plain(pinger(c), first(pinger(c)))
                         /\ Plain(errorSender(c), first(errorSender(c)))
    BY <1>5, <1>7
  <2>4. \A e \in {"signal", "reload", "delete"} : Plain(ofServer(e), first(ofServer(e)))
    BY <1>6, <1>7
  <2> QED BY <1>2, <1>3, <1>4, <2>1, <2>2, <2>3, <2>4
<1>11. \A p \in Procs : todo[p] = first(p)
  BY <1>1
<1>12. \A p \in Procs : Plain(p, todo[p])
  BY <1>10, <1>11
<1>13. \A c \in Conns \ Range(there) : todo[handler(c)] = <<>> /\ todo[reader(c)] = <<>>
  BY <1>5, <1>11, ProcNames
<1>14. \A c \in Conns : todo[errorSender(c)] = <<>>
  BY <1>5, <1>11, ProcNames
<1>15. \A e \in {"reload", "delete", "signal"} : todo[ofServer(e)] = <<>>
  BY <1>6, <1>11, ProcNames
<1>16. todo = [p \in Procs |-> todo[p]]
  BY <1>1
<1> QED BY <1>12, <1>13, <1>14, <1>15, <1>16 DEF Plain

\* The invariant holds at the start.
LEMMA InitHolds ==
    Init => ServingInv
<1> SUFFICES ASSUME NEW setup \in Setups, InitWith(setup.there),
                    coming = setup.coming, events = setup.events,
                    packets = setup.packets, faults = setup.faults
             PROVE  ServingInv
  BY DEF Init
<1> DEFINE there == setup.there
<1>1. /\ there \in Seq(Conns) /\ coming \subseteq Conns \ Range(there)
      /\ packets \in Nat /\ faults \in Nat
  BY SetupsAssumption
<1>2. Range(there) \subseteq Conns
  BY <1>1 DEF Range
<1>3. /\ todo = [p \in Procs |-> todo[p]]
      /\ \A p \in Procs : /\ todo[p] \in Seq(InstructionsOf(p))
                          /\ ~Has(todo[p], "unlock") /\ ~Has(todo[p], "serve")
      /\ \A c \in Conns \ Range(there) : todo[handler(c)] = <<>> /\ todo[reader(c)] = <<>>
      /\ \A c \in Conns : todo[errorSender(c)] = <<>>
      /\ \A e \in {"reload", "delete", "signal"} : todo[ofServer(e)] = <<>>
  BY <1>1, FirstPrograms
<1>4. \A p \in Procs : Program(p, todo[p]) /\ \A l : ~Releases(todo[p], l)
  BY <1>3, PlainProgram
<1>5. Programs
  BY <1>3, <1>4 DEF Programs
<1>6. holder = [l \in Locks |-> Nobody]
  BY DEF InitWith
<1>7. LocksHeld
  BY <1>4, <1>6, NobodyAssumption DEF LocksHeld
<1>8. NotStarted
  BY <1>1, <1>3, ProcNames DEF NotStarted
<1>9. TablesTyped
  <2>1. closers = <<"mainIface", "http">> \o there /\ userSocks = there
    BY DEF InitWith
  <2>2. closers \in Seq(Conns \cup {"mainIface", "http"})
    <3>1. /\ <<"mainIface", "http">> \in Seq(Conns \cup {"mainIface", "http"})
          /\ there \in Seq(Conns \cup {"mainIface", "http"})
      BY <1>1
    <3> HIDE DEF there
    <3> QED BY <2>1, <3>1, Concatenated
  <2> QED BY <1>1, <1>2, <2>1, <2>2 DEF InitWith, TablesTyped
<1>10. ServeTyped
  BY <1>1 DEF InitWith, ServeTyped
<1> QED BY <1>5, <1>7, <1>8, <1>9, <1>10 DEF ServingInv

\* The invariant holds always.
LEMMA Invariance ==
    Spec => []ServingInv
<1> QED BY InitHolds, NextKeeps, PTL DEF Spec

----------------------------------------------------------------------------
(* What follows *)

\* An instruction that may be in a program is one that the code has.
LEMMA Formed ==
    ASSUME NEW i \in Instructions
    PROVE  WellFormed(i)
<1>1. /\ i.do \in ConnSteps => i.arg \in Conns
      /\ i.do \in {"testError", "setError"} => i.arg \in Errors
      /\ i.do = "closeOther" => i.arg \in {"mainIface", "http"}
      /\ i.do = "exit" => i.arg \in {"clean", "panic"}
      /\ i.do = "unlock" => i.arg \in Locks
      /\ i.do \in ServerSteps => i.arg = "server"
  BY Arguments, LockNames
<1>2. i.do \in ConnSteps \cup ServerSteps
                 \cup {"testError", "setError", "closeOther", "exit", "unlock"}
  BY DEF Instructions
<1> QED BY <1>1, <1>2 DEF WellFormed, ConnSteps, ServerSteps, Errors

\* The error channel is closed or not.
ChannelTyped == notified \in BOOLEAN

\* That holds always.
LEMMA Closed ==
    Spec => []ChannelTyped
<1>1. Init => ChannelTyped
  BY DEF Init, InitWith, ChannelTyped
<1>2. ChannelTyped /\ [Next]_vars => ChannelTyped'
  <2> SUFFICES ASSUME ChannelTyped, [Next]_vars, notified' # notified
               PROVE  notified' = TRUE
    BY Zenon DEF ChannelTyped
  <2>1. Next /\ ~UNCHANGED vars
    BY DEF vars, serveVars
  <2>2. ~Outside
    BY DEF Outside, ReadIface, Reload, IfaceFails, Signal, Happens, Accept, ReadPeer, PingTimeout,
           Stall, StallEnds, PeerLeaves, Delete, serveVars
  <2>3. PICK p \in Procs : Step(p)
    BY <2>1, <2>2 DEF Next, Finished
  <2>4. SetError(p)
    BY <2>3 DEF Step, Unlock, WriteReturns, WriteWaits, CloseAdapter, CloseOther, Close,
           CloseError, AddCloser, Admit, Serve, WaitReturns, Unlist, ReadIfaceFails, ReadPeerFails,
           SetMTU, LookUp, AcceptFails, CloseAll, TestError, AwaitError, Return, Exit, serveVars
  <2> QED BY <2>4 DEF SetError
<1> QED BY <1>1, <1>2, PTL DEF Spec

\* The types, and that a lock is held exactly by the goroutine that is going to release it,
\* through every call inside another and every way to fail (Server.SetMTU, serveSocket,
\* Socket.Close, Socket.CloseError, closeAll and the adapters' writes).
THEOREM TypeCorrect ==
    Spec => []TypeOK
<1>1. ServingInv /\ ChannelTyped => TypeOK
  <2> SUFFICES ASSUME ServingInv, notified \in BOOLEAN PROVE TypeOK
    BY DEF ChannelTyped
  <2>1. DOMAIN todo = Procs
    BY DEF ServingInv, Programs
  <2>2. ASSUME NEW p \in Procs
        PROVE  /\ DOMAIN todo[p] = 1..Len(todo[p])
               /\ \A i \in DOMAIN todo[p] : WellFormed(todo[p][i])
    <3>1. todo[p] \in Seq(InstructionsOf(p)) /\ InstructionsOf(p) \subseteq Instructions
      BY DEF ServingInv, Programs, Program, InstructionsOf
    <3>2. /\ DOMAIN todo[p] = 1..Len(todo[p])
          /\ \A i \in DOMAIN todo[p] : todo[p][i] \in Instructions
      BY <3>1
    <3> QED BY <3>2, Formed
  <2>3. /\ \A i \in DOMAIN userSocks : userSocks[i] \in Conns
        /\ \A i \in DOMAIN closers : closers[i] \in Conns \cup {"mainIface", "http"}
    BY DEF ServingInv, TablesTyped
  <2>4. ASSUME NEW p \in {q \in Procs : todo[q] # <<>>}
        PROVE  LET releases ==
                      {todo[p][i].arg : i \in {j \in DOMAIN todo[p] : todo[p][j].do = "unlock"}}
               IN  \A l \in Locks : holder[l] = p <=>
                      \/ l \in releases
                      \/ holder[l] = p /\ l[1] = "writeLock" /\ Head(todo[p]) = Do("write", l[2])
    <3> DEFINE releases ==
                  {todo[p][i].arg : i \in {j \in DOMAIN todo[p] : todo[p][j].do = "unlock"}}
    <3>1. \A l \in Locks : l \in releases <=> Releases(todo[p], l)
      BY <2>2 DEF Releases
    <3> HIDE DEF releases
    <3>2. ASSUME NEW l \in Locks, holder[l] = p, ~Releases(todo[p], l)
          PROVE  l[1] = "writeLock" /\ Head(todo[p]) = Do("write", l[2])
      <4>1. WritesUnder(todo[p], l)
        BY <3>2 DEF ServingInv, LocksHeld
      <4> QED BY <4>1 DEF WritesUnder, writeLock
    <3>3. \A l \in Locks : Releases(todo[p], l) => holder[l] = p
      BY DEF ServingInv, LocksHeld
    <3>4. \A l \in Locks : holder[l] = p <=>
             \/ l \in releases
             \/ holder[l] = p /\ l[1] = "writeLock" /\ Head(todo[p]) = Do("write", l[2])
      BY <3>1, <3>2, <3>3
    <3> QED BY <3>4 DEF releases
  <2>5. ASSUME NEW l \in Locks PROVE holder[l] = Nobody \/ todo[holder[l]] # <<>>
    <3> SUFFICES ASSUME holder[l] # Nobody, todo[holder[l]] = <<>> PROVE FALSE
      OBVIOUS
    <3> DEFINE p == holder[l]
    <3>1. p \in Procs /\ (Releases(todo[p], l) \/ WritesUnder(todo[p], l))
      BY DEF ServingInv, LocksHeld
    <3>2. ~Releases(<< >>, l) /\ ~WritesUnder(<< >>, l)
      BY DEF Releases, WritesUnder
    <3> QED BY <3>1, <3>2
  <2>6. holder \in [Locks -> Procs \cup {Nobody}]
    BY DEF ServingInv, LocksHeld
  <2>7. /\ sockets \subseteq Conns /\ routes \subseteq Conns /\ closing \subseteq Conns
        /\ open \subseteq Conns \cup {"mainIface", "http"} /\ stalled \subseteq Conns \cap open
    BY DEF ServingInv, TablesTyped
  <2>8. /\ serveError \in {"nil", "none", "main iface closed", "http: Server closed"}
        /\ exit \in {"running", "clean", "panic"}
        /\ coming \subseteq Conns /\ \E setup \in Setups : events \subseteq setup.events
        /\ packets \in Nat /\ faults \in Nat
    BY DEF ServingInv, ServeTyped, Errors
  <2> QED BY <2>1, <2>2, <2>3, <2>4, <2>5, <2>6, <2>7, <2>8, Zenon DEF TypeOK
<1> QED BY <1>1, Invariance, Closed, PTL

\* Whoever waits for a lock holds only locks of a lower rank.
LEMMA Ordered ==
    ServingInv => LockOrder
<1> SUFFICES ASSUME ServingInv, NEW p \in Procs, NEW l \in Locks, NEW wanted \in Locks,
                    holder[l] = p, Waiting(p, wanted)
             PROVE  Rank(l) < Rank(wanted)
  BY DEF LockOrder
<1> DEFINE i == Head(todo[p])
<1>1. todo[p] # <<>> /\ Needs(wanted, i) /\ holder[wanted] # p /\ Program(p, todo[p])
  BY DEF Waiting, ServingInv, Programs
<1>2. /\ i \in InstructionsOf(p) /\ i \in Instructions
      /\ \A k \in Locks : Releases(Tail(todo[p]), k) => Rank(k) < Depth(p, i)
  BY <1>1, HeadDepth
<1>3. /\ Depth(p, i) <= Rank(wanted) /\ i.do # "unlock"
      /\ \A c \in Conns : wanted = writeLock(c) => i.arg = c /\ i.do \in {"write", "closeAdapter"}
  BY <1>1, <1>2, WhoNeeds
<1>4. CASE Releases(todo[p], l)
  <2>1. Rank(l) < Depth(p, i)
    BY <1>1, <1>2, <1>3, <1>4, TailProgram
  <2>2. Depth(p, i) \in 0..3
    BY <1>2, Depths
  <2> QED BY <1>3, <2>1, <2>2, Ranks
<1>5. CASE WritesUnder(todo[p], l)
  <2>1. PICK c \in Conns : l = writeLock(c) /\ i = Do("write", c)
    BY <1>5 DEF WritesUnder
  <2>2. i.do = "write" /\ i.arg = c
    BY <2>1, InstructionRecords
  <2>3. wanted \notin OuterLocks
    <3> HIDE DEF i
    <3>1. Needs(wanted, i) /\ i.do = "write"
      BY <1>1, <2>2
    <3>2. wanted # socketsLock /\ wanted # closerLock
      <4>1. ASSUME wanted = socketsLock PROVE FALSE
        BY <3>1, <4>1 DEF Needs, socketsLock, closerLock
      <4>2. ASSUME wanted = closerLock PROVE FALSE
        BY <3>1, <4>2 DEF Needs, socketsLock, closerLock
      <4> QED BY <4>1, <4>2
    <3>3. ASSUME NEW d \in Conns, wanted = closeLock(d) PROVE FALSE
      BY <1>1, <2>2, <3>2, <3>3 DEF Needs, closeLock
    <3> QED BY <3>2, <3>3, LockNames
  <2>4. wanted = writeLock(c)
    BY <1>3, <2>2, <2>3, LockNames
  <2> QED BY <1>1, <2>1, <2>4
<1> QED BY <1>4, <1>5 DEF ServingInv, LocksHeld

\* The locks are taken in one order by all goroutines, however Close, CloseError and closeAll
\* are called inside one another: for any connections, limit, packets and faults.
THEOREM LocksInOrder ==
    Spec => []LockOrder
<1> QED BY Ordered, Invariance, PTL

\* No goroutines wait for each other in a circle: the ranks of the locks they wait for would
\* grow without end.
THEOREM NobodyWaitsInACircle ==
    Spec => []NoCircle
<1>1. ServingInv => NoCircle
  <2> SUFFICES ASSUME LockOrder,
                      NEW waiting \in SUBSET {p \in Procs : \E l \in Locks : Waiting(p, l)},
                      \A p \in waiting : \E l \in Locks : Waiting(p, l) /\ holder[l] \in waiting,
                      NEW p0 \in waiting
               PROVE  FALSE
    BY Ordered DEF NoCircle
  <2>1. ASSUME NEW p \in waiting, NEW l \in Locks, Waiting(p, l), holder[l] \in waiting
        PROVE  \E k \in Locks : /\ Waiting(holder[l], k) /\ holder[k] \in waiting
                                /\ Rank(l) < Rank(k)
    <3>1. PICK k \in Locks : Waiting(holder[l], k) /\ holder[k] \in waiting
      BY <2>1
    <3>2. holder[l] \in Procs
      BY <2>1
    <3> QED BY <3>1, <3>2 DEF LockOrder
  <2>2. PICK l0 \in Locks : Waiting(p0, l0) /\ holder[l0] \in waiting
    OBVIOUS
  <2>3. PICK l1 \in Locks : Waiting(holder[l0], l1) /\ holder[l1] \in waiting /\ Rank(l0) < Rank(l1)
    BY <2>1, <2>2
  <2>4. PICK l2 \in Locks : Waiting(holder[l1], l2) /\ holder[l2] \in waiting /\ Rank(l1) < Rank(l2)
    BY <2>1, <2>2, <2>3
  <2>5. PICK l3 \in Locks : Waiting(holder[l2], l3) /\ holder[l3] \in waiting /\ Rank(l2) < Rank(l3)
    BY <2>1, <2>3, <2>4
  <2>6. {Rank(l0), Rank(l1), Rank(l2), Rank(l3)} \subseteq 1..3
    BY Ranks
  <2> QED BY <2>3, <2>4, <2>5, <2>6
<1> QED BY <1>1, Invariance, PTL

\* Where goroutines wait for each other, there is one that has a lock and waits for none
\* that somebody has.
Blocked(p) == \E l \in Locks : Waiting(p, l) /\ holder[l] # Nobody

HolderGoesOn ==
    (\E p \in Procs : Blocked(p)) =>
        \E q \in Procs : ~Blocked(q) /\ \E l \in Locks : holder[l] = q

\* As long as somebody waits for a lock that is taken, whoever has the last lock of the chain can
\* go on; a write to a peer that does not read is all that it may wait for.
THEOREM SomebodyGoesOn ==
    Spec => []HolderGoesOn
<1>1. ServingInv /\ NoCircle => HolderGoesOn
  <2> SUFFICES ASSUME ServingInv, NoCircle, NEW p0 \in Procs, Blocked(p0),
                      \A q \in Procs, l \in Locks : holder[l] = q => Blocked(q)
               PROVE  FALSE
    BY DEF HolderGoesOn
  <2> DEFINE waiting == {p \in Procs : Blocked(p)}
  <2>1. waiting \in SUBSET {p \in Procs : \E l \in Locks : Waiting(p, l)}
    BY DEF Blocked
  <2>2. \A p \in waiting : \E l \in Locks : Waiting(p, l) /\ holder[l] \in waiting
    <3> SUFFICES ASSUME NEW p \in waiting
                 PROVE  \E l \in Locks : Waiting(p, l) /\ holder[l] \in waiting
      OBVIOUS
    <3>1. PICK l \in Locks : Waiting(p, l) /\ holder[l] # Nobody
      BY DEF Blocked
    <3>2. holder[l] \in Procs
      BY <3>1 DEF ServingInv, LocksHeld
    <3> QED BY <3>1, <3>2
  <2>3. p0 \in waiting
    OBVIOUS
  <2> HIDE DEF waiting
  <2>4. waiting = {}
    BY <2>1, <2>2 DEF NoCircle
  <2> QED BY <2>3, <2>4
<1> QED BY <1>1, Invariance, NobodyWaitsInACircle, PTL

----------------------------------------------------------------------------
(* How locks change hands *)

\* A lock is taken from nobody and given back to nobody, in a step of the goroutine that
\* takes it or has it; or the process ends.
ChangesHands ==
    \A l \in Locks : holder'[l] # holder[l] =>
        \/ exit' # "running"
        \/ \E p \in Procs : Step(p) /\ {holder[l], holder'[l]} = {p, Nobody}

\* So it is when p takes a free lock for a critical section.
LEMMA TakenFree ==
    ASSUME LocksHeld, NEW p \in Procs, NEW k \in Locks, NEW t, Holding(p, k, t), Free(k)
    PROVE  \A l \in Locks : holder'[l] # holder[l] => {holder[l], holder'[l]} = {p, Nobody}
<1>1. UNCHANGED holder \/ holder' = [holder EXCEPT ![k] = p]
  BY DEF Holding
<1> QED BY <1>1 DEF LocksHeld, Free

\* In each step of a goroutine.
LEMMA StepHands ==
    ASSUME ServingInv, NEW p \in Procs, Step(p), exit' = "running"
    PROVE  \A l \in Locks : holder'[l] # holder[l] => {holder[l], holder'[l]} = {p, Nobody}
<1>1. LocksHeld /\ Programs
  BY DEF ServingInv
<1>2. ASSUME NEW w \in ConnSteps, At(p, w) PROVE Arg(p) \in Conns
  BY <1>1, <1>2, AtHead, Arguments
<1>3. CASE UNCHANGED holder
  BY <1>3
<1>4. CASE Unlock(p)
  <2> DEFINE k == Arg(p)
  <2>1. At(p, "unlock") /\ holder' = [holder EXCEPT ![k] = Nobody]
    BY <1>4 DEF Unlock
  <2>2. /\ todo[p] # <<>> /\ Program(p, todo[p]) /\ Head(todo[p]) \in Instructions
        /\ Head(todo[p]).do = "unlock" /\ Head(todo[p]).arg = k
    BY <1>1, <2>1, AtHead
  <2>3. Len(todo[p]) \in Nat /\ Len(todo[p]) >= 1 /\ Head(todo[p]) = todo[p][1]
    BY <2>2 DEF Program
  <2> HIDE DEF k
  <2>4. Releases(todo[p], k) /\ k \in Locks
    BY <2>2, <2>3, Arguments, LockNames DEF Releases
  <2>5. holder[k] = p
    BY <1>1, <2>4 DEF LocksHeld
  <2> QED BY <1>1, <2>1, <2>4, <2>5 DEF LocksHeld
<1>5. CASE WriteReturns(p)
  <2> DEFINE k == writeLock(Arg(p))
  <2>1. At(p, "write") /\ holder[k] \in {Nobody, p} /\ holder' = [holder EXCEPT ![k] = Nobody]
    BY <1>5 DEF WriteReturns
  <2> HIDE DEF k
  <2> QED BY <1>1, <2>1 DEF LocksHeld
<1>6. CASE WriteWaits(p)
  <2> DEFINE k == writeLock(Arg(p))
  <2>1. At(p, "write") /\ holder[k] = Nobody /\ holder' = [holder EXCEPT ![k] = p]
    BY <1>6 DEF WriteWaits, Free
  <2> HIDE DEF k
  <2> QED BY <1>1, <2>1 DEF LocksHeld
<1>7. CASE Close(p)
  <2>1. At(p, "close") /\ Free(closeLock(Arg(p))) /\ \E t : Holding(p, closeLock(Arg(p)), t)
    BY <1>7 DEF Close
  <2>2. closeLock(Arg(p)) \in Locks
    BY <1>2, <2>1, LockNames DEF ConnSteps
  <2> QED BY <1>1, <2>1, <2>2, TakenFree
<1>8. CASE CloseError(p)
  <2>1. /\ At(p, "closeError") /\ Free(closeLock(Arg(p)))
        /\ UNCHANGED holder \/ \E t : Holding(p, closeLock(Arg(p)), t)
    BY <1>8 DEF CloseError
  <2>2. closeLock(Arg(p)) \in Locks
    BY <1>2, <2>1, LockNames DEF ConnSteps
  <2> QED BY <1>1, <1>3, <2>1, <2>2, TakenFree
<1>9. CASE Admit(p) \/ SetMTU(p)
  <2>1. Free(socketsLock) /\ \E t : Holding(p, socketsLock, t)
    BY <1>9 DEF Admit, SetMTU
  <2> QED BY <1>1, <2>1, TakenFree, LockNames
<1>10. CASE CloseAll(p)
  <2>1. Free(closerLock) /\ \E t : Holding(p, closerLock, t)
    BY <1>10 DEF CloseAll
  <2> QED BY <1>1, <2>1, TakenFree, LockNames
<1>11. CASE SetError(p) \/ Exit(p)
  <2>1. UNCHANGED holder \/ exit' \in {"clean", "panic"}
    <3>1. ASSUME Exit(p) PROVE Arg(p) \in {"clean", "panic"}
      BY <1>1, <3>1, AtHead, Arguments DEF Exit
    <3> QED BY <1>11, <3>1 DEF SetError, Exit, End
  <2> QED BY <1>3, <2>1
<1>12. CASE \/ CloseAdapter(p) \/ CloseOther(p) \/ AddCloser(p) \/ Serve(p) \/ WaitReturns(p)
            \/ Unlist(p) \/ ReadIfaceFails(p) \/ ReadPeerFails(p) \/ LookUp(p) \/ AcceptFails(p)
            \/ TestError(p) \/ AwaitError(p) \/ Return(p)
  BY <1>3, <1>12 DEF CloseAdapter, CloseOther, AddCloser, Serve, WaitReturns, Unlist,
     ReadIfaceFails, ReadPeerFails, LookUp, AcceptFails, TestError, AwaitError, Return
<1> QED
  BY <1>4, <1>5, <1>6, <1>7, <1>8, <1>9, <1>10, <1>11, <1>12 DEF Step

\* Nobody takes over a lock that another goroutine has or gives it back in its place, although a
\* Go mutex would let it: every Unlock of the code is done by the goroutine that locked.
THEOREM LocksChangeHands ==
    Spec => [][ChangesHands]_vars
<1>1. ServingInv /\ [Next]_vars => [ChangesHands]_vars
  <2> SUFFICES ASSUME ServingInv, Next PROVE ChangesHands \/ UNCHANGED vars
    OBVIOUS
  <2>1. ASSUME NEW p \in Procs, Step(p) PROVE ChangesHands
    BY <2>1, StepHands DEF ChangesHands
  <2>2. CASE Outside
    <3>1. UNCHANGED holder
      BY <2>2 DEF Outside, ReadIface, Reload, IfaceFails, Signal, Happens, Accept, ReadPeer,
         PingTimeout, Stall, StallEnds, PeerLeaves, Delete
    <3> QED BY <3>1 DEF ChangesHands
  <2> QED BY <2>1, <2>2 DEF Next, Finished
<1> QED BY <1>1, Invariance, PTL DEF Spec
=============================================================================
