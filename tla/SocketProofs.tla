---------------------------- MODULE SocketProofs ----------------------------
(***************************************************************************)
(* Proofs about Socket: for any number of closes ordered from outside and  *)
(* every kind of socket, the up and down scripts are paired and a socket   *)
(* whose handler is done is closed.                                        *)
(***************************************************************************)
EXTENDS Socket, SequenceTheorems, TLAPS

----------------------------------------------------------------------------
(* The inductive invariant *)

\* The types, the Boolean variables apart.
ControlTyped ==
    /\ kind \in Kinds
    /\ pc \in [Callers -> Stages]
    /\ lock \in [by : Callers \cup {"nobody"}, next : Stages,
                 error : BOOLEAN, first : BOOLEAN]

FlagsTyped ==
    /\ isClosing \in BOOLEAN /\ isReady \in BOOLEAN
    /\ closeChanOpen \in BOOLEAN /\ upEventSent \in BOOLEAN
    /\ versionKnown \in BOOLEAN /\ adapterReady \in BOOLEAN
    /\ registered \in BOOLEAN /\ lateRegister \in BOOLEAN
    /\ welcomed \in BOOLEAN /\ initSent \in BOOLEAN

WorldTyped ==
    /\ adapter \in {"open", "closed"}
    /\ iface \in {"none", "open", "closed"}
    /\ ~Managed => iface = "none"
    /\ Managed => ~registered
    /\ adminCalls \in 0..MaxAdmin

Typed == ControlTyped /\ FlagsTyped /\ WorldTyped

HandlerStages == {"register", "start", "adapterReady", "adapterNotReady", "adapterAsleep",
                  "startReader", "upEvent", "waitReady", "notReady", "asleep", "init",
                  "initUnwritten", "initFailed", "wait", "deferred", "cleanup",
                  "done"}
AdapterStages == {"off", "opening", "run", "reply", "replyFailed", "initializing",
                  "ended", "gone"}
TimerStages == {"off", "run", "ended", "gone"}

\* Where each goroutine can be.
Located ==
    /\ pc["handler"] \in HandlerStages
    /\ pc["adapter"] \in AdapterStages
    /\ pc["ping"] \in TimerStages
    /\ pc["reader"] \in TimerStages
    /\ pc["welcome"] \in {"off", "send", "failed", "gone"}
    /\ pc["errorer"] \in {"off", "send", "failed", "close", "gone"}
    /\ pc["admin"] = "run"

\* Whoever is in close() under closeLock is still where it called it from, and goes
\* on from there.
HeldBy(t, stage, next) == lock.by = t /\ pc[t] = stage /\ lock.next = next

LockInv ==
    \/ lock = Free
    \/ HeldBy("handler", "initUnwritten", "initFailed")
    \/ HeldBy("handler", "initFailed", "deferred")
    \/ HeldBy("handler", "deferred", "cleanup")
    \/ HeldBy("adapter", "replyFailed", "run")
    \/ HeldBy("adapter", "ended", "gone")
    \/ HeldBy("ping", "ended", "gone")
    \/ HeldBy("reader", "ended", "gone")
    \/ HeldBy("welcome", "failed", "gone")
    \/ HeldBy("errorer", "failed", "close")
    \/ HeldBy("admin", "run", "run")

\* closeChan is closed with isClosing, by whoever takes closeLock to close.
ClosingInv ==
    /\ closeChanOpen = ~isClosing
    /\ lock # Free => isClosing

\* The goroutines the handler has not started yet, and what only one role has.
NotStarted == {"register", "start"}
NoReaderYet == NotStarted \cup {"adapterReady", "adapterNotReady", "adapterAsleep",
                                "startReader"}

StartInv ==
    /\ pc["handler"] \in NotStarted => pc["adapter"] = "off" /\ pc["ping"] = "off"
    /\ pc["handler"] \in NoReaderYet =>
          /\ pc["welcome"] = "off" /\ ~welcomed
          /\ pc["reader"] = "off"
          /\ Role = "client" => iface = "none"
          /\ pc["adapter"] # "initializing"
    /\ iface = "none" => pc["reader"] = "off"
    /\ pc["adapter"] = "initializing" => Role = "client" /\ iface = "none"

\* The client's handler waits for the adapter's goroutine before it closes.
Stopped == {"off", "ended", "gone"}

WaitInv ==
    /\ pc["handler"] \in {"waitReady", "notReady", "asleep", "init", "initUnwritten",
                           "initFailed"}
          => Role = "server"
    /\ Role = "client" /\ pc["handler"] \in {"deferred", "cleanup", "done"}
          => pc["adapter"] \in Stopped

\* An up event without its down is left only to a close() that will follow or is
\* under way, and so is a registration.
EventInv ==
    /\ events \in {<<>>, <<"up">>, <<"up", "down">>}
    /\ upEventSent <=> events = <<"up">>
    /\ pc["handler"] \in NoReaderYet \cup {"upEvent"} => events = <<>>
    /\ isClosing /\ lock = Free => ~upEventSent

RegisteredInv ==
    isClosing /\ lock = Free /\ registered => lateRegister

ClosedInv ==
    /\ pc["handler"] \in {"cleanup", "done"} =>
          isClosing /\ ~upEventSent /\ (registered => lateRegister)
    /\ pc["handler"] = "done" => adapter = "closed" /\ iface # "open"

Placed == Located /\ LockInv /\ StartInv /\ WaitInv

CloseInv == ClosingInv /\ EventInv /\ RegisteredInv /\ ClosedInv

\* The down event follows the up event.
LEMMA DownFollowsUp ==
    /\ Append(<<"up">>, "down") = <<"up", "down">>
    /\ <<"up", "down">> # <<"up">>
    /\ <<>> # <<"up">>
    /\ {<<>>, <<"up">>, <<"up", "down">>} \subseteq Seq({"up", "down"})
<1>1. Append(<<"up">>, "down") = <<"up", "down">>
  <2> DEFINE s == Append(<<"up">>, "down")
             t == <<"up", "down">>
  <2>1. <<"up">> \in Seq({"up", "down"})
    OBVIOUS
  <2>2. s \in Seq({"up", "down"}) /\ Len(s) = 2 /\ s[1] = "up" /\ s[2] = "down"
    BY <2>1
  <2>3. t \in Seq({"up", "down"}) /\ Len(t) = 2 /\ t[1] = "up" /\ t[2] = "down"
    OBVIOUS
  <2> HIDE DEF s, t
  <2>4. Len(s) = Len(t) /\ \A i \in 1..Len(s) : s[i] = t[i]
    BY <2>2, <2>3
  <2>5. s = t
    BY <2>2, <2>3, <2>4, SeqEqual
  <2> QED BY <2>5 DEF s, t
<1>2. Len(<<>>) = 0 /\ Len(<<"up">>) = 1 /\ Len(<<"up", "down">>) = 2
  OBVIOUS
<1>3. <<>> \in Seq({"up", "down"})
  OBVIOUS
<1>4. <<"up">> \in Seq({"up", "down"}) /\ <<"up", "down">> \in Seq({"up", "down"})
  OBVIOUS
<1> QED BY <1>1, <1>2, <1>3, <1>4

----------------------------------------------------------------------------
(* Initially *)

\* A socket that MakeSocket has just returned.
LEMMA SocketInit == Init => Typed /\ Placed /\ CloseInv
<1> SUFFICES ASSUME Init PROVE Typed /\ Placed /\ CloseInv
  OBVIOUS
<1> USE DEF Init
<1>1. ControlTyped
  <2>1. kind \in Kinds /\ lock = Free
    OBVIOUS
  <2>2. pc \in [Callers -> Stages]
    BY DEF Callers, Counted, Stages
  <2>3. Free \in [by : Callers \cup {"nobody"}, next : Stages, error : BOOLEAN,
      first : BOOLEAN]
    BY DEF Free, Stages
  <2> QED BY <2>1, <2>2, <2>3 DEF ControlTyped
<1>2. FlagsTyped
  BY DEF FlagsTyped
<1>3. WorldTyped
  BY AdminAssumption DEF WorldTyped
<1>4. /\ pc["handler"] = IF Role = "server" THEN "register" ELSE "start"
      /\ pc["admin"] = "run"
      /\ \A t \in {"adapter", "ping", "reader", "welcome", "errorer"} : pc[t] = "off"
  BY DEF Callers, Counted
<1>5. Role \in {"server", "client"}
  BY DEF Kinds, Role
<1>6. Placed
  BY <1>4, <1>5 DEF Placed, Located, Free, LockInv, StartInv, WaitInv, HandlerStages,
      AdapterStages,
     TimerStages, NotStarted, NoReaderYet
<1>7. ClosingInv
  BY DEF ClosingInv
<1>8. EventInv
  BY DownFollowsUp DEF EventInv
<1>9. RegisteredInv /\ ClosedInv
  BY <1>4 DEF RegisteredInv, ClosedInv
<1> QED BY <1>1, <1>2, <1>3, <1>6, <1>7, <1>8, <1>9 DEF Typed, CloseInv

----------------------------------------------------------------------------
(* Typing *)

\* Every step keeps the types of pc and of closeLock.
LEMMA ControlTypes == ControlTyped /\ [Next]_vars => ControlTyped'
<1> SUFFICES ASSUME ControlTyped, [Next]_vars PROVE ControlTyped'
  OBVIOUS
<1> USE DEF flags, world, rest, talk, vars, Move, ControlTyped
<1>1. CASE Register
  BY <1>1 DEF Register, Callers, Counted, Stages
<1>2. CASE Start
  BY <1>2 DEF Start, Callers, Counted, Stages
<1>3. CASE CheckAdapterReady
  BY <1>3 DEF CheckAdapterReady, Callers, Counted, Stages
<1>4. CASE SleepAdapterReady
  BY <1>4 DEF SleepAdapterReady, Callers, Counted, Stages
<1>5. CASE StartReader
  BY <1>5 DEF StartReader, Callers, Counted, Stages
<1>6. CASE UpEvent
  BY <1>6 DEF UpEvent, Callers, Counted, Stages
<1>7. CASE CheckReady
  BY <1>7 DEF CheckReady, Callers, Counted, Stages
<1>8. CASE Sleep
  BY <1>8 DEF Sleep, Callers, Counted, Stages
<1>9. CASE SendInit
  BY <1>9 DEF SendInit, Callers, Counted, Stages
<1>10a. CASE InitUnwritten
  BY <1>10a DEF InitUnwritten, EnterCloseError, Callers, Counted, Stages
<1>10. CASE InitFailed
  BY <1>10 DEF InitFailed, EnterCloseError, Callers, Counted, Stages
<1>11. CASE Wait
  BY <1>11 DEF Wait, Callers, Counted, Stages
<1>12. CASE DeferredClose
  <2>1. "handler" \in Callers /\ "cleanup" \in Stages /\ kind' = kind
    BY <1>12 DEF DeferredClose, EnterClose, Callers, Counted, Stages
  <2>2. pc' \in [Callers -> Stages]
    BY <1>12, <2>1 DEF DeferredClose, EnterClose
  <2>3. CASE isClosing
    BY <1>12, <2>1, <2>2, <2>3 DEF DeferredClose, EnterClose
  <2>4. CASE ~isClosing
    <3>1. lock' = [by |-> "handler", next |-> "cleanup", error |-> FALSE, first |-> TRUE]
      BY <1>12, <2>4 DEF DeferredClose, EnterClose
    <3> QED BY <2>1, <2>2, <3>1
  <2> QED BY <2>3, <2>4
<1>13. CASE Cleanup
  BY <1>13 DEF Cleanup, Callers, Counted, Stages
<1>14. CASE OpenStream
  BY <1>14 DEF OpenStream, Callers, Counted, Stages
<1>15. CASE SetInterface
  BY <1>15 DEF SetInterface, Callers, Counted, Stages
<1>16. CASE Reply
  BY <1>16 DEF Reply, Callers, Counted, Stages
<1>17. CASE ReplyFailed
  BY <1>17 DEF ReplyFailed, EnterCloseError, Callers, Counted, Stages
<1>18. CASE AdapterEnds
  BY <1>18 DEF AdapterEnds, Callers, Counted, Stages
<1>19. CASE PingStops
  BY <1>19 DEF PingStops, Callers, Counted, Stages
<1>20. CASE ReaderStops
  BY <1>20 DEF ReaderStops, Callers, Counted, Stages
<1>21. CASE SendWelcome
  BY <1>21 DEF SendWelcome, Callers, Counted, Stages
<1>22. CASE WelcomeFailed
  BY <1>22 DEF WelcomeFailed, EnterCloseError, Callers, Counted, Stages
<1>23. CASE SendError
  BY <1>23 DEF SendError, Callers, Counted, Stages
<1>24. CASE ErrorFailed
  BY <1>24 DEF ErrorFailed, EnterCloseError, Callers, Counted, Stages
<1>25. CASE ErrorCloses
  BY <1>25 DEF ErrorCloses, Callers, Counted, Stages
<1>26. CASE FinishClose
  <2>1. lock.next \in Stages /\ "send" \in Stages /\ "waitReady" \in Stages
    BY DEF Stages
  <2>2. /\ kind' = kind /\ lock' = Free
        /\ pc' = [t \in Callers |->
                    IF t = lock.by THEN lock.next
                    ELSE IF t = "errorer" /\ lock.error /\ lock.first THEN "send"
                    ELSE IF t = "handler" /\ pc[t] = "asleep" THEN "waitReady"
                    ELSE pc[t]]
    BY <1>26 DEF FinishClose
  <2>3. pc' \in [Callers -> Stages]
    BY <2>1, <2>2
  <2>4. Free \in [by : Callers \cup {"nobody"}, next : Stages, error : BOOLEAN,
      first : BOOLEAN]
    BY DEF Free, Stages
  <2> QED BY <2>2, <2>3, <2>4
<1>27. CASE ReceiveVersion
  BY <1>27 DEF ReceiveVersion, Callers, Counted, Stages
<1>28. CASE ReceiveInit
  BY <1>28 DEF ReceiveInit, Callers, Counted, Stages
<1>29. CASE AdapterFails
  BY <1>29 DEF AdapterFails, Callers, Counted, Stages
<1>30. CASE PingFails
  BY <1>30 DEF PingFails, Callers, Counted, Stages
<1>31. CASE ReaderFails
  BY <1>31 DEF ReaderFails, Callers, Counted, Stages
<1>32. CASE PeerDisconnects
  BY <1>32 DEF PeerDisconnects, Callers, Counted, Stages
<1>33. CASE AdminCloses
  <2>1. "admin" \in Callers /\ "run" \in Stages /\ kind' = kind
    BY <1>33 DEF AdminCloses, EnterClose, Callers, Counted, Stages
  <2>2. pc' \in [Callers -> Stages]
    BY <1>33, <2>1 DEF AdminCloses, EnterClose
  <2>3. CASE isClosing
    BY <1>33, <2>1, <2>2, <2>3 DEF AdminCloses, EnterClose
  <2>4. CASE ~isClosing
    <3>1. lock' = [by |-> "admin", next |-> "run", error |-> FALSE, first |-> TRUE]
      BY <1>33, <2>4 DEF AdminCloses, EnterClose
    <3> QED BY <2>1, <2>2, <3>1
  <2> QED BY <2>3, <2>4
<1>34. CASE AdminKills
  BY <1>34 DEF AdminKills, EnterCloseError, Callers, Counted, Stages
<1>35. ASSUME NEW t \in Counted, CloseDone(t) PROVE ControlTyped'
  <2>1. t \in Callers /\ "gone" \in Stages /\ kind' = kind
    BY <1>35 DEF CloseDone, EnterClose, Callers, Counted, Stages
  <2>2. pc' \in [Callers -> Stages]
    BY <1>35, <2>1 DEF CloseDone, EnterClose
  <2>3. CASE isClosing
    BY <1>35, <2>1, <2>2, <2>3 DEF CloseDone, EnterClose
  <2>4. CASE ~isClosing
    <3>1. lock' = [by |-> t, next |-> "gone", error |-> FALSE, first |-> TRUE]
      BY <1>35, <2>4 DEF CloseDone, EnterClose
    <3> QED BY <2>1, <2>2, <3>1
  <2> QED BY <2>3, <2>4
<1>36. CASE UNCHANGED vars
  BY <1>36 DEF vars, Callers, Counted, Stages
<1> QED BY <1>1, <1>2, <1>3, <1>4, <1>5, <1>6, <1>7, <1>8, <1>9, <1>10, <1>10a, <1>11, <1>12,
    <1>13, <1>14, <1>15, <1>16, <1>17, <1>18, <1>19, <1>20, <1>21, <1>22, <1>23, <1>24,
    <1>25, <1>26, <1>27, <1>28, <1>29, <1>30, <1>31, <1>32, <1>33, <1>34, <1>35, <1>36
  DEF Next, HandlerStep, AdapterStep, PingStep, ReaderStep, WelcomeStep, ErrorerStep,
      Environment,
      Finished, Counted

\* Every step keeps the flags Boolean.
LEMMA FlagTypes == FlagsTyped /\ [Next]_vars => FlagsTyped'
<1> SUFFICES ASSUME FlagsTyped, [Next]_vars PROVE FlagsTyped'
  OBVIOUS
<1> USE DEF flags, world, rest, talk, vars, Move, FlagsTyped
<1>1. CASE Register
  BY <1>1 DEF Register
<1>2. CASE Start
  BY <1>2 DEF Start
<1>3. CASE CheckAdapterReady
  BY <1>3 DEF CheckAdapterReady
<1>4. CASE SleepAdapterReady
  BY <1>4 DEF SleepAdapterReady
<1>5. CASE StartReader
  BY <1>5 DEF StartReader
<1>6. CASE UpEvent
  BY <1>6 DEF UpEvent
<1>7. CASE CheckReady
  BY <1>7 DEF CheckReady
<1>8. CASE Sleep
  BY <1>8 DEF Sleep
<1>9. CASE SendInit
  BY <1>9 DEF SendInit
<1>10a. CASE InitUnwritten
  BY <1>10a DEF InitUnwritten, EnterCloseError
<1>10. CASE InitFailed
  BY <1>10 DEF InitFailed, EnterCloseError
<1>11. CASE Wait
  BY <1>11 DEF Wait
<1>12. CASE DeferredClose
  BY <1>12 DEF DeferredClose, EnterClose
<1>13. CASE Cleanup
  BY <1>13 DEF Cleanup
<1>14. CASE OpenStream
  BY <1>14 DEF OpenStream
<1>15. CASE SetInterface
  BY <1>15 DEF SetInterface
<1>16. CASE Reply
  BY <1>16 DEF Reply
<1>17. CASE ReplyFailed
  BY <1>17 DEF ReplyFailed, EnterCloseError
<1>18. CASE AdapterEnds
  BY <1>18 DEF AdapterEnds
<1>19. CASE PingStops
  BY <1>19 DEF PingStops
<1>20. CASE ReaderStops
  BY <1>20 DEF ReaderStops
<1>21. CASE SendWelcome
  BY <1>21 DEF SendWelcome
<1>22. CASE WelcomeFailed
  BY <1>22 DEF WelcomeFailed, EnterCloseError
<1>23. CASE SendError
  BY <1>23 DEF SendError
<1>24. CASE ErrorFailed
  BY <1>24 DEF ErrorFailed, EnterCloseError
<1>25. CASE ErrorCloses
  BY <1>25 DEF ErrorCloses
<1>26. CASE FinishClose
  BY <1>26 DEF FinishClose
<1>27. CASE ReceiveVersion
  BY <1>27 DEF ReceiveVersion
<1>28. CASE ReceiveInit
  BY <1>28 DEF ReceiveInit
<1>29. CASE AdapterFails
  BY <1>29 DEF AdapterFails
<1>30. CASE PingFails
  BY <1>30 DEF PingFails
<1>31. CASE ReaderFails
  BY <1>31 DEF ReaderFails
<1>32. CASE PeerDisconnects
  BY <1>32 DEF PeerDisconnects
<1>33. CASE AdminCloses
  BY <1>33 DEF AdminCloses, EnterClose
<1>34. CASE AdminKills
  BY <1>34 DEF AdminKills, EnterCloseError
<1>35. ASSUME NEW t \in Counted, CloseDone(t) PROVE FlagsTyped'
  BY <1>35 DEF CloseDone, EnterClose
<1>36. CASE UNCHANGED vars
  BY <1>36 DEF vars
<1> QED BY <1>1, <1>2, <1>3, <1>4, <1>5, <1>6, <1>7, <1>8, <1>9, <1>10, <1>10a, <1>11, <1>12,
    <1>13, <1>14, <1>15, <1>16, <1>17, <1>18, <1>19, <1>20, <1>21, <1>22, <1>23, <1>24,
    <1>25, <1>26, <1>27, <1>28, <1>29, <1>30, <1>31, <1>32, <1>33, <1>34, <1>35, <1>36
  DEF Next, HandlerStep, AdapterStep, PingStep, ReaderStep, WelcomeStep, ErrorerStep,
      Environment,
      Finished, Counted

\* Only the client's init handler opens an interface, and the client's is managed.
LEMMA WorldTypes == Typed /\ StartInv /\ [Next]_vars => WorldTyped'
<1> SUFFICES ASSUME Typed, StartInv, [Next]_vars PROVE WorldTyped'
  OBVIOUS
<1> USE DEF flags, world, rest, talk, vars, Move, Typed, WorldTyped, Managed
<1>1. CASE Register
  BY <1>1 DEF Register
<1>2. CASE Start
  BY <1>2 DEF Start
<1>3. CASE CheckAdapterReady
  BY <1>3 DEF CheckAdapterReady
<1>4. CASE SleepAdapterReady
  BY <1>4 DEF SleepAdapterReady
<1>5. CASE StartReader
  BY <1>5 DEF StartReader
<1>6. CASE UpEvent
  BY <1>6 DEF UpEvent
<1>7. CASE CheckReady
  BY <1>7 DEF CheckReady
<1>8. CASE Sleep
  BY <1>8 DEF Sleep
<1>9. CASE SendInit
  BY <1>9 DEF SendInit
<1>10a. CASE InitUnwritten
  BY <1>10a DEF InitUnwritten, EnterCloseError, ClosedIface
<1>10. CASE InitFailed
  BY <1>10 DEF InitFailed, EnterCloseError, ClosedIface
<1>11. CASE Wait
  BY <1>11 DEF Wait
<1>12. CASE DeferredClose
  BY <1>12 DEF DeferredClose, EnterClose, ClosedIface
<1>13. CASE Cleanup
  BY <1>13 DEF Cleanup, ClosedIface
<1>14. CASE OpenStream
  BY <1>14 DEF OpenStream
<1>15. CASE SetInterface
  BY <1>15 DEF SetInterface, StartInv, ControlTyped, Role, Kinds
<1>16. CASE Reply
  BY <1>16 DEF Reply
<1>17. CASE ReplyFailed
  BY <1>17 DEF ReplyFailed, EnterCloseError, ClosedIface
<1>18. CASE AdapterEnds
  BY <1>18 DEF AdapterEnds
<1>19. CASE PingStops
  BY <1>19 DEF PingStops
<1>20. CASE ReaderStops
  BY <1>20 DEF ReaderStops
<1>21. CASE SendWelcome
  BY <1>21 DEF SendWelcome
<1>22. CASE WelcomeFailed
  BY <1>22 DEF WelcomeFailed, EnterCloseError, ClosedIface
<1>23. CASE SendError
  BY <1>23 DEF SendError
<1>24. CASE ErrorFailed
  BY <1>24 DEF ErrorFailed, EnterCloseError, ClosedIface
<1>25. CASE ErrorCloses
  BY <1>25 DEF ErrorCloses
<1>26. CASE FinishClose
  BY <1>26 DEF FinishClose
<1>27. CASE ReceiveVersion
  BY <1>27 DEF ReceiveVersion
<1>28. CASE ReceiveInit
  BY <1>28 DEF ReceiveInit
<1>29. CASE AdapterFails
  BY <1>29 DEF AdapterFails
<1>30. CASE PingFails
  BY <1>30 DEF PingFails
<1>31. CASE ReaderFails
  BY <1>31 DEF ReaderFails
<1>32. CASE PeerDisconnects
  BY <1>32 DEF PeerDisconnects
<1>33. CASE AdminCloses
  BY <1>33, AdminAssumption DEF AdminCloses, EnterClose, ClosedIface
<1>34. CASE AdminKills
  BY <1>34, AdminAssumption DEF AdminKills, EnterCloseError, ClosedIface
<1>35. ASSUME NEW t \in Counted, CloseDone(t) PROVE WorldTyped'
  BY <1>35 DEF CloseDone, EnterClose, ClosedIface
<1>36. CASE UNCHANGED vars
  BY <1>36 DEF vars
<1> QED BY <1>1, <1>2, <1>3, <1>4, <1>5, <1>6, <1>7, <1>8, <1>9, <1>10, <1>10a, <1>11, <1>12,
    <1>13, <1>14, <1>15, <1>16, <1>17, <1>18, <1>19, <1>20, <1>21, <1>22, <1>23, <1>24,
    <1>25, <1>26, <1>27, <1>28, <1>29, <1>30, <1>31, <1>32, <1>33, <1>34, <1>35, <1>36
  DEF Next, HandlerStep, AdapterStep, PingStep, ReaderStep, WelcomeStep, ErrorerStep,
      Environment,
      Finished, Counted

----------------------------------------------------------------------------
(* Where the goroutines are *)

\* A goroutine in close() stays where it is, and no goroutine is started twice.
LEMMA PlacedNext == ControlTyped /\ Placed /\ [Next]_vars => Placed'
<1> SUFFICES ASSUME ControlTyped, Placed, [Next]_vars PROVE Placed'
  OBVIOUS
<1> USE DEF flags, world, rest, talk, vars, Move, ControlTyped, Placed, Located,
    LockInv, HeldBy, StartInv, WaitInv,
           HandlerStages, AdapterStages, TimerStages, NotStarted, NoReaderYet, Stopped,
           Callers, Counted, Role
<1>1. CASE Register
  BY <1>1 DEF Register
<1>2. CASE Start
  BY <1>2 DEF Start
<1>3. CASE CheckAdapterReady
  BY <1>3 DEF CheckAdapterReady
<1>4. CASE SleepAdapterReady
  BY <1>4 DEF SleepAdapterReady
<1>5. CASE StartReader
  BY <1>5 DEF StartReader
<1>6. CASE UpEvent
  BY <1>6 DEF UpEvent
<1>7. CASE CheckReady
  BY <1>7 DEF CheckReady
<1>8. CASE Sleep
  BY <1>8 DEF Sleep
<1>9. CASE SendInit
  BY <1>9 DEF SendInit
<1>10a. CASE InitUnwritten
  BY <1>10a DEF InitUnwritten, EnterCloseError, ClosedIface, Free
<1>10. CASE InitFailed
  BY <1>10 DEF InitFailed, EnterCloseError, ClosedIface, Free
<1>11. CASE Wait
  BY <1>11 DEF Wait
<1>12. CASE DeferredClose
  BY <1>12 DEF DeferredClose, EnterClose, ClosedIface, Free
<1>13. CASE Cleanup
  BY <1>13 DEF Cleanup, ClosedIface
<1>14. CASE OpenStream
  BY <1>14 DEF OpenStream
<1>15. CASE SetInterface
  BY <1>15 DEF SetInterface
<1>16. CASE Reply
  BY <1>16 DEF Reply
<1>17. CASE ReplyFailed
  BY <1>17 DEF ReplyFailed, EnterCloseError, ClosedIface, Free
<1>18. CASE AdapterEnds
  BY <1>18 DEF AdapterEnds
<1>19. CASE PingStops
  BY <1>19 DEF PingStops
<1>20. CASE ReaderStops
  BY <1>20 DEF ReaderStops
<1>21. CASE SendWelcome
  BY <1>21 DEF SendWelcome
<1>22. CASE WelcomeFailed
  BY <1>22 DEF WelcomeFailed, EnterCloseError, ClosedIface, Free
<1>23. CASE SendError
  BY <1>23 DEF SendError
<1>24. CASE ErrorFailed
  BY <1>24 DEF ErrorFailed, EnterCloseError, ClosedIface, Free
<1>25. CASE ErrorCloses
  BY <1>25 DEF ErrorCloses
<1>26. CASE FinishClose
  BY <1>26 DEF FinishClose, Free
<1>27. CASE ReceiveVersion
  BY <1>27 DEF ReceiveVersion
<1>28. CASE ReceiveInit
  BY <1>28 DEF ReceiveInit
<1>29. CASE AdapterFails
  BY <1>29 DEF AdapterFails
<1>30. CASE PingFails
  BY <1>30 DEF PingFails
<1>31. CASE ReaderFails
  BY <1>31 DEF ReaderFails
<1>32. CASE PeerDisconnects
  BY <1>32 DEF PeerDisconnects
<1>33. CASE AdminCloses
  BY <1>33 DEF AdminCloses, EnterClose, ClosedIface, Free
<1>34. CASE AdminKills
  BY <1>34 DEF AdminKills, EnterCloseError, ClosedIface, Free
<1>35. ASSUME NEW t \in Counted, CloseDone(t) PROVE Placed'
  BY <1>35 DEF CloseDone, EnterClose, ClosedIface, Free
<1>36. CASE UNCHANGED vars
  BY <1>36 DEF vars
<1> QED BY <1>1, <1>2, <1>3, <1>4, <1>5, <1>6, <1>7, <1>8, <1>9, <1>10, <1>10a, <1>11, <1>12,
    <1>13, <1>14, <1>15, <1>16, <1>17, <1>18, <1>19, <1>20, <1>21, <1>22, <1>23, <1>24,
    <1>25, <1>26, <1>27, <1>28, <1>29, <1>30, <1>31, <1>32, <1>33, <1>34, <1>35, <1>36
  DEF Next, HandlerStep, AdapterStep, PingStep, ReaderStep, WelcomeStep, ErrorerStep,
      Environment,
      Finished, Counted

----------------------------------------------------------------------------
(* What close() leaves *)

\* close() is completed under closeLock, and what it has undone stays undone.
LEMMA CloseNext == Typed /\ Placed /\ CloseInv /\ [Next]_vars => CloseInv'
<1> SUFFICES ASSUME Typed, Placed, CloseInv, [Next]_vars PROVE CloseInv'
  OBVIOUS
<1> USE DEF flags, world, rest, talk, vars, Move, Role, Free,
           CloseInv, ClosingInv, EventInv, RegisteredInv, ClosedInv
<1>1. CASE Register
  BY <1>1 DEF Register, Typed, ControlTyped, Callers, Counted, NotStarted, NoReaderYet
<1>2. CASE Start
  BY <1>2 DEF Start, Typed, ControlTyped, Callers, Counted, NotStarted, NoReaderYet
<1>3. CASE CheckAdapterReady
  BY <1>3 DEF CheckAdapterReady, Typed, ControlTyped, Callers, Counted, NotStarted,
      NoReaderYet
<1>4. CASE SleepAdapterReady
  BY <1>4 DEF SleepAdapterReady, Typed, ControlTyped, Callers, Counted, NotStarted,
      NoReaderYet
<1>5. CASE StartReader
  BY <1>5 DEF StartReader, Typed, ControlTyped, Callers, Counted, NotStarted, NoReaderYet
<1>6. CASE UpEvent
  <2>1. /\ closeChanOpen' = closeChanOpen /\ isClosing' = isClosing /\ lock' = lock /\ lock = Free
        /\ registered' = registered /\ lateRegister' = lateRegister
        /\ adapter' = adapter /\ iface' = iface
        /\ pc' = [pc EXCEPT !["handler"] = IF Role = "server" THEN "waitReady" ELSE "wait"]
    BY <1>6 DEF UpEvent
  <2>2. events = <<>> /\ ~upEventSent /\ pc'["handler"] \in {"waitReady", "wait"}
    BY <1>6, <2>1 DEF UpEvent, Typed, ControlTyped, FlagsTyped, NoReaderYet, NotStarted,
        Callers
  <2>3. CASE Role = "server" /\ closeChanOpen
    <3>1. upEventSent' = TRUE /\ events' = <<"up">>
      BY <1>6, <2>2, <2>3 DEF UpEvent
    <3> QED BY <2>1, <2>2, <2>3, <3>1 DEF NoReaderYet, NotStarted
  <2>4. CASE ~(Role = "server" /\ closeChanOpen)
    <3>1. upEventSent' = upEventSent /\ events' = events
      BY <1>6, <2>4 DEF UpEvent
    <3> QED BY <2>1, <2>2, <3>1 DEF NoReaderYet, NotStarted
  <2> QED BY <2>3, <2>4
<1>7. CASE CheckReady
  BY <1>7 DEF CheckReady, Typed, ControlTyped, Callers, Counted, NotStarted, NoReaderYet
<1>8. CASE Sleep
  BY <1>8 DEF Sleep, Typed, ControlTyped, Callers, Counted, NotStarted, NoReaderYet
<1>9. CASE SendInit
  BY <1>9 DEF SendInit, Typed, ControlTyped, Callers, Counted, NotStarted, NoReaderYet
<1>10a. CASE InitUnwritten
  BY <1>10a DEF InitUnwritten, EnterCloseError, Typed, ControlTyped, Callers, Counted,
      NotStarted, NoReaderYet, ClosedIface
<1>10. CASE InitFailed
  BY <1>10 DEF InitFailed, EnterCloseError, Typed, ControlTyped, Callers, Counted,
      NotStarted, NoReaderYet, ClosedIface
<1>11. CASE Wait
  BY <1>11 DEF Wait, Typed, ControlTyped, Callers, Counted, NotStarted, NoReaderYet
<1>12. CASE DeferredClose
  <2>1. /\ lock = Free /\ "handler" \in Callers
        /\ UNCHANGED <<upEventSent, registered, lateRegister, events>>
    BY <1>12 DEF DeferredClose, EnterClose, Callers, Counted
  <2>2. CASE isClosing
    <3>1. /\ UNCHANGED <<lock, isClosing, closeChanOpen, adapter, iface>>
          /\ pc'["handler"] = "cleanup"
      BY <1>12, <2>2 DEF DeferredClose, EnterClose, Typed, ControlTyped, Callers, Counted
    <3> QED BY <2>1, <2>2, <3>1 DEF NotStarted, NoReaderYet
  <2>3. CASE ~isClosing
    <3>1. /\ lock'.by = "handler" /\ "handler" # "nobody" /\ isClosing' = TRUE /\ closeChanOpen' = FALSE
          /\ pc' = pc /\ adapter' = "closed" /\ iface' = ClosedIface
      BY <1>12, <2>3 DEF DeferredClose, EnterClose, Counted
    <3>2. lock' # Free
      BY <3>1
    <3> QED BY <2>1, <2>3, <3>1, <3>2 DEF ClosedIface
  <2> QED BY <2>2, <2>3
<1>13. CASE Cleanup
  BY <1>13 DEF Cleanup, Typed, ControlTyped, Callers, Counted, NotStarted, NoReaderYet,
      ClosedIface
<1>14. CASE OpenStream
  BY <1>14 DEF OpenStream, Typed, ControlTyped, Callers, Counted, NotStarted, NoReaderYet
<1>15. CASE SetInterface
  BY <1>15 DEF SetInterface, Typed, ControlTyped, Callers, Counted, NotStarted,
      NoReaderYet, Placed, StartInv, WaitInv, Stopped
<1>16. CASE Reply
  BY <1>16 DEF Reply, Typed, ControlTyped, Callers, Counted, NotStarted, NoReaderYet
<1>17. CASE ReplyFailed
  BY <1>17 DEF ReplyFailed, EnterCloseError, Typed, ControlTyped, Callers, Counted,
      NotStarted, NoReaderYet, ClosedIface
<1>18. CASE AdapterEnds
  BY <1>18 DEF AdapterEnds, Typed, ControlTyped, Callers, Counted, NotStarted, NoReaderYet
<1>19. CASE PingStops
  BY <1>19 DEF PingStops, Typed, ControlTyped, Callers, Counted, NotStarted, NoReaderYet
<1>20. CASE ReaderStops
  BY <1>20 DEF ReaderStops, Typed, ControlTyped, Callers, Counted, NotStarted, NoReaderYet
<1>21. CASE SendWelcome
  BY <1>21 DEF SendWelcome, Typed, ControlTyped, Callers, Counted, NotStarted, NoReaderYet
<1>22. CASE WelcomeFailed
  BY <1>22 DEF WelcomeFailed, EnterCloseError, Typed, ControlTyped, Callers, Counted,
      NotStarted, NoReaderYet, ClosedIface
<1>23. CASE SendError
  BY <1>23 DEF SendError, Typed, ControlTyped, Callers, Counted, NotStarted, NoReaderYet
<1>24. CASE ErrorFailed
  BY <1>24 DEF ErrorFailed, EnterCloseError, Typed, ControlTyped, Callers, Counted,
      NotStarted, NoReaderYet, ClosedIface
<1>25. CASE ErrorCloses
  BY <1>25 DEF ErrorCloses, Typed, ControlTyped, Callers, Counted, NotStarted, NoReaderYet
<1>26. CASE FinishClose
  <2>1. /\ upEventSent' = FALSE /\ isClosing' = isClosing /\ closeChanOpen' = closeChanOpen
        /\ registered' = FALSE /\ lateRegister' = lateRegister /\ lock' = Free
        /\ lock # Free /\ iface' = iface /\ adapter' \in {adapter, "closed"}
    BY <1>26 DEF FinishClose
  <2>2. \/ pc'["handler"] = pc["handler"]
        \/ pc["handler"] = "asleep" /\ pc'["handler"] = "waitReady"
        \/ pc["handler"] = "initUnwritten" /\ pc'["handler"] = "initFailed"
        \/ pc["handler"] = "initFailed" /\ pc'["handler"] = "deferred"
        \/ pc["handler"] = "deferred" /\ pc'["handler"] = "cleanup"
    BY <1>26 DEF FinishClose, Placed, LockInv, HeldBy, Callers, Counted
  <2>3. CASE upEventSent
    <3>1. events = <<"up">> /\ events' = Append(events, "down")
      BY <1>26, <2>3 DEF FinishClose
    <3>2. events' = <<"up", "down">> /\ events' # <<"up">>
      BY <3>1, DownFollowsUp
    <3>3. pc["handler"] \notin NoReaderYet \cup {"upEvent"}
      BY <3>1
    <3>4. pc'["handler"] \notin NoReaderYet \cup {"upEvent"}
      BY <2>2, <3>3 DEF NotStarted, NoReaderYet
    <3> QED BY <2>1, <2>2, <3>2, <3>4
  <2>4. CASE ~upEventSent
    <3>1. events' = events
      BY <1>26, <2>4 DEF FinishClose
    <3> QED BY <2>1, <2>2, <2>4, <3>1 DEF NotStarted, NoReaderYet
  <2> QED BY <2>3, <2>4
<1>27. CASE ReceiveVersion
  BY <1>27 DEF ReceiveVersion, Typed, ControlTyped, Callers, Counted, NotStarted,
      NoReaderYet
<1>28. CASE ReceiveInit
  BY <1>28 DEF ReceiveInit, Typed, ControlTyped, Callers, Counted, NotStarted, NoReaderYet
<1>29. CASE AdapterFails
  BY <1>29 DEF AdapterFails, Typed, ControlTyped, Callers, Counted, NotStarted, NoReaderYet
<1>30. CASE PingFails
  BY <1>30 DEF PingFails, Typed, ControlTyped, Callers, Counted, NotStarted, NoReaderYet
<1>31. CASE ReaderFails
  BY <1>31 DEF ReaderFails, Typed, ControlTyped, Callers, Counted, NotStarted, NoReaderYet
<1>32. CASE PeerDisconnects
  BY <1>32 DEF PeerDisconnects, Typed, ControlTyped, Callers, Counted, NotStarted,
      NoReaderYet
<1>33. CASE AdminCloses
  <2>1. /\ lock = Free /\ "admin" \in Callers
        /\ UNCHANGED <<upEventSent, registered, lateRegister, events>>
    BY <1>33 DEF AdminCloses, EnterClose, Callers, Counted
  <2>2. CASE isClosing
    <3>1. /\ UNCHANGED <<lock, isClosing, closeChanOpen, adapter, iface>>
          /\ pc'["handler"] = pc["handler"]
      BY <1>33, <2>2 DEF AdminCloses, EnterClose, Typed, ControlTyped, Callers, Counted
    <3> QED BY <2>1, <2>2, <3>1 DEF NotStarted, NoReaderYet
  <2>3. CASE ~isClosing
    <3>1. /\ lock'.by = "admin" /\ "admin" # "nobody" /\ isClosing' = TRUE /\ closeChanOpen' = FALSE
          /\ pc' = pc /\ adapter' = "closed" /\ iface' = ClosedIface
      BY <1>33, <2>3 DEF AdminCloses, EnterClose, Counted
    <3>2. lock' # Free
      BY <3>1
    <3> QED BY <2>1, <2>3, <3>1, <3>2 DEF ClosedIface
  <2> QED BY <2>2, <2>3
<1>34. CASE AdminKills
  BY <1>34 DEF AdminKills, EnterCloseError, Typed, ControlTyped, Callers, Counted,
      NotStarted, NoReaderYet, ClosedIface
<1>35. ASSUME NEW t \in Counted, CloseDone(t) PROVE CloseInv'
  <2>1. /\ lock = Free /\ t \in Callers
        /\ UNCHANGED <<upEventSent, registered, lateRegister, events>>
    BY <1>35 DEF CloseDone, EnterClose, Callers, Counted
  <2>2. CASE isClosing
    <3>1. /\ UNCHANGED <<lock, isClosing, closeChanOpen, adapter, iface>>
          /\ pc'["handler"] = pc["handler"]
      BY <1>35, <2>2 DEF CloseDone, EnterClose, Typed, ControlTyped, Callers, Counted
    <3> QED BY <2>1, <2>2, <3>1 DEF NotStarted, NoReaderYet
  <2>3. CASE ~isClosing
    <3>1. /\ lock'.by = t /\ t # "nobody" /\ isClosing' = TRUE /\ closeChanOpen' = FALSE
          /\ pc' = pc /\ adapter' = "closed" /\ iface' = ClosedIface
      BY <1>35, <2>3 DEF CloseDone, EnterClose, Counted
    <3>2. lock' # Free
      BY <3>1
    <3> QED BY <2>1, <2>3, <3>1, <3>2 DEF ClosedIface
  <2> QED BY <2>2, <2>3
<1>36. CASE UNCHANGED vars
  BY <1>36
<1> QED BY <1>1, <1>2, <1>3, <1>4, <1>5, <1>6, <1>7, <1>8, <1>9, <1>10, <1>10a, <1>11, <1>12,
    <1>13, <1>14, <1>15, <1>16, <1>17, <1>18, <1>19, <1>20, <1>21, <1>22, <1>23, <1>24,
    <1>25, <1>26, <1>27, <1>28, <1>29, <1>30, <1>31, <1>32, <1>33, <1>34, <1>35, <1>36
  DEF Next, HandlerStep, AdapterStep, PingStep, ReaderStep, WelcomeStep, ErrorerStep,
      Environment,
      Finished, Counted

----------------------------------------------------------------------------
(* The theorems *)

\* The invariant holds of every reachable state.
LEMMA SocketInvariant == Spec => [](Typed /\ Placed /\ CloseInv)
<1>1. Typed /\ Placed /\ CloseInv /\ [Next]_vars => (Typed /\ Placed /\ CloseInv)'
  <2> SUFFICES ASSUME Typed, Placed, CloseInv, [Next]_vars
               PROVE  Typed' /\ Placed' /\ CloseInv'
    OBVIOUS
  <2>1. ControlTyped' /\ FlagsTyped' /\ WorldTyped'
    BY ControlTypes, FlagTypes, WorldTypes DEF Typed, Placed
  <2>2. Placed' /\ CloseInv'
    BY PlacedNext, CloseNext DEF Typed
  <2> QED BY <2>1, <2>2 DEF Typed
<1> QED BY SocketInit, <1>1, PTL DEF Spec

\* The types of a socket's fields and of its goroutines' stages hold, whoever
\* closes it and however often: a socket with an interface of its own is never
\* registered with the packet handler, and a shared interface is never its to
\* close (Serve and close).
THEOREM TypeCorrect == Spec => []TypeOK
<1>1. ASSUME Typed, CloseInv PROVE TypeOK
  <2>1. events \in Seq({"up", "down"})
    BY <1>1, DownFollowsUp DEF CloseInv, EventInv
  <2>2. iface \in IF Managed THEN {"none", "open", "closed"} ELSE {"none"}
    BY <1>1 DEF Typed, WorldTyped
  <2>3. registered \in (IF Managed THEN {FALSE} ELSE BOOLEAN)
    BY <1>1 DEF Typed, WorldTyped, FlagsTyped
  <2>4. /\ kind \in Kinds
        /\ pc \in [Callers -> Stages]
        /\ lock \in [by : Callers \cup {"nobody"}, next : Stages,
                     error : BOOLEAN, first : BOOLEAN]
        /\ adapter \in {"open", "closed"} /\ adminCalls \in 0..MaxAdmin
    BY <1>1 DEF Typed, ControlTyped, WorldTyped
  <2>5. FlagsTyped
    BY <1>1 DEF Typed
  <2> QED BY <2>1, <2>2, <2>3, <2>4, <2>5 DEF TypeOK, FlagsTyped
<1> QED BY SocketInvariant, <1>1, PTL

\* The up script runs at most once and the down script exactly once after it,
\* whichever goroutines close the socket, in whichever order and however often;
\* when the handler is done no up is left without its down (Serve's up event and
\* close's down event, both under closeLock).
THEOREM EventsArePaired == Spec => []EventsPaired
<1>1. CloseInv => EventsPaired
  BY DEF CloseInv, EventInv, ClosedInv, EventsPaired
<1> QED BY SocketInvariant, <1>1, PTL

\* When the serving goroutine is done, some close() has been completed: the adapter
\* and a managed interface are closed, also one the client's init handler set after
\* close() had looked for it, and the packet handler has forgotten the socket
\* unless Serve registered it when it was closing already.
THEOREM DoneIsClosed == Spec => []ClosedWhenDone
<1>1. CloseInv => ClosedWhenDone
  BY DEF CloseInv, ClosedInv, ClosedWhenDone
<1> QED BY SocketInvariant, <1>1, PTL
=============================================================================
