-------------------------- MODULE SerialWindowsProofs --------------------------
(***************************************************************************)
(* Proofs about SerialWindows, for every number of elements.               *)
(***************************************************************************)
EXTENDS SerialWindows, TLAPS

\* What a step does to the worker of c and to its mutex keeps one in step with
\* the other.
LEMMA TypeStep == Inv /\ [Next]_vars => TypeOK'
<1> SUFFICES ASSUME Inv, [Next]_vars PROVE TypeOK'
    OBVIOUS
<1> USE SerialWindowsAssumption
<1>1. ASSUME NEW c \in Comms, WorkerStep(c) PROVE TypeOK'
  <2>1. /\ worker' \in [Comms -> {"none", "top", "lock", "test", "block", "parked",
                                  "play", "ended"}]
        /\ mutex' \in [Comms -> {Nobody, "worker", "keyer"}]
        /\ \A d \in Comms :
             (mutex'[d] = "worker") <=> (worker'[d] \in {"test", "block", "play"})
    <3> USE DEF Inv, TypeOK, Worker, Lock, Unlock, Comms
    <3>1. CASE WorkerTop(c)
      BY <3>1 DEF WorkerTop
    <3>2. CASE WorkerLock(c)
      BY <3>2 DEF WorkerLock
    <3>3. CASE PredicateFalse(c)
      BY <3>3 DEF PredicateFalse
    <3>4. CASE Block(c)
      BY <3>4 DEF Block
    <3>5. CASE NothingToPlay(c)
      BY <3>5 DEF NothingToPlay
    <3>6. CASE Pop
      BY <3>6 DEF Pop
    <3>7. CASE EndElement
      BY <3>7 DEF EndElement
    <3> QED BY <1>1, <3>1, <3>2, <3>3, <3>4, <3>5, <3>6, <3>7 DEF WorkerStep
  <2>2. UNCHANGED <<alive, open, running, joinable, keyer, sent, dsr, proxy, gui>>
    BY <1>1 DEF WorkerStep, WorkerTop, WorkerLock, PredicateFalse, Block,
       NothingToPlay, Pop, EndElement, comm, call
  <2>3. /\ queue' \in Seq(Elements)
        /\ playing' \in 0 .. MaxElements
        /\ lastPlayed' \in 0 .. MaxElements
    <3>1. CASE Pop
      <4>1. Head(queue) \in Elements /\ Tail(queue) \in Seq(Elements)
        BY <3>1 DEF Inv, TypeOK, Pop
      <4> QED BY <3>1, <4>1 DEF Inv, TypeOK, Pop, Elements
    <3>2. CASE EndElement
      BY <3>2 DEF Inv, TypeOK, EndElement
    <3>3. CASE UNCHANGED work
      BY <3>3 DEF Inv, TypeOK, work
    <3> QED BY <1>1, <3>1, <3>2, <3>3 DEF WorkerStep, WorkerTop, WorkerLock,
               PredicateFalse, Block, NothingToPlay
  <2>4. dtr' \in BOOLEAN /\ held' \in BOOLEAN
    BY <1>1 DEF Inv, TypeOK, WorkerStep, WorkerTop, WorkerLock, PredicateFalse,
       Block, NothingToPlay, Pop, EndElement, line
  <2> QED BY <2>1, <2>2, <2>3, <2>4 DEF Inv, TypeOK, proxy
<1>2. CASE RunCW
  BY <1>2 DEF Inv, TypeOK, RunCW, comm, thread, work, line, proxy
<1>3. CASE Push
  <2>1. sent' \in Elements
    BY <1>3 DEF Inv, TypeOK, QueueInv, Push, Elements
  <2>2. queue' \in Seq(Elements)
    BY <1>3, <2>1 DEF Inv, TypeOK, Push
  <2>3. /\ worker' \in [Comms -> {"none", "top", "lock", "test", "block", "parked",
                                  "play", "ended"}]
        /\ \A d \in Comms :
             (mutex[d] = "worker") <=> (worker'[d] \in {"test", "block", "play"})
    BY <1>3 DEF Inv, TypeOK, Push, Wake
  <2>4. /\ UNCHANGED <<alive, comm, mutex, joinable, playing, lastPlayed, line, dsr,
                        proxy, gui>>
        /\ keyer' = "idle"
        /\ sent' \in 0 .. MaxElements
    BY <1>3, <2>1 DEF Push, Elements
  <2> QED BY <2>2, <2>3, <2>4 DEF Inv, TypeOK, comm, line, proxy
<1>4. ASSUME NEW c \in Comms, StartTerminates(c) PROVE TypeOK'
  <2>1. /\ worker' \in [Comms -> {"none", "top", "lock", "test", "block", "parked",
                                  "play", "ended"}]
        /\ mutex' \in [Comms -> {Nobody, "worker", "keyer"}]
        /\ \A d \in Comms :
             (mutex'[d] = "worker") <=> (worker'[d] \in {"test", "block", "play"})
    BY <1>4 DEF StartTerminates
  <2>2. alive' \in BOOLEAN /\ dtr' \in BOOLEAN /\ held' \in BOOLEAN
    BY <1>4 DEF StartTerminates
  <2> QED BY <1>4, <2>1, <2>2 DEF Inv, TypeOK, StartTerminates, comm, call, proxy
<1>5. ASSUME NEW c \in Comms, Start(c) PROVE TypeOK'
  <2>1. worker[c] = "none"
    BY <1>5 DEF Inv, TypeOK, ThreadInv, Start
  <2>2. /\ worker' \in [Comms -> {"none", "top", "lock", "test", "block", "parked",
                                  "play", "ended"}]
        /\ \A d \in Comms :
             (mutex[d] = "worker") <=> (worker'[d] \in {"test", "block", "play"})
    BY <1>5, <2>1 DEF Inv, TypeOK, Start
  <2>3. /\ open' \in [Comms -> BOOLEAN]
        /\ running' \in [Comms -> BOOLEAN]
        /\ joinable' \in [Comms -> BOOLEAN]
    BY <1>5 DEF Inv, TypeOK, Start
  <2>4. /\ dtr' \in BOOLEAN /\ held' \in BOOLEAN
        /\ event' \in BOOLEAN /\ lastDsr' \in BOOLEAN /\ told' \in BOOLEAN
    BY <1>5 DEF Inv, TypeOK, Start, line, proxy
  <2>5. monitor' \in {"none", "begin", "wait", "check", "call", "ended"}
    BY <1>5 DEF Inv, TypeOK, Start, proxy
  <2>6. UNCHANGED <<alive, mutex, work, call, dsr, gui>>
    BY <1>5 DEF Start
  <2> QED BY <2>2, <2>3, <2>4, <2>5, <2>6 DEF Inv, TypeOK, work, call
<1>6. ASSUME NEW c \in Comms, StartFails(c) PROVE TypeOK'
  <2>1. open' \in [Comms -> BOOLEAN]
    BY <1>6 DEF Inv, TypeOK, StartFails
  <2> QED BY <1>6, <2>1 DEF Inv, TypeOK, StartFails, thread, work, call, line, proxy
<1>7. ASSUME NEW c \in Comms, Stop(c) PROVE TypeOK'
  <2>1. gui' \in [to : {"idle", "notify", "tell", "join"}, c : Comms]
    BY <1>7 DEF Stop
  <2>2. running' \in [Comms -> BOOLEAN]
    BY <1>7 DEF Inv, TypeOK, Stop
  <2> QED BY <1>7, <2>1, <2>2 DEF Inv, TypeOK, Stop, thread, work, call, line, proxy
<1>8. CASE NotifyWorker
  <2>1. gui' \in [to : {"idle", "notify", "tell", "join"}, c : Comms]
    BY <1>8 DEF Inv, TypeOK, NotifyWorker
  <2>2. /\ worker' \in [Comms -> {"none", "top", "lock", "test", "block", "parked",
                                  "play", "ended"}]
        /\ \A d \in Comms :
             (mutex[d] = "worker") <=> (worker'[d] \in {"test", "block", "play"})
    BY <1>8 DEF Inv, TypeOK, NotifyWorker, Wake
  <2> QED BY <1>8, <2>1, <2>2
             DEF Inv, TypeOK, NotifyWorker, comm, work, call, line, proxy
<1>9. CASE JoinWorker
  <2>1. gui' \in [to : {"idle", "notify", "tell", "join"}, c : Comms]
    BY <1>9 DEF JoinWorker, ClosePort, Idle, Comms
  <2>2. /\ worker' \in [Comms -> {"none", "top", "lock", "test", "block", "parked",
                                  "play", "ended"}]
        /\ \A d \in Comms :
             (mutex[d] = "worker") <=> (worker'[d] \in {"test", "block", "play"})
    BY <1>9 DEF Inv, TypeOK, JoinWorker
  <2>3. open' \in [Comms -> BOOLEAN] /\ joinable' \in [Comms -> BOOLEAN]
    BY <1>9 DEF Inv, TypeOK, JoinWorker, ClosePort
  <2>4. dtr' \in BOOLEAN /\ held' \in BOOLEAN
    BY <1>9 DEF JoinWorker, ClosePort
  <2> QED BY <1>9, <2>1, <2>2, <2>3, <2>4 DEF Inv, TypeOK, JoinWorker, work, call, proxy
<1>10. CASE TellMonitor
  <2>1. gui' \in [to : {"idle", "notify", "tell", "join"}, c : Comms]
    BY <1>10 DEF Inv, TypeOK, TellMonitor
  <2> QED BY <1>10, <2>1 DEF Inv, TypeOK, TellMonitor, comm, thread, work, call, line
<1>11. CASE JoinMonitor
  <2>1. gui' \in [to : {"idle", "notify", "tell", "join"}, c : Comms]
    BY <1>11 DEF JoinMonitor, ClosePort, Idle, Comms
  <2>2. open' \in [Comms -> BOOLEAN]
    BY <1>11 DEF Inv, TypeOK, JoinMonitor, ClosePort
  <2>3. UNCHANGED line
    BY <1>11 DEF JoinMonitor, ClosePort
  <2> QED BY <1>11, <2>1, <2>2, <2>3
             DEF Inv, TypeOK, JoinMonitor, thread, work, call, line
<1>12. CASE ToggleDsr
  BY <1>12 DEF Inv, TypeOK, ToggleDsr, comm, thread, work, call, line
<1>13. CASE MonitorStep
  <2>1. dtr' \in BOOLEAN /\ held' \in BOOLEAN /\ event' \in BOOLEAN
    BY <1>13 DEF Inv, TypeOK, MonitorStep, MonitorBegins, MonitorWakes, MonitorChecks,
       OnStraight, line
  <2>2. lastDsr' \in BOOLEAN /\ told' = told
    BY <1>13 DEF Inv, TypeOK, MonitorStep, MonitorBegins, MonitorWakes, MonitorChecks,
       OnStraight
  <2>3. monitor' \in {"none", "begin", "wait", "check", "call", "ended"}
    BY <1>13 DEF MonitorStep, MonitorBegins, MonitorWakes, MonitorChecks, OnStraight,
       Monitor
  <2> QED BY <1>13, <2>1, <2>2, <2>3
             DEF Inv, TypeOK, MonitorStep, comm, thread, work, call
<1>14. CASE UNCHANGED vars
  BY <1>14 DEF Inv, TypeOK, vars, comm, thread, work, call, line, proxy
<1> QED
  BY <1>1, <1>2, <1>3, <1>4, <1>5, <1>6, <1>7, <1>8, <1>9, <1>10, <1>11, <1>12,
     <1>13, <1>14 DEF Next, StopStep

\* A stop is of the object it began with.
LEMMA GuiStep == Inv /\ [Next]_vars => GuiInv'
<1> SUFFICES ASSUME Inv, [Next]_vars PROVE GuiInv'
    OBVIOUS
<1> USE DEF Comms, Idle
<1>0. /\ GuiInv
      /\ gui \in [to : {"idle", "notify", "tell", "join"}, c : Comms]
      /\ running \in [Comms -> BOOLEAN]
  BY DEF Inv, TypeOK
<1>1. ASSUME NEW c \in Comms, Start(c) PROVE GuiInv'
  BY <1>0, <1>1 DEF GuiInv, Start
<1>2. ASSUME NEW c \in Comms, Stop(c) PROVE GuiInv'
  BY <1>0, <1>2 DEF GuiInv, Stop
<1>3. CASE NotifyWorker \/ TellMonitor
  BY <1>0, <1>3 DEF GuiInv, NotifyWorker, TellMonitor, comm
<1>4. CASE JoinWorker \/ JoinMonitor
  BY <1>4 DEF GuiInv, JoinWorker, JoinMonitor, ClosePort
<1>5. CASE UNCHANGED <<running, gui>>
  BY <1>0, <1>5 DEF GuiInv
<1> QED
  BY <1>1, <1>2, <1>3, <1>4, <1>5 DEF Next, StopStep, WorkerStep, RunCW, Push,
     StartFails, StartTerminates, ToggleDsr, MonitorStep, vars, comm

\* What the worker of an object does leaves its thread where it is.
LEMMA WorkerEffect ==
    ASSUME Inv, NEW c \in Comms, WorkerStep(c)
    PROVE  /\ UNCHANGED <<alive, open, running, joinable, gui>>
           /\ \A d \in Comms : worker[d] = "none" <=> worker'[d] = "none"
<1>1. UNCHANGED <<alive, open, running, joinable, gui>>
  BY DEF WorkerStep, WorkerTop, WorkerLock, PredicateFalse, Block,
     NothingToPlay, Pop, EndElement, comm
<1>2. PICK from, to \in {"top", "lock", "test", "block", "parked", "play", "ended"} :
        \E d \in Comms : Worker(d, from, to)
  BY DEF WorkerStep, WorkerTop, WorkerLock, PredicateFalse, Block, NothingToPlay,
     Pop, EndElement, Comms
<1> QED BY <1>1, <1>2 DEF Worker, Inv, TypeOK

\* Threads are started and joined together with what std::thread says of them.
LEMMA ThreadStep == Inv /\ [Next]_vars => ThreadInv'
<1> SUFFICES ASSUME Inv, [Next]_vars, alive'
             PROVE  \A c \in Comms : joinable'[c] <=> worker'[c] # "none"
    BY DEF ThreadInv
<1>1. alive
  BY DEF Next, StopStep, WorkerStep, RunCW, Push, Start, Stop, StartFails,
     StartTerminates, ToggleDsr, MonitorStep, NotifyWorker, JoinWorker, TellMonitor,
     JoinMonitor, vars
<1>2. /\ \A c \in Comms : joinable[c] <=> worker[c] # "none"
      /\ worker \in [Comms -> {"none", "top", "lock", "test", "block", "parked",
                               "play", "ended"}]
      /\ joinable \in [Comms -> BOOLEAN]
  BY <1>1 DEF Inv, TypeOK, ThreadInv
<1>3. ASSUME NEW c \in Comms, WorkerStep(c)
      PROVE  \A d \in Comms : joinable'[d] <=> worker'[d] # "none"
  BY <1>2, <1>3, WorkerEffect
<1>4. CASE worker' \in {Wake("out"), Wake("in")} /\ UNCHANGED joinable
  BY <1>2, <1>4 DEF Wake, Comms
<1>5. CASE NotifyWorker
  <2>1. gui.c \in Comms
    BY DEF Inv, TypeOK
  <2> QED BY <1>4, <1>5, <2>1 DEF NotifyWorker, Comms
<1>6. ASSUME NEW c \in Comms, Start(c)
      PROVE  \A d \in Comms : joinable'[d] <=> worker'[d] # "none"
  BY <1>2, <1>6 DEF Start
<1>7. CASE JoinWorker
  BY <1>2, <1>7 DEF JoinWorker, Comms
<1>8. CASE UNCHANGED <<joinable, worker>>
  BY <1>2, <1>8
<1> QED
  BY <1>3, <1>4, <1>5, <1>6, <1>7, <1>8 DEF Next, StopStep, RunCW, Push, Stop,
     StartFails, StartTerminates, ToggleDsr, MonitorStep, TellMonitor, JoinMonitor,
     vars, thread

\* A stop and a start leave the output without a port or a thread in between.
LEMMA OffStep == Inv /\ [Next]_vars => OffInv' /\ OutputRestarts'
<1> SUFFICES ASSUME Inv, [Next]_vars PROVE OffInv'
    BY DEF OffInv, OutputRestarts, Idle
<1>0. /\ OffInv
      /\ open \in [Comms -> BOOLEAN]
      /\ running \in [Comms -> BOOLEAN]
      /\ joinable \in [Comms -> BOOLEAN]
      /\ "out" \in Comms
  BY DEF Inv, TypeOK, Comms
<1>1. ASSUME NEW c \in Comms, WorkerStep(c) PROVE OffInv'
  BY <1>0, <1>1, WorkerEffect DEF OffInv
<1>2. ASSUME NEW c \in Comms, Start(c) PROVE OffInv'
  BY <1>0, <1>2 DEF OffInv, Start, Idle
<1>3. ASSUME NEW c \in Comms, StartFails(c) PROVE OffInv'
  BY <1>0, <1>3 DEF OffInv, StartFails, thread
<1>4. ASSUME NEW c \in Comms, Stop(c) PROVE OffInv'
  BY <1>0, <1>4 DEF OffInv, Stop, Idle, thread
<1>5. CASE NotifyWorker \/ TellMonitor
  <2>1. gui'.to = "join" /\ gui'.c = gui.c /\ gui.to # "idle"
    BY <1>5 DEF NotifyWorker, TellMonitor, Inv, TypeOK
  <2>2. UNCHANGED <<open, running, joinable>>
    BY <1>5 DEF NotifyWorker, TellMonitor, comm, thread
  <2> QED BY <1>0, <2>1, <2>2 DEF OffInv
<1>6. CASE JoinWorker
  <2>1. ~open'["out"] /\ ~joinable'["out"]
    BY <1>0, <1>6 DEF JoinWorker, ClosePort
  <2> QED BY <2>1 DEF OffInv
<1>7. CASE JoinMonitor
  BY <1>0, <1>7 DEF OffInv, JoinMonitor, ClosePort, thread, Comms
<1>8. CASE UNCHANGED <<open, running, joinable, gui>>
  BY <1>0, <1>8 DEF OffInv
<1> QED
  BY <1>1, <1>2, <1>3, <1>4, <1>5, <1>6, <1>7, <1>8 DEF Next, StopStep, RunCW, Push,
     StartTerminates, ToggleDsr, MonitorStep, vars, thread, comm

\* playing is set and cleared together with the worker's place.
LEMMA PlayStep == Inv /\ [Next]_vars => PlayInv'
<1> SUFFICES ASSUME Inv, [Next]_vars PROVE PlayInv'
    OBVIOUS
<1>0. /\ PlayInv
      /\ worker \in [Comms -> {"none", "top", "lock", "test", "block", "parked",
                               "play", "ended"}]
      /\ "out" \in Comms
  BY DEF Inv, TypeOK, Comms
<1>1. CASE Pop
  <2>1. Head(queue) \in Elements
    BY <1>1 DEF Pop, Inv, TypeOK
  <2>2. Head(queue) # 0
    BY <2>1 DEF Elements
  <2>3. playing = 0
    BY <1>0, <1>1 DEF Pop, Worker, PlayInv
  <2> QED BY <1>0, <1>1, <2>2, <2>3 DEF PlayInv, Pop, Worker
<1>2. CASE EndElement
  BY <1>0, <1>2 DEF PlayInv, EndElement, Worker
<1>3. ASSUME NEW c \in Comms,
             WorkerTop(c) \/ WorkerLock(c) \/ PredicateFalse(c) \/ Block(c)
               \/ NothingToPlay(c)
      PROVE  PlayInv'
  BY <1>0, <1>3 DEF PlayInv, WorkerTop, WorkerLock, PredicateFalse, Block,
     NothingToPlay, Worker, work
<1>4. CASE Push
  BY <1>0, <1>4 DEF PlayInv, Push, Wake
<1>5. CASE NotifyWorker
  BY <1>0, <1>5 DEF PlayInv, NotifyWorker, Wake, work
<1>6. ASSUME NEW c \in Comms, StartTerminates(c) PROVE PlayInv'
  BY <1>6 DEF PlayInv, StartTerminates, Comms
<1>7. ASSUME NEW c \in Comms, Start(c) PROVE PlayInv'
  <2>1. c = "out" => worker["out"] = "none"
    BY <1>7 DEF Start, Inv, TypeOK, ThreadInv
  <2> QED BY <1>0, <1>7, <2>1 DEF PlayInv, Start, work
<1>8. CASE JoinWorker
  BY <1>0, <1>8 DEF PlayInv, JoinWorker, work
<1>9. CASE UNCHANGED <<worker, work>>
  BY <1>0, <1>9 DEF PlayInv, work
<1> QED
  BY <1>1, <1>2, <1>3, <1>4, <1>5, <1>6, <1>7, <1>8, <1>9 DEF Next, StopStep,
     WorkerStep, RunCW, Stop, StartFails, ToggleDsr, MonitorStep, TellMonitor,
     JoinMonitor, vars, thread

\* The queue stays in the order of runCW.
LEMMA QueueStep == Inv /\ [Next]_vars => QueueInv'
<1> SUFFICES ASSUME Inv, [Next]_vars PROVE QueueInv'
    OBVIOUS
<1>0. /\ QueueInv
      /\ queue \in Seq(Elements)
      /\ sent \in Nat /\ lastPlayed \in Nat /\ MaxElements \in Nat
  BY SerialWindowsAssumption DEF Inv, TypeOK
<1>1. CASE Pop /\ UNCHANGED call
  <2> DEFINE q == Tail(queue)
  <2>1. Head(queue) = queue[1] /\ Len(q) = Len(queue) - 1 /\ Len(queue) \in Nat \ {0}
    BY <1>0, <1>1 DEF Pop
  <2>2. \A i \in 1 .. Len(q) : q[i] = queue[i + 1]
    BY <1>0, <1>1 DEF Pop
  <2>3. Head(queue) = lastPlayed + 1
    BY <1>0, <2>1 DEF QueueInv
  <2>4. \A i \in 1 .. Len(q) : q[i] = lastPlayed + 1 + i
    BY <1>0, <2>1, <2>2 DEF QueueInv
  <2>5. sent = lastPlayed + 1 + Len(q)
    BY <1>0, <2>1 DEF QueueInv
  <2>6. /\ queue' = q /\ lastPlayed' = lastPlayed + 1
        /\ sent' = sent /\ keyer' = keyer
    BY <1>1, <2>3 DEF Pop, call
  <2> HIDE DEF q
  <2> QED BY <1>0, <2>4, <2>5, <2>6 DEF QueueInv
<1>2. CASE Push
  <2> DEFINE q == Append(queue, sent + 1)
  <2>1. /\ sent' = sent + 1 /\ queue' = q
        /\ lastPlayed' = lastPlayed /\ keyer' = "idle"
    BY <1>2 DEF Push
  <2>2. Len(q) = Len(queue) + 1 /\ Len(queue) \in Nat
    BY <1>0
  <2>3. \A i \in 1 .. Len(q) : q[i] = IF i = Len(queue) + 1 THEN sent + 1 ELSE queue[i]
    BY <1>0
  <2>4. \A i \in 1 .. Len(q) : q[i] = lastPlayed + i
    BY <1>0, <2>2, <2>3 DEF QueueInv
  <2> HIDE DEF q
  <2> QED BY <1>0, <2>1, <2>2, <2>4 DEF QueueInv
<1>3. CASE RunCW
  BY <1>0, <1>3 DEF QueueInv, RunCW, work
<1>4. CASE UNCHANGED <<queue, lastPlayed, call>>
  BY <1>0, <1>4 DEF QueueInv, call
<1> QED
  BY <1>1, <1>2, <1>3, <1>4 DEF Next, WorkerStep, WorkerTop, WorkerLock,
     PredicateFalse, Block, NothingToPlay, EndElement, Start, StartFails,
     StartTerminates, Stop, StopStep, NotifyWorker, JoinWorker, TellMonitor,
     JoinMonitor, ToggleDsr, MonitorStep, vars, work

\* The module's invariant: among others, an output that is off can be started
\* again, whatever the stops and the restarts before it.
THEOREM Invariance == Spec => []Inv
<1>1. Init => Inv
  <2> SUFFICES ASSUME Init PROVE Inv
      OBVIOUS
  <2> USE SerialWindowsAssumption DEF Init, Idle, Comms
  <2>1. TypeOK
    <3>1. /\ worker \in [Comms -> {"none", "top", "lock", "test", "block", "parked",
                                   "play", "ended"}]
          /\ mutex \in [Comms -> {Nobody, "worker", "keyer"}]
          /\ \A d \in Comms :
               (mutex[d] = "worker") <=> (worker[d] \in {"test", "block", "play"})
      OBVIOUS
    <3>2. gui \in [to : {"idle", "notify", "tell", "join"}, c : Comms]
      OBVIOUS
    <3>3. /\ open \in [Comms -> BOOLEAN]
          /\ running \in [Comms -> BOOLEAN]
          /\ joinable \in [Comms -> BOOLEAN]
      OBVIOUS
    <3>4. queue \in Seq(Elements)
      OBVIOUS
    <3>5. 0 \in 0 .. MaxElements
      OBVIOUS
    <3>6. /\ alive \in BOOLEAN /\ dtr \in BOOLEAN /\ held \in BOOLEAN
          /\ dsr \in BOOLEAN /\ event \in BOOLEAN /\ lastDsr \in BOOLEAN
          /\ told \in BOOLEAN
      OBVIOUS
    <3>7. /\ playing = 0 /\ keyer = "idle" /\ sent = 0 /\ lastPlayed = 0
          /\ monitor = "none"
      OBVIOUS
    <3> HIDE DEF Init, Idle
    <3> QED BY <3>1, <3>2, <3>3, <3>4, <3>5, <3>6, <3>7 DEF TypeOK
  <2>2. OutputRestarts /\ GuiInv /\ ThreadInv /\ OffInv
    BY DEF OutputRestarts, GuiInv, ThreadInv, OffInv
  <2>3. PlayInv /\ QueueInv
    BY DEF PlayInv, QueueInv
  <2> QED BY <2>1, <2>2, <2>3 DEF Inv
<1>2. Inv /\ [Next]_vars => Inv'
  BY TypeStep, GuiStep, ThreadStep, OffStep, PlayStep, QueueStep DEF Inv
<1> QED BY <1>1, <1>2, PTL DEF Spec

\* The worker plays the elements in the order of runCW and each at most once,
\* for any number of elements, stops and restarts.
THEOREM PlaysInOrder == Spec => InOrder
<1>1. Inv /\ [Next]_vars
        => [playing' \notin {playing, 0} => playing' = lastPlayed + 1]_vars
  <2> SUFFICES ASSUME Inv, [Next]_vars, playing' \notin {playing, 0}
               PROVE  playing' = lastPlayed + 1
      OBVIOUS
  <2>1. Pop
    BY DEF Next, WorkerStep, WorkerTop, WorkerLock, PredicateFalse, Block,
       NothingToPlay, EndElement, RunCW, Push, Start, StartFails, StartTerminates,
       Stop, StopStep, NotifyWorker, JoinWorker, TellMonitor, JoinMonitor, ToggleDsr,
       MonitorStep, vars, work
  <2>2. playing' = Head(queue)
    BY <2>1 DEF Pop
  <2>3. Head(queue) = queue[1] /\ 1 \in 1 .. Len(queue)
    BY <2>1 DEF Pop, Inv, TypeOK
  <2> QED BY <2>2, <2>3 DEF Inv, QueueInv
<1> QED BY <1>1, Invariance, PTL DEF Spec, InOrder

----------------------------------------------------------------------------
(* The refinement                                                          *)

Causes == ({playing} \ {0}) \cup (IF held THEN {Straight} ELSE {})

\* DTR of the output does nothing in a step but what KeyedLine allows.
LEMMA LineStep == Inv /\ Inv' /\ [Next]_vars => [Line!Next]_<<dtr, Causes>>
<1> SUFFICES ASSUME Inv, Inv', [Next]_vars PROVE [Line!Next]_<<dtr, Causes>>
    OBVIOUS
<1>1. /\ dtr \in BOOLEAN /\ dtr' \in BOOLEAN
      /\ held \in BOOLEAN /\ held' \in BOOLEAN
  BY DEF Inv, TypeOK
<1>2. CASE ~dtr' /\ Causes' \subseteq Causes
  BY <1>1, <1>2 DEF Line!Next, Line!Cut, Causes
<1>3. ASSUME NEW c \in Elements \cup {Straight}, dtr', Causes' = Causes \cup {c}
      PROVE  Line!Next
  BY <1>1, <1>3 DEF Line!Next, Line!Press, Causes
<1>4. CASE Pop
  <2>1. CASE open["out"]
    <3>1. playing = 0 /\ Head(queue) \in Elements
      BY <1>4 DEF Pop, Worker, Inv, TypeOK, PlayInv
    <3>2. dtr' /\ playing' = Head(queue) /\ held' = held
      BY <1>4, <2>1 DEF Pop
    <3>3. Causes' = Causes \cup {Head(queue)}
      BY <3>1, <3>2 DEF Causes, Elements
    <3> QED BY <1>3, <3>1, <3>2, <3>3
  <2>2. CASE ~open["out"]
    BY <1>4, <2>2 DEF Pop, line, Causes
  <2> QED BY <2>1, <2>2
<1>5. CASE EndElement
  BY <1>2, <1>5 DEF EndElement, Causes
<1>6. CASE OnStraight /\ UNCHANGED work
  <2>1. CASE UNCHANGED line
    BY <1>6, <2>1 DEF line, work, Causes
  <2>2. CASE dtr' /\ held'
    <3>1. Causes' = Causes \cup {Straight}
      BY <1>6, <2>2 DEF work, Causes
    <3> QED BY <1>3, <2>2, <3>1
  <2>3. CASE ~dtr' /\ ~held'
    BY <1>2, <1>6, <2>3 DEF work, Causes
  <2> QED BY <1>1, <1>6, <2>1, <2>2, <2>3 DEF OnStraight
<1>7. CASE ~dtr' /\ ~held' /\ playing' \in {playing, 0}
  BY <1>2, <1>7 DEF Causes
<1>8. CASE UNCHANGED <<line, playing>>
  BY <1>8 DEF line, Causes
<1> QED
  BY <1>4, <1>5, <1>6, <1>7, <1>8 DEF Next, WorkerStep, WorkerTop, WorkerLock,
     PredicateFalse, Block, NothingToPlay, RunCW, Push, Start, StartFails,
     StartTerminates, Stop, StopStep, NotifyWorker, JoinWorker, TellMonitor,
     JoinMonitor, ClosePort, ToggleDsr, MonitorStep, MonitorBegins, MonitorWakes,
     MonitorChecks, vars, work, line

\* The output keeps the promise of KeyedLine as far as it is one of safety.
THEOREM OutputRefinesLine == Spec => OutputIsSafe
<1>1. Init => Line!Init
  BY DEF Init, Line!Init
<1>2. Inv /\ Inv' /\ [Next]_vars
        => [Line!Next]_<<dtr, ({playing} \ {0}) \cup (IF held THEN {Straight} ELSE {})>>
  BY LineStep DEF Causes
<1> QED BY <1>1, <1>2, Invariance, PTL DEF Spec, OutputIsSafe, Line!Safety
=============================================================================
