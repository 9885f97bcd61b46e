---------------------------- MODULE SerialWindows ----------------------------
(***************************************************************************)
(* src/App/serial on Windows.  SerialComm puts elements in a queue that a  *)
(* worker thread plays, holding m_queueMutex while it sleeps; stop clears  *)
(* m_running and notifies without the mutex.  N1MMProxy extends SerialComm *)
(* and so has a worker of its own, with nothing to play; it shares         *)
(* m_running between the worker and its DSR monitor.  "out" is the keyer's *)
(* output, "in" the proxy; Windows opens a port once only.                 *)
(***************************************************************************)
EXTENDS Naturals, Sequences

CONSTANTS MaxElements, Straight, Nobody

Comms == {"out", "in"}
Elements == 1 .. MaxElements

ASSUME SerialWindowsAssumption ==
    /\ MaxElements \in Nat
    /\ Straight \notin Elements
    /\ Nobody \notin {"worker", "keyer"}

VARIABLES
    alive,                   \* FALSE after std::terminate
    open, running,           \* m_hSerial is valid, m_running
    worker, mutex, joinable, \* processQueue, m_queueMutex, m_workerThread
    queue, playing,          \* m_queue and the request the worker popped, of "out"
    keyer, sent, lastPlayed, \* the caller of runCW; history: element numbers
    dtr, held,               \* DTR of "out"; history: between start- and stopRunCw
    dsr, event, monitor, lastDsr, told,   \* the proxy's line and its monitor
    gui

comm  == <<open, running>>
thread == <<worker, mutex, joinable>>
work  == <<queue, playing, lastPlayed>>
call  == <<keyer, sent>>
line  == <<dtr, held>>
proxy == <<event, monitor, lastDsr, told>>
vars  == <<alive, comm, thread, work, call, line, dsr, proxy, gui>>

\* Every variable has its type; the worker holds the mutex where it should.
TypeOK ==
    /\ alive \in BOOLEAN
    /\ open \in [Comms -> BOOLEAN]
    /\ running \in [Comms -> BOOLEAN]
    /\ worker \in [Comms -> {"none", "top", "lock", "test", "block", "parked",
                             "play", "ended"}]
    /\ mutex \in [Comms -> {Nobody, "worker", "keyer"}]
    /\ \A c \in Comms :
         (mutex[c] = "worker") <=> (worker[c] \in {"test", "block", "play"})
    /\ joinable \in [Comms -> BOOLEAN]
    /\ queue \in Seq(Elements)
    /\ playing \in 0 .. MaxElements
    /\ keyer \in {"idle", "lock"}
    /\ sent \in 0 .. MaxElements
    /\ lastPlayed \in 0 .. MaxElements
    /\ dtr \in BOOLEAN
    /\ held \in BOOLEAN
    /\ dsr \in BOOLEAN
    /\ event \in BOOLEAN
    /\ monitor \in {"none", "begin", "wait", "check", "call", "ended"}
    /\ lastDsr \in BOOLEAN
    /\ told \in BOOLEAN
    /\ gui \in [to : {"idle", "notify", "tell", "join"}, c : Comms]

Idle == [to |-> "idle", c |-> "out"]

Init ==
    /\ alive = TRUE
    /\ open = [c \in Comms |-> FALSE]
    /\ running = [c \in Comms |-> FALSE]
    /\ worker = [c \in Comms |-> "none"]
    /\ mutex = [c \in Comms |-> Nobody]
    /\ joinable = [c \in Comms |-> FALSE]
    /\ queue = <<>>
    /\ playing = 0
    /\ keyer = "idle"
    /\ sent = 0
    /\ lastPlayed = 0
    /\ dtr = FALSE
    /\ held = FALSE
    /\ dsr \in BOOLEAN
    /\ event = FALSE
    /\ monitor = "none"
    /\ lastDsr = FALSE
    /\ told = FALSE
    /\ gui = Idle

----------------------------------------------------------------------------
(* SerialComm::processQueue                                                *)

Worker(c, from, to) == worker[c] = from /\ worker' = [worker EXCEPT ![c] = to]
Lock(c, who) == mutex[c] = Nobody /\ mutex' = [mutex EXCEPT ![c] = who]
Unlock(c) == mutex' = [mutex EXCEPT ![c] = Nobody]

\* Only "out" ever has elements.
Queue(c) == IF c = "out" THEN queue ELSE <<>>

\* while (m_running)
WorkerTop(c) ==
    /\ Worker(c, "top", IF running[c] THEN "lock" ELSE "ended")
    /\ UNCHANGED <<mutex, joinable, work, line>>

WorkerLock(c) ==
    /\ Worker(c, "lock", "test")
    /\ Lock(c, "worker")
    /\ UNCHANGED <<joinable, work, line>>

\* The predicate of wait is FALSE: the worker will block ...
PredicateFalse(c) ==
    /\ Worker(c, "test", "block")
    /\ running[c]
    /\ Queue(c) = <<>>
    /\ UNCHANGED <<mutex, joinable, work, line>>

\* ... and lets go of the mutex; who notifies in between is not heard.
Block(c) ==
    /\ Worker(c, "block", "parked")
    /\ Unlock(c)
    /\ UNCHANGED <<joinable, work, line>>

\* The wait ends with an empty queue.
NothingToPlay(c) ==
    /\ Worker(c, "test", "top")
    /\ ~running[c]
    /\ Queue(c) = <<>>
    /\ Unlock(c)
    /\ UNCHANGED <<joinable, work, line>>

\* Variant: the element stays at the head of the queue.
PopKeeps ==
    /\ queue # <<>>
    /\ Worker("out", "test", "play")
    /\ playing' = Head(queue)
    /\ lastPlayed' = Head(queue)
    /\ dtr' = TRUE
    /\ UNCHANGED <<queue, mutex, joinable, held>>

\* An element is popped; without a port it is lost.
Pop ==
    /\ queue # <<>>
    /\ queue' = Tail(queue)
    /\ lastPlayed' = Head(queue)
    /\ IF open["out"]
         THEN /\ Worker("out", "test", "play")
              /\ playing' = Head(queue)
              /\ dtr' = TRUE
              /\ UNCHANGED <<mutex, joinable, held>>
         ELSE /\ Worker("out", "test", "top")
              /\ Unlock("out")
              /\ UNCHANGED <<playing, joinable, line>>

\* Variant: the element ends without CLRDTR.
EndElementForgets ==
    /\ Worker("out", "play", "top")
    /\ playing' = 0
    /\ Unlock("out")
    /\ UNCHANGED <<queue, lastPlayed, joinable, line>>

\* The worker has slept through the element.
EndElement ==
    /\ Worker("out", "play", "top")
    /\ dtr' = FALSE
    /\ playing' = 0
    /\ Unlock("out")
    /\ UNCHANGED <<queue, lastPlayed, joinable, held>>

WorkerStep(c) ==
    /\ alive
    /\ \/ WorkerTop(c) \/ WorkerLock(c) \/ PredicateFalse(c) \/ Block(c)
       \/ NothingToPlay(c)
       \/ c = "out" /\ (Pop \/ EndElement)
    /\ UNCHANGED <<alive, comm, call, dsr, proxy, gui>>

----------------------------------------------------------------------------
(* The keyer's calls                                                       *)

\* runCW tests m_running and m_hSerial, then waits for the mutex, as long as
\* the element that plays.
RunCW ==
    /\ alive
    /\ keyer = "idle"
    /\ sent < MaxElements
    /\ running["out"]
    /\ open["out"]
    /\ keyer' = "lock"
    /\ UNCHANGED <<alive, comm, thread, work, sent, line, dsr, proxy, gui>>

Wake(c) == IF worker[c] = "parked" THEN [worker EXCEPT ![c] = "lock"] ELSE worker

\* Variant: the element is pushed and notified without m_queueMutex.
PushUnlocked ==
    /\ alive
    /\ keyer = "lock"
    /\ keyer' = "idle"
    /\ sent' = sent + 1
    /\ queue' = Append(queue, sent')
    /\ worker' = Wake("out")
    /\ UNCHANGED <<alive, comm, mutex, joinable, playing, lastPlayed, line, dsr,
                   proxy, gui>>

Push ==
    /\ alive
    /\ keyer = "lock"
    /\ mutex["out"] = Nobody
    /\ keyer' = "idle"
    /\ sent' = sent + 1
    /\ queue' = Append(queue, sent')
    /\ worker' = Wake("out")
    /\ UNCHANGED <<alive, comm, mutex, joinable, playing, lastPlayed, line, dsr,
                   proxy, gui>>

----------------------------------------------------------------------------
(* N1MMProxy::dsrMonitorLoop                                               *)

\* The logger keys DSR; the driver latches the event.
ToggleDsr ==
    /\ alive
    /\ dsr' = ~dsr
    /\ event' = (monitor # "none")
    /\ UNCHANGED <<alive, comm, thread, work, call, line, monitor, lastDsr, told,
                   gui>>

Monitor(from, to) == monitor = from /\ monitor' = to

\* The level at the start is only stored.
MonitorBegins ==
    /\ Monitor("begin", IF running["in"] THEN "wait" ELSE "ended")
    /\ lastDsr' = dsr
    /\ UNCHANGED <<event, told, line>>

\* WaitForMultipleObjects: an event of the port, or the stop event.
MonitorWakes ==
    /\ Monitor("wait", IF event /\ running["in"] THEN "check" ELSE "ended")
    /\ event \/ told
    /\ event' = FALSE
    /\ UNCHANGED <<lastDsr, told, line>>

MonitorChecks ==
    /\ Monitor("check", IF dsr # lastDsr THEN "call" ELSE "wait")
    /\ lastDsr' = dsr
    /\ UNCHANGED <<event, told, line>>

\* Keyer::onStraight calls startRunCw or stopRunCw; then the loop's test.
OnStraight ==
    /\ Monitor("call", IF running["in"] THEN "wait" ELSE "ended")
    /\ IF running["out"] /\ open["out"] THEN dtr' = lastDsr /\ held' = lastDsr
                                        ELSE UNCHANGED line
    /\ UNCHANGED <<event, lastDsr, told>>

MonitorStep ==
    /\ alive
    /\ MonitorBegins \/ MonitorWakes \/ MonitorChecks \/ OnStraight
    /\ UNCHANGED <<alive, comm, thread, work, call, dsr, gui>>

----------------------------------------------------------------------------
(* The GUI thread: start and stop of both                                  *)

\* The worker is assigned to a std::thread that is still joinable: the process
\* ends, its threads with it, and the driver drops DTR.
StartTerminates(c) ==
    /\ alive
    /\ gui = Idle
    /\ ~running[c]
    /\ joinable[c]
    /\ alive' = FALSE
    /\ worker' = [d \in Comms |-> "none"]
    /\ mutex' = [d \in Comms |-> Nobody]
    /\ playing' = 0
    /\ dtr' = FALSE
    /\ held' = FALSE
    /\ UNCHANGED <<comm, joinable, queue, lastPlayed, call, dsr, proxy, gui>>

\* The port opens, DTR is cleared and the worker starts.
Start(c) ==
    /\ alive
    /\ gui = Idle
    /\ ~running[c]
    /\ ~joinable[c]
    /\ open' = [open EXCEPT ![c] = TRUE]
    /\ running' = [running EXCEPT ![c] = TRUE]
    /\ worker' = [worker EXCEPT ![c] = "top"]
    /\ joinable' = [joinable EXCEPT ![c] = TRUE]
    /\ IF c = "out"
         THEN dtr' = FALSE /\ held' = FALSE /\ UNCHANGED proxy
         ELSE /\ monitor' = "begin"
              /\ lastDsr' = FALSE
              /\ event' = FALSE
              /\ told' = FALSE
              /\ UNCHANGED line
    /\ UNCHANGED <<alive, mutex, work, call, dsr, gui>>

\* The port cannot be opened or set; what was opened is closed again.
StartFails(c) ==
    /\ alive
    /\ gui = Idle
    /\ ~running[c]
    /\ open' = [open EXCEPT ![c] = FALSE]
    /\ UNCHANGED <<alive, running, thread, work, call, line, dsr, proxy, gui>>

Stop(c) ==
    /\ alive
    /\ gui = Idle
    /\ running[c]
    /\ running' = [running EXCEPT ![c] = FALSE]
    /\ gui' = [to |-> IF c = "out" THEN "notify" ELSE "tell", c |-> c]
    /\ UNCHANGED <<alive, open, thread, work, call, line, dsr, proxy>>

\* SerialComm::stop: notify_all, without m_queueMutex ...
NotifyWorker ==
    /\ alive
    /\ gui.to = "notify"
    /\ worker' = Wake(gui.c)
    /\ gui' = [gui EXCEPT !.to = "join"]
    /\ UNCHANGED <<alive, comm, mutex, joinable, work, call, line, dsr, proxy>>

ClosePort(c) ==
    /\ open' = [open EXCEPT ![c] = FALSE]
    /\ IF c = "out" THEN dtr' = FALSE /\ held' = FALSE ELSE UNCHANGED line
    /\ gui' = Idle

\* Variant: the worker is not joined.
JoinWorkerSkipped ==
    /\ alive
    /\ gui = [to |-> "join", c |-> "out"]
    /\ ClosePort("out")
    /\ UNCHANGED <<alive, running, thread, work, call, dsr, proxy>>

\* ... join, and the port is closed with its lines down.
JoinWorker ==
    /\ alive
    /\ gui = [to |-> "join", c |-> "out"]
    /\ worker["out"] = "ended"
    /\ worker' = [worker EXCEPT !["out"] = "none"]
    /\ joinable' = [joinable EXCEPT !["out"] = FALSE]
    /\ ClosePort("out")
    /\ UNCHANGED <<alive, running, mutex, work, call, dsr, proxy>>

\* Variant: the stop event is not set.
TellMonitorForgets ==
    /\ alive
    /\ gui.to = "tell"
    /\ event' = FALSE
    /\ gui' = [gui EXCEPT !.to = "join"]
    /\ UNCHANGED <<alive, comm, thread, work, call, line, dsr, monitor, lastDsr,
                   told>>

\* N1MMProxy::stop sets the stop event and clears the event mask, which ends a
\* wait for the port, and joins ...
TellMonitor ==
    /\ alive
    /\ gui.to = "tell"
    /\ told' = TRUE
    /\ gui' = [gui EXCEPT !.to = "join"]
    /\ UNCHANGED <<alive, comm, thread, work, call, line, dsr, event, monitor,
                   lastDsr>>

\* ... and calls SerialComm::stop, which sees m_running FALSE: it closes the
\* port but neither wakes nor joins the worker.
JoinMonitor ==
    /\ alive
    /\ gui = [to |-> "join", c |-> "in"]
    /\ monitor = "ended"
    /\ monitor' = "none"
    /\ ClosePort("in")
    /\ UNCHANGED <<alive, running, thread, work, call, dsr, event, lastDsr, told>>

StopStep == NotifyWorker \/ JoinWorker \/ TellMonitor \/ JoinMonitor

Next ==
    \/ RunCW \/ Push
    \/ \E c \in Comms : WorkerStep(c) \/ Start(c) \/ Stop(c)
                     \/ StartTerminates(c) \/ StartFails(c)
    \/ ToggleDsr \/ MonitorStep
    \/ StopStep

\* The threads of the program run; m_queueMutex is fair to who waits for it.
Fairness ==
    /\ \A c \in Comms : SF_vars(WorkerStep(c))
    /\ SF_vars(Push)
    /\ WF_vars(MonitorStep)
    /\ WF_vars(StopStep)

Spec == Init /\ [][Next]_vars
FairSpec == Spec /\ Fairness

----------------------------------------------------------------------------
Line == INSTANCE KeyedLine WITH
    key <- dtr,
    causes <- ({playing} \ {0}) \cup (IF held THEN {Straight} ELSE {})

\* DTR keeps the promise of an output, through every stop and restart: it is up
\* only for an element that plays or a straight key, and every element ends.
OutputKeysALine == Line!Spec
OutputIsSafe == Line!Safety

\* Elements are played in the order they were sent and at most once, although
\* a stop leaves the rest of the queue to the worker of the next start.
InOrder == [][playing' \notin {playing, 0} => playing' = lastPlayed + 1]_vars

\* An element in the queue is taken, or the output is stopped or the process
\* ended: no push is missed by the worker.
QueueIsPlayed ==
    (queue # <<>> /\ running["out"] /\ alive)
        ~> (worker["out"] = "play" \/ ~running["out"] \/ ~alive)

\* When nobody stops or starts it, an output that is off has no port, no worker
\* and no thread to join: it may be started again.
OutputRestarts ==
    gui = Idle /\ ~running["out"] => ~open["out"] /\ ~joinable["out"]

\* stop returns, unless its notification came while the worker was between its
\* predicate and its wait.
StopReturns ==
    (gui.to = "join" /\ worker[gui.c] \notin {"block", "parked"} /\ alive)
        ~> (gui = Idle \/ ~alive)

\* "Closes the port, clears DTR" (README.md:421, of stop): the stop of the output
\* gets there.  It need not: a worker between its predicate and its wait does not
\* hear notify_all, which stop calls without m_queueMutex, and is joined for ever.
StopEnds == (gui = [to |-> "notify", c |-> "out"] /\ alive) ~> (gui = Idle \/ ~alive)

----------------------------------------------------------------------------
(* Why they hold                                                           *)

\* A stop is of the object it began with, whose m_running it has cleared.
GuiInv ==
    /\ gui.to = "idle" => gui = Idle
    /\ gui.to = "notify" => gui.c = "out"
    /\ gui.to = "tell" => gui.c = "in"
    /\ gui.to # "idle" => ~running[gui.c]

\* A thread is joinable until it is joined, ended or not.
ThreadInv == alive => \A c \in Comms : joinable[c] <=> worker[c] # "none"

\* An output that is off and that nobody stops has no port and no thread.
OffInv ==
    \/ running["out"]
    \/ gui.to # "idle" /\ gui.c = "out"
    \/ ~open["out"] /\ ~joinable["out"]

\* The worker holds an element just while it plays one.
PlayInv == playing # 0 <=> worker["out"] = "play"

\* The queue holds what was sent and not yet taken, in the order of runCW.
QueueInv ==
    /\ sent = lastPlayed + Len(queue)
    /\ \A i \in 1 .. Len(queue) : queue[i] = lastPlayed + i
    /\ keyer = "lock" => sent < MaxElements

\* The module's invariant, which is inductive.
Inv ==
    /\ TypeOK
    /\ OutputRestarts
    /\ GuiInv /\ ThreadInv /\ OffInv /\ PlayInv /\ QueueInv
=============================================================================
