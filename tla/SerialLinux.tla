----------------------------- MODULE SerialLinux -----------------------------
(***************************************************************************)
(* src/App/serial on Linux: SerialComm, which keys DTR, and N1MMProxy,     *)
(* which watches DSR and reports it as a straight key.  "out" is the       *)
(* output of the keyer, "in" the proxy; both are SerialComm objects of one *)
(* process and share its file descriptors.  runCW spawns a detached thread *)
(* per element that keeps the descriptor it was born with.  Every ioctl    *)
(* pair writes DTR itself and reads only to keep the other lines, so it is *)
(* one step.                                                               *)
(***************************************************************************)
EXTENDS Naturals

CONSTANTS
    OutPorts, InPorts, \* the ports the user selects for each, maybe the same
    Elements,          \* elements whose threads may be alive at once
    MaxFd,             \* file descriptors the process may have open
    Straight, None

Comms == {"out", "in"}
Ports == OutPorts \cup InPorts
Selectable(c) == IF c = "out" THEN OutPorts ELSE InPorts
Fds == 1 .. MaxFd

ASSUME SerialLinuxAssumption ==
    /\ None \notin Ports \cup Comms
    /\ Straight \notin Elements
    /\ MaxFd \in Nat

VARIABLES
    port,        \* the port each descriptor is open on, None if it is free
    owner,       \* history: the object that opened it
    dtr, dsr,    \* the lines: DTR of each port, DSR of the proxy's
    left,        \* history: ports whose DTR a close has left up for nobody
    hSerial,     \* 0 stands for -1
    running,
    pulse,       \* the element threads: at, fd, and the port they raised
    held,        \* history: ports raised by startRunCw, until stopRunCw or stop
    monitor, lastDsr, told,   \* dsrMonitorLoop, its local, the stop pipe
    gui

comm  == <<hSerial, running>>
proxy == <<monitor, lastDsr, told>>
files == <<port, owner>>
line  == <<dtr, left>>
vars  == <<files, line, dsr, comm, pulse, held, proxy, gui>>

NoPulse == [at |-> "none", fd |-> 0, on |-> None]

\* Every variable has its type.
TypeOK ==
    /\ port \in [Fds -> Ports \cup {None}]
    /\ owner \in [Fds -> Comms \cup {None}]
    /\ dtr \in [Ports -> BOOLEAN]
    /\ left \subseteq Ports
    /\ dsr \in BOOLEAN
    /\ hSerial \in [Comms -> 0 .. MaxFd]
    /\ running \in [Comms -> BOOLEAN]
    /\ pulse \in [Elements -> {NoPulse} \cup
                   [at : {"born", "sleep"}, fd : Fds, on : Ports \cup {None}]]
    /\ held \subseteq Ports
    /\ monitor \in {"none", "select", "call", "ended"}
    /\ lastDsr \in {"unknown", "off", "on"}
    /\ told \in BOOLEAN
    /\ gui \in [to : {"idle", "close", "tell", "join"}, c : Comms]

Idle == [to |-> "idle", c |-> "out"]

Init ==
    /\ port = [f \in Fds |-> None]
    /\ owner = [f \in Fds |-> None]
    /\ dtr = [p \in Ports |-> FALSE]
    /\ left = {}
    /\ dsr \in BOOLEAN
    /\ hSerial = [c \in Comms |-> 0]
    /\ running = [c \in Comms |-> FALSE]
    /\ pulse = [e \in Elements |-> NoPulse]
    /\ held = {}
    /\ monitor = "none"
    /\ lastDsr = "unknown"
    /\ told = FALSE
    /\ gui = Idle

----------------------------------------------------------------------------
(* The kernel: the lowest free descriptor is opened; an ioctl on one that  *)
(* is not open has no effect; the last close of a port drops its DTR       *)
(* (HUPCL, which cfmakeraw leaves set).                                    *)

Free == {f \in Fds : port[f] = None}

PortOf(f) == IF f \in Fds THEN port[f] ELSE None

\* A line that falls is not left up any more.
Lower(p) ==
    /\ dtr' = [dtr EXCEPT ![p] = FALSE]
    /\ left' = left \ {p}

SetDtr(f, on) ==
    IF PortOf(f) = None THEN UNCHANGED line
    ELSE IF on THEN dtr' = [dtr EXCEPT ![port[f]] = TRUE] /\ UNCHANGED left
    ELSE Lower(port[f])

\* The element threads that will drop port p themselves.
Owed(p, fds) == {e \in Elements : pulse[e].on = p /\ pulse[e].fd \in fds /\ port[pulse[e].fd] = p}

\* While somebody else has the port open its line stays as it is.
CloseFd(f) ==
    /\ port' = [port EXCEPT ![f] = None]
    /\ owner' = [owner EXCEPT ![f] = None]
    /\ held' = held \ {port[f]}
    /\ IF \E g \in Fds \ {f} : port[g] = port[f]
         THEN /\ left' = IF dtr[port[f]] /\ Owed(port[f], Fds \ {f}) = {}
                           THEN left \cup {port[f]} ELSE left
              /\ UNCHANGED dtr
         ELSE Lower(port[f])

----------------------------------------------------------------------------
(* SerialComm                                                              *)

\* SerialComm::start on the port selected, which opens, with dtrControl FALSE;
\* the proxy then makes its pipe and starts the monitor.
Start(c, p) ==
    /\ gui = Idle
    /\ ~running[c]
    /\ \E f \in Free :
         /\ \A g \in Free : f <= g
         /\ port' = [port EXCEPT ![f] = p]
         /\ owner' = [owner EXCEPT ![f] = c]
         /\ hSerial' = [hSerial EXCEPT ![c] = f]
    /\ Lower(p)
    /\ held' = held \ {p}
    /\ running' = [running EXCEPT ![c] = TRUE]
    /\ IF c = "in"
         THEN monitor' = "select" /\ lastDsr' = "unknown" /\ told' = FALSE
         ELSE UNCHANGED proxy
    /\ UNCHANGED <<dsr, pulse, gui>>

\* The port cannot be opened or set, or the proxy gets no pipe: whatever was
\* opened is closed before start returns.
StartFails(c, p) ==
    /\ gui = Idle
    /\ ~running[c]
    /\ hSerial' = [hSerial EXCEPT ![c] = 0]
    /\ UNCHANGED line \/ Lower(p)
    /\ UNCHANGED <<files, dsr, running, pulse, held, proxy, gui>>

\* SerialComm::stop up to its close.
CommStop(c) ==
    IF hSerial[c] # 0 /\ running[c]
      THEN /\ SetDtr(hSerial[c], FALSE)
           /\ held' = held \ {PortOf(hSerial[c])}
           /\ gui' = [to |-> "close", c |-> c]
      ELSE gui' = Idle /\ UNCHANGED <<line, held>>

\* Variant: m_running is cleared but the descriptor is left open.
CloseForgets(c) ==
    /\ gui = [to |-> "close", c |-> c]
    /\ hSerial' = [hSerial EXCEPT ![c] = 0]
    /\ running' = [running EXCEPT ![c] = FALSE]
    /\ gui' = Idle
    /\ UNCHANGED <<files, line, held, dsr, pulse, proxy>>

Close(c) ==
    /\ gui = [to |-> "close", c |-> c]
    /\ CloseFd(hSerial[c])
    /\ hSerial' = [hSerial EXCEPT ![c] = 0]
    /\ running' = [running EXCEPT ![c] = FALSE]
    /\ gui' = Idle
    /\ UNCHANGED <<dsr, pulse, proxy>>

StopOut ==
    /\ gui = Idle
    /\ running["out"]
    /\ CommStop("out")
    /\ UNCHANGED <<files, dsr, comm, pulse, proxy>>

\* runCW: the thread is born with the descriptor of this moment.
RunCW(e) ==
    /\ pulse[e].at = "none"
    /\ running["out"]
    /\ hSerial["out"] # 0
    /\ pulse' = [pulse EXCEPT ![e] = [at |-> "born", fd |-> hSerial["out"],
                                      on |-> None]]
    /\ UNCHANGED <<files, line, dsr, comm, held, proxy, gui>>

\* The element thread raises DTR and sleeps ...
RaiseDtr(e) ==
    /\ pulse[e].at = "born"
    /\ SetDtr(pulse[e].fd, TRUE)
    /\ pulse' = [pulse EXCEPT ![e].at = "sleep", ![e].on = PortOf(pulse[e].fd)]
    /\ UNCHANGED <<files, dsr, comm, held, proxy, gui>>

\* Variant: the thread clears DTR through m_hSerial and not through its copy.
DropDtrOnMember(e) ==
    /\ pulse[e].at = "sleep"
    /\ SetDtr(hSerial["out"], FALSE)
    /\ pulse' = [pulse EXCEPT ![e] = NoPulse]
    /\ UNCHANGED <<files, dsr, comm, held, proxy, gui>>

\* ... and drops it, whoever raised it meanwhile.
DropDtr(e) ==
    /\ pulse[e].at = "sleep"
    /\ SetDtr(pulse[e].fd, FALSE)
    /\ pulse' = [pulse EXCEPT ![e] = NoPulse]
    /\ UNCHANGED <<files, dsr, comm, held, proxy, gui>>

----------------------------------------------------------------------------
(* N1MMProxy                                                               *)

\* The logger at the other end of the proxy's port keys DSR.
ToggleDsr == dsr' = ~dsr /\ UNCHANGED <<files, line, comm, pulse, held, proxy, gui>>

Monitor(from, to) == monitor = from /\ monitor' = to

\* while (m_running), then select; a thread that is just starting is there too.
Loop == IF running["in"] THEN "select" ELSE "ended"

\* The stop pipe is readable, or the port is gone.
MonitorBreaks ==
    /\ Monitor("select", "ended")
    /\ told \/ hSerial["in"] = 0
    /\ UNCHANGED <<files, line, dsr, comm, pulse, held, lastDsr, told, gui>>

Now == IF dsr THEN "on" ELSE "off"

\* Variant: an edge is reported but not remembered.
MonitorReadsForgets ==
    /\ Monitor("select", IF lastDsr \in {"unknown", Now} THEN Loop ELSE "call")
    /\ ~told
    /\ hSerial["in"] # 0
    /\ lastDsr' = IF lastDsr = "unknown" THEN Now ELSE lastDsr
    /\ UNCHANGED <<files, line, dsr, comm, pulse, held, told, gui>>

\* select times out: the first value is only stored, a change is reported.
MonitorReads ==
    /\ Monitor("select", IF lastDsr \in {"unknown", Now} THEN Loop ELSE "call")
    /\ ~told
    /\ hSerial["in"] # 0
    /\ lastDsr' = Now
    /\ UNCHANGED <<files, line, dsr, comm, pulse, held, told, gui>>

\* Keyer::onStraight calls startRunCw or stopRunCw of the output.
OnStraight ==
    /\ Monitor("call", Loop)
    /\ IF running["out"] /\ hSerial["out"] # 0
         THEN /\ SetDtr(hSerial["out"], lastDsr = "on")
              /\ held' = IF lastDsr = "on" THEN held \cup {PortOf(hSerial["out"])}
                                           ELSE held \ {PortOf(hSerial["out"])}
         ELSE UNCHANGED <<line, held>>
    /\ UNCHANGED <<files, dsr, comm, pulse, lastDsr, told, gui>>

\* N1MMProxy::stop clears m_running, writes to the pipe and joins ...
StopProxy ==
    /\ gui = Idle
    /\ running["in"]
    /\ running' = [running EXCEPT !["in"] = FALSE]
    /\ gui' = [to |-> "tell", c |-> "in"]
    /\ UNCHANGED <<files, line, dsr, hSerial, pulse, held, proxy>>

TellMonitor ==
    /\ gui = [to |-> "tell", c |-> "in"]
    /\ told' = TRUE
    /\ gui' = [to |-> "join", c |-> "in"]
    /\ UNCHANGED <<files, line, dsr, comm, pulse, held, monitor, lastDsr>>

\* ... closes the pipe, and calls SerialComm::stop, which finds m_running FALSE.
JoinMonitor ==
    /\ gui = [to |-> "join", c |-> "in"]
    /\ monitor = "ended"
    /\ monitor' = "none"
    /\ told' = FALSE
    /\ CommStop("in")
    /\ UNCHANGED <<files, dsr, comm, pulse, lastDsr>>

----------------------------------------------------------------------------
Pulse(e) == RaiseDtr(e) \/ DropDtr(e)

MonitorStep == MonitorBreaks \/ MonitorReads \/ OnStraight

StopStep == TellMonitor \/ JoinMonitor \/ \E c \in Comms : Close(c)

Next ==
    \/ \E c \in Comms : \E p \in Selectable(c) : Start(c, p) \/ StartFails(c, p)
    \/ StopOut
    \/ StopProxy
    \/ StopStep
    \/ \E e \in Elements : RunCW(e) \/ Pulse(e)
    \/ ToggleDsr
    \/ MonitorStep

\* Threads run and the GUI finishes the stop it began; nobody must start, stop
\* or key anything.
Fairness ==
    /\ \A e \in Elements : WF_vars(Pulse(e))
    /\ WF_vars(MonitorStep)
    /\ WF_vars(StopStep)

Spec == Init /\ [][Next]_vars
FairSpec == Spec /\ Fairness

----------------------------------------------------------------------------
Causes(p) == {e \in Elements : pulse[e].on = p}
                 \cup (IF p \in held THEN {Straight} ELSE {})

Line(p) == INSTANCE KeyedLine WITH key <- dtr[p], causes <- Causes(p)

\* Each port keeps the promise of an output: DTR is up only for an element that
\* sounds or a straight key that is down, and each element ends, whatever
\* descriptors were closed, lost and reused meanwhile and whichever ports output
\* and proxy share; but not while a close has left the line up.
PortsAreSafe ==
    /\ \A p \in Ports : Line(p)!Init
    /\ [][\A p \in Ports :
             p \notin left' => [Line(p)!Next]_<<dtr[p], Causes(p)>>]_vars
PortsKeyALine == PortsAreSafe /\ \A p \in Ports : Line(p)!ElementsEnd

\* A descriptor that the output has opened is the one it uses: only the proxy
\* loses descriptors, and the output can always be stopped and restarted.
OutputNeverLeaks ==
    /\ \A f \in Fds : owner[f] = "out" => f = hSerial["out"] /\ running["out"]
    /\ running["out"] => hSerial["out"] \in Fds /\ owner[hSerial["out"]] = "out"

\* A line is left up only on a port that the proxy has opened too, in this run of
\* it or in an earlier one, whose descriptor it has lost.
LeftByTheProxy ==
    \A p \in left : dtr[p] /\ \E f \in Fds : port[f] = p /\ owner[f] = "in"

\* "Closes the port, clears DTR" (README.md:421, of stop).  The output's stop clears
\* it before it closes the port: an element or the straight key may raise it in
\* between, and on a port that the proxy has open the close does not drop it.
StopClearsDtr == left = {}

\* A key-down that the monitor has reported is followed by a key-up when the
\* logger drops DSR, unless the proxy or the output is stopped first.
StraightIsReleased ==
    \A p \in Ports :
        (p \in held /\ lastDsr = "on" /\ ~dsr /\ running["in"])
            ~> (p \notin held \/ dsr \/ ~running["in"])

----------------------------------------------------------------------------
(* Why they hold                                                           *)

\* Only an output that runs is closed; the proxy, stopped, is not.
GuiInv ==
    /\ gui.to = "close" => gui.c = "out" /\ running["out"]
    /\ gui.to \in {"tell", "join"} => ~running["in"]

\* Who opened a descriptor is known as long as it is open.
OwnerInv == \A f \in Fds : owner[f] = None <=> port[f] = None

\* A line that is up is held, was left up, or was raised by an element whose
\* descriptor still belongs to that port: the others may end and leave it up.
LineInv ==
    /\ \A e \in Elements : pulse[e].at # "sleep" => pulse[e].on = None
    /\ \A p \in Ports : dtr[p] => p \in held \cup left \/ Owed(p, Fds) # {}

\* The module's invariant, which is inductive.
Inv == TypeOK /\ OutputNeverLeaks /\ LeftByTheProxy /\ GuiInv /\ OwnerInv /\ LineInv
=============================================================================
