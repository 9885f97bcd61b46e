---------------------------- MODULE RemoteClient ----------------------------
(***************************************************************************)
(* src/App/remote: the WebSocket client that keys a remote transceiver.    *)
(* Threads that key (the keyer's worker through runCW, the DSR monitor of  *)
(* N1MMProxy through startRunCw and stopRunCw) send commands under         *)
(* m_moxMutex and turn MOX on first; a timer thread turns it off a delay   *)
(* after the last command; the GUI thread calls start and stop, which      *)
(* change m_running and the socket without m_moxMutex.  m_sendMutex is     *)
(* only taken inside m_moxMutex and is not modelled.  Time is counted in   *)
(* ticks; the server is what the frames it receives make of it.            *)
(***************************************************************************)
EXTENDS Naturals

CONSTANTS
    Paddles,    \* threads that send timed elements and sleep through them
    Straights,  \* threads that send key down and key up
    Durations,  \* lengths of elements, in ticks
    Delays,     \* the MOX release delays the GUI configures, in ticks
    Reliable,   \* TRUE: the peer never drops the connection
    Nobody      \* "m_moxMutex is free"

Callers == Paddles \cup Straights

ASSUME RemoteAssumption ==
    /\ Durations \subseteq Nat \ {0}
    /\ Delays \subseteq Nat
    /\ Paddles \cap Straights = {}
    /\ Nobody \notin Callers
    /\ Reliable \in BOOLEAN

VARIABLES
    running, conn, mutex, moxActive, stopFlag, scheduled, delay,
    current,    \* the timer's copy of m_moxScheduleToken is still its value
    due,        \* ticks to m_moxDeactivationAtMs
    waitLeft,   \* ticks to the end of the timer's wait_for
    timer,      \* where the timer thread is
    at, cmd,    \* where each caller is, and the command it sends
    rest,       \* ticks a paddle's thread still sleeps after its element
    gui, then, newDelay, wasActive,   \* the GUI thread and its locals
    trx, down, sounding   \* the server: MOX, key held, ticks of element left

mox    == <<moxActive, stopFlag, scheduled, delay, current, due>>
client == <<running, conn, mutex>>
clock  == <<waitLeft, rest>>
caller == <<at, cmd>>
menu   == <<gui, then, newDelay, wasActive>>
server == <<trx, down, sounding>>
vars   == <<mox, client, clock, timer, caller, menu, server>>

----------------------------------------------------------------------------
Command == [kind : {"element"}, ticks : Durations]
               \cup [kind : {"down", "up"}, ticks : {0}]
NoCommand == [kind |-> "up", ticks |-> 0]

\* The steps of stop(), and those of start() after it.
StopSteps == {"snapshot", "join", "release", "releaseLocked", "reset", "clear",
              "close"}
StartSteps == {"open", "handshake", "arm", "run"}

\* Every variable has its type; deadlines and waits never become negative.
TypeOK ==
    /\ running \in BOOLEAN
    /\ conn \in {"none", "raw", "up", "dead"}
    /\ mutex \in Callers \cup {Nobody}
    /\ moxActive \in BOOLEAN
    /\ stopFlag \in BOOLEAN
    /\ scheduled \in BOOLEAN
    /\ delay \in Nat
    /\ current \in BOOLEAN
    /\ due \in Nat
    /\ waitLeft \in Nat
    /\ timer \in {"none", "top", "parked", "timed", "ended"}
    /\ at \in [Callers -> {"idle", "lock", "trx", "key", "off"}]
    /\ cmd \in [Callers -> Command \cup {NoCommand}]
    /\ rest \in [Callers -> Nat]
    /\ gui \in {"idle"} \cup StopSteps \cup StartSteps
    /\ then \in {"idle", "open"}
    /\ newDelay \in Nat
    /\ wasActive \in BOOLEAN
    /\ trx \in BOOLEAN
    /\ down \in BOOLEAN
    /\ sounding \in Nat

Init ==
    /\ running = FALSE
    /\ conn = "none"
    /\ mutex = Nobody
    /\ moxActive = FALSE
    /\ stopFlag = FALSE
    /\ scheduled = FALSE
    /\ delay \in Delays
    /\ current = FALSE
    /\ due = 0
    /\ waitLeft = 0
    /\ timer = "none"
    /\ at = [c \in Callers |-> "idle"]
    /\ cmd = [c \in Callers |-> NoCommand]
    /\ rest = [c \in Callers |-> 0]
    /\ gui = "idle"
    /\ then = "idle"
    /\ newDelay = 0
    /\ wasActive = FALSE
    /\ trx = FALSE
    /\ down = FALSE
    /\ sounding = 0

----------------------------------------------------------------------------
(* sendLine: a check of m_running and of the descriptor, then sendRaw,     *)
(* which fails on a socket that is closed or dead.  The GUI may act        *)
(* between the two.                                                        *)

Sendable == running /\ conn # "none"

\* The frame is sent: it reaches the server if the socket is upgraded.  It is
\* lost if the peer is gone and the kernel does not know it yet; on a socket
\* that start() has not upgraded yet it is no frame.
Deliver(effect) == \/ conn = "up" /\ effect
                   \/ conn \in {"raw", "dead"} /\ UNCHANGED server

SendFails == conn \in {"none", "dead"} /\ running' = FALSE

SetTrx(on) == trx' = on /\ UNCHANGED <<down, sounding>>

Keying(c) ==
    /\ UNCHANGED trx
    /\ sounding' = IF cmd[c].kind = "element" THEN cmd[c].ticks ELSE sounding
    /\ down' = CASE cmd[c].kind = "down" -> TRUE
                 [] cmd[c].kind = "up" -> FALSE
                 [] OTHER -> down

\* deactivateMoxLocked, where nothing can come between the check and the send.
DeactivateMox ==
    /\ moxActive' = FALSE
    /\ \/ Sendable /\ Deliver(SetTrx(FALSE)) /\ UNCHANGED running
       \/ Sendable /\ SendFails /\ UNCHANGED server
       \/ ~Sendable /\ UNCHANGED <<running, server>>

----------------------------------------------------------------------------
(* sendKeyerCommand                                                        *)

\* runCW, startRunCw, stopRunCw.  playDitDah sleeps through the element it
\* has sent; onStraight is called on an edge of DSR.
Call(c) ==
    /\ at[c] = "idle"
    /\ rest[c] = 0
    /\ \/ /\ c \in Paddles
          /\ running
          /\ \E d \in Durations : cmd' = [cmd EXCEPT ![c] = [kind |-> "element", ticks |-> d]]
       \/ /\ c \in Straights
          /\ cmd' = [cmd EXCEPT ![c].kind = IF @ = "up" THEN "down" ELSE "up"]
    /\ at' = [at EXCEPT ![c] = "lock"]
    /\ UNCHANGED <<mox, client, clock, timer, menu, server>>

Leave(c) ==
    /\ at' = [at EXCEPT ![c] = "idle"]
    /\ rest' = [rest EXCEPT ![c] = cmd[c].ticks]
    /\ mutex' = Nobody

Enter(c) ==
    /\ at[c] = "lock"
    /\ mutex = Nobody
    /\ IF Sendable
       THEN /\ mutex' = c
            /\ scheduled' = FALSE
            /\ current' = FALSE
            /\ at' = [at EXCEPT ![c] = IF moxActive THEN "key" ELSE "trx"]
            /\ UNCHANGED rest
       ELSE /\ Leave(c)
            /\ UNCHANGED <<scheduled, current>>
    /\ UNCHANGED <<moxActive, stopFlag, delay, due, running, conn, waitLeft,
                   timer, cmd, menu, server>>

\* activateMoxLocked, then the check of the next sendLine.
SendTrx(c) ==
    /\ at[c] = "trx"
    /\ \/ /\ Deliver(SetTrx(TRUE))
          /\ moxActive' = TRUE
          /\ UNCHANGED running
          /\ IF running
             THEN at' = [at EXCEPT ![c] = "key"] /\ UNCHANGED <<rest, mutex>>
             ELSE Leave(c)
       \/ /\ SendFails
          /\ Leave(c)
          /\ UNCHANGED <<moxActive, server>>
    /\ UNCHANGED <<stopFlag, scheduled, delay, current, due, conn, waitLeft,
                   timer, cmd, menu>>

\* Variant: the duration of the element is forgotten.
ScheduleReleaseShort(c) ==
    /\ scheduled' = TRUE
    /\ due' = delay
    /\ current' = FALSE

\* Variant: m_moxReleaseScheduled is not set.
ScheduleReleaseUnset(c) ==
    /\ due' = delay + cmd[c].ticks
    /\ current' = FALSE
    /\ UNCHANGED scheduled

\* scheduleMoxReleaseLocked
ScheduleRelease(c) ==
    /\ scheduled' = TRUE
    /\ due' = delay + cmd[c].ticks
    /\ current' = FALSE

SendKey(c) ==
    /\ at[c] = "key"
    /\ \/ /\ Deliver(Keying(c))
          /\ UNCHANGED running
          /\ \/ /\ delay > 0
                /\ ScheduleRelease(c)
                /\ Leave(c)
                /\ UNCHANGED moxActive
             \/ /\ delay = 0
                /\ running
                /\ at' = [at EXCEPT ![c] = "off"]
                /\ UNCHANGED <<rest, mutex, moxActive, scheduled, due, current>>
             \/ /\ delay = 0
                /\ ~running
                /\ moxActive' = FALSE
                /\ Leave(c)
                /\ UNCHANGED <<scheduled, due, current>>
       \/ /\ SendFails
          /\ Leave(c)
          /\ UNCHANGED <<moxActive, scheduled, due, current, server>>
    /\ UNCHANGED <<stopFlag, delay, conn, waitLeft, timer, cmd, menu>>

\* With no delay configured MOX is released at once.
SendOff(c) ==
    /\ at[c] = "off"
    /\ \/ Deliver(SetTrx(FALSE)) /\ UNCHANGED running
       \/ SendFails /\ UNCHANGED server
    /\ moxActive' = FALSE
    /\ Leave(c)
    /\ UNCHANGED <<stopFlag, scheduled, delay, current, due, conn, waitLeft,
                   timer, cmd, menu>>

----------------------------------------------------------------------------
(* moxTimerLoop                                                            *)

\* Variant: m_moxActive is dropped without a frame.
ReleaseSilent ==
    /\ scheduled' = FALSE
    /\ moxActive' = FALSE
    /\ timer' = "top"
    /\ waitLeft' = 0
    /\ UNCHANGED <<current, running, server>>

Release ==
    /\ scheduled' = FALSE
    /\ IF moxActive THEN DeactivateMox
                    ELSE UNCHANGED <<moxActive, running, server>>
    /\ timer' = "top"
    /\ waitLeft' = 0
    /\ UNCHANGED current

Frame == UNCHANGED <<stopFlag, delay, due, conn, mutex, rest, caller, menu>>

\* Variant: the predicate of the parked wait forgets m_moxStopRequested.
TimerStopsFromTop ==
    /\ timer = "top"
    /\ mutex = Nobody
    /\ stopFlag
    /\ timer' = "ended"
    /\ UNCHANGED <<moxActive, scheduled, current, running, waitLeft, server>>
    /\ Frame

TimerStops ==
    /\ timer \in {"top", "parked"}
    /\ mutex = Nobody
    /\ stopFlag
    /\ timer' = "ended"
    /\ UNCHANGED <<moxActive, scheduled, current, running, waitLeft, server>>
    /\ Frame

\* m_moxCv.wait finds nothing scheduled.
TimerParks ==
    /\ timer = "top"
    /\ mutex = Nobody
    /\ ~stopFlag /\ ~scheduled
    /\ timer' = "parked"
    /\ UNCHANGED <<moxActive, scheduled, current, running, waitLeft, server>>
    /\ Frame

\* Something is scheduled: wait_for the rest of the delay, or release at once.
TimerPlans ==
    /\ timer \in {"top", "parked"}
    /\ mutex = Nobody
    /\ ~stopFlag /\ scheduled
    /\ \/ /\ due > 0
          /\ timer' = "timed"
          /\ current' = TRUE
          /\ waitLeft' = due
          /\ UNCHANGED <<moxActive, scheduled, running, server>>
       \/ due = 0 /\ Release
    /\ Frame

\* The predicate of wait_for holds: re-evaluate from the top.
TimerInterrupted ==
    /\ timer = "timed"
    /\ mutex = Nobody
    /\ stopFlag \/ ~scheduled \/ ~current
    /\ timer' = "top"
    /\ waitLeft' = 0
    /\ UNCHANGED <<moxActive, scheduled, current, running, server>>
    /\ Frame

\* Variant: the token is not compared after the timeout.
TimerExpiresStale ==
    /\ timer = "timed"
    /\ mutex = Nobody
    /\ waitLeft = 0
    /\ ~stopFlag /\ scheduled
    /\ Release
    /\ Frame

\* wait_for timed out, and once m_moxMutex is taken its predicate is false.
TimerExpires ==
    /\ timer = "timed"
    /\ mutex = Nobody
    /\ waitLeft = 0
    /\ ~stopFlag /\ scheduled /\ current
    /\ Release
    /\ Frame

----------------------------------------------------------------------------
(* The GUI thread: stop(), and start(), which begins with a stop().        *)

Goto(l) == gui' = l /\ UNCHANGED <<then, newDelay, wasActive>>

CallStop ==
    /\ gui = "idle"
    /\ gui' = "snapshot"
    /\ UNCHANGED <<then, newDelay, wasActive, mox, client, clock, timer, caller,
                   server>>

CallStart(d) ==
    /\ gui = "idle"
    /\ gui' = "snapshot"
    /\ then' = "open"
    /\ newDelay' = d
    /\ UNCHANGED <<wasActive, mox, client, clock, timer, caller, server>>

StopSnapshot ==
    /\ gui = "snapshot"
    /\ mutex = Nobody
    /\ wasActive' = moxActive
    /\ stopFlag' = TRUE
    /\ scheduled' = FALSE
    /\ current' = FALSE
    /\ due' = 0
    /\ gui' = "join"
    /\ UNCHANGED <<then, newDelay, moxActive, delay, client, clock, timer, caller,
                   server>>

StopJoin ==
    /\ gui = "join"
    /\ timer \in {"none", "ended"}
    /\ timer' = "none"
    /\ Goto("release")
    /\ UNCHANGED <<mox, client, clock, caller, server>>

StopRelease ==
    /\ gui = "release"
    /\ Goto(IF running /\ wasActive /\ conn # "none" THEN "releaseLocked" ELSE "reset")
    /\ UNCHANGED <<mox, client, clock, timer, caller, server>>

\* Variant: the release runs without m_moxMutex.
StopReleaseUnlocked ==
    /\ gui = "releaseLocked"
    /\ DeactivateMox
    /\ Goto("reset")
    /\ UNCHANGED <<stopFlag, scheduled, delay, current, due, conn, mutex, clock,
                   timer, caller>>

StopReleaseLocked ==
    /\ gui = "releaseLocked"
    /\ mutex = Nobody
    /\ DeactivateMox
    /\ Goto("reset")
    /\ UNCHANGED <<stopFlag, scheduled, delay, current, due, conn, mutex, clock,
                   timer, caller>>

StopReset ==
    /\ gui = "reset"
    /\ mutex = Nobody
    /\ moxActive' = FALSE
    /\ stopFlag' = FALSE
    /\ Goto("clear")
    /\ UNCHANGED <<scheduled, delay, current, due, client, clock, timer, caller,
                   server>>

StopClear ==
    /\ gui = "clear"
    /\ running' = FALSE
    /\ Goto("close")
    /\ UNCHANGED <<mox, conn, mutex, clock, timer, caller, server>>

StopClose ==
    /\ gui = "close"
    /\ conn' = "none"
    /\ gui' = then
    /\ then' = "idle"
    /\ wasActive' = FALSE
    /\ UNCHANGED <<newDelay, mox, running, mutex, clock, timer, caller, server>>

StartOpen ==
    /\ gui = "open"
    /\ \/ conn' = "raw" /\ Goto("handshake")
       \/ UNCHANGED conn /\ Goto("idle")
    /\ UNCHANGED <<mox, running, mutex, clock, timer, caller, server>>

\* The upgrade response, or a refusal, or the end of the connection.
StartHandshake ==
    /\ gui = "handshake"
    /\ \/ conn = "raw" /\ conn' = "up" /\ Goto("arm")
       \/ conn' = "none" /\ Goto("idle")
    /\ UNCHANGED <<mox, running, mutex, clock, timer, caller, server>>

\* Variant: m_moxActive stays as a command that came after stop's reset left it.
StartArmKeepsMox ==
    /\ gui = "arm"
    /\ mutex = Nobody
    /\ delay' = newDelay
    /\ stopFlag' = FALSE
    /\ scheduled' = FALSE
    /\ current' = FALSE
    /\ due' = 0
    /\ Goto("run")
    /\ UNCHANGED <<moxActive, client, clock, timer, caller, server>>

\* resetMoxStateLocked
StartArm ==
    /\ gui = "arm"
    /\ mutex = Nobody
    /\ delay' = newDelay
    /\ moxActive' = FALSE
    /\ stopFlag' = FALSE
    /\ scheduled' = FALSE
    /\ current' = FALSE
    /\ due' = 0
    /\ Goto("run")
    /\ UNCHANGED <<client, clock, timer, caller, server>>

StartRun ==
    /\ gui = "run"
    /\ running' = TRUE
    /\ timer' = "top"
    /\ Goto("idle")
    /\ UNCHANGED <<mox, conn, mutex, clock, caller, server>>

----------------------------------------------------------------------------
(* The environment                                                         *)

PeerFails ==
    /\ ~Reliable
    /\ conn \in {"raw", "up"}
    /\ conn' = "dead"
    /\ UNCHANGED <<mox, running, mutex, clock, timer, caller, menu, server>>

Less(n) == IF n = 0 THEN 0 ELSE n - 1

Tick ==
    /\ due + waitLeft + sounding > 0 \/ \E c \in Callers : rest[c] > 0
    /\ due' = Less(due)
    /\ waitLeft' = Less(waitLeft)
    /\ sounding' = Less(sounding)
    /\ rest' = [c \in Callers |-> Less(rest[c])]
    /\ UNCHANGED <<moxActive, stopFlag, scheduled, delay, current, client, timer,
                   caller, menu, trx, down>>

----------------------------------------------------------------------------
CallerStep(c) == Enter(c) \/ SendTrx(c) \/ SendKey(c) \/ SendOff(c)

TimerStep == \/ TimerStops
             \/ TimerParks
             \/ TimerPlans
             \/ TimerInterrupted
             \/ TimerExpires

StopStep == \/ StopSnapshot
            \/ StopJoin
            \/ StopRelease
            \/ StopReleaseLocked
            \/ StopReset
            \/ StopClear
            \/ StopClose

StartStep == StartOpen \/ StartHandshake \/ StartArm \/ StartRun

Next == \/ \E c \in Callers : Call(c) \/ CallerStep(c)
        \/ TimerStep
        \/ CallStop
        \/ \E d \in Delays : CallStart(d)
        \/ StopStep
        \/ StartStep
        \/ PeerFails
        \/ Tick

Spec == Init /\ [][Next]_vars

\* Time passes, every thread runs, and a thread that waits for m_moxMutex gets
\* it: its holders keep it for the length of a send and come back only after
\* an element or an edge of the key.  The answer of the peer is not assumed.
Fairness ==
    /\ WF_vars(Tick)
    /\ \A c \in Callers : SF_vars(CallerStep(c))
    /\ SF_vars(TimerStep)
    /\ SF_vars(StopStep)
    /\ WF_vars(StartArm \/ StartRun)

FairSpec == Spec /\ Fairness

----------------------------------------------------------------------------
(* Properties                                                              *)

\* A keyer command is only ever sent to a server that has MOX on: whoever
\* passed the test of m_moxActive still relies on it when it sends.  Between the
\* handshake and resetMoxStateLocked the flag is that of the old connection.
KeysUnderMox ==
    conn = "up" /\ gui # "arm" => \A c \in Callers : at[c] = "key" => trx

\* When the client stops believing that MOX is on although it is connected,
\* the server has been told: m_moxActive is not dropped by a release alone.
ReleaseReachesServer ==
    [][moxActive /\ ~moxActive' /\ conn = "up" /\ gui = "idle" => ~trx']_vars

\* The timer releases MOX only when the delay after the latest command has
\* passed, even if an older deadline has just expired.
NeverEarly ==
    [][trx /\ ~trx' /\ gui = "idle" /\ (\A c \in Callers : at[c] # "off") => due = 0]_vars

\* With a delay above zero no element of the keyer is cut off.  Without one the
\* code releases MOX right after the command of the element (RemoteClient.cpp:197)
\* and every element is.
ElementsComplete ==
    [][trx /\ ~trx' /\ gui = "idle" /\ delay > 0 => sounding = 0]_vars

\* Once nobody keys, a connected client that believes MOX to be on lets it go.
Calm == running /\ conn = "up" /\ gui = "idle" /\ \A c \in Callers : at[c] = "idle"
MoxIsReleased == <>[]Calm => <>[]~moxActive

\* stop() gets past the join of the timer thread and past every lock.
StopCompletes == gui \in StopSteps ~> gui \notin StopSteps

----------------------------------------------------------------------------
(* Why they hold                                                           *)

\* A caller is between its lock and its unlock exactly when it owns m_moxMutex,
\* and then nothing is scheduled.
MutexInv ==
    /\ \A c \in Callers : at[c] \in {"trx", "key", "off"} <=> mutex = c
    /\ mutex # Nobody => ~scheduled

\* Who is past the activation relies on m_moxActive, and m_moxActive on the
\* server's MOX, also while nobody sends.
RelianceInv ==
    /\ \A c \in Callers : at[c] \in {"key", "off"} => moxActive
    /\ \A c \in Callers : at[c] = "off" => delay = 0
    /\ conn = "up" /\ gui # "arm" /\ moxActive => trx

\* A start begins without a connection, and a client that is left connected
\* runs: only a failed send stops it, and its connection is never up again.
ConnInv ==
    /\ gui = "open" => conn = "none"
    /\ gui = "idle" /\ conn = "up" => running

\* A timer that waits for the current token waits until the deadline.
TimerInv == timer = "timed" /\ current => due <= waitLeft

\* Who sends elements sends nothing else, and the others never do.
CommandInv ==
    \A c \in Callers : /\ cmd[c].kind = "element" => c \in Paddles
                       /\ c \in Paddles /\ at[c] # "idle" => cmd[c].kind = "element"

IInv == TypeOK /\ CommandInv /\ MutexInv /\ RelianceInv /\ ConnInv /\ TimerInv

\* Without a straight key no element is sent that outlasts the deadline.
ElementInv ==
    Straights = {} /\ conn = "up" /\ gui # "arm" /\ scheduled => sounding <= due

----------------------------------------------------------------------------
(* What the documentation says and the code does not do                    *)

\* RemoteClient.h on stop: "Releases MOX, stops the timer thread and closes the
\* connection".  A command between the sections of stop turns MOX on again.
StopReleasesMox == conn = "none" => ~trx
=============================================================================
