----------------------------- MODULE RemoteProofs -----------------------------
(***************************************************************************)
(* Proofs about RemoteClient, for every set of callers, every length of    *)
(* elements and every delay, and for peers that fail.                      *)
(***************************************************************************)
EXTENDS RemoteClient, TLAPS

\* The part of TypeOK about flags; the prover wants it apart from the rest.
Flags ==
    /\ running \in BOOLEAN /\ moxActive \in BOOLEAN /\ stopFlag \in BOOLEAN
    /\ scheduled \in BOOLEAN /\ current \in BOOLEAN /\ wasActive \in BOOLEAN
    /\ trx \in BOOLEAN /\ down \in BOOLEAN

\* The length of a command is a number of ticks.
LEMMA TicksTyped ==
    ASSUME TypeOK, NEW c \in Callers
    PROVE  cmd[c].ticks \in Nat
<1>1. ASSUME NEW x \in Command PROVE x.ticks \in Nat
  <2>1. CASE x \in [kind : {"element"}, ticks : Durations]
    BY <2>1, RemoteAssumption
  <2>2. CASE x \in [kind : {"down", "up"}, ticks : {0}]
    BY <2>2
  <2> QED BY <1>1, <2>1, <2>2 DEF Command
<1>2. NoCommand.ticks \in Nat
  BY DEF NoCommand
<1> QED BY <1>1, <1>2 DEF TypeOK

\* A call chooses a command of the caller's kind and leaves the others alone.
LEMMA CallEffect ==
    ASSUME TypeOK, CommandInv, NEW c \in Callers, Call(c)
    PROVE  /\ cmd' \in [Callers -> Command \cup {NoCommand}]
           /\ cmd'[c].kind = "element" <=> c \in Paddles
           /\ \A b \in Callers \ {c} : cmd'[b] = cmd[b] /\ at'[b] = at[b]
<1>1. \A b \in Callers \ {c} : cmd'[b] = cmd[b] /\ at'[b] = at[b]
  BY DEF Call, TypeOK
<1>2. CASE c \in Paddles
  <2>1. PICK d \in Durations :
          cmd' = [cmd EXCEPT ![c] = [kind |-> "element", ticks |-> d]]
    BY <1>2, RemoteAssumption DEF Call
  <2>2. [kind |-> "element", ticks |-> d] \in Command
    BY DEF Command
  <2> QED BY <1>1, <1>2, <2>1, <2>2 DEF TypeOK
<1>3. CASE c \in Straights
  <2>1. cmd[c] \in [kind : {"down", "up"}, ticks : {0}]
    BY <1>3, RemoteAssumption DEF CommandInv, Command, NoCommand, Callers, TypeOK
  <2>2. cmd' = [cmd EXCEPT ![c].kind = IF @ = "up" THEN "down" ELSE "up"]
    BY <1>3, RemoteAssumption DEF Call
  <2>3. cmd'[c] \in [kind : {"down", "up"}, ticks : {0}]
    BY <2>1, <2>2 DEF TypeOK
  <2>4. cmd' \in [Callers -> Command \cup {NoCommand}]
    BY <2>1, <2>2 DEF Command, TypeOK
  <2> QED BY <1>1, <1>3, <2>3, <2>4, RemoteAssumption
<1> QED BY <1>2, <1>3 DEF Callers

\* Every variable keeps its type along every step.
LEMMA TypeStep == TypeOK /\ CommandInv /\ [Next]_vars => TypeOK'
<1> SUFFICES ASSUME TypeOK, CommandInv, [Next]_vars PROVE TypeOK'
    OBVIOUS
<1>1. ASSUME NEW c \in Callers, Call(c) PROVE TypeOK'
  <2>1. cmd' \in [Callers -> Command \cup {NoCommand}]
    BY <1>1, CallEffect
  <2>2. at' \in [Callers -> {"idle", "lock", "trx", "key", "off"}]
    BY <1>1 DEF TypeOK, Call
  <2> QED BY <1>1, <2>1, <2>2 DEF TypeOK, Call, mox, client, clock, menu, server
<1>2. ASSUME NEW c \in Callers, Enter(c) PROVE TypeOK'
  <2>1. Flags'
    BY <1>2 DEF Flags, TypeOK, Enter, Leave, menu, server
  <2> QED BY <1>2, <2>1, TicksTyped DEF Flags, TypeOK, Enter, Leave, menu, server
<1>3. ASSUME NEW c \in Callers, SendTrx(c) PROVE TypeOK'
  <2>1. Flags'
    BY <1>3 DEF Flags, TypeOK, SendTrx, Leave, Deliver, SetTrx, SendFails, menu, server
  <2> QED
    BY <1>3, <2>1, TicksTyped DEF Flags, TypeOK, SendTrx, Leave, Deliver, SetTrx,
       SendFails, menu, server
<1>4. ASSUME NEW c \in Callers, SendKey(c) PROVE TypeOK'
  <2>1. Flags'
    BY <1>4 DEF Flags, TypeOK, SendKey, Leave, Deliver, Keying, ScheduleRelease,
       SendFails, menu, server
  <2>2. cmd[c].ticks \in Nat
    BY TicksTyped
  <2>3. sounding' \in Nat
    BY <1>4, <2>2 DEF TypeOK, SendKey, Deliver, Keying, server
  <2>4. due' \in Nat
    BY <1>4, <2>2 DEF TypeOK, SendKey, ScheduleRelease
  <2>5. /\ rest' \in [Callers -> Nat]
        /\ at' \in [Callers -> {"idle", "lock", "trx", "key", "off"}]
        /\ mutex' \in Callers \cup {Nobody}
    BY <1>4, <2>2 DEF TypeOK, SendKey, Leave
  <2> QED
    BY <1>4, <2>1, <2>3, <2>4, <2>5 DEF Flags, TypeOK, SendKey, menu
<1>5. ASSUME NEW c \in Callers, SendOff(c) PROVE TypeOK'
  <2>1. Flags'
    BY <1>5 DEF Flags, TypeOK, SendOff, Leave, Deliver, SetTrx, SendFails, menu, server
  <2> QED
    BY <1>5, <2>1, TicksTyped DEF Flags, TypeOK, SendOff, Leave, Deliver, SetTrx,
       SendFails, menu, server
<1>6. CASE TimerStep
  <2>1. Flags'
    BY <1>6 DEF Flags, TypeOK, TimerStep, TimerStops, TimerParks, TimerPlans,
       TimerInterrupted, TimerExpires, Release, DeactivateMox, Deliver, SetTrx,
       SendFails, Frame, menu, caller, server
  <2> QED
    BY <1>6, <2>1 DEF Flags, TypeOK, TimerStep, TimerStops, TimerParks, TimerPlans,
       TimerInterrupted, TimerExpires, Release, DeactivateMox, Deliver, SetTrx,
       SendFails, Frame, menu, caller, server
<1>7. ASSUME CallStop \/ \E d \in Delays : CallStart(d) PROVE TypeOK'
  BY <1>7, RemoteAssumption DEF TypeOK, CallStop, CallStart, mox, client, clock,
     caller, server, StopSteps
<1>8. CASE StopStep
  <2>1. Flags'
    BY <1>8 DEF Flags, TypeOK, StopStep, StopReleaseLocked, DeactivateMox, Deliver,
       SetTrx, SendFails, StopSnapshot, StopJoin, StopRelease, StopReset, StopClear,
       StopClose, Goto, mox, client, server
  <2> QED
    BY <1>8, <2>1 DEF Flags, TypeOK, StopStep, StopReleaseLocked, DeactivateMox,
       Deliver, SetTrx, SendFails, StopSnapshot, StopJoin, StopRelease, StopReset,
       StopClear, StopClose, Goto, mox, client, clock, caller, server, StopSteps,
       StartSteps
<1>9. CASE StartStep
  <2>1. Flags'
    BY <1>9 DEF Flags, TypeOK, StartStep, StartOpen, StartHandshake, StartArm,
       StartRun, Goto, mox, client, server
  <2> QED
    BY <1>9, <2>1 DEF Flags, TypeOK, StartStep, StartOpen, StartHandshake, StartArm,
       StartRun, Goto, mox, client, clock, caller, server, StartSteps
<1>10. CASE PeerFails
  BY <1>10 DEF TypeOK, PeerFails, mox, clock, caller, menu, server
<1>11. CASE Tick
  BY <1>11 DEF TypeOK, Tick, Less, client, caller, menu
<1>12. CASE UNCHANGED vars
  BY <1>12 DEF TypeOK, vars, mox, client, clock, caller, menu, server
<1> QED
  BY <1>1, <1>2, <1>3, <1>4, <1>5, <1>6, <1>7, <1>8, <1>9, <1>10, <1>11, <1>12
     DEF Next, CallerStep

\* A caller's command changes only when it calls.
LEMMA CommandStep == TypeOK /\ CommandInv /\ [Next]_vars => CommandInv'
<1> SUFFICES ASSUME TypeOK, CommandInv, [Next]_vars PROVE CommandInv'
    OBVIOUS
<1> USE RemoteAssumption DEF TypeOK, CommandInv, Callers
<1>1. ASSUME NEW c \in Callers, Call(c) PROVE CommandInv'
  BY <1>1, CallEffect
<1>2. ASSUME NEW c \in Callers, CallerStep(c) PROVE CommandInv'
  BY <1>2 DEF CallerStep, Enter, SendTrx, SendKey, SendOff, Leave
<1>3. CASE UNCHANGED caller
  BY <1>3 DEF caller
<1> QED
  BY <1>1, <1>2, <1>3 DEF Next, TimerStep, TimerStops, TimerParks, TimerPlans,
     TimerInterrupted, TimerExpires, Frame, CallStop, CallStart, StopStep,
     StopSnapshot, StopJoin, StopRelease, StopReleaseLocked, StopReset, StopClear,
     StopClose, StartStep, StartOpen, StartHandshake, StartArm, StartRun,
     PeerFails, Tick, vars

\* m_moxMutex is owned by the caller that is inside, and nothing is scheduled
\* until it leaves.
LEMMA MutexStep == TypeOK /\ MutexInv /\ [Next]_vars => MutexInv'
<1> SUFFICES ASSUME TypeOK, MutexInv, [Next]_vars PROVE MutexInv'
    OBVIOUS
<1> USE RemoteAssumption DEF TypeOK, MutexInv
<1>1. ASSUME NEW c \in Callers, Call(c) PROVE MutexInv'
  BY <1>1 DEF Call, mox, client
<1>2. ASSUME NEW c \in Callers, Enter(c) PROVE MutexInv'
  BY <1>2 DEF Enter, Leave
<1>3. ASSUME NEW c \in Callers, SendTrx(c) PROVE MutexInv'
  BY <1>3 DEF SendTrx, Leave
<1>4. ASSUME NEW c \in Callers, SendKey(c) PROVE MutexInv'
  BY <1>4 DEF SendKey, Leave, ScheduleRelease
<1>5. ASSUME NEW c \in Callers, SendOff(c) PROVE MutexInv'
  BY <1>5 DEF SendOff, Leave
<1>6. CASE UNCHANGED <<caller, mutex>> /\ (scheduled' => scheduled)
  BY <1>6 DEF caller
<1> QED
  BY <1>1, <1>2, <1>3, <1>4, <1>5, <1>6 DEF Next, CallerStep, TimerStep,
     TimerStops, TimerParks, TimerPlans, TimerInterrupted, TimerExpires, Release,
     Frame, CallStop, CallStart, StopStep, StopSnapshot, StopJoin, StopRelease,
     StopReleaseLocked, StopReset, StopClear, StopClose, StartStep, StartOpen,
     StartHandshake, StartArm, StartRun, PeerFails, Tick, vars, client, mox, caller

\* Who relies on m_moxActive may: it is only set by a frame that has turned MOX
\* on, or on a connection that start() has still to arm, and only cleared under
\* the mutex or by the frame that turns MOX off.
LEMMA RelianceStep ==
    TypeOK /\ MutexInv /\ RelianceInv /\ [Next]_vars => RelianceInv'
<1> SUFFICES ASSUME TypeOK, MutexInv, RelianceInv, [Next]_vars PROVE RelianceInv'
    OBVIOUS
<1> USE RemoteAssumption DEF TypeOK, MutexInv, RelianceInv
<1>1. ASSUME NEW c \in Callers, Call(c) PROVE RelianceInv'
  BY <1>1 DEF Call, mox, client, menu, server
<1>2. ASSUME NEW c \in Callers, Enter(c) PROVE RelianceInv'
  BY <1>2 DEF Enter, Leave, menu, server
<1>3. ASSUME NEW c \in Callers, SendTrx(c) PROVE RelianceInv'
  BY <1>3 DEF SendTrx, Leave, Deliver, SetTrx, SendFails, menu, server
<1>4. ASSUME NEW c \in Callers, SendKey(c) PROVE RelianceInv'
  BY <1>4 DEF SendKey, Leave, Deliver, Keying, SendFails, menu, server
<1>5. ASSUME NEW c \in Callers, SendOff(c) PROVE RelianceInv'
  BY <1>5 DEF SendOff, Leave, menu
<1>6. CASE TimerStep
  <2>1. UNCHANGED <<at, delay, gui, conn>> /\ mutex = Nobody
    BY <1>6 DEF TimerStep, TimerStops, TimerParks, TimerPlans, TimerInterrupted,
       TimerExpires, Frame, menu, caller
  <2>2. UNCHANGED <<moxActive, trx>> \/ ~moxActive'
    BY <1>6 DEF TimerStep, TimerStops, TimerParks, TimerPlans, TimerInterrupted,
       TimerExpires, Release, DeactivateMox, server
  <2> QED BY <2>1, <2>2
<1>7. ASSUME CallStop \/ \E d \in Delays : CallStart(d) PROVE RelianceInv'
  BY <1>7 DEF CallStop, CallStart, mox, client, caller, server
<1>8. CASE StopStep
  <2>1. UNCHANGED <<at, delay>> /\ gui # "arm"
    BY <1>8 DEF StopStep, StopSnapshot, StopJoin, StopRelease, StopReleaseLocked,
       StopReset, StopClear, StopClose, Goto, mox, caller
  <2>2. \/ UNCHANGED <<moxActive, trx, conn>>
        \/ mutex = Nobody /\ ~moxActive'
        \/ conn' = "none" /\ UNCHANGED moxActive
    BY <1>8 DEF StopStep, StopSnapshot, StopJoin, StopRelease, StopReleaseLocked,
       StopReset, StopClear, StopClose, DeactivateMox, mox, client, server
  <2> QED BY <2>1, <2>2
<1>9. CASE StartStep
  BY <1>9 DEF StartStep, StartOpen, StartHandshake, StartArm, StartRun, Goto, mox,
     client, caller, server
<1>10. CASE PeerFails \/ Tick
  BY <1>10 DEF PeerFails, Tick, mox, client, caller, menu, server
<1>11. CASE UNCHANGED vars
  BY <1>11 DEF vars, mox, client, caller, menu, server
<1> QED
  BY <1>1, <1>2, <1>3, <1>4, <1>5, <1>6, <1>7, <1>8, <1>9, <1>10, <1>11
     DEF Next, CallerStep

\* A connection that is up after start() belongs to a client that runs.
LEMMA ConnStep == TypeOK /\ ConnInv /\ [Next]_vars => ConnInv'
<1> SUFFICES ASSUME TypeOK, ConnInv, [Next]_vars PROVE ConnInv'
    OBVIOUS
<1> USE DEF TypeOK, ConnInv
<1>1. ASSUME NEW c \in Callers, Call(c) \/ CallerStep(c) PROVE ConnInv'
  BY <1>1 DEF Call, CallerStep, Enter, SendTrx, SendKey, SendOff, SendFails, client,
     menu
<1>2. CASE TimerStep
  BY <1>2 DEF TimerStep, TimerStops, TimerParks, TimerPlans, TimerInterrupted,
     TimerExpires, Release, DeactivateMox, SendFails, Frame, menu
<1>3. ASSUME CallStop \/ \E d \in Delays : CallStart(d) PROVE ConnInv'
  BY <1>3 DEF CallStop, CallStart, client
<1>4. CASE StopStep
  BY <1>4 DEF StopStep, StopSnapshot, StopJoin, StopRelease, StopReleaseLocked,
     StopReset, StopClear, StopClose, Goto, client
<1>5. CASE StartStep
  BY <1>5 DEF StartStep, StartOpen, StartHandshake, StartArm, StartRun, Goto, client
<1>6. CASE PeerFails \/ Tick
  BY <1>6 DEF PeerFails, Tick, client, menu
<1>7. CASE UNCHANGED vars
  BY <1>7 DEF vars, client, menu
<1> QED
  BY <1>1, <1>2, <1>3, <1>4, <1>5, <1>6, <1>7 DEF Next

\* The timer's wait and the deadline run alike, and a new deadline comes with a
\* new token.
LEMMA DeadlineStep == TypeOK /\ TimerInv /\ [Next]_vars => TimerInv'
<1> SUFFICES ASSUME TypeOK, TimerInv, [Next]_vars PROVE TimerInv'
    OBVIOUS
<1> USE DEF TypeOK, TimerInv
<1>1. ASSUME NEW c \in Callers, Call(c) \/ CallerStep(c) PROVE TimerInv'
  BY <1>1 DEF Call, CallerStep, Enter, SendTrx, SendKey, SendOff, ScheduleRelease,
     mox, clock
<1>2. CASE TimerStep
  BY <1>2 DEF TimerStep, TimerStops, TimerParks, TimerPlans, TimerInterrupted,
     TimerExpires, Release, Frame
<1>3. ASSUME CallStop \/ \E d \in Delays : CallStart(d) PROVE TimerInv'
  BY <1>3 DEF CallStop, CallStart, mox, clock
<1>4. CASE StopStep
  BY <1>4 DEF StopStep, StopSnapshot, StopJoin, StopRelease, StopReleaseLocked,
     StopReset, StopClear, StopClose, mox, clock
<1>5. CASE StartStep
  BY <1>5 DEF StartStep, StartOpen, StartHandshake, StartArm, StartRun, mox, clock
<1>6. CASE PeerFails
  BY <1>6 DEF PeerFails, mox, clock
<1>7. CASE Tick
  BY <1>7 DEF Tick, Less
<1>8. CASE UNCHANGED vars
  BY <1>8 DEF vars, mox, clock
<1> QED
  BY <1>1, <1>2, <1>3, <1>4, <1>5, <1>6, <1>7, <1>8 DEF Next

\* IInv holds at the start and is kept by every step.
THEOREM Invariance == Spec => []IInv
<1>1. Init => IInv
  <2> SUFFICES ASSUME Init PROVE IInv
      OBVIOUS
  <2> USE RemoteAssumption DEF Init
  <2>1. TypeOK
    BY DEF TypeOK
  <2>2. CommandInv
    BY DEF CommandInv, NoCommand
  <2>3. MutexInv /\ RelianceInv /\ ConnInv /\ TimerInv
    BY DEF MutexInv, RelianceInv, ConnInv, TimerInv
  <2> QED BY <2>1, <2>2, <2>3 DEF IInv
<1>2. IInv /\ [Next]_vars => IInv'
  BY TypeStep, CommandStep, MutexStep, RelianceStep, ConnStep, DeadlineStep DEF IInv
<1> QED BY <1>1, <1>2, PTL DEF Spec

\* No keyer command reaches a server that has MOX off.
THEOREM KeysOnlyUnderMox == Spec => []KeysUnderMox
<1>1. IInv => KeysUnderMox
  BY DEF IInv, RelianceInv, KeysUnderMox
<1> QED BY Invariance, <1>1, PTL

\* What makes the server turn MOX off, in the words of the steps that send TX.
LEMMA ReleaseEffect ==
    ASSUME IInv, [Next]_vars, gui = "idle"
    PROVE  /\ moxActive /\ ~moxActive' /\ conn = "up" => ~trx'
           /\ trx /\ ~trx' /\ (\A c \in Callers : at[c] # "off") =>
                due = 0 /\ scheduled /\ conn = "up"
           /\ trx /\ ~trx' /\ delay > 0 => \A c \in Callers : at[c] # "off"
<1> USE RemoteAssumption
<1> DEFINE Goal == /\ moxActive /\ ~moxActive' /\ conn = "up" => ~trx'
                   /\ trx /\ ~trx' /\ (\A c \in Callers : at[c] # "off") =>
                        due = 0 /\ scheduled /\ conn = "up"
                   /\ trx /\ ~trx' /\ delay > 0 => \A c \in Callers : at[c] # "off"
<1>0. \A c \in Callers : at[c] = "off" => delay = 0
  BY DEF IInv, RelianceInv
<1>1. ASSUME NEW c \in Callers, Call(c) \/ Enter(c) PROVE Goal
  BY <1>0, <1>1 DEF Call, Enter, mox, server, IInv, TypeOK
<1>2. ASSUME NEW c \in Callers, SendTrx(c) PROVE Goal
  BY <1>0, <1>2 DEF SendTrx, Deliver, SetTrx, server, IInv, TypeOK
<1>3. ASSUME NEW c \in Callers, SendKey(c) PROVE Goal
  BY <1>0, <1>3 DEF SendKey, Deliver, Keying, server, IInv, TypeOK, ConnInv, SendFails
<1>4. ASSUME NEW c \in Callers, SendOff(c) PROVE Goal
  BY <1>0, <1>4 DEF SendOff, Deliver, SetTrx, server, IInv, TypeOK, SendFails
<1>5. CASE TimerStops \/ TimerParks \/ TimerInterrupted
  BY <1>0, <1>5 DEF TimerStops, TimerParks, TimerInterrupted, server, IInv, TypeOK
<1>6. CASE TimerPlans \/ TimerExpires
  <2>1. CASE UNCHANGED <<moxActive, trx>>
    BY <1>0, <2>1 DEF IInv, TypeOK
  <2>2. CASE Release /\ scheduled /\ due = 0
    BY <1>0, <2>2 DEF Release, DeactivateMox, Sendable, Deliver, SetTrx, SendFails,
       server, IInv, TypeOK, ConnInv
  <2>3. waitLeft = 0 /\ timer = "timed" /\ current => due = 0
    BY DEF IInv, TypeOK, TimerInv
  <2> QED BY <1>6, <2>1, <2>2, <2>3 DEF TimerPlans, TimerExpires, server
<1>7. ASSUME CallStop \/ (\E d \in Delays : CallStart(d)) \/ PeerFails \/ Tick
      PROVE  Goal
  BY <1>0, <1>7 DEF CallStop, CallStart, PeerFails, Tick, mox, server, IInv, TypeOK
<1>8. ~(StopStep \/ StartStep)
  BY DEF StopStep, StopSnapshot, StopJoin, StopRelease, StopReleaseLocked,
     StopReset, StopClear, StopClose, StartStep, StartOpen, StartHandshake,
     StartArm, StartRun
<1>9. CASE UNCHANGED vars
  BY <1>0, <1>9 DEF vars, mox, server, IInv, TypeOK
<1> QED
  BY <1>1, <1>2, <1>3, <1>4, <1>5, <1>6, <1>7, <1>8, <1>9
     DEF Next, CallerStep, TimerStep

\* The client forgets that MOX is on only with a frame that turns it off.
THEOREM ForgetsWithFrame == Spec => ReleaseReachesServer
<1>1. IInv /\ [Next]_vars =>
        [moxActive /\ ~moxActive' /\ conn = "up" /\ gui = "idle" => ~trx']_vars
  BY ReleaseEffect
<1> QED BY Invariance, <1>1, PTL DEF Spec, ReleaseReachesServer

\* The timer does not release MOX before the deadline of the latest command.
THEOREM TimerWaits == Spec => NeverEarly
<1>1. IInv /\ [Next]_vars =>
        [trx /\ ~trx' /\ gui = "idle" /\ (\A c \in Callers : at[c] # "off")
            => due = 0]_vars
  BY ReleaseEffect
<1> QED BY Invariance, <1>1, PTL DEF Spec, NeverEarly

\* Where elements only are sent, the deadline that is scheduled is never before
\* the end of the element that sounds.
LEMMA ElementStep == IInv /\ ElementInv /\ [Next]_vars => ElementInv'
<1> SUFFICES ASSUME IInv, ElementInv, [Next]_vars, Straights = {}
             PROVE  ElementInv'
    BY DEF ElementInv
<1> USE DEF IInv, TypeOK
<1>1. ASSUME NEW c \in Callers, Call(c) PROVE ElementInv'
  BY <1>1 DEF Call, ElementInv, mox, client, menu, server
<1>2. ASSUME NEW c \in Callers, Enter(c) \/ SendTrx(c) \/ SendOff(c) PROVE ElementInv'
  <2>1. ~scheduled' \/ UNCHANGED <<scheduled, due, sounding, conn, gui>>
    <3>1. at[c] \in {"trx", "off"} => ~scheduled
      BY RemoteAssumption DEF MutexInv
    <3> QED BY <1>2, <3>1 DEF Enter, SendTrx, SendOff, menu, server
  <2> QED BY <2>1 DEF ElementInv
<1>3. ASSUME NEW c \in Callers, SendKey(c) PROVE ElementInv'
  <2>1. ~scheduled
    BY <1>3, RemoteAssumption DEF SendKey, MutexInv
  <2>2. cmd[c].ticks \in Nat
    BY TicksTyped
  <2>3. cmd[c].kind = "element"
    BY <1>3 DEF SendKey, CommandInv, Callers
  <2>4. CASE scheduled' /\ conn' = "up"
    <3>1. due' = delay + cmd[c].ticks
      BY <1>3, <2>1, <2>4 DEF SendKey, ScheduleRelease
    <3>2. sounding' = cmd[c].ticks
      BY <1>3, <2>1, <2>3, <2>4 DEF SendKey, Deliver, Keying, SendFails
    <3> QED BY <2>2, <3>1, <3>2 DEF ElementInv
  <2> QED BY <2>4 DEF ElementInv
<1>4. CASE TimerStep
  BY <1>4 DEF TimerStep, TimerStops, TimerParks, TimerPlans, TimerInterrupted,
     TimerExpires, Release, DeactivateMox, Deliver, SetTrx, Frame, menu, server,
     ElementInv
<1>5. ASSUME CallStop \/ \E d \in Delays : CallStart(d) PROVE ElementInv'
  BY <1>5 DEF CallStop, CallStart, mox, client, server, ElementInv
<1>6. CASE StopStep
  <2>1. gui # "arm"
    BY <1>6 DEF StopStep, StopSnapshot, StopJoin, StopRelease, StopReleaseLocked,
       StopReset, StopClear, StopClose
  <2>2. \/ ~scheduled'
        \/ conn' = "none"
        \/ UNCHANGED <<scheduled, due, sounding, conn>>
    BY <1>6 DEF StopStep, StopSnapshot, StopJoin, StopRelease, StopReleaseLocked,
       StopReset, StopClear, StopClose, DeactivateMox, Deliver, SetTrx, mox, client,
       server
  <2> QED BY <2>1, <2>2 DEF ElementInv
<1>7. CASE StartStep
  BY <1>7 DEF StartStep, StartOpen, StartHandshake, StartArm, StartRun, Goto, mox,
     client, server, ElementInv
<1>8. CASE PeerFails
  BY <1>8 DEF PeerFails, ElementInv
<1>9. CASE Tick
  <2>1. ASSUME NEW a \in Nat, NEW b \in Nat, a <= b PROVE Less(a) <= Less(b)
    BY <2>1 DEF Less
  <2> QED BY <1>9, <2>1 DEF Tick, client, mox, menu, ElementInv
<1>10. CASE UNCHANGED vars
  BY <1>10 DEF vars, mox, client, menu, server, ElementInv
<1> HIDE DEF IInv, TypeOK
<1> QED
  BY <1>1, <1>2, <1>3, <1>4, <1>5, <1>6, <1>7, <1>8, <1>9, <1>10 DEF Next, CallerStep

\* With the keyer alone (no straight key) and a delay above zero, the timer cuts
\* off no element: when it turns MOX off the deadline is reached, and with it
\* the end of the last element.  Of a delay of zero it says nothing.
THEOREM NoElementCutOff ==
    ASSUME Straights = {}
    PROVE  Spec => ElementsComplete
<1>1. Init => ElementInv
  BY DEF Init, ElementInv
<1>2. IInv /\ ElementInv /\ [Next]_vars =>
        [trx /\ ~trx' /\ gui = "idle" /\ delay > 0 => sounding = 0]_vars
  <2> SUFFICES ASSUME IInv, ElementInv, [Next]_vars,
                      trx /\ ~trx' /\ gui = "idle" /\ delay > 0
               PROVE  sounding = 0
      OBVIOUS
  <2>1. due = 0 /\ scheduled /\ conn = "up"
    BY ReleaseEffect
  <2> QED BY <2>1 DEF ElementInv, IInv, TypeOK
<1> QED BY Invariance, ElementStep, <1>1, <1>2, PTL DEF Spec, ElementsComplete
=============================================================================
