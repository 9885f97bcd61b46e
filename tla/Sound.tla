-------------------------------- MODULE Sound --------------------------------
(***************************************************************************)
(* src/App/sound: the side tone.  runCW, startRunCw and stopRunCw post     *)
(* signals from the keyer's threads; the slots, the push timer and the     *)
(* GUI's calls run one at a time on the Qt event loop.  An element is a    *)
(* buffer the sink plays on its own; a straight key is a stream of chunks  *)
(* that the timer takes from CwGenerator.  A sample is the level of its    *)
(* envelope, in 1 / Full; the sine is left out.                            *)
(***************************************************************************)
EXTENDS Integers, Sequences

CONSTANTS
    Attack, Release,   \* m_attackSamples, m_releaseSamples
    Chunk,             \* samples per tick of the push timer
    Durations,         \* lengths of elements, in samples
    MaxIdle,           \* maxIdleTicks
    MaxPending         \* bound: signals posted and not delivered

\* An element lasts at least its two ramps (true up to 120 words per minute).
ASSUME SoundAssumption ==
    /\ {Attack, Release, Chunk, MaxIdle} \subseteq Nat \ {0}
    /\ \A d \in Durations : d \in Nat /\ d >= Attack + Release

Full == Attack * Release
Larger(a, b) == IF a > b THEN a ELSE b
Smaller(a, b) == IF a < b THEN a ELSE b
Slope == Larger(Attack, Release)   \* the steepest step of an envelope

VARIABLES
    enabled,
    sink,      \* what m_sink plays: nothing, an element or the pushed chunks
    buffer,    \* length of m_activeBuffer, 0 if there is none
    timer,     \* m_pushTimer is set
    idle,      \* the timer's idleTicks
    gen,       \* m_cwGenerator
    pending,   \* signals posted to the event loop
    out,       \* history: the last chunk written to the sink
    key,       \* history: the last of start and stop that was delivered
    onset      \* history: startStream was called since the last chunk, in
               \* silence ("clean") or while the stream sounded ("cut")

player == <<sink, buffer, timer, idle>>
vars   == <<enabled, player, gen, pending, out, key, onset>>

Signals == [slot : {"start", "stop"}, d : {0}] \cup [slot : {"play"}, d : Durations]

Silence == [i \in 1 .. Chunk |-> 0]

\* A new generator is not stopping: it would sound if it were asked to.
NewGenerator == [index |-> 0, stopping |-> FALSE, elapsed |-> 0, stopped |-> FALSE]

\* Every variable has its type.
TypeOK ==
    /\ enabled \in BOOLEAN
    /\ sink \in {"stopped", "element", "push"}
    /\ buffer \in {0} \cup Durations
    /\ timer \in BOOLEAN
    /\ idle \in 0 .. MaxIdle - 1
    /\ gen \in [index : 0 .. Attack, stopping : BOOLEAN, elapsed : 0 .. Release,
                stopped : BOOLEAN]
    /\ pending \in Seq(Signals)
    /\ out \in [1 .. Chunk -> 0 .. Full]
    /\ key \in BOOLEAN /\ onset \in {"none", "clean", "cut"}

Init ==
    /\ enabled \in BOOLEAN
    /\ sink = "stopped" /\ buffer = 0
    /\ timer = FALSE /\ idle = 0
    /\ gen = NewGenerator
    /\ pending = <<>>
    /\ out = Silence /\ key = FALSE /\ onset = "none"

----------------------------------------------------------------------------
(* CwGenerator.  Samples after the attack are alike, and so are samples    *)
(* after the release: both counters stop there.                            *)

StartStream == gen' = NewGenerator

StopStream ==
    gen' = IF gen.stopping THEN gen
                           ELSE [gen EXCEPT !.stopping = TRUE, !.elapsed = 0]

\* Variant: the release ignores how far the attack has come.
LevelFromFull(i) ==
    LET rise == Smaller(gen.index + i, Attack) * Release
        left == Release - (gen.elapsed + i)
    IN IF gen.stopping THEN Larger(left, 0) * Attack ELSE rise

\* The envelope of the chunk's sample i: the lower of both ramps.
Level(i) ==
    LET rise == Smaller(gen.index + i, Attack) * Release
        left == Release - (gen.elapsed + i)
    IN IF gen.stopping THEN Smaller(rise, Larger(left, 0) * Attack) ELSE rise

\* Variant: the end of the release is not noticed.
GenerateChunkForgets ==
    /\ out' = [i \in 1 .. Chunk |-> Level(i - 1)]
    /\ gen' = [gen EXCEPT
          !.index = Smaller(@ + Chunk, Attack),
          !.elapsed = IF gen.stopping THEN Smaller(@ + Chunk, Release) ELSE @]

GenerateChunk ==
    /\ out' = [i \in 1 .. Chunk |-> Level(i - 1)]
    /\ gen' = [gen EXCEPT
          !.index = Smaller(@ + Chunk, Attack),
          !.elapsed = IF gen.stopping THEN Smaller(@ + Chunk, Release) ELSE @,
          !.stopped = @ \/ (gen.stopping /\ gen.elapsed + Chunk > Release)]

\* generateBuffer: sample i of an element of d samples.
ElementLevel(d, i) ==
    IF i < Attack THEN i * Release
    ELSE IF i >= d - Release THEN (d - i) * Attack
    ELSE Full

----------------------------------------------------------------------------
(* Slots and calls of the event loop                                       *)

\* Sound::stop; the cache it clears is never read between two stops.
StopPlaying == sink' = "stopped" /\ buffer' = 0 /\ timer' = FALSE /\ idle' = 0

\* setEnabled changes the flag only: what sounds goes on.
SetEnabled ==
    /\ enabled' = ~enabled
    /\ UNCHANGED <<player, gen, pending, out, key, onset>>

\* GuiConnector::resetSound: stop, initWithDevice with a new sink and a new
\* generator, and m_enabled from the configuration.
ResetSound ==
    /\ StopPlaying
    /\ gen' = NewGenerator
    /\ enabled' \in BOOLEAN
    /\ out' = Silence
    /\ onset' = "none"
    /\ UNCHANGED <<pending, key>>

\* runCW, startRunCw and stopRunCw only post.
Post ==
    /\ Len(pending) < MaxPending
    /\ \E s \in Signals : pending' = Append(pending, s)
    /\ UNCHANGED <<enabled, player, gen, out, key, onset>>

\* Variant: a disabled tone ignores the key-up too.
OnStopCwDisabled ==
    /\ IF enabled THEN StopStream ELSE UNCHANGED gen
    /\ key' = FALSE
    /\ UNCHANGED <<player, out, onset>>

OnStopCw ==
    /\ StopStream
    /\ key' = FALSE
    /\ UNCHANGED <<player, out, onset>>

\* onStartCwRequested: the stream restarts; a sink that is not pushed yet is
\* stopped and starts to be.
OnStartCw ==
    /\ key' = TRUE
    /\ IF ~enabled THEN UNCHANGED <<player, gen, out, onset>>
       ELSE /\ StartStream
            /\ onset' = IF ~timer \/ gen.stopped THEN "clean"
                        ELSE IF onset = "none" THEN "cut" ELSE onset
            /\ IF timer THEN UNCHANGED <<player, out>>
               ELSE /\ sink' = "push" /\ buffer' = 0
                    /\ timer' = TRUE /\ idle' = 0
                    /\ out' = Silence

\* onPlayRequested: whatever sounds is stopped, a straight key's tone as well.
OnPlay(d) ==
    /\ IF enabled THEN sink' = "element" /\ buffer' = d /\ timer' = FALSE /\ idle' = 0
                  ELSE UNCHANGED player
    /\ UNCHANGED <<gen, out, key, onset>>

Deliver ==
    /\ pending # <<>>
    /\ pending' = Tail(pending)
    /\ UNCHANGED enabled
    /\ \/ Head(pending).slot = "start" /\ OnStartCw
       \/ Head(pending).slot = "stop" /\ OnStopCw
       \/ Head(pending).slot = "play" /\ OnPlay(Head(pending).d)

\* One more silent tick, the last of which stops timer and sink.
IdleTick ==
    IF idle + 1 >= MaxIdle
      THEN timer' = FALSE /\ idle' = 0 /\ sink' = "stopped"
      ELSE idle' = idle + 1 /\ UNCHANGED <<timer, sink>>

\* The push timer's timeout.
Tick ==
    /\ timer
    /\ GenerateChunk
    /\ onset' = "none"
    /\ IF gen'.stopped THEN IdleTick ELSE idle' = 0 /\ UNCHANGED <<timer, sink>>
    /\ UNCHANGED <<enabled, buffer, pending, key>>

Next == SetEnabled \/ ResetSound \/ Post \/ Deliver \/ Tick

\* The event loop delivers what is posted and fires the timer.
Fairness == WF_vars(Deliver) /\ WF_vars(Tick)

Spec == Init /\ [][Next]_vars
FairSpec == Spec /\ Fairness

----------------------------------------------------------------------------
Near(a, b) == a - b <= Slope /\ b - a <= Slope

\* The sink has one source: an element is never mixed with the pushed stream.
OneSource == (timer <=> sink = "push") /\ (buffer # 0 <=> sink = "element")

\* A stream that is not stopping has a key: no order of signals, enabling,
\* elements and resets leaves a tone behind after its key-up.
ToneNeedsKey == timer /\ ~gen.stopping => key

\* The envelope of a chunk goes on where the last chunk ended and moves by at
\* most one ramp step from sample to sample, also when the key-up comes before the
\* attack is over.  A key-down while the stream still sounds is the exception: it
\* begins again at zero, whatever the level was.
NoClicks ==
    [][ Tick => /\ IF onset = "cut" THEN out'[1] = 0 ELSE Near(out[Chunk], out'[1])
                /\ \A i \in 1 .. Chunk - 1 : Near(out'[i], out'[i + 1]) ]_vars

\* "continuous tone with smooth attack/release" (README.md:249): the envelope never
\* jumps between chunks.  A key-down in the middle of a release sets the index of
\* the generator back, and the level falls to zero from where it is.
SmoothTone == [][Tick => Near(out[Chunk], out'[1])]_vars

\* An element begins at zero and fades out, and has no clicks either.
ElementsFade ==
    sink = "element" =>
        /\ ElementLevel(buffer, 0) = 0
        /\ ElementLevel(buffer, buffer - 1) <= Slope
        /\ \A i \in 1 .. buffer - 1 :
             Near(ElementLevel(buffer, i - 1), ElementLevel(buffer, i))

\* After the key-up the tone falls silent and the sink is shut down, unless the
\* key goes down again.
SinkShutsDown == (~key /\ timer) ~> (~timer \/ key)

\* The generator goes on where the last chunk ended, or begins at zero; it has
\* stopped only in silence.
StreamInv ==
    /\ gen.stopped => gen.stopping /\ gen.elapsed = Release /\ out[Chunk] = 0
    /\ onset # "none" => gen.index = 0
    /\ onset # "cut" => Near(out[Chunk], Level(0))

\* The module's invariant, which is inductive.
Inv == TypeOK /\ OneSource /\ ToneNeedsKey /\ ElementsFade /\ StreamInv
=============================================================================
