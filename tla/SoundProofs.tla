------------------------------ MODULE SoundProofs ------------------------------
(***************************************************************************)
(* Proofs about Sound, for ramps, chunks and elements of every length.     *)
(***************************************************************************)
EXTENDS Sound, TLAPS

----------------------------------------------------------------------------
(* Arithmetic of the ramps                                                 *)

LEMMA ConstantsTyped ==
    /\ Attack \in Nat \ {0} /\ Release \in Nat \ {0}
    /\ Chunk \in Nat \ {0} /\ MaxIdle \in Nat \ {0}
    /\ \A d \in Durations : d \in Nat /\ d >= Attack + Release
BY SoundAssumption

\* A product grows with its first factor.
LEMMA ProductGrows ==
    ASSUME NEW x \in Nat, NEW y \in Nat, NEW r \in Nat, x <= y
    PROVE  x * r <= y * r /\ x * r \in Nat
<1>1. y * r = x * r + (y - x) * r
  OBVIOUS
<1>2. (y - x) * r >= 0 /\ x * r >= 0
  OBVIOUS
<1>3. x * r \in Int /\ y * r \in Int /\ (y - x) * r \in Int
  OBVIOUS
<1> QED BY <1>1, <1>2, <1>3

\* One step of a ramp is its factor.
LEMMA ProductStep ==
    ASSUME NEW x \in Int, NEW r \in Int
    PROVE  (x + 1) * r = x * r + r
OBVIOUS

LEMMA FullTyped == Full \in Nat /\ Slope \in Nat /\ Attack <= Slope /\ Release <= Slope
BY ConstantsTyped, ProductGrows DEF Full, Slope, Larger

\* Both ramps of the stream after n samples, held at their ends.
Rise(n) == Smaller(n, Attack) * Release
Fall(n) == Larger(Release - n, 0) * Attack

LEMMA RiseTyped ==
    ASSUME NEW n \in Nat
    PROVE  /\ Rise(n) \in 0 .. Full
           /\ Rise(n) <= Rise(n + 1) /\ Rise(n + 1) <= Rise(n) + Slope
<1>1. Smaller(n, Attack) \in Nat /\ Smaller(n, Attack) <= Attack
  BY ConstantsTyped DEF Smaller
<1>2. Rise(n) \in 0 .. Full
  BY <1>1, ConstantsTyped, FullTyped, ProductGrows DEF Rise, Full
<1>3. CASE n < Attack
  <2>1. Rise(n) = n * Release /\ Rise(n + 1) = (n + 1) * Release
    BY <1>3, ConstantsTyped DEF Rise, Smaller
  <2>2. Rise(n + 1) = Rise(n) + Release
    BY <2>1, ConstantsTyped, ProductStep
  <2> QED BY <1>2, <2>2, FullTyped, ConstantsTyped
<1>4. CASE ~(n < Attack)
  <2>1. Rise(n + 1) = Rise(n)
    BY <1>4, ConstantsTyped DEF Rise, Smaller
  <2> QED BY <1>2, <2>1, FullTyped
<1> QED BY <1>3, <1>4

LEMMA FallTyped ==
    ASSUME NEW n \in Nat
    PROVE  /\ Fall(n) \in 0 .. Full
           /\ Fall(n + 1) <= Fall(n) /\ Fall(n) <= Fall(n + 1) + Slope
<1>1. Larger(Release - n, 0) \in Nat /\ Larger(Release - n, 0) <= Release
  BY ConstantsTyped DEF Larger
<1>2. Full = Release * Attack
  BY ConstantsTyped DEF Full
<1>3. Fall(n) \in 0 .. Full
  BY <1>1, <1>2, ConstantsTyped, FullTyped, ProductGrows DEF Fall
<1>4. CASE n < Release
  <2>1. Larger(Release - n, 0) = (Release - n - 1) + 1
    BY <1>4, ConstantsTyped DEF Larger
  <2>2. Larger(Release - (n + 1), 0) = Release - n - 1
    BY <1>4, ConstantsTyped DEF Larger
  <2>3. Fall(n) = Fall(n + 1) + Attack
    BY <2>1, <2>2, ConstantsTyped, ProductStep DEF Fall
  <2>4. Fall(n + 1) \in Int
    BY <2>2, ConstantsTyped DEF Fall
  <2> QED BY <1>3, <2>3, <2>4, FullTyped, ConstantsTyped
<1>5. CASE ~(n < Release)
  <2>1. Fall(n + 1) = Fall(n)
    BY <1>5, ConstantsTyped DEF Fall, Larger
  <2> QED BY <1>3, <2>1, FullTyped
<1> QED BY <1>4, <1>5

\* The envelope of the stream is the lower of both ramps.
LEMMA LevelOf ==
    ASSUME TypeOK, NEW i \in Nat
    PROVE  /\ gen.stopping => Level(i) = Smaller(Rise(gen.index + i), Fall(gen.elapsed + i))
           /\ ~gen.stopping => Level(i) = Rise(gen.index + i)
BY DEF Level, Rise, Fall

LEMMA LevelIsSmooth ==
    ASSUME TypeOK, NEW i \in Nat
    PROVE  Level(i) \in 0 .. Full /\ Near(Level(i), Level(i + 1))
<1> DEFINE n == gen.index + i
           m == gen.elapsed + i
<1>1. gen.index \in Nat /\ gen.elapsed \in Nat /\ gen.stopping \in BOOLEAN
  BY ConstantsTyped DEF TypeOK
<1>2. n \in Nat /\ m \in Nat
  BY <1>1
<1>3. gen.index + (i + 1) = n + 1 /\ gen.elapsed + (i + 1) = m + 1
  BY <1>1
<1>4. /\ Rise(n) \in 0 .. Full /\ Rise(n + 1) \in 0 .. Full
      /\ Rise(n) <= Rise(n + 1) /\ Rise(n + 1) <= Rise(n) + Slope
  BY <1>2, RiseTyped
<1>5. /\ Fall(m) \in 0 .. Full /\ Fall(m + 1) \in 0 .. Full
      /\ Fall(m + 1) <= Fall(m) /\ Fall(m) <= Fall(m + 1) + Slope
  BY <1>2, FallTyped
<1>6. CASE gen.stopping
  <2>1. /\ Level(i) = Smaller(Rise(n), Fall(m))
        /\ Level(i + 1) = Smaller(Rise(n + 1), Fall(m + 1))
    BY <1>3, <1>6, LevelOf
  <2> HIDE DEF n, m
  <2> QED BY <1>4, <1>5, <2>1, FullTyped DEF Smaller, Near
<1>7. CASE ~gen.stopping
  <2>1. Level(i) = Rise(n) /\ Level(i + 1) = Rise(n + 1)
    BY <1>3, <1>7, LevelOf
  <2> HIDE DEF n, m
  <2> QED BY <1>4, <2>1, FullTyped DEF Near
<1> QED BY <1>1, <1>6, <1>7

\* The next chunk begins at the sample after the last one: the counters that
\* stop at the ends of their ramps lose nothing.
LEMMA ChunkContinues ==
    ASSUME TypeOK, TypeOK', GenerateChunk
    PROVE  Level(0)' = Level(Chunk)
<1>1. /\ gen.index \in Nat /\ gen.elapsed \in Nat /\ gen.stopping \in BOOLEAN
      /\ gen' = [gen EXCEPT
            !.index = Smaller(gen.index + Chunk, Attack),
            !.elapsed = IF gen.stopping THEN Smaller(gen.elapsed + Chunk, Release)
                                        ELSE gen.elapsed,
            !.stopped = gen.stopped \/ (gen.stopping /\ gen.elapsed + Chunk > Release)]
  BY ConstantsTyped DEF TypeOK, GenerateChunk
<1>2. /\ gen'.index = Smaller(gen.index + Chunk, Attack)
      /\ gen'.elapsed = IF gen.stopping THEN Smaller(gen.elapsed + Chunk, Release)
                                        ELSE gen.elapsed
      /\ gen'.stopping = gen.stopping
  BY <1>1 DEF TypeOK
<1>3. Smaller(gen'.index + 0, Attack) = Smaller(gen.index + Chunk, Attack)
  BY <1>1, <1>2, ConstantsTyped DEF Smaller
<1>4. gen.stopping =>
        Larger(Release - (gen'.elapsed + 0), 0) = Larger(Release - (gen.elapsed + Chunk), 0)
  BY <1>1, <1>2, ConstantsTyped DEF Smaller, Larger
<1> QED BY <1>2, <1>3, <1>4 DEF Level

LEMMA ElementIsSmooth ==
    ASSUME NEW d \in Durations
    PROVE  /\ ElementLevel(d, 0) = 0
           /\ ElementLevel(d, d - 1) <= Slope
           /\ \A i \in 1 .. d - 1 : Near(ElementLevel(d, i - 1), ElementLevel(d, i))
<1>1. d \in Nat /\ d >= Attack + Release
  BY ConstantsTyped
<1>2. Full = Release * Attack
  BY ConstantsTyped DEF Full
<1>3. ElementLevel(d, 0) = 0
  BY ConstantsTyped DEF ElementLevel
<1>4. ElementLevel(d, d - 1) <= Slope
  <2> DEFINE i == d - 1
  <2>0. ~(i < Attack) /\ i >= d - Release
    BY <1>1, ConstantsTyped
  <2>1. ElementLevel(d, i) = (d - i) * Attack
    <3> HIDE DEF i
    <3> QED BY <2>0 DEF ElementLevel
  <2>2. (d - (d - 1)) * Attack = Attack
    BY <1>1, ConstantsTyped
  <2> QED BY <2>1, <2>2, FullTyped
<1>5. ASSUME NEW i \in 1 .. d - 1
      PROVE  Near(ElementLevel(d, i - 1), ElementLevel(d, i))
  <2>1. i \in Int /\ i - 1 \in Int
    OBVIOUS
  <2>2. CASE i <= Attack
    <3>1. ElementLevel(d, i - 1) = (i - 1) * Release
      <4>1. i - 1 < Attack
        BY <2>1, <2>2, ConstantsTyped
      <4> QED BY <4>1 DEF ElementLevel
    <3>2. ElementLevel(d, i) = i * Release
      <4>1. CASE i < Attack
        BY <4>1 DEF ElementLevel
      <4>2. CASE i = Attack /\ i >= d - Release
        <5>1. d - i = Release
          BY <1>1, <2>1, <4>2, ConstantsTyped
        <5> QED BY <1>1, <4>2, <5>1, ConstantsTyped DEF ElementLevel
      <4>3. CASE i = Attack /\ ~(i >= d - Release)
        BY <1>1, <4>3, ConstantsTyped DEF ElementLevel, Full
      <4> QED BY <2>1, <2>2, <4>1, <4>2, <4>3, ConstantsTyped
    <3>3. ((i - 1) + 1) * Release = (i - 1) * Release + Release
      BY <2>1, ConstantsTyped, ProductStep
    <3>4. (i - 1) * Release \in Int /\ (i - 1) + 1 = i
      BY <2>1, ConstantsTyped
    <3> QED BY <3>1, <3>2, <3>3, <3>4, FullTyped, ConstantsTyped DEF Near
  <2>3. CASE i > Attack /\ i < d - Release
    <3>1. ElementLevel(d, i - 1) = Full /\ ElementLevel(d, i) = Full
      BY <1>1, <2>1, <2>3, ConstantsTyped DEF ElementLevel
    <3> QED BY <3>1, FullTyped DEF Near
  <2>4. CASE i > Attack /\ i >= d - Release
    <3>1. ElementLevel(d, i) = (d - i) * Attack
      BY <1>1, <2>1, <2>4, ConstantsTyped DEF ElementLevel
    <3>2. ElementLevel(d, i - 1) \in {(d - i + 1) * Attack, (d - i) * Attack}
      <4>1. CASE i - 1 >= d - Release
        <5>1. d - (i - 1) = d - i + 1
          BY <1>1, <2>1
        <5> QED BY <1>1, <2>1, <2>4, <4>1, <5>1, ConstantsTyped DEF ElementLevel
      <4>2. CASE i = d - Release
        <5>1. d - i = Release
          BY <1>1, <2>1, <4>2, ConstantsTyped
        <5> QED BY <1>1, <1>2, <2>1, <2>4, <4>2, <5>1, ConstantsTyped DEF ElementLevel
      <4> QED BY <1>1, <2>1, <2>4, <4>1, <4>2, ConstantsTyped
    <3>3. (d - i + 1) * Attack = (d - i) * Attack + Attack /\ (d - i) * Attack \in Int
      BY <1>1, <2>1, ConstantsTyped, ProductStep
    <3> QED BY <3>1, <3>2, <3>3, FullTyped, ConstantsTyped DEF Near
  <2> QED BY <1>1, <2>1, <2>2, <2>3, <2>4, ConstantsTyped
<1> QED BY <1>3, <1>4, <1>5

----------------------------------------------------------------------------
(* The steps                                                               *)

LEMMA SignalTyped ==
    ASSUME TypeOK, pending # <<>>
    PROVE  /\ Tail(pending) \in Seq(Signals)
           /\ Head(pending).slot = "play" => Head(pending).d \in Durations
<1>1. Head(pending) \in Signals /\ Tail(pending) \in Seq(Signals)
  BY DEF TypeOK
<1> QED BY <1>1 DEF Signals

\* The player, which no signal but these five operations touch.
LEMMA PlayerStep ==
    TypeOK /\ OneSource /\ [Next]_vars
      => /\ sink' \in {"stopped", "element", "push"}
         /\ buffer' \in {0} \cup Durations
         /\ timer' \in BOOLEAN
         /\ idle' \in 0 .. MaxIdle - 1
         /\ OneSource'
<1> SUFFICES ASSUME TypeOK, OneSource, [Next]_vars
             PROVE  /\ sink' \in {"stopped", "element", "push"}
                    /\ buffer' \in {0} \cup Durations
                    /\ timer' \in BOOLEAN
                    /\ idle' \in 0 .. MaxIdle - 1
                    /\ OneSource'
    OBVIOUS
<1>0. /\ sink \in {"stopped", "element", "push"}
      /\ buffer \in {0} \cup Durations
      /\ timer \in BOOLEAN
      /\ idle \in 0 .. MaxIdle - 1
      /\ 0 \in 0 .. MaxIdle - 1 /\ 0 \notin Durations
  BY ConstantsTyped DEF TypeOK
<1>1. CASE ResetSound
  BY <1>0, <1>1 DEF ResetSound, StopPlaying, OneSource
<1>2. CASE Deliver /\ OnStartCw
  BY <1>0, <1>2 DEF OnStartCw, OneSource, player
<1>3. CASE Deliver /\ OnStopCw
  BY <1>0, <1>3 DEF OnStopCw, OneSource, player
<1>4. CASE Deliver /\ Head(pending).slot = "play" /\ OnPlay(Head(pending).d)
  <2>1. Head(pending).d \in Durations
    BY <1>4, SignalTyped DEF Deliver
  <2> QED BY <1>0, <1>4, <2>1 DEF OnPlay, OneSource, player
<1>5. CASE Tick
  <2>1. buffer' = buffer /\ timer
    BY <1>5 DEF Tick
  <2>2. CASE idle' \in {0, idle + 1} /\ UNCHANGED <<timer, sink>>
             /\ idle' < MaxIdle
    BY <1>0, <2>1, <2>2, ConstantsTyped DEF OneSource
  <2>3. CASE timer' = FALSE /\ idle' = 0 /\ sink' = "stopped"
    BY <1>0, <2>1, <2>3 DEF OneSource
  <2>4. CASE IdleTick /\ idle + 1 >= MaxIdle
    BY <2>3, <2>4 DEF IdleTick
  <2>5. CASE IdleTick /\ ~(idle + 1 >= MaxIdle)
    <3>1. idle' = idle + 1 /\ UNCHANGED <<timer, sink>>
      BY <2>5 DEF IdleTick
    <3> QED BY <1>0, <2>2, <2>5, <3>1, ConstantsTyped
  <2>6. CASE idle' = 0 /\ UNCHANGED <<timer, sink>>
    BY <2>2, <2>6, ConstantsTyped
  <2> QED BY <1>5, <2>4, <2>5, <2>6 DEF Tick
<1>6. CASE UNCHANGED player
  BY <1>0, <1>6 DEF OneSource, player
<1> QED
  BY <1>1, <1>2, <1>3, <1>4, <1>5, <1>6 DEF Next, SetEnabled, Post, Deliver, vars

\* The generator: a chunk advances its counters up to the ends of the ramps.
LEMMA GeneratorStep ==
    TypeOK /\ [Next]_vars
      => gen' \in [index : 0 .. Attack, stopping : BOOLEAN, elapsed : 0 .. Release,
                   stopped : BOOLEAN]
<1> SUFFICES ASSUME TypeOK, [Next]_vars
             PROVE  gen' \in [index : 0 .. Attack, stopping : BOOLEAN,
                              elapsed : 0 .. Release, stopped : BOOLEAN]
    OBVIOUS
<1>0. /\ gen \in [index : 0 .. Attack, stopping : BOOLEAN, elapsed : 0 .. Release,
                  stopped : BOOLEAN]
      /\ 0 \in 0 .. Attack /\ 0 \in 0 .. Release
  BY ConstantsTyped DEF TypeOK
<1>1. CASE StartStream
  BY <1>0, <1>1 DEF StartStream, NewGenerator
<1>2. CASE StopStream
  BY <1>0, <1>2 DEF StopStream
<1>3. CASE GenerateChunk
  <2>1. /\ Smaller(gen.index + Chunk, Attack) \in 0 .. Attack
        /\ Smaller(gen.elapsed + Chunk, Release) \in 0 .. Release
    BY <1>0, ConstantsTyped DEF Smaller
  <2>2. gen.stopped \/ (gen.stopping /\ gen.elapsed + Chunk > Release) \in BOOLEAN
    OBVIOUS
  <2> QED BY <1>0, <1>3, <2>1, <2>2 DEF GenerateChunk
<1>4. CASE UNCHANGED gen
  BY <1>0, <1>4
<1> QED
  BY <1>1, <1>2, <1>3, <1>4 DEF Next, SetEnabled, ResetSound, StartStream, Post,
     Deliver, OnStartCw, OnStopCw, OnPlay, Tick, vars

LEMMA TypeStep == TypeOK /\ OneSource /\ [Next]_vars => TypeOK'
<1> SUFFICES ASSUME TypeOK, OneSource, [Next]_vars PROVE TypeOK'
    OBVIOUS
<1>1. pending' \in Seq(Signals)
  <2>1. CASE Post
    BY <2>1 DEF Post, TypeOK
  <2>2. CASE Deliver
    BY <2>2, SignalTyped DEF Deliver
  <2>3. CASE UNCHANGED pending
    BY <2>3 DEF TypeOK
  <2> QED BY <2>1, <2>2, <2>3 DEF Next, SetEnabled, ResetSound, Tick, vars
<1>2. out' \in [1 .. Chunk -> 0 .. Full]
  <2>1. CASE out' = Silence
    BY <2>1, FullTyped DEF Silence
  <2>2. CASE GenerateChunk
    <3>1. \A i \in 1 .. Chunk : i - 1 \in Nat
      BY ConstantsTyped
    <3> QED BY <2>2, <3>1, LevelIsSmooth DEF GenerateChunk
  <2>3. CASE UNCHANGED out
    BY <2>3 DEF TypeOK
  <2> QED BY <2>1, <2>2, <2>3 DEF Next, SetEnabled, ResetSound, Post, Deliver,
             OnStartCw, OnStopCw, OnPlay, Tick, vars
<1>3. enabled' \in BOOLEAN
  BY DEF TypeOK, Next, SetEnabled, ResetSound, Post, Deliver, Tick, vars
<1>4. key' \in BOOLEAN /\ onset' \in {"none", "clean", "cut"}
  BY DEF TypeOK, Next, SetEnabled, ResetSound, Post, Deliver, OnStartCw, OnStopCw,
     OnPlay, Tick, vars
<1> QED BY <1>1, <1>2, <1>3, <1>4, PlayerStep, GeneratorStep DEF TypeOK

\* Only a start of the key begins a stream that is not stopping.
LEMMA KeyStep == TypeOK /\ ToneNeedsKey /\ [Next]_vars => ToneNeedsKey'
<1> SUFFICES ASSUME TypeOK, ToneNeedsKey, [Next]_vars PROVE ToneNeedsKey'
    OBVIOUS
<1>1. CASE ResetSound
  BY <1>1 DEF ToneNeedsKey, ResetSound, StopPlaying
<1>2. CASE OnStartCw
  BY <1>2 DEF ToneNeedsKey, OnStartCw
<1>3. CASE OnStopCw
  <2>1. gen'.stopping
    BY <1>3 DEF OnStopCw, StopStream, TypeOK
  <2> QED BY <2>1 DEF ToneNeedsKey
<1>4. CASE Tick
  <2>1. gen'.stopping = gen.stopping
    BY <1>4 DEF Tick, GenerateChunk, TypeOK
  <2> QED BY <1>4, <2>1 DEF ToneNeedsKey, Tick
<1>5. CASE UNCHANGED <<gen, key>> /\ timer' \in {FALSE, timer}
  BY <1>5 DEF ToneNeedsKey
<1> QED
  BY <1>1, <1>2, <1>3, <1>4, <1>5 DEF Next, SetEnabled, Post, Deliver, OnPlay,
     player, vars

\* What sounds goes on where the last chunk ended.
LEMMA StreamStep == TypeOK /\ OneSource /\ StreamInv /\ [Next]_vars => StreamInv'
<1> SUFFICES ASSUME TypeOK, OneSource, StreamInv, [Next]_vars PROVE StreamInv'
    OBVIOUS
<1>0. TypeOK'
  BY TypeStep
<1>1. CASE ResetSound
  <2>1. out'[Chunk] = 0
    BY <1>1, ConstantsTyped DEF ResetSound, Silence
  <2>2. gen'.stopping = FALSE /\ gen'.index = 0
    BY <1>1 DEF ResetSound, NewGenerator
  <2>3. Level(0)' = 0
    BY <2>2, ConstantsTyped DEF Level, Smaller
  <2>4. ~gen'.stopped /\ onset' = "none"
    BY <1>1 DEF ResetSound, NewGenerator
  <2> QED BY <2>1, <2>3, <2>4, FullTyped DEF StreamInv, Near
<1>2. CASE OnStartCw /\ enabled
  <2>1. /\ gen'.index = 0 /\ ~gen'.stopping /\ ~gen'.stopped
        /\ onset' = IF ~timer \/ gen.stopped THEN "clean"
                    ELSE IF onset = "none" THEN "cut" ELSE onset
        /\ out' = IF timer THEN out ELSE Silence
    BY <1>2 DEF OnStartCw, StartStream, NewGenerator
  <2>2. Level(0)' = 0
    BY <2>1, ConstantsTyped DEF Level, Smaller
  <2>3. ASSUME onset' = "clean" PROVE Near(out'[Chunk], 0)
    <3>1. CASE ~timer
      BY <2>1, <3>1, ConstantsTyped, FullTyped DEF Silence, Near
    <3>2. CASE timer /\ gen.stopped
      BY <2>1, <3>2, ConstantsTyped, FullTyped DEF StreamInv, Near
    <3>3. CASE timer /\ ~gen.stopped
      <4>1. onset = "clean" /\ gen.index = 0 /\ Near(out[Chunk], Level(0))
        BY <2>1, <2>3, <3>3 DEF StreamInv, TypeOK
      <4>2. Level(0) = 0
        <5>1. gen.elapsed \in Nat /\ gen.stopping \in BOOLEAN
          BY ConstantsTyped DEF TypeOK
        <5>2. Rise(gen.index + 0) = 0 /\ Fall(gen.elapsed + 0) \in 0 .. Full
          BY <4>1, <5>1, ConstantsTyped, FallTyped DEF Rise, Smaller
        <5> QED BY <5>1, <5>2, LevelOf, FullTyped DEF Smaller
      <4> QED BY <2>1, <3>3, <4>1, <4>2
    <3> QED BY <3>1, <3>2, <3>3
  <2>4. onset' \in {"clean", "cut"}
    BY <2>1 DEF TypeOK
  <2> QED BY <2>1, <2>2, <2>3, <2>4 DEF StreamInv, Near
<1>3. CASE StopStream /\ UNCHANGED <<out, onset>>
  <2>1. gen'.index = gen.index /\ gen'.stopped = gen.stopped
    BY <1>3 DEF StopStream, TypeOK
  <2>0. gen.stopped => gen' = gen
    BY <1>3 DEF StopStream, StreamInv
  <2>2. Level(0)' = Level(0)
    <3>1. CASE gen.stopping
      BY <1>3, <3>1 DEF StopStream, Level
    <3>2. CASE ~gen.stopping
      <4>1. gen'.stopping /\ gen'.elapsed = 0
        BY <1>3, <3>2 DEF StopStream, TypeOK
      <4>2. gen.index + 0 \in Nat
        BY ConstantsTyped DEF TypeOK
      <4>3. Level(0) = Rise(gen.index + 0) /\ Rise(gen.index + 0) \in 0 .. Full
        BY <3>2, <4>2, LevelOf, RiseTyped
      <4>4. Level(0)' = Smaller(Rise(gen.index + 0), Full)
        <5>1. Larger(Release - (gen'.elapsed + 0), 0) = Release
          BY <4>1, ConstantsTyped DEF Larger
        <5>2. Release * Attack = Full
          BY ConstantsTyped DEF Full
        <5> QED BY <2>1, <4>1, <5>1, <5>2 DEF Level, Rise
      <4> QED BY <4>3, <4>4, FullTyped DEF Smaller
    <3> QED BY <3>1, <3>2
  <2> QED BY <1>3, <2>0, <2>1, <2>2 DEF StreamInv, Near
<1>4. CASE Tick
  <2>1. out'[Chunk] = Level(Chunk - 1)
    BY <1>4, ConstantsTyped DEF Tick, GenerateChunk
  <2>2. Level(0)' = Level(Chunk)
    BY <1>0, <1>4, ChunkContinues DEF Tick
  <2>3. Chunk - 1 \in Nat /\ (Chunk - 1) + 1 = Chunk
    BY ConstantsTyped
  <2>4. Near(Level(Chunk - 1), Level(Chunk))
    BY <2>3, LevelIsSmooth
  <2>5. ASSUME gen'.stopped
        PROVE  gen'.stopping /\ gen'.elapsed = Release /\ out'[Chunk] = 0
    <3>0. gen.elapsed \in 0 .. Release /\ gen.index \in Nat
      BY ConstantsTyped DEF TypeOK
    <3>1. /\ gen'.stopping = gen.stopping
          /\ gen'.elapsed = IF gen.stopping THEN Smaller(gen.elapsed + Chunk, Release)
                                            ELSE gen.elapsed
          /\ gen'.stopped = (gen.stopped \/ (gen.stopping /\ gen.elapsed + Chunk > Release))
      BY <1>4 DEF Tick, GenerateChunk, TypeOK
    <3>2. gen.stopping /\ gen.elapsed + Chunk > Release
      <4>1. CASE gen.stopped
        <5>1. gen.stopping /\ gen.elapsed = Release
          BY <4>1 DEF StreamInv
        <5> QED BY <5>1, ConstantsTyped
      <4>2. CASE ~gen.stopped
        BY <2>5, <3>1, <4>2
      <4> QED BY <4>1, <4>2
    <3>3. gen'.elapsed = Release
      BY <3>0, <3>1, <3>2, ConstantsTyped DEF Smaller
    <3>4. Level(Chunk - 1) = 0
      <4>1. Larger(Release - (gen.elapsed + (Chunk - 1)), 0) = 0
        BY <3>0, <3>2, ConstantsTyped DEF Larger
      <4>2. Fall(gen.elapsed + (Chunk - 1)) = 0
        BY <4>1, ConstantsTyped DEF Fall
      <4>3. Rise(gen.index + (Chunk - 1)) \in 0 .. Full
        BY <2>3, <3>0, RiseTyped
      <4> QED BY <2>3, <3>2, <4>2, <4>3, LevelOf, FullTyped DEF Smaller
    <3> QED BY <2>1, <3>1, <3>2, <3>3, <3>4
  <2>6. onset' = "none" /\ Near(out'[Chunk], Level(0)')
    BY <1>4, <2>1, <2>2, <2>4 DEF Tick
  <2> QED BY <2>5, <2>6 DEF StreamInv, Near
<1>5. CASE UNCHANGED <<gen, out, onset>>
  <2>1. Level(0)' = Level(0)
    BY <1>5 DEF Level
  <2> QED BY <1>5, <2>1 DEF StreamInv, Near
<1> QED
  BY <1>1, <1>2, <1>3, <1>4, <1>5 DEF Next, SetEnabled, Post, Deliver, OnStartCw,
     OnStopCw, OnPlay, vars

----------------------------------------------------------------------------
\* The module's invariant: no order of signals, enabling, elements and resets
\* leaves a tone behind after its key-up.
THEOREM Invariance == Spec => []Inv
<1>1. Init => Inv
  <2> SUFFICES ASSUME Init PROVE Inv
      OBVIOUS
  <2>1. gen.index = 0 /\ ~gen.stopping /\ ~gen.stopped /\ onset = "none"
    BY DEF Init, NewGenerator
  <2>2. Level(0) = 0 /\ out[Chunk] = 0
    BY <2>1, ConstantsTyped DEF Init, Silence, Level, Smaller
  <2>3. StreamInv
    BY <2>1, <2>2, FullTyped DEF StreamInv, Near
  <2>4. OneSource /\ ToneNeedsKey /\ ElementsFade
    BY DEF Init, OneSource, ToneNeedsKey, ElementsFade
  <2>5. out \in [1 .. Chunk -> 0 .. Full]
    BY FullTyped DEF Init, Silence
  <2>6. gen \in [index : 0 .. Attack, stopping : BOOLEAN, elapsed : 0 .. Release,
                stopped : BOOLEAN]
    BY ConstantsTyped DEF Init, NewGenerator
  <2>7. pending \in Seq(Signals) /\ idle \in 0 .. MaxIdle - 1
    BY ConstantsTyped DEF Init
  <2>8. /\ enabled \in BOOLEAN /\ timer \in BOOLEAN
        /\ key \in BOOLEAN /\ onset \in {"none", "clean", "cut"}
        /\ sink = "stopped" /\ buffer = 0
    BY DEF Init
  <2>9. TypeOK
    BY <2>5, <2>6, <2>7, <2>8 DEF TypeOK
  <2> QED BY <2>3, <2>4, <2>9 DEF Inv
<1>2. Inv /\ [Next]_vars => Inv'
  <2> SUFFICES ASSUME Inv, [Next]_vars PROVE Inv'
      OBVIOUS
  <2>1. TypeOK' /\ OneSource' /\ ToneNeedsKey' /\ StreamInv'
    BY TypeStep, PlayerStep, KeyStep, StreamStep DEF Inv
  <2>2. sink' = "element" => buffer' \in Durations
    BY <2>1 DEF TypeOK, OneSource
  <2>3. ElementsFade'
    BY <2>2, ElementIsSmooth DEF ElementsFade
  <2> QED BY <2>1, <2>3 DEF Inv
<1> QED BY <1>1, <1>2, PTL DEF Spec

\* The stream has no clicks but those of a key-down while it still sounds, whatever
\* the ramps, the chunks and the moments of key-down and key-up.
THEOREM ToneHasNoClicks == Spec => NoClicks
<1>1. Inv /\ [Next]_vars
        => [ Tick => /\ IF onset = "cut" THEN out'[1] = 0 ELSE Near(out[Chunk], out'[1])
                     /\ \A i \in 1 .. Chunk - 1 : Near(out'[i], out'[i + 1]) ]_vars
  <2> SUFFICES ASSUME Inv, Tick
               PROVE  /\ IF onset = "cut" THEN out'[1] = 0 ELSE Near(out[Chunk], out'[1])
                      /\ \A i \in 1 .. Chunk - 1 : Near(out'[i], out'[i + 1])
      OBVIOUS
  <2>0. TypeOK /\ StreamInv /\ out' = [i \in 1 .. Chunk |-> Level(i - 1)]
    BY DEF Inv, Tick, GenerateChunk
  <2>1. out'[1] = Level(0)
    <3>1. 1 \in 1 .. Chunk /\ 1 - 1 = 0
      BY ConstantsTyped
    <3> QED BY <2>0, <3>1
  <2>2. ASSUME onset = "cut" PROVE out'[1] = 0
    <3>1. gen.index = 0 /\ gen.elapsed \in Nat
      BY <2>0, <2>2, ConstantsTyped DEF StreamInv, TypeOK
    <3>2. Rise(gen.index + 0) = 0 /\ Fall(gen.elapsed + 0) \in 0 .. Full
      BY <3>1, ConstantsTyped, FallTyped DEF Rise, Smaller
    <3>3. Level(0) = 0
      BY <2>0, <3>2, LevelOf, FullTyped DEF Smaller
    <3> QED BY <2>1, <3>3
  <2>3. ASSUME onset # "cut" PROVE Near(out[Chunk], out'[1])
    BY <2>0, <2>1, <2>3 DEF StreamInv
  <2>4. ASSUME NEW i \in 1 .. Chunk - 1 PROVE Near(out'[i], out'[i + 1])
    <3>1. /\ i \in 1 .. Chunk /\ i + 1 \in 1 .. Chunk
          /\ i - 1 \in Nat /\ (i - 1) + 1 = i /\ (i + 1) - 1 = i
      BY ConstantsTyped
    <3>2. out'[i] = Level(i - 1) /\ out'[i + 1] = Level(i)
      BY <2>0, <3>1
    <3> QED BY <2>0, <3>1, <3>2, LevelIsSmooth
  <2>5. IF onset = "cut" THEN out'[1] = 0 ELSE Near(out[Chunk], out'[1])
    BY <2>1, <2>2, <2>3
  <2> QED BY <2>4, <2>5
<1> QED BY <1>1, Invariance, PTL DEF Spec, NoClicks
=============================================================================
