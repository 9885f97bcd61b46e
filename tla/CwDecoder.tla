----------------------------- MODULE CwDecoder -----------------------------
(***************************************************************************)
(* src/App/cwdecoder: elements the keyer plays are collected into letters. *)
(* The keyer's worker calls runCW at the start of every element; a polling *)
(* thread closes the last letter of a word; the GUI thread starts and      *)
(* stops the decoder.  The first two hold m_mutex, start and stop do not:  *)
(* they clear the sequence between any two steps of a call.                *)
(* Time is counted in ticks and a tick is the resolution of the clock.     *)
(***************************************************************************)
EXTENDS Naturals, Sequences, SequencesExt

CONSTANTS
    Dits,       \* lengths of a dit, and of the pause after an element
    Units,      \* values m_interElementSpace may have
    Known,      \* the sequences MorseTable knows
    Horizon,    \* bound: longer silences are all alike
    MaxElements,\* bound: elements keyed in a run of the decoder
    MaxCall     \* bound: ticks that pass while a call holds m_mutex

Item == {"DIT", "DAH"}

\* The horizon is past the last threshold after the longest element.
ASSUME CwDecoderAssumption ==
    /\ Dits \subseteq Nat \ {0} /\ Dits # {}
    /\ Units \subseteq Nat \ {0}
    /\ Known \subseteq Seq(Item) \ {<<>>}
    /\ Horizon \in Nat /\ \A d \in Dits, u \in Units : 3 * d + 8 * u <= Horizon
    /\ MaxElements \in Nat /\ MaxCall \in Nat

VARIABLES
    started, running,
    sequence,   \* m_currentSequence
    unit,       \* m_interElementSpace; m_wordSpace is seven of it
    since,      \* ticks since m_lastSignalTime
    lastDuration,
    thread,     \* where timeoutLoop is
    nap,        \* ticks it still sleeps
    at,         \* where runCW is: "idle", or "called", past its test
    caller,     \* its element, or Idle
    word,       \* the pause it has measured is a word's
    code,       \* the sequence it has decoded and not yet printed
    rest,       \* ticks the keyer still sleeps
    gui, then,  \* where the GUI thread is in stop, and what follows it
    output,     \* the text of the callback's arguments, a letter as its sequence
    copy,       \* history: the text an operator reads from the gaps, without
    letter,     \*          the letter that no gap has ended yet
    keyed,      \* history: how many elements
    sounded,    \* history: the length of the last element
    late        \* history: letters printed after stop() had returned

config == <<unit, started, running>>
signal == <<since, lastDuration, sounded>>
menu   == <<gui, then>>
text   == <<sequence, output, late>>
reader == <<copy, letter, keyed>>
call   == <<at, caller, word, code>>
vars   == <<config, signal, menu, text, reader, call, thread, nap, rest>>

----------------------------------------------------------------------------
Idle == [item |-> "none", dit |-> 0]
Element == [item : Item, dit : Dits]
Length(el) == IF el.item = "DIT" THEN el.dit ELSE 3 * el.dit

WordSpace == 7 * unit

\* The steps of runCW that hold m_mutex.
Inside == {"flush", "print", "space", "append"}

\* A text is its letters and after how many of them a space stands; several
\* spaces are as one, and one that no letter precedes is none.
Text == [codes : Seq(Known), spaces : SUBSET Nat]
Blank == [codes |-> <<>>, spaces |-> {}]

PrintSpace(t) == [codes |-> t.codes, spaces |-> t.spaces \cup ({Len(t.codes)} \ {0})]

\* MorseTable: a letter is its sequence; one that is not in the table is none.
PrintLetter(t, c) ==
    IF c \notin Known THEN t ELSE [codes |-> Append(t.codes, c), spaces |-> t.spaces]

TypeOK ==
    /\ started \in BOOLEAN
    /\ running \in BOOLEAN
    /\ sequence \in Seq(Item)
    /\ unit \in Units
    /\ since \in 0 .. Horizon
    /\ lastDuration \in Nat
    /\ thread \in {"none", "while", "nap", "ended"}
    /\ nap \in Nat
    /\ at \in {"idle", "called"} \cup Inside
    /\ caller \in Element \cup {Idle}
    /\ word \in BOOLEAN
    /\ code \in Seq(Item)
    /\ rest \in Nat
    /\ gui \in {"idle", "join", "clear", "set"}
    /\ then \in {"idle", "set"}
    /\ output \in Text
    /\ copy \in Text
    /\ letter \in Seq(Item)
    /\ keyed \in Nat
    /\ sounded \in Nat
    /\ late \in Nat

Init ==
    /\ started = FALSE
    /\ running = FALSE
    /\ sequence = <<>>
    /\ unit \in Units
    /\ since = 0
    /\ lastDuration = 0
    /\ thread = "none"
    /\ nap = 0
    /\ at = "idle"
    /\ caller = Idle
    /\ word = FALSE
    /\ code = <<>>
    /\ rest = 0
    /\ gui = "idle"
    /\ then = "idle"
    /\ output = Blank
    /\ copy = Blank
    /\ letter = <<>>
    /\ keyed = 0
    /\ sounded = 0
    /\ late = 0

----------------------------------------------------------------------------
\* Variant: no case for NOT_FOUND.
FlushedUnknown(c) ==
    IF c = <<>> THEN output ELSE [output EXCEPT !.codes = Append(@, c)]

\* What flushLetter prints of the sequence; its callers clear it.
Flushed(c) == IF c = <<>> THEN output ELSE PrintLetter(output, c)

\* The silence both threads compute, from below at least one unit.
Silence ==
    IF since >= lastDuration + 2 * unit THEN since - lastDuration - unit ELSE unit

----------------------------------------------------------------------------
(* runCW, on the thread of the keyer's worker                              *)

\* Variant: no test of m_started.
CallUntested(el) ==
    /\ at = "idle"
    /\ rest = 0
    /\ keyed < MaxElements
    /\ at' = "called"
    /\ caller' = el
    /\ UNCHANGED <<config, signal, menu, text, reader, word, code, thread, nap, rest>>

Call(el) ==
    /\ started
    /\ at = "idle"
    /\ rest = 0
    /\ keyed < MaxElements
    /\ at' = "called"
    /\ caller' = el
    /\ UNCHANGED <<config, signal, menu, text, reader, word, code, thread, nap, rest>>

\* history: an operator reads by the spacing of the keying standard.  A pause of
\* one unit is inside a letter, three end it, seven end the word; between one
\* and three, which mean nothing, the operator goes along with the decoder.
ReadElement(item) ==
    LET closed == PrintLetter(copy, letter)
        ended  == \/ since >= sounded + 3 * unit
                  \/ since > sounded + unit /\ Silence > unit
    IN  /\ letter' = IF ended THEN <<item>> ELSE Append(letter, item)
        /\ copy' = IF ~ended THEN copy
                   ELSE IF since >= sounded + 7 * unit THEN PrintSpace(closed)
                   ELSE closed
        /\ keyed' = keyed + 1

\* m_mutex is taken and the pause measured; what it ends is still to be printed.
Measure ==
    /\ at = "called"
    /\ word' = (Silence >= WordSpace)
    /\ at' = IF Silence > unit THEN "flush" ELSE "append"
    /\ ReadElement(caller.item)
    /\ since' = 0
    /\ lastDuration' = Length(caller)
    /\ sounded' = Length(caller)
    /\ UNCHANGED <<config, menu, text, caller, code, thread, nap, rest>>

AfterFlush == IF word THEN "space" ELSE "append"

\* flushLetter: the test for an empty sequence, and the table.
Decode ==
    /\ at = "flush"
    /\ code' = sequence
    /\ at' = IF sequence = <<>> THEN AfterFlush ELSE "print"
    /\ UNCHANGED <<config, signal, menu, text, reader, caller, word, thread, nap, rest>>

\* flushLetter: the callback, and the sequence is cleared.
PrintChar ==
    /\ at = "print"
    /\ output' = Flushed(code)
    /\ late' = IF code \in Known /\ ~started /\ gui \in {"idle", "set"}
               THEN late + 1 ELSE late
    /\ sequence' = <<>>
    /\ code' = <<>>
    /\ at' = AfterFlush
    /\ UNCHANGED <<config, signal, menu, reader, caller, word, thread, nap, rest>>

PrintWordSpace ==
    /\ at = "space"
    /\ output' = PrintSpace(output)
    /\ word' = FALSE
    /\ at' = "append"
    /\ UNCHANGED <<config, signal, menu, sequence, late, reader, caller, code, thread,
                   nap, rest>>

\* The element joins the sequence, runCW returns and the keyer sleeps.
Accumulate ==
    /\ at = "append"
    /\ sequence' = Append(sequence, caller.item)
    /\ rest' = Length(caller) + caller.dit
    /\ caller' = Idle
    /\ at' = "idle"
    /\ UNCHANGED <<config, signal, menu, output, late, reader, word, code, thread, nap>>

RunCW == Measure \/ Decode \/ PrintChar \/ PrintWordSpace \/ Accumulate

----------------------------------------------------------------------------
(* timeoutLoop                                                             *)

WhileRunning ==
    /\ thread = "while"
    /\ \/ running /\ thread' = "nap" /\ nap' = unit \div 2
       \/ ~running /\ thread' = "ended" /\ UNCHANGED nap
    /\ UNCHANGED <<config, signal, menu, text, reader, call, rest>>

\* Variant: the polling thread ends a word where runCW ends a letter.
PollEarly ==
    /\ thread = "nap"
    /\ nap = 0
    /\ at \notin Inside
    /\ thread' = "while"
    /\ IF sequence # <<>> /\ Silence > unit
       THEN /\ output' = PrintSpace(Flushed(sequence))
            /\ sequence' = <<>>
            /\ lastDuration' = 0
       ELSE UNCHANGED <<output, sequence, lastDuration>>
    /\ UNCHANGED <<config, since, sounded, menu, reader, late, nap, call, rest>>

\* Variant: only the next element closes a letter.
PollUnflushed ==
    /\ thread = "nap"
    /\ nap = 0
    /\ at \notin Inside
    /\ thread' = "while"
    /\ UNCHANGED <<config, since, lastDuration, sounded, menu, text, reader, nap,
                   call, rest>>

Poll ==
    /\ thread = "nap"
    /\ nap = 0
    /\ at \notin Inside
    /\ thread' = "while"
    /\ IF sequence # <<>> /\ Silence >= WordSpace
       THEN /\ output' = PrintSpace(Flushed(sequence))
            /\ sequence' = <<>>
            /\ lastDuration' = 0
       ELSE UNCHANGED <<output, sequence, lastDuration>>
    /\ UNCHANGED <<config, since, sounded, menu, reader, late, nap, call, rest>>

----------------------------------------------------------------------------
(* The GUI thread: stop(), alone or at the head of start().                *)

Stop(next) ==
    /\ gui = "idle"
    /\ running' = FALSE
    /\ started' = FALSE
    /\ gui' = "join"
    /\ then' = next
    /\ UNCHANGED <<unit, signal, text, reader, thread, nap, call, rest>>

Join ==
    /\ gui = "join"
    /\ thread \in {"none", "ended"}
    /\ thread' = "none"
    /\ gui' = "clear"
    /\ UNCHANGED <<config, signal, then, text, reader, nap, call, rest>>

Clear ==
    /\ gui = "clear"
    /\ sequence' = <<>>
    /\ gui' = then
    /\ then' = "idle"
    /\ UNCHANGED <<config, signal, output, late, reader, thread, nap, call, rest>>

\* What the call under way still prints, and the text once it has.
Ahead ==
    LET flushed == PrintLetter(output, IF at = "flush" THEN sequence ELSE code)
    IN  IF word THEN PrintSpace(flushed) ELSE flushed

\* The rest of start(): the thresholds, the sequence, the thread.  The histories
\* begin again; what a call that is under way still does is the first of them.
Start(u) ==
    /\ gui = "set"
    /\ unit' = u
    /\ sequence' = <<>>
    /\ since' = 0
    /\ started' = TRUE
    /\ running' = TRUE
    /\ thread' = "while"
    /\ gui' = "idle"
    /\ output' = Blank
    /\ late' = 0
    /\ keyed' = IF at \in Inside THEN 1 ELSE 0
    /\ UNCHANGED <<lastDuration, then, call, nap, rest>>
    /\ copy' = Ahead'
    /\ letter' = IF at \in Inside THEN <<caller.item>> ELSE <<>>
    /\ sounded' = IF at \in Inside THEN lastDuration ELSE 0

----------------------------------------------------------------------------
Less(n) == IF n = 0 THEN 0 ELSE n - 1

Tick ==
    /\ at \in Inside => since < MaxCall
    /\ since' = IF since < Horizon THEN since + 1 ELSE Horizon
    /\ nap' = Less(nap)
    /\ rest' = Less(rest)
    /\ UNCHANGED <<config, lastDuration, sounded, menu, text, reader, thread, call>>

Next == \/ \E el \in Element : Call(el)
        \/ Measure
        \/ Decode
        \/ PrintChar
        \/ PrintWordSpace
        \/ Accumulate
        \/ WhileRunning
        \/ Poll
        \/ \E next \in {"idle", "set"} : Stop(next)
        \/ Join
        \/ Clear
        \/ \E u \in Units : Start(u)
        \/ Tick

Spec == Init /\ [][Next]_vars

\* Time passes, the polling thread runs and a call of runCW goes on.
Fairness == WF_vars(Tick) /\ WF_vars(WhileRunning \/ Poll) /\ WF_vars(RunCW)

FairSpec == Spec /\ Fairness

----------------------------------------------------------------------------
(* Properties                                                              *)

\* What is printed of what was keyed: the same letters, and no space of its own.
Faithful(t, c) == t.codes = c.codes /\ t.spaces \subseteq c.spaces

\* The space that only the next letter confirms is left out.
Inner(t) == [codes |-> t.codes, spaces |-> t.spaces \ {Len(t.codes)}]

AllPrinted == Inner(PrintLetter(output, sequence))
AllKeyed   == Inner(PrintLetter(copy, letter))

\* Nothing is ever printed that was not keyed, nor out of order, not even when
\* stop() clears the sequence under a call.  In a decoder that runs the letters
\* printed, whichever of the two threads printed them, and the sequence still
\* open are the letters keyed: none is split, joined, lost or printed twice, and
\* no space stands where the operator did not pause for a word.
TextIsFaithful ==
    /\ IsPrefix(output.codes, AllKeyed.codes)
    /\ started /\ at \notin Inside => Faithful(AllPrinted, AllKeyed)

\* A stopped decoder prints one letter at the most, that of a call which stop()
\* has overtaken; no other call follows and the polling thread is gone.
OneLateLetter == late <= 1

\* The last letter does not wait for another element.
LastLetterIsPrinted == sequence # <<>> /\ running ~> sequence = <<>> \/ ~running

\* IKeyerCW.h: a word space is seven units, wherever the operator makes it.
WordsAreFaithful == started /\ at \notin Inside => AllPrinted = AllKeyed

\* CwDecoder.h: m_mutex protects the sequence; a stop that has returned is silent.
StoppedIsSilent == late = 0

----------------------------------------------------------------------------
(* Why they hold                                                           *)

\* Only a decoder that runs has a thread that polls, and a call has a decoded
\* sequence or a word's pause only between the steps that set and use them.
ThreadInv ==
    /\ running = started
    /\ started => gui = "idle" /\ thread \in {"while", "nap"}
    /\ ~started /\ gui # "join" => thread = "none"
    /\ at = "idle" <=> caller = Idle
    /\ at # "print" => code = <<>>
    /\ at \in {"idle", "called", "append"} => ~word
    /\ at = "space" => word

\* Nothing has been keyed, or the sequence is the operator's open letter, or the
\* polling thread has printed that letter, after a silence that ends the word;
\* only then is m_lastDuration not the length of the last element.  While a call
\* prints, what it still prints makes up the copy.
Whole ==
    \/ at \notin Inside /\ sequence = <<>> /\ letter = <<>> /\ output = Blank /\ copy = Blank
    \/ /\ at \notin Inside
       /\ sequence # <<>> /\ sequence = letter
       /\ Faithful(output, copy)
       /\ lastDuration = sounded
    \/ /\ at \notin Inside
       /\ sequence = <<>> /\ letter # <<>>
       /\ Faithful(output, PrintSpace(PrintLetter(copy, letter)))
       /\ lastDuration = 0
       /\ since >= sounded + 8 * unit
    \/ /\ at \in Inside
       /\ letter = IF at \in {"flush", "print"} THEN <<caller.item>>
                   ELSE Append(sequence, caller.item)
       /\ Faithful(Ahead, copy)

\* What stop() leaves when it clears the sequence: the open letter is lost, and a
\* call that has passed its test finds nothing to flush.
Cut ==
    /\ at = "idle" => IsPrefix(output.codes, PrintLetter(copy, letter).codes)
    /\ at = "called" =>
           /\ sequence = <<>>
           /\ \/ output.codes = copy.codes
              \/ /\ output.codes = PrintLetter(copy, letter).codes
                 /\ since >= sounded + 8 * unit
    /\ at \in Inside => IsPrefix(Ahead.codes, copy.codes)

CopyInv == Whole \/ (~started /\ thread = "none" /\ Cut)

\* The letter printed late was the last.
LateInv ==
    /\ late > 0 => ~started /\ thread = "none" /\ at \in {"space", "append", "idle"}
    /\ OneLateLetter

\* No element is longer than the horizon allows for; while a call holds m_mutex
\* the polling thread has not overwritten its length.
SoundedInv ==
    /\ \A u \in Units : sounded + 8 * u <= Horizon
    /\ at \in Inside => lastDuration = sounded

Inv == TypeOK /\ ThreadInv /\ CopyInv /\ LateInv /\ SoundedInv
=============================================================================
