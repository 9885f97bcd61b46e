-------------------------- MODULE CwDecoderProofs --------------------------
(***************************************************************************)
(* Proofs about CwDecoder: what it prints is what was keyed, for every     *)
(* table of letters, every speed and any number of elements.               *)
(***************************************************************************)
EXTENDS CwDecoder, TLAPS

LEMMA CodeTyped == \A c \in Known : c \in Seq(Item) /\ c # <<>>
BY CwDecoderAssumption

\* Sequences of elements: none, one, and one more.
LEMMA SequencesTyped ==
    /\ <<>> \in Seq(Item)
    /\ \A i \in Item : <<i>> \in Seq(Item) /\ Append(<<>>, i) = <<i>>
    /\ \A s \in Seq(Item), i \in Item :
           Append(s, i) \in Seq(Item) /\ Append(s, i) # <<>>
<1>1. <<>> \in Seq(Item)
  OBVIOUS
<1>2. ASSUME NEW i \in Item  PROVE <<i>> \in Seq(Item) /\ Append(<<>>, i) = <<i>>
  OBVIOUS
<1>3. ASSUME NEW s \in Seq(Item), NEW i \in Item  PROVE Append(s, i) \in Seq(Item)
  OBVIOUS
<1>4. ASSUME NEW s \in Seq(Item), NEW i \in Item  PROVE Append(s, i) # <<>>
  <2>1. Len(Append(s, i)) = Len(s) + 1 /\ Len(s) \in Nat /\ Len(<<>>) = 0
    OBVIOUS
  <2> QED BY <2>1
<1> QED BY <1>1, <1>2, <1>3, <1>4

\* What an element leaves in m_lastDuration is within the horizon.
LEMMA LengthTyped ==
    ASSUME NEW el \in Element
    PROVE  /\ Length(el) \in Nat \ {0}
           /\ \A u \in Units : Length(el) + 8 * u <= Horizon
<1>1. el.item \in Item /\ el.dit \in Dits /\ el.dit \in Nat \ {0}
  BY CwDecoderAssumption DEF Element
<1>2. \A u \in Units : u \in Nat /\ 3 * el.dit + 8 * u <= Horizon
  BY <1>1, CwDecoderAssumption
<1>3. Length(el) \in Nat \ {0} /\ Length(el) <= 3 * el.dit
  BY <1>1 DEF Length
<1> QED BY <1>1, <1>2, <1>3, CwDecoderAssumption

LEMMA IdleIsNoElement == Idle \notin Element
BY DEF Idle, Element, Item

\* Printing keeps a text a text, and what it does to the two parts of one.
LEMMA PrintTyped ==
    ASSUME NEW t \in Text, NEW c
    PROVE  /\ PrintLetter(t, c) \in Text
           /\ PrintLetter(t, c).codes = IF c \in Known THEN Append(t.codes, c) ELSE t.codes
           /\ PrintLetter(t, c).spaces = t.spaces
           /\ PrintSpace(t) \in Text
           /\ PrintSpace(t).codes = t.codes
           /\ PrintSpace(t).spaces = t.spaces \cup ({Len(t.codes)} \ {0})
<1>1. t.codes \in Seq(Known) /\ t.spaces \in SUBSET Nat /\ Len(t.codes) \in Nat
  BY DEF Text
<1>2. c \in Known => Append(t.codes, c) \in Seq(Known)
  BY <1>1
<1> QED BY <1>1, <1>2 DEF PrintSpace, PrintLetter, Text

\* The empty sequence is no letter, so that flushLetter need not test for it.
LEMMA NothingToPrint == \A t : PrintLetter(t, <<>>) = t
BY CwDecoderAssumption DEF PrintLetter

LEMMA FlushedPrints == \A c : Flushed(c) = PrintLetter(output, c)
BY NothingToPrint DEF Flushed

LEMMA BlankTyped == Blank \in Text /\ PrintSpace(Blank) = Blank
<1>1. Blank \in Text
  BY DEF Blank, Text
<1>2. PrintSpace(Blank) = [codes |-> <<>>, spaces |-> {} \cup ({Len(<<>>)} \ {0})]
  BY DEF PrintSpace, Blank
<1>3. Len(<<>>) = 0
  OBVIOUS
<1> QED BY <1>1, <1>2, <1>3 DEF Blank

\* What is faithful stays so when the same is printed to both.
LEMMA FaithfulPrinted ==
    ASSUME NEW t \in Text, NEW c \in Text, Faithful(t, c), NEW x
    PROVE  /\ Faithful(PrintLetter(t, x), PrintLetter(c, x))
           /\ Faithful(PrintSpace(t), PrintSpace(c))
           /\ Faithful(t, PrintSpace(c))
BY PrintTyped DEF Faithful

\* Prefixes of texts: one letter more, and the letter a call still prints.
LEMMA PrefixAppend ==
    ASSUME NEW s \in Seq(Known), NEW t \in Seq(Known), NEW x \in Known, IsPrefix(s, t)
    PROVE  IsPrefix(s, Append(t, x))
BY DEF IsPrefix

LEMMA PrefixSelf == \A s \in Seq(Known) : IsPrefix(s, s)
BY DEF IsPrefix

LEMMA PrefixTransitive ==
    ASSUME NEW s \in Seq(Known), NEW t \in Seq(Known), NEW u \in Seq(Known),
           IsPrefix(s, t), IsPrefix(t, u)
    PROVE  IsPrefix(s, u)
BY DEF IsPrefix

LEMMA PrefixPrinted ==
    ASSUME NEW s \in Seq(Known), NEW t \in Text, NEW c, IsPrefix(s, t.codes)
    PROVE  IsPrefix(s, PrintLetter(t, c).codes) /\ IsPrefix(s, PrintSpace(t).codes)
<1>1. t.codes \in Seq(Known)
  BY DEF Text
<1>2. CASE c \in Known
  BY <1>1, <1>2, PrefixAppend, PrintTyped
<1>3. CASE c \notin Known
  BY <1>3, PrintTyped
<1> QED BY <1>2, <1>3

\* The code's tests of its raised silence are tests of the elapsed time.
LEMMA SilenceTests ==
    ASSUME TypeOK
    PROVE  /\ Silence >= WordSpace <=> since >= lastDuration + 8 * unit
           /\ Silence > unit <=> since > lastDuration + 2 * unit
<1>1. since \in Nat /\ lastDuration \in Nat /\ unit \in Nat \ {0}
  BY CwDecoderAssumption DEF TypeOK
<1> QED BY <1>1 DEF Silence, WordSpace

----------------------------------------------------------------------------
(* Types                                                                   *)

LEMMA AheadTyped == TypeOK => Ahead \in Text
BY PrintTyped DEF Ahead, TypeOK

LEMMA MeasureTyped == TypeOK /\ ThreadInv /\ Measure => TypeOK'
<1> SUFFICES ASSUME TypeOK, ThreadInv, Measure  PROVE TypeOK'
  OBVIOUS
<1>1. caller \in Element /\ caller.item \in Item
  BY DEF Measure, TypeOK, ThreadInv, Element
<1>2. Length(caller) \in Nat
  BY <1>1, LengthTyped
<1>3. copy' \in Text
  BY PrintTyped DEF Measure, ReadElement, TypeOK
<1>4. letter' \in Seq(Item)
  <2>1. letter' = <<caller.item>> \/ letter' = Append(letter, caller.item)
    BY DEF Measure, ReadElement
  <2>2. letter \in Seq(Item)
    BY DEF TypeOK
  <2> QED BY <1>1, <2>1, <2>2, SequencesTyped
<1>5. keyed' \in Nat /\ word' \in BOOLEAN /\ at' \in {"flush", "append"}
  BY DEF Measure, ReadElement, TypeOK
<1>6. since' \in 0 .. Horizon
  BY CwDecoderAssumption DEF Measure
<1> QED BY <1>2, <1>3, <1>4, <1>5, <1>6 DEF TypeOK, Measure, Inside, config, menu, text

LEMMA DecodeTyped == TypeOK /\ Decode => TypeOK'
BY DEF TypeOK, Decode, AfterFlush, Inside, config, signal, menu, text, reader

LEMMA PrintCharTyped == TypeOK /\ PrintChar => TypeOK'
<1> SUFFICES ASSUME TypeOK, PrintChar  PROVE TypeOK'
  OBVIOUS
<1>1. output' \in Text
  BY FlushedPrints, PrintTyped DEF PrintChar, TypeOK
<1>2. late' \in Nat
  BY DEF PrintChar, TypeOK
<1>3. sequence' \in Seq(Item) /\ code' \in Seq(Item)
  BY SequencesTyped DEF PrintChar
<1>4. at' \in Inside
  BY DEF PrintChar, AfterFlush, Inside
<1> QED BY <1>1, <1>2, <1>3, <1>4 DEF TypeOK, PrintChar, config, signal, menu, reader

LEMMA AccumulateTyped == TypeOK /\ ThreadInv /\ Accumulate => TypeOK'
<1> SUFFICES ASSUME TypeOK, ThreadInv, Accumulate  PROVE TypeOK'
  OBVIOUS
<1>1. caller \in Element /\ caller.item \in Item /\ caller.dit \in Nat
  BY CwDecoderAssumption DEF Accumulate, TypeOK, ThreadInv, Element
<1>2. Length(caller) \in Nat
  BY <1>1, LengthTyped
<1>3. sequence' \in Seq(Item)
  BY <1>1 DEF Accumulate, TypeOK
<1>4. rest' \in Nat
  BY <1>1, <1>2 DEF Accumulate
<1> QED BY <1>3, <1>4 DEF TypeOK, Accumulate, config, signal, menu, reader

LEMMA PollTyped == TypeOK /\ Poll => TypeOK'
<1> SUFFICES ASSUME TypeOK, Poll  PROVE TypeOK'
  OBVIOUS
<1>1. output' \in Text
  <2>1. output \in Text
    BY DEF TypeOK
  <2>2. PrintLetter(output, sequence) \in Text /\ Flushed(sequence) = PrintLetter(output, sequence)
    BY <2>1, FlushedPrints, PrintTyped
  <2>3. PrintSpace(Flushed(sequence)) \in Text
    BY <2>2, PrintTyped
  <2> QED BY <2>1, <2>3 DEF Poll
<1>2. sequence' \in Seq(Item)
  <2>1. sequence' \in {<<>>, sequence}
    BY DEF Poll
  <2>2. sequence \in Seq(Item)
    BY DEF TypeOK
  <2> QED BY <2>1, <2>2, SequencesTyped
<1>3. lastDuration' \in Nat
  BY DEF Poll, TypeOK
<1> QED BY <1>1, <1>2, <1>3 DEF TypeOK, Poll, config, menu, reader, call

\* What Start makes of the histories.
LEMMA StartTyped ==
    ASSUME TypeOK, ThreadInv, NEW u \in Units, Start(u)
    PROVE  TypeOK'
<1>1. Blank \in Text
  BY BlankTyped
<1>2. 0 \in 0 .. Horizon
  BY CwDecoderAssumption
<1>3. copy' \in Text
  <2>1. copy' = LET flushed == PrintLetter(Blank, IF at' = "flush" THEN <<>> ELSE code')
                IN  IF word' THEN PrintSpace(flushed) ELSE flushed
    BY DEF Start, Ahead
  <2> QED BY <1>1, <2>1, PrintTyped
<1>4. letter' \in Seq(Item)
  <2>1. at \in Inside => caller.item \in Item
    BY DEF TypeOK, ThreadInv, Inside, Element
  <2> QED BY <2>1, SequencesTyped DEF Start
<1>5. sounded' \in Nat /\ keyed' \in Nat
  BY DEF Start, TypeOK
<1>6. sequence' \in Seq(Item)
  BY SequencesTyped DEF Start
<1> QED BY <1>1, <1>2, <1>3, <1>4, <1>5, <1>6 DEF TypeOK, Start, call

LEMMA TickTyped == TypeOK /\ Tick => TypeOK'
<1> SUFFICES ASSUME TypeOK, Tick  PROVE TypeOK'
  OBVIOUS
<1>1. since' \in 0 .. Horizon
  BY CwDecoderAssumption DEF TypeOK, Tick
<1>2. nap' \in Nat /\ rest' \in Nat
  BY DEF TypeOK, Tick, Less
<1> QED BY <1>1, <1>2 DEF TypeOK, Tick, config, menu, text, reader, call

LEMMA NextTyped == TypeOK /\ ThreadInv /\ [Next]_vars => TypeOK'
<1> SUFFICES ASSUME TypeOK, ThreadInv, [Next]_vars  PROVE TypeOK'
  OBVIOUS
<1> USE DEF TypeOK, config, signal, menu, text, reader, call
<1>1. ASSUME NEW el \in Element, Call(el)  PROVE TypeOK'
  BY <1>1 DEF Call
<1>2. CASE Measure
  BY <1>2, MeasureTyped
<1>3. CASE Decode
  BY <1>3, DecodeTyped
<1>4. CASE PrintChar
  BY <1>4, PrintCharTyped
<1>5. CASE PrintWordSpace
  BY <1>5, PrintTyped DEF PrintWordSpace, Inside
<1>6. CASE Accumulate
  BY <1>6, AccumulateTyped
<1>7. CASE WhileRunning
  <2>1. unit \div 2 \in Nat
    BY CwDecoderAssumption
  <2> QED BY <1>7, <2>1 DEF WhileRunning
<1>8. CASE Poll
  BY <1>8, PollTyped
<1>9. ASSUME NEW next \in {"idle", "set"}, Stop(next)  PROVE TypeOK'
  BY <1>9 DEF Stop
<1>10. CASE Join
  BY <1>10 DEF Join
<1>11. CASE Clear
  BY <1>11, SequencesTyped DEF Clear
<1>12. ASSUME NEW u \in Units, Start(u)  PROVE TypeOK'
  BY <1>12, StartTyped
<1>13. CASE Tick
  BY <1>13, TickTyped
<1>14. CASE UNCHANGED vars
  BY <1>14 DEF vars
<1> QED BY <1>1, <1>2, <1>3, <1>4, <1>5, <1>6, <1>7, <1>8, <1>9, <1>10, <1>11,
           <1>12, <1>13, <1>14 DEF Next

----------------------------------------------------------------------------
(* The threads and the late letter                                         *)

LEMMA NextThread == TypeOK /\ ThreadInv /\ [Next]_vars => ThreadInv'
<1> SUFFICES ASSUME TypeOK, ThreadInv, [Next]_vars  PROVE ThreadInv'
  OBVIOUS
<1> USE DEF ThreadInv, config, signal, menu, text, reader, call
<1>1. ASSUME NEW el \in Element, Call(el)  PROVE ThreadInv'
  BY <1>1, IdleIsNoElement DEF Call
<1>2. CASE Measure
  <2>1. Silence >= WordSpace => Silence > unit
    <3>1. since \in Nat /\ lastDuration \in Nat /\ unit \in Nat \ {0}
      BY CwDecoderAssumption DEF TypeOK
    <3> QED BY <3>1, SilenceTests
  <2> QED BY <1>2, <2>1 DEF Measure
<1>3. CASE Decode
  BY <1>3 DEF Decode, AfterFlush
<1>4. CASE PrintChar
  BY <1>4 DEF PrintChar, AfterFlush
<1>5. CASE PrintWordSpace
  BY <1>5 DEF PrintWordSpace
<1>6. CASE Accumulate
  BY <1>6 DEF Accumulate
<1>7. CASE WhileRunning
  BY <1>7 DEF WhileRunning
<1>8. CASE Poll
  BY <1>8 DEF Poll
<1>9. ASSUME NEW next \in {"idle", "set"}, Stop(next)  PROVE ThreadInv'
  BY <1>9 DEF Stop
<1>10. CASE Join
  BY <1>10 DEF Join
<1>11. CASE Clear
  BY <1>11 DEF Clear, TypeOK
<1>12. ASSUME NEW u \in Units, Start(u)  PROVE ThreadInv'
  BY <1>12 DEF Start
<1>13. CASE Tick
  BY <1>13 DEF Tick
<1>14. CASE UNCHANGED vars
  BY <1>14 DEF vars
<1> QED BY <1>1, <1>2, <1>3, <1>4, <1>5, <1>6, <1>7, <1>8, <1>9, <1>10, <1>11,
           <1>12, <1>13, <1>14 DEF Next

LEMMA NextLate == TypeOK /\ ThreadInv /\ LateInv /\ [Next]_vars => LateInv'
<1> SUFFICES ASSUME TypeOK, ThreadInv, LateInv, [Next]_vars  PROVE LateInv'
  OBVIOUS
<1>0. late \in Nat
  BY DEF TypeOK
<1> USE DEF LateInv, OneLateLetter, config, signal, menu, text, reader, call
<1>1. ASSUME NEW el \in Element, Call(el)  PROVE LateInv'
  BY <1>1 DEF Call
<1>2. CASE Measure
  BY <1>2 DEF Measure
<1>3. CASE Decode
  BY <1>3 DEF Decode
<1>4. CASE PrintChar
  <2>1. late = 0
    BY <1>0, <1>4 DEF PrintChar
  <2>2. UNCHANGED <<started, thread, gui>> /\ at' \in {"space", "append"}
    BY <1>4 DEF PrintChar, AfterFlush
  <2>3. late' = late \/ (late' = late + 1 /\ ~started /\ gui # "join")
    BY <1>4 DEF PrintChar
  <2> QED BY <2>1, <2>2, <2>3 DEF ThreadInv
<1>5. CASE PrintWordSpace
  BY <1>5 DEF PrintWordSpace
<1>6. CASE Accumulate
  BY <1>6 DEF Accumulate
<1>7. CASE WhileRunning
  BY <1>7 DEF WhileRunning
<1>8. CASE Poll
  BY <1>8 DEF Poll
<1>9. ASSUME NEW next \in {"idle", "set"}, Stop(next)  PROVE LateInv'
  BY <1>9 DEF Stop
<1>10. CASE Join
  BY <1>10 DEF Join
<1>11. CASE Clear
  BY <1>11 DEF Clear
<1>12. ASSUME NEW u \in Units, Start(u)  PROVE LateInv'
  BY <1>12 DEF Start
<1>13. CASE Tick
  BY <1>13 DEF Tick
<1>14. CASE UNCHANGED vars
  BY <1>14 DEF vars
<1> QED BY <1>1, <1>2, <1>3, <1>4, <1>5, <1>6, <1>7, <1>8, <1>9, <1>10, <1>11,
           <1>12, <1>13, <1>14 DEF Next

----------------------------------------------------------------------------
(* The copy and the text                                                   *)

LEMMA NextSounded == TypeOK /\ ThreadInv /\ SoundedInv /\ [Next]_vars => SoundedInv'
<1> SUFFICES ASSUME TypeOK, ThreadInv, SoundedInv, [Next]_vars  PROVE SoundedInv'
  OBVIOUS
<1> USE DEF SoundedInv, Inside, config, signal, menu, text, reader, call
<1>1. ASSUME NEW el \in Element, Call(el)  PROVE SoundedInv'
  BY <1>1 DEF Call
<1>2. CASE Measure
  <2>1. caller \in Element
    BY <1>2 DEF Measure, TypeOK, ThreadInv
  <2> QED BY <1>2, <2>1, LengthTyped DEF Measure
<1>3. CASE Decode
  BY <1>3 DEF Decode
<1>4. CASE PrintChar
  BY <1>4 DEF PrintChar
<1>5. CASE PrintWordSpace
  BY <1>5 DEF PrintWordSpace
<1>6. CASE Accumulate
  BY <1>6 DEF Accumulate
<1>7. CASE WhileRunning
  BY <1>7 DEF WhileRunning
<1>8. CASE Poll
  BY <1>8 DEF Poll
<1>9. ASSUME NEW next \in {"idle", "set"}, Stop(next)  PROVE SoundedInv'
  BY <1>9 DEF Stop
<1>10. CASE Join
  BY <1>10 DEF Join
<1>11. CASE Clear
  BY <1>11 DEF Clear
<1>12. ASSUME NEW u \in Units, Start(u)  PROVE SoundedInv'
  <2>1. \A v \in Units : 0 + 8 * v <= Horizon
    <3>1. PICK d \in Dits : d \in Nat
      BY CwDecoderAssumption
    <3>2. \A v \in Units : v \in Nat /\ 3 * d + 8 * v <= Horizon
      BY CwDecoderAssumption
    <3> QED BY <3>1, <3>2, CwDecoderAssumption
  <2> QED BY <1>12, <2>1 DEF Start
<1>13. CASE Tick
  BY <1>13 DEF Tick
<1>14. CASE UNCHANGED vars
  BY <1>14 DEF vars
<1> QED BY <1>1, <1>2, <1>3, <1>4, <1>5, <1>6, <1>7, <1>8, <1>9, <1>10, <1>11,
           <1>12, <1>13, <1>14 DEF Next

\* What the pause measured does to the operator's copy and to the text: the
\* decoder ends a letter only where the operator may, and a word only where he does.
LEMMA MeasureReads ==
    ASSUME TypeOK, ThreadInv, Measure
    PROVE  /\ Ahead' = IF since >= lastDuration + 8 * unit
                       THEN PrintSpace(PrintLetter(output, sequence))
                       ELSE IF since > lastDuration + 2 * unit
                       THEN PrintLetter(output, sequence) ELSE output
           /\ at' = IF since > lastDuration + 2 * unit THEN "flush" ELSE "append"
<1>1. unit \in Nat \ {0} /\ since \in Nat /\ lastDuration \in Nat
  BY CwDecoderAssumption DEF TypeOK
<1>2. word' = (since >= lastDuration + 8 * unit)
  BY SilenceTests DEF Measure
<1>3. at' = IF since > lastDuration + 2 * unit THEN "flush" ELSE "append"
  BY SilenceTests DEF Measure
<1>4. code' = <<>> /\ output' = output /\ sequence' = sequence
  BY DEF Measure, ThreadInv, text
<1>5. since >= lastDuration + 8 * unit => since > lastDuration + 2 * unit
  BY <1>1
<1>6. PrintLetter(output, <<>>) = output
  BY NothingToPrint
<1> QED BY <1>2, <1>3, <1>4, <1>5, <1>6 DEF Ahead

\* A call that goes on printing does not change what the text will be.
LEMMA PrintingGoesAhead ==
    ASSUME TypeOK, ThreadInv, Decode \/ PrintChar \/ PrintWordSpace
    PROVE  Ahead' = Ahead
<1>1. CASE Decode
  <2>1. UNCHANGED <<output, word>> /\ code' = sequence /\ at' # "flush"
    BY <1>1 DEF Decode, AfterFlush, text
  <2> QED BY <1>1, <2>1 DEF Ahead, Decode
<1>2. CASE PrintChar
  <2>1. output' = PrintLetter(output, code) /\ code' = <<>> /\ word' = word /\ at' # "flush"
    BY <1>2, FlushedPrints DEF PrintChar, AfterFlush
  <2>2. PrintLetter(output', <<>>) = output'
    BY NothingToPrint
  <2> QED BY <1>2, <2>1, <2>2 DEF Ahead, PrintChar
<1>3. CASE PrintWordSpace
  <2>1. word /\ ~word' /\ code = <<>> /\ code' = <<>> /\ output' = PrintSpace(output)
    BY <1>3 DEF PrintWordSpace, ThreadInv
  <2>2. PrintLetter(output, <<>>) = output /\ PrintLetter(output', <<>>) = output'
    BY NothingToPrint
  <2>3. at = "space" /\ at' = "append"
    BY <1>3 DEF PrintWordSpace
  <2> QED BY <2>1, <2>2, <2>3 DEF Ahead
<1> QED BY <1>1, <1>2, <1>3

LEMMA MeasureCopy == TypeOK /\ ThreadInv /\ CopyInv /\ Measure => CopyInv'
<1> SUFFICES ASSUME TypeOK, ThreadInv, CopyInv, Measure  PROVE CopyInv'
  OBVIOUS
<1> DEFINE closed == PrintLetter(copy, letter)
           ended  == \/ since >= sounded + 3 * unit
                     \/ since > sounded + unit /\ since > lastDuration + 2 * unit
<1>1. unit \in Nat \ {0} /\ since \in Nat /\ lastDuration \in Nat /\ sounded \in Nat
  BY CwDecoderAssumption DEF TypeOK
<1>2. /\ letter' = IF ended THEN <<caller.item>> ELSE Append(letter, caller.item)
      /\ copy' = IF ~ended THEN copy
                 ELSE IF since >= sounded + 7 * unit THEN PrintSpace(closed) ELSE closed
  BY SilenceTests DEF Measure, ReadElement
<1>3. at = "called" /\ at' \in {"flush", "append"}
  BY DEF Measure
<1>4. caller' = caller /\ caller.item \in Item /\ sequence' = sequence /\ started' = started
      /\ thread' = thread
  BY <1>3 DEF Measure, ThreadInv, TypeOK, Element, text, config
<1>5. output \in Text /\ copy \in Text /\ closed \in Text
  BY PrintTyped DEF TypeOK
<1>6. Append(<<>>, caller.item) = <<caller.item>>
  BY <1>4, SequencesTyped
<1>7. CASE Whole
  <2> SUFFICES /\ letter' = IF at' = "flush" THEN <<caller.item>>
                            ELSE Append(sequence, caller.item)
               /\ Faithful(Ahead', copy')
    BY <1>3, <1>4 DEF CopyInv, Whole, Inside
  <2>1. CASE sequence = <<>> /\ letter = <<>> /\ output = Blank /\ copy = Blank
    <3>1. closed = Blank /\ PrintLetter(output, sequence) = Blank /\ PrintSpace(Blank) = Blank
      BY <2>1, NothingToPrint, BlankTyped
    <3>2. copy' = Blank /\ letter' = <<caller.item>>
      BY <1>2, <1>6, <2>1, <3>1
    <3>3. Ahead' = Blank
      BY <2>1, <3>1, MeasureReads
    <3> QED BY <1>6, <2>1, <3>2, <3>3, Zenon DEF Faithful
  <2>2. CASE sequence = letter /\ Faithful(output, copy) /\ lastDuration = sounded
    <3>1. /\ ended <=> since > lastDuration + 2 * unit
          /\ since >= lastDuration + 8 * unit => since >= sounded + 7 * unit
          /\ since >= lastDuration + 8 * unit => ended
      BY <1>1, <2>2
    <3>2. /\ Faithful(PrintLetter(output, sequence), closed)
          /\ PrintLetter(output, sequence) \in Text
      BY <1>5, <2>2, FaithfulPrinted, PrintTyped
    <3>3. /\ Faithful(PrintSpace(PrintLetter(output, sequence)), PrintSpace(closed))
          /\ Faithful(PrintLetter(output, sequence), PrintSpace(closed))
      BY <1>5, <3>2, FaithfulPrinted
    <3>4. Faithful(Ahead', copy')
      BY <1>2, <2>2, <3>1, <3>2, <3>3, MeasureReads
    <3> QED BY <1>2, <2>2, <3>1, <3>4, MeasureReads
  <2>3. CASE /\ sequence = <<>> /\ Faithful(output, PrintSpace(closed))
             /\ lastDuration = 0 /\ since >= sounded + 8 * unit
    <3>1. ended /\ since >= sounded + 7 * unit /\ since >= lastDuration + 8 * unit
          /\ since > lastDuration + 2 * unit
      BY <1>1, <2>3
    <3>2. copy' = PrintSpace(closed) /\ letter' = <<caller.item>> /\ Ahead' = PrintSpace(output)
      BY <1>2, <2>3, <3>1, NothingToPrint, MeasureReads
    <3>3. PrintSpace(closed) \in Text /\ PrintSpace(PrintSpace(closed)) = PrintSpace(closed)
      BY <1>5, PrintTyped DEF PrintSpace
    <3>4. Faithful(PrintSpace(output), PrintSpace(closed))
      BY <1>5, <2>3, <3>3, FaithfulPrinted
    <3> QED BY <3>1, <3>2, <3>4, MeasureReads
  <2> QED BY <1>3, <1>7, <2>1, <2>2, <2>3 DEF Whole, Inside
<1>8. CASE ~started /\ thread = "none" /\ Cut
  <2> SUFFICES IsPrefix(Ahead'.codes, copy'.codes)
    BY <1>3, <1>4, <1>8 DEF CopyInv, Cut, Inside
  <2>1. sequence = <<>>
    BY <1>3, <1>8 DEF Cut
  <2>2. Ahead'.codes = output.codes /\ output.codes \in Seq(Known)
    BY <1>5, <2>1, NothingToPrint, PrintTyped, MeasureReads DEF Text
  <2>3. IsPrefix(output.codes, output.codes)
    BY <2>2, PrefixSelf
  <2>4. CASE output.codes = copy.codes
    <3>1. IsPrefix(output.codes, closed.codes) /\ IsPrefix(output.codes, PrintSpace(closed).codes)
      BY <1>5, <2>2, <2>3, <2>4, PrefixPrinted
    <3> QED BY <1>2, <2>2, <2>3, <2>4, <3>1
  <2>5. CASE output.codes = closed.codes /\ since >= sounded + 8 * unit
    <3>1. ended
      BY <1>1, <2>5
    <3>2. copy'.codes = closed.codes
      BY <1>2, <1>5, <3>1, PrintTyped
    <3> QED BY <2>2, <2>3, <2>5, <3>2
  <2> QED BY <1>3, <1>8, <2>4, <2>5 DEF Cut
<1> QED BY <1>7, <1>8 DEF CopyInv

LEMMA PrintingCopy ==
    TypeOK /\ ThreadInv /\ CopyInv /\ (Decode \/ PrintChar \/ PrintWordSpace) => CopyInv'
<1> SUFFICES ASSUME TypeOK, ThreadInv, CopyInv, Decode \/ PrintChar \/ PrintWordSpace
             PROVE  CopyInv'
  OBVIOUS
<1>1. Ahead' = Ahead
  BY PrintingGoesAhead
<1>2. UNCHANGED <<copy, letter, caller, started, thread>>
  BY DEF Decode, PrintChar, PrintWordSpace, config, reader
<1>3. at \in Inside /\ at' \in Inside
  BY DEF Decode, PrintChar, PrintWordSpace, AfterFlush, Inside
<1>4. CASE Whole
  <2> SUFFICES letter = IF at' \in {"flush", "print"} THEN <<caller.item>>
                        ELSE Append(sequence', caller.item)
    BY <1>1, <1>2, <1>3, <1>4 DEF CopyInv, Whole, Faithful
  <2>1. letter = IF at \in {"flush", "print"} THEN <<caller.item>>
                 ELSE Append(sequence, caller.item)
    BY <1>3, <1>4 DEF Whole
  <2>2. Append(<<>>, caller.item) = <<caller.item>>
    <3>1. caller.item \in Item
      BY <1>3 DEF TypeOK, ThreadInv, Inside, Element
    <3> QED BY <3>1, SequencesTyped
  <2>3. CASE Decode
    BY <2>1, <2>2, <2>3 DEF Decode, AfterFlush, text
  <2>4. CASE PrintChar
    BY <2>1, <2>2, <2>4 DEF PrintChar, AfterFlush
  <2>5. CASE PrintWordSpace
    BY <2>1, <2>5 DEF PrintWordSpace
  <2> QED BY <2>3, <2>4, <2>5
<1>5. CASE ~started /\ thread = "none" /\ Cut
  BY <1>1, <1>2, <1>3, <1>5 DEF CopyInv, Cut, Inside
<1> QED BY <1>4, <1>5 DEF CopyInv

LEMMA AccumulateCopy ==
    TypeOK /\ ThreadInv /\ SoundedInv /\ CopyInv /\ Accumulate => CopyInv'
<1> SUFFICES ASSUME TypeOK, ThreadInv, SoundedInv, CopyInv, Accumulate  PROVE CopyInv'
  OBVIOUS
<1>1. at = "append" /\ at' = "idle" /\ UNCHANGED <<output, copy, letter, started, thread,
                                                    lastDuration, sounded>>
  BY DEF Accumulate, config, signal, reader
<1>2. Ahead = output
  BY <1>1, NothingToPrint DEF Ahead, ThreadInv
<1>3. caller.item \in Item /\ sequence \in Seq(Item)
  BY <1>1 DEF TypeOK, ThreadInv, Element
<1>4. sequence' = Append(sequence, caller.item) /\ sequence' # <<>>
  BY <1>3, SequencesTyped DEF Accumulate
<1>5. CASE Whole
  BY <1>1, <1>2, <1>4, <1>5 DEF CopyInv, Whole, Faithful, Inside, SoundedInv
<1>6. CASE ~started /\ thread = "none" /\ Cut
  <2>1. IsPrefix(output.codes, copy.codes)
    BY <1>1, <1>2, <1>6 DEF Cut, Inside
  <2>2. IsPrefix(output.codes, PrintLetter(copy, letter).codes)
    BY <2>1, PrefixPrinted DEF TypeOK, Text
  <2> QED BY <1>1, <1>6, <2>2 DEF CopyInv, Cut, Inside
<1> QED BY <1>5, <1>6 DEF CopyInv

LEMMA PollCopy == TypeOK /\ ThreadInv /\ CopyInv /\ Poll => CopyInv'
<1> SUFFICES ASSUME TypeOK, ThreadInv, CopyInv, Poll  PROVE CopyInv'
  OBVIOUS
<1>1. Whole
  BY DEF Poll, CopyInv
<1>2. UNCHANGED <<since, sounded, unit, copy, letter, call, started>> /\ at \notin Inside
  BY DEF Poll, config, reader
<1>3. CASE sequence # <<>> /\ Silence >= WordSpace
  <2>1. sequence = letter /\ Faithful(output, copy) /\ lastDuration = sounded
    BY <1>2, <1>3, <1>1 DEF Whole
  <2>2. since >= sounded + 8 * unit
    BY <1>3, <2>1, SilenceTests
  <2>3. /\ output' = PrintSpace(PrintLetter(output, letter))
        /\ sequence' = <<>> /\ lastDuration' = 0
    BY <1>3, <2>1, FlushedPrints DEF Poll
  <2>4. Faithful(output', PrintSpace(PrintLetter(copy, letter)))
    <3>1. output \in Text /\ copy \in Text
      BY DEF TypeOK
    <3>2. /\ PrintLetter(output, letter) \in Text /\ PrintLetter(copy, letter) \in Text
          /\ Faithful(PrintLetter(output, letter), PrintLetter(copy, letter))
      BY <2>1, <3>1, FaithfulPrinted, PrintTyped
    <3> QED BY <2>3, <3>2, FaithfulPrinted
  <2> QED BY <1>2, <1>3, <2>1, <2>2, <2>3, <2>4 DEF CopyInv, Whole, call
<1>4. CASE ~(sequence # <<>> /\ Silence >= WordSpace)
  <2>1. UNCHANGED <<output, sequence, lastDuration>>
    BY <1>4 DEF Poll
  <2> QED BY <1>1, <1>2, <2>1 DEF CopyInv, Whole, Faithful, call
<1> QED BY <1>3, <1>4

\* stop() clears the sequence under whatever the call is doing: at the most the
\* open letter is lost.
LEMMA ClearCopy == TypeOK /\ ThreadInv /\ CopyInv /\ Clear => CopyInv'
<1> SUFFICES ASSUME TypeOK, ThreadInv, CopyInv, Clear  PROVE CopyInv'
  OBVIOUS
<1>1. ~started /\ thread = "none" /\ sequence' = <<>>
      /\ UNCHANGED <<started, thread, output, copy, letter, since, sounded, unit, call>>
  BY DEF Clear, ThreadInv, config, signal, reader
<1> SUFFICES Cut'
  BY <1>1 DEF CopyInv
<1>2. output \in Text /\ copy \in Text /\ output.codes \in Seq(Known)
  BY DEF TypeOK, Text
<1>3. IsPrefix(output.codes, output.codes)
  BY <1>2, PrefixSelf
<1>4. CASE Whole /\ at \notin Inside
  <2>1. \/ output.codes = copy.codes
        \/ /\ output.codes = PrintLetter(copy, letter).codes
           /\ since >= sounded + 8 * unit
    BY <1>2, <1>4, PrintTyped DEF Whole, Faithful
  <2>2. IsPrefix(output.codes, PrintLetter(copy, letter).codes)
    BY <1>2, <1>3, <2>1, PrefixPrinted
  <2> QED BY <1>1, <1>4, <2>1, <2>2 DEF Cut, Inside, call
<1>5. CASE Whole /\ at \in Inside
  <2>1. Ahead.codes = copy.codes
    BY <1>5 DEF Whole, Faithful
  <2>2. Ahead'.codes = Ahead.codes \/ Ahead'.codes = output.codes
    <3>1. CASE at = "flush"
      <4>1. Ahead' = IF word THEN PrintSpace(output) ELSE output
        BY <1>1, <3>1, NothingToPrint DEF Ahead, call
      <4> QED BY <1>2, <4>1, PrintTyped
    <3>2. CASE at # "flush"
      BY <1>1, <3>2 DEF Ahead, call
    <3> QED BY <3>1, <3>2
  <2>3. IsPrefix(output.codes, Ahead.codes)
    <3>1. \A c : /\ PrintLetter(output, c) \in Text
                 /\ IsPrefix(output.codes, PrintLetter(output, c).codes)
      BY <1>2, <1>3, PrefixPrinted, PrintTyped
    <3>2. \A c : IsPrefix(output.codes, PrintSpace(PrintLetter(output, c)).codes)
      BY <1>2, <3>1, PrefixPrinted
    <3> QED BY <3>1, <3>2 DEF Ahead
  <2>4. copy.codes \in Seq(Known)
    BY <1>2 DEF Text
  <2>5. IsPrefix(Ahead'.codes, copy.codes)
    BY <2>1, <2>2, <2>3, <2>4, PrefixSelf
  <2> QED BY <1>1, <1>5, <2>5 DEF Cut, Inside, call
<1>6. CASE Cut
  <2>1. at \in Inside => Ahead'.codes = Ahead.codes \/ at = "flush"
    BY <1>1 DEF Ahead, call
  <2>2. at = "flush" => IsPrefix(Ahead'.codes, copy.codes)
    <3> SUFFICES ASSUME at = "flush"  PROVE IsPrefix(Ahead'.codes, copy.codes)
      OBVIOUS
    <3>1. Ahead' = IF word THEN PrintSpace(output) ELSE output
      BY <1>1, NothingToPrint DEF Ahead, call
    <3>2. IsPrefix(output.codes, PrintLetter(output, sequence).codes)
          /\ PrintLetter(output, sequence) \in Text
      BY <1>2, <1>3, PrefixPrinted, PrintTyped
    <3>3. Ahead.codes = PrintLetter(output, sequence).codes
      BY <3>2, PrintTyped DEF Ahead
    <3>4. IsPrefix(Ahead.codes, copy.codes)
      BY <1>6 DEF Cut, Inside
    <3>5. Ahead.codes \in Seq(Known) /\ copy.codes \in Seq(Known)
      BY <1>2, <3>2, <3>3 DEF Text
    <3>6. IsPrefix(output.codes, copy.codes)
      BY <1>2, <3>2, <3>3, <3>4, <3>5, PrefixTransitive
    <3> QED BY <1>2, <3>1, <3>6, PrintTyped
  <2> QED BY <1>1, <1>6, <2>1, <2>2 DEF Cut, Inside, call
<1> QED BY <1>4, <1>5, <1>6 DEF CopyInv

LEMMA StartCopy ==
    ASSUME TypeOK, ThreadInv, NEW u \in Units, Start(u)
    PROVE  CopyInv'
<1>1. /\ sequence' = <<>> /\ output' = Blank /\ copy' = Ahead'
      /\ UNCHANGED <<at, caller, word, code>>
  BY DEF Start, call
<1>2. CASE at \in Inside
  <2>1. letter' = <<caller'.item>> /\ Append(<<>>, caller'.item) = <<caller'.item>>
    <3>1. caller.item \in Item
      BY <1>2 DEF TypeOK, ThreadInv, Inside, Element
    <3> QED BY <1>1, <1>2, <3>1, SequencesTyped DEF Start
  <2>2. Faithful(Ahead', copy')
    BY <1>1 DEF Faithful
  <2>3. at' \in Inside
    BY <1>1, <1>2
  <2> QED BY <1>1, <2>1, <2>2, <2>3 DEF CopyInv, Whole
<1>3. CASE at \notin Inside
  <2>1. code' = <<>> /\ ~word' /\ at' \notin Inside /\ letter' = <<>>
    BY <1>1, <1>3 DEF ThreadInv, TypeOK, Inside, Start
  <2>2. Ahead' = Blank
    BY <1>1, <2>1, NothingToPrint DEF Ahead
  <2> QED BY <1>1, <2>1, <2>2 DEF CopyInv, Whole
<1> QED BY <1>2, <1>3

LEMMA CallCopy == \A el \in Element : CopyInv /\ ThreadInv /\ Call(el) => CopyInv'
<1> SUFFICES ASSUME NEW el \in Element, CopyInv, ThreadInv, Call(el)  PROVE CopyInv'
  OBVIOUS
<1>1. started /\ at = "idle" /\ at' = "called"
      /\ UNCHANGED <<started, thread, signal, text, reader, unit>>
  BY DEF Call, config
<1>2. Whole
  BY <1>1 DEF CopyInv
<1> QED BY <1>1, <1>2 DEF CopyInv, Whole, Faithful, Inside, signal, text, reader

\* Steps that leave the text and the call alone, and the clock or let it run on.
LEMMA TextFrame ==
    ASSUME TypeOK, CopyInv, started' => started, unit' = unit,
           ~started => thread' = "none" \/ thread # "none",
           UNCHANGED <<sounded, lastDuration, text, reader, call>>,
           since >= sounded + 8 * unit => since' >= sounded + 8 * unit
    PROVE  CopyInv'
<1>1. Ahead' = Ahead
  BY DEF Ahead, text, call
<1>2. CASE Whole
  BY <1>1, <1>2 DEF CopyInv, Whole, Faithful, text, reader, call
<1>3. CASE ~started /\ thread = "none" /\ Cut
  BY <1>1, <1>3 DEF CopyInv, Cut, text, reader, call
<1> QED BY <1>2, <1>3 DEF CopyInv

LEMMA NextCopy == TypeOK /\ ThreadInv /\ SoundedInv /\ CopyInv /\ [Next]_vars => CopyInv'
<1> SUFFICES ASSUME TypeOK, ThreadInv, SoundedInv, CopyInv, [Next]_vars  PROVE CopyInv'
  OBVIOUS
<1>1. ASSUME NEW el \in Element, Call(el)  PROVE CopyInv'
  BY <1>1, CallCopy
<1>2. CASE Measure
  BY <1>2, MeasureCopy
<1>3. CASE Decode \/ PrintChar \/ PrintWordSpace
  BY <1>3, PrintingCopy
<1>4. CASE Accumulate
  BY <1>4, AccumulateCopy
<1>5. CASE WhileRunning
  BY <1>5, TextFrame DEF WhileRunning, config, signal
<1>6. CASE Poll
  BY <1>6, PollCopy
<1>7. ASSUME NEW next \in {"idle", "set"}, Stop(next)  PROVE CopyInv'
  BY <1>7, TextFrame DEF Stop, signal
<1>8. CASE Join
  BY <1>8, TextFrame DEF Join, config, signal
<1>9. CASE Clear
  BY <1>9, ClearCopy
<1>10. ASSUME NEW u \in Units, Start(u)  PROVE CopyInv'
  BY <1>10, StartCopy
<1>11. CASE Tick
  <2>1. since >= sounded + 8 * unit => since' >= sounded + 8 * unit
    BY <1>11, CwDecoderAssumption DEF Tick, TypeOK, SoundedInv
  <2> QED BY <1>11, <2>1, TextFrame DEF Tick, config
<1>12. CASE UNCHANGED vars
  BY <1>12, TextFrame DEF vars, config, signal
<1> QED BY <1>1, <1>2, <1>3, <1>4, <1>5, <1>6, <1>7, <1>8, <1>9, <1>10, <1>11,
           <1>12 DEF Next

----------------------------------------------------------------------------
(* The theorems                                                            *)

LEMMA InitInv == Init => Inv
<1> SUFFICES ASSUME Init  PROVE Inv
  OBVIOUS
<1>1. TypeOK
  <2>1. sequence \in Seq(Item) /\ letter \in Seq(Item) /\ code \in Seq(Item)
    BY SequencesTyped DEF Init
  <2>2. since \in 0 .. Horizon
    BY CwDecoderAssumption DEF Init
  <2> QED BY <2>1, <2>2, BlankTyped DEF Init, TypeOK
<1>2. SoundedInv
  <2>1. PICK d \in Dits : d \in Nat
    BY CwDecoderAssumption
  <2>2. \A u \in Units : u \in Nat /\ 3 * d + 8 * u <= Horizon
    BY CwDecoderAssumption
  <2> QED BY <2>1, <2>2, CwDecoderAssumption DEF Init, SoundedInv, Inside
<1>3. CopyInv
  BY DEF Init, CopyInv, Whole, Inside
<1>4. ThreadInv
  BY DEF Init, ThreadInv
<1>5. LateInv
  BY DEF Init, LateInv, OneLateLetter
<1> QED BY <1>1, <1>2, <1>3, <1>4, <1>5 DEF Inv

LEMMA NextInv == Inv /\ [Next]_vars => Inv'
BY NextTyped, NextThread, NextLate, NextSounded, NextCopy DEF Inv

\* In every reachable state the types hold, the threads of a stopped decoder are
\* gone, and the text printed, with what a call under way still prints, stands to
\* the operator's copy as a running or a cut decoder leaves it.
THEOREM Invariance == Spec => []Inv
<1> QED BY InitInv, NextInv, PTL DEF Spec

LEMMA PrintsPrefix ==
    Inv => IsPrefix(output.codes, PrintLetter(copy, letter).codes)
<1> SUFFICES ASSUME Inv  PROVE IsPrefix(output.codes, PrintLetter(copy, letter).codes)
  OBVIOUS
<1>1. output \in Text /\ copy \in Text /\ output.codes \in Seq(Known) /\ copy.codes \in Seq(Known)
  BY DEF Inv, TypeOK, Text
<1>2. IsPrefix(output.codes, output.codes)
  BY <1>1, PrefixSelf
<1>3. CASE at \in Inside
  <2>1. \A c : /\ PrintLetter(output, c) \in Text
               /\ IsPrefix(output.codes, PrintLetter(output, c).codes)
    BY <1>1, <1>2, PrefixPrinted, PrintTyped
  <2>2. IsPrefix(output.codes, Ahead.codes)
    <3>1. \A c : IsPrefix(output.codes, PrintSpace(PrintLetter(output, c)).codes)
      BY <1>1, <2>1, PrefixPrinted
    <3> QED BY <2>1, <3>1 DEF Ahead
  <2>3. IsPrefix(Ahead.codes, copy.codes) \/ Ahead.codes = copy.codes
    BY <1>3 DEF Inv, CopyInv, Whole, Cut, Faithful
  <2>4. Ahead.codes \in Seq(Known)
    BY AheadTyped DEF Inv, Text
  <2>5. IsPrefix(output.codes, copy.codes)
    BY <1>1, <2>2, <2>3, <2>4, PrefixTransitive
  <2> QED BY <1>1, <2>5, PrefixPrinted
<1>4. CASE at \notin Inside
  <2>1. CASE Whole
    <3>1. output.codes = copy.codes \/ output.codes = PrintLetter(copy, letter).codes
      BY <1>1, <1>4, <2>1, PrintTyped DEF Whole, Faithful
    <3>2. output.codes = copy.codes => IsPrefix(output.codes, PrintLetter(copy, letter).codes)
      BY <1>1, <1>2, PrefixPrinted
    <3> QED BY <1>2, <3>1, <3>2
  <2>2. CASE Cut
    BY <1>1, <1>2, <1>4, <2>2, PrefixPrinted DEF Inv, TypeOK, Cut
  <2> QED BY <2>1, <2>2 DEF Inv, CopyInv
<1> QED BY <1>3, <1>4

LEMMA RunningIsFaithful ==
    Inv /\ started /\ at \notin Inside => Faithful(AllPrinted, AllKeyed)
<1> SUFFICES ASSUME Inv, started, at \notin Inside  PROVE Faithful(AllPrinted, AllKeyed)
  OBVIOUS
<1>1. Whole
  BY DEF Inv, CopyInv
<1>2. output \in Text /\ copy \in Text /\ PrintLetter(copy, letter) \in Text
  BY PrintTyped DEF Inv, TypeOK
<1>3. CASE sequence = letter /\ Faithful(output, copy)
  <2>1. Faithful(PrintLetter(output, sequence), PrintLetter(copy, letter))
    BY <1>2, <1>3, FaithfulPrinted
  <2> QED BY <2>1 DEF Faithful, AllPrinted, AllKeyed, Inner
<1>4. CASE sequence = <<>> /\ Faithful(output, PrintSpace(PrintLetter(copy, letter)))
  <2>1. PrintLetter(output, sequence) = output
    BY <1>4, NothingToPrint
  <2>2. /\ output.codes = PrintLetter(copy, letter).codes
        /\ output.spaces \subseteq PrintLetter(copy, letter).spaces
                                   \cup {Len(PrintLetter(copy, letter).codes)}
    BY <1>2, <1>4, PrintTyped DEF Faithful
  <2> QED BY <2>1, <2>2 DEF Faithful, AllPrinted, AllKeyed, Inner
<1> QED BY <1>1, <1>3, <1>4 DEF Whole, Faithful

\* What is printed is what was keyed, for every Morse table and every speed, read
\* by the spacing of the keying standard: neither the poll, a stop at any step of
\* a call, nor a start after it makes a letter that was not keyed, changes their
\* order, or prints a space inside a word; and while the decoder runs none is lost.
THEOREM PrintsWhatWasKeyed == Spec => []TextIsFaithful
<1>1. Inv => TextIsFaithful
  <2>1. Inv => AllKeyed.codes = PrintLetter(copy, letter).codes
    BY DEF AllKeyed, Inner
  <2> QED BY <2>1, PrintsPrefix, RunningIsFaithful DEF TextIsFaithful
<1> QED BY <1>1, Invariance, PTL

\* At the most one letter is printed after a stop has returned, whatever the call
\* that it overtook was doing.
THEOREM StopLetsOneLetterOut == Spec => []OneLateLetter
<1>1. Inv => OneLateLetter
  BY DEF Inv, LateInv
<1> QED BY <1>1, Invariance, PTL
=============================================================================
