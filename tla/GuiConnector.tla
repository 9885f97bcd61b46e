----------------------------- MODULE GuiConnector -----------------------------
(***************************************************************************)
(* src/App/gui and src/App/configuration: the settings of the GUI, the     *)
(* parts of the program that run with them, and configuration.json.  A     *)
(* setter changes memory and the parts, and writes the file once per value *)
(* it puts; every write truncates the file before it fills it, and the     *)
(* process may end between any two of these steps.                         *)
(***************************************************************************)
EXTENDS Naturals, Sequences, FiniteSets, SequencesExt

CONSTANTS
    Plain,         \* settings that depend on no other
    Part,          \* the part a plain setting resets: keyer, sound, remote or none
    Defaulted,     \* plain settings that loadConfiguration does not take when zero
    NonZero,       \* plain settings that no setter and no control makes zero
    Indexed,       \* plain settings that are positions in a list: device and ports
    Unselected,    \* what a position is before one is selected
    Speeds,        \* the speeds there are
    DefaultSpeed,  \* DEFAULT_WPM and DEFAULT_FARNSWORTH, which are equal
    Missing, Off

Parts == {"keyer", "sound", "remote", "none"}
Values == {"default", "zero", "other"}
Lists == {{}, {"zero"}, {"zero", "other"}}
Keys == Plain \cup {"wpm", "farns", "sound", "remote"}

ASSUME GuiAssumption ==
    /\ IsFiniteSet(Plain) /\ Plain \cap {"wpm", "farns", "sound", "remote"} = {}
    /\ Part \in [Plain -> Parts]
    /\ {Defaulted, NonZero, Indexed} \subseteq SUBSET Plain
    /\ Indexed \cap Defaulted = {} /\ Unselected \in [Indexed -> Values]
    /\ Speeds \subseteq Nat \ {0} /\ DefaultSpeed \in Speeds
    /\ Missing \notin Values /\ Missing \notin Speeds /\ Missing \notin BOOLEAN

VARIABLES
    up,                \* the process runs
    plain, wpm, farns, \* GuiConnector's members
    listed,            \* the positions of the lists of devices and ports
    file,              \* configuration.json
    writing, root,     \* a write has truncated the file; the content it fills in
    todo,              \* the puts the handler has still to do
    keyer, decoder, tone,     \* the speeds and settings the parts run with
    remote, shown,     \* what the client runs with; what QML was notified of
    torn               \* history: a process ended between the two puts of the
                       \* speeds, and its file has them in the wrong order

memory == <<plain, wpm, farns, listed>>
disk   == <<file, writing, root>>
parts  == <<keyer, decoder, tone, remote, shown>>
vars   == <<up, memory, disk, todo, parts, torn>>

Empty == [k \in Keys |-> Missing]
Of(part, settings) == [k \in {p \in Plain : Part[p] = part} |-> settings[k]]
ValuesOf(k) == CASE k \in Plain -> Values
                 [] k \in {"wpm", "farns"} -> Speeds
                 [] OTHER -> BOOLEAN

\* A value per setting, or none; and the puts there are.
Content(f) == /\ f = [k \in Keys |-> f[k]]
              /\ \A k \in Keys : f[k] \in ValuesOf(k) \cup {Missing}
PutsOf == UNION {{k} \X ValuesOf(k) : k \in Keys}

\* Every variable has its type.
TypeOK ==
    /\ {up, writing, tone, shown, torn} \subseteq BOOLEAN
    /\ plain \in [Plain -> Values] /\ {wpm, farns} \subseteq Speeds
    /\ listed \in [Indexed -> Lists]
    /\ Content(file) /\ Content(root) /\ todo \in Seq(PutsOf)

Init ==
    /\ up = FALSE /\ torn = FALSE
    /\ plain = [k \in Plain |-> IF k \in Indexed THEN Unselected[k] ELSE "default"]
    /\ wpm = DefaultSpeed /\ farns = DefaultSpeed /\ listed = [k \in Indexed |-> {}]
    /\ file = Empty /\ writing = FALSE /\ root = Empty /\ todo = <<>>
    /\ keyer = Off /\ decoder = Off /\ tone = FALSE
    /\ remote = Off /\ shown = FALSE

----------------------------------------------------------------------------
(* Configuration                                                           *)

AtRest == todo = <<>>
Idle == up /\ AtRest

\* Variant: the other values are not read before the file is truncated.
TruncateBlank ==
    /\ up /\ todo # <<>> /\ ~writing
    /\ writing' = TRUE
    /\ root' = [Empty EXCEPT ![Head(todo)[1]] = Head(todo)[2]]
    /\ file' = Empty
    /\ UNCHANGED <<up, memory, todo, parts, torn>>

\* put...: the file is read, the value replaced, and the file truncated ...
Truncate ==
    /\ up /\ todo # <<>> /\ ~writing
    /\ writing' = TRUE
    /\ root' = [file EXCEPT ![Head(todo)[1]] = Head(todo)[2]]
    /\ file' = Empty
    /\ UNCHANGED <<up, memory, todo, parts, torn>>

\* ... and filled; a file that is cut short reads like an empty one.
Fill ==
    /\ up /\ writing
    /\ file' = root
    /\ writing' = FALSE /\ root' = Empty
    /\ todo' = Tail(todo)
    /\ UNCHANGED <<up, memory, parts, torn>>

\* What the next start reads for a speed.
SavedSpeed(k) == IF file[k] = Missing THEN DefaultSpeed ELSE file[k]

\* quit; or a crash, or a file that cannot be opened, inside a handler.
End ==
    /\ up /\ up' = FALSE
    /\ torn' = /\ SavedSpeed("farns") > SavedSpeed("wpm")
               /\ torn \/ \E i \in DOMAIN todo : todo[i][1] \in {"wpm", "farns"}
    /\ writing' = FALSE /\ root' = Empty /\ todo' = <<>>
    /\ keyer' = Off /\ decoder' = Off /\ tone' = FALSE
    /\ remote' = Off /\ shown' = FALSE
    /\ UNCHANGED <<memory, file>>

----------------------------------------------------------------------------
(* The parts                                                               *)

\* resetCwDecoder restarts a decoder that is on.
ResetCwDecoder ==
    decoder' = IF decoder = Off THEN Off ELSE [farns |-> farns', wpm |-> wpm']

ResetKeyer ==
    /\ keyer' = [wpm |-> wpm', set |-> Of("keyer", plain')]
    /\ ResetCwDecoder

\* setRemoteConnected: the client is started, which may fail, or stopped; the
\* outcome is put and shown.
SetRemoteConnected(started) ==
    /\ remote' = IF started THEN Of("remote", plain') ELSE Off
    /\ shown' = started

\* Variant: the client is stopped but not started again.
ResetRemotesStops(before) == SetRemoteConnected(FALSE) /\ todo' = before

\* resetRemotes reads the flag, puts FALSE, and connects again if it was TRUE.
ResetRemotes(before) ==
    LET cleared == Append(before, <<"remote", FALSE>>)
    IN IF file["remote"] = TRUE
       THEN \E started \in BOOLEAN :
              /\ SetRemoteConnected(started)
              /\ todo' = Append(cleared, <<"remote", started>>)
       ELSE SetRemoteConnected(FALSE) /\ todo' = cleared

ResetSound == tone' = (file["sound"] = TRUE)

----------------------------------------------------------------------------
(* GuiConnector                                                            *)

\* getValue...: a missing value reads as zero.
AsRead(v) == IF v = Missing THEN "zero" ELSE v

\* Variant: the position is taken unchecked.
LoadedUnchecked(k) ==
    LET v == AsRead(file[k]) IN IF k \in Defaulted /\ v = "zero" THEN "default" ELSE v

\* What loadConfiguration takes for k: a default for a zero that it does not
\* accept, and a position only when today's list has it.
Loaded(k) ==
    LET v == AsRead(file[k])
    IN IF k \in Defaulted /\ v = "zero" THEN "default"
       ELSE IF k \in Indexed /\ v \notin listed'[k] THEN Unselected[k]
       ELSE v

\* The defaults it puts.
Puts(S) == LET q == SetToSeq(S)
           IN [i \in DOMAIN q |-> <<q[i], IF q[i] \in Plain THEN "default" ELSE DefaultSpeed>>]

\* The constructor's loadConfiguration, and initConnector.
Start ==
    /\ ~up /\ up' = TRUE
    /\ listed' \in [Indexed -> Lists]
    /\ plain' = [k \in Plain |-> Loaded(k)]
    /\ wpm' = SavedSpeed("wpm") /\ farns' = SavedSpeed("farns")
    /\ ResetKeyer
    /\ ResetSound
    /\ ResetRemotes(Puts({k \in Defaulted : Loaded(k) # file[k]}
                           \cup {k \in {"wpm", "farns"} : file[k] = Missing}))
    /\ UNCHANGED <<disk, torn>>

\* setAmplitude, setFrequency, setMode, setSelectedAudioDevice, the ports of
\* the serial lines, setRemotePort, setServerIp, setRemoteMoxDelayMs.
SetPlain(k, v) ==
    /\ Idle /\ plain[k] # v
    /\ k \in NonZero => v # "zero"
    /\ k \in Indexed => v \in listed[k]
    /\ plain' = [plain EXCEPT ![k] = v]
    /\ UNCHANGED <<up, wpm, farns, listed, disk, torn>>
    /\ IF Part[k] = "remote" THEN ResetRemotes(<< <<k, v>> >>)
                             ELSE todo' = << <<k, v>> >> /\ UNCHANGED <<remote, shown>>
    /\ IF Part[k] = "keyer" THEN ResetKeyer ELSE UNCHANGED <<keyer, decoder>>
    /\ IF Part[k] = "sound" THEN ResetSound ELSE UNCHANGED tone

\* Variant: a speed below farnsWorth leaves farnsWorth where it is.
SetWpmOnly(v) ==
    /\ Idle /\ wpm # v
    /\ wpm' = v /\ torn' = FALSE
    /\ UNCHANGED <<up, plain, farns, listed, disk, tone, remote, shown>>
    /\ ResetKeyer
    /\ todo' = << <<"wpm", v>> >>

\* setWpm takes farnsWorth down with it ...
SetWpm(v) ==
    /\ Idle /\ wpm # v
    /\ wpm' = v /\ farns' = (IF farns > v THEN v ELSE farns) /\ torn' = FALSE
    /\ UNCHANGED <<up, plain, listed, disk, tone, remote, shown>>
    /\ ResetKeyer
    /\ todo' = IF farns > v THEN << <<"wpm", v>>, <<"farns", v>> >> ELSE << <<"wpm", v>> >>

\* Variant: the decoder is not restarted.
SetFarnsWorthOnly(v) ==
    /\ Idle /\ farns # v
    /\ farns' = v /\ wpm' = (IF v > wpm THEN v ELSE wpm) /\ torn' = FALSE
    /\ UNCHANGED <<up, plain, listed, disk, keyer, decoder, tone, remote, shown>>
    /\ todo' = IF v > wpm THEN << <<"farns", v>>, <<"wpm", v>> >> ELSE << <<"farns", v>> >>

\* ... and setFarnsWorth takes wpm up.
SetFarnsWorth(v) ==
    /\ Idle /\ farns # v
    /\ farns' = v /\ wpm' = (IF v > wpm THEN v ELSE wpm) /\ torn' = FALSE
    /\ UNCHANGED <<up, plain, listed, disk, tone, remote, shown>>
    /\ IF v > wpm THEN ResetKeyer ELSE UNCHANGED keyer /\ ResetCwDecoder
    /\ todo' = IF v > wpm THEN << <<"farns", v>>, <<"wpm", v>> >> ELSE << <<"farns", v>> >>

SetEnabledSound(enabled) ==
    /\ Idle
    /\ tone' = enabled
    /\ todo' = << <<"sound", enabled>> >>
    /\ UNCHANGED <<up, memory, disk, keyer, decoder, remote, shown, torn>>

SetEnabledCwDecoder(enabled) ==
    /\ Idle
    /\ decoder' = IF enabled THEN [farns |-> farns, wpm |-> wpm] ELSE Off
    /\ UNCHANGED <<up, memory, disk, todo, keyer, tone, remote, shown, torn>>

\* The button toggles what the client is, not what is shown.
ToggleRemote ==
    /\ Idle
    /\ UNCHANGED <<up, memory, disk, keyer, decoder, tone, torn>>
    /\ \E started \in IF remote = Off THEN BOOLEAN ELSE {FALSE} :
         SetRemoteConnected(started) /\ todo' = << <<"remote", started>> >>

\* A send fails and the client stops itself; nobody is told.
RemoteFails ==
    /\ up /\ remote # Off
    /\ remote' = Off
    /\ UNCHANGED <<up, memory, disk, todo, keyer, decoder, tone, shown, torn>>

Next ==
    \/ Start \/ End
    \/ Truncate \/ Fill
    \/ \E k \in Plain, v \in Values : SetPlain(k, v)
    \/ \E v \in Speeds : SetWpm(v) \/ SetFarnsWorth(v)
    \/ \E on \in BOOLEAN : SetEnabledSound(on) \/ SetEnabledCwDecoder(on)
    \/ ToggleRemote \/ RemoteFails

Spec == Init /\ [][Next]_vars

\* A process that does not end does what its handler has still to do.
FairSpec == Spec /\ WF_vars(Truncate \/ Fill)

----------------------------------------------------------------------------
\* A file with v for k is the file of a program that runs with plain[k]: it has
\* the value; or none, and the program runs with zero; or a position that is not
\* in today's list, which waits there for a list that has it.
Current(k, v) ==
    \/ v = plain[k]
    \/ k \notin Defaulted /\ v = Missing /\ plain[k] = "zero"
    \/ k \in Indexed /\ AsRead(v) \notin listed[k] /\ plain[k] = Unselected[k]

\* Between handlers the file says what the program runs with.
FileIsCurrent ==
    Idle => /\ \A k \in Plain : Current(k, file[k])
            /\ file["wpm"] = wpm /\ file["farns"] = farns

\* A device or port that is selected is one there is, whatever list it was saved
\* for.
SelectionExists ==
    up => \A k \in Indexed : plain[k] \in listed[k] \cup {Unselected[k]}

\* A start takes over what was saved, but for a position that a list has no
\* longer (the comment of GuiConnector.cpp:79 gives amplitudes from zero; the
\* code takes zero for none and overwrites it).
SavedIsTaken ==
    [][Start => \A k \in Plain \ Indexed : file[k] \in {Missing, plain'[k]}]_vars

\* Whatever is set first, farnsWorth is not above wpm, unless a process ended
\* between the two puts and no speed was set since.
SpeedsInOrder == up /\ farns > wpm => torn

\* The README's "farnsWorth is always <= wpm"; a process that ended between the
\* two puts refutes it.
SpeedsAlwaysInOrder == up => farns <= wpm

\* The keyer and the decoder run with the speeds and the mode of the GUI.
SpeedsAreUsed ==
    up => /\ keyer = [wpm |-> wpm, set |-> Of("keyer", plain)]
          /\ decoder \in {Off, [farns |-> farns, wpm |-> wpm]}

\* A client that runs has the current address, and between handlers its flag is
\* in the file for the next start and shown.
RemoteIsSaved ==
    /\ remote # Off => remote = Of("remote", plain)
    /\ Idle => (shown <=> file["remote"] = TRUE) /\ (remote # Off => shown)

\* The tone follows the flag in the file, through every reset of the sound.
ToneFollowsFlag == Idle => (tone <=> file["sound"] = TRUE)

Stored == IF writing THEN root ELSE file

\* A put changes one value and keeps the others; only the end of a process in
\* the middle of a put loses anything, and then everything.
PutsKeepTheRest ==
    [][ \/ \E k \in Keys : \A j \in Keys \ {k} : Stored'[j] = Stored[j]
        \/ up /\ ~up' /\ writing /\ Stored' = Empty ]_vars

----------------------------------------------------------------------------
(* Why they hold                                                           *)

\* A file is only cut short while a handler of the running process has the
\* value at the head of its puts in hand.
PutInv ==
    /\ writing => /\ up /\ todo # <<>> /\ file = Empty
                  /\ root[Head(todo)[1]] = Head(todo)[2]
    /\ ~up => todo = <<>>

\* After the puts of q, a file with s for k has v.
Ends(q, k, s, v) ==
    \/ /\ s = v
       /\ \A i \in DOMAIN q : q[i][1] # k
    \/ \E i \in DOMAIN q : /\ q[i] = <<k, v>>
                           /\ \A j \in DOMAIN q : j > i => q[j][1] # k

\* The program runs with v for k.
Agrees(k, v) ==
    CASE k \in Plain  -> Current(k, v)
      [] k = "wpm"    -> v = wpm
      [] k = "farns"  -> v = farns
      [] k = "sound"  -> tone <=> v = TRUE
      [] k = "remote" -> shown <=> v = TRUE

\* The puts of a handler bring the file to what the program runs with.
SettleInv ==
    up => \A k \in Keys : \E v \in ValuesOf(k) \cup {Missing} :
            Ends(todo, k, Stored[k], v) /\ Agrees(k, v)

\* The speeds are in order, and so they are in the file the next start reads.
OrderInv ==
    ~torn => /\ up => farns <= wpm
             /\ ~up => SavedSpeed("farns") <= SavedSpeed("wpm")

RemoteInv == remote # Off => remote = Of("remote", plain) /\ shown

\* The module's invariant.
Inv ==
    /\ TypeOK /\ FileIsCurrent /\ SelectionExists
    /\ SpeedsAreUsed /\ ToneFollowsFlag
    /\ PutInv /\ SettleInv /\ OrderInv /\ RemoteInv
=============================================================================
