------------------------------- MODULE GuiProofs -------------------------------
(***************************************************************************)
(* Proofs about GuiConnector, for any settings and any speeds.             *)
(***************************************************************************)
EXTENDS GuiConnector, FiniteSetTheorems, TLAPS

\* The keys are told apart by the assumption, and their values have types.
LEMMA KeysTold ==
    /\ "wpm" \in Keys /\ "farns" \in Keys /\ "sound" \in Keys /\ "remote" \in Keys
    /\ "wpm" \notin Plain /\ "farns" \notin Plain
    /\ "sound" \notin Plain /\ "remote" \notin Plain
    /\ \A k \in Plain : k \in Keys /\ ValuesOf(k) = Values
    /\ ValuesOf("wpm") = Speeds /\ ValuesOf("farns") = Speeds
    /\ ValuesOf("sound") = BOOLEAN /\ ValuesOf("remote") = BOOLEAN
<1>1. "wpm" \notin Plain /\ "farns" \notin Plain
      /\ "sound" \notin Plain /\ "remote" \notin Plain
  BY GuiAssumption
<1> QED BY <1>1 DEF Keys, ValuesOf

\* What a put is.
LEMMA PutTyped ==
    ASSUME NEW k \in Keys, NEW v \in ValuesOf(k)
    PROVE  <<k, v>> \in PutsOf
BY DEF PutsOf

\* And what its fields are.
LEMMA PutFields ==
    ASSUME NEW put \in PutsOf
    PROVE  put[1] \in Keys /\ put[2] \in ValuesOf(put[1]) /\ put = <<put[1], put[2]>>
BY DEF PutsOf

\* What a replaced value leaves of a file's content.
LEMMA ContentPut ==
    ASSUME NEW f, Content(f), NEW k \in Keys, NEW v \in ValuesOf(k)
    PROVE  /\ Content([f EXCEPT ![k] = v])
           /\ [f EXCEPT ![k] = v][k] = v
           /\ \A j \in Keys \ {k} : [f EXCEPT ![k] = v][j] = f[j]
<1>1. DOMAIN f = Keys
  BY DEF Content
<1> QED BY <1>1 DEF Content

\* A file that is cut short reads like one without values.
LEMMA ContentEmpty == Content(Empty) /\ \A k \in Keys : Empty[k] = Missing
BY DEF Content, Empty

----------------------------------------------------------------------------
(* The puts of a handler                                                   *)

\* Nothing is put.
LEMMA EndsNone ==
    ASSUME NEW k, NEW s
    PROVE  Ends(<<>>, k, s, s)
BY DEF Ends

\* One more put decides its own key and no other.
LEMMA EndsAppend ==
    ASSUME NEW q \in Seq(PutsOf), NEW j \in Keys, NEW w \in ValuesOf(j),
           NEW k, NEW s
    PROVE  /\ Ends(Append(q, <<j, w>>), j, s, w)
           /\ k # j => \A v : Ends(q, k, s, v) => Ends(Append(q, <<j, w>>), k, s, v)
<1> DEFINE n == Append(q, <<j, w>>)
<1>1. <<j, w>> \in PutsOf
  BY PutTyped
<1>2. /\ n \in Seq(PutsOf) /\ Len(n) = Len(q) + 1 /\ n[Len(q) + 1] = <<j, w>>
      /\ DOMAIN n = 1 .. Len(q) + 1 /\ DOMAIN q = 1 .. Len(q) /\ Len(q) \in Nat
      /\ \A i \in 1 .. Len(q) : n[i] = q[i]
  BY <1>1
<1> HIDE DEF n
<1>3. Ends(n, j, s, w)
  <2>1. Len(q) + 1 \in DOMAIN n
    BY <1>2
  <2>2. \A i \in DOMAIN n : ~(i > Len(q) + 1)
    BY <1>2
  <2> QED BY <1>2, <2>1, <2>2 DEF Ends
<1>4. ASSUME k # j, NEW v, Ends(q, k, s, v) PROVE Ends(n, k, s, v)
  <2>1. \A i \in DOMAIN n : i \in DOMAIN q \/ n[i][1] # k
    <3>1. \A i \in DOMAIN n : i \in 1 .. Len(q) \/ i = Len(q) + 1
      BY <1>2
    <3> QED BY <1>2, <1>4, <3>1
  <2>2. CASE s = v /\ \A i \in DOMAIN q : q[i][1] # k
    BY <1>2, <2>1, <2>2 DEF Ends
  <2>3. CASE \E i \in DOMAIN q :
                q[i] = <<k, v>> /\ \A m \in DOMAIN q : m > i => q[m][1] # k
    <3>1. PICK i \in DOMAIN q :
                q[i] = <<k, v>> /\ \A m \in DOMAIN q : m > i => q[m][1] # k
      BY <2>3
    <3>2. i \in DOMAIN n /\ n[i] = <<k, v>>
      BY <1>2, <3>1
    <3>3. \A m \in DOMAIN n : m > i => n[m][1] # k
      BY <1>2, <2>1, <3>1
    <3> QED BY <3>2, <3>3 DEF Ends
  <2> QED BY <1>4, <2>2, <2>3 DEF Ends
<1> QED BY <1>3, <1>4 DEF n

\* The put at the head, once done, leaves the rest to do from its value.
LEMMA EndsTail ==
    ASSUME NEW q \in Seq(PutsOf), q # <<>>, NEW k, NEW s, NEW v,
           Ends(q, k, s, v), k = Head(q)[1] => s = Head(q)[2]
    PROVE  Ends(Tail(q), k, s, v)
<1> DEFINE t == Tail(q)
<1>1. /\ Head(q) = q[1] /\ Len(q) \in Nat /\ Len(q) > 0 /\ DOMAIN q = 1 .. Len(q)
      /\ t \in Seq(PutsOf) /\ Len(t) = Len(q) - 1 /\ DOMAIN t = 1 .. Len(q) - 1
      /\ \A i \in 1 .. Len(q) - 1 : t[i] = q[i + 1]
  OBVIOUS
<1> HIDE DEF t
<1>2. \A i \in DOMAIN t : i \in Nat /\ i + 1 \in DOMAIN q /\ t[i] = q[i + 1]
  BY <1>1
<1>3. CASE s = v /\ \A i \in DOMAIN q : q[i][1] # k
  BY <1>2, <1>3 DEF Ends, t
<1>4. CASE \E i \in DOMAIN q :
              q[i] = <<k, v>> /\ \A m \in DOMAIN q : m > i => q[m][1] # k
  <2>1. PICK i \in DOMAIN q :
              q[i] = <<k, v>> /\ \A m \in DOMAIN q : m > i => q[m][1] # k
    BY <1>4
  <2>2. i \in Nat /\ i >= 1 /\ i <= Len(q)
    BY <1>1
  <2>3. CASE i = 1
    <3>1. s = v
      BY <1>1, <2>1, <2>3
    <3>2. \A m \in DOMAIN t : t[m][1] # k
      <4>1. \A m \in DOMAIN t : m + 1 \in DOMAIN q /\ m + 1 > 1 /\ t[m] = q[m + 1]
        BY <1>1
      <4> QED BY <2>1, <2>3, <4>1
    <3> QED BY <3>1, <3>2 DEF Ends, t
  <2>4. CASE i # 1
    <3>1. i - 1 \in DOMAIN t /\ t[i - 1] = <<k, v>>
      <4>1. i - 1 \in 1 .. Len(q) - 1 /\ (i - 1) + 1 = i
        BY <1>1, <2>2, <2>4
      <4> QED BY <1>1, <2>1, <4>1
    <3>2. \A m \in DOMAIN t : m > i - 1 => t[m][1] # k
      <4>1. \A m \in DOMAIN t : m > i - 1 => m + 1 \in DOMAIN q /\ m + 1 > i
        BY <1>2, <2>2
      <4> QED BY <1>2, <2>1, <4>1
    <3> QED BY <3>1, <3>2 DEF Ends, t
  <2> QED BY <2>3, <2>4
<1> QED BY <1>3, <1>4 DEF Ends

\* Replacing the value of the head's key by the head's changes no ending.
LEMMA EndsPut ==
    ASSUME NEW q \in Seq(PutsOf), q # <<>>, NEW k, NEW s, NEW v, NEW w,
           Ends(q, k, s, v), k # Head(q)[1] => w = s
    PROVE  Ends(q, k, w, v)
<1>1. Head(q) = q[1] /\ 1 \in DOMAIN q
  OBVIOUS
<1> QED BY <1>1 DEF Ends

\* A finite set is listed without omission or repetition.
LEMMA Listed ==
    ASSUME NEW S, IsFiniteSet(S)
    PROVE  LET q == SetToSeq(S)
           IN  /\ q \in Seq(S) /\ Len(q) \in Nat /\ DOMAIN q = 1 .. Len(q)
               /\ \A i, j \in DOMAIN q : q[i] = q[j] => i = j
               /\ \A x \in S : \E i \in DOMAIN q : q[i] = x
<1> DEFINE n == Cardinality(S)
           q == SetToSeq(S)
<1>1. n \in Nat /\ ExistsBijection(1 .. n, S)
  BY FS_CardinalityType
<1>2. \E f \in [1 .. n -> S] : IsInjective(f)
  BY <1>1 DEF ExistsBijection, Bijection, Injection
<1>3. q \in [1 .. n -> S] /\ IsInjective(q)
  BY <1>2 DEF SetToSeq
<1>4. q \in Injection(1 .. n, S)
  BY <1>3 DEF Injection
<1>5. Cardinality(1 .. n) = n
  BY <1>1, FS_Interval
<1>6. q \in Surjection(1 .. n, S)
  BY <1>4, <1>5, FS_Injection
<1>7. \A x \in S : \E i \in 1 .. n : q[i] = x
  BY <1>6 DEF Surjection
<1>8. \A i, j \in 1 .. n : q[i] = q[j] => i = j
  BY <1>3 DEF IsInjective
<1> HIDE DEF n, q
<1>9. q \in Seq(S) /\ Len(q) = n /\ DOMAIN q = 1 .. n
  BY <1>1, <1>3
<1> QED BY <1>1, <1>7, <1>8, <1>9 DEF q

\* What loadConfiguration puts when a value is missing.
DefaultOf(k) == IF k \in Plain THEN "default" ELSE DefaultSpeed

\* The puts of Start give each key of S its default, and no other anything.
LEMMA PutsEnd ==
    ASSUME NEW S, S \subseteq Plain \cup {"wpm", "farns"}
    PROVE  /\ Puts(S) \in Seq(PutsOf)
           /\ \A k \in S : \A s : Ends(Puts(S), k, s, DefaultOf(k))
           /\ \A k : k \notin S => \A s : Ends(Puts(S), k, s, s)
<1> DEFINE q == SetToSeq(S)
           p == Puts(S)
<1>1. IsFiniteSet(S)
  <2>1. IsFiniteSet({"wpm"}) /\ IsFiniteSet({"farns"})
    BY FS_Singleton
  <2>2. IsFiniteSet({"wpm"} \cup {"farns"})
    BY <2>1, FS_Union
  <2>3. IsFiniteSet(Plain \cup ({"wpm"} \cup {"farns"}))
    BY <2>2, FS_Union, GuiAssumption
  <2> QED BY <2>3, FS_Subset
<1>2. /\ q \in Seq(S) /\ Len(q) \in Nat /\ DOMAIN q = 1 .. Len(q)
      /\ \A i, j \in DOMAIN q : q[i] = q[j] => i = j
      /\ \A x \in S : \E i \in DOMAIN q : q[i] = x
  BY <1>1, Listed
<1>3. p = [i \in DOMAIN q |-> <<q[i], DefaultOf(q[i])>>]
  BY DEF Puts, DefaultOf
<1> HIDE DEF q, p
<1>4. \A i \in DOMAIN q : q[i] \in S
  BY <1>2
<1>5. \A k \in S : k \in Keys /\ DefaultOf(k) \in ValuesOf(k)
  <2>1. ASSUME NEW k \in Plain PROVE k \in Keys /\ DefaultOf(k) \in ValuesOf(k)
    BY KeysTold DEF DefaultOf, Values
  <2>2. DefaultOf("wpm") \in ValuesOf("wpm") /\ DefaultOf("farns") \in ValuesOf("farns")
    BY KeysTold, GuiAssumption DEF DefaultOf
  <2> QED BY <2>1, <2>2, KeysTold
<1>6. DOMAIN p = DOMAIN q /\ \A i \in DOMAIN q : p[i] = <<q[i], DefaultOf(q[i])>>
  BY <1>3
<1>7. p \in Seq(PutsOf)
  <2>1. \A i \in DOMAIN q : <<q[i], DefaultOf(q[i])>> \in PutsOf
    BY <1>4, <1>5, PutTyped
  <2>2. p \in [1 .. Len(q) -> PutsOf]
    BY <1>2, <1>3, <2>1
  <2> QED BY <1>2, <2>2
<1>8. ASSUME NEW k \in S, NEW s PROVE Ends(p, k, s, DefaultOf(k))
  <2>1. PICK i \in DOMAIN q : q[i] = k
    BY <1>2
  <2>2. p[i] = <<k, DefaultOf(k)>>
    BY <1>6, <2>1
  <2>3. \A j \in DOMAIN p : j > i => p[j][1] # k
    <3>1. \A j \in DOMAIN q : j > i => j # i
      BY <1>2
    <3>2. \A j \in DOMAIN q : j > i => q[j] # k
      BY <1>2, <2>1, <3>1
    <3> QED BY <1>6, <3>2
  <2> QED BY <1>6, <2>2, <2>3 DEF Ends
<1>9. ASSUME NEW k, k \notin S, NEW s PROVE Ends(p, k, s, s)
  <2>1. \A i \in DOMAIN p : p[i][1] # k
    BY <1>4, <1>6, <1>9
  <2> QED BY <2>1 DEF Ends
<1> QED BY <1>7, <1>8, <1>9 DEF p

----------------------------------------------------------------------------
(* Types                                                                   *)

\* What a load takes is a value, and every put keeps the types of disk.
LEMMA LoadedTyped ==
    ASSUME NEW k \in Plain, file[k] \in Values \cup {Missing}
    PROVE  Loaded(k) \in Values
<1>1. AsRead(file[k]) \in Values
  BY DEF AsRead, Values
<1>2. k \in Indexed => Unselected[k] \in Values
  BY GuiAssumption
<1> QED BY <1>1, <1>2 DEF Loaded, Values

\* resetRemotes puts flags.
LEMMA ResetTyped ==
    ASSUME NEW q \in Seq(PutsOf), ResetRemotes(q)
    PROVE  shown' \in BOOLEAN /\ todo' \in Seq(PutsOf)
<1> DEFINE cleared == Append(q, <<"remote", FALSE>>)
<1>1. "remote" \in Keys /\ ValuesOf("remote") = BOOLEAN
  BY KeysTold
<1>2. cleared \in Seq(PutsOf)
  <2>1. <<"remote", FALSE>> \in PutsOf
    BY <1>1, PutTyped
  <2> QED BY <2>1
<1>3. CASE file["remote"] = TRUE
  <2>1. PICK started \in BOOLEAN :
            SetRemoteConnected(started) /\ todo' = Append(cleared, <<"remote", started>>)
    BY <1>3 DEF ResetRemotes
  <2>2. <<"remote", started>> \in PutsOf
    BY <1>1, PutTyped
  <2> QED BY <1>2, <2>1, <2>2 DEF SetRemoteConnected
<1>4. CASE file["remote"] # TRUE
  BY <1>2, <1>4 DEF ResetRemotes, SetRemoteConnected
<1> QED BY <1>3, <1>4

\* The values of a file, one by one.
LEMMA FileTyped ==
    ASSUME NEW f, Content(f)
    PROVE  /\ \A k \in Plain : f[k] \in Values \cup {Missing}
           /\ f["wpm"] \in Speeds \cup {Missing} /\ f["farns"] \in Speeds \cup {Missing}
           /\ f["sound"] \in BOOLEAN \cup {Missing}
           /\ f["remote"] \in BOOLEAN \cup {Missing}
BY KeysTold DEF Content

\* Every step keeps the types.
LEMMA TypeStep == TypeOK /\ PutInv /\ [Next]_vars => TypeOK'
<1> SUFFICES ASSUME TypeOK, PutInv, [Next]_vars PROVE TypeOK'
    OBVIOUS
<1>0. /\ DefaultSpeed \in Speeds /\ <<>> \in Seq(PutsOf)
      /\ \A k \in Plain, v \in Values : << <<k, v>> >> \in Seq(PutsOf)
      /\ \A v \in Speeds : /\ << <<"wpm", v>> >> \in Seq(PutsOf)
                           /\ << <<"farns", v>> >> \in Seq(PutsOf)
                           /\ << <<"wpm", v>>, <<"farns", v>> >> \in Seq(PutsOf)
                           /\ << <<"farns", v>>, <<"wpm", v>> >> \in Seq(PutsOf)
      /\ \A b \in BOOLEAN : /\ << <<"sound", b>> >> \in Seq(PutsOf)
                            /\ << <<"remote", b>> >> \in Seq(PutsOf)
  <2>1. DefaultSpeed \in Speeds
    BY GuiAssumption
  <2>2. /\ \A k \in Plain, v \in Values : <<k, v>> \in PutsOf
        /\ \A v \in Speeds : <<"wpm", v>> \in PutsOf /\ <<"farns", v>> \in PutsOf
        /\ \A b \in BOOLEAN : <<"sound", b>> \in PutsOf /\ <<"remote", b>> \in PutsOf
    BY KeysTold, PutTyped
  <2> QED BY <2>1, <2>2
<1>1. CASE Start
  <2>1. plain' \in [Plain -> Values]
    <3>1. \A k \in Plain : Loaded(k) \in Values
      BY FileTyped, LoadedTyped DEF TypeOK
    <3> QED BY <1>1, <3>1 DEF Start
  <2>2. wpm' \in Speeds /\ farns' \in Speeds
    BY <1>0, <1>1, FileTyped DEF Start, SavedSpeed, TypeOK
  <2>3. shown' \in BOOLEAN /\ todo' \in Seq(PutsOf)
    <3> DEFINE S == {k \in Defaulted : Loaded(k) # file[k]}
                        \cup {k \in {"wpm", "farns"} : file[k] = Missing}
    <3>1. S \subseteq Plain \cup {"wpm", "farns"}
      BY GuiAssumption
    <3>2. ResetRemotes(Puts(S))
      BY <1>1 DEF Start
    <3> HIDE DEF S
    <3> QED BY <3>1, <3>2, PutsEnd, ResetTyped
  <2>4. tone' \in BOOLEAN /\ up' \in BOOLEAN /\ listed' \in [Indexed -> Lists]
    BY <1>1 DEF Start, ResetSound
  <2> QED BY <1>1, <2>1, <2>2, <2>3, <2>4 DEF Start, disk, TypeOK
<1>2. CASE End
  <2>1. torn' \in BOOLEAN
    BY <1>2 DEF End
  <2> QED BY <1>0, <1>2, <2>1, ContentEmpty DEF End, memory, TypeOK
<1>3. CASE Truncate
  <2>1. Head(todo)[1] \in Keys /\ Head(todo)[2] \in ValuesOf(Head(todo)[1])
    BY <1>3, PutFields DEF Truncate, TypeOK
  <2>2. Content(root') /\ Content(file')
    BY <1>3, <2>1, ContentPut, ContentEmpty DEF Truncate, TypeOK
  <2> QED BY <1>3, <2>2 DEF Truncate, memory, parts, TypeOK
<1>4. CASE Fill
  <2>1. Content(root') /\ Content(file') /\ todo' \in Seq(PutsOf)
    BY <1>4, ContentEmpty DEF Fill, PutInv, TypeOK
  <2> QED BY <1>4, <2>1 DEF Fill, memory, parts, TypeOK
<1>5. ASSUME NEW k \in Plain, NEW v \in Values, SetPlain(k, v) PROVE TypeOK'
  <2>1. plain' \in [Plain -> Values]
    BY <1>5 DEF SetPlain, TypeOK
  <2>2. shown' \in BOOLEAN /\ todo' \in Seq(PutsOf)
    <3>1. CASE Part[k] = "remote"
      <4>1. ResetRemotes(<< <<k, v>> >>)
        BY <1>5, <3>1 DEF SetPlain
      <4> QED BY <1>0, <4>1, ResetTyped
    <3>2. CASE Part[k] # "remote"
      BY <1>0, <1>5, <3>2 DEF SetPlain, TypeOK
    <3> QED BY <3>1, <3>2
  <2>3. tone' \in BOOLEAN
    <3>1. CASE Part[k] = "sound"
      BY <1>5, <3>1 DEF SetPlain, ResetSound
    <3>2. CASE Part[k] # "sound"
      BY <1>5, <3>2 DEF SetPlain, TypeOK
    <3> QED BY <3>1, <3>2
  <2> QED BY <1>5, <2>1, <2>2, <2>3 DEF SetPlain, disk, TypeOK
<1>6. ASSUME NEW v \in Speeds, SetWpm(v) PROVE TypeOK'
  <2>1. farns' \in Speeds /\ todo' \in Seq(PutsOf)
    BY <1>0, <1>6 DEF SetWpm, TypeOK
  <2> QED BY <1>6, <2>1 DEF SetWpm, disk, TypeOK
<1>7. ASSUME NEW v \in Speeds, SetFarnsWorth(v) PROVE TypeOK'
  <2>1. wpm' \in Speeds /\ todo' \in Seq(PutsOf)
    BY <1>0, <1>7 DEF SetFarnsWorth, TypeOK
  <2> QED BY <1>7, <2>1 DEF SetFarnsWorth, disk, TypeOK
<1>8. ASSUME NEW on \in BOOLEAN, SetEnabledSound(on) PROVE TypeOK'
  BY <1>0, <1>8 DEF SetEnabledSound, memory, disk, TypeOK
<1>9. ASSUME NEW on \in BOOLEAN, SetEnabledCwDecoder(on) PROVE TypeOK'
  BY <1>9 DEF SetEnabledCwDecoder, memory, disk, TypeOK
<1>10. CASE ToggleRemote
  <2>1. PICK started \in BOOLEAN :
            shown' = started /\ todo' = << <<"remote", started>> >>
    BY <1>10 DEF ToggleRemote, SetRemoteConnected
  <2> QED BY <1>0, <1>10, <2>1 DEF ToggleRemote, memory, disk, TypeOK
<1>11. CASE RemoteFails
  BY <1>11 DEF RemoteFails, memory, disk, TypeOK
<1>12. CASE UNCHANGED vars
  BY <1>12 DEF vars, memory, disk, parts, TypeOK
<1> QED
  BY <1>1, <1>2, <1>3, <1>4, <1>5, <1>6, <1>7, <1>8, <1>9, <1>10, <1>11, <1>12
  DEF Next

----------------------------------------------------------------------------
(* The puts bring the file to what the program runs with                    *)

\* One put, and two puts of different keys.
LEMMA EndsOne ==
    ASSUME NEW j \in Keys, NEW w \in ValuesOf(j), NEW k, NEW s
    PROVE  Ends(<< <<j, w>> >>, k, s, IF k = j THEN w ELSE s)
BY DEF Ends

LEMMA EndsTwo ==
    ASSUME NEW i, NEW j, i # j, NEW v, NEW w, NEW k, NEW s
    PROVE  Ends(<< <<i, v>>, <<j, w>> >>, k, s,
                IF k = i THEN v ELSE IF k = j THEN w ELSE s)
<1> DEFINE q == << <<i, v>>, <<j, w>> >>
<1>1. DOMAIN q = {1, 2} /\ q[1] = <<i, v>> /\ q[2] = <<j, w>> /\ ~(1 > 2) /\ 2 > 1
  OBVIOUS
<1> HIDE DEF q
<1>2. CASE k = i
  <2>1. 1 \in DOMAIN q /\ q[1] = <<k, v>>
    BY <1>1, <1>2
  <2>2. \A m \in DOMAIN q : m > 1 => q[m][1] # k
    BY <1>1, <1>2
  <2> QED BY <1>2, <2>1, <2>2 DEF Ends, q
<1>3. CASE k = j /\ k # i
  <2>1. 2 \in DOMAIN q /\ q[2] = <<k, w>>
    BY <1>1, <1>3
  <2>2. \A m \in DOMAIN q : ~(m > 2)
    BY <1>1
  <2> QED BY <1>3, <2>1, <2>2 DEF Ends, q
<1>4. CASE k # i /\ k # j
  <2>1. \A m \in DOMAIN q : q[m][1] # k
    BY <1>1, <1>4
  <2> QED BY <1>4, <2>1 DEF Ends, q
<1> QED BY <1>2, <1>3, <1>4

\* The puts of resetRemotes bring the flag to what is shown, and nothing else.
LEMMA ResetEnds ==
    ASSUME NEW q \in Seq(PutsOf), ResetRemotes(q), NEW s
    PROVE  /\ Ends(todo', "remote", s, shown')
           /\ \A k, v : k # "remote" /\ Ends(q, k, s, v) => Ends(todo', k, s, v)
<1> DEFINE cleared == Append(q, <<"remote", FALSE>>)
<1>1. "remote" \in Keys /\ ValuesOf("remote") = BOOLEAN
  BY KeysTold
<1>2. <<"remote", FALSE>> \in PutsOf
  BY <1>1, PutTyped
<1>3. /\ cleared \in Seq(PutsOf) /\ Ends(cleared, "remote", s, FALSE)
      /\ \A k, v : k # "remote" /\ Ends(q, k, s, v) => Ends(cleared, k, s, v)
  <2>1. cleared \in Seq(PutsOf)
    BY <1>2
  <2>2. FALSE \in ValuesOf("remote")
    BY <1>1
  <2>3. Ends(cleared, "remote", s, FALSE)
    BY <1>1, <2>2, EndsAppend
  <2>4. ASSUME NEW k, NEW v, k # "remote", Ends(q, k, s, v)
        PROVE  Ends(cleared, k, s, v)
    BY <1>1, <2>2, <2>4, EndsAppend
  <2> QED BY <2>1, <2>3, <2>4
<1>4. CASE file["remote"] = TRUE
  <2>1. PICK started \in BOOLEAN :
            SetRemoteConnected(started) /\ todo' = Append(cleared, <<"remote", started>>)
    BY <1>4 DEF ResetRemotes
  <2>2. shown' = started
    BY <2>1 DEF SetRemoteConnected
  <2> HIDE DEF cleared
  <2>3. /\ Ends(todo', "remote", s, started)
        /\ \A k, v : k # "remote" /\ Ends(cleared, k, s, v) => Ends(todo', k, s, v)
    BY <1>1, <1>3, <2>1, EndsAppend
  <2> QED BY <1>3, <2>2, <2>3
<1>5. CASE file["remote"] # TRUE
  <2>1. todo' = cleared /\ shown' = FALSE
    BY <1>5 DEF ResetRemotes, SetRemoteConnected
  <2> QED BY <1>3, <2>1
<1> QED BY <1>4, <1>5

\* Between handlers the file agrees with the program.
LEMMA AtRestAgrees ==
    ASSUME TypeOK, PutInv, SettleInv, Idle
    PROVE  ~writing /\ Stored = file /\ \A k \in Keys : Agrees(k, file[k])
<1>1. ~writing /\ Stored = file
  BY DEF Idle, AtRest, PutInv, Stored
<1>2. \A k \in Keys : \A s, v : Ends(todo, k, s, v) => s = v
  BY DEF Idle, AtRest, Ends
<1> QED BY <1>1, <1>2 DEF SettleInv, Idle

\* A handler that starts at rest leaves every key that it does not touch.
LEMMA HandlerSettles ==
    ASSUME ~writing, UNCHANGED disk, TypeOK,
           \A k \in Keys : \E v \in ValuesOf(k) \cup {Missing} :
               Ends(todo', k, file[k], v) /\ Agrees(k, v)'
    PROVE  SettleInv'
<1>1. Stored' = file
  BY DEF disk, Stored
<1> QED BY <1>1 DEF SettleInv

\* What a start loads or puts is what it runs with.
LEMMA StartSettles ==
    ASSUME TypeOK, PutInv, Start
    PROVE  SettleInv'
<1> DEFINE S == {k \in Defaulted : Loaded(k) # file[k]}
                    \cup {k \in {"wpm", "farns"} : file[k] = Missing}
<1>1. /\ S \subseteq Plain \cup {"wpm", "farns"} /\ ResetRemotes(Puts(S))
      /\ \A k \in Plain : k \in S <=> k \in Defaulted /\ Loaded(k) # file[k]
      /\ "wpm" \in S <=> file["wpm"] = Missing
      /\ "farns" \in S <=> file["farns"] = Missing
      /\ "sound" \notin S /\ "remote" \notin S
  <2>1. S \subseteq Plain \cup {"wpm", "farns"} /\ ResetRemotes(Puts(S))
    BY GuiAssumption DEF Start
  <2>2. \A k \in Plain : k \in S <=> k \in Defaulted /\ Loaded(k) # file[k]
    BY KeysTold
  <2>3. /\ "wpm" \in S <=> file["wpm"] = Missing
        /\ "farns" \in S <=> file["farns"] = Missing
    BY KeysTold, GuiAssumption
  <2>4. "sound" \notin S /\ "remote" \notin S
    BY <2>1, KeysTold
  <2> QED BY <2>1, <2>2, <2>3, <2>4
<1>2. ~writing /\ UNCHANGED disk /\ TypeOK
  BY DEF Start, PutInv
<1>3. PICK f : f = file
  OBVIOUS
<1>4. /\ \A k \in Plain : f[k] \in Values \cup {Missing}
      /\ f["wpm"] \in Speeds \cup {Missing} /\ f["farns"] \in Speeds \cup {Missing}
      /\ f["sound"] \in BOOLEAN \cup {Missing}
  BY <1>3, FileTyped DEF TypeOK
<1> HIDE DEF S
<1>5. /\ Puts(S) \in Seq(PutsOf)
      /\ \A k \in S : \A s : Ends(Puts(S), k, s, DefaultOf(k))
      /\ \A k : k \notin S => \A s : Ends(Puts(S), k, s, s)
  BY <1>1, PutsEnd
<1>6. /\ \A s : Ends(todo', "remote", s, shown')
      /\ \A k, s, v : k # "remote" /\ Ends(Puts(S), k, s, v) => Ends(todo', k, s, v)
  BY <1>1, <1>5, ResetEnds
<1>7. ASSUME NEW k \in Plain
      PROVE  \E v \in ValuesOf(k) \cup {Missing} :
                 Ends(todo', k, f[k], v) /\ Agrees(k, v)'
  <2>0. k # "remote" /\ ValuesOf(k) = Values
    BY KeysTold
  <2>1. plain'[k] = Loaded(k)
    BY DEF Start
  <2>2. CASE k \in S
    <3>1. Ends(todo', k, f[k], "default")
      BY <1>5, <1>6, <2>0, <2>2 DEF DefaultOf
    <3>2. plain'[k] = "default"
      <4>1. k \in Defaulted /\ Loaded(k) # file[k]
        BY <1>1, <2>2
      <4>2. k \notin Indexed
        BY <4>1, GuiAssumption
      <4> QED BY <2>1, <4>1, <4>2 DEF Loaded, AsRead
    <3>3. Agrees(k, "default")'
      <4>1. k # "wpm" /\ k # "farns" /\ k # "sound" /\ k # "remote"
        BY KeysTold
      <4> QED BY <3>2, <4>1 DEF Agrees, Current
    <3> QED BY <2>0, <3>1, <3>3 DEF Values
  <2>3. CASE k \notin S
    <3>1. Ends(todo', k, f[k], f[k])
      BY <1>5, <1>6, <2>0, <2>3
    <3>2. Agrees(k, f[k])'
      <4>1. k # "wpm" /\ k # "farns" /\ k # "sound" /\ k # "remote"
        BY KeysTold
      <4>2. Current(k, f[k])'
        <5>1. CASE k \in Defaulted
          BY <1>1, <1>3, <2>1, <2>3, <5>1 DEF Current
        <5>2. CASE k \in Indexed
          BY <1>3, <2>1, <5>2, GuiAssumption DEF Loaded, AsRead, Current
        <5>3. CASE k \notin Defaulted /\ k \notin Indexed
          BY <1>3, <2>1, <5>3 DEF Loaded, AsRead, Current
        <5> QED BY <5>1, <5>2, <5>3
      <4> QED BY <4>1, <4>2 DEF Agrees
    <3> QED BY <1>4, <2>0, <3>1, <3>2
  <2> QED BY <2>2, <2>3
<1>8. \E v \in ValuesOf("wpm") \cup {Missing} :
          Ends(todo', "wpm", f["wpm"], v) /\ Agrees("wpm", v)'
  <2>1. wpm' \in Speeds
    BY <1>3, <1>4, GuiAssumption DEF Start, SavedSpeed
  <2>2. Ends(todo', "wpm", f["wpm"], wpm')
    <3>1. CASE f["wpm"] = Missing
      <4>1. Ends(Puts(S), "wpm", f["wpm"], DefaultSpeed) /\ wpm' = DefaultSpeed
        BY <1>1, <1>3, <1>5, <3>1, KeysTold DEF DefaultOf, Start, SavedSpeed
      <4> QED BY <1>6, <4>1
    <3>2. CASE f["wpm"] # Missing
      <4>1. Ends(Puts(S), "wpm", f["wpm"], f["wpm"]) /\ wpm' = f["wpm"]
        BY <1>1, <1>3, <1>5, <3>2 DEF Start, SavedSpeed
      <4> QED BY <1>6, <4>1
    <3> QED BY <3>1, <3>2
  <2>3. PICK w : w = wpm'
    OBVIOUS
  <2>4. Agrees("wpm", w)'
    BY <2>3, KeysTold DEF Agrees
  <2> QED BY <2>1, <2>2, <2>3, <2>4, KeysTold
<1>9. \E v \in ValuesOf("farns") \cup {Missing} :
          Ends(todo', "farns", f["farns"], v) /\ Agrees("farns", v)'
  <2>1. farns' \in Speeds
    BY <1>3, <1>4, GuiAssumption DEF Start, SavedSpeed
  <2>2. Ends(todo', "farns", f["farns"], farns')
    <3>1. CASE f["farns"] = Missing
      <4>1. Ends(Puts(S), "farns", f["farns"], DefaultSpeed) /\ farns' = DefaultSpeed
        BY <1>1, <1>3, <1>5, <3>1, KeysTold DEF DefaultOf, Start, SavedSpeed
      <4> QED BY <1>6, <4>1
    <3>2. CASE f["farns"] # Missing
      <4>1. Ends(Puts(S), "farns", f["farns"], f["farns"]) /\ farns' = f["farns"]
        BY <1>1, <1>3, <1>5, <3>2 DEF Start, SavedSpeed
      <4> QED BY <1>6, <4>1
    <3> QED BY <3>1, <3>2
  <2>3. PICK w : w = farns'
    OBVIOUS
  <2>4. Agrees("farns", w)'
    BY <2>3, KeysTold DEF Agrees
  <2> QED BY <2>1, <2>2, <2>3, <2>4, KeysTold
<1>10. \E v \in ValuesOf("sound") \cup {Missing} :
           Ends(todo', "sound", f["sound"], v) /\ Agrees("sound", v)'
  <2>1. Ends(todo', "sound", f["sound"], f["sound"])
    BY <1>1, <1>5, <1>6
  <2>2. tone' <=> f["sound"] = TRUE
    BY <1>3 DEF Start, ResetSound
  <2>3. Agrees("sound", f["sound"])'
    BY <2>2, KeysTold DEF Agrees
  <2> QED BY <1>4, <2>1, <2>3, KeysTold
<1>11. \E v \in ValuesOf("remote") \cup {Missing} :
           Ends(todo', "remote", f["remote"], v) /\ Agrees("remote", v)'
  <2>1. shown' \in BOOLEAN
    BY <1>1, <1>5, ResetTyped
  <2>2. PICK w : w = shown'
    OBVIOUS
  <2>3. Agrees("remote", w)'
    BY <2>1, <2>2, KeysTold DEF Agrees
  <2> QED BY <1>6, <2>1, <2>2, <2>3, KeysTold
<1>12. \A k \in Keys : \E v \in ValuesOf(k) \cup {Missing} :
           Ends(todo', k, file[k], v) /\ Agrees(k, v)'
  BY <1>3, <1>7, <1>8, <1>9, <1>10, <1>11 DEF Keys
<1> QED BY <1>2, <1>12, HandlerSettles

\* A setting that a handler neither changes nor puts stays in the file.
LEMMA Untouched ==
    ASSUME TypeOK, PutInv, SettleInv, Idle, UNCHANGED listed, NEW k \in Keys,
           \A s : Ends(todo', k, s, s),
           k \in Plain => plain'[k] = plain[k],
           k = "wpm" => wpm' = wpm, k = "farns" => farns' = farns,
           k = "sound" => tone' = tone, k = "remote" => shown' = shown
    PROVE  \E v \in ValuesOf(k) \cup {Missing} :
               Ends(todo', k, file[k], v) /\ Agrees(k, v)'
<1>1. PICK v : v = file[k]
  OBVIOUS
<1>2. v \in ValuesOf(k) \cup {Missing} /\ Agrees(k, v)
  BY <1>1, AtRestAgrees DEF TypeOK, Content
<1>3. Agrees(k, v)'
  <2>1. CASE k \in Plain
    <3>1. k # "wpm" /\ k # "farns" /\ k # "sound" /\ k # "remote"
      BY <2>1, KeysTold
    <3> QED BY <1>2, <2>1, <3>1 DEF Agrees, Current
  <2>2. CASE k = "wpm"
    BY <1>2, <2>2, KeysTold DEF Agrees
  <2>3. CASE k = "farns"
    BY <1>2, <2>3, KeysTold DEF Agrees
  <2>4. CASE k = "sound"
    BY <1>2, <2>4, KeysTold DEF Agrees
  <2>5. CASE k = "remote"
    BY <1>2, <2>5, KeysTold DEF Agrees
  <2> QED BY <2>1, <2>2, <2>3, <2>4, <2>5 DEF Keys
<1> QED BY <1>1, <1>2, <1>3

\* A plain setting that changes is put, and so is the flag of a client it restarts.
LEMMA PlainSettles ==
    ASSUME TypeOK, PutInv, SettleInv, NEW j \in Plain, NEW w \in Values, SetPlain(j, w)
    PROVE  SettleInv'
<1>1. Idle /\ UNCHANGED disk /\ UNCHANGED <<wpm, farns, listed>> /\ ~writing
  BY AtRestAgrees DEF SetPlain
<1>2. j \in Keys /\ ValuesOf(j) = Values /\ j # "remote" /\ j # "sound"
      /\ j # "wpm" /\ j # "farns"
  BY KeysTold
<1>3. /\ plain'[j] = w
      /\ \A k \in Plain : k # j => plain'[k] = plain[k]
  BY DEF SetPlain, TypeOK
<1>4. tone' = tone
  <2>1. CASE Part[j] = "sound"
    <3>1. tone' = (file["sound"] = TRUE)
      BY <2>1 DEF SetPlain, ResetSound
    <3>2. tone <=> file["sound"] = TRUE
      BY <1>1, AtRestAgrees, KeysTold DEF Agrees
    <3>3. tone \in BOOLEAN /\ (file["sound"] = TRUE) \in BOOLEAN
      BY DEF TypeOK
    <3> QED BY <3>1, <3>2, <3>3
  <2>2. CASE Part[j] # "sound"
    BY <2>2 DEF SetPlain
  <2> QED BY <2>1, <2>2
<1>5. ASSUME NEW s
      PROVE  /\ Ends(todo', j, s, w)
             /\ \A k : k # j /\ k # "remote" => Ends(todo', k, s, s)
  <2>1. /\ << <<j, w>> >> \in Seq(PutsOf) /\ Ends(<< <<j, w>> >>, j, s, w)
        /\ \A k : k # j => Ends(<< <<j, w>> >>, k, s, s)
    BY <1>2, EndsOne, PutTyped
  <2>2. CASE Part[j] = "remote"
    <3>1. ResetRemotes(<< <<j, w>> >>)
      BY <2>2 DEF SetPlain
    <3> QED BY <1>2, <2>1, <3>1, ResetEnds
  <2>3. CASE Part[j] # "remote"
    <3>1. todo' = << <<j, w>> >>
      BY <2>3 DEF SetPlain
    <3> QED BY <2>1, <3>1
  <2> QED BY <2>2, <2>3
<1>6. \E v \in ValuesOf(j) \cup {Missing} : Ends(todo', j, file[j], v) /\ Agrees(j, v)'
  <2>1. Agrees(j, w)'
    BY <1>2, <1>3 DEF Agrees, Current
  <2> QED BY <1>2, <1>5, <2>1
<1>7. \E v \in ValuesOf("remote") \cup {Missing} :
          Ends(todo', "remote", file["remote"], v) /\ Agrees("remote", v)'
  <2>1. CASE Part[j] = "remote"
    <3>1. ResetRemotes(<< <<j, w>> >>) /\ << <<j, w>> >> \in Seq(PutsOf)
      BY <1>2, <2>1, PutTyped DEF SetPlain
    <3>2. shown' \in BOOLEAN /\ Ends(todo', "remote", file["remote"], shown')
      BY <3>1, ResetEnds, ResetTyped
    <3>3. PICK v : v = shown'
      OBVIOUS
    <3>4. Agrees("remote", v)'
      BY <3>2, <3>3, KeysTold DEF Agrees
    <3> QED BY <3>2, <3>3, <3>4, KeysTold
  <2>2. CASE Part[j] # "remote"
    <3>1. shown' = shown /\ todo' = << <<j, w>> >>
      BY <2>2 DEF SetPlain
    <3>2. \A s : Ends(todo', "remote", s, s)
      BY <1>2, <3>1, EndsOne
    <3> QED BY <1>1, <3>1, <3>2, Untouched, KeysTold
  <2> QED BY <2>1, <2>2
<1>8. ASSUME NEW k \in Keys, k # j, k # "remote"
      PROVE  \E v \in ValuesOf(k) \cup {Missing} :
                 Ends(todo', k, file[k], v) /\ Agrees(k, v)'
  BY <1>1, <1>3, <1>4, <1>5, <1>8, Untouched
<1>9. \A k \in Keys : \E v \in ValuesOf(k) \cup {Missing} :
          Ends(todo', k, file[k], v) /\ Agrees(k, v)'
  BY <1>6, <1>7, <1>8
<1> QED BY <1>1, <1>9, HandlerSettles

\* Either speed may be put alone, or both in either order.
LEMMA SpeedEnds ==
    ASSUME NEW v \in Speeds, NEW s
    PROVE  /\ \A k : Ends(<< <<"wpm", v>> >>, k, s, IF k = "wpm" THEN v ELSE s)
           /\ \A k : Ends(<< <<"farns", v>> >>, k, s, IF k = "farns" THEN v ELSE s)
           /\ \A k : /\ Ends(<< <<"wpm", v>>, <<"farns", v>> >>, k, s,
                             IF k \in {"wpm", "farns"} THEN v ELSE s)
                     /\ Ends(<< <<"farns", v>>, <<"wpm", v>> >>, k, s,
                             IF k \in {"wpm", "farns"} THEN v ELSE s)
<1>1. /\ \A k : Ends(<< <<"wpm", v>> >>, k, s, IF k = "wpm" THEN v ELSE s)
      /\ \A k : Ends(<< <<"farns", v>> >>, k, s, IF k = "farns" THEN v ELSE s)
  BY KeysTold, EndsOne
<1>2. ASSUME NEW k
      PROVE  /\ Ends(<< <<"wpm", v>>, <<"farns", v>> >>, k, s,
                     IF k \in {"wpm", "farns"} THEN v ELSE s)
             /\ Ends(<< <<"farns", v>>, <<"wpm", v>> >>, k, s,
                     IF k \in {"wpm", "farns"} THEN v ELSE s)
  <2>1. Ends(<< <<"wpm", v>>, <<"farns", v>> >>, k, s,
             IF k = "wpm" THEN v ELSE IF k = "farns" THEN v ELSE s)
    BY EndsTwo
  <2>2. Ends(<< <<"farns", v>>, <<"wpm", v>> >>, k, s,
             IF k = "farns" THEN v ELSE IF k = "wpm" THEN v ELSE s)
    BY EndsTwo
  <2>3. CASE k \in {"wpm", "farns"}
    BY <2>1, <2>2, <2>3
  <2>4. CASE k \notin {"wpm", "farns"}
    BY <2>1, <2>2, <2>4
  <2> QED BY <2>3, <2>4
<1> QED BY <1>1, <1>2

\* A speed that a handler changes is put, the other one stays.
LEMMA SpeedSettles ==
    ASSUME TypeOK, PutInv, SettleInv, NEW w \in Speeds, SetWpm(w) \/ SetFarnsWorth(w)
    PROVE  SettleInv'
<1>1. /\ Idle /\ ~writing /\ UNCHANGED disk
      /\ UNCHANGED <<plain, listed, tone, shown>>
  BY AtRestAgrees DEF SetWpm, SetFarnsWorth
<1>2. \/ wpm' = w /\ farns' = farns /\ todo' = << <<"wpm", w>> >>
      \/ wpm' = wpm /\ farns' = w /\ todo' = << <<"farns", w>> >>
      \/ /\ wpm' = w /\ farns' = w
         /\ todo' \in {<< <<"wpm", w>>, <<"farns", w>> >>,
                       << <<"farns", w>>, <<"wpm", w>> >>}
  BY DEF SetWpm, SetFarnsWorth
<1>3. ASSUME NEW k \in Keys, k \notin {"wpm", "farns"}
      PROVE  \E v \in ValuesOf(k) \cup {Missing} :
                 Ends(todo', k, file[k], v) /\ Agrees(k, v)'
  <2>1. \A s : Ends(todo', k, s, s)
    BY <1>2, <1>3, SpeedEnds
  <2> QED BY <1>1, <1>3, <2>1, Untouched
<1>4. ASSUME NEW k \in {"wpm", "farns"}
      PROVE  \E v \in ValuesOf(k) \cup {Missing} :
                 Ends(todo', k, file[k], v) /\ Agrees(k, v)'
  <2>1. CASE \A s : Ends(todo', k, s, s) /\ (k = "wpm" => wpm' = wpm)
                                         /\ (k = "farns" => farns' = farns)
    BY <1>1, <2>1, Untouched, KeysTold
  <2>2. CASE /\ \A s : Ends(todo', k, s, w)
             /\ (k = "wpm" => wpm' = w) /\ (k = "farns" => farns' = w)
    <3>1. Agrees(k, w)'
      BY <2>2, KeysTold DEF Agrees
    <3> QED BY <2>2, <3>1, KeysTold
  <2>3. CASE wpm' = w /\ farns' = farns /\ todo' = << <<"wpm", w>> >>
    <3>1. \A s : Ends(todo', k, s, IF k = "wpm" THEN w ELSE s)
      BY <2>3, SpeedEnds
    <3> QED BY <2>1, <2>2, <2>3, <3>1
  <2>4. CASE wpm' = wpm /\ farns' = w /\ todo' = << <<"farns", w>> >>
    <3>1. \A s : Ends(todo', k, s, IF k = "farns" THEN w ELSE s)
      BY <2>4, SpeedEnds
    <3> QED BY <2>1, <2>2, <2>4, <3>1
  <2>5. CASE /\ wpm' = w /\ farns' = w
             /\ todo' \in {<< <<"wpm", w>>, <<"farns", w>> >>,
                           << <<"farns", w>>, <<"wpm", w>> >>}
    <3>1. \A s : Ends(todo', k, s, IF k \in {"wpm", "farns"} THEN w ELSE s)
      BY <2>5, SpeedEnds
    <3> QED BY <2>2, <2>5, <3>1
  <2> QED BY <1>2, <2>3, <2>4, <2>5
<1>5. \A k \in Keys : \E v \in ValuesOf(k) \cup {Missing} :
          Ends(todo', k, file[k], v) /\ Agrees(k, v)'
  BY <1>3, <1>4
<1> QED BY <1>1, <1>5, HandlerSettles

\* A flag that a button changes is put.
LEMMA FlagSettles ==
    ASSUME TypeOK, PutInv, SettleInv, Idle, UNCHANGED <<memory, disk>>,
           NEW j \in {"sound", "remote"}, NEW b \in BOOLEAN,
           todo' = << <<j, b>> >>,
           tone' = IF j = "sound" THEN b ELSE tone,
           shown' = IF j = "remote" THEN b ELSE shown
    PROVE  SettleInv'
<1>1. ~writing /\ UNCHANGED disk /\ j \in Keys /\ ValuesOf(j) = BOOLEAN
  BY AtRestAgrees, KeysTold
<1>2. ASSUME NEW s
      PROVE  Ends(todo', j, s, b) /\ \A k : k # j => Ends(todo', k, s, s)
  BY <1>1, EndsOne
<1>3. Agrees(j, b)'
  BY KeysTold DEF Agrees
<1>4. \A k \in Keys : \E v \in ValuesOf(k) \cup {Missing} :
          Ends(todo', k, file[k], v) /\ Agrees(k, v)'
  <2>1. ASSUME NEW k \in Keys, k # j
        PROVE  \E v \in ValuesOf(k) \cup {Missing} :
                   Ends(todo', k, file[k], v) /\ Agrees(k, v)'
    BY <1>2, <2>1, Untouched DEF memory
  <2> QED BY <1>1, <1>2, <1>3, <2>1
<1> QED BY <1>1, <1>4, HandlerSettles

\* A put in progress changes what is stored but not what it will be.
LEMMA PutSettles ==
    ASSUME TypeOK, PutInv, SettleInv, Truncate \/ Fill
    PROVE  SettleInv'
<1>1. up /\ todo \in Seq(PutsOf) /\ todo # <<>> /\ Content(file)
      /\ UNCHANGED <<up, plain, wpm, farns, listed, tone, shown>>
  BY DEF Truncate, Fill, PutInv, memory, parts, TypeOK
<1>2. Head(todo) \in PutsOf
  BY <1>1
<1> SUFFICES ASSUME NEW k \in Keys
             PROVE  \E v \in ValuesOf(k) \cup {Missing} :
                        Ends(todo', k, Stored'[k], v) /\ Agrees(k, v)'
  BY DEF SettleInv
<1>3. PICK v \in ValuesOf(k) \cup {Missing} : Ends(todo, k, Stored[k], v) /\ Agrees(k, v)
  BY <1>1 DEF SettleInv
<1>4. Agrees(k, v)'
  BY <1>1, <1>3 DEF Agrees, Current
<1>5. CASE Truncate
  <2>1. todo' = todo /\ Stored' = root' /\ Stored = file
    BY <1>5 DEF Truncate, Stored
  <2>2. k # Head(todo)[1] => root'[k] = file[k]
    BY <1>1, <1>2, <1>5, PutFields, ContentPut DEF Truncate
  <2> QED BY <1>1, <1>3, <1>4, <2>1, <2>2, EndsPut
<1>6. CASE Fill
  <2>1. todo' = Tail(todo) /\ Stored' = root /\ Stored = root
    BY <1>6 DEF Fill, Stored
  <2>2. k = Head(todo)[1] => root[k] = Head(todo)[2]
    BY <1>6 DEF Fill, PutInv
  <2> QED BY <1>1, <1>3, <1>4, <2>1, <2>2, EndsTail
<1> QED BY <1>5, <1>6

\* Every step keeps the puts of a handler to what the program runs with.
LEMMA SettleStep == TypeOK /\ PutInv /\ SettleInv /\ [Next]_vars => SettleInv'
<1> SUFFICES ASSUME TypeOK, PutInv, SettleInv, [Next]_vars PROVE SettleInv'
    OBVIOUS
<1>1. CASE Start
  BY <1>1, StartSettles
<1>2. CASE End
  BY <1>2 DEF End, SettleInv
<1>3. CASE Truncate \/ Fill
  BY <1>3, PutSettles
<1>4. ASSUME NEW k \in Plain, NEW v \in Values, SetPlain(k, v) PROVE SettleInv'
  BY <1>4, PlainSettles
<1>5. ASSUME NEW v \in Speeds, SetWpm(v) \/ SetFarnsWorth(v) PROVE SettleInv'
  BY <1>5, SpeedSettles
<1>6. ASSUME NEW on \in BOOLEAN, SetEnabledSound(on) PROVE SettleInv'
  BY <1>6, FlagSettles DEF SetEnabledSound
<1>7. CASE ToggleRemote
  <2>1. PICK started \in BOOLEAN :
            shown' = started /\ todo' = << <<"remote", started>> >>
    BY <1>7 DEF ToggleRemote, SetRemoteConnected
  <2> QED BY <1>7, <2>1, FlagSettles DEF ToggleRemote
<1>8. CASE \/ \E on \in BOOLEAN : SetEnabledCwDecoder(on)
           \/ RemoteFails
           \/ UNCHANGED vars
  <2>1. UNCHANGED <<up, plain, wpm, farns, listed, file, writing, root, todo, tone, shown>>
    BY <1>8 DEF SetEnabledCwDecoder, RemoteFails, vars, memory, disk, parts
  <2> SUFFICES ASSUME up, NEW k \in Keys
               PROVE  \E v \in ValuesOf(k) \cup {Missing} :
                          Ends(todo, k, Stored[k], v) /\ Agrees(k, v)'
    BY <2>1 DEF SettleInv, Stored
  <2>2. PICK v \in ValuesOf(k) \cup {Missing} :
            Ends(todo, k, Stored[k], v) /\ Agrees(k, v)
    BY DEF SettleInv
  <2>3. Agrees(k, v)'
    BY <2>1, <2>2 DEF Agrees, Current
  <2> QED BY <2>2, <2>3
<1> QED BY <1>1, <1>2, <1>3, <1>4, <1>5, <1>6, <1>7, <1>8 DEF Next

----------------------------------------------------------------------------
(* The other parts of the invariant                                        *)

\* Only a put truncates the file, and only while its value is in hand.
LEMMA PutStep == TypeOK /\ PutInv /\ [Next]_vars => PutInv'
<1> SUFFICES ASSUME TypeOK, PutInv, [Next]_vars PROVE PutInv'
    OBVIOUS
<1>1. CASE Start
  BY <1>1 DEF Start, disk, PutInv
<1>2. CASE End
  BY <1>2 DEF End, PutInv
<1>3. CASE Truncate
  <2>1. Head(todo) \in PutsOf /\ up' /\ todo' = todo /\ todo # <<>> /\ file' = Empty
    BY <1>3 DEF Truncate, TypeOK
  <2>2. root'[Head(todo)[1]] = Head(todo)[2]
    BY <1>3, <2>1, PutFields, ContentPut DEF Truncate, TypeOK
  <2> QED BY <2>1, <2>2 DEF PutInv
<1>4. CASE Fill
  BY <1>4 DEF Fill, PutInv
<1>5. ASSUME NEW k \in Plain, NEW v \in Values, SetPlain(k, v) PROVE PutInv'
  <2>1. up' /\ ~writing'
    BY <1>5 DEF SetPlain, Idle, AtRest, disk, PutInv
  <2> QED BY <2>1 DEF PutInv
<1>6. ASSUME NEW v \in Speeds, SetWpm(v) \/ SetFarnsWorth(v) PROVE PutInv'
  <2>1. up' /\ ~writing'
    BY <1>6 DEF SetWpm, SetFarnsWorth, Idle, AtRest, disk, PutInv
  <2> QED BY <2>1 DEF PutInv
<1>7. ASSUME NEW on \in BOOLEAN, SetEnabledSound(on) \/ SetEnabledCwDecoder(on)
      PROVE  PutInv'
  <2>1. up' /\ ~writing'
    BY <1>7 DEF SetEnabledSound, SetEnabledCwDecoder, Idle, AtRest, disk, PutInv
  <2> QED BY <2>1 DEF PutInv
<1>8. CASE ToggleRemote
  <2>1. up' /\ ~writing'
    BY <1>8 DEF ToggleRemote, Idle, AtRest, disk, PutInv
  <2> QED BY <2>1 DEF PutInv
<1>9. CASE RemoteFails \/ UNCHANGED vars
  BY <1>9 DEF RemoteFails, vars, memory, disk, parts, PutInv
<1> QED BY <1>1, <1>2, <1>3, <1>4, <1>5, <1>6, <1>7, <1>8, <1>9 DEF Next

\* Both setters keep the order of the speeds, and an end that finds none of their
\* puts to do leaves it saved.
LEMMA OrderStep ==
    TypeOK /\ PutInv /\ SettleInv /\ OrderInv /\ [Next]_vars => OrderInv'
<1> SUFFICES ASSUME TypeOK, PutInv, SettleInv, OrderInv, [Next]_vars, ~torn'
             PROVE  /\ up' => farns' <= wpm'
                    /\ ~up' => SavedSpeed("farns")' <= SavedSpeed("wpm")'
    BY DEF OrderInv
<1> DEFINE Goal == /\ up' => farns' <= wpm'
                   /\ ~up' => SavedSpeed("farns")' <= SavedSpeed("wpm")'
<1>0. /\ DefaultSpeed \in Speeds /\ Missing \notin Speeds /\ \A v \in Speeds : v \in Nat
      /\ wpm \in Speeds /\ farns \in Speeds
      /\ SavedSpeed("farns") \in Nat /\ SavedSpeed("wpm") \in Nat
  BY GuiAssumption, FileTyped DEF SavedSpeed, TypeOK
<1>1. CASE Start
  BY <1>0, <1>1 DEF Start, OrderInv
<1>2. CASE End
  <2>1. up /\ ~up' /\ file' = file
    BY <1>2 DEF End
  <2>2. CASE ~(SavedSpeed("farns") > SavedSpeed("wpm"))
    BY <1>0, <2>1, <2>2 DEF SavedSpeed
  <2>3. CASE /\ SavedSpeed("farns") > SavedSpeed("wpm")
             /\ ~torn /\ \A i \in DOMAIN todo : todo[i][1] \notin {"wpm", "farns"}
    <3>1. ~writing
      <4>1. writing => SavedSpeed("farns") = DefaultSpeed /\ SavedSpeed("wpm") = DefaultSpeed
        BY ContentEmpty, KeysTold DEF PutInv, SavedSpeed
      <4> QED BY <1>0, <2>3, <4>1
    <3>2. Stored = file
      BY <3>1 DEF Stored
    <3>3. ASSUME NEW k \in {"wpm", "farns"} PROVE Agrees(k, file[k])
      <4>1. PICK v : Ends(todo, k, Stored[k], v) /\ Agrees(k, v)
        BY <2>1, KeysTold DEF SettleInv
      <4>2. \A i \in DOMAIN todo : todo[i] # <<k, v>>
        BY <2>3
      <4>3. v = Stored[k]
        BY <4>1, <4>2 DEF Ends
      <4> QED BY <3>2, <4>1, <4>3
    <3>4. file["wpm"] = wpm /\ file["farns"] = farns
      BY <3>3, KeysTold DEF Agrees
    <3>5. SavedSpeed("wpm") = wpm /\ SavedSpeed("farns") = farns
      BY <1>0, <3>4 DEF SavedSpeed
    <3>6. farns <= wpm
      BY <2>1, <2>3 DEF OrderInv
    <3> QED BY <1>0, <2>3, <3>5, <3>6
  <2> QED BY <1>2, <2>2, <2>3 DEF End
<1>3. ASSUME NEW v \in Speeds, SetWpm(v) PROVE Goal
  <2>1. up /\ up' /\ wpm' = v /\ farns' = IF farns > v THEN v ELSE farns
    BY <1>3 DEF SetWpm, Idle
  <2> QED BY <1>0, <2>1
<1>4. ASSUME NEW v \in Speeds, SetFarnsWorth(v) PROVE Goal
  <2>1. up /\ up' /\ farns' = v /\ wpm' = IF v > wpm THEN v ELSE wpm
    BY <1>4 DEF SetFarnsWorth, Idle
  <2> QED BY <1>0, <2>1
<1>5. CASE UNCHANGED <<up, wpm, farns, torn>> /\ (UNCHANGED file \/ up)
  BY <1>5 DEF OrderInv, SavedSpeed
<1>6. ASSUME \/ Truncate \/ Fill
             \/ \E k \in Plain, v \in Values : SetPlain(k, v)
             \/ \E on \in BOOLEAN : SetEnabledSound(on) \/ SetEnabledCwDecoder(on)
             \/ ToggleRemote \/ RemoteFails \/ UNCHANGED vars
      PROVE  UNCHANGED <<up, wpm, farns, torn>> /\ (UNCHANGED file \/ up)
  BY <1>6 DEF Truncate, Fill, SetPlain, SetEnabledSound, SetEnabledCwDecoder,
              ToggleRemote, RemoteFails, vars, memory, disk
<1> QED BY <1>1, <1>2, <1>3, <1>4, <1>5, <1>6 DEF Next

\* What a part runs with depends on its own settings only.
LEMMA OfOthers ==
    ASSUME TypeOK, NEW k \in Plain, NEW v, NEW part, Part[k] # part
    PROVE  Of(part, [plain EXCEPT ![k] = v]) = Of(part, plain)
<1>1. \A p \in Plain : Part[p] = part => [plain EXCEPT ![k] = v][p] = plain[p]
  BY DEF TypeOK
<1> QED BY <1>1 DEF Of

\* The client is restarted whenever a setting of its part changes.
LEMMA RemoteStep == TypeOK /\ RemoteInv /\ [Next]_vars => RemoteInv'
<1> SUFFICES ASSUME TypeOK, RemoteInv, [Next]_vars PROVE RemoteInv'
    OBVIOUS
<1>1. ASSUME NEW started \in BOOLEAN, SetRemoteConnected(started) PROVE RemoteInv'
  BY <1>1 DEF SetRemoteConnected, RemoteInv
<1>2. ASSUME NEW q, ResetRemotes(q) PROVE RemoteInv'
  BY <1>1, <1>2 DEF ResetRemotes
<1>3. CASE Start
  BY <1>2, <1>3 DEF Start
<1>4. CASE End
  BY <1>4 DEF End, RemoteInv
<1>5. ASSUME NEW k \in Plain, NEW v \in Values, SetPlain(k, v) PROVE RemoteInv'
  <2>1. CASE Part[k] = "remote"
    BY <1>2, <1>5, <2>1 DEF SetPlain
  <2>2. CASE Part[k] # "remote"
    <3>1. UNCHANGED <<remote, shown>> /\ plain' = [plain EXCEPT ![k] = v]
      BY <1>5, <2>2 DEF SetPlain
    <3>2. Of("remote", plain') = Of("remote", plain)
      BY <2>2, <3>1, OfOthers
    <3> QED BY <3>1, <3>2 DEF RemoteInv
  <2> QED BY <2>1, <2>2
<1>6. CASE ToggleRemote
  BY <1>1, <1>6 DEF ToggleRemote
<1>7. CASE RemoteFails
  BY <1>7 DEF RemoteFails, RemoteInv
<1>8. CASE UNCHANGED <<plain, remote, shown>>
  BY <1>8 DEF RemoteInv
<1>9. ASSUME \/ Truncate \/ Fill
             \/ \E v \in Speeds : SetWpm(v) \/ SetFarnsWorth(v)
             \/ \E on \in BOOLEAN : SetEnabledSound(on) \/ SetEnabledCwDecoder(on)
             \/ UNCHANGED vars
      PROVE  UNCHANGED <<plain, remote, shown>>
  BY <1>9 DEF Truncate, Fill, SetWpm, SetFarnsWorth, SetEnabledSound,
              SetEnabledCwDecoder, vars, memory, parts
<1> QED BY <1>3, <1>4, <1>5, <1>6, <1>7, <1>8, <1>9 DEF Next

\* What is selected is in the list, at a start and by the setters, and the lists
\* stay as they are.
LEMMA SelectStep ==
    TypeOK /\ SelectionExists /\ [Next]_vars => SelectionExists'
<1> SUFFICES ASSUME TypeOK, SelectionExists, [Next]_vars, up', NEW k \in Indexed
             PROVE  plain'[k] \in listed'[k] \cup {Unselected[k]}
    BY DEF SelectionExists
<1>0. k \in Plain
  BY GuiAssumption
<1>1. CASE Start
  <2>1. plain'[k] = Loaded(k)
    BY <1>0, <1>1 DEF Start
  <2>2. k \notin Defaulted
    BY GuiAssumption
  <2> QED BY <2>1, <2>2 DEF Loaded
<1>2. ASSUME NEW j \in Plain, NEW v \in Values, SetPlain(j, v)
      PROVE  plain'[k] \in listed'[k] \cup {Unselected[k]}
  <2>1. plain' = [plain EXCEPT ![j] = v] /\ listed' = listed /\ up
    BY <1>2 DEF SetPlain, Idle
  <2>2. CASE j = k
    BY <1>0, <1>2, <2>1, <2>2 DEF SetPlain, TypeOK
  <2>3. CASE j # k
    BY <1>0, <2>1, <2>3 DEF SelectionExists, TypeOK
  <2> QED BY <2>2, <2>3
<1>3. CASE End
  BY <1>3 DEF End
<1>4. CASE UNCHANGED <<up, plain, listed>>
  BY <1>4 DEF SelectionExists
<1>5. ASSUME \/ Truncate \/ Fill
             \/ \E v \in Speeds : SetWpm(v) \/ SetFarnsWorth(v)
             \/ \E on \in BOOLEAN : SetEnabledSound(on) \/ SetEnabledCwDecoder(on)
             \/ ToggleRemote \/ RemoteFails \/ UNCHANGED vars
      PROVE  UNCHANGED <<up, plain, listed>>
  BY <1>5 DEF Truncate, Fill, SetWpm, SetFarnsWorth, SetEnabledSound,
              SetEnabledCwDecoder, ToggleRemote, RemoteFails, vars, memory, parts
<1> QED BY <1>1, <1>2, <1>3, <1>4, <1>5 DEF Next

\* So is the keyer, and the decoder follows the speeds.
LEMMA UsedStep == TypeOK /\ SpeedsAreUsed /\ [Next]_vars => SpeedsAreUsed'
<1> SUFFICES ASSUME TypeOK, SpeedsAreUsed, [Next]_vars PROVE SpeedsAreUsed'
    OBVIOUS
<1>1. ASSUME ResetKeyer PROVE SpeedsAreUsed'
  BY <1>1 DEF ResetKeyer, ResetCwDecoder, SpeedsAreUsed
<1>2. CASE Start
  BY <1>1, <1>2 DEF Start
<1>3. CASE End
  BY <1>3 DEF End, SpeedsAreUsed
<1>4. ASSUME NEW k \in Plain, NEW v \in Values, SetPlain(k, v) PROVE SpeedsAreUsed'
  <2>1. CASE Part[k] = "keyer"
    BY <1>1, <1>4, <2>1 DEF SetPlain
  <2>2. CASE Part[k] # "keyer"
    <3>1. /\ UNCHANGED <<up, wpm, farns, keyer, decoder>>
          /\ plain' = [plain EXCEPT ![k] = v]
      BY <1>4, <2>2 DEF SetPlain
    <3>2. Of("keyer", plain') = Of("keyer", plain)
      BY <2>2, <3>1, OfOthers
    <3> QED BY <3>1, <3>2 DEF SpeedsAreUsed
  <2> QED BY <2>1, <2>2
<1>5. ASSUME NEW v \in Speeds, SetWpm(v) PROVE SpeedsAreUsed'
  BY <1>1, <1>5 DEF SetWpm
<1>6. ASSUME NEW v \in Speeds, SetFarnsWorth(v) PROVE SpeedsAreUsed'
  <2>1. CASE v > wpm
    BY <1>1, <1>6, <2>1 DEF SetFarnsWorth
  <2>2. CASE ~(v > wpm)
    <3>1. UNCHANGED <<up, plain, keyer, wpm>> /\ ResetCwDecoder
      BY <1>6, <2>2 DEF SetFarnsWorth
    <3> QED BY <3>1 DEF ResetCwDecoder, SpeedsAreUsed
  <2> QED BY <2>1, <2>2
<1>7. ASSUME NEW on \in BOOLEAN, SetEnabledCwDecoder(on) PROVE SpeedsAreUsed'
  BY <1>7 DEF SetEnabledCwDecoder, memory, SpeedsAreUsed
<1>8. CASE UNCHANGED <<up, plain, wpm, farns, keyer, decoder>>
  BY <1>8 DEF SpeedsAreUsed
<1>9. ASSUME \/ Truncate \/ Fill
             \/ \E on \in BOOLEAN : SetEnabledSound(on)
             \/ ToggleRemote \/ RemoteFails \/ UNCHANGED vars
      PROVE  UNCHANGED <<up, plain, wpm, farns, keyer, decoder>>
  BY <1>9 DEF Truncate, Fill, SetEnabledSound, ToggleRemote, RemoteFails,
              vars, memory, parts
<1> QED BY <1>2, <1>3, <1>4, <1>5, <1>6, <1>7, <1>8, <1>9 DEF Next

\* What the puts of a handler promise is kept once they are done.
LEMMA SettledIsCurrent ==
    TypeOK /\ PutInv /\ SettleInv => FileIsCurrent /\ ToneFollowsFlag
<1> SUFFICES ASSUME TypeOK, PutInv, SettleInv, Idle
             PROVE  /\ \A k \in Plain : Current(k, file[k])
                    /\ file["wpm"] = wpm /\ file["farns"] = farns
                    /\ tone <=> file["sound"] = TRUE
    BY DEF FileIsCurrent, ToneFollowsFlag
<1>1. \A k \in Keys : Agrees(k, file[k])
  BY AtRestAgrees
<1>2. \A k \in Plain : Current(k, file[k])
  BY <1>1, KeysTold DEF Agrees
<1>3. /\ file["wpm"] = wpm /\ file["farns"] = farns
      /\ tone <=> file["sound"] = TRUE
  BY <1>1, KeysTold DEF Agrees
<1> QED BY <1>2, <1>3

\* The file keeps up with the settings and the settings with the parts, through
\* every setter of GuiConnector and every end of the process; a position saved
\* for a longer list stays in the file until one is selected, and is not used.
THEOREM Invariance == Spec => []Inv
<1>1. Init => Inv
  <2> SUFFICES ASSUME Init PROVE Inv
      OBVIOUS
  <2>1. TypeOK
    <3>1. DefaultSpeed \in Speeds
      BY GuiAssumption
    <3>2. plain \in [Plain -> Values] /\ todo \in Seq(PutsOf)
      BY GuiAssumption DEF Init, Values
    <3>3. listed \in [Indexed -> Lists]
      BY DEF Init, Lists
    <3> QED BY <3>1, <3>2, <3>3, ContentEmpty DEF Init, TypeOK
  <2>2. PutInv /\ SettleInv /\ SpeedsAreUsed /\ RemoteInv /\ SelectionExists
    BY DEF Init, PutInv, SettleInv, SpeedsAreUsed, RemoteInv, SelectionExists
  <2>3. OrderInv
    <3>1. DefaultSpeed \in Nat
      BY GuiAssumption
    <3> QED BY <3>1, ContentEmpty, KeysTold DEF Init, OrderInv, SavedSpeed
  <2> QED BY <2>1, <2>2, <2>3, SettledIsCurrent DEF Inv
<1>2. Inv /\ [Next]_vars => Inv'
  <2> SUFFICES ASSUME Inv, [Next]_vars PROVE Inv'
      OBVIOUS
  <2>1. TypeOK' /\ PutInv' /\ SettleInv'
    BY TypeStep, PutStep, SettleStep DEF Inv
  <2>2. OrderInv' /\ RemoteInv' /\ SpeedsAreUsed' /\ SelectionExists'
    BY OrderStep, RemoteStep, UsedStep, SelectStep DEF Inv
  <2>3. FileIsCurrent' /\ ToneFollowsFlag'
    BY <2>1, SettledIsCurrent, PTL
  <2> QED BY <2>1, <2>2, <2>3 DEF Inv
<1> QED BY <1>1, <1>2, PTL DEF Spec

\* Farnsworth is never above wpm, whichever setter comes first and however often
\* the program restarts, until a process ends between the two puts of the speeds;
\* the next setter of a speed puts them in order again.
THEOREM SpeedsStayInOrder == Spec => []SpeedsInOrder
<1>1. Inv => SpeedsInOrder
  <2> SUFFICES ASSUME Inv, up, farns > wpm PROVE torn
      BY DEF SpeedsInOrder
  <2>1. wpm \in Nat /\ farns \in Nat
    BY GuiAssumption DEF Inv, TypeOK
  <2>2. ~torn => farns <= wpm
    BY DEF Inv, OrderInv
  <2> QED BY <2>1, <2>2
<1> QED BY <1>1, Invariance, PTL

\* The client that runs, the flag in the file and what QML shows go together,
\* except for a client that fails later.
THEOREM RemoteStaysSaved == Spec => []RemoteIsSaved
<1>1. Inv => RemoteIsSaved
  <2> SUFFICES ASSUME Inv PROVE RemoteIsSaved
      OBVIOUS
  <2>1. Idle => (shown <=> file["remote"] = TRUE)
    <3>1. Idle => Agrees("remote", file["remote"])
      BY AtRestAgrees, KeysTold DEF Inv
    <3> QED BY <3>1, KeysTold DEF Agrees
  <2> QED BY <2>1 DEF Inv, RemoteInv, RemoteIsSaved
<1> QED BY <1>1, Invariance, PTL

\* No put loses another key's value; only a process that ends in the middle of
\* one leaves an empty file.
THEOREM PutsLoseNothing == Spec => PutsKeepTheRest
<1> DEFINE Keeps == \/ \E k \in Keys : \A j \in Keys \ {k} : Stored'[j] = Stored[j]
                    \/ up /\ ~up' /\ writing /\ Stored' = Empty
<1>1. Inv /\ [Next]_vars => [Keeps]_vars
  <2> SUFFICES ASSUME Inv, Next PROVE Keeps
      OBVIOUS
  <2>1. ASSUME UNCHANGED disk PROVE Keeps
    <3>1. Stored' = Stored
      BY <2>1 DEF disk, Stored
    <3> QED BY <3>1, KeysTold
  <2>2. CASE End
    BY <2>2, KeysTold DEF End, Stored, Inv, PutInv
  <2>3. CASE Truncate
    <3>1. Head(todo) \in PutsOf /\ Content(file)
      BY <2>3 DEF Truncate, Inv, TypeOK
    <3>2. Stored' = [file EXCEPT ![Head(todo)[1]] = Head(todo)[2]] /\ Stored = file
      BY <2>3 DEF Truncate, Stored
    <3> QED BY <3>1, <3>2, PutFields, ContentPut
  <2>4. CASE Fill
    <3>1. Stored' = Stored
      BY <2>4 DEF Fill, Stored
    <3> QED BY <3>1, KeysTold
  <2>5. ASSUME \/ Start
               \/ \E k \in Plain, v \in Values : SetPlain(k, v)
               \/ \E v \in Speeds : SetWpm(v) \/ SetFarnsWorth(v)
               \/ \E on \in BOOLEAN : SetEnabledSound(on) \/ SetEnabledCwDecoder(on)
               \/ ToggleRemote \/ RemoteFails
        PROVE  UNCHANGED disk
    BY <2>5 DEF Start, SetPlain, SetWpm, SetFarnsWorth, SetEnabledSound,
                SetEnabledCwDecoder, ToggleRemote, RemoteFails
  <2> QED BY <2>1, <2>2, <2>3, <2>4, <2>5 DEF Next
<1> QED BY <1>1, Invariance, PTL DEF Spec, PutsKeepTheRest
=============================================================================
