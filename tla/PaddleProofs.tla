----------------------------- MODULE PaddleProofs -----------------------------
(***************************************************************************)
(* Proofs about the two ways a paddle reaches the keyer: KeyboardListener, *)
(* for every number of paddles and queues of every length, and UsbDevice,  *)
(* as the instance Usb, for every set of devices.                          *)
(***************************************************************************)
EXTENDS KeyboardListener, TLAPS

\* What a signal or an event at the head of a queue is.
LEMMA HeadsTyped ==
    ASSUME TypeOK
    PROVE  /\ posted # <<>> =>
                /\ Head(posted).p \in Paddles /\ Head(posted).pressed \in BOOLEAN
                /\ Tail(posted) \in Seq(Signals) /\ Len(Tail(posted)) <= MaxPosted
           /\ events # <<>> =>
                /\ Head(events).p \in Paddles /\ Head(events).k \in Keys
                /\ Head(events).pressed \in BOOLEAN
                /\ Tail(events) \in Seq(Events)
<1>1. posted # <<>> => Head(posted) \in Signals /\ Tail(posted) \in Seq(Signals)
  BY DEF TypeOK
<1>2. events # <<>> => Head(events) \in Events /\ Tail(events) \in Seq(Events)
  BY DEF TypeOK
<1>3. posted # <<>> => Len(Tail(posted)) <= MaxPosted
  BY KeyboardAssumption DEF TypeOK
<1> QED BY <1>1, <1>2, <1>3 DEF Signals, Events

\* A key event keeps the types of what it changes.
LEMMA KeyEventTyped ==
    ASSUME TypeOK, NEW p \in Paddles, NEW k \in Keys, NEW b \in BOOLEAN,
           KeyEvent(p, k, b)
    PROVE  /\ down' \in [Paddles -> SUBSET Keys]
           /\ events' \in Seq(Events)
           /\ events' # <<>> => enabled
           /\ lost' \in [Paddles -> BOOLEAN]
<1>1. down' \in [Paddles -> SUBSET Keys]
  BY DEF KeyEvent, TypeOK
<1>2. [p |-> p, k |-> k, pressed |-> b] \in Events
  BY DEF Events
<1>3. CASE enabled
  <2>1. lost' = lost /\ events' = Append(events, [p |-> p, k |-> k, pressed |-> b])
    BY <1>3 DEF KeyEvent
  <2>2. events' \in Seq(Events)
    BY <1>2, <2>1 DEF TypeOK
  <2> QED BY <1>1, <1>3, <2>1, <2>2 DEF TypeOK
<1>4. CASE ~enabled
  BY <1>1, <1>4 DEF KeyEvent, TypeOK
<1> QED BY <1>3, <1>4

LEMMA TypeStep == TypeOK /\ [Next]_vars => TypeOK'
<1> SUFFICES ASSUME TypeOK, [Next]_vars PROVE TypeOK'
    OBVIOUS
<1>0. /\ usb \in [Paddles -> BOOLEAN] /\ pressed \in [Paddles -> BOOLEAN]
      /\ keyer \in [Paddles -> BOOLEAN] /\ cut \in [Paddles -> BOOLEAN]
      /\ lost \in [Paddles -> BOOLEAN] /\ untyped \in [Paddles -> BOOLEAN]
  BY DEF TypeOK
<1>1. ASSUME NEW p \in Paddles, OnPaddle(p) PROVE TypeOK'
  <2>1. usb' \in [Paddles -> BOOLEAN] /\ usb'[p] \in BOOLEAN
    BY <1>0, <1>1 DEF OnPaddle
  <2>2. keyer' \in [Paddles -> BOOLEAN] /\ untyped' \in [Paddles -> BOOLEAN]
    BY <1>0, <1>1, <2>1 DEF OnPaddle, TypeOK
  <2>3. cut' \in [Paddles -> BOOLEAN]
    <3>1. (cut[p] /\ keyer'[p]) \in BOOLEAN
      OBVIOUS
    <3> QED BY <1>0, <1>1, <3>1 DEF OnPaddle
  <2>4. posted' \in Seq(Signals) /\ Len(posted') <= MaxPosted
    <3>1. [p |-> p, pressed |-> usb'[p]] \in Signals
      BY <2>1 DEF Signals
    <3> QED BY <1>1, <3>1, KeyboardAssumption DEF OnPaddle, TypeOK
  <2> QED BY <1>1, <2>1, <2>2, <2>3, <2>4 DEF OnPaddle, TypeOK
<1>2. ASSUME NEW p \in Paddles, AdapterKey(p) PROVE TypeOK'
  <2>1. PICK b \in BOOLEAN : KeyEvent(p, "ctrl", b)
    BY <1>2 DEF AdapterKey
  <2>2. "ctrl" \in Keys
    BY DEF Keys
  <2> QED BY <1>2, <2>1, <2>2, KeyEventTyped DEF AdapterKey, output, TypeOK
<1>3. CASE SetKeyboard
  BY <1>3 DEF SetKeyboard, hook, TypeOK
<1>4. CASE PressKey
  <2>1. /\ Head(posted).p \in Paddles /\ Head(posted).pressed \in BOOLEAN
        /\ posted' \in Seq(Signals) /\ Len(posted') <= MaxPosted
    BY <1>4, HeadsTyped DEF PressKey
  <2>2. "typed" \in Keys /\ KeyEvent(Head(posted).p, "typed", Head(posted).pressed)
    BY <1>4 DEF Keys, PressKey
  <2> QED BY <1>4, <2>1, <2>2, KeyEventTyped DEF PressKey, TypeOK
<1>5. CASE HandleEvent
  <2> DEFINE e == Head(events)
  <2>1. /\ e.p \in Paddles /\ e.k \in Keys /\ e.pressed \in BOOLEAN
        /\ events' \in Seq(Events) /\ enabled
    BY <1>5, HeadsTyped DEF HandleEvent, TypeOK
  <2>2. SetPressed(e)
    BY <1>5 DEF HandleEvent
  <2> HIDE DEF e
  <2>3. key' \in [Paddles -> Keys \cup {NoKey}]
    BY <2>1, <2>2 DEF SetPressed, TypeOK
  <2>4. /\ pressed' \in [Paddles -> BOOLEAN] /\ keyer' \in [Paddles -> BOOLEAN]
        /\ lost' \in [Paddles -> BOOLEAN]
    BY <1>0, <2>1, <2>2 DEF SetPressed
  <2>5. cut' \in [Paddles -> BOOLEAN]
    <3>1. (cut[e.p] /\ e.pressed) \in BOOLEAN
      OBVIOUS
    <3> QED BY <1>0, <2>2, <3>1 DEF SetPressed
  <2> QED BY <1>5, <2>1, <2>3, <2>4, <2>5 DEF HandleEvent, output, TypeOK
<1>6. CASE Enable
  <2>1. pressed' \in [Paddles -> BOOLEAN] /\ lost' \in [Paddles -> BOOLEAN]
    BY <1>6 DEF Enable, Released, Hook
  <2> QED BY <1>6, <2>1 DEF Enable, Hook, output, TypeOK
<1>7. CASE Disable
  <2>1. cut' \in [Paddles -> BOOLEAN] /\ lost' \in [Paddles -> BOOLEAN]
    BY <1>7 DEF Disable, Unhook
  <2>2. events' = <<>> /\ events' \in Seq(Events)
    BY <1>7 DEF Disable, Unhook
  <2> QED BY <1>7, <2>1, <2>2 DEF Disable, output, TypeOK
<1>8. CASE UNCHANGED vars
  BY <1>8 DEF vars, output, hook, TypeOK
<1> QED BY <1>1, <1>2, <1>3, <1>4, <1>5, <1>6, <1>7, <1>8 DEF Next

\* The keyer keeps a paddle only for somebody who holds it.
LEMMA ReleaseStep ==
    TypeOK /\ KeyIsReleased /\ OffInv /\ [Next]_vars => KeyIsReleased' /\ OffInv'
<1> SUFFICES ASSUME TypeOK, KeyIsReleased, OffInv, [Next]_vars, NEW q \in Paddles,
                    keyer'[q]
             PROVE  /\ usb'[q] \/ pressed'[q] \/ cut'[q]
                    /\ ~enabled' => usb'[q] \/ cut'[q]
    BY DEF KeyIsReleased, OffInv
<1> DEFINE Goal == /\ usb'[q] \/ pressed'[q] \/ cut'[q]
                   /\ ~enabled' => usb'[q] \/ cut'[q]
<1>0. /\ usb \in [Paddles -> BOOLEAN] /\ pressed \in [Paddles -> BOOLEAN]
      /\ keyer \in [Paddles -> BOOLEAN] /\ cut \in [Paddles -> BOOLEAN]
  BY DEF TypeOK
<1>1. keyer[q] => (usb[q] \/ pressed[q] \/ cut[q]) /\ (~enabled => usb[q] \/ cut[q])
  BY DEF KeyIsReleased, OffInv
<1>2. ASSUME NEW p \in Paddles, OnPaddle(p) PROVE Goal
  <2>1. CASE q = p
    <3>1. keyer'[q] = usb'[q]
      BY <1>0, <1>2, <2>1 DEF OnPaddle
    <3> QED BY <3>1
  <2>2. CASE q # p
    <3>1. /\ keyer'[q] = keyer[q] /\ usb'[q] = usb[q] /\ cut'[q] = cut[q]
          /\ pressed' = pressed /\ enabled' = enabled
      BY <1>0, <1>2, <2>2 DEF OnPaddle
    <3> QED BY <1>1, <3>1
  <2> QED BY <2>1, <2>2
<1>3. CASE HandleEvent
  <2> DEFINE e == Head(events)
  <2>1. e.p \in Paddles /\ e.pressed \in BOOLEAN /\ enabled /\ enabled' /\ usb' = usb
    BY <1>3, HeadsTyped DEF HandleEvent, TypeOK
  <2>2. SetPressed(e)
    BY <1>3 DEF HandleEvent
  <2> HIDE DEF e
  <2>3. CASE UNCHANGED <<pressed, keyer, cut>>
    BY <1>1, <2>1, <2>3
  <2>4. CASE q # e.p /\ key[e.p] \in {NoKey, e.k}
    <3>1. keyer'[q] = keyer[q] /\ pressed'[q] = pressed[q] /\ cut'[q] = cut[q]
      BY <1>0, <2>2, <2>4 DEF SetPressed
    <3> QED BY <1>1, <2>1, <3>1
  <2>5. CASE q = e.p /\ key[e.p] \in {NoKey, e.k}
    <3>1. pressed'[q] = e.pressed
      BY <1>0, <2>1, <2>2, <2>5 DEF SetPressed
    <3>2. CASE pressed[q] = e.pressed
      BY <1>1, <2>1, <2>2, <2>5, <3>1, <3>2 DEF SetPressed
    <3>3. CASE pressed[q] # e.pressed
      <4>1. keyer'[q] = e.pressed
        BY <1>0, <2>1, <2>2, <2>5, <3>3 DEF SetPressed
      <4> QED BY <2>1, <3>1, <4>1
    <3> QED BY <3>2, <3>3
  <2> QED BY <2>2, <2>3, <2>4, <2>5 DEF SetPressed
<1>4. CASE Enable
  <2>1. ~enabled /\ enabled' /\ UNCHANGED <<usb, cut, keyer>>
    BY <1>4 DEF Enable
  <2> QED BY <1>1, <2>1
<1>5. CASE Disable
  <2>1. cut'[q] = (cut[q] \/ pressed[q])
    BY <1>5 DEF Disable
  <2>2. UNCHANGED <<usb, pressed, keyer>>
    BY <1>5 DEF Disable
  <2> QED BY <1>0, <1>1, <2>1, <2>2
<1>6. CASE UNCHANGED <<usb, pressed, keyer, cut, enabled>>
  BY <1>1, <1>6
<1> QED
  BY <1>2, <1>3, <1>4, <1>5, <1>6 DEF Next, AdapterKey, SetKeyboard, PressKey,
     vars, hook

----------------------------------------------------------------------------
(* Keyboard's queue                                                        *)

LEMMA EndsAfterAppend ==
    ASSUME NEW q \in Seq(Signals), NEW s \in Signals, NEW p, NEW now, NEW v
    PROVE  /\ s.p = p /\ s.pressed = v => Ends(Append(q, s), p, now, v)
           /\ s.p # p /\ Ends(q, p, now, v) => Ends(Append(q, s), p, now, v)
<1> DEFINE r == Append(q, s)
           n == Len(q)
<1>1. /\ Len(r) = n + 1 /\ n \in Nat
      /\ \A i \in 1 .. n : r[i] = q[i]
      /\ r[n + 1] = s
  OBVIOUS
<1> HIDE DEF r, n
<1>2. ASSUME s.p = p, s.pressed = v PROVE Ends(r, p, now, v)
  <2>1. ASSUME NEW i \in 1 .. Len(r), \A j \in i + 1 .. Len(r) : r[j].p # p
        PROVE  i = n + 1
    BY <1>1, <1>2, <2>1
  <2>2. ~(\A i \in 1 .. Len(r) : r[i].p # p)
    BY <1>1, <1>2
  <2> QED BY <1>1, <1>2, <2>1, <2>2 DEF Ends
<1>3. ASSUME s.p # p, Ends(q, p, now, v) PROVE Ends(r, p, now, v)
  <2>1. ASSUME NEW i \in 1 .. Len(r), r[i].p = p,
               \A j \in i + 1 .. Len(r) : r[j].p # p
        PROVE  r[i].pressed = v
    <3>1. i \in 1 .. n /\ q[i].p = p
      BY <1>1, <1>3, <2>1
    <3>2. \A j \in i + 1 .. n : q[j].p # p
      BY <1>1, <2>1, <3>1
    <3> QED BY <1>1, <1>3, <3>1, <3>2 DEF Ends, n
  <2>2. ASSUME \A i \in 1 .. Len(r) : r[i].p # p PROVE now <=> v
    <3>1. \A i \in 1 .. n : q[i].p # p
      BY <1>1, <2>2
    <3> QED BY <1>3, <3>1 DEF Ends, n
  <2> QED BY <2>1, <2>2 DEF Ends
<1> QED BY <1>2, <1>3 DEF r

LEMMA EndsAfterTail ==
    ASSUME NEW q \in Seq(Signals), q # <<>>, NEW p, NEW now, NEW v, NEW then,
           Ends(q, p, now, v),
           IF Head(q).p = p THEN then <=> Head(q).pressed ELSE then <=> now
    PROVE  Ends(Tail(q), p, then, v)
<1> DEFINE r == Tail(q)
           n == Len(r)
<1>1. /\ Len(q) = n + 1 /\ n \in Nat
      /\ \A i \in 1 .. n : r[i] = q[i + 1]
      /\ Head(q) = q[1]
  OBVIOUS
<1> HIDE DEF r, n
<1>2. ASSUME NEW i \in 1 .. n, r[i].p = p, \A j \in i + 1 .. n : r[j].p # p
      PROVE  r[i].pressed = v
  <2>1. i + 1 \in 1 .. Len(q) /\ q[i + 1].p = p
    BY <1>1, <1>2
  <2>2. ASSUME NEW j \in (i + 1) + 1 .. Len(q) PROVE q[j].p # p
    <3>1. j - 1 \in i + 1 .. n /\ j - 1 \in 1 .. n /\ (j - 1) + 1 = j
      BY <1>1
    <3> QED BY <1>1, <1>2, <3>1
  <2> QED BY <1>1, <1>2, <2>1, <2>2 DEF Ends
<1>3. ASSUME \A i \in 1 .. n : r[i].p # p PROVE then <=> v
  <2>1. ASSUME NEW j \in 2 .. Len(q) PROVE q[j].p # p
    <3>1. j - 1 \in 1 .. n /\ (j - 1) + 1 = j
      BY <1>1
    <3> QED BY <1>1, <1>3, <3>1
  <2>2. CASE Head(q).p = p
    <3>1. q[1].pressed = v
      BY <1>1, <2>1, <2>2 DEF Ends
    <3> QED BY <1>1, <2>2, <3>1
  <2>3. CASE Head(q).p # p
    <3>1. \A i \in 1 .. Len(q) : q[i].p # p
      BY <1>1, <2>1, <2>3
    <3> QED BY <2>3, <3>1 DEF Ends
  <2> QED BY <2>2, <2>3
<1> QED BY <1>2, <1>3 DEF Ends, r, n

\* A step that leaves a paddle, its signals and its typed key alone.
LEMMA TypedStep == TypeOK /\ TypedInv /\ [Next]_vars => TypedInv'
<1> SUFFICES ASSUME TypeOK, TypedInv, [Next]_vars, NEW q \in Paddles, ~untyped'[q]
             PROVE  Ends(posted', q, "typed" \in down'[q], usb'[q])
    BY DEF TypedInv
<1> DEFINE Goal == Ends(posted', q, "typed" \in down'[q], usb'[q])
<1>0. /\ usb \in [Paddles -> BOOLEAN] /\ untyped \in [Paddles -> BOOLEAN]
      /\ posted \in Seq(Signals) /\ down \in [Paddles -> SUBSET Keys]
  BY DEF TypeOK
<1>1. ~untyped[q] => Ends(posted, q, "typed" \in down[q], usb[q])
  BY DEF TypedInv
<1>2. ASSUME NEW p \in Paddles, OnPaddle(p) PROVE Goal
  <2> DEFINE s == [p |-> p, pressed |-> usb'[p]]
  <2>1. /\ usb'[p] \in BOOLEAN /\ down' = down
        /\ untyped'[p] = ~keyboard
        /\ q # p => untyped'[q] = untyped[q] /\ usb'[q] = usb[q]
        /\ posted' = IF keyboard THEN Append(posted, s) ELSE posted
    BY <1>0, <1>2 DEF OnPaddle
  <2>2. s \in Signals /\ s.p = p /\ s.pressed = usb'[p]
    BY <2>1 DEF Signals
  <2> HIDE DEF s
  <2>3. CASE q = p
    <3>1. posted' = Append(posted, s)
      BY <2>1, <2>3
    <3> QED BY <1>0, <2>2, <2>3, <3>1, EndsAfterAppend
  <2>4. CASE q # p
    <3>1. Ends(posted, q, "typed" \in down'[q], usb'[q])
      BY <1>1, <2>1, <2>4
    <3> QED BY <1>0, <2>1, <2>2, <2>4, <3>1, EndsAfterAppend
  <2> QED BY <2>3, <2>4
<1>3. CASE PressKey
  <2> DEFINE s == Head(posted)
  <2>1. /\ s.p \in Paddles /\ s.pressed \in BOOLEAN
        /\ posted # <<>> /\ posted' = Tail(posted)
        /\ down' = [down EXCEPT ![s.p] = IF s.pressed THEN @ \cup {"typed"}
                                                      ELSE @ \ {"typed"}]
        /\ UNCHANGED <<usb, untyped>>
    BY <1>3, HeadsTyped DEF PressKey, KeyEvent
  <2>2. IF s.p = q THEN "typed" \in down'[q] <=> s.pressed
                   ELSE "typed" \in down'[q] <=> "typed" \in down[q]
    <3> HIDE DEF s
    <3> QED BY <1>0, <2>1
  <2>3. Ends(posted, q, "typed" \in down[q], usb[q])
    BY <1>1, <2>1
  <2>4. Ends(Tail(posted), q, "typed" \in down'[q], usb[q])
    BY <1>0, <2>1, <2>2, <2>3, EndsAfterTail
  <2> QED BY <2>1, <2>4
<1>4. ASSUME NEW p \in Paddles, AdapterKey(p) PROVE Goal
  <2>1. /\ UNCHANGED <<usb, posted, untyped>>
        /\ "typed" \in down'[q] <=> "typed" \in down[q]
    BY <1>0, <1>4 DEF AdapterKey, KeyEvent, output
  <2> QED BY <1>1, <2>1 DEF Ends
<1>5. CASE UNCHANGED <<usb, posted, untyped, down>>
  BY <1>1, <1>5
<1> QED
  BY <1>2, <1>3, <1>4, <1>5 DEF Next, SetKeyboard, HandleEvent, Enable, Disable,
     vars, output

----------------------------------------------------------------------------
(* The listener's queue                                                    *)

\* The effect of a key event: the key, and the queue if the listener is hooked.
LEMMA KeyEventMoves ==
    ASSUME TypeOK, NEW p \in Paddles, NEW k \in Keys, NEW b \in BOOLEAN,
           KeyEvent(p, k, b), NEW q \in Paddles, NEW l \in Keys
    PROVE  /\ q = p /\ l = k => (l \in down'[q] <=> b)
           /\ ~(q = p /\ l = k) => (l \in down'[q] <=> l \in down[q])
<1>1. down' = [down EXCEPT ![p] = IF b THEN down[p] \cup {k} ELSE down[p] \ {k}]
  BY DEF KeyEvent
<1> QED BY <1>1 DEF TypeOK

LEMMA KeyEventQueues ==
    ASSUME NEW p, NEW k, NEW b, KeyEvent(p, k, b)
    PROVE  /\ enabled => /\ events' = Append(events, [p |-> p, k |-> k, pressed |-> b])
                         /\ lost' = lost
           /\ ~enabled => events' = events
BY DEF KeyEvent

LEMMA EventStep == TypeOK /\ EventInv /\ [Next]_vars => EventInv'
<1> SUFFICES ASSUME TypeOK, EventInv, [Next]_vars,
                    NEW q \in Paddles, NEW l \in Keys, NEW i \in 1 .. Len(events'),
                    Of(events'[i], q, l),
                    \A j \in i + 1 .. Len(events') : ~Of(events'[j], q, l)
             PROVE  events'[i].pressed <=> l \in down'[q]
    BY DEF EventInv
<1> DEFINE Goal == events'[i].pressed <=> l \in down'[q]
<1>0. events \in Seq(Events) /\ (events # <<>> => enabled)
  BY DEF TypeOK
<1>1. ASSUME NEW n \in 1 .. Len(events), Of(events[n], q, l),
             \A j \in n + 1 .. Len(events) : ~Of(events[j], q, l)
      PROVE  events[n].pressed <=> l \in down[q]
  BY <1>1 DEF EventInv
<1>2. ASSUME NEW p \in Paddles, NEW k \in Keys, NEW b \in BOOLEAN, KeyEvent(p, k, b)
      PROVE  Goal
  <2>1. /\ q = p /\ l = k => (l \in down'[q] <=> b)
        /\ ~(q = p /\ l = k) => (l \in down'[q] <=> l \in down[q])
    BY <1>2, KeyEventMoves
  <2>2. CASE enabled
    <3> DEFINE e == [p |-> p, k |-> k, pressed |-> b]
    <3>1. events' = Append(events, e)
      BY <1>2, <2>2, KeyEventQueues
    <3>2. e.p = p /\ e.k = k /\ e.pressed = b
      OBVIOUS
    <3> HIDE DEF e
    <3>3. /\ Len(events') = Len(events) + 1 /\ Len(events) \in Nat
          /\ \A j \in 1 .. Len(events) : events'[j] = events[j]
          /\ events'[Len(events) + 1] = e
      BY <1>0, <3>1
    <3>4. CASE i = Len(events) + 1
      BY <2>1, <3>2, <3>3, <3>4 DEF Of
    <3>5. CASE i \in 1 .. Len(events)
      <4>1. ~Of(e, q, l)
        BY <3>3, <3>5
      <4>2. Of(events[i], q, l) /\ \A j \in i + 1 .. Len(events) : ~Of(events[j], q, l)
        BY <3>3, <3>5
      <4>3. events[i].pressed <=> l \in down[q]
        BY <1>1, <3>5, <4>2
      <4>4. ~(q = p /\ l = k)
        BY <3>2, <4>1 DEF Of
      <4> QED BY <2>1, <3>3, <3>5, <4>3, <4>4
    <3> QED BY <3>3, <3>4, <3>5
  <2>3. CASE ~enabled
    <3>1. events' = <<>>
      BY <1>0, <1>2, <2>3, KeyEventQueues
    <3> QED BY <3>1
  <2> QED BY <2>2, <2>3
<1>3. ASSUME NEW p \in Paddles, AdapterKey(p) PROVE Goal
  BY <1>2, <1>3 DEF AdapterKey, Keys
<1>4. CASE PressKey
  <2>1. Head(posted).p \in Paddles /\ Head(posted).pressed \in BOOLEAN
    BY <1>4, HeadsTyped DEF PressKey
  <2> QED BY <1>2, <1>4, <2>1 DEF PressKey, Keys
<1>5. CASE HandleEvent
  <2>1. /\ events # <<>> /\ events' = Tail(events) /\ down' = down
    BY <1>5 DEF HandleEvent
  <2>2. /\ Len(events) = Len(events') + 1 /\ Len(events') \in Nat
        /\ \A j \in 1 .. Len(events') : events'[j] = events[j + 1]
    BY <1>0, <2>1
  <2>3. i + 1 \in 1 .. Len(events) /\ Of(events[i + 1], q, l)
    BY <2>2
  <2>4. ASSUME NEW j \in (i + 1) + 1 .. Len(events) PROVE ~Of(events[j], q, l)
    <3>1. j - 1 \in i + 1 .. Len(events') /\ j - 1 \in 1 .. Len(events') /\ (j - 1) + 1 = j
      BY <2>2
    <3> QED BY <2>2, <3>1
  <2>5. events[i + 1].pressed <=> l \in down[q]
    BY <1>1, <2>3, <2>4
  <2> QED BY <2>1, <2>2, <2>5
<1>6. CASE events' = <<>>
  BY <1>6
<1>7. CASE UNCHANGED <<events, down>>
  BY <1>1, <1>7
<1> QED
  BY <1>3, <1>4, <1>5, <1>6, <1>7 DEF Next, OnPaddle, SetKeyboard, Enable, Hook,
     Disable, Unhook, vars

LEMMA FirstStep == TypeOK /\ FirstInv /\ [Next]_vars => FirstInv'
<1> SUFFICES ASSUME TypeOK, FirstInv, [Next]_vars, NEW q \in Paddles, key'[q] = NoKey
             PROVE  ~pressed'[q]
    BY DEF FirstInv
<1>1. CASE HandleEvent
  <2> DEFINE e == Head(events)
  <2>1. e.p \in Paddles /\ e.k \in Keys /\ SetPressed(e)
    BY <1>1, HeadsTyped DEF HandleEvent
  <2> HIDE DEF e
  <2>2. e.k # NoKey
    BY <2>1 DEF Keys, NoKey
  <2>3. key'[q] = key[q] /\ pressed'[q] = pressed[q]
    BY <2>1, <2>2 DEF SetPressed, TypeOK
  <2> QED BY <2>3 DEF FirstInv
<1>2. CASE Enable
  BY <1>2 DEF Enable, Released
<1>3. CASE UNCHANGED <<key, pressed>>
  BY <1>3 DEF FirstInv
<1> QED
  BY <1>1, <1>2, <1>3 DEF Next, OnPaddle, AdapterKey, SetKeyboard, PressKey, Disable,
     hook, vars

\* The listener has it right as soon as nothing it listens to is on its way.
LEMMA HeardStep == TypeOK /\ EventInv /\ HeardInv /\ [Next]_vars => HeardInv'
<1> SUFFICES ASSUME TypeOK, EventInv, HeardInv, [Next]_vars,
                    NEW q \in Paddles, NEW l \in Keys, enabled', ~lost'[q],
                    key'[q] \in {NoKey, l},
                    \A i \in 1 .. Len(events') : ~Of(events'[i], q, l)
             PROVE  pressed'[q] <=> l \in down'[q]
    BY DEF HeardInv
<1> DEFINE Goal == pressed'[q] <=> l \in down'[q]
<1>0. /\ pressed \in [Paddles -> BOOLEAN] /\ lost \in [Paddles -> BOOLEAN]
      /\ key \in [Paddles -> Keys \cup {NoKey}] /\ events \in Seq(Events)
      /\ NoKey \notin Keys
  BY DEF TypeOK, Keys, NoKey
<1>1. ASSUME enabled, ~lost[q], key[q] \in {NoKey, l},
             \A i \in 1 .. Len(events) : ~Of(events[i], q, l)
      PROVE  pressed[q] <=> l \in down[q]
  BY <1>1 DEF HeardInv
<1>2. ASSUME NEW p \in Paddles, NEW k \in Keys, NEW b \in BOOLEAN, KeyEvent(p, k, b),
             UNCHANGED <<enabled, pressed, key>>
      PROVE  Goal
  <2> DEFINE e == [p |-> p, k |-> k, pressed |-> b]
  <2>1. events' = Append(events, e) /\ lost' = lost
    BY <1>2, KeyEventQueues
  <2>2. e.p = p /\ e.k = k
    OBVIOUS
  <2> HIDE DEF e
  <2>3. /\ Len(events') = Len(events) + 1 /\ Len(events) \in Nat
        /\ \A j \in 1 .. Len(events) : events'[j] = events[j]
        /\ events'[Len(events) + 1] = e
    BY <1>0, <2>1
  <2>4. ~Of(e, q, l)
    BY <2>3
  <2>5. l \in down'[q] <=> l \in down[q]
    BY <1>2, <2>2, <2>4, KeyEventMoves DEF Of
  <2>6. \A i \in 1 .. Len(events) : ~Of(events[i], q, l)
    BY <2>3
  <2> QED BY <1>1, <1>2, <2>1, <2>5, <2>6
<1>3. ASSUME NEW p \in Paddles, AdapterKey(p) PROVE Goal
  BY <1>2, <1>3 DEF AdapterKey, Keys
<1>4. CASE PressKey
  <2>1. Head(posted).p \in Paddles /\ Head(posted).pressed \in BOOLEAN
    BY <1>4, HeadsTyped DEF PressKey
  <2> QED BY <1>2, <1>4, <2>1 DEF PressKey, Keys
<1>5. CASE HandleEvent
  <2> DEFINE e == Head(events)
  <2>1. /\ events # <<>> /\ events' = Tail(events)
        /\ UNCHANGED <<down, enabled>> /\ SetPressed(e)
        /\ e.p \in Paddles /\ e.k \in Keys /\ e.pressed \in BOOLEAN
    BY <1>5, HeadsTyped DEF HandleEvent
  <2>2. /\ Len(events) = Len(events') + 1 /\ Len(events') \in Nat
        /\ \A j \in 1 .. Len(events') : events'[j] = events[j + 1]
        /\ e = events[1]
    BY <1>0, <2>1
  <2> HIDE DEF e
  <2>3. ASSUME NEW j \in 2 .. Len(events) PROVE ~Of(events[j], q, l)
    <3>1. j - 1 \in 1 .. Len(events') /\ (j - 1) + 1 = j
      BY <2>2
    <3> QED BY <2>2, <3>1
  <2>4. CASE Of(e, q, l) /\ key[q] \in {NoKey, l}
    <3>1. pressed'[q] = e.pressed
      BY <1>0, <2>1, <2>4 DEF SetPressed, Of
    <3>2. e.pressed <=> l \in down[q]
      BY <2>2, <2>3, <2>4 DEF EventInv
    <3> QED BY <2>1, <3>1, <3>2
  <2>5. CASE ~(Of(e, q, l) /\ key[q] \in {NoKey, l})
    <3>1. key'[q] = key[q] /\ pressed'[q] = pressed[q] /\ lost'[q] = lost[q]
      <4>1. CASE e.p # q
        BY <1>0, <2>1, <4>1 DEF SetPressed
      <4>2. CASE e.p = q /\ key[q] \notin {NoKey, e.k}
        BY <2>1, <4>2 DEF SetPressed
      <4>3. CASE e.p = q /\ key[q] \in {NoKey, e.k}
        <5>1. key'[q] = e.k
          BY <1>0, <2>1, <4>3 DEF SetPressed
        <5>2. e.k = l
          BY <1>0, <2>1, <5>1
        <5> QED BY <2>5, <4>3, <5>2 DEF Of
      <4> QED BY <4>1, <4>2, <4>3
    <3>2. key[q] \in {NoKey, l} /\ ~Of(e, q, l)
      BY <2>5, <3>1
    <3>3. \A i \in 1 .. Len(events) : ~Of(events[i], q, l)
      BY <2>2, <2>3, <3>2
    <3> QED BY <1>1, <2>1, <3>1, <3>2, <3>3
  <2> QED BY <2>4, <2>5
<1>6. CASE Enable
  <2>1. lost'[q] = (down[q] # {}) /\ pressed'[q] = FALSE /\ down' = down
    BY <1>6 DEF Enable, Hook, Released
  <2> QED BY <2>1
<1>7. CASE Disable
  BY <1>7 DEF Disable
<1>8. CASE UNCHANGED <<enabled, pressed, key, lost, events, down>>
  BY <1>1, <1>8
<1> QED
  BY <1>3, <1>4, <1>5, <1>6, <1>7, <1>8 DEF Next, OnPaddle, SetKeyboard, hook, vars

----------------------------------------------------------------------------
\* The module's invariant: among others, the keyer is not left with a paddle
\* down by two keys, repeats, or a USB paddle and a key at once.
THEOREM Invariance == Spec => []Inv
<1>1. Init => Inv
  <2> SUFFICES ASSUME Init PROVE Inv
      OBVIOUS
  <2>1. posted \in Seq(Signals) /\ events \in Seq(Events)
    BY DEF Init
  <2>2. /\ usb \in [Paddles -> BOOLEAN] /\ pressed \in [Paddles -> BOOLEAN]
        /\ keyer \in [Paddles -> BOOLEAN] /\ cut \in [Paddles -> BOOLEAN]
        /\ lost \in [Paddles -> BOOLEAN] /\ untyped \in [Paddles -> BOOLEAN]
    BY DEF Init, Released
  <2>3. TypeOK
    <3>1. /\ down \in [Paddles -> SUBSET Keys]
          /\ key \in [Paddles -> Keys \cup {NoKey}]
          /\ keyboard \in BOOLEAN /\ enabled \in BOOLEAN
          /\ events = <<>>
      BY DEF Init
    <3>2. Len(posted) <= MaxPosted
      BY KeyboardAssumption DEF Init
    <3> QED BY <2>1, <2>2, <3>1, <3>2 DEF TypeOK
  <2>4. KeyIsReleased /\ OffInv /\ FirstInv
    BY DEF Init, Released, KeyIsReleased, OffInv, FirstInv
  <2>5. TypedInv
    BY DEF Init, Released, TypedInv, Ends
  <2>6. EventInv /\ HeardInv
    BY DEF Init, EventInv, HeardInv
  <2> QED BY <2>3, <2>4, <2>5, <2>6 DEF Inv
<1>2. Inv /\ [Next]_vars => Inv'
  BY TypeStep, ReleaseStep, TypedStep, EventStep, FirstStep, HeardStep DEF Inv
<1> QED BY <1>1, <1>2, PTL DEF Spec

\* A paddle is down just when the key that is heard is, once every event is
\* handled.
THEOREM ListenerInStep == Spec => []KeyInStep
<1>1. Inv => KeyInStep
  <2> SUFFICES ASSUME Inv, NEW p \in Paddles, enabled, events = <<>>, ~lost[p]
               PROVE  /\ pressed[p] = (key[p] \in down[p])
                      /\ key[p] = NoKey => down[p] = {}
      BY DEF KeyInStep
  <2>1. /\ key[p] \in Keys \cup {NoKey} /\ pressed[p] \in BOOLEAN
        /\ down[p] \subseteq Keys /\ NoKey \notin Keys
    BY DEF Inv, TypeOK, Keys, NoKey
  <2>2. ASSUME NEW k \in Keys, key[p] \in {NoKey, k}
        PROVE  pressed[p] <=> k \in down[p]
    <3>1. \A i \in 1 .. Len(events) : ~Of(events[i], p, k)
      OBVIOUS
    <3> QED BY <2>2, <3>1 DEF Inv, HeardInv
  <2>3. CASE key[p] = NoKey
    <3>1. ~pressed[p]
      BY <2>3 DEF Inv, FirstInv
    <3>2. \A k \in Keys : k \notin down[p]
      BY <2>2, <2>3, <3>1
    <3> QED BY <2>1, <2>3, <3>1, <3>2
  <2>4. CASE key[p] \in Keys
    BY <2>1, <2>2, <2>4
  <2> QED BY <2>1, <2>3, <2>4
<1> QED BY <1>1, Invariance, PTL

\* The key that Keyboard types is down in the system just when the paddle is,
\* once every signal is handled.
THEOREM TypedKeyInStep == Spec => []TypedKeyComesUp
<1>1. Inv => TypedKeyComesUp
  <2> SUFFICES ASSUME Inv, NEW p \in Paddles, posted = <<>>, ~untyped[p]
               PROVE  "typed" \in down[p] <=> usb[p]
      BY DEF TypedKeyComesUp
  <2>1. Ends(posted, p, "typed" \in down[p], usb[p])
    BY DEF Inv, TypedInv
  <2>2. \A i \in 1 .. Len(posted) : posted[i].p # p
    OBVIOUS
  <2> QED BY <2>1, <2>2 DEF Ends
<1> QED BY <1>1, Invariance, PTL

----------------------------------------------------------------------------
(* The USB device.  Its variables are those of UsbDevice; the output it    *)
(* switches is the Keyboard above.                                         *)

CONSTANTS Devices, InBytes, Short, None

VARIABLES process, config, detected, known, connected, task, claimed, transfer,
          junk, reported, plugged, contact, news, missed, faulted, listener, shown,
          zadig, gui

Usb == INSTANCE UsbDevice

\* Every variable keeps its type along every step.
LEMMA UsbTypeStep == Usb!TypeOK /\ [Usb!Next]_Usb!vars => Usb!TypeOK'
<1> SUFFICES ASSUME Usb!TypeOK, [Usb!Next]_Usb!vars PROVE Usb!TypeOK'
    OBVIOUS
<1> USE DEF Usb!TypeOK
<1>1. CASE Usb!InitConnector \/ Usb!Connect
  <2>1. Usb!ConnectDevice
    BY <1>1 DEF Usb!InitConnector, Usb!Connect
  <2>2. /\ {config', detected', claimed'} \subseteq Devices \cup {None}
        /\ UNCHANGED <<known, connected, claimed, transfer, junk, reported,
                       Usb!paddle, faulted, keyboard>>
    BY <2>1 DEF Usb!ConnectDevice, Usb!SendDeviceUpdated
  <2>3. listener' \in BOOLEAN /\ shown' \in BOOLEAN /\ zadig' \in BOOLEAN
    <3>1. CASE detected' = None
      BY <2>1, <3>1 DEF Usb!ConnectDevice, Usb!SendDeviceUpdated
    <3>2. CASE detected' # None
      BY <2>1, <3>2 DEF Usb!ConnectDevice, Usb!SendDeviceUpdated, Usb!screen
    <3> QED BY <3>1, <3>2
  <2>4. /\ process' \in {"on", "dead"}
        /\ UNCHANGED task \/ task' = "born"
        /\ UNCHANGED gui \/ gui' = "sleep"
    BY <2>1 DEF Usb!ConnectDevice, Usb!SendDeviceUpdated
  <2> QED BY <2>2, <2>3, <2>4 DEF Usb!paddle
<1>2. CASE Usb!Slept
  BY <1>2 DEF Usb!Slept, Usb!SendDeviceUpdated, Usb!thread, Usb!paddle, Usb!switch
<1>3. CASE Usb!Disconnect
  BY <1>3 DEF Usb!Disconnect, Usb!SendDeviceUpdated, Usb!device, Usb!thread,
     Usb!paddle, Usb!switch, Usb!screen
<1>4. CASE Usb!Join
  BY <1>4 DEF Usb!Join, Usb!SendDeviceUpdated, Usb!device, Usb!paddle
<1>5. CASE Usb!Detect
  BY <1>5 DEF Usb!Detect, Usb!ManageDevices, Usb!thread, Usb!paddle, Usb!switch,
     Usb!screen
<1>6. CASE Usb!Detected
  <2>1. detected' \in Devices \cup {None}
    BY <1>6 DEF Usb!Detected, Usb!ManageDevices
  <2> QED BY <1>6, <2>1 DEF Usb!Detected, Usb!SendDeviceUpdated, Usb!thread,
     Usb!paddle, Usb!switch
<1>7. CASE Usb!SetEnabledKeyboard
  BY <1>7 DEF Usb!SetEnabledKeyboard, Usb!device, Usb!thread, Usb!paddle,
     Usb!screen
<1>8. CASE Usb!Quit
  <2>1. Usb!Up \in [Usb!Paddles -> BOOLEAN]
    BY DEF Usb!Up
  <2> QED BY <1>8, <2>1 DEF Usb!Quit, Usb!Reset
<1>9. CASE Usb!TaskClaims \/ Usb!TaskFails \/ Usb!CbInterruptFails \/ Usb!TaskEnds
  BY <1>9 DEF Usb!TaskClaims, Usb!TaskFails, Usb!CbInterruptFails, Usb!TaskEnds,
     Usb!device, Usb!thread,
     Usb!paddle, Usb!switch, Usb!screen
<1>10. CASE Usb!CbInterrupt
  <2>1. reported' \in [Usb!Paddles -> BOOLEAN]
    BY <1>10 DEF Usb!CbInterrupt, Usb!SendDitDah, Usb!Decode
  <2> QED BY <1>10, <2>1 DEF Usb!CbInterrupt, Usb!device, Usb!thread,
     Usb!switch, Usb!screen
<1>11. ASSUME NEW d \in Devices, Usb!Plug(d) PROVE Usb!TypeOK'
  BY <1>11 DEF Usb!Plug, Usb!device, Usb!thread, Usb!switch, Usb!screen
<1>12. ASSUME NEW p \in Usb!Paddles, Usb!Squeeze(p) PROVE Usb!TypeOK'
  BY <1>12 DEF Usb!Squeeze, Usb!Listening, Usb!device, Usb!thread, Usb!switch,
     Usb!screen
<1>13. CASE UNCHANGED Usb!vars
  BY <1>13 DEF Usb!vars, Usb!device, Usb!thread, Usb!paddle, Usb!switch,
     Usb!screen
<1> QED
  BY <1>1, <1>2, <1>3, <1>4, <1>5, <1>6, <1>7, <1>8, <1>9, <1>10, <1>11, <1>12,
     <1>13 DEF Usb!Next, Usb!GuiStep, Usb!TaskStep

\* What the GUI is about decides what may be started or joined.
LEMMA UsbThreadStep ==
    Usb!TypeOK /\ Usb!Reconnects /\ Usb!ThreadInv /\ Usb!StoredInv /\ [Usb!Next]_Usb!vars
        => Usb!Reconnects' /\ Usb!ThreadInv'
<1> SUFFICES ASSUME Usb!TypeOK, Usb!Reconnects, Usb!ThreadInv, Usb!StoredInv,
   [Usb!Next]_Usb!vars
             PROVE  Usb!Reconnects' /\ Usb!ThreadInv'
    OBVIOUS
<1> USE DEF Usb!TypeOK, Usb!Reconnects, Usb!ThreadInv
<1>1. CASE Usb!InitConnector \/ Usb!Connect
  BY <1>1 DEF Usb!InitConnector, Usb!Connect, Usb!ConnectDevice,
     Usb!SendDeviceUpdated
<1>2. CASE Usb!Slept
  BY <1>2 DEF Usb!Slept, Usb!thread
<1>3. CASE Usb!Disconnect
  BY <1>3 DEF Usb!Disconnect, Usb!thread
<1>4. CASE Usb!Join
  BY <1>4 DEF Usb!Join
<1>5. CASE Usb!Detect \/ Usb!Detected
  BY <1>5 DEF Usb!Detect, Usb!Detected, Usb!thread
<1>6. CASE Usb!SetEnabledKeyboard
  BY <1>6 DEF Usb!SetEnabledKeyboard, Usb!thread
<1>7. CASE Usb!Quit
  BY <1>7 DEF Usb!Quit, Usb!Reset
<1>8. CASE Usb!TaskClaims \/ Usb!TaskFails
  BY <1>8 DEF Usb!TaskClaims, Usb!TaskFails
<1>9. CASE Usb!CbInterrupt \/ Usb!CbInterruptFails \/ Usb!TaskEnds
  BY <1>9 DEF Usb!CbInterrupt, Usb!CbInterruptFails, Usb!TaskEnds, Usb!thread
<1>10. ASSUME (\E d \in Devices : Usb!Plug(d)) \/ (\E p \in Usb!Paddles : Usb!Squeeze(p))
       PROVE  Usb!Reconnects' /\ Usb!ThreadInv'
  BY <1>10 DEF Usb!Plug, Usb!Squeeze, Usb!thread
<1>11. CASE UNCHANGED Usb!vars
  BY <1>11 DEF Usb!vars, Usb!thread
<1> QED
  BY <1>1, <1>2, <1>3, <1>4, <1>5, <1>6, <1>7, <1>8, <1>9, <1>10, <1>11
     DEF Usb!Next, Usb!GuiStep, Usb!TaskStep

\* The file keeps the device as long as anything of it is left, and listener and
\* output are never both switched on.
LEMMA UsbStoredStep ==
    ASSUME None \notin Devices, Usb!TypeOK, Usb!StoredInv, [Usb!Next]_Usb!vars
    PROVE  Usb!StoredInv'
<1> USE DEF Usb!TypeOK, Usb!StoredInv
<1>1. CASE Usb!InitConnector \/ Usb!Connect
  BY <1>1 DEF Usb!InitConnector, Usb!Connect, Usb!ConnectDevice,
     Usb!SendDeviceUpdated
<1>2. CASE Usb!Slept
  BY <1>2 DEF Usb!Slept, Usb!SendDeviceUpdated, Usb!switch
<1>3. CASE Usb!Disconnect
  BY <1>3 DEF Usb!Disconnect, Usb!SendDeviceUpdated, Usb!device, Usb!switch,
     Usb!screen
<1>4. CASE Usb!Join
  BY <1>4 DEF Usb!Join, Usb!SendDeviceUpdated, Usb!device
<1>5. CASE Usb!Detect
  BY <1>5 DEF Usb!Detect, Usb!switch, Usb!screen
<1>6. CASE Usb!Detected
  BY <1>6 DEF Usb!Detected, Usb!SendDeviceUpdated, Usb!switch
<1>7. CASE Usb!SetEnabledKeyboard
  BY <1>7 DEF Usb!SetEnabledKeyboard, Usb!device, Usb!screen
<1>8. CASE Usb!Quit
  BY <1>8 DEF Usb!Quit, Usb!Reset
<1>9. CASE Usb!TaskClaims \/ Usb!TaskFails
  BY <1>9 DEF Usb!TaskClaims, Usb!TaskFails, Usb!device, Usb!switch, Usb!screen
<1>10. CASE Usb!CbInterrupt \/ Usb!CbInterruptFails \/ Usb!TaskEnds
  BY <1>10 DEF Usb!CbInterrupt, Usb!CbInterruptFails, Usb!TaskEnds, Usb!device,
     Usb!switch, Usb!screen
<1>11. ASSUME (\E d \in Devices : Usb!Plug(d)) \/ (\E p \in Usb!Paddles : Usb!Squeeze(p))
       PROVE  Usb!StoredInv'
  BY <1>11 DEF Usb!Plug, Usb!Squeeze, Usb!device, Usb!switch, Usb!screen
<1>12. CASE UNCHANGED Usb!vars
  BY <1>12 DEF Usb!vars, Usb!device, Usb!switch, Usb!screen
<1> QED
  BY <1>1, <1>2, <1>3, <1>4, <1>5, <1>6, <1>7, <1>8, <1>9, <1>10, <1>11, <1>12
     DEF Usb!Next, Usb!GuiStep, Usb!TaskStep

\* The module's invariant: no death but of a faulted claim, no typed key heard,
\* and the device that is connected in the file.
THEOREM UsbInvariance == None \notin Devices => (Usb!Spec => []Usb!Inv)
<1> SUFFICES ASSUME None \notin Devices  PROVE Usb!Spec => []Usb!Inv
  OBVIOUS
<1>1. Usb!Init => Usb!Inv
  <2> SUFFICES ASSUME Usb!Init PROVE Usb!Inv
      OBVIOUS
  <2>1. Usb!Up \in [Usb!Paddles -> BOOLEAN]
    BY DEF Usb!Up
  <2>2. Usb!TypeOK
    BY <2>1 DEF Usb!Init, Usb!TypeOK
  <2> QED
    BY <2>2 DEF Usb!Init, Usb!Inv, Usb!Reconnects, Usb!NoEcho,
       Usb!DeviceIsStored, Usb!ThreadInv, Usb!StoredInv
<1>2. Usb!TypeOK /\ Usb!StoredInv => Usb!NoEcho /\ Usb!DeviceIsStored
  BY DEF Usb!TypeOK, Usb!StoredInv, Usb!NoEcho, Usb!DeviceIsStored
<1>3. Usb!Inv /\ [Usb!Next]_Usb!vars => Usb!Inv'
  <2> SUFFICES ASSUME Usb!Inv, [Usb!Next]_Usb!vars PROVE Usb!Inv'
      OBVIOUS
  <2>1. Usb!TypeOK' /\ Usb!Reconnects' /\ Usb!ThreadInv' /\ Usb!StoredInv'
    BY UsbTypeStep, UsbThreadStep, UsbStoredStep DEF Usb!Inv
  <2>2. Usb!NoEcho' /\ Usb!DeviceIsStored'
    BY <2>1 DEF Usb!TypeOK, Usb!StoredInv, Usb!NoEcho, Usb!DeviceIsStored
  <2> QED BY <2>1, <2>2 DEF Usb!Inv
<1> QED BY <1>1, <1>3, PTL DEF Usb!Spec

\* What cbInterrupt makes of the report of a paddle are its contacts, whichever
\* bytes they are in.
LEMMA DecodeReport ==
    ASSUME contact \in [Usb!Paddles -> BOOLEAN], junk = {}
    PROVE  Usb!Decode(Usb!Buffer) = contact
<1> DEFINE b == Usb!Buffer
           both == b.b0 = 3 \/ (b.b2 > 0 /\ b.b3 > 0)
           left == b.b0 = 1 \/ b.b2 > 0
           right == b.b0 = 2 \/ b.b3 > 0
<1>1. (both \/ left) = contact["dit"] /\ (both \/ (right /\ ~left)) = contact["dah"]
  <2>1. CASE claimed \in InBytes
    <3>1. b = [b0 |-> 0, b2 |-> Usb!Bit(contact["dit"]), b3 |-> Usb!Bit(contact["dah"])]
      BY <2>1 DEF Usb!Buffer
    <3> QED BY <3>1 DEF Usb!Bit, Usb!Paddles
  <2>2. CASE claimed \notin InBytes
    <3>1. b = [b0 |-> Usb!Bit(contact["dit"]) + 2 * Usb!Bit(contact["dah"]),
               b2 |-> 0, b3 |-> 0]
      BY <2>2 DEF Usb!Buffer, Usb!Bit
    <3> QED BY <3>1 DEF Usb!Bit, Usb!Paddles
  <2> QED BY <2>1, <2>2
<1>2. Usb!Decode(b) = [p \in Usb!Paddles |-> both \/ IF p = "dit" THEN left ELSE right /\ ~left]
  BY DEF Usb!Decode
<1> HIDE DEF both, left, right
<1>3. \A p \in Usb!Paddles : (both \/ IF p = "dit" THEN left ELSE right /\ ~left) = contact[p]
  BY <1>1 DEF Usb!Paddles
<1> QED BY <1>2, <1>3

\* The keyer has a wrong idea of a paddle only while a report is on its way, after
\* a change that no transfer was there to take, or with bytes that it did not bring.
THEOREM PaddleIsInStep == Usb!Spec => []Usb!PaddleInStep
<1> DEFINE InStep == /\ news => task = "loop"
                     /\ ~news /\ ~missed => reported = contact
<1>1. Usb!Init => InStep
  BY DEF Usb!Init
<1>2. Usb!TypeOK /\ InStep /\ [Usb!Next]_Usb!vars => InStep'
  <2> SUFFICES ASSUME Usb!TypeOK, InStep, [Usb!Next]_Usb!vars PROVE InStep'
      OBVIOUS
  <2>1. CASE Usb!CbInterrupt
    BY <2>1, DecodeReport DEF Usb!CbInterrupt, Usb!SendDitDah, Usb!TypeOK
  <2>2. CASE Usb!Quit
    BY <2>2 DEF Usb!Quit, Usb!Reset, Usb!TypeOK
  <2>3. CASE Usb!TaskEnds \/ Usb!CbInterruptFails
    BY <2>3 DEF Usb!TaskEnds, Usb!CbInterruptFails, Usb!TypeOK
  <2>4. CASE Usb!TaskClaims
    BY <2>4 DEF Usb!TaskClaims, Usb!TypeOK
  <2>5. ASSUME NEW d \in Devices, Usb!Plug(d) PROVE InStep'
    BY <2>5 DEF Usb!Plug, Usb!TypeOK
  <2>6. ASSUME NEW p \in Usb!Paddles, Usb!Squeeze(p) PROVE InStep'
    <3>1. task' = task /\ news' = Usb!Listening /\ missed' = (missed \/ ~Usb!Listening)
      BY <2>6 DEF Usb!Squeeze, Usb!thread
    <3>2. CASE Usb!Listening
      BY <3>1, <3>2 DEF Usb!Listening
    <3>3. CASE ~Usb!Listening
      BY <3>1, <3>3
    <3> QED BY <3>2, <3>3
  <2>7. CASE UNCHANGED <<reported, Usb!paddle>> /\ (task = "loop" => UNCHANGED task)
    BY <2>7 DEF Usb!paddle
  <2> QED
    BY <2>1, <2>2, <2>3, <2>4, <2>5, <2>6, <2>7 DEF Usb!Next, Usb!GuiStep,
       Usb!TaskStep, Usb!InitConnector,
       Usb!Connect, Usb!ConnectDevice, Usb!Slept, Usb!Disconnect, Usb!Join,
          Usb!Detect, Usb!Detected,
       Usb!SetEnabledKeyboard, Usb!TaskFails, Usb!thread,
          Usb!vars
<1>3. InStep => Usb!PaddleInStep
  BY DEF Usb!PaddleInStep
<1>4. Usb!Init => Usb!TypeOK
  <2>1. Usb!Up \in [Usb!Paddles -> BOOLEAN]
    BY DEF Usb!Up
  <2> QED BY <2>1 DEF Usb!Init, Usb!TypeOK
<1> QED BY UsbTypeStep, <1>1, <1>2, <1>3, <1>4, PTL DEF Usb!Spec
=============================================================================
