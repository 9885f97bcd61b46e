--------------------------- MODULE KeyboardListener ---------------------------
(***************************************************************************)
(* src/App/keyboard: KeyboardListener, which turns four keys of the system *)
(* into paddles, and Keyboard, which types two of those keys when the USB  *)
(* paddle is pressed.  Each paddle has two keys: the one that Keyboard     *)
(* types ("typed") and the Ctrl key of a Vail or VBand adapter ("ctrl").   *)
(* X11's record extension and the Windows hook deliver the key events of   *)
(* the system in order, repeats included.  The key codes are those of      *)
(* Windows: on Linux Keyboard types ; and = but the listener hears [ and ] *)
(* so that it does not hear what Keyboard types.                           *)
(***************************************************************************)
EXTENDS Naturals, Sequences, SequencesExt

CONSTANTS
    Paddles,
    MaxPosted, MaxEvents   \* bounds: queued signals and key events in flight

ASSUME KeyboardAssumption == MaxPosted \in Nat /\ MaxEvents \in Nat

Keys == {"typed", "ctrl"}
NoKey == "none"

VARIABLES
    usb,               \* what the USB device last told: the keyer and Keyboard
    keyboard, posted,  \* Keyboard's m_enabled, its queued signals
    down,              \* the keys that are down in the system
    events,            \* key events on their way to the listener
    enabled, pressed, key,   \* m_enabled, s_..Pressed, m_.._key
    keyer,             \* Keyer's m_ditPressed, m_dahPressed
    cut,               \* history: the listener was switched while it had it pressed
    lost,              \* history: the listener does not know of a key event
    untyped            \* history: the paddle's last edge was not given to Keyboard

output == <<keyboard, posted, untyped>>
hook   == <<enabled, pressed, key, cut, lost>>
vars   == <<usb, output, down, events, hook, keyer>>

Released == [p \in Paddles |-> FALSE]
Signals == [p : Paddles, pressed : BOOLEAN]
Events == [p : Paddles, k : Keys, pressed : BOOLEAN]

\* Every variable has its type.
TypeOK ==
    /\ {usb, pressed, keyer, cut, lost, untyped} \subseteq [Paddles -> BOOLEAN]
    /\ keyboard \in BOOLEAN /\ enabled \in BOOLEAN
    /\ posted \in Seq(Signals) /\ Len(posted) <= MaxPosted
    /\ events \in Seq(Events) /\ (events # <<>> => enabled)
    /\ down \in [Paddles -> SUBSET Keys]
    /\ key \in [Paddles -> Keys \cup {NoKey}]

Init ==
    /\ usb = Released /\ keyer = Released
    /\ keyboard = FALSE /\ posted = <<>> /\ untyped = Released
    /\ down = [p \in Paddles |-> {}] /\ events = <<>>
    /\ enabled = FALSE /\ pressed = Released
    /\ key = [p \in Paddles |-> NoKey]
    /\ cut = Released /\ lost = Released

----------------------------------------------------------------------------
(* Keyboard                                                                *)

\* The USB device's thread: Keyer::onDit or onDah, then Keyboard's, which emits
\* a queued signal.
OnPaddle(p) ==
    /\ Len(posted) < MaxPosted
    /\ usb' = [usb EXCEPT ![p] = ~@]
    /\ keyer' = [keyer EXCEPT ![p] = usb'[p]]
    /\ cut' = [cut EXCEPT ![p] = @ /\ keyer'[p]]
    /\ posted' = IF keyboard THEN Append(posted, [p |-> p, pressed |-> usb'[p]])
                             ELSE posted
    /\ untyped' = [untyped EXCEPT ![p] = ~keyboard]
    /\ UNCHANGED <<keyboard, down, events, enabled, pressed, key, lost>>

\* Keyboard::setEnabled: what is posted is still typed, what is down stays down.
SetKeyboard ==
    /\ keyboard' = ~keyboard
    /\ UNCHANGED <<usb, posted, untyped, down, events, hook, keyer>>

\* The system tells the listener, if it is hooked.
KeyEvent(p, k, isPressed) ==
    /\ down' = [down EXCEPT ![p] = IF isPressed THEN @ \cup {k} ELSE @ \ {k}]
    /\ IF enabled
         THEN events' = Append(events, [p |-> p, k |-> k, pressed |-> isPressed])
              /\ UNCHANGED lost
         ELSE UNCHANGED events /\ lost' = [lost EXCEPT ![p] = TRUE]

\* Variant: only presses are typed.
PressKeyNoRelease ==
    /\ posted # <<>> /\ Len(events) < MaxEvents
    /\ posted' = Tail(posted)
    /\ KeyEvent(Head(posted).p, "typed", TRUE)
    /\ UNCHANGED <<usb, keyboard, untyped, enabled, pressed, key, cut, keyer>>

\* pressDit or pressDah on the event loop types the key.
PressKey ==
    /\ posted # <<>> /\ Len(events) < MaxEvents
    /\ posted' = Tail(posted)
    /\ KeyEvent(Head(posted).p, "typed", Head(posted).pressed)
    /\ UNCHANGED <<usb, keyboard, untyped, enabled, pressed, key, cut, keyer>>

\* The adapter's key goes down, repeats, or comes up.
AdapterKey(p) ==
    /\ Len(events) < MaxEvents
    /\ \E isPressed \in BOOLEAN :
         /\ isPressed \/ "ctrl" \in down[p]
         /\ KeyEvent(p, "ctrl", isPressed)
    /\ UNCHANGED <<usb, output, enabled, pressed, key, cut, keyer>>

----------------------------------------------------------------------------
(* KeyboardListener                                                        *)

\* Variant: events of the other key are heard as well.
SetPressedAnyKey(e) ==
    /\ key' = [key EXCEPT ![e.p] = IF @ = NoKey THEN e.k ELSE @]
    /\ pressed' = [pressed EXCEPT ![e.p] = e.pressed]
    /\ lost' = [lost EXCEPT ![e.p] = FALSE]
    /\ IF pressed[e.p] = e.pressed THEN UNCHANGED <<keyer, cut>>
       ELSE /\ keyer' = [keyer EXCEPT ![e.p] = e.pressed]
            /\ cut' = [cut EXCEPT ![e.p] = @ /\ e.pressed]

\* Variant: a change is stored but a release is not passed on.
SetPressedQuiet(e) ==
    IF key[e.p] \notin {NoKey, e.k} THEN UNCHANGED <<key, pressed, keyer, cut, lost>>
    ELSE /\ key' = [key EXCEPT ![e.p] = e.k]
         /\ pressed' = [pressed EXCEPT ![e.p] = e.pressed]
         /\ lost' = [lost EXCEPT ![e.p] = FALSE]
         /\ keyer' = [keyer EXCEPT ![e.p] = @ \/ e.pressed]
         /\ cut' = cut

\* setDitPressed or setDahPressed: the first key ever pressed is the only one
\* that is heard; a repeated press is not passed on.
SetPressed(e) ==
    IF key[e.p] \notin {NoKey, e.k} THEN UNCHANGED <<key, pressed, keyer, cut, lost>>
    ELSE /\ key' = [key EXCEPT ![e.p] = e.k]
         /\ pressed' = [pressed EXCEPT ![e.p] = e.pressed]
         /\ lost' = [lost EXCEPT ![e.p] = FALSE]
         /\ IF pressed[e.p] = e.pressed THEN UNCHANGED <<keyer, cut>>
            ELSE /\ keyer' = [keyer EXCEPT ![e.p] = e.pressed]
                 /\ cut' = [cut EXCEPT ![e.p] = @ /\ e.pressed]

\* handle_event on the event loop's thread, or lowLevelKeyboard.  The timer
\* event of the loop only makes the X server send what it has recorded.
HandleEvent ==
    /\ events # <<>>
    /\ events' = Tail(events)
    /\ SetPressed(Head(events))
    /\ UNCHANGED <<usb, output, down, enabled>>

\* What is on its way is dropped.
Unhook ==
    /\ events' = <<>>
    /\ lost' = [p \in Paddles |-> lost[p] \/ \E e \in ToSet(events) : e.p = p]

\* A key that is held by now is not known.
Hook == lost' = [p \in Paddles |-> down[p] # {}] /\ UNCHANGED events

\* setEnabled(false): the keyer is not told that anything is up.
Disable ==
    /\ enabled
    /\ enabled' = FALSE
    /\ Unhook
    /\ cut' = [p \in Paddles |-> cut[p] \/ pressed[p]]
    /\ UNCHANGED <<usb, output, down, pressed, key, keyer>>

\* setEnabled(true) takes both paddles for released.
Enable ==
    /\ ~enabled
    /\ enabled' = TRUE
    /\ pressed' = Released
    /\ Hook
    /\ UNCHANGED <<usb, output, down, key, cut, keyer>>

Next ==
    \/ \E p \in Paddles : OnPaddle(p) \/ AdapterKey(p)
    \/ SetKeyboard \/ PressKey
    \/ HandleEvent \/ Enable \/ Disable

Spec == Init /\ [][Next]_vars

----------------------------------------------------------------------------
\* The keyer is not left with a paddle down: neither two keys, repeats, nor a
\* USB paddle and a key at once do that, only a listener switched off meanwhile.
KeyIsReleased == \A p \in Paddles : keyer[p] => usb[p] \/ pressed[p] \/ cut[p]

\* When all events are handled, a paddle is down just when the key that is heard
\* is, and some key is heard once one is down, unless events went by while the
\* listener was off.
KeyInStep ==
    \A p \in Paddles :
        enabled /\ events = <<>> /\ ~lost[p]
            => /\ pressed[p] = (key[p] \in down[p])
               /\ key[p] = NoKey => down[p] = {}

\* When all signals are handled, the typed key is down in the system just when
\* the paddle is, unless the output was off at the paddle's last change.
TypedKeyComesUp ==
    \A p \in Paddles :
        posted = <<>> /\ ~untyped[p] => ("typed" \in down[p] <=> usb[p])

----------------------------------------------------------------------------
(* Why they hold                                                           *)

\* A listener that is off holds nothing by itself.
OffInv == ~enabled => \A p \in Paddles : keyer[p] => usb[p] \/ cut[p]

\* v is what the last signal of p in the queue q says, or, with none, now.
Ends(q, p, now, v) ==
    /\ \A i \in 1 .. Len(q) :
         q[i].p = p /\ (\A j \in i + 1 .. Len(q) : q[j].p # p) => q[i].pressed = v
    /\ (\A i \in 1 .. Len(q) : q[i].p # p) => (now <=> v)

\* Keyboard catches up with the paddle: the last signal of a paddle is its last
\* edge, and once all are typed the key is where it is.
TypedInv ==
    \A p \in Paddles :
        ~untyped[p] => Ends(posted, p, "typed" \in down[p], usb[p])

Of(e, p, k) == e.p = p /\ e.k = k

\* The last event of a key on its way tells where the key is.
EventInv ==
    \A p \in Paddles, k \in Keys, i \in 1 .. Len(events) :
        Of(events[i], p, k) /\ (\A j \in i + 1 .. Len(events) : ~Of(events[j], p, k))
            => (events[i].pressed <=> k \in down[p])

\* Before it hears any key, nothing is pressed.
FirstInv == \A p \in Paddles : key[p] = NoKey => ~pressed[p]

\* With no event of a key on its way, the listener has it right: the key that
\* it hears, and before it hears any, every key.
HeardInv ==
    \A p \in Paddles, k \in Keys :
        enabled /\ ~lost[p] /\ key[p] \in {NoKey, k}
            /\ (\A i \in 1 .. Len(events) : ~Of(events[i], p, k))
          => (pressed[p] <=> k \in down[p])

\* The module's invariant, which is inductive.
Inv ==
    /\ TypeOK
    /\ KeyIsReleased
    /\ OffInv /\ TypedInv /\ EventInv /\ FirstInv /\ HeardInv
=============================================================================
