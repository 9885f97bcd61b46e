---------------------------- MODULE IambicKeyer ----------------------------
(***************************************************************************)
(* What an operator expects of the keyer of src/App/keyer: an electronic   *)
(* iambic / Ultimatic keyer with a memory of one element, told without     *)
(* threads, m_mutex or the condition variable.  A press is noted and then  *)
(* offered to the memory; while an element sounds the keyer looks at the   *)
(* paddles to decide which element it adds by itself.  Keyer implements it *)
(* as long as two calls of enqueue do not overlap.                         *)
(***************************************************************************)
CONSTANTS
    Sources,    \* who reports paddle events
    Modes,      \* the modes the GUI selects
    NoItem      \* no element

VARIABLES
    pressed,      \* the paddles that are down
    call,         \* call[s]: how far the keyer is with s's last press
    asked,        \* asked[s]: the paddle of that press
    lastPressed, mode,
    memory,       \* the element that waits, at most one
    stage,        \* what the keyer is doing with an element
    element,      \* the element that sounds, or the one chosen to follow it
    squeeze       \* both paddles were down when the element began

hands == <<pressed, call, asked, lastPressed>>
keyer == <<stage, element, squeeze>>
vars == <<hands, mode, memory, keyer>>

Reverse(i) == IF i = "DIT" THEN "DAH" ELSE "DIT"

Init ==
    /\ pressed = {}
    /\ call = [s \in Sources |-> "none"]
    /\ asked = [s \in Sources |-> NoItem]
    /\ lastPressed = NoItem
    /\ mode = "IAMBIC_B"
    /\ memory = {}
    /\ stage = "rest"
    /\ element = NoItem
    /\ squeeze = FALSE

----------------------------------------------------------------------------
(* The paddles                                                             *)

Down(s, k) ==
    /\ call[s] = "none"
    /\ pressed' = pressed \cup {k}
    /\ call' = [call EXCEPT ![s] = "new"]
    /\ asked' = [asked EXCEPT ![s] = k]
    /\ UNCHANGED <<lastPressed, mode, memory, keyer>>

Note(s) ==
    /\ call[s] = "new"
    /\ lastPressed' = asked[s]
    /\ call' = [call EXCEPT ![s] = "noted"]
    /\ UNCHANGED <<pressed, asked, mode, memory, keyer>>

\* The memory keeps the element it has.
Keep(i) == memory' = IF memory = {} THEN {i} ELSE memory

Offer(s) ==
    /\ call[s] = "noted"
    /\ Keep(asked[s])
    /\ call' = [call EXCEPT ![s] = "none"]
    /\ asked' = [asked EXCEPT ![s] = NoItem]
    /\ UNCHANGED <<pressed, lastPressed, mode, keyer>>

Up(k) ==
    /\ pressed' = pressed \ {k}
    /\ UNCHANGED <<call, asked, lastPressed, mode, memory, keyer>>

----------------------------------------------------------------------------
(* The element.  The two paddles are read one after the other.             *)

Begin ==
    /\ stage = "rest"
    /\ \E i \in memory : element' = i /\ memory' = memory \ {i}
    /\ squeeze' = ("DIT" \in pressed)
    /\ stage' = "begin"
    /\ UNCHANGED <<hands, mode>>

Sound ==
    /\ stage = "begin"
    /\ squeeze' = (squeeze /\ "DAH" \in pressed)
    /\ stage' = "sound"
    /\ UNCHANGED <<hands, mode, memory, element>>

\* A press that the keyer has not answered yet, or that the memory holds.
Pending == memory # {} \/ \E s \in Sources : call[s] # "none"

\* A squeeze adds the opposite of the element that has sounded, or in Ultimatic
\* the paddle pressed last.  If an element waits, the addition comes to nothing.
SqueezeAdds(i) ==
    IF mode = "ULTIMATIC" THEN i = lastPressed
                          ELSE memory = {} => i = Reverse(element)

\* A single paddle repeats; dit goes first.
PaddleAdds(i) == i \in pressed /\ (i = "DAH" /\ "DIT" \in pressed => Pending)

Choose(i) ==
    /\ stage = "sound"
    /\ IF squeeze THEN SqueezeAdds(i) ELSE PaddleAdds(i)
    /\ element' = i
    /\ stage' = "chosen"
    /\ squeeze' = FALSE
    /\ UNCHANGED <<hands, mode, memory>>

Add ==
    /\ stage = "chosen"
    /\ Keep(element)
    /\ stage' = "rest"
    /\ element' = NoItem
    /\ UNCHANGED <<hands, mode, squeeze>>

\* The keyer adds nothing only if no paddle is down, but for a press to come.
Rest ==
    /\ stage = "sound"
    /\ ~squeeze
    /\ pressed # {} => Pending
    /\ stage' = "rest"
    /\ element' = NoItem
    /\ UNCHANGED <<hands, mode, memory, squeeze>>

SetMode(m) ==
    /\ mode' = m
    /\ UNCHANGED <<hands, memory, keyer>>

----------------------------------------------------------------------------
Next == \/ \E s \in Sources, k \in {"DIT", "DAH"} : Down(s, k)
        \/ \E s \in Sources : Note(s) \/ Offer(s)
        \/ \E k \in {"DIT", "DAH"} : Up(k)
        \/ \E i \in {"DIT", "DAH"} : Choose(i)
        \/ Begin \/ Sound \/ Add \/ Rest
        \/ \E m \in Modes : SetMode(m)

Spec == Init /\ [][Next]_vars
=============================================================================
