------------------------------ MODULE KeyedLine ------------------------------
(* What an output that keys a line promises to the keyer (IKeyerCW): the   *)
(* line is up only for a cause, an element being played or the straight    *)
(* key, and every element gives its cause back.                            *)
CONSTANTS Elements, Straight   \* the causes: elements, and the straight key

VARIABLES
    key,     \* the line is up
    causes   \* what has raised it and not yet let it go

Init == key = FALSE /\ causes = {}

\* runCW begins to play, or startRunCw.
Press(c) == key' = TRUE /\ causes' = causes \cup {c}

\* One cause is given back: the line falls, also under other causes, or stays
\* up for another one.
Release(c) ==
    /\ c \in causes
    /\ causes' = causes \ {c}
    /\ key' \in BOOLEAN
    /\ key' => key /\ causes' # {}

\* The line is forced down, and what raised it may be forgotten: a stop, or the
\* element of somebody else.
Cut == key' = FALSE /\ causes' \subseteq causes

Next == Cut \/ \E c \in Elements \cup {Straight} : Press(c) \/ Release(c)

ElementsEnd == \A e \in Elements : (e \in causes) ~> (e \notin causes)

\* What may happen to the line, and that every element ends.
Safety == Init /\ [][Next]_<<key, causes>>
Spec == Safety /\ ElementsEnd
=============================================================================
