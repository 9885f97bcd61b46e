------------------------------- MODULE Keyer -------------------------------
(***************************************************************************)
(* The iambic / Ultimatic keyer of src/App/keyer.  Paddle threads (the     *)
(* libusb pump of UsbDevice, the X11 or Windows hook of KeyboardListener)  *)
(* call onDit / onDah; a detached worker thread runs keyerCall; the GUI    *)
(* thread calls initKeyer and, at quit, the destructor.  m_mutex is taken  *)
(* by the workers only: onDit, onDah and enqueue run without it, so every  *)
(* read and write of the shared members that can be interleaved is a step  *)
(* of its own here.                                                        *)
(***************************************************************************)
EXTENDS Naturals, Sequences, FiniteSets

CONSTANTS
    Sources,    \* the threads that report paddle events
    Workers,    \* pool of keyerCall threads: bounds how many can be alive
    Modes,      \* the modes the GUI selects
    Nobody      \* "m_mutex is free"

Item == {"DIT", "DAH"}
NoItem == "uninitialised"
Mode == {"ULTIMATIC", "IAMBIC_A", "IAMBIC_B"}
Threads == Sources \cup Workers

ASSUME KeyerAssumption ==
    /\ Sources \cap Workers = {}
    /\ Nobody \notin Workers
    /\ Modes \subseteq Mode

VARIABLES
    held,       \* held[s]: the paddles source s last reported as down
    pressed,    \* the set form of m_ditPressed and m_dahPressed
    lastPressed, lastQueued, mode, queue, started,
    mutex,      \* the worker that owns m_mutex, or Nobody
    pc,         \* where each thread is
    arg,        \* the item a thread passes to enqueue
    item,       \* keyerCall's local: the element being played
    branch,     \* keyerCall's local squeeze, then the enqueue it chose
    gui,        \* where the GUI thread is in initKeyer or ~Keyer
    freed,      \* the Keyer object has been deleted
    overlapped, \* history: two threads were inside enqueue at once
    trailing    \* history: elements taken since all paddles are up

paddles == <<held, pressed, lastPressed>>
buffer  == <<queue, lastQueued>>
worker  == <<mutex, item, branch>>
control == <<mode, started, gui, freed>>
vars == <<paddles, buffer, worker, control, pc, arg, overlapped, trailing>>

----------------------------------------------------------------------------
SourcePC == {"idle", "setLast", "size", "setQueued", "push"}

\* The program points at which a worker owns m_mutex.
Critical == {"predicate", "block", "squeeze", "play", "decide", "elseDah",
             "size", "setQueued", "push"}
WorkerPC == Critical \cup {"dead", "while", "lock", "blocked"}

\* enqueue calls of keyerCall, by the branch they stand in.
Branch == {"squeeze", "single", "ultimatic", "iambic", "dit", "dah"}

InEnqueue(x) == pc[x] \in {"setQueued", "push"}
Sounding(w) == pc[w] = "play"
Reverse(i) == IF i = "DIT" THEN "DAH" ELSE "DIT"

\* The history variable trailing saturates: the properties tell 0, 1 and more.
TrailingCap == 2

AllUp == pressed = {} /\ \A s \in Sources : pc[s] = "idle"

\* Every variable has its type: what the threads pass to each other are elements,
\* so a member without an initialiser never reaches the queue.
TypeOK ==
    /\ held \in [Sources -> SUBSET Item]
    /\ pressed \subseteq Item
    /\ lastPressed \in Item \cup {NoItem}
    /\ lastQueued \in Item \cup {NoItem}
    /\ mode \in Mode
    /\ queue \in Seq(Item)
    /\ started \in BOOLEAN
    /\ mutex \in Workers \cup {Nobody}
    /\ pc \in [Threads -> SourcePC \cup WorkerPC]
    /\ \A s \in Sources : pc[s] \in SourcePC
    /\ \A w \in Workers : pc[w] \in WorkerPC
    /\ arg \in [Threads -> Item \cup {NoItem}]
    /\ item \in [Workers -> Item \cup {NoItem}]
    /\ branch \in [Workers -> Branch]
    /\ gui \in {"idle", "init", "destroy"}
    /\ freed \in BOOLEAN
    /\ overlapped \in BOOLEAN
    /\ trailing \in 0 .. TrailingCap

\* The constructor: m_mode is IAMBIC_B until initKeyer; m_lastPressed and
\* m_lastQueued have no initialiser.
Init ==
    /\ held = [s \in Sources |-> {}]
    /\ pressed = {}
    /\ lastPressed = NoItem
    /\ lastQueued = NoItem
    /\ mode = "IAMBIC_B"
    /\ queue = <<>>
    /\ started = FALSE
    /\ mutex = Nobody
    /\ pc = [x \in Threads |-> IF x \in Sources THEN "idle" ELSE "dead"]
    /\ arg = [x \in Threads |-> NoItem]
    /\ item = [w \in Workers |-> NoItem]
    /\ branch = [w \in Workers |-> "single"]
    /\ gui = "idle"
    /\ freed = FALSE
    /\ overlapped = FALSE
    /\ trailing = 0

\* Thread x is at l, and the Keyer it works on still exists.
At(x, l) == ~freed /\ pc[x] = l
Goto(x, l) == pc' = [pc EXCEPT ![x] = l]

----------------------------------------------------------------------------
(* The condition variable.  A waiter that is notified must take m_mutex    *)
(* again before it re-evaluates the predicate.                             *)

Blocked(f) == {w \in Workers : f[w] = "blocked"}
Wake(f, W) == [x \in Threads |-> IF x \in W THEN "lock" ELSE f[x]]
NotifyAll(f) == Wake(f, Blocked(f))
NotifyOne(f) == IF Blocked(f) = {} THEN {f}
                ELSE {Wake(f, {w}) : w \in Blocked(f)}

----------------------------------------------------------------------------
(* onDit(pressed) and onDah(pressed), on a source's thread.  The sources   *)
(* forward a paddle only when its state changes.                           *)

Press(s, k) ==
    /\ At(s, "idle")
    /\ k \notin held[s]
    /\ held' = [held EXCEPT ![s] = @ \cup {k}]
    /\ pressed' = pressed \cup {k}
    /\ arg' = [arg EXCEPT ![s] = k]
    /\ Goto(s, "setLast")
    /\ trailing' = 0
    /\ UNCHANGED <<lastPressed, buffer, worker, control, overlapped>>

SetLastPressed(s) ==
    /\ At(s, "setLast")
    /\ lastPressed' = arg[s]
    /\ Goto(s, "size")
    /\ UNCHANGED <<held, pressed, buffer, worker, control, arg, overlapped,
                   trailing>>

Release(s, k) ==
    /\ At(s, "idle")
    /\ k \in held[s]
    /\ held' = [held EXCEPT ![s] = @ \ {k}]
    /\ pressed' = pressed \ {k}
    /\ UNCHANGED <<lastPressed, buffer, worker, control, pc, arg, overlapped,
                   trailing>>

----------------------------------------------------------------------------
(* enqueue(item), called by a source without m_mutex or by the worker that *)
(* owns it.  A worker that leaves enqueue ends its loop body, which        *)
(* releases m_mutex.                                                       *)

Back(x) == IF x \in Sources THEN "idle" ELSE "while"
Unlock(X) == mutex' = IF mutex \in X THEN Nobody ELSE mutex
Return(X) == /\ Unlock(X)
             /\ arg' = [x \in Threads |-> IF x \in X THEN NoItem ELSE arg[x]]

\* Variant: size() <= 1.
EnqueueSizeTwo(x) ==
    /\ At(x, "size")
    /\ IF Len(queue) <= 1
       THEN /\ Goto(x, "setQueued")
            /\ overlapped' = (overlapped \/ \E y \in Threads \ {x} : InEnqueue(y))
            /\ UNCHANGED <<mutex, arg>>
       ELSE /\ Goto(x, Back(x))
            /\ Return({x})
            /\ UNCHANGED overlapped
    /\ UNCHANGED <<paddles, buffer, item, branch, control, trailing>>

EnqueueSize(x) ==
    /\ At(x, "size")
    /\ IF Len(queue) < 1
       THEN /\ Goto(x, "setQueued")
            /\ overlapped' = (overlapped \/ \E y \in Threads \ {x} : InEnqueue(y))
            /\ UNCHANGED <<mutex, arg>>
       ELSE /\ Goto(x, Back(x))
            /\ Return({x})
            /\ UNCHANGED overlapped
    /\ UNCHANGED <<paddles, buffer, item, branch, control, trailing>>

EnqueueSetLast(x) ==
    /\ At(x, "setQueued")
    /\ lastQueued' = arg[x]
    /\ Goto(x, "push")
    /\ UNCHANGED <<paddles, queue, worker, control, arg, overlapped, trailing>>

\* m_queue.push(item); m_coditionVar.notify_one()
EnqueuePush(x) ==
    /\ At(x, "push")
    /\ queue' = Append(queue, arg[x])
    /\ pc' \in NotifyOne([pc EXCEPT ![x] = Back(x)])
    /\ Return({x})
    /\ UNCHANGED <<paddles, lastQueued, item, branch, control, overlapped,
                   trailing>>

\* Two unsynchronised pushes: both read the same end of the queue, so one of
\* the two items is lost.
PushCollide(x, y) ==
    /\ x # y
    /\ At(x, "push")
    /\ At(y, "push")
    /\ \E i \in {arg[x], arg[y]} : queue' = Append(queue, i)
    /\ pc' \in NotifyOne([pc EXCEPT ![x] = Back(x), ![y] = Back(y)])
    /\ Return({x, y})
    /\ UNCHANGED <<paddles, lastQueued, item, branch, control, overlapped,
                   trailing>>

----------------------------------------------------------------------------
(* keyerCall                                                               *)

\* while (m_started); the locals of the last iteration are out of scope.
WhileStarted(w) ==
    /\ At(w, "while")
    /\ Goto(w, IF started THEN "lock" ELSE "dead")
    /\ item' = [item EXCEPT ![w] = NoItem]
    /\ branch' = [branch EXCEPT ![w] = "single"]
    /\ UNCHANGED <<paddles, buffer, mutex, control, arg, overlapped, trailing>>

\* std::unique_lock lock(*m_mutex), and the re-acquisition after a wakeup.
Lock(w) ==
    /\ At(w, "lock")
    /\ mutex = Nobody
    /\ mutex' = w
    /\ Goto(w, "predicate")
    /\ UNCHANGED <<paddles, buffer, item, branch, control, arg, overlapped,
                   trailing>>

\* The predicate holds and the queue has an element: pop it and read
\* m_ditPressed, the first operand of squeeze.
Take(w) ==
    /\ At(w, "predicate")
    /\ queue # <<>>
    /\ item' = [item EXCEPT ![w] = Head(queue)]
    /\ queue' = Tail(queue)
    /\ branch' = [branch EXCEPT
            ![w] = IF "DIT" \in pressed THEN "squeeze" ELSE "single"]
    /\ trailing' = IF AllUp /\ trailing < TrailingCap THEN trailing + 1 ELSE trailing
    /\ Goto(w, "squeeze")
    /\ UNCHANGED <<paddles, lastQueued, mutex, control, arg, overlapped>>

\* Woken by stopKeyer with nothing to play: "To break".
NothingToPlay(w) ==
    /\ At(w, "predicate")
    /\ queue = <<>>
    /\ ~started
    /\ Goto(w, "while")
    /\ Unlock({w})
    /\ UNCHANGED <<paddles, buffer, item, branch, control, arg, overlapped,
                   trailing>>

\* Variant: wait(lock) without a predicate.
PredicateIgnored(w) ==
    /\ At(w, "predicate")
    /\ started
    /\ Goto(w, "block")
    /\ UNCHANGED <<paddles, buffer, worker, control, arg, overlapped, trailing>>

\* The predicate is false: the thread is now bound to wait, and it waits only
\* at its next step.  A notification in between finds no waiter.
PredicateFalse(w) ==
    /\ At(w, "predicate")
    /\ queue = <<>>
    /\ started
    /\ Goto(w, "block")
    /\ UNCHANGED <<paddles, buffer, worker, control, arg, overlapped, trailing>>

Block(w) ==
    /\ At(w, "block")
    /\ Goto(w, "blocked")
    /\ Unlock({w})
    /\ UNCHANGED <<paddles, buffer, item, branch, control, arg, overlapped,
                   trailing>>

SpuriousWakeup(w) ==
    /\ At(w, "blocked")
    /\ Goto(w, "lock")
    /\ UNCHANGED <<paddles, buffer, worker, control, arg, overlapped, trailing>>

\* Variant: the lock's scope ends before playDitDah.
StartPlayUnlocked(w) ==
    /\ At(w, "squeeze")
    /\ branch' = [branch EXCEPT
            ![w] = IF @ = "squeeze" /\ "DAH" \in pressed THEN @ ELSE "single"]
    /\ Goto(w, "play")
    /\ Unlock({w})
    /\ UNCHANGED <<paddles, buffer, item, control, arg, overlapped, trailing>>

\* The second operand of squeeze, then playDitDah begins: every output has
\* been told runCW and the thread sleeps, with m_mutex.
StartPlay(w) ==
    /\ At(w, "squeeze")
    /\ branch' = [branch EXCEPT
            ![w] = IF @ = "squeeze" /\ "DAH" \in pressed THEN @ ELSE "single"]
    /\ Goto(w, "play")
    /\ UNCHANGED <<paddles, buffer, mutex, item, control, arg, overlapped,
                   trailing>>

EndPlay(w) ==
    /\ At(w, "play")
    /\ Goto(w, "decide")
    /\ UNCHANGED <<paddles, buffer, worker, control, arg, overlapped, trailing>>

CallEnqueue(w, i, b) ==
    /\ arg' = [arg EXCEPT ![w] = i]
    /\ branch' = [branch EXCEPT ![w] = b]
    /\ Goto(w, "size")
    /\ UNCHANGED <<paddles, buffer, mutex, item, control, overlapped, trailing>>

\* Variant: the opposite of the last pressed paddle, not of the last element.
DecideSqueezeLastPressed(w) ==
    /\ At(w, "decide")
    /\ branch[w] = "squeeze"
    /\ IF mode = "ULTIMATIC"
       THEN CallEnqueue(w, lastPressed, "ultimatic")
       ELSE CallEnqueue(w, Reverse(lastPressed), "iambic")

DecideSqueeze(w) ==
    /\ At(w, "decide")
    /\ branch[w] = "squeeze"
    /\ IF mode = "ULTIMATIC"
       THEN CallEnqueue(w, lastPressed, "ultimatic")
       ELSE CallEnqueue(w, Reverse(lastQueued), "iambic")

DecideDit(w) ==
    /\ At(w, "decide")
    /\ branch[w] = "single"
    /\ "DIT" \in pressed
    /\ CallEnqueue(w, "DIT", "dit")

DecideNoDit(w) ==
    /\ At(w, "decide")
    /\ branch[w] = "single"
    /\ "DIT" \notin pressed
    /\ Goto(w, "elseDah")
    /\ UNCHANGED <<paddles, buffer, worker, control, arg, overlapped, trailing>>

\* Variant: a plain else.
DecideDahElse(w) ==
    /\ At(w, "elseDah")
    /\ CallEnqueue(w, "DAH", "dah")

DecideDah(w) ==
    /\ At(w, "elseDah")
    /\ "DAH" \in pressed
    /\ CallEnqueue(w, "DAH", "dah")

DecideNothing(w) ==
    /\ At(w, "elseDah")
    /\ "DAH" \notin pressed
    /\ Goto(w, "while")
    /\ Unlock({w})
    /\ UNCHANGED <<paddles, buffer, item, branch, control, arg, overlapped,
                   trailing>>

----------------------------------------------------------------------------
(* The GUI thread.  The worker is detached, so stopKeyer never joins it.   *)

\* stopKeyer, called by initKeyer (then = "init") or ~Keyer (then = "destroy").
\* The bound on the pool of threads stands here.
StopKeyer(then) ==
    /\ gui = "idle"
    /\ ~freed
    /\ then = "init" => \E w \in Workers : pc[w] = "dead"
    /\ gui' = then
    /\ started' = FALSE
    /\ pc' = IF started THEN NotifyAll(pc) ELSE pc
    /\ UNCHANGED <<paddles, buffer, worker, mode, freed, arg, overlapped,
                   trailing>>

InitKeyer(m, w) ==
    /\ gui = "init"
    /\ At(w, "dead")
    /\ gui' = "idle"
    /\ mode' = m
    /\ started' = TRUE
    /\ Goto(w, "while")
    /\ UNCHANGED <<paddles, buffer, worker, freed, arg, overlapped, trailing>>

Destroy ==
    /\ gui = "destroy"
    /\ freed' = TRUE
    /\ gui' = "idle"
    /\ UNCHANGED <<paddles, buffer, worker, mode, started, pc, arg, overlapped,
                   trailing>>

----------------------------------------------------------------------------
SourceStep(s) == \/ SetLastPressed(s)
                 \/ EnqueueSize(s)
                 \/ EnqueueSetLast(s)
                 \/ EnqueuePush(s)

WorkerStep(w) == \/ WhileStarted(w)
                 \/ Take(w)
                 \/ NothingToPlay(w)
                 \/ PredicateFalse(w)
                 \/ Block(w)
                 \/ StartPlay(w)
                 \/ EndPlay(w)
                 \/ DecideSqueeze(w)
                 \/ DecideDit(w)
                 \/ DecideNoDit(w)
                 \/ DecideDah(w)
                 \/ DecideNothing(w)
                 \/ EnqueueSize(w)
                 \/ EnqueueSetLast(w)
                 \/ EnqueuePush(w)

GuiStep == \/ \E m \in Modes, w \in Workers : InitKeyer(m, w)
           \/ Destroy

\* The object is gone; its threads are not described any further.
Gone == freed /\ UNCHANGED vars

Next == \/ \E s \in Sources, k \in Item : Press(s, k) \/ Release(s, k)
        \/ \E s \in Sources : SourceStep(s)
        \/ \E w \in Workers : Lock(w) \/ SpuriousWakeup(w) \/ WorkerStep(w)
        \/ \E x, y \in Threads : PushCollide(x, y)
        \/ \E then \in {"init", "destroy"} : StopKeyer(then)
        \/ GuiStep
        \/ Gone

Spec == Init /\ [][Next]_vars

\* A thread that can run runs, m_mutex is handed to some waiter, initKeyer and
\* ~Keyer complete.  Nothing is assumed of the operator's hands, of the GUI's
\* user, or of spurious wakeups.
Fairness ==
    /\ \A s \in Sources : WF_vars(SourceStep(s))
    /\ \A w \in Workers : WF_vars(WorkerStep(w))
    /\ WF_vars(\E w \in Workers : Lock(w))
    /\ WF_vars(GuiStep)

FairSpec == Spec /\ Fairness

----------------------------------------------------------------------------
(* Properties                                                              *)

\* playDitDah runs with m_mutex held, so the outputs never receive one
\* element while another sounds, not even while a worker that initKeyer has
\* replaced is still finishing its own.
OneElementAtATime ==
    \A v, w \in Workers : Sounding(v) /\ Sounding(w) => v = w

\* enqueue's size() < 1 keeps at most one element waiting, whichever threads
\* call it, as long as no two of them are inside it at once.
QueueHoldsOne == ~overlapped => Len(queue) <= 1

\* Once every paddle is up at most one more element is taken from the queue,
\* whatever was queued, squeezed or being decided at the release: the most an
\* operator in IAMBIC_B expects to hear after letting go.
OneMoreElement == ~overlapped => trailing <= 1

\* An element that a squeeze adds in an iambic mode is the opposite of the one
\* that has just been played: m_lastQueued, which the paddles' threads write
\* too, still names that element whenever the addition is accepted.
SqueezeAlternates ==
    [][\A w \in Workers :
          /\ pc[w] = "size" /\ pc'[w] = "setQueued"
          /\ branch[w] = "iambic"
          /\ ~overlapped'
          => arg[w] = Reverse(item[w])]_vars

\* What the operator sees of the threads: how far the keyer is with each press,
\* the element that is queued or being queued, and what the owner of m_mutex
\* does with the element it took.
Call(s) == CASE pc[s] = "setLast" -> "new"
             [] pc[s] = "size" -> "noted"
             [] OTHER -> "none"
Calls == [s \in Sources |-> Call(s)]
Asked == [s \in Sources |-> IF Call(s) = "none" THEN NoItem ELSE arg[s]]
Memory == {queue[i] : i \in 1 .. Len(queue)}
             \cup {arg[x] : x \in {y \in Threads : InEnqueue(y)}}

Owns(P) == mutex # Nobody /\ pc[mutex] \in P
Sounds == {"play", "decide", "elseDah"}
Stage == IF Owns({"squeeze"}) THEN "begin" ELSE
         IF Owns(Sounds) THEN "sound" ELSE
         IF Owns({"size"}) THEN "chosen" ELSE "rest"
Element == IF Owns({"squeeze"} \cup Sounds) THEN item[mutex] ELSE
           IF Owns({"size"}) THEN arg[mutex] ELSE NoItem
Squeeze == Owns({"squeeze"} \cup Sounds) /\ branch[mutex] = "squeeze"

Op == INSTANCE IambicKeyer WITH
    call <- Calls, asked <- Asked, memory <- Memory,
    stage <- Stage, element <- Element, squeeze <- Squeeze

\* Until two calls of enqueue overlap, the threads and the condition variable
\* together are one iambic keyer: every step of theirs is one of IambicKeyer, or
\* one that the operator does not see.
KeyerIsIambic == Op!Init /\ [][~overlapped' => [Op!Next]_(Op!vars)]_vars

\* If the operator lets go for good the keyer falls silent for good.
Silence == <>[]AllUp => <>[](freed \/ \A w \in Workers : ~Sounding(w))

\* A worker that has not yet parked in wait() finds an element that is in the
\* queue: only stopKeyer keeps it from being taken.
Awake(w) == pc[w] \in {"while", "lock", "predicate"}
AwakeWorkerTakes ==
    (started /\ queue # <<>> /\ \E w \in Workers : Awake(w))
        ~> (queue = <<>> \/ ~started \/ freed)

\* "Paddle events are enqueued and processed in a detached thread" (README.md:214):
\* what is queued is taken.  It need not be: enqueue notifies without m_mutex, and
\* a worker between its predicate and its wait does not hear it.
QueuedIsTaken ==
    (started /\ queue # <<>>) ~> (queue = <<>> \/ ~started \/ freed)

----------------------------------------------------------------------------
(* The inductive invariant behind the safety properties                    *)

\* An element exists only after some press has assigned m_lastPressed, so the
\* members without an initialiser are never read before they are written.
KnownInv ==
    /\ (\/ queue # <<>>
        \/ \E x \in Threads : pc[x] \in {"size", "setQueued", "push",
                                        "squeeze", "play", "decide", "elseDah"})
           => lastPressed \in Item
    /\ \A x \in Threads :
          pc[x] \in {"setLast", "size", "setQueued", "push"} => arg[x] \in Item

\* m_mutex is owned exactly between its acquisition and its release.
MutexInv == \A w \in Workers : pc[w] \in Critical <=> mutex = w

\* Whoever is inside enqueue is there alone and found the queue empty.
QueueInv ==
    ~overlapped =>
        /\ Len(queue) <= 1
        /\ \A x, y \in Threads : InEnqueue(x) /\ InEnqueue(y) => x = y
        /\ \A x \in Threads : InEnqueue(x) => queue = <<>>

Quiet == queue = <<>> /\ \A x \in Threads : ~InEnqueue(x)

\* m_lastQueued is the element that waits or, if none does and none is being
\* queued, the element that the owner of m_mutex has taken.
LastQueuedInv ==
    ~overlapped =>
        /\ queue # <<>> => Head(queue) = lastQueued
        /\ \A x \in Threads : pc[x] = "push" => lastQueued = arg[x]
        /\ \A w \in Workers :
              Quiet =>
                /\ pc[w] \in {"squeeze", "play", "decide"} => lastQueued = item[w]
                /\ pc[w] = "size" /\ branch[w] = "iambic"
                      => arg[w] = Reverse(item[w])

\* A worker that will still add an element though no paddle is down.
Committed(w) == \/ pc[w] \in {"play", "decide"} /\ branch[w] = "squeeze"
                \/ pc[w] \in {"size", "setQueued", "push"}

\* trailing counts from the release of the last paddle, and what is taken or
\* can still be taken after it is one element.
TrailingInv ==
    /\ ~AllUp => trailing = 0
    /\ ~overlapped /\ trailing > 0 => trailing = 1 /\ queue = <<>>
                                       /\ \A w \in Workers : ~Committed(w)

\* A worker that has found the dit up, outside a squeeze, finds it down again only
\* because of a press that is still being handled, or whose element waits.
ElseInv ==
    \A w \in Workers : pc[w] = "elseDah" =>
        /\ branch[w] # "squeeze"
        /\ "DIT" \in pressed =>
             \/ queue # <<>>
             \/ \E x \in Threads : InEnqueue(x)
             \/ \E s \in Sources : pc[s] \in {"setLast", "size"}

\* All of it: checked on the instances, proved inductive in KeyerProofs.
IInv ==
    /\ TypeOK
    /\ KnownInv /\ MutexInv /\ QueueInv /\ LastQueuedInv /\ TrailingInv /\ ElseInv
=============================================================================
