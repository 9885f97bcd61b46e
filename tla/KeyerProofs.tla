---------------------------- MODULE KeyerProofs ----------------------------
(***************************************************************************)
(* Proofs about Keyer, for every set of paddle sources, every pool of      *)
(* worker threads and every choice of modes.                               *)
(***************************************************************************)
EXTENDS Keyer, TLAPS

\* What waking threads does to the program counters: only workers parked in
\* the wait are moved, and only to "lock".
LEMMA WakeEffect ==
    ASSUME NEW f \in [Threads -> SourcePC \cup WorkerPC],
           \A s \in Sources : f[s] \in SourcePC,
           \A w \in Workers : f[w] \in WorkerPC,
           NEW W \in SUBSET Blocked(f)
    PROVE  /\ Wake(f, W) \in [Threads -> SourcePC \cup WorkerPC]
           /\ \A s \in Sources : Wake(f, W)[s] = f[s]
           /\ \A w \in Workers : Wake(f, W)[w] \in WorkerPC
           /\ \A x \in Threads : \/ Wake(f, W)[x] = f[x]
                                 \/ /\ x \in Workers
                                    /\ f[x] = "blocked"
                                    /\ Wake(f, W)[x] = "lock"
BY KeyerAssumption DEF Wake, Blocked, Threads, WorkerPC, Critical, SourcePC

\* notify_all keeps the types of the program counters and moves every parked
\* worker to "lock", and nobody else.
LEMMA NotifyAllTyped ==
    ASSUME NEW f \in [Threads -> SourcePC \cup WorkerPC],
           \A s \in Sources : f[s] \in SourcePC,
           \A w \in Workers : f[w] \in WorkerPC
    PROVE  /\ NotifyAll(f) \in [Threads -> SourcePC \cup WorkerPC]
           /\ \A s \in Sources : NotifyAll(f)[s] \in SourcePC
           /\ \A w \in Workers : NotifyAll(f)[w] \in WorkerPC
           /\ \A x \in Threads : \/ NotifyAll(f)[x] = f[x]
                                 \/ /\ x \in Workers
                                    /\ f[x] = "blocked"
                                    /\ NotifyAll(f)[x] = "lock"
<1> DEFINE W == Blocked(f)
<1>1. W \in SUBSET Blocked(f)
  OBVIOUS
<1>2. \A s \in Sources : s \in Threads
  BY DEF Threads
<1> HIDE DEF W
<1>3. /\ Wake(f, W) \in [Threads -> SourcePC \cup WorkerPC]
      /\ \A s \in Sources : Wake(f, W)[s] = f[s]
      /\ \A w \in Workers : Wake(f, W)[w] \in WorkerPC
      /\ \A x \in Threads : \/ Wake(f, W)[x] = f[x]
                            \/ /\ x \in Workers
                               /\ f[x] = "blocked"
                               /\ Wake(f, W)[x] = "lock"
  BY <1>1, WakeEffect
<1> QED BY <1>3 DEF NotifyAll, W

\* notify_one wakes a set of parked workers (at most one of them).
LEMMA NotifyOneEffect ==
    ASSUME NEW f \in [Threads -> SourcePC \cup WorkerPC], NEW g \in NotifyOne(f)
    PROVE  \E W \in SUBSET Blocked(f) : g = Wake(f, W)
<1>1. CASE Blocked(f) = {}
  <2>1. Wake(f, {}) = f
    BY DEF Wake
  <2> QED BY <1>1, <2>1 DEF NotifyOne
<1>2. CASE Blocked(f) # {}
  BY <1>2 DEF NotifyOne
<1> QED BY <1>1, <1>2

\* notify_one keeps the types of the program counters and moves only parked
\* workers, to "lock".
LEMMA NotifyOneTyped ==
    ASSUME NEW f \in [Threads -> SourcePC \cup WorkerPC],
           \A s \in Sources : f[s] \in SourcePC,
           \A w \in Workers : f[w] \in WorkerPC,
           NEW g \in NotifyOne(f)
    PROVE  /\ g \in [Threads -> SourcePC \cup WorkerPC]
           /\ \A s \in Sources : g[s] \in SourcePC
           /\ \A w \in Workers : g[w] \in WorkerPC
           /\ \A x \in Threads : \/ g[x] = f[x]
                                 \/ /\ x \in Workers
                                    /\ f[x] = "blocked"
                                    /\ g[x] = "lock"
<1>1. PICK W \in SUBSET Blocked(f) : g = Wake(f, W)
  BY NotifyOneEffect
<1> QED BY <1>1, WakeEffect

\* Every variable keeps its type along every step.
LEMMA TypeStep == TypeOK /\ KnownInv /\ [Next]_vars => TypeOK'
<1> SUFFICES ASSUME TypeOK, KnownInv, [Next]_vars PROVE TypeOK'
    OBVIOUS
<1> USE KeyerAssumption DEF TypeOK, Threads
<1>1. ASSUME NEW s \in Sources, NEW k \in Item, Press(s, k) PROVE TypeOK'
  BY <1>1 DEF Press, At, Goto, SourcePC, WorkerPC, Critical, buffer, worker, control, TrailingCap
<1>2. ASSUME NEW s \in Sources, NEW k \in Item, Release(s, k) PROVE TypeOK'
  BY <1>2 DEF Release, At, buffer, worker, control
<1>3. ASSUME NEW s \in Sources, SetLastPressed(s) PROVE TypeOK'
  BY <1>3 DEF SetLastPressed, At, Goto, SourcePC, WorkerPC, Critical, buffer, worker, control
<1>4. ASSUME NEW x \in Threads, EnqueueSize(x) PROVE TypeOK'
  <2>1. CASE Len(queue) < 1
    BY <1>4, <2>1 DEF EnqueueSize, At, Goto, SourcePC, WorkerPC, Critical,
       paddles, buffer, control
  <2>2. CASE ~(Len(queue) < 1)
    BY <1>4, <2>2 DEF EnqueueSize, At, Goto, Back, Return, Unlock, SourcePC,
       WorkerPC, Critical, paddles, buffer, control
  <2> QED BY <2>1, <2>2
<1>5. ASSUME NEW x \in Threads, EnqueueSetLast(x) PROVE TypeOK'
  BY <1>5 DEF EnqueueSetLast, At, Goto, SourcePC, WorkerPC, Critical, paddles,
     worker, control
<1>6. ASSUME NEW x \in Threads, EnqueuePush(x) PROVE TypeOK'
  <2>1. /\ arg[x] \in Item
        /\ [pc EXCEPT ![x] = Back(x)] \in [Threads -> SourcePC \cup WorkerPC]
        /\ \A s \in Sources : [pc EXCEPT ![x] = Back(x)][s] \in SourcePC
        /\ \A w \in Workers : [pc EXCEPT ![x] = Back(x)][w] \in WorkerPC
    BY <1>6 DEF EnqueuePush, At, KnownInv, Back, SourcePC, WorkerPC
  <2>2. pc' \in NotifyOne([pc EXCEPT ![x] = Back(x)])
    BY <1>6 DEF EnqueuePush
  <2>3. /\ pc' \in [Threads -> SourcePC \cup WorkerPC]
        /\ \A s \in Sources : pc'[s] \in SourcePC
        /\ \A w \in Workers : pc'[w] \in WorkerPC
    BY <2>1, <2>2, NotifyOneTyped
  <2> QED
    BY <1>6, <2>1, <2>3 DEF EnqueuePush, Return, Unlock, paddles, control
<1>7. ASSUME NEW x \in Threads, NEW y \in Threads, PushCollide(x, y) PROVE TypeOK'
  <2> DEFINE f == [pc EXCEPT ![x] = Back(x), ![y] = Back(y)]
  <2>1. /\ arg[x] \in Item
        /\ arg[y] \in Item
        /\ f \in [Threads -> SourcePC \cup WorkerPC]
        /\ \A s \in Sources : f[s] \in SourcePC
        /\ \A w \in Workers : f[w] \in WorkerPC
    BY <1>7 DEF PushCollide, At, KnownInv, Back, SourcePC, WorkerPC
  <2>2. pc' \in NotifyOne(f)
    BY <1>7 DEF PushCollide
  <2>3. /\ pc' \in [Threads -> SourcePC \cup WorkerPC]
        /\ \A s \in Sources : pc'[s] \in SourcePC
        /\ \A w \in Workers : pc'[w] \in WorkerPC
    <3> HIDE DEF f
    <3> QED BY <2>1, <2>2, NotifyOneTyped
  <2> QED
    BY <1>7, <2>1, <2>3 DEF PushCollide, Return, Unlock, paddles, control
<1>8. ASSUME NEW w \in Workers, WhileStarted(w) PROVE TypeOK'
  BY <1>8 DEF WhileStarted, At, Goto, WorkerPC, Critical, Branch, paddles, buffer, control
<1>9. ASSUME NEW w \in Workers, Lock(w) PROVE TypeOK'
  BY <1>9 DEF Lock, At, Goto, WorkerPC, Critical, Branch, paddles, buffer, control
<1>10. ASSUME NEW w \in Workers, Take(w) PROVE TypeOK'
  BY <1>10 DEF Take, At, Goto, WorkerPC, Critical, Branch, paddles, control, TrailingCap
<1>11. ASSUME NEW w \in Workers, NothingToPlay(w) PROVE TypeOK'
  BY <1>11 DEF NothingToPlay, At, Goto, Unlock, WorkerPC, Critical, Branch, paddles, buffer, control
<1>12. ASSUME NEW w \in Workers, PredicateFalse(w) PROVE TypeOK'
  BY <1>12 DEF PredicateFalse, At, Goto, WorkerPC, Critical, paddles, buffer, worker, control
<1>13. ASSUME NEW w \in Workers, Block(w) PROVE TypeOK'
  BY <1>13 DEF Block, At, Goto, Unlock, WorkerPC, Critical, paddles, buffer, control
<1>14. ASSUME NEW w \in Workers, SpuriousWakeup(w) PROVE TypeOK'
  BY <1>14 DEF SpuriousWakeup, At, Goto, WorkerPC, Critical, paddles, buffer, worker, control
<1>15. ASSUME NEW w \in Workers, StartPlay(w) PROVE TypeOK'
  BY <1>15 DEF StartPlay, At, Goto, WorkerPC, Critical, Branch, paddles, buffer, control
<1>16. ASSUME NEW w \in Workers, EndPlay(w) PROVE TypeOK'
  BY <1>16 DEF EndPlay, At, Goto, WorkerPC, Critical, paddles, buffer, worker, control
<1>17. ASSUME NEW w \in Workers, DecideSqueeze(w) PROVE TypeOK'
  <2>1. CASE mode = "ULTIMATIC"
    BY <1>17, <2>1 DEF DecideSqueeze, CallEnqueue, At, Goto, WorkerPC, Critical,
       Branch, paddles, buffer, control
  <2>2. CASE mode # "ULTIMATIC"
    <3>1. Reverse(lastQueued) \in Item
      BY DEF Reverse, Item
    <3>2. CallEnqueue(w, Reverse(lastQueued), "iambic")
      BY <1>17, <2>2 DEF DecideSqueeze
    <3> QED
      BY <3>1, <3>2 DEF CallEnqueue, Goto, WorkerPC, Critical, Branch, paddles,
         buffer, control
  <2> QED BY <2>1, <2>2
<1>18. ASSUME NEW w \in Workers, DecideDit(w) PROVE TypeOK'
  BY <1>18 DEF DecideDit, CallEnqueue, At, Goto, WorkerPC, Critical, Branch, paddles,
               buffer, control, Item
<1>19. ASSUME NEW w \in Workers, DecideNoDit(w) PROVE TypeOK'
  BY <1>19 DEF DecideNoDit, At, Goto, WorkerPC, Critical, paddles, buffer, worker, control
<1>20. ASSUME NEW w \in Workers, DecideDah(w) PROVE TypeOK'
  BY <1>20 DEF DecideDah, CallEnqueue, At, Goto, WorkerPC, Critical, Branch, paddles,
               buffer, control, Item
<1>21. ASSUME NEW w \in Workers, DecideNothing(w) PROVE TypeOK'
  BY <1>21 DEF DecideNothing, At, Goto, Unlock, WorkerPC, Critical, paddles, buffer, control
<1>22. ASSUME NEW then \in {"init", "destroy"}, StopKeyer(then) PROVE TypeOK'
  <2>1. /\ NotifyAll(pc) \in [Threads -> SourcePC \cup WorkerPC]
        /\ \A s \in Sources : NotifyAll(pc)[s] \in SourcePC
        /\ \A w \in Workers : NotifyAll(pc)[w] \in WorkerPC
    BY NotifyAllTyped
  <2>2. /\ pc' = pc \/ pc' = NotifyAll(pc)
        /\ started' = FALSE
        /\ gui' \in {"idle", "init", "destroy"}
        /\ UNCHANGED <<paddles, buffer, worker, mode, freed, arg, overlapped,
                       trailing>>
    <3> HIDE DEF TypeOK
    <3> QED BY <1>22 DEF StopKeyer
  <2>3. /\ pc' \in [Threads -> SourcePC \cup WorkerPC]
        /\ \A s \in Sources : pc'[s] \in SourcePC
        /\ \A w \in Workers : pc'[w] \in WorkerPC
    BY <2>1, <2>2
  <2> QED
    BY <2>2, <2>3 DEF paddles, buffer, worker
<1>23. ASSUME NEW m \in Modes, NEW w \in Workers, InitKeyer(m, w) PROVE TypeOK'
  BY <1>23 DEF InitKeyer, At, Goto, WorkerPC, Critical, paddles, buffer, worker
<1>24. CASE Destroy
  BY <1>24 DEF Destroy, paddles, buffer, worker
<1>25. CASE UNCHANGED vars
  BY <1>25 DEF vars, paddles, buffer, worker, control
<1> QED
  BY <1>1, <1>2, <1>3, <1>4, <1>5, <1>6, <1>7, <1>8, <1>9, <1>10, <1>11, <1>12,
     <1>13, <1>14, <1>15, <1>16, <1>17, <1>18, <1>19, <1>20, <1>21, <1>22,
     <1>23, <1>24, <1>25 DEF Next, SourceStep, WorkerStep, GuiStep, Gone
----------------------------------------------------------------------------
(* What the steps that wake workers do to the program counters             *)

\* Thread y stays where it is, or is a parked worker that has been notified.
Stays(y) == \/ pc'[y] = pc[y]
            \/ y \in Workers /\ pc[y] = "blocked" /\ pc'[y] = "lock"

\* A push returns its caller from enqueue; of the others, only a parked worker
\* can move, to "lock".
LEMMA PushEffect ==
    ASSUME TypeOK, NEW x \in Threads, EnqueuePush(x)
    PROVE  pc'[x] = Back(x) /\ \A y \in Threads \ {x} : Stays(y)
<1> DEFINE f == [pc EXCEPT ![x] = Back(x)]
<1>1. /\ f \in [Threads -> SourcePC \cup WorkerPC]
      /\ \A s \in Sources : f[s] \in SourcePC
      /\ \A w \in Workers : f[w] \in WorkerPC
      /\ f[x] = Back(x)
      /\ \A y \in Threads \ {x} : f[y] = pc[y]
      /\ Back(x) # "blocked"
  BY KeyerAssumption DEF TypeOK, Back, SourcePC, WorkerPC, Threads
<1>2. pc' \in NotifyOne(f)
  BY DEF EnqueuePush
<1> HIDE DEF f
<1>3. \A y \in Threads : \/ pc'[y] = f[y]
                         \/ y \in Workers /\ f[y] = "blocked" /\ pc'[y] = "lock"
  BY <1>1, <1>2, NotifyOneTyped
<1> QED BY <1>1, <1>3 DEF Stays

\* Two colliding pushes return both callers; of the others, only a parked
\* worker can move.
LEMMA CollideEffect ==
    ASSUME TypeOK, NEW x \in Threads, NEW y \in Threads, PushCollide(x, y)
    PROVE  /\ pc'[x] = Back(x)
           /\ pc'[y] = Back(y)
           /\ \A z \in Threads \ {x, y} : Stays(z)
<1> DEFINE f == [pc EXCEPT ![x] = Back(x), ![y] = Back(y)]
<1>1. /\ f \in [Threads -> SourcePC \cup WorkerPC]
      /\ \A s \in Sources : f[s] \in SourcePC
      /\ \A w \in Workers : f[w] \in WorkerPC
      /\ f[x] = Back(x)
      /\ f[y] = Back(y)
      /\ \A z \in Threads \ {x, y} : f[z] = pc[z]
      /\ Back(x) # "blocked"
      /\ Back(y) # "blocked"
  BY KeyerAssumption DEF TypeOK, Back, SourcePC, WorkerPC, Threads, PushCollide
<1>2. pc' \in NotifyOne(f)
  BY DEF PushCollide
<1> HIDE DEF f
<1>3. \A z \in Threads : \/ pc'[z] = f[z]
                         \/ z \in Workers /\ f[z] = "blocked" /\ pc'[z] = "lock"
  BY <1>1, <1>2, NotifyOneTyped
<1> QED BY <1>1, <1>3 DEF Stays

\* stopKeyer moves only parked workers: it interrupts nobody who holds m_mutex.
LEMMA StopEffect ==
    ASSUME TypeOK, NEW then, StopKeyer(then)
    PROVE  \A y \in Threads : Stays(y)
<1>1. CASE started
  BY <1>1, NotifyAllTyped DEF TypeOK, StopKeyer, Stays
<1>2. CASE ~started
  BY <1>2 DEF StopKeyer, Stays
<1> QED BY <1>1, <1>2

----------------------------------------------------------------------------
(* Mutual exclusion                                                        *)

\* Every action that enters or leaves a critical section takes or frees
\* m_mutex with it; a wakeup does neither.
LEMMA MutexStep == TypeOK /\ MutexInv /\ [Next]_vars => MutexInv'
<1> SUFFICES ASSUME TypeOK, MutexInv, [Next]_vars PROVE MutexInv'
    OBVIOUS
<1> USE KeyerAssumption DEF MutexInv, Threads
<1>1. ASSUME NEW s \in Sources, NEW k \in Item, Press(s, k) \/ Release(s, k)
      PROVE  MutexInv'
  BY <1>1 DEF TypeOK, Press, Release, Goto, worker
<1>2. ASSUME NEW s \in Sources, SetLastPressed(s) PROVE MutexInv'
  BY <1>2 DEF TypeOK, SetLastPressed, Goto, worker
<1>3. ASSUME NEW x \in Threads, EnqueueSize(x) PROVE MutexInv'
  BY <1>3 DEF TypeOK, EnqueueSize, At, Goto, Back, Return, Unlock, Critical
<1>4. ASSUME NEW x \in Threads, EnqueueSetLast(x) PROVE MutexInv'
  BY <1>4 DEF TypeOK, EnqueueSetLast, At, Goto, worker, Critical
<1>5. ASSUME NEW x \in Threads, EnqueuePush(x) PROVE MutexInv'
  BY <1>5, PushEffect DEF TypeOK, EnqueuePush, At, Back, Return, Unlock, Stays,
     Critical
<1>6. ASSUME NEW x \in Threads, NEW y \in Threads, PushCollide(x, y)
      PROVE  MutexInv'
  <2>1. /\ pc'[x] = Back(x)
        /\ pc'[y] = Back(y)
        /\ \A z \in Threads \ {x, y} : Stays(z)
    BY <1>6, CollideEffect
  <2>2. pc[x] = "push" /\ pc[y] = "push" /\ Unlock({x, y})
    BY <1>6 DEF PushCollide, At, Return
  <2> QED
    BY <2>1, <2>2 DEF TypeOK, Back, Unlock, Stays, Critical
<1>7. ASSUME NEW w \in Workers, WhileStarted(w) \/ SpuriousWakeup(w)
      PROVE  MutexInv'
  BY <1>7 DEF TypeOK, WhileStarted, SpuriousWakeup, At, Goto, worker, Critical
<1>8. ASSUME NEW w \in Workers, Lock(w) PROVE MutexInv'
  BY <1>8 DEF TypeOK, Lock, At, Goto, Critical
<1>9. ASSUME NEW w \in Workers,
             Take(w) \/ PredicateFalse(w) \/ StartPlay(w) \/ EndPlay(w)
                \/ DecideNoDit(w)
      PROVE  MutexInv'
  BY <1>9 DEF TypeOK, Take, PredicateFalse, StartPlay, EndPlay, DecideNoDit,
     At, Goto, worker, Critical
<1>10. ASSUME NEW w \in Workers, DecideSqueeze(w) \/ DecideDit(w) \/ DecideDah(w)
       PROVE  MutexInv'
  BY <1>10 DEF TypeOK, DecideSqueeze, DecideDit, DecideDah, CallEnqueue, At,
     Goto, Critical
<1>11. ASSUME NEW w \in Workers, NothingToPlay(w) \/ Block(w) \/ DecideNothing(w)
       PROVE  MutexInv'
  BY <1>11 DEF TypeOK, NothingToPlay, Block, DecideNothing, At, Goto, Unlock,
     Critical
<1>12. ASSUME NEW then, StopKeyer(then) PROVE MutexInv'
  <2>1. mutex' = mutex
    BY <1>12 DEF StopKeyer, worker
  <2> QED BY <1>12, <2>1, StopEffect DEF Stays, Critical
<1>13. ASSUME NEW m \in Modes, NEW w \in Workers, InitKeyer(m, w)
       PROVE  MutexInv'
  BY <1>13 DEF TypeOK, InitKeyer, At, Goto, worker, Critical
<1>14. CASE Destroy \/ UNCHANGED vars
  BY <1>14 DEF Destroy, vars, worker
<1> QED
  BY <1>1, <1>2, <1>3, <1>4, <1>5, <1>6, <1>7, <1>8, <1>9, <1>10, <1>11, <1>12,
     <1>13, <1>14 DEF Next, SourceStep, WorkerStep, GuiStep, Gone
----------------------------------------------------------------------------
(* Nothing uninitialised is played                                         *)

\* m_lastPressed is assigned before anything reaches the queue, and everything
\* that is enqueued later derives from a queued element.
LEMMA KnownStep == TypeOK /\ KnownInv /\ [Next]_vars => KnownInv'
<1> SUFFICES ASSUME TypeOK, KnownInv, [Next]_vars PROVE KnownInv'
    OBVIOUS
<1> USE KeyerAssumption DEF KnownInv, Threads
<1>1. ASSUME NEW s \in Sources, NEW k \in Item, Press(s, k) \/ Release(s, k)
      PROVE  KnownInv'
  BY <1>1 DEF TypeOK, Press, Release, At, Goto, buffer
<1>2. ASSUME NEW s \in Sources, SetLastPressed(s) PROVE KnownInv'
  BY <1>2 DEF TypeOK, SetLastPressed, At, Goto, buffer
<1>3. ASSUME NEW x \in Threads, EnqueueSize(x) PROVE KnownInv'
  BY <1>3 DEF TypeOK, EnqueueSize, At, Goto, Back, Return, paddles, buffer
<1>4. ASSUME NEW x \in Threads, EnqueueSetLast(x) PROVE KnownInv'
  BY <1>4 DEF TypeOK, EnqueueSetLast, At, Goto, paddles
<1>5. ASSUME NEW x \in Threads, EnqueuePush(x) PROVE KnownInv'
  BY <1>5, PushEffect DEF TypeOK, EnqueuePush, At, Back, Return, Stays, paddles
<1>6. ASSUME NEW x \in Threads, NEW y \in Threads, PushCollide(x, y)
      PROVE  KnownInv'
  <2>1. /\ pc'[x] = Back(x)
        /\ pc'[y] = Back(y)
        /\ \A z \in Threads \ {x, y} : Stays(z)
    BY <1>6, CollideEffect
  <2>2. /\ pc[x] = "push"
        /\ lastPressed' = lastPressed
        /\ arg' = [z \in Threads |-> IF z \in {x, y} THEN NoItem ELSE arg[z]]
    BY <1>6 DEF PushCollide, At, Return, paddles
  <2> QED
    BY <2>1, <2>2 DEF TypeOK, Back, Stays
<1>7. ASSUME NEW w \in Workers,
             WhileStarted(w) \/ SpuriousWakeup(w) \/ Lock(w) \/ PredicateFalse(w)
               \/ NothingToPlay(w) \/ Block(w) \/ DecideNothing(w)
      PROVE  KnownInv'
  BY <1>7 DEF TypeOK, WhileStarted, SpuriousWakeup, Lock, PredicateFalse,
     NothingToPlay, Block, DecideNothing, At, Goto, paddles, buffer
<1>8. ASSUME NEW w \in Workers, Take(w) PROVE KnownInv'
  BY <1>8 DEF TypeOK, Take, At, Goto, paddles
<1>9. ASSUME NEW w \in Workers, StartPlay(w) \/ EndPlay(w) \/ DecideNoDit(w)
      PROVE  KnownInv'
  BY <1>9 DEF TypeOK, StartPlay, EndPlay, DecideNoDit, At, Goto, paddles, buffer
<1>10. ASSUME NEW w \in Workers, DecideSqueeze(w) \/ DecideDit(w) \/ DecideDah(w)
       PROVE  KnownInv'
  BY <1>10 DEF TypeOK, DecideSqueeze, DecideDit, DecideDah, CallEnqueue, At,
     Goto, Reverse, Item, paddles, buffer
<1>11. ASSUME NEW then, StopKeyer(then) PROVE KnownInv'
  <2>1. UNCHANGED <<paddles, buffer, arg>>
    BY <1>11 DEF StopKeyer
  <2> QED BY <1>11, <2>1, StopEffect DEF Stays, paddles, buffer
<1>12. ASSUME NEW m \in Modes, NEW w \in Workers, InitKeyer(m, w)
       PROVE  KnownInv'
  BY <1>12 DEF TypeOK, InitKeyer, At, Goto, paddles, buffer
<1>13. CASE Destroy \/ UNCHANGED vars
  BY <1>13 DEF Destroy, vars, paddles, buffer
<1> QED
  BY <1>1, <1>2, <1>3, <1>4, <1>5, <1>6, <1>7, <1>8, <1>9, <1>10, <1>11, <1>12,
     <1>13 DEF Next, SourceStep, WorkerStep, GuiStep, Gone

----------------------------------------------------------------------------
(* At most one element waits                                               *)

\* A step that leaves the queue alone and lets nobody past size() keeps
\* QueueInv.
LEMMA QueueFrame ==
    ASSUME QueueInv, queue' = queue, overlapped' = overlapped,
           \A x \in Threads : InEnqueue(x)' => InEnqueue(x)
    PROVE  QueueInv'
BY DEF QueueInv

\* The queue after a push into an empty one.
LEMMA LenOne == ASSUME NEW i PROVE Len(<<i>>) = 1
OBVIOUS

\* While calls do not overlap, enqueue's test of size() stays true until its push.
LEMMA QueueStep == TypeOK /\ QueueInv /\ [Next]_vars => QueueInv'
<1> SUFFICES ASSUME TypeOK, QueueInv, [Next]_vars PROVE QueueInv'
    OBVIOUS
<1> USE KeyerAssumption DEF Threads
<1>1. ASSUME NEW s \in Sources, NEW k \in Item, Press(s, k) \/ Release(s, k)
      PROVE  QueueInv'
  BY <1>1, QueueFrame DEF TypeOK, Press, Release, At, Goto, buffer, InEnqueue
<1>2. ASSUME NEW s \in Sources, SetLastPressed(s) PROVE QueueInv'
  BY <1>2, QueueFrame DEF TypeOK, SetLastPressed, At, Goto, buffer, InEnqueue
<1>3. ASSUME NEW x \in Threads, EnqueueSize(x) PROVE QueueInv'
  <2>1. CASE Len(queue) < 1
    <3>1. queue = <<>>
      BY <2>1 DEF TypeOK
    <3>2. /\ queue' = queue
          /\ pc' = [pc EXCEPT ![x] = "setQueued"]
          /\ overlapped' = (overlapped \/ \E y \in Threads \ {x} : InEnqueue(y))
      BY <1>3, <2>1 DEF EnqueueSize, Goto, buffer
    <3>3. ~overlapped' => \A y \in Threads : InEnqueue(y)' => y = x
      BY <3>2 DEF TypeOK, InEnqueue
    <3> QED
      BY <3>1, <3>2, <3>3 DEF QueueInv
  <2>2. CASE ~(Len(queue) < 1)
    BY <1>3, <2>2, QueueFrame DEF TypeOK, EnqueueSize, At, Goto, Back, buffer,
       InEnqueue
  <2> QED BY <2>1, <2>2
<1>4. ASSUME NEW x \in Threads, EnqueueSetLast(x) PROVE QueueInv'
  BY <1>4, QueueFrame DEF TypeOK, EnqueueSetLast, At, Goto, InEnqueue
<1>5. ASSUME NEW x \in Threads, EnqueuePush(x) PROVE QueueInv'
  <2>1. /\ pc[x] = "push"
        /\ queue' = Append(queue, arg[x])
        /\ overlapped' = overlapped
    BY <1>5 DEF EnqueuePush, At
  <2>2. CASE overlapped
    BY <2>1, <2>2 DEF QueueInv
  <2>3. CASE ~overlapped
    <3>1. queue = <<>> /\ \A y \in Threads : ~InEnqueue(y)'
      BY <1>5, <2>1, <2>3, PushEffect DEF QueueInv, InEnqueue, Back, Stays
    <3>2. queue' = <<arg[x]>>
      BY <2>1, <3>1
    <3>3. Len(queue') <= 1
      BY <3>2, LenOne
    <3> QED BY <3>1, <3>3 DEF QueueInv
  <2> QED BY <2>2, <2>3
<1>6. ASSUME NEW x \in Threads, NEW y \in Threads, PushCollide(x, y)
      PROVE  QueueInv'
  BY <1>6 DEF QueueInv, PushCollide, At, InEnqueue
<1>7. ASSUME NEW w \in Workers,
             WhileStarted(w) \/ SpuriousWakeup(w) \/ Lock(w) \/ PredicateFalse(w)
               \/ NothingToPlay(w) \/ Block(w) \/ DecideNothing(w)
               \/ StartPlay(w) \/ EndPlay(w) \/ DecideNoDit(w)
      PROVE  QueueInv'
  BY <1>7, QueueFrame DEF TypeOK, WhileStarted, SpuriousWakeup, Lock,
     PredicateFalse, NothingToPlay, Block, DecideNothing, StartPlay, EndPlay,
     DecideNoDit, At, Goto, buffer, InEnqueue
<1>8. ASSUME NEW w \in Workers, Take(w) PROVE QueueInv'
  BY <1>8 DEF TypeOK, QueueInv, Take, At, Goto, InEnqueue
<1>9. ASSUME NEW w \in Workers, DecideSqueeze(w) \/ DecideDit(w) \/ DecideDah(w)
      PROVE  QueueInv'
  BY <1>9, QueueFrame DEF TypeOK, DecideSqueeze, DecideDit, DecideDah,
     CallEnqueue, At, Goto, buffer, InEnqueue
<1>10. ASSUME NEW then, StopKeyer(then) PROVE QueueInv'
  <2>1. UNCHANGED <<buffer, overlapped>>
    BY <1>10 DEF StopKeyer
  <2> QED BY <1>10, <2>1, StopEffect, QueueFrame DEF Stays, InEnqueue, buffer
<1>11. ASSUME NEW m \in Modes, NEW w \in Workers, InitKeyer(m, w)
       PROVE  QueueInv'
  BY <1>11, QueueFrame DEF TypeOK, InitKeyer, At, Goto, InEnqueue, buffer
<1>12. CASE Destroy \/ UNCHANGED vars
  BY <1>12, QueueFrame DEF Destroy, vars, InEnqueue, buffer
<1> QED
  BY <1>1, <1>2, <1>3, <1>4, <1>5, <1>6, <1>7, <1>8, <1>9, <1>10, <1>11, <1>12
     DEF Next, SourceStep, WorkerStep, GuiStep, Gone
----------------------------------------------------------------------------
(* m_lastQueued follows the elements                                       *)

\* A step keeps LastQueuedInv if it leaves the queue, m_lastQueued and the locals
\* of whoever is playing or enqueuing alone.
LEMMA LastQueuedFrame ==
    ASSUME LastQueuedInv, queue' = queue, lastQueued' = lastQueued,
           overlapped' = overlapped,
           \A x \in Threads : /\ InEnqueue(x) => InEnqueue(x)'
                              /\ pc'[x] = "push" => pc[x] = "push" /\ arg'[x] = arg[x],
           \A w \in Workers :
              /\ pc'[w] \in {"squeeze", "play", "decide"}
                    => pc[w] \in {"squeeze", "play", "decide"} /\ item'[w] = item[w]
              /\ pc'[w] = "size" /\ branch'[w] = "iambic"
                    => /\ pc[w] = "size" /\ branch[w] = "iambic"
                       /\ arg'[w] = arg[w] /\ item'[w] = item[w]
    PROVE  LastQueuedInv'
BY DEF LastQueuedInv, Quiet

\* m_lastQueued is changed only by a call of enqueue that puts its element into
\* the queue, so it keeps naming the element that waits or was taken last.
LEMMA LastQueuedStep ==
    TypeOK /\ MutexInv /\ QueueInv /\ LastQueuedInv /\ [Next]_vars => LastQueuedInv'
<1> SUFFICES ASSUME TypeOK, MutexInv, QueueInv, LastQueuedInv, [Next]_vars
             PROVE  LastQueuedInv'
    OBVIOUS
<1> USE KeyerAssumption DEF Threads
<1>1. ASSUME NEW s \in Sources, NEW k \in Item, Press(s, k) \/ Release(s, k)
      PROVE  LastQueuedInv'
  BY <1>1, LastQueuedFrame DEF TypeOK, Press, Release, At, Goto, buffer, worker,
     InEnqueue
<1>2. ASSUME NEW s \in Sources, SetLastPressed(s) PROVE LastQueuedInv'
  BY <1>2, LastQueuedFrame DEF TypeOK, SetLastPressed, At, Goto, buffer, worker,
     InEnqueue
<1>3. ASSUME NEW x \in Threads, EnqueueSize(x) PROVE LastQueuedInv'
  <2>1. CASE Len(queue) < 1
    <3>1. queue = <<>>
      BY <2>1 DEF TypeOK
    <3>2. /\ pc[x] = "size"
          /\ queue' = queue
          /\ lastQueued' = lastQueued
          /\ arg' = arg
          /\ pc' = [pc EXCEPT ![x] = "setQueued"]
          /\ overlapped' = (overlapped \/ \E y \in Threads \ {x} : InEnqueue(y))
      BY <1>3, <2>1 DEF EnqueueSize, At, Goto, buffer
    <3>3. InEnqueue(x)'
      BY <3>2 DEF TypeOK, InEnqueue
    <3> QED
      BY <3>1, <3>2, <3>3 DEF TypeOK, LastQueuedInv, Quiet
  <2>2. CASE ~(Len(queue) < 1)
    BY <1>3, <2>2, LastQueuedFrame DEF TypeOK, EnqueueSize, At, Goto, Back,
       Return, buffer, InEnqueue
  <2> QED BY <2>1, <2>2
<1>4. ASSUME NEW x \in Threads, EnqueueSetLast(x) PROVE LastQueuedInv'
  <2>1. /\ pc[x] = "setQueued"
        /\ pc' = [pc EXCEPT ![x] = "push"]
        /\ lastQueued' = arg[x]
        /\ UNCHANGED <<queue, overlapped, arg>>
    BY <1>4 DEF EnqueueSetLast, At, Goto
  <2>2. ~overlapped => queue = <<>> /\ \A y \in Threads : pc'[y] = "push" => y = x
    BY <2>1 DEF TypeOK, QueueInv, InEnqueue
  <2>3. InEnqueue(x)'
    BY <2>1 DEF TypeOK, InEnqueue
  <2> QED BY <2>1, <2>2, <2>3 DEF LastQueuedInv, Quiet
<1>5. ASSUME NEW x \in Threads, EnqueuePush(x) PROVE LastQueuedInv'
  <2>1. /\ pc[x] = "push"
        /\ queue' = Append(queue, arg[x])
        /\ overlapped' = overlapped
        /\ lastQueued' = lastQueued
    BY <1>5 DEF EnqueuePush, At
  <2>2. CASE overlapped
    BY <2>1, <2>2 DEF LastQueuedInv
  <2>3. CASE ~overlapped
    <3>1. queue = <<>> /\ \A y \in Threads : pc'[y] # "push"
      BY <1>5, <2>1, <2>3, PushEffect DEF QueueInv, InEnqueue, Back, Stays
    <3>2. queue' = <<arg[x]>> /\ arg[x] = lastQueued
      BY <2>1, <2>3, <3>1 DEF LastQueuedInv
    <3>3. Head(queue') = lastQueued' /\ queue' # <<>>
      BY <2>1, <3>2
    <3> QED BY <3>1, <3>3 DEF LastQueuedInv, Quiet
  <2> QED BY <2>2, <2>3
<1>6. ASSUME NEW x \in Threads, NEW y \in Threads, PushCollide(x, y)
      PROVE  LastQueuedInv'
  BY <1>6 DEF QueueInv, LastQueuedInv, PushCollide, At, InEnqueue
<1>7. ASSUME NEW w \in Workers,
             WhileStarted(w) \/ SpuriousWakeup(w) \/ Lock(w) \/ PredicateFalse(w)
               \/ NothingToPlay(w) \/ Block(w) \/ DecideNothing(w)
      PROVE  LastQueuedInv'
  BY <1>7, LastQueuedFrame DEF TypeOK, WhileStarted, SpuriousWakeup, Lock,
     PredicateFalse, NothingToPlay, Block, DecideNothing, At, Goto, buffer,
     worker, InEnqueue
<1>8. ASSUME NEW w \in Workers, StartPlay(w) \/ EndPlay(w) \/ DecideNoDit(w)
      PROVE  LastQueuedInv'
  BY <1>8, LastQueuedFrame DEF TypeOK, StartPlay, EndPlay, DecideNoDit, At, Goto,
     buffer, worker, InEnqueue
<1>9. ASSUME NEW w \in Workers, Take(w) PROVE LastQueuedInv'
  <2>1. /\ pc[w] = "predicate"
        /\ queue # <<>>
        /\ queue' = Tail(queue)
        /\ item' = [item EXCEPT ![w] = Head(queue)]
        /\ pc' = [pc EXCEPT ![w] = "squeeze"]
        /\ UNCHANGED <<lastQueued, arg, overlapped>>
    BY <1>9 DEF Take, At, Goto
  <2>2. CASE overlapped
    BY <2>1, <2>2 DEF LastQueuedInv
  <2>3. CASE ~overlapped
    <3>1. queue' = <<>>
      BY <2>1, <2>3 DEF TypeOK, QueueInv
    <3>2. \A v \in Workers \ {w} : pc'[v] \notin Critical
      BY <2>1 DEF TypeOK, MutexInv, Critical
    <3>3. item'[w] = lastQueued' /\ pc'[w] = "squeeze"
      BY <2>1, <2>3 DEF TypeOK, LastQueuedInv
    <3>4. \A x \in Threads : pc'[x] = "push" => pc[x] = "push"
      BY <2>1 DEF TypeOK
    <3> QED BY <2>1, <2>3, <3>1, <3>2, <3>3, <3>4 DEF LastQueuedInv, Critical
  <2> QED BY <2>2, <2>3
<1>10. ASSUME NEW w \in Workers, DecideSqueeze(w) PROVE LastQueuedInv'
  <2>1. /\ pc[w] = "decide"
        /\ pc' = [pc EXCEPT ![w] = "size"]
        /\ UNCHANGED <<queue, lastQueued, overlapped, item>>
        /\ \/ /\ arg' = [arg EXCEPT ![w] = lastPressed]
              /\ branch' = [branch EXCEPT ![w] = "ultimatic"]
           \/ /\ arg' = [arg EXCEPT ![w] = Reverse(lastQueued)]
              /\ branch' = [branch EXCEPT ![w] = "iambic"]
    BY <1>10 DEF DecideSqueeze, CallEnqueue, At, Goto, buffer
  <2> QED BY <2>1 DEF TypeOK, LastQueuedInv, Quiet, InEnqueue
<1>11. ASSUME NEW w \in Workers, DecideDit(w) \/ DecideDah(w)
       PROVE  LastQueuedInv'
  BY <1>11, LastQueuedFrame DEF TypeOK, DecideDit, DecideDah, CallEnqueue, At,
     Goto, buffer, InEnqueue
<1>12. ASSUME NEW then, StopKeyer(then) PROVE LastQueuedInv'
  <2>1. UNCHANGED <<buffer, worker, arg, overlapped>>
    BY <1>12 DEF StopKeyer
  <2> QED
    BY <1>12, <2>1, StopEffect, LastQueuedFrame DEF Stays, InEnqueue, buffer, worker
<1>13. ASSUME NEW m \in Modes, NEW w \in Workers, InitKeyer(m, w)
       PROVE  LastQueuedInv'
  BY <1>13, LastQueuedFrame DEF TypeOK, InitKeyer, At, Goto, InEnqueue, buffer,
     worker
<1>14. CASE Destroy \/ UNCHANGED vars
  BY <1>14, LastQueuedFrame DEF Destroy, vars, InEnqueue, buffer, worker
<1> QED
  BY <1>1, <1>2, <1>3, <1>4, <1>5, <1>6, <1>7, <1>8, <1>9, <1>10, <1>11, <1>12,
     <1>13, <1>14 DEF Next, SourceStep, WorkerStep, GuiStep, Gone
----------------------------------------------------------------------------
(* One more element after the release                                      *)

\* A step that does not count an element keeps TrailingInv if no element has
\* been counted, or if it adds nothing to what can still be taken.
LEMMA TrailingFrame ==
    ASSUME TrailingInv, trailing' = trailing, AllUp => AllUp',
           overlapped => overlapped',
           \/ trailing = 0
           \/ overlapped
           \/ queue' = queue /\ \A w \in Workers : Committed(w)' => Committed(w)
    PROVE  TrailingInv'
BY DEF TrailingInv

\* An element taken with all paddles up leaves nothing queued and no worker bound
\* to queue another, and so the next step cannot count a second one.
LEMMA TrailingStep ==
    TypeOK /\ MutexInv /\ QueueInv /\ TrailingInv /\ [Next]_vars => TrailingInv'
<1> SUFFICES ASSUME TypeOK, MutexInv, QueueInv, TrailingInv, [Next]_vars
             PROVE  TrailingInv'
    OBVIOUS
<1> USE KeyerAssumption DEF Threads
<1>1. ASSUME NEW s \in Sources, NEW k \in Item, Press(s, k) PROVE TrailingInv'
  BY <1>1 DEF Press, TrailingInv
<1>2. ASSUME NEW s \in Sources, NEW k \in Item, Release(s, k) PROVE TrailingInv'
  BY <1>2, TrailingFrame DEF Release, AllUp, buffer, worker, Committed
<1>3. ASSUME NEW s \in Sources, SetLastPressed(s) PROVE TrailingInv'
  BY <1>3 DEF SetLastPressed, At, AllUp, TrailingInv
<1>4. ASSUME NEW x \in Threads,
             pc[x] \in {"size", "setQueued", "push"},
             trailing' = trailing, overlapped => overlapped',
             pressed' = pressed,
             \A s \in Sources : pc[s] = "idle" => pc'[s] = "idle"
      PROVE  TrailingInv'
  <2>1. CASE x \in Sources
    BY <1>4, <2>1 DEF TrailingInv, AllUp
  <2>2. CASE x \in Workers
    <3>1. Committed(x)
      BY <1>4 DEF Committed
    <3>2. trailing > 0 => overlapped
      BY <2>2, <3>1 DEF TrailingInv
    <3>3. trailing = 0 \/ overlapped
      BY <3>2 DEF TypeOK
    <3> QED BY <1>4, <3>3, TrailingFrame DEF AllUp
  <2> QED BY <1>4, <2>1, <2>2
<1>5. ASSUME NEW x \in Threads, EnqueueSize(x) PROVE TrailingInv'
  BY <1>4, <1>5 DEF TypeOK, EnqueueSize, At, Goto, Back, paddles
<1>6. ASSUME NEW x \in Threads, EnqueueSetLast(x) PROVE TrailingInv'
  BY <1>4, <1>6 DEF TypeOK, EnqueueSetLast, At, Goto, paddles
<1>7. ASSUME NEW x \in Threads, EnqueuePush(x) PROVE TrailingInv'
  BY <1>4, <1>7, PushEffect DEF EnqueuePush, At, Back, Stays, paddles
<1>8. ASSUME NEW x \in Threads, NEW y \in Threads, PushCollide(x, y)
      PROVE  TrailingInv'
  <2>1. \A s \in Sources : pc[s] = "idle" => pc'[s] = "idle"
    BY <1>8, CollideEffect DEF Back, Stays
  <2> QED BY <1>4, <1>8, <2>1 DEF PushCollide, At, paddles
<1>9. ASSUME NEW w \in Workers,
             WhileStarted(w) \/ SpuriousWakeup(w) \/ Lock(w) \/ PredicateFalse(w)
               \/ NothingToPlay(w) \/ Block(w) \/ DecideNothing(w) \/ EndPlay(w)
               \/ DecideNoDit(w)
      PROVE  TrailingInv'
  BY <1>9, TrailingFrame DEF TypeOK, WhileStarted, SpuriousWakeup, Lock,
     PredicateFalse, NothingToPlay, Block, DecideNothing, EndPlay, DecideNoDit,
     At, Goto, AllUp, paddles, buffer, worker, Committed
<1>10. ASSUME NEW w \in Workers, Take(w) PROVE TrailingInv'
  <2>1. /\ pc[w] = "predicate"
        /\ queue # <<>>
        /\ queue' = Tail(queue)
        /\ pc' = [pc EXCEPT ![w] = "squeeze"]
        /\ UNCHANGED <<pressed, overlapped>>
        /\ trailing' = IF AllUp /\ trailing < TrailingCap
                       THEN trailing + 1 ELSE trailing
    BY <1>10 DEF Take, At, Goto, paddles
  <2>2. AllUp <=> AllUp'
    BY <2>1 DEF TypeOK, AllUp
  <2>3. CASE overlapped \/ ~AllUp
    BY <2>1, <2>2, <2>3 DEF TypeOK, TrailingInv
  <2>4. CASE ~overlapped /\ AllUp
    <3>1. trailing = 0
      BY <2>1, <2>4 DEF TypeOK, TrailingInv
    <3>2. trailing' = 1
      BY <2>1, <2>4, <3>1 DEF TrailingCap
    <3>3. queue' = <<>>
      BY <2>1, <2>4 DEF TypeOK, QueueInv
    <3>4. \A v \in Workers : ~Committed(v)'
      BY <2>1 DEF TypeOK, MutexInv, Critical, Committed
    <3> QED BY <2>2, <2>4, <3>2, <3>3, <3>4 DEF TrailingInv
  <2> QED BY <2>3, <2>4
<1>11. ASSUME NEW w \in Workers, StartPlay(w) PROVE TrailingInv'
  <2>1. AllUp => branch'[w] = "single"
    BY <1>11 DEF TypeOK, StartPlay, AllUp
  <2> QED
    BY <1>11, <2>1, TrailingFrame DEF TypeOK, StartPlay, At, Goto, AllUp, paddles,
       buffer, Committed, TrailingInv
<1>12. ASSUME NEW w \in Workers, DecideSqueeze(w) PROVE TrailingInv'
  BY <1>12, TrailingFrame DEF TypeOK, DecideSqueeze, CallEnqueue, At, Goto,
     AllUp, paddles, buffer, Committed
<1>13. ASSUME NEW w \in Workers, DecideDit(w) \/ DecideDah(w)
       PROVE  TrailingInv'
  BY <1>13 DEF DecideDit, DecideDah, CallEnqueue, AllUp, TrailingInv
<1>14. ASSUME NEW then, StopKeyer(then) PROVE TrailingInv'
  <2>1. UNCHANGED <<paddles, buffer, worker, arg, overlapped, trailing>>
    BY <1>14 DEF StopKeyer
  <2> QED
    BY <1>14, <2>1, StopEffect, TrailingFrame DEF Stays, AllUp, paddles, buffer,
       worker, Committed
<1>15. ASSUME NEW m \in Modes, NEW w \in Workers, InitKeyer(m, w)
       PROVE  TrailingInv'
  BY <1>15, TrailingFrame DEF TypeOK, InitKeyer, At, Goto, AllUp, paddles,
     buffer, worker, Committed
<1>16. CASE Destroy \/ UNCHANGED vars
  BY <1>16, TrailingFrame DEF Destroy, vars, AllUp, paddles, buffer, worker,
     Committed
<1> QED
  BY <1>1, <1>2, <1>3, <1>5, <1>6, <1>7, <1>8, <1>9, <1>10, <1>11, <1>12, <1>13,
     <1>14, <1>15, <1>16 DEF Next, SourceStep, WorkerStep, GuiStep, Gone

----------------------------------------------------------------------------
(* The second look at the dit                                              *)

\* Found the dit up: a dit that is down again is on its way or waits.
LEMMA ElseStep == TypeOK /\ MutexInv /\ ElseInv /\ [Next]_vars => ElseInv'
<1> SUFFICES ASSUME TypeOK, MutexInv, ElseInv, [Next]_vars PROVE ElseInv'
    OBVIOUS
<1> USE KeyerAssumption DEF ElseInv, Threads
<1>1. ASSUME NEW s \in Sources, NEW k \in Item, Press(s, k) PROVE ElseInv'
  BY <1>1 DEF TypeOK, Press, Goto, worker
<1>2. ASSUME NEW s \in Sources, NEW k \in Item, Release(s, k) PROVE ElseInv'
  BY <1>2 DEF TypeOK, Release, buffer, worker, InEnqueue
<1>3. ASSUME NEW s \in Sources, SetLastPressed(s) PROVE ElseInv'
  BY <1>3 DEF TypeOK, SetLastPressed, Goto, worker
<1>4. ASSUME NEW x \in Threads, EnqueueSize(x) PROVE ElseInv'
  <2>1. CASE Len(queue) < 1
    BY <1>4, <2>1 DEF TypeOK, EnqueueSize, Goto, InEnqueue
  <2>2. CASE ~(Len(queue) < 1)
    BY <1>4, <2>2 DEF TypeOK, EnqueueSize, At, Goto, Back, buffer
  <2> QED BY <2>1, <2>2
<1>5. ASSUME NEW x \in Threads, EnqueueSetLast(x) PROVE ElseInv'
  BY <1>5 DEF TypeOK, EnqueueSetLast, Goto, worker, InEnqueue
<1>6. ASSUME NEW x \in Threads, EnqueuePush(x) PROVE ElseInv'
  <2>1. queue' # <<>> /\ branch' = branch
    BY <1>6 DEF TypeOK, EnqueuePush
  <2>2. \A w \in Workers : pc'[w] = "elseDah" => pc[w] = "elseDah"
    BY <1>6, PushEffect DEF Back, Stays
  <2> QED BY <2>1, <2>2
<1>7. ASSUME NEW x \in Threads, NEW y \in Threads, PushCollide(x, y)
      PROVE  ElseInv'
  <2>1. queue' # <<>> /\ branch' = branch
    BY <1>7 DEF TypeOK, PushCollide
  <2>2. \A w \in Workers : pc'[w] = "elseDah" => pc[w] = "elseDah"
    BY <1>7, CollideEffect DEF Back, Stays
  <2> QED BY <2>1, <2>2
<1>8. ASSUME NEW w \in Workers, Take(w) PROVE ElseInv'
  <2>1. \A v \in Workers : pc'[v] # "elseDah"
    BY <1>8 DEF TypeOK, MutexInv, Critical, Take, At, Goto
  <2> QED BY <2>1
<1>9. ASSUME NEW w \in Workers, DecideNoDit(w) PROVE ElseInv'
  BY <1>9 DEF TypeOK, MutexInv, Critical, DecideNoDit, At, Goto, paddles, worker
<1>10. ASSUME NEW w \in Workers,
              WhileStarted(w) \/ SpuriousWakeup(w) \/ Lock(w) \/ PredicateFalse(w)
                \/ NothingToPlay(w) \/ Block(w) \/ DecideNothing(w)
                \/ StartPlay(w) \/ EndPlay(w)
       PROVE  ElseInv'
  BY <1>10 DEF TypeOK, WhileStarted, SpuriousWakeup, Lock, PredicateFalse,
     NothingToPlay, Block, DecideNothing, StartPlay, EndPlay, At, Goto, paddles,
     buffer, worker, InEnqueue
<1>11. ASSUME NEW w \in Workers, DecideSqueeze(w) \/ DecideDit(w) \/ DecideDah(w)
       PROVE  ElseInv'
  BY <1>11 DEF TypeOK, DecideSqueeze, DecideDit, DecideDah, CallEnqueue, At,
     Goto, paddles, buffer, InEnqueue
<1>12. ASSUME NEW then, StopKeyer(then) PROVE ElseInv'
  <2>1. UNCHANGED <<paddles, buffer, worker>>
    BY <1>12 DEF StopKeyer
  <2> QED
    BY <1>12, <2>1, StopEffect DEF TypeOK, Stays, SourcePC, InEnqueue, paddles,
       buffer, worker
<1>13. ASSUME NEW m \in Modes, NEW w \in Workers, InitKeyer(m, w)
       PROVE  ElseInv'
  BY <1>13 DEF TypeOK, InitKeyer, At, Goto, InEnqueue, paddles, buffer, worker
<1>14. CASE Destroy \/ UNCHANGED vars
  BY <1>14 DEF Destroy, vars, InEnqueue, paddles, buffer, worker
<1> QED
  BY <1>1, <1>2, <1>3, <1>4, <1>5, <1>6, <1>7, <1>8, <1>9, <1>10, <1>11, <1>12,
     <1>13, <1>14 DEF Next, SourceStep, WorkerStep, GuiStep, Gone

----------------------------------------------------------------------------
(* The theorems                                                            *)

\* The keyer is constructed in a state that satisfies every part of IInv.
LEMMA InitIInv == Init => IInv
<1> SUFFICES ASSUME Init PROVE IInv
    OBVIOUS
<1> USE KeyerAssumption DEF Init, Threads
<1>1. TypeOK
  <2>1. /\ pc \in [Threads -> SourcePC \cup WorkerPC]
        /\ \A s \in Sources : pc[s] \in SourcePC
        /\ \A w \in Workers : pc[w] \in WorkerPC
    BY DEF SourcePC, WorkerPC
  <2>2. /\ mode \in Mode
        /\ branch \in [Workers -> Branch]
        /\ trailing \in 0 .. TrailingCap
        /\ held \in [Sources -> SUBSET Item]
        /\ pressed \subseteq Item
    BY DEF Mode, Branch, TrailingCap
  <2>3. queue \in Seq(Item)
    OBVIOUS
  <2> QED BY <2>1, <2>2, <2>3 DEF TypeOK
<1>2. KnownInv /\ MutexInv /\ QueueInv
  BY DEF KnownInv, MutexInv, QueueInv, Critical, InEnqueue
<1>3. LastQueuedInv /\ TrailingInv /\ ElseInv
  BY DEF LastQueuedInv, TrailingInv, ElseInv
<1> QED BY <1>1, <1>2, <1>3 DEF IInv

\* IInv holds in every reachable state of the keyer.
THEOREM Invariance == Spec => []IInv
<1>1. IInv /\ [Next]_vars => IInv'
  BY TypeStep, KnownStep, MutexStep, QueueStep, LastQueuedStep, TrailingStep,
     ElseStep DEF IInv
<1> QED BY InitIInv, <1>1, PTL DEF Spec

\* Every variable keeps its type; in particular the two members without an
\* initialiser never reach the queue.
THEOREM TypeCorrect == Spec => []TypeOK
<1>1. IInv => TypeOK
  BY DEF IInv
<1> QED BY Invariance, <1>1, PTL

\* However many workers initKeyer has left behind, one element sounds at a time.
THEOREM MutualExclusion == Spec => []OneElementAtATime
<1>1. IInv => OneElementAtATime
  BY DEF IInv, MutexInv, OneElementAtATime, Sounding, Critical
<1> QED BY Invariance, <1>1, PTL

\* While enqueue calls do not overlap at most one element waits.
THEOREM QueueBound == Spec => []QueueHoldsOne
<1>1. IInv => QueueHoldsOne
  BY DEF IInv, QueueInv, QueueHoldsOne
<1> QED BY Invariance, <1>1, PTL

\* After the last release at most one more element is taken.
THEOREM OneMore == Spec => []OneMoreElement
<1>1. IInv => OneMoreElement
  BY DEF IInv, TypeOK, TrailingInv, OneMoreElement, TrailingCap
<1> QED BY Invariance, <1>1, PTL

\* A squeeze alternates as long as enqueue calls do not overlap.
THEOREM Alternation == Spec => SqueezeAlternates
<1>1. ASSUME IInv, [Next]_vars, NEW w \in Workers,
             pc[w] = "size", pc'[w] = "setQueued", branch[w] = "iambic",
             ~overlapped'
      PROVE  arg[w] = Reverse(item[w])
  <2> USE KeyerAssumption DEF Threads
  <2>1. TypeOK
    BY <1>1 DEF IInv
  <2>2. EnqueueSize(w)
    <3>1. ASSUME NEW s \in Sources, NEW k \in Item, Press(s, k) \/ Release(s, k)
          PROVE  FALSE
      BY <1>1, <2>1, <3>1 DEF TypeOK, Press, Release, At, Goto
    <3>2. ASSUME NEW s \in Sources, SetLastPressed(s) PROVE FALSE
      BY <1>1, <2>1, <3>2 DEF TypeOK, SetLastPressed, At, Goto
    <3>3. ASSUME NEW x \in Threads \ {w}, EnqueueSize(x) \/ EnqueueSetLast(x)
          PROVE  FALSE
      BY <1>1, <2>1, <3>3 DEF TypeOK, EnqueueSize, EnqueueSetLast, At, Goto
    <3>4. ASSUME EnqueueSetLast(w) PROVE FALSE
      BY <1>1, <3>4 DEF EnqueueSetLast, At
    <3>5. ASSUME NEW x \in Threads, EnqueuePush(x) PROVE FALSE
      BY <1>1, <2>1, <3>5, PushEffect DEF Stays, Back
    <3>6. ASSUME NEW x \in Threads, NEW y \in Threads, PushCollide(x, y)
          PROVE  FALSE
      BY <1>1, <2>1, <3>6, CollideEffect DEF Stays, Back
    <3>7. ASSUME NEW v \in Workers,
                 WhileStarted(v) \/ SpuriousWakeup(v) \/ Lock(v)
                   \/ PredicateFalse(v) \/ NothingToPlay(v) \/ Block(v)
                   \/ DecideNothing(v) \/ Take(v) \/ StartPlay(v) \/ EndPlay(v)
                   \/ DecideNoDit(v)
          PROVE  FALSE
      BY <1>1, <2>1, <3>7 DEF TypeOK, WhileStarted, SpuriousWakeup, Lock,
         PredicateFalse, NothingToPlay, Block, DecideNothing, Take, StartPlay,
         EndPlay, DecideNoDit, At, Goto
    <3>8. ASSUME NEW v \in Workers, DecideSqueeze(v) \/ DecideDit(v) \/ DecideDah(v)
          PROVE  FALSE
      BY <1>1, <2>1, <3>8 DEF TypeOK, DecideSqueeze, DecideDit, DecideDah,
         CallEnqueue, Goto
    <3>9. ASSUME NEW then, StopKeyer(then) PROVE FALSE
      BY <1>1, <2>1, <3>9, StopEffect DEF Stays
    <3>10. ASSUME NEW m \in Modes, NEW v \in Workers, InitKeyer(m, v)
           PROVE  FALSE
      BY <1>1, <2>1, <3>10 DEF TypeOK, InitKeyer, Goto
    <3>11. ASSUME Destroy \/ UNCHANGED vars PROVE FALSE
      BY <1>1, <3>11 DEF Destroy, vars
    <3> QED
      BY <1>1, <3>1, <3>2, <3>3, <3>4, <3>5, <3>6, <3>7, <3>8, <3>9, <3>10, <3>11
         DEF Next, SourceStep, WorkerStep, GuiStep, Gone
  <2>3. /\ Len(queue) < 1
        /\ overlapped' = (overlapped \/ \E y \in Threads \ {w} : InEnqueue(y))
    BY <1>1, <2>1, <2>2 DEF TypeOK, EnqueueSize, Goto, Back
  <2>4. queue = <<>>
    BY <2>1, <2>3 DEF TypeOK
  <2>5. ~overlapped /\ \A y \in Threads \ {w} : ~InEnqueue(y)
    BY <1>1, <2>3
  <2>6. ~InEnqueue(w)
    BY <1>1 DEF InEnqueue
  <2>7. Quiet
    BY <2>4, <2>5, <2>6 DEF Quiet
  <2> QED BY <1>1, <2>5, <2>7 DEF IInv, LastQueuedInv
<1>2. IInv /\ [Next]_vars =>
        [\A w \in Workers :
            /\ pc[w] = "size" /\ pc'[w] = "setQueued"
            /\ branch[w] = "iambic"
            /\ ~overlapped'
            => arg[w] = Reverse(item[w])]_vars
  BY <1>1
<1> QED BY Invariance, <1>2, PTL DEF Spec, SqueezeAlternates

----------------------------------------------------------------------------
(* The refinement.  First what the operator sees in a given state.         *)

AtRest == Stage = "rest" /\ Element = NoItem /\ Squeeze = FALSE

\* The stage of the element, by the point at which the owner of m_mutex stands.
StageFacts ==
    /\ mutex = Nobody => AtRest
    /\ \A w \in Workers :
         /\ pc[w] \in {"predicate", "block", "setQueued", "push"} => AtRest
         /\ pc[w] \in {"squeeze"} \cup Sounds =>
              /\ Stage = IF pc[w] = "squeeze" THEN "begin" ELSE "sound"
              /\ Element = item[w]
              /\ Squeeze = (branch[w] = "squeeze")
         /\ pc[w] = "size" =>
              Stage = "chosen" /\ Element = arg[w] /\ Squeeze = FALSE

\* Whoever stands in a critical section is the owner, and its stage is the one shown.
LEMMA StageIs == MutexInv => StageFacts
<1> SUFFICES ASSUME MutexInv PROVE StageFacts
    OBVIOUS
<1> USE KeyerAssumption DEF Owns, Sounds, Stage, Element, Squeeze, AtRest
<1>1. ASSUME NEW w \in Workers, pc[w] \in Critical PROVE mutex = w /\ mutex # Nobody
  BY <1>1 DEF MutexInv
<1>2. ASSUME NEW w \in Workers,
             pc[w] \in {"predicate", "block", "setQueued", "push"}
      PROVE  AtRest
  BY <1>1, <1>2 DEF Critical
<1>3. ASSUME NEW w \in Workers, pc[w] \in {"squeeze"} \cup Sounds
      PROVE  /\ Stage = IF pc[w] = "squeeze" THEN "begin" ELSE "sound"
             /\ Element = item[w]
             /\ Squeeze = (branch[w] = "squeeze")
  BY <1>1, <1>3 DEF Critical
<1>4. ASSUME NEW w \in Workers, pc[w] = "size"
      PROVE  Stage = "chosen" /\ Element = arg[w] /\ Squeeze = FALSE
  BY <1>1, <1>4 DEF Critical
<1> HIDE DEF AtRest, Stage, Element, Squeeze, Sounds
<1>5. mutex = Nobody => AtRest
  BY DEF AtRest, Stage, Element, Squeeze
<1> QED BY <1>2, <1>3, <1>4, <1>5 DEF StageFacts

\* The same of the state after a step.
LEMMA StageIsNext == MutexInv' => StageFacts'
BY StageIs, PTL

\* While calls do not overlap, the memory is the element queued or being queued.
MemoryFacts ==
    ~overlapped =>
        /\ queue # <<>> => Memory = {Head(queue)}
        /\ \A x \in Threads : InEnqueue(x) => Memory = {arg[x]}
        /\ Quiet => Memory = {}

\* The queue and enqueue hold one element between them.
LEMMA MemoryIs == TypeOK /\ QueueInv => MemoryFacts
<1> SUFFICES ASSUME TypeOK, QueueInv, ~overlapped
             PROVE  /\ queue # <<>> => Memory = {Head(queue)}
                    /\ \A x \in Threads : InEnqueue(x) => Memory = {arg[x]}
                    /\ Quiet => Memory = {}
    BY DEF MemoryFacts
<1>1. ASSUME queue # <<>> PROVE Memory = {Head(queue)}
  <2>1. Len(queue) = 1
    <3>1. Len(queue) \in Nat /\ Len(queue) # 0
      BY <1>1 DEF TypeOK
    <3>2. Len(queue) <= 1
      BY DEF QueueInv
    <3> QED BY <3>1, <3>2
  <2>2. {queue[i] : i \in 1 .. Len(queue)} = {queue[1]} /\ queue[1] = Head(queue)
    BY <1>1, <2>1 DEF TypeOK
  <2>3. \A x \in Threads : ~InEnqueue(x)
    BY <1>1 DEF QueueInv
  <2>4. {arg[x] : x \in {y \in Threads : InEnqueue(y)}} = {}
    BY <2>3
  <2> QED BY <2>2, <2>4 DEF Memory
<1>2. ASSUME queue = <<>> PROVE {queue[i] : i \in 1 .. Len(queue)} = {}
  BY <1>2
<1>3. ASSUME NEW x \in Threads, InEnqueue(x) PROVE Memory = {arg[x]}
  <2>1. queue = <<>> /\ \A y \in Threads : InEnqueue(y) => y = x
    BY <1>3 DEF QueueInv
  <2> QED BY <1>2, <1>3, <2>1 DEF Memory
<1>4. Quiet => Memory = {}
  BY <1>2 DEF Quiet, Memory
<1> QED BY <1>1, <1>3, <1>4

\* The same of the state after a step.
LEMMA MemoryIsNext == TypeOK' /\ QueueInv' => MemoryFacts'
BY MemoryIs, PTL

\* A step that leaves the owner of m_mutex where it is shows in no stage.
LEMMA StageFrame ==
    ASSUME mutex' = mutex,
           mutex # Nobody => /\ pc'[mutex] = pc[mutex]
                             /\ item'[mutex] = item[mutex]
                             /\ branch'[mutex] = branch[mutex]
                             /\ arg'[mutex] = arg[mutex]
    PROVE  UNCHANGED <<Stage, Element, Squeeze>>
BY DEF Stage, Element, Squeeze, Owns

\* A step that leaves the sources' calls alone shows in none of them.
LEMMA HandsFrame ==
    ASSUME \A s \in Sources : /\ Call(s)' = Call(s)
                              /\ Call(s) # "none" => arg'[s] = arg[s]
    PROVE  UNCHANGED <<Calls, Asked>>
BY DEF Calls, Asked

\* A step that leaves the queue and the calls of enqueue alone does not show in
\* the memory.
LEMMA MemoryFrame ==
    ASSUME queue' = queue,
           \A x \in Threads : /\ InEnqueue(x)' <=> InEnqueue(x)
                              /\ InEnqueue(x) => arg'[x] = arg[x]
    PROVE  UNCHANGED Memory
<1>1. {arg[x] : x \in {y \in Threads : InEnqueue(y)}}'
        = {arg[x] : x \in {y \in Threads : InEnqueue(y)}}
  OBVIOUS
<1> QED BY <1>1 DEF Memory

\* m_mutex is never a source's, so a source's step shows in no stage.
LEMMA SourceShows ==
    ASSUME TypeOK, NEW s \in Sources,
           \E l \in SourcePC : pc' = [pc EXCEPT ![s] = l],
           item' = item, branch' = branch,
           mutex' = mutex,
           \A x \in Threads \ {s} : arg'[x] = arg[x]
    PROVE  UNCHANGED <<Stage, Element, Squeeze>>
<1>1. mutex # Nobody => mutex \in Workers /\ mutex \in Threads \ {s}
  BY KeyerAssumption DEF TypeOK, Threads
<1>2. mutex # Nobody => pc'[mutex] = pc[mutex]
  BY <1>1 DEF TypeOK
<1> QED BY <1>1, <1>2, StageFrame

\* A press is the operator's Down.
LEMMA PressRefines ==
    ASSUME TypeOK, NEW s \in Sources, NEW k \in Item, Press(s, k)
    PROVE  Op!Down(s, k)
<1> USE KeyerAssumption DEF Threads
<1>1. /\ pc[s] = "idle"
      /\ pc' = [pc EXCEPT ![s] = "setLast"]
      /\ arg' = [arg EXCEPT ![s] = k]
      /\ pressed' = pressed \cup {k}
      /\ UNCHANGED <<lastPressed, queue, mutex, item, branch, mode>>
  BY DEF Press, At, Goto, buffer, worker, control
<1>2. /\ pc'[s] = "setLast" /\ arg'[s] = k
      /\ \A x \in Threads \ {s} : pc'[x] = pc[x] /\ arg'[x] = arg[x]
  BY <1>1 DEF TypeOK
<1>3. UNCHANGED <<Stage, Element, Squeeze>>
  BY <1>1, <1>2, SourceShows DEF SourcePC
<1>4. UNCHANGED Memory
  BY <1>1, <1>2, MemoryFrame DEF InEnqueue
<1>5. /\ Calls[s] = "none"
      /\ Calls' = [Calls EXCEPT ![s] = "new"]
      /\ Asked' = [Asked EXCEPT ![s] = k]
  BY <1>1, <1>2 DEF Calls, Asked, Call
<1> QED BY <1>1, <1>3, <1>4, <1>5 DEF Op!Down, Op!keyer

\* The write of m_lastPressed is the keyer's Note.
LEMMA NoteRefines ==
    ASSUME TypeOK, NEW s \in Sources, SetLastPressed(s)
    PROVE  Op!Note(s)
<1> USE KeyerAssumption DEF Threads
<1>1. /\ pc[s] = "setLast"
      /\ pc' = [pc EXCEPT ![s] = "size"]
      /\ lastPressed' = arg[s]
      /\ UNCHANGED <<pressed, queue, mutex, item, branch, mode, arg>>
  BY DEF SetLastPressed, At, Goto, buffer, worker, control
<1>2. pc'[s] = "size" /\ \A x \in Threads \ {s} : pc'[x] = pc[x]
  BY <1>1 DEF TypeOK
<1>3. UNCHANGED <<Stage, Element, Squeeze>>
  BY <1>1, SourceShows DEF SourcePC
<1>4. UNCHANGED Memory
  BY <1>1, <1>2, MemoryFrame DEF InEnqueue
<1>5. /\ Calls[s] = "new"
      /\ Calls' = [Calls EXCEPT ![s] = "noted"]
      /\ Asked' = Asked
      /\ Asked[s] = arg[s]
  BY <1>1, <1>2 DEF Calls, Asked, Call
<1> QED BY <1>1, <1>3, <1>4, <1>5 DEF Op!Note, Op!keyer

\* A release is the operator's Up.
LEMMA ReleaseRefines ==
    ASSUME NEW s \in Sources, NEW k \in Item, Release(s, k)
    PROVE  Op!Up(k)
<1>1. /\ pressed' = pressed \ {k}
      /\ UNCHANGED <<lastPressed, queue, mutex, item, branch, mode, pc, arg>>
  BY DEF Release, buffer, worker, control
<1>2. UNCHANGED <<Stage, Element, Squeeze>>
  BY <1>1, StageFrame
<1>3. UNCHANGED Memory
  BY <1>1, MemoryFrame DEF InEnqueue
<1>4. UNCHANGED <<Calls, Asked>>
  BY <1>1, HandsFrame DEF Call
<1> QED BY <1>1, <1>2, <1>3, <1>4 DEF Op!Up, Op!keyer

\* What a call of enqueue does to the memory at its test of size(): it fills an
\* empty one and leaves a full one alone.
LEMMA OfferFills ==
    ASSUME IInv, IInv', NEW x \in Threads, EnqueueSize(x), ~overlapped'
    PROVE  Memory' = IF Memory = {} THEN {arg[x]} ELSE Memory
<1> USE KeyerAssumption DEF Threads
<1>1. TypeOK /\ QueueInv /\ TypeOK' /\ QueueInv'
  BY DEF IInv
<1>2. CASE Len(queue) < 1
  <2>1. queue = <<>>
    BY <1>1, <1>2 DEF TypeOK
  <2>2. /\ pc[x] = "size"
        /\ pc' = [pc EXCEPT ![x] = "setQueued"]
        /\ arg' = arg
        /\ overlapped' = (overlapped \/ \E y \in Threads \ {x} : InEnqueue(y))
    BY <1>2 DEF EnqueueSize, At, Goto
  <2>3. ~overlapped /\ Quiet
    BY <2>1, <2>2 DEF Quiet, InEnqueue
  <2>4. InEnqueue(x)'
    BY <1>1, <2>2 DEF TypeOK, InEnqueue
  <2>5. Memory' = {arg[x]}
    BY <1>1, <2>2, <2>4, MemoryIsNext DEF MemoryFacts
  <2> QED BY <1>1, <2>3, <2>5, MemoryIs DEF MemoryFacts
<1>3. CASE ~(Len(queue) < 1)
  <2>1. /\ pc[x] = "size"
        /\ pc' = [pc EXCEPT ![x] = Back(x)]
        /\ arg' = [y \in Threads |-> IF y \in {x} THEN NoItem ELSE arg[y]]
        /\ queue' = queue
        /\ overlapped' = overlapped
    BY <1>3 DEF EnqueueSize, At, Goto, Return, buffer
  <2>2. queue # <<>>
    BY <1>3
  <2>3. Memory # {}
    BY <1>1, <2>1, <2>2, MemoryIs DEF MemoryFacts
  <2>4. UNCHANGED Memory
    BY <1>1, <2>1, MemoryFrame DEF TypeOK, InEnqueue, Back
  <2> QED BY <2>3, <2>4
<1> QED BY <1>2, <1>3

\* The test of size() in a source's call is where its press is taken or refused.
LEMMA OfferRefines ==
    ASSUME IInv, IInv', NEW s \in Sources, EnqueueSize(s), ~overlapped'
    PROVE  Op!Offer(s)
<1> USE KeyerAssumption DEF Threads
<1>1. TypeOK /\ TypeOK'
  BY DEF IInv
<1>2. /\ pc[s] = "size"
      /\ \E l \in {"setQueued", "idle"} : pc' = [pc EXCEPT ![s] = l]
      /\ UNCHANGED <<pressed, lastPressed, item, branch, mode>>
      /\ \A x \in Threads \ {s} : arg'[x] = arg[x]
      /\ mutex' = IF mutex \in {s} THEN Nobody ELSE mutex
  BY <1>1 DEF EnqueueSize, At, Goto, Return, Unlock, Back, paddles, control,
     TypeOK
<1>3. mutex' = mutex
  BY <1>1, <1>2 DEF TypeOK
<1>4. UNCHANGED <<Stage, Element, Squeeze>>
  BY <1>1, <1>2, <1>3, SourceShows DEF SourcePC
<1>5. /\ Calls[s] = "noted"
      /\ Calls' = [Calls EXCEPT ![s] = "none"]
      /\ Asked' = [Asked EXCEPT ![s] = NoItem]
      /\ Asked[s] = arg[s]
  BY <1>1, <1>2 DEF Calls, Asked, Call, TypeOK
<1>6. Memory' = IF Memory = {} THEN {arg[s]} ELSE Memory
  BY OfferFills
<1> QED BY <1>2, <1>4, <1>5, <1>6 DEF Op!Offer, Op!Keep, Op!keyer

\* A worker's step shows nothing in the sources' calls.
LEMMA WorkerShows ==
    ASSUME TypeOK, NEW w \in Workers,
           \A x \in Threads \ {w} : pc'[x] = pc[x] /\ arg'[x] = arg[x]
    PROVE  UNCHANGED <<Calls, Asked>>
<1>1. \A s \in Sources : s \in Threads \ {w}
  BY KeyerAssumption DEF Threads
<1> QED BY <1>1, HandsFrame DEF Call

\* A worker's step outside enqueue that leaves the queue does not show in the
\* memory.
LEMMA MemoryShows ==
    ASSUME NEW w \in Workers, ~InEnqueue(w), ~InEnqueue(w)', queue' = queue,
           \A x \in Threads \ {w} : pc'[x] = pc[x] /\ arg'[x] = arg[x]
    PROVE  UNCHANGED Memory
BY MemoryFrame DEF InEnqueue

\* Taking an element from the queue begins it.
LEMMA TakeRefines ==
    ASSUME IInv, IInv', NEW w \in Workers, Take(w), ~overlapped'
    PROVE  Op!Begin
<1> USE KeyerAssumption DEF Threads
<1>1. TypeOK /\ MutexInv /\ QueueInv /\ TypeOK' /\ MutexInv' /\ QueueInv'
  BY DEF IInv
<1>2. /\ pc[w] = "predicate"
      /\ queue # <<>>
      /\ queue' = Tail(queue)
      /\ item' = [item EXCEPT ![w] = Head(queue)]
      /\ branch' = [branch EXCEPT
            ![w] = IF "DIT" \in pressed THEN "squeeze" ELSE "single"]
      /\ pc' = [pc EXCEPT ![w] = "squeeze"]
      /\ UNCHANGED <<pressed, lastPressed, mode, arg, overlapped>>
  BY DEF Take, At, Goto, paddles, control
<1>3. /\ pc'[w] = "squeeze"
      /\ item'[w] = Head(queue)
      /\ branch'[w] = IF "DIT" \in pressed THEN "squeeze" ELSE "single"
  BY <1>1, <1>2 DEF TypeOK
<1>4. Stage = "rest"
  BY <1>1, <1>2, StageIs DEF StageFacts, AtRest
<1>5. /\ Stage' = "begin"
      /\ Element' = Head(queue)
      /\ Squeeze' = ("DIT" \in pressed)
  BY <1>1, <1>3, StageIsNext DEF StageFacts
<1>6. Memory = {Head(queue)} /\ Memory' = {}
  <2>1. Memory = {Head(queue)}
    BY <1>1, <1>2, MemoryIs DEF MemoryFacts
  <2>2. queue' = <<>>
    BY <1>1, <1>2 DEF TypeOK, QueueInv
  <2>3. \A x \in Threads : ~InEnqueue(x)'
    BY <1>1, <1>2 DEF TypeOK, QueueInv, InEnqueue
  <2>4. Quiet'
    BY <2>2, <2>3 DEF Quiet
  <2> QED BY <1>1, <2>1, <2>4, MemoryIsNext DEF MemoryFacts
<1>7. UNCHANGED <<Calls, Asked>>
  BY <1>1, <1>2, WorkerShows DEF TypeOK
<1> QED BY <1>2, <1>4, <1>5, <1>6, <1>7 DEF Op!Begin, Op!hands

\* The read of m_dahPressed is where it sounds and a squeeze is known.
LEMMA StartPlayRefines ==
    ASSUME IInv, IInv', NEW w \in Workers, StartPlay(w)
    PROVE  Op!Sound
<1> USE KeyerAssumption DEF Threads
<1>1. TypeOK /\ MutexInv /\ TypeOK' /\ MutexInv'
  BY DEF IInv
<1>2. /\ pc[w] = "squeeze"
      /\ pc' = [pc EXCEPT ![w] = "play"]
      /\ branch' = [branch EXCEPT
            ![w] = IF @ = "squeeze" /\ "DAH" \in pressed THEN @ ELSE "single"]
      /\ UNCHANGED <<pressed, lastPressed, mode, queue, item, arg>>
  BY DEF StartPlay, At, Goto, paddles, buffer, control
<1>3. /\ pc'[w] = "play"
      /\ branch'[w] = "squeeze" <=> branch[w] = "squeeze" /\ "DAH" \in pressed
  BY <1>1, <1>2 DEF TypeOK
<1>4. Stage = "begin" /\ Element = item[w] /\ Squeeze = (branch[w] = "squeeze")
  BY <1>1, <1>2, StageIs DEF StageFacts, Sounds
<1>5. Stage' = "sound" /\ Element' = item'[w] /\ Squeeze' = (branch'[w] = "squeeze")
  BY <1>1, <1>3, StageIsNext DEF StageFacts, Sounds
<1>6. UNCHANGED Memory
  BY <1>1, <1>2, MemoryShows DEF TypeOK, InEnqueue
<1>7. UNCHANGED <<Calls, Asked>>
  BY <1>1, <1>2, WorkerShows DEF TypeOK
<1>8. Squeeze' = (Squeeze /\ "DAH" \in pressed)
  BY <1>3, <1>4, <1>5
<1>9. Element' = Element
  BY <1>2, <1>4, <1>5
<1> QED BY <1>2, <1>4, <1>5, <1>6, <1>7, <1>8, <1>9 DEF Op!Sound, Op!hands

\* A worker's call of enqueue(i) in branch b, after its element.
LEMMA ChooseRefines ==
    ASSUME IInv, IInv', NEW w \in Workers, pc[w] \in {"decide", "elseDah"},
           NEW i \in Item, NEW b, CallEnqueue(w, i, b),
           IF branch[w] = "squeeze" THEN Op!SqueezeAdds(i) ELSE Op!PaddleAdds(i)
    PROVE  Op!Choose(i)
<1> USE KeyerAssumption DEF Threads
<1>1. TypeOK /\ MutexInv /\ TypeOK' /\ MutexInv'
  BY DEF IInv
<1>2. /\ pc' = [pc EXCEPT ![w] = "size"]
      /\ arg' = [arg EXCEPT ![w] = i]
      /\ UNCHANGED <<pressed, lastPressed, mode, queue>>
  BY DEF CallEnqueue, Goto, paddles, buffer, control
<1>3. pc'[w] = "size" /\ arg'[w] = i
  BY <1>1, <1>2 DEF TypeOK
<1>4. Stage = "sound" /\ Squeeze = (branch[w] = "squeeze")
  BY <1>1, StageIs DEF StageFacts, Sounds
<1>5. Stage' = "chosen" /\ Element' = i /\ Squeeze' = FALSE
  BY <1>1, <1>3, StageIsNext DEF StageFacts
<1>6. UNCHANGED Memory
  BY <1>1, <1>2, MemoryShows DEF TypeOK, InEnqueue
<1>7. UNCHANGED <<Calls, Asked>>
  BY <1>1, <1>2, WorkerShows DEF TypeOK
<1> QED BY <1>2, <1>4, <1>5, <1>6, <1>7 DEF Op!Choose, Op!hands

\* After a squeeze m_lastQueued is still the element that has sounded, unless an
\* element waits, to which enqueue adds nothing.
LEMMA SqueezeRefines ==
    ASSUME IInv, IInv', NEW w \in Workers, DecideSqueeze(w), ~overlapped'
    PROVE  \E i \in Item : Op!Choose(i)
<1>1. /\ TypeOK /\ KnownInv /\ MutexInv /\ QueueInv /\ LastQueuedInv
      /\ pc[w] = "decide" /\ branch[w] = "squeeze" /\ w \in Threads
      /\ overlapped' = overlapped
  BY DEF IInv, DecideSqueeze, CallEnqueue, At, Threads
<1>2. CASE mode = "ULTIMATIC"
  <2>1. lastPressed \in Item
    BY <1>1 DEF KnownInv
  <2>2. CallEnqueue(w, lastPressed, "ultimatic")
    BY <1>2 DEF DecideSqueeze
  <2>3. Op!SqueezeAdds(lastPressed)
    BY <1>2 DEF Op!SqueezeAdds
  <2> QED BY <1>1, <2>1, <2>2, <2>3, ChooseRefines
<1>3. CASE mode # "ULTIMATIC"
  <2>1. Reverse(lastQueued) \in Item
    BY DEF Reverse, Item
  <2>2. CallEnqueue(w, Reverse(lastQueued), "iambic")
    BY <1>3 DEF DecideSqueeze
  <2>3. Memory = {} => Quiet
    BY <1>1, MemoryIs DEF MemoryFacts, Quiet
  <2>4. Memory = {} => lastQueued = item[w]
    BY <1>1, <2>3 DEF LastQueuedInv
  <2>5. Element = item[w]
    BY <1>1, StageIs DEF StageFacts, Sounds
  <2>6. Op!SqueezeAdds(Reverse(lastQueued))
    BY <1>3, <2>4, <2>5 DEF Op!SqueezeAdds, Op!Reverse, Reverse
  <2> QED BY <1>1, <2>1, <2>2, <2>6, ChooseRefines
<1> QED BY <1>2, <1>3

\* A dit that is down repeats.
LEMMA DitRefines ==
    ASSUME IInv, IInv', NEW w \in Workers, DecideDit(w)
    PROVE  \E i \in Item : Op!Choose(i)
<1>1. /\ pc[w] = "decide" /\ branch[w] = "single" /\ "DIT" \in pressed
      /\ CallEnqueue(w, "DIT", "dit") /\ "DIT" \in Item
  BY DEF DecideDit, At, Item
<1>2. Op!PaddleAdds("DIT")
  BY <1>1 DEF Op!PaddleAdds
<1> QED BY <1>1, <1>2, ChooseRefines

\* A worker that found the dit up and now sees it down has a press to answer.
LEMMA ElsePending ==
    ASSUME IInv, ~overlapped, NEW w \in Workers, pc[w] = "elseDah",
           "DIT" \in pressed
    PROVE  Op!Pending
<1>1. TypeOK /\ QueueInv /\ ElseInv
  BY DEF IInv
<1>2. ASSUME queue # <<>> \/ \E x \in Threads : InEnqueue(x)
      PROVE  Memory # {}
  BY <1>1, <1>2, MemoryIs DEF MemoryFacts
<1>3. ASSUME NEW s \in Sources, pc[s] \in {"setLast", "size"}
      PROVE  Calls[s] # "none"
  BY <1>3 DEF Calls, Call
<1> QED BY <1>1, <1>2, <1>3 DEF ElseInv, Op!Pending

\* A dah that is down repeats; a dit seen down as well has a press to come, and the
\* branch of a worker that looks at the dah is not a squeeze's.
LEMMA DahRefines ==
    ASSUME IInv, IInv', NEW w \in Workers, DecideDah(w), ~overlapped'
    PROVE  \E i \in Item : Op!Choose(i)
<1>1. /\ pc[w] = "elseDah" /\ "DAH" \in pressed /\ overlapped' = overlapped
      /\ CallEnqueue(w, "DAH", "dah") /\ "DAH" \in Item
  BY DEF DecideDah, CallEnqueue, At, Item
<1>2. Op!PaddleAdds("DAH")
  BY <1>1, ElsePending DEF Op!PaddleAdds
<1>3. branch[w] # "squeeze"
  BY <1>1 DEF IInv, ElseInv
<1> QED BY <1>1, <1>2, <1>3, ChooseRefines

\* The keyer comes to rest only if no paddle is down, but for a press to come.
LEMMA NothingRefines ==
    ASSUME IInv, IInv', NEW w \in Workers, DecideNothing(w), ~overlapped'
    PROVE  Op!Rest
<1> USE KeyerAssumption DEF Threads
<1>1. TypeOK /\ MutexInv /\ TypeOK' /\ MutexInv'
  BY DEF IInv
<1>2. /\ pc[w] = "elseDah" /\ "DAH" \notin pressed
      /\ pc' = [pc EXCEPT ![w] = "while"]
      /\ mutex' = IF mutex \in {w} THEN Nobody ELSE mutex
      /\ UNCHANGED <<pressed, lastPressed, mode, queue, item, branch, arg,
                     overlapped>>
  BY DEF DecideNothing, At, Goto, Unlock, paddles, buffer, control
<1>3. mutex' = Nobody
  BY <1>1, <1>2 DEF MutexInv, Critical
<1>4. branch[w] # "squeeze"
  BY <1>2 DEF IInv, ElseInv
<1>5. Stage = "sound" /\ Squeeze = FALSE
  BY <1>1, <1>2, <1>4, StageIs DEF StageFacts, Sounds
<1>6. Stage' = "rest" /\ Element' = NoItem /\ Squeeze' = FALSE
  BY <1>1, <1>3, StageIsNext DEF StageFacts, AtRest
<1>7. UNCHANGED Memory
  BY <1>1, <1>2, MemoryShows DEF TypeOK, InEnqueue
<1>8. UNCHANGED <<Calls, Asked>>
  BY <1>1, <1>2, WorkerShows DEF TypeOK
<1>9. pressed \subseteq {"DIT"}
  BY <1>1, <1>2 DEF TypeOK, Item
<1>10. ~overlapped /\ pc[w] = "elseDah"
  BY <1>2
<1>11. "DIT" \in pressed => Op!Pending
  BY <1>10, ElsePending
<1>12. pressed # {} => Op!Pending
  BY <1>9, <1>11
<1> QED BY <1>2, <1>5, <1>6, <1>7, <1>8, <1>12 DEF Op!Rest, Op!hands

\* The test of size() in the worker's own call is where its choice is added or lost.
LEMMA AddRefines ==
    ASSUME IInv, IInv', NEW w \in Workers, EnqueueSize(w), ~overlapped'
    PROVE  Op!Add
<1> USE KeyerAssumption DEF Threads
<1>1. TypeOK /\ MutexInv /\ TypeOK' /\ MutexInv'
  BY DEF IInv
<1>2. /\ pc[w] = "size"
      /\ \/ pc' = [pc EXCEPT ![w] = "setQueued"]
         \/ /\ pc' = [pc EXCEPT ![w] = "while"]
            /\ mutex' = IF mutex \in {w} THEN Nobody ELSE mutex
      /\ UNCHANGED <<pressed, lastPressed, item, branch, mode>>
      /\ \A x \in Threads \ {w} : arg'[x] = arg[x]
  BY <1>1 DEF EnqueueSize, At, Goto, Return, Unlock, Back, paddles, control, TypeOK
<1>3. pc'[w] = "setQueued" \/ mutex' = Nobody
  BY <1>1, <1>2 DEF TypeOK, MutexInv, Critical
<1>4. Stage = "chosen" /\ Element = arg[w] /\ Squeeze = FALSE
  BY <1>1, <1>2, StageIs DEF StageFacts
<1>5. Stage' = "rest" /\ Element' = NoItem /\ Squeeze' = FALSE
  BY <1>1, <1>3, StageIsNext DEF StageFacts, AtRest
<1>6. Memory' = IF Memory = {} THEN {arg[w]} ELSE Memory
  BY OfferFills
<1>7. UNCHANGED <<Calls, Asked>>
  BY <1>1, <1>2, WorkerShows DEF TypeOK
<1> QED BY <1>2, <1>4, <1>5, <1>6, <1>7 DEF Op!Add, Op!Keep, Op!hands

\* The operator sees nothing of a step that leaves what is shown alone.
LEMMA Unseen ==
    ASSUME UNCHANGED <<pressed, lastPressed, mode>>, UNCHANGED <<Calls, Asked>>,
           UNCHANGED Memory, UNCHANGED <<Stage, Element, Squeeze>>
    PROVE  UNCHANGED Op!vars
BY DEF Op!vars, Op!hands, Op!keyer

\* Both ends of a step at rest look the same.
LEMMA RestShows ==
    ASSUME AtRest, AtRest'
    PROVE  UNCHANGED <<Stage, Element, Squeeze>>
BY DEF AtRest

\* Waiting for elements, taking m_mutex and giving it back, and the steps between
\* the end of an element and the keyer's choice.
LEMMA WaitUnseen ==
    ASSUME IInv, IInv', NEW w \in Workers,
           WhileStarted(w) \/ SpuriousWakeup(w) \/ Lock(w) \/ NothingToPlay(w)
             \/ PredicateFalse(w) \/ Block(w) \/ EndPlay(w) \/ DecideNoDit(w)
    PROVE  UNCHANGED Op!vars
<1> USE KeyerAssumption DEF Threads
<1>1. TypeOK /\ MutexInv /\ TypeOK' /\ MutexInv'
  BY DEF IInv
<1>2. UNCHANGED <<pressed, lastPressed, mode, queue, arg>>
  BY DEF WhileStarted, SpuriousWakeup, Lock, NothingToPlay, PredicateFalse,
     Block, EndPlay, DecideNoDit, paddles, buffer, control
<1>3. /\ ~InEnqueue(w) /\ ~InEnqueue(w)'
      /\ \A x \in Threads \ {w} : pc'[x] = pc[x]
  BY <1>1 DEF WhileStarted, SpuriousWakeup, Lock, NothingToPlay, PredicateFalse,
     Block, EndPlay, DecideNoDit, At, Goto, InEnqueue, TypeOK
<1>4. UNCHANGED Memory
  BY <1>2, <1>3, MemoryShows
<1>5. UNCHANGED <<Calls, Asked>>
  BY <1>1, <1>2, <1>3, WorkerShows
<1>6. CASE WhileStarted(w) \/ SpuriousWakeup(w)
  <2>1. /\ mutex' = mutex
        /\ pc[w] \in {"while", "blocked"}
        /\ \A v \in Workers \ {w} : item'[v] = item[v] /\ branch'[v] = branch[v]
    BY <1>1, <1>6 DEF WhileStarted, SpuriousWakeup, At, worker, TypeOK
  <2>2. mutex # Nobody => mutex \in Workers \ {w}
    BY <1>1, <2>1 DEF TypeOK, MutexInv, Critical
  <2>3. UNCHANGED <<Stage, Element, Squeeze>>
    BY <1>2, <1>3, <2>1, <2>2, StageFrame
  <2> QED BY <1>2, <1>4, <1>5, <2>3, Unseen
<1>7. CASE Lock(w) \/ NothingToPlay(w) \/ PredicateFalse(w) \/ Block(w)
  <2>1. /\ mutex = Nobody \/ pc[w] \in {"predicate", "block"}
        /\ mutex' = Nobody \/ pc'[w] \in {"predicate", "block"}
    BY <1>1, <1>7 DEF Lock, NothingToPlay, PredicateFalse, Block, At, Goto, Unlock,
       TypeOK, MutexInv, Critical
  <2>2. AtRest /\ AtRest'
    BY <1>1, <2>1, StageIs, StageIsNext DEF StageFacts
  <2> QED BY <1>2, <1>4, <1>5, <2>2, RestShows, Unseen
<1>8. CASE EndPlay(w) \/ DecideNoDit(w)
  <2>1. /\ pc[w] \in {"play", "decide"} /\ pc'[w] \in {"decide", "elseDah"}
        /\ item' = item /\ branch' = branch
    BY <1>1, <1>8 DEF EndPlay, DecideNoDit, At, Goto, worker, TypeOK
  <2>2. Stage = "sound" /\ Element = item[w] /\ Squeeze = (branch[w] = "squeeze")
    BY <1>1, <2>1, StageIs DEF StageFacts, Sounds
  <2>3. /\ Stage' = "sound"
        /\ Element' = item'[w]
        /\ Squeeze' = (branch'[w] = "squeeze")
    BY <1>1, <2>1, StageIsNext DEF StageFacts, Sounds
  <2>4. UNCHANGED <<Stage, Element, Squeeze>>
    BY <2>1, <2>2, <2>3
  <2> QED BY <1>2, <1>4, <1>5, <2>4, Unseen
<1> QED BY <1>6, <1>7, <1>8

\* The rest of enqueue: the element is in the memory from the test of size() on.
LEMMA EnqueueUnseen ==
    ASSUME IInv, IInv', ~overlapped', NEW x \in Threads,
           EnqueueSetLast(x) \/ EnqueuePush(x)
    PROVE  UNCHANGED Op!vars
<1> USE KeyerAssumption DEF Threads
<1>1. TypeOK /\ MutexInv /\ QueueInv /\ TypeOK' /\ MutexInv' /\ QueueInv'
  BY DEF IInv
<1>2. /\ UNCHANGED <<pressed, lastPressed, mode, overlapped, item, branch>>
      /\ InEnqueue(x)
      /\ \A y \in Threads \ {x} : arg'[y] = arg[y]
  BY DEF EnqueueSetLast, EnqueuePush, Return, At, InEnqueue, paddles, control,
     worker
<1>3. pc'[x] \in {"push", Back(x)} /\ \A y \in Threads \ {x} : Stays(y)
  BY <1>1, PushEffect DEF EnqueueSetLast, At, Goto, Stays, TypeOK
<1>4. UNCHANGED <<Calls, Asked>>
  <2>1. \A s \in Sources : /\ Call(s)' = Call(s)
                           /\ Call(s) # "none" => s # x
    BY <1>1, <1>2, <1>3 DEF Call, Stays, Back, InEnqueue, TypeOK, SourcePC
  <2> QED BY <1>2, <2>1, HandsFrame
<1>5. Memory = {arg[x]}
  BY <1>1, <1>2, MemoryIs DEF MemoryFacts
<1>6. Memory' = {arg[x]}
  <2>1. CASE EnqueueSetLast(x)
    <3>1. arg' = arg /\ InEnqueue(x)'
      BY <1>1, <2>1 DEF EnqueueSetLast, Goto, InEnqueue, TypeOK
    <3> QED BY <1>1, <3>1, MemoryIsNext DEF MemoryFacts
  <2>2. CASE EnqueuePush(x)
    <3>1. queue = <<>>
      BY <1>1, <1>2 DEF QueueInv
    <3>2. queue' = <<arg[x]>>
      BY <2>2, <3>1 DEF EnqueuePush
    <3>3. queue' # <<>> /\ Head(queue') = arg[x]
      BY <3>2
    <3> QED BY <1>1, <3>3, MemoryIsNext DEF MemoryFacts
  <2> QED BY <2>1, <2>2
<1>7. CASE x \in Sources
  <2>1. mutex' = mutex /\ (mutex # Nobody => mutex \in Workers /\ mutex # x)
    BY <1>1, <1>7 DEF EnqueueSetLast, EnqueuePush, Return, Unlock, worker, TypeOK
  <2>2. mutex # Nobody => pc'[mutex] = pc[mutex]
    BY <1>1, <1>3, <2>1 DEF Stays, MutexInv, Critical
  <2>3. UNCHANGED <<Stage, Element, Squeeze>>
    BY <1>2, <2>1, <2>2, StageFrame
  <2> QED BY <1>2, <1>4, <1>5, <1>6, <2>3, Unseen
<1>8. CASE x \in Workers
  <2>1. pc[x] \in {"setQueued", "push"} /\ (pc'[x] = "push" \/ mutex' = Nobody)
    BY <1>1, <1>2, <1>8 DEF InEnqueue, EnqueueSetLast, EnqueuePush, At, Goto,
       Return, Unlock, TypeOK, MutexInv, Critical
  <2>2. AtRest /\ AtRest'
    BY <1>1, <1>8, <2>1, StageIs, StageIsNext DEF StageFacts
  <2> QED BY <1>2, <1>4, <1>5, <1>6, <2>2, RestShows, Unseen
<1> QED BY <1>7, <1>8

\* initKeyer and the destructor: what sounds goes on, and only the mode shows.
LEMMA GuiRefines ==
    ASSUME IInv,
           \/ \E then : StopKeyer(then)
           \/ \E m \in Modes, w \in Workers : InitKeyer(m, w)
           \/ Destroy
    PROVE  (\E m \in Modes : Op!SetMode(m)) \/ UNCHANGED Op!vars
<1> USE KeyerAssumption DEF Threads
<1>1. TypeOK /\ MutexInv
  BY DEF IInv
<1>2. UNCHANGED <<pressed, lastPressed, queue, mutex, item, branch, arg>>
  BY DEF StopKeyer, InitKeyer, Destroy, paddles, buffer, worker
<1>3. \A x \in Threads :
         \/ pc'[x] = pc[x]
         \/ /\ x \in Workers
            /\ pc[x] \in {"blocked", "dead"}
            /\ pc'[x] \in {"lock", "while"}
  <2>1. ASSUME NEW then, StopKeyer(then) PROVE \A x \in Threads : Stays(x)
    BY <1>1, <2>1, StopEffect
  <2> QED BY <1>1, <2>1 DEF Stays, InitKeyer, Destroy, At, Goto, TypeOK
<1>4. UNCHANGED Memory
  BY <1>2, <1>3, MemoryFrame DEF InEnqueue
<1>5. UNCHANGED <<Calls, Asked>>
  BY <1>2, <1>3, HandsFrame DEF Call
<1>6. UNCHANGED <<Stage, Element, Squeeze>>
  <2>1. mutex # Nobody => pc'[mutex] = pc[mutex]
    BY <1>1, <1>3 DEF TypeOK, MutexInv, Critical
  <2> QED BY <1>2, <2>1, StageFrame
<1>7. mode' = mode \/ \E m \in Modes : mode' = m
  BY DEF StopKeyer, InitKeyer, Destroy
<1>8. ASSUME NEW m \in Modes, mode' = m PROVE Op!SetMode(m)
  BY <1>2, <1>4, <1>5, <1>6, <1>8 DEF Op!SetMode, Op!hands, Op!keyer
<1> QED BY <1>2, <1>4, <1>5, <1>6, <1>7, <1>8, Unseen

\* Every step before the first overlap is one of IambicKeyer, or is not seen.
LEMMA RefineStep ==
    ASSUME IInv, IInv', [Next]_vars, ~overlapped'
    PROVE  [Op!Next]_(Op!vars)
<1> USE DEF Threads
<1>1. ASSUME NEW s \in Sources, NEW k \in Item, Press(s, k) PROVE Op!Next
  BY <1>1, PressRefines DEF IInv, Op!Next, Item
<1>2. ASSUME NEW s \in Sources, NEW k \in Item, Release(s, k) PROVE Op!Next
  BY <1>2, ReleaseRefines DEF Op!Next, Item
<1>3. ASSUME NEW s \in Sources, SetLastPressed(s) PROVE Op!Next
  BY <1>3, NoteRefines DEF IInv, Op!Next
<1>4. ASSUME NEW s \in Sources, EnqueueSize(s) PROVE Op!Next
  BY <1>4, OfferRefines DEF Op!Next
<1>5. ASSUME NEW w \in Workers, EnqueueSize(w) PROVE Op!Next
  BY <1>5, AddRefines DEF Op!Next
<1>6. ASSUME NEW w \in Workers, Take(w) PROVE Op!Next
  BY <1>6, TakeRefines DEF Op!Next
<1>7. ASSUME NEW w \in Workers, StartPlay(w) PROVE Op!Next
  BY <1>7, StartPlayRefines DEF Op!Next
<1>8. ASSUME NEW w \in Workers, DecideSqueeze(w) \/ DecideDit(w) \/ DecideDah(w)
      PROVE  Op!Next
  BY <1>8, SqueezeRefines, DitRefines, DahRefines DEF Op!Next, Item
<1>9. ASSUME NEW w \in Workers, DecideNothing(w) PROVE Op!Next
  BY <1>9, NothingRefines DEF Op!Next
<1>10. ASSUME NEW w \in Workers,
              WhileStarted(w) \/ SpuriousWakeup(w) \/ Lock(w) \/ NothingToPlay(w)
                \/ PredicateFalse(w) \/ Block(w) \/ EndPlay(w) \/ DecideNoDit(w)
       PROVE  UNCHANGED Op!vars
  BY <1>10, WaitUnseen
<1>11. ASSUME NEW x \in Threads, EnqueueSetLast(x) \/ EnqueuePush(x)
       PROVE  UNCHANGED Op!vars
  BY <1>11, EnqueueUnseen
<1>12. ASSUME NEW x \in Threads, NEW y \in Threads, PushCollide(x, y) PROVE FALSE
  BY <1>12 DEF IInv, QueueInv, PushCollide, At, InEnqueue
<1>13. ASSUME (\E then : StopKeyer(then)) \/ GuiStep PROVE [Op!Next]_(Op!vars)
  BY <1>13, GuiRefines DEF GuiStep, Op!Next
<1>14. ASSUME UNCHANGED vars PROVE UNCHANGED Op!vars
  <2>1. UNCHANGED <<pressed, lastPressed, mode, queue, mutex, item, branch, pc,
                    arg>>
    BY <1>14 DEF vars, paddles, buffer, worker, control
  <2>2. /\ UNCHANGED Memory
        /\ UNCHANGED <<Calls, Asked>>
        /\ UNCHANGED <<Stage, Element, Squeeze>>
    BY <2>1, MemoryFrame, HandsFrame, StageFrame DEF InEnqueue, Call
  <2> QED BY <2>1, <2>2, Unseen
<1> QED
  BY <1>1, <1>2, <1>3, <1>4, <1>5, <1>6, <1>7, <1>8, <1>9, <1>10, <1>11, <1>12,
     <1>13, <1>14 DEF Next, SourceStep, WorkerStep, Gone

\* Before two calls of enqueue overlap, the keyer's threads, whatever their number,
\* are one iambic keyer with a memory of one element: no press is lost that finds
\* the memory empty, no element is added that the paddles do not call for, and the
\* keyer falls silent only when they are up.
THEOREM RefinesIambicKeyer == Spec => KeyerIsIambic
<1>1. Init => Op!Init
  <2> SUFFICES ASSUME Init PROVE Op!Init
      OBVIOUS
  <2>1. \A s \in Sources : Call(s) = "none"
    BY DEF Init, Call, Threads
  <2>2. Calls = [s \in Sources |-> "none"] /\ Asked = [s \in Sources |-> NoItem]
    BY <2>1 DEF Calls, Asked
  <2>3. Memory = {}
    BY InitIInv, MemoryIs DEF Init, IInv, MemoryFacts, Quiet, InEnqueue, Threads
  <2>4. AtRest
    BY InitIInv, StageIs DEF Init, IInv, StageFacts
  <2> QED BY <2>2, <2>3, <2>4 DEF Init, AtRest, Op!Init
<1>2. IInv /\ IInv' /\ [Next]_vars => [~overlapped' => [Op!Next]_(Op!vars)]_vars
  BY RefineStep
<1> QED BY Invariance, <1>1, <1>2, PTL DEF Spec, KeyerIsIambic
=============================================================================
