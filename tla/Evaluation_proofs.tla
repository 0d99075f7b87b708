-------------------------- MODULE Evaluation_proofs --------------------------
(***************************************************************************)
(* Theorems about Evaluation, for every value of its constants: any number *)
(* of evaluations, items and workers, any limits, requests and faults.     *)
(***************************************************************************)
EXTENDS Evaluation, FiniteSetTheorems, TLAPS

-----------------------------------------------------------------------------
(* Type correctness                                                        *)

\* A count of items or of evaluations is a natural number.
LEMMA CountType ==
    ASSUME NEW n \in Nat, NEW S \in SUBSET (1..n)
    PROVE  Cardinality(S) \in Nat
<1>1. IsFiniteSet(1..n)
  BY FS_Interval
<1>2. IsFiniteSet(S)
  BY <1>1, FS_Subset
<1>3. QED
  BY <1>2, FS_CardinalityType

\* Publishing keeps the type of the queue (task.delay).
LEMMA SendType ==
    ASSUME TypeOK, NEW T
    PROVE  Send(T) \in [Tasks -> 0..MaxCopies]
<1>1. ASSUME NEW t \in Tasks
      PROVE  (IF t \in T /\ queue[t] < MaxCopies THEN queue[t] + 1 ELSE queue[t]) \in 0..MaxCopies
  BY BoundsAssumption DEF TypeOK
<1>2. QED
  BY <1>1 DEF Send

\* Taking a message keeps it too.
LEMMA TakeType ==
    ASSUME TypeOK, NEW w \in Workers, NEW t \in Tasks, Take(w, t)
    PROVE  queue' \in [Tasks -> 0..MaxCopies]
<1>1. queue[t] \in 0..MaxCopies /\ queue[t] > 0
  BY DEF TypeOK, Take
<1>2. queue[t] - 1 \in 0..MaxCopies
  BY <1>1, BoundsAssumption
<1>3. QED
  BY <1>2 DEF TypeOK, Take

\* The parts of a task.
LEMMA TaskParts ==
    /\ Reconcile \in Tasks
    /\ \A e \in Evals : Task("initialize", e, 0) \in Tasks /\ Task("batch", e, 0) \in Tasks
    /\ \A e \in Evals : \A i \in Items : Task("item", e, i) \in Tasks
    /\ \A t \in Tasks : t.kind \in {"initialize", "batch", "item"} => t.e \in Evals
    /\ \A t \in Tasks : t.kind = "item" => t.i \in Items /\ t = Task("item", t.e, t.i)
    /\ \A t \in Tasks : t.kind \in {"reconcile", "initialize", "batch", "item"}
  BY DEF Tasks, Task, Reconcile

\* A worker that goes on with other values of its locals keeps its type.
LEMMA WorkerEdits ==
    ASSUME NEW x \in WorkerState, NEW pc \in Steps
    PROVE  /\ [x EXCEPT !.pc = pc] \in WorkerState
           /\ \A t \in Tasks : [x EXCEPT !.task = t, !.pc = pc] \in WorkerState
           /\ \A t \in Tasks, r \in Nat : [x EXCEPT !.task = t, !.pc = pc, !.round = r] \in WorkerState
           /\ \A n \in Nat : [x EXCEPT !.pc = pc, !.n = n] \in WorkerState
           /\ \A n \in Nat, m \in Int : [x EXCEPT !.pc = pc, !.n = n, !.base = m] \in WorkerState
           /\ \A s \in ItemStatus, m \in Int : [x EXCEPT !.pc = pc, !.seen = s, !.base = m] \in WorkerState
           /\ \A S \in SUBSET Evals : [x EXCEPT !.pc = pc, !.todo = S] \in WorkerState
           /\ \A S \in SUBSET Evals : [x EXCEPT !.todo = S] \in WorkerState
  BY DEF WorkerState

\* An idle worker has the type of a worker.
LEMMA IdleType == Idle \in WorkerState /\ Idle.pc \in Steps
  BY TaskParts DEF Idle, WorkerState, Steps, ItemStatus

LEMMA GotoType ==
    ASSUME TypeOK, NEW w \in Workers, NEW pc \in Steps, Goto(w, pc) \/ Done(w)
    PROVE  worker' \in [Workers -> WorkerState]
<1>1. worker \in [Workers -> WorkerState]
  BY DEF TypeOK
<1>2. [worker[w] EXCEPT !.pc = pc] \in WorkerState
  BY <1>1, WorkerEdits
<1>3. QED
  BY <1>1, <1>2, IdleType DEF Goto, Done

\* The initial states.
LEMMA InitType == Init => TypeOK
  BY IdleType, BoundsAssumption
  DEF Init, TypeOK, EvaluationStatus, ItemStatus

\* Requests of users keep the types.
LEMMA UserType ==
    ASSUME TypeOK, NEW e \in Evals,
           \/ Create(e) \/ (\E op \in {"pause", "resume"} : Ask(e, op)) \/ Answer(e)
           \/ (\E scope \in {"all", "failed"} : Retry(e, scope)) \/ Delete(e)
    PROVE  TypeOK'
<1> USE DEF TypeOK
<1>1. CASE Create(e)
  BY <1>1, SendType DEF Create, EvaluationStatus
<1>2. CASE \E op \in {"pause", "resume"} : Ask(e, op)
  BY <1>2, BoundsAssumption DEF Ask, Request, rows
<1>3. CASE Answer(e)
  BY <1>3, SendType DEF Answer, EvaluationStatus
<1>4. ASSUME NEW scope \in {"all", "failed"}, Retry(e, scope)
      PROVE  TypeOK'
  <2> DEFINE S == RetryItems(e, scope)
  <2>1. S \in SUBSET Items
    BY DEF RetryItems, WithStatus
  <2>2. Cardinality(S) \in Nat
    BY <2>1, CountType, SizesAssumption DEF Items
  <2>3. item' \in [Evals -> [Items -> ItemStatus]]
    BY <1>4 DEF Retry, ItemStatus
  <2>4. stuck' \in [Evals -> SUBSET Items]
    BY <1>4 DEF Retry
  <2>5. round' \in [Evals -> [Items -> Nat]]
    BY <1>4 DEF Retry
  <2>6. completed' \in [Evals -> Int]
    BY <1>4, <2>2 DEF Retry
  <2>7. queue' \in [Tasks -> 0..MaxCopies]
    BY <1>4, SendType DEF Retry
  <2>8. status' \in [Evals -> EvaluationStatus] /\ reopened' \in [Evals -> BOOLEAN]
    BY <1>4 DEF Retry, EvaluationStatus
  <2>9. requests' \in 0..MaxRequests
    BY <1>4, BoundsAssumption DEF Retry, Request
  <2>10. UNCHANGED <<deleted, lock, worker, asked, faults>>
    BY <1>4 DEF Retry
  <2>11. QED
    BY <2>3, <2>4, <2>5, <2>6, <2>7, <2>8, <2>9, <2>10
<1>5. CASE Delete(e)
  BY <1>5, BoundsAssumption DEF Delete, Request
<1>6. QED
  BY <1>1, <1>2, <1>3, <1>4, <1>5

\* The first step of a task keeps the types.
LEMMA StartType ==
    ASSUME TypeOK, NEW w \in Workers, NEW t \in Tasks, Start(w, t)
    PROVE  TypeOK'
<1> USE DEF TypeOK
<1>1. CASE t = Reconcile /\ CountEvaluations(w)
  <2>1. Cardinality({e \in Evals : status[e] = "RUNNING"}) \in Nat
    BY CountType, SizesAssumption DEF Evals
  <2>2. worker' \in [Workers -> WorkerState]
    BY <1>1, <2>1, IdleType, WorkerEdits DEF CountEvaluations, Steps
  <2>3. QED
    BY <1>1, <2>2, TakeType, TaskParts DEF CountEvaluations, rows
<1>2. CASE t.kind = "initialize" /\ Initialize(w, t.e)
  <2>1. t.e \in Evals /\ Task("initialize", t.e, 0) \in Tasks
    BY <1>2, TaskParts
  <2>2. worker' \in [Workers -> WorkerState]
    BY <1>2, <2>1, IdleType, WorkerEdits DEF Initialize, Steps
  <2>3. status' \in [Evals -> EvaluationStatus]
    BY <1>2 DEF Initialize, EvaluationStatus
  <2>4. QED
    BY <1>2, <2>1, <2>2, <2>3, TakeType DEF Initialize
<1>3. CASE t.kind = "batch" /\ Acquire(w, t.e)
  <2>1. t.e \in Evals /\ Task("batch", t.e, 0) \in Tasks
    BY <1>3, TaskParts
  <2>2. worker' \in [Workers -> WorkerState]
    BY <1>3, <2>1, IdleType, WorkerEdits DEF Acquire, Steps
  <2>3. lock' \in [Evals -> Workers \cup {Free, Orphan}]
    BY <1>3 DEF Acquire
  <2>4. QED
    BY <1>3, <2>1, <2>2, <2>3, TakeType DEF Acquire, rows
<1>4. CASE t.kind = "batch" /\ GiveUp(w, t.e)
  BY <1>4, TaskParts, TakeType DEF GiveUp, rows
<1>5. CASE t.kind = "item" /\ Claim(w, t.e, t.i)
  <2>1. t.e \in Evals /\ t.i \in Items /\ Task("item", t.e, t.i) \in Tasks
    BY <1>5, TaskParts
  <2>2. worker' \in [Workers -> WorkerState]
    <3> DEFINE m == Task("item", t.e, t.i)
               r == round[t.e][t.i]
    <3>1. m \in Tasks /\ r \in Nat /\ "load" \in Steps
      BY <2>1 DEF Steps
    <3>2. [Idle EXCEPT !.task = m, !.pc = "load", !.round = r] \in WorkerState
      <4> HIDE DEF m, r
      <4>1. QED
        BY <3>1, IdleType, WorkerEdits
    <3>3. QED
      BY <1>5, <3>2 DEF Claim
  <2>3. item' \in [Evals -> [Items -> ItemStatus]]
    <3>1. [item[t.e] EXCEPT ![t.i] = "RUNNING"] \in [Items -> ItemStatus]
      BY <2>1 DEF ItemStatus
    <3>2. QED
      BY <1>5, <3>1 DEF Claim
  <2>4. stuck' \in [Evals -> SUBSET Items]
    <3>1. stuck[t.e] \ {t.i} \in SUBSET Items
      BY <2>1
    <3>2. QED
      BY <1>5, <3>1 DEF Claim
  <2>5. QED
    BY <1>5, <2>1, <2>2, <2>3, <2>4, TakeType DEF Claim
<1>6. QED
  BY <1>1, <1>2, <1>3, <1>4, <1>5 DEF Start

\* The later steps of the scheduler and of initialisation keep the types.
LEMMA SchedulerType ==
    ASSUME TypeOK, NEW w \in Workers,
           \/ SelectEvaluations(w) \/ SelectRunning(w) \/ (\E e \in Evals : Coordinate(w, e))
           \/ PublishBatch(w) \/ InitializationFailed(w)
    PROVE  TypeOK'
<1> USE DEF TypeOK
<1>1. CASE SelectEvaluations(w)
  BY <1>1, SendType, GotoType DEF SelectEvaluations, rows, Steps
<1>2. CASE SelectRunning(w)
  <2>1. [worker[w] EXCEPT !.pc = "coordinate", !.todo = {e \in Evals : status[e] = "RUNNING"}] \in WorkerState
    BY WorkerEdits DEF Steps
  <2>2. QED
    BY <1>2, <2>1, IdleType DEF SelectRunning, rows
<1>3. ASSUME NEW e \in Evals, Coordinate(w, e)
      PROVE  TypeOK'
  <2>1. item' \in [Evals -> [Items -> ItemStatus]]
    BY <1>3 DEF Coordinate, ItemStatus
  <2>2. round' \in [Evals -> [Items -> Nat]]
    BY <1>3 DEF Coordinate
  <2>3. stuck' \in [Evals -> SUBSET Items]
    BY <1>3 DEF Coordinate
  <2>4. [worker[w] EXCEPT !.todo = worker[w].todo \ {e}] \in WorkerState
    <3>1. worker[w] \in WorkerState
      OBVIOUS
    <3>2. worker[w].todo \ {e} \in SUBSET Evals
      BY <3>1 DEF WorkerState
    <3>3. QED
      BY <3>1, <3>2, WorkerEdits DEF Steps
  <2>5. worker' \in [Workers -> WorkerState]
    BY <1>3, <2>4, IdleType DEF Coordinate
  <2>6. queue' \in [Tasks -> 0..MaxCopies]
    BY <1>3, SendType DEF Coordinate
  <2>7. QED
    BY <1>3, <2>1, <2>2, <2>3, <2>5, <2>6 DEF Coordinate
<1>4. CASE PublishBatch(w)
  BY <1>4, SendType, GotoType DEF PublishBatch, rows, Steps
<1>5. CASE InitializationFailed(w)
  BY <1>5, GotoType DEF InitializationFailed, EvaluationStatus, Steps
<1>6. QED
  BY <1>1, <1>2, <1>3, <1>4, <1>5

\* The later steps of a batch keep the types.
LEMMA BatchType ==
    ASSUME TypeOK, NEW w \in Workers,
           \/ Check(w) \/ Count(w) \/ Pick(w) \/ Verify(w) \/ Judge(w) \/ Close(w) \/ Release(w)
    PROVE  TypeOK'
<1> USE DEF TypeOK
<1>1. worker[w].task.kind = "batch" => worker[w].task.e \in Evals
  BY TaskParts DEF WorkerState
<1>2. CASE Check(w)
  BY <1>2, GotoType DEF Check, rows, Steps
<1>3. CASE Count(w)
  <2> DEFINE n == Cardinality(WithStatus(worker[w].task.e, "RUNNING"))
  <2>1. n \in Nat
    BY CountType, SizesAssumption DEF WithStatus, Items
  <2>2. [worker[w] EXCEPT !.pc = IF n < MaxProcessing THEN "pick" ELSE "release", !.n = n] \in WorkerState
    <3> HIDE DEF n
    <3>1. (IF n < MaxProcessing THEN "pick" ELSE "release") \in Steps
      BY DEF Steps
    <3>2. QED
      BY <2>1, <3>1, WorkerEdits
  <2>3. QED
    BY <1>3, <2>2 DEF Count, rows
<1>4. CASE Pick(w)
  BY <1>4, SendType, GotoType DEF Pick, rows, Steps
<1>5. CASE Verify(w)
  <2>1. worker' \in [Workers -> WorkerState]
    BY <1>5, GotoType DEF Verify, Steps
  <2>2. reopened' \in [Evals -> BOOLEAN]
    BY <1>5 DEF Verify
  <2>3. QED
    BY <1>5, <2>1, <2>2 DEF Verify, rows
<1>6. CASE Judge(w)
  <2> DEFINE e == worker[w].task.e
             n == Cardinality(WithStatus(e, "FAILED"))
             m == Cardinality(Items \ Unfinished(e))
  <2>1. n \in Nat /\ m \in Nat
    BY CountType, SizesAssumption DEF WithStatus, Items
  <2>2. [worker[w] EXCEPT !.pc = "close", !.n = n, !.base = m] \in WorkerState
    <3> HIDE DEF n, m
    <3>1. "close" \in Steps /\ m \in Int
      BY <2>1 DEF Steps
    <3>2. QED
      BY <2>1, <3>1, WorkerEdits
  <2>3. QED
    BY <1>6, <2>2 DEF Judge, rows
<1>7. CASE Close(w)
  <2>1. worker' \in [Workers -> WorkerState]
    BY <1>7, GotoType DEF Close, Steps
  <2>2. status' \in [Evals -> EvaluationStatus]
    BY <1>1, <1>7 DEF Close, At, EvaluationStatus
  <2>3. completed' \in [Evals -> Int]
    BY <1>7 DEF Close, WorkerState
  <2>4. QED
    BY <1>7, <2>1, <2>2, <2>3 DEF Close
<1>8. CASE Release(w)
  BY <1>8, GotoType DEF Release, rows, Steps
<1>9. QED
  BY <1>2, <1>3, <1>4, <1>5, <1>6, <1>7, <1>8

\* The later steps of an item keep the types.
LEMMA ItemType ==
    ASSUME TypeOK, NEW w \in Workers,
           \/ Load(w) \/ (\E result \in Terminal : Process(w, result)) \/ ItemFailed(w) \/ NextBatch(w)
    PROVE  TypeOK'
<1> USE DEF TypeOK
<1> DEFINE t == worker[w].task
<1>1. t.kind = "item" => t.e \in Evals /\ t.i \in Items
  BY TaskParts DEF WorkerState
<1>2. CASE Load(w)
  <2>1. item[t.e][t.i] \in ItemStatus /\ completed[t.e] \in Int
    BY <1>1, <1>2 DEF Load, At
  <2>2. [worker[w] EXCEPT !.pc = "agent", !.seen = item[t.e][t.i], !.base = completed[t.e]] \in WorkerState
    <3> DEFINE seen == item[t.e][t.i]
               base == completed[t.e]
    <3>1. worker[w] \in WorkerState /\ "agent" \in Steps /\ seen \in ItemStatus /\ base \in Int
      BY <2>1 DEF Steps
    <3>2. [worker[w] EXCEPT !.pc = "agent", !.seen = seen, !.base = base] \in WorkerState
      <4> HIDE DEF seen, base
      <4>1. QED
        BY <3>1, WorkerEdits
    <3>3. QED
      BY <3>2
  <2>3. QED
    BY <1>2, <2>2 DEF Load, rows
<1>3. ASSUME NEW result \in Terminal, Process(w, result)
      PROVE  TypeOK'
  <2>1. worker' \in [Workers -> WorkerState]
    BY <1>3, GotoType DEF Process, Steps
  <2>2. item' \in [Evals -> [Items -> ItemStatus]]
    <3>1. [item[t.e] EXCEPT ![t.i] = result] \in [Items -> ItemStatus]
      BY <1>1, <1>3 DEF Process, At, Terminal, ItemStatus
    <3>2. QED
      BY <1>3, <3>1 DEF Process
  <2>3. stuck' \in [Evals -> SUBSET Items]
    BY <1>3 DEF Process
  <2>4. completed' \in [Evals -> Int]
    <3>1. worker[w].base + 1 \in Int
      BY DEF WorkerState
    <3>2. QED
      BY <1>3, <3>1 DEF Process
  <2>5. QED
    BY <1>3, <2>1, <2>2, <2>3, <2>4 DEF Process
<1>4. CASE ItemFailed(w)
  <2>1. worker' \in [Workers -> WorkerState]
    BY <1>4, GotoType DEF ItemFailed, Steps
  <2>2. item' \in [Evals -> [Items -> ItemStatus]]
    <3>1. [item[t.e] EXCEPT ![t.i] = "FAILED"] \in [Items -> ItemStatus]
      BY <1>1, <1>4 DEF ItemFailed, At, ItemStatus
    <3>2. QED
      BY <1>4, <3>1 DEF ItemFailed
  <2>3. stuck' \in [Evals -> SUBSET Items]
    BY <1>4 DEF ItemFailed
  <2>4. QED
    BY <1>4, <2>1, <2>2, <2>3 DEF ItemFailed
<1>5. CASE NextBatch(w)
  BY <1>5, SendType, GotoType DEF NextBatch, rows, Steps
<1>6. QED
  BY <1>2, <1>3, <1>4, <1>5

\* Faults and the passing of time keep the types.
LEMMA TroubleType ==
    ASSUME TypeOK, Expiry \/ Trouble
    PROVE  TypeOK'
<1> USE DEF TypeOK
<1>1. ASSUME NEW kind, Fault(kind)
      PROVE  faults' \in 0..MaxFaults
  BY <1>1, BoundsAssumption DEF Fault
<1>2. ASSUME NEW e \in Evals, LockExpires(e)
      PROVE  TypeOK'
  BY <1>1, <1>2 DEF LockExpires, rows
<1>3. ASSUME NEW e \in Evals, NEW i \in Items, ItemExpires(e, i)
      PROVE  TypeOK'
  <2>1. stuck' \in [Evals -> SUBSET Items]
    BY <1>3 DEF ItemExpires
  <2>2. faults' \in 0..MaxFaults
    BY <1>1, <1>3 DEF ItemExpires
  <2>3. QED
    BY <1>3, <2>1, <2>2 DEF ItemExpires
<1>4. ASSUME NEW w \in Workers, Crash(w)
      PROVE  TypeOK'
  <2>1. worker' \in [Workers -> WorkerState]
    BY <1>4, GotoType DEF Crash, Steps
  <2>2. queue' \in [Tasks -> 0..MaxCopies]
    BY <1>4, SendType DEF Crash
  <2>3. lock' \in [Evals -> Workers \cup {Free, Orphan}]
    BY <1>4 DEF Crash
  <2>4. QED
    BY <1>1, <1>4, <2>1, <2>2, <2>3 DEF Crash, rows
<1>5. ASSUME NEW w \in Workers, Redeliver(w)
      PROVE  TypeOK'
  BY <1>1, <1>5, SendType DEF Redeliver, rows
<1>6. ASSUME NEW w \in Workers, Raise(w)
      PROVE  TypeOK'
  <2>1. worker' \in [Workers -> WorkerState]
    BY <1>6, GotoType DEF Raise, Steps
  <2>2. QED
    BY <1>1, <1>6, <2>1 DEF Raise, rows
<1>7. ASSUME NEW w \in Workers, NEW t \in Tasks, RaiseAtStart(w, t)
      PROVE  TypeOK'
  <2> DEFINE pc == IF t.kind = "item" THEN "failed" ELSE "broken"
  <2>1. pc \in Steps
    BY DEF Steps
  <2>2. [Idle EXCEPT !.task = t, !.pc = pc] \in WorkerState
    <3> HIDE DEF pc
    <3>1. QED
      BY <2>1, IdleType, WorkerEdits
  <2>3. worker' \in [Workers -> WorkerState]
    BY <1>7, <2>2 DEF RaiseAtStart
  <2>4. QED
    BY <1>1, <1>7, <2>3, TakeType DEF RaiseAtStart, rows
<1>8. QED
  BY <1>2, <1>3, <1>4, <1>5, <1>6, <1>7 DEF Expiry, Trouble

\* Every reachable state is well typed.
THEOREM TypeCorrect == Spec => []TypeOK
<1>1. TypeOK /\ [Next]_vars => TypeOK'
  <2> SUFFICES ASSUME TypeOK, [Next]_vars
               PROVE  TypeOK'
    OBVIOUS
  <2>1. CASE Users
    BY <2>1, UserType DEF Users
  <2>2. CASE Beat
    BY <2>2, SendType DEF Beat, TypeOK, rows
  <2>3. ASSUME NEW w \in Workers, Continue(w)
        PROVE  TypeOK'
    BY <2>3, SchedulerType, BatchType, ItemType DEF Continue
  <2>4. ASSUME NEW w \in Workers, NEW t \in Tasks, Start(w, t)
        PROVE  TypeOK'
    BY <2>4, StartType
  <2>5. CASE Expiry \/ Trouble
    BY <2>5, TroubleType
  <2>6. CASE UNCHANGED vars
    BY <2>6 DEF vars, TypeOK
  <2>7. QED
    BY <2>1, <2>2, <2>3, <2>4, <2>5, <2>6 DEF Next
<1>2. QED
  BY InitType, <1>1, PTL DEF Spec

-----------------------------------------------------------------------------
(* One worker per round.  It is not inductive alone: a new claim is of the *)
(* current round, and it must be known that those who hold an item that is *)
(* PENDING again hold an older one.                                        *)

Holds(w, e, i) == worker[w].task = Task("item", e, i) /\ worker[w].pc \in {"load", "agent"}

HeldRounds ==
    \A w \in Workers : \A e \in Evals : \A i \in Items :
        Holds(w, e, i) => /\ worker[w].round <= round[e][i]
                          /\ item[e][i] = "PENDING" => worker[w].round < round[e][i]

RoundInv == HeldRounds /\ OneWorkerPerRound

\* What every action but a claim does to items and workers: an item becomes
\* PENDING only with a new round, and nobody begins to hold an item.
ItemsKept ==
    \A e \in Evals : \A i \in Items :
        /\ round[e][i] <= round'[e][i]
        /\ item'[e][i] = "PENDING" => item[e][i] = "PENDING" \/ round[e][i] < round'[e][i]

HoldersKept ==
    \A w \in Workers : \A e \in Evals : \A i \in Items :
        Holds(w, e, i)' => Holds(w, e, i) /\ worker'[w].round = worker[w].round

LEMMA RoundFrame ==
    ASSUME TypeOK, TypeOK', RoundInv, ItemsKept, HoldersKept
    PROVE  RoundInv'
<1>1. HeldRounds'
  <2> SUFFICES ASSUME NEW w \in Workers, NEW e \in Evals, NEW i \in Items, Holds(w, e, i)'
               PROVE  /\ worker'[w].round <= round'[e][i]
                      /\ item'[e][i] = "PENDING" => worker'[w].round < round'[e][i]
    BY DEF HeldRounds
  <2>1. Holds(w, e, i) /\ worker'[w].round = worker[w].round
    BY DEF HoldersKept
  <2>2. /\ worker[w].round <= round[e][i]
        /\ item[e][i] = "PENDING" => worker[w].round < round[e][i]
    BY <2>1 DEF RoundInv, HeldRounds
  <2>3. worker[w].round \in Nat /\ round[e][i] \in Nat /\ round'[e][i] \in Nat
    BY DEF TypeOK, WorkerState
  <2>4. QED
    BY <2>1, <2>2, <2>3 DEF ItemsKept
<1>2. OneWorkerPerRound'
  BY DEF RoundInv, OneWorkerPerRound, HoldersKept, Holds
<1>3. QED
  BY <1>1, <1>2 DEF RoundInv

\* A worker that goes on, stops, or begins anything but an item's claim.
LEMMA HolderFrame ==
    ASSUME NEW w \in Workers, NEW x, worker' = [worker EXCEPT ![w] = x],
           worker \in [Workers -> WorkerState],
           x.pc \in {"load", "agent"} => /\ worker[w].pc \in {"load", "agent"}
                                        /\ x.task = worker[w].task
                                        /\ x.round = worker[w].round
    PROVE  HoldersKept
<1>1. ASSUME NEW v \in Workers, v # w
      PROVE  worker'[v] = worker[v]
  BY <1>1
<1>2. worker'[w] = x
  OBVIOUS
<1>3. QED
  BY <1>1, <1>2 DEF HoldersKept, Holds

LEMMA GotoFrame ==
    ASSUME TypeOK, NEW w \in Workers, NEW pc,
           Done(w) \/ (Goto(w, pc) /\ pc \notin {"load", "agent"})
    PROVE  HoldersKept
<1>1. worker \in [Workers -> WorkerState]
  BY DEF TypeOK
<1>2. CASE Done(w)
  <2>1. Idle.pc = "idle"
    BY DEF Idle
  <2>2. QED
    BY <1>1, <1>2, <2>1, HolderFrame DEF Done
<1>3. CASE Goto(w, pc) /\ pc \notin {"load", "agent"}
  <2>1. [worker[w] EXCEPT !.pc = pc].pc = pc
    BY <1>1 DEF WorkerState
  <2>2. QED
    BY <1>1, <1>3, <2>1, HolderFrame DEF Goto
<1>4. QED
  BY <1>2, <1>3

LEMMA SameItems ==
    ASSUME TypeOK, UNCHANGED <<item, round>>
    PROVE  ItemsKept
  BY DEF TypeOK, ItemsKept

LEMMA SameWorkers ==
    ASSUME UNCHANGED worker
    PROVE  HoldersKept
  BY DEF HoldersKept, Holds

\* Requests of users.
LEMMA UserRounds ==
    ASSUME TypeOK, NEW e \in Evals,
           \/ Create(e) \/ (\E op \in {"pause", "resume"} : Ask(e, op)) \/ Answer(e)
           \/ (\E scope \in {"all", "failed"} : Retry(e, scope)) \/ Delete(e)
    PROVE  ItemsKept /\ HoldersKept
<1>1. UNCHANGED worker
  BY DEF Create, Ask, Answer, Retry, Delete
<1>2. ASSUME NEW scope \in {"all", "failed"}, Retry(e, scope)
      PROVE  ItemsKept
  <2> DEFINE S == RetryItems(e, scope)
  <2>1. item' = [item EXCEPT ![e] = [i \in Items |-> IF i \in S THEN "PENDING" ELSE item[e][i]]]
    BY <1>2 DEF Retry
  <2>2. round' = [round EXCEPT ![e] = [i \in Items |-> round[e][i] + (IF i \in S THEN 1 ELSE 0)]]
    BY <1>2 DEF Retry
  <2> HIDE DEF S
  <2>3. QED
    BY <2>1, <2>2 DEF ItemsKept, TypeOK
<1>3. CASE ~ \E scope \in {"all", "failed"} : Retry(e, scope)
  <2>1. UNCHANGED <<item, round>>
    BY <1>3 DEF Create, Ask, Answer, Delete, rows
  <2>2. QED
    BY <1>1, <2>1, SameItems, SameWorkers
<1>4. QED
  BY <1>1, <1>2, <1>3, SameWorkers

\* Steps of workers, claims excepted.
LEMMA SchedulerRounds ==
    ASSUME TypeOK, NEW w \in Workers,
           \/ CountEvaluations(w)
           \/ SelectEvaluations(w) \/ SelectRunning(w) \/ (\E e \in Evals : Coordinate(w, e))
           \/ (\E e \in Evals : Initialize(w, e)) \/ PublishBatch(w) \/ InitializationFailed(w)
    PROVE  ItemsKept /\ HoldersKept
<1>1. worker \in [Workers -> WorkerState] /\ worker[w] \in WorkerState
  BY DEF TypeOK
<1>2. Idle.pc = "idle" /\ Idle \in WorkerState
  BY IdleType DEF Idle
<1>3. CASE CountEvaluations(w)
  <2> DEFINE n == Cardinality({e \in Evals : status[e] = "RUNNING"})
  <2>1. [Idle EXCEPT !.pc = "select", !.n = n].pc = "select"
    BY DEF Idle
  <2>2. worker' = [worker EXCEPT ![w] = [Idle EXCEPT !.pc = "select", !.n = n]]
    BY <1>3 DEF CountEvaluations
  <2>3. HoldersKept
    BY <1>1, <2>1, <2>2, HolderFrame
  <2>4. QED
    BY <1>3, <2>3, SameItems DEF CountEvaluations, rows
<1>4. CASE SelectEvaluations(w)
  <2>1. HoldersKept
    BY <1>4, GotoFrame DEF SelectEvaluations
  <2>2. QED
    BY <1>4, <2>1, SameItems DEF SelectEvaluations, rows
<1>5. CASE SelectRunning(w)
  <2> DEFINE S == {e \in Evals : status[e] = "RUNNING"}
             x == IF S = {} THEN Idle ELSE [worker[w] EXCEPT !.pc = "coordinate", !.todo = S]
  <2>1. x.pc \in {"idle", "coordinate"}
    BY <1>1, <1>2 DEF WorkerState
  <2>2. worker' = [worker EXCEPT ![w] = x]
    BY <1>5 DEF SelectRunning
  <2> HIDE DEF x
  <2>3. HoldersKept
    BY <1>1, <2>1, <2>2, HolderFrame
  <2>4. QED
    BY <1>5, <2>3, SameItems DEF SelectRunning, rows
<1>6. ASSUME NEW e \in Evals, Coordinate(w, e)
      PROVE  ItemsKept /\ HoldersKept
  <2> DEFINE x == IF worker[w].todo = {e} THEN Idle ELSE [worker[w] EXCEPT !.todo = @ \ {e}]
  <2>1. x.pc \in {"idle", "coordinate"}
    BY <1>1, <1>2, <1>6 DEF WorkerState, Coordinate, At
  <2>2. worker' = [worker EXCEPT ![w] = x]
    BY <1>6 DEF Coordinate
  <2> HIDE DEF x
  <2>3. HoldersKept
    BY <1>1, <2>1, <2>2, HolderFrame
  <2>4. ItemsKept
    BY <1>6 DEF Coordinate, ItemsKept, TypeOK
  <2>5. QED
    BY <2>3, <2>4
<1>7. ASSUME NEW e \in Evals, Initialize(w, e)
      PROVE  ItemsKept /\ HoldersKept
  <2> DEFINE x == [Idle EXCEPT !.task = Task("initialize", e, 0), !.pc = "publish"]
  <2>1. x.pc = "publish"
    BY DEF Idle
  <2>2. worker' = [worker EXCEPT ![w] = x]
    BY <1>7 DEF Initialize
  <2> HIDE DEF x
  <2>3. HoldersKept
    BY <1>1, <2>1, <2>2, HolderFrame
  <2>4. QED
    BY <1>7, <2>3, SameItems DEF Initialize
<1>8. CASE PublishBatch(w)
  <2>1. HoldersKept
    BY <1>8, GotoFrame DEF PublishBatch
  <2>2. QED
    BY <1>8, <2>1, SameItems DEF PublishBatch, rows
<1>9. CASE InitializationFailed(w)
  <2>1. HoldersKept
    BY <1>9, GotoFrame DEF InitializationFailed
  <2>2. QED
    BY <1>9, <2>1, SameItems DEF InitializationFailed
<1>10. QED
  BY <1>3, <1>4, <1>5, <1>6, <1>7, <1>8, <1>9

LEMMA BatchRounds ==
    ASSUME TypeOK, NEW w \in Workers,
           \/ (\E e \in Evals : Acquire(w, e) \/ GiveUp(w, e))
           \/ Check(w) \/ Count(w) \/ Pick(w) \/ Verify(w) \/ Judge(w) \/ Close(w) \/ Release(w)
    PROVE  ItemsKept /\ HoldersKept
<1>1. worker \in [Workers -> WorkerState] /\ worker[w] \in WorkerState
  BY DEF TypeOK
<1>2. ItemsKept
  <2>1. UNCHANGED <<item, round>>
    BY DEF Acquire, GiveUp, Check, Count, Pick, Verify, Judge, Close, Release, rows
  <2>2. QED
    BY <2>1, SameItems
<1>3. ASSUME NEW e \in Evals, Acquire(w, e)
      PROVE  HoldersKept
  <2> DEFINE x == [Idle EXCEPT !.task = Task("batch", e, 0), !.pc = "check"]
  <2>1. x.pc = "check"
    BY DEF Idle
  <2>2. worker' = [worker EXCEPT ![w] = x]
    BY <1>3 DEF Acquire
  <2> HIDE DEF x
  <2>3. QED
    BY <1>1, <2>1, <2>2, HolderFrame
<1>4. ASSUME NEW e \in Evals, GiveUp(w, e)
      PROVE  HoldersKept
  BY <1>4, SameWorkers DEF GiveUp
<1>5. CASE Check(w)
  BY <1>2, <1>5, GotoFrame DEF Check
<1>6. CASE Count(w)
  <2> DEFINE n == Cardinality(WithStatus(worker[w].task.e, "RUNNING"))
             pc == IF n < MaxProcessing THEN "pick" ELSE "release"
             x == [worker[w] EXCEPT !.pc = pc, !.n = n]
  <2>1. worker' = [worker EXCEPT ![w] = x]
    BY <1>6 DEF Count
  <2>2. pc \in {"pick", "release"}
    OBVIOUS
  <2> HIDE DEF n, pc
  <2>3. x.pc = pc
    BY <1>1 DEF WorkerState
  <2> HIDE DEF x
  <2>4. QED
    BY <1>1, <1>2, <2>1, <2>2, <2>3, HolderFrame
<1>7. CASE Pick(w)
  BY <1>2, <1>7, GotoFrame DEF Pick
<1>8. CASE Verify(w)
  BY <1>2, <1>8, GotoFrame DEF Verify
<1>9. CASE Judge(w)
  <2> DEFINE n == Cardinality(WithStatus(worker[w].task.e, "FAILED"))
             m == Cardinality(Items \ Unfinished(worker[w].task.e))
             x == [worker[w] EXCEPT !.pc = "close", !.n = n, !.base = m]
  <2>1. worker' = [worker EXCEPT ![w] = x]
    BY <1>9 DEF Judge
  <2> HIDE DEF n, m
  <2>2. x.pc = "close"
    BY <1>1 DEF WorkerState
  <2> HIDE DEF x
  <2>3. QED
    BY <1>1, <1>2, <2>1, <2>2, HolderFrame
<1>10. CASE Close(w)
  BY <1>2, <1>10, GotoFrame DEF Close
<1>11. CASE Release(w)
  BY <1>2, <1>11, GotoFrame DEF Release
<1>12. QED
  BY <1>2, <1>3, <1>4, <1>5, <1>6, <1>7, <1>8, <1>9, <1>10, <1>11

LEMMA ItemRounds ==
    ASSUME TypeOK, NEW w \in Workers,
           \/ Load(w) \/ (\E result \in Terminal : Process(w, result)) \/ ItemFailed(w) \/ NextBatch(w)
    PROVE  ItemsKept /\ HoldersKept
<1>1. worker \in [Workers -> WorkerState] /\ worker[w] \in WorkerState
  BY DEF TypeOK
<1> DEFINE t == worker[w].task
<1>2. t.kind = "item" => t.e \in Evals /\ t.i \in Items
  BY <1>1, TaskParts DEF WorkerState
<1>3. CASE Load(w)
  <2> DEFINE seen == item[t.e][t.i]
             base == completed[t.e]
             x == [worker[w] EXCEPT !.pc = "agent", !.seen = seen, !.base = base]
  <2>1. worker' = [worker EXCEPT ![w] = x]
    BY <1>3 DEF Load
  <2> HIDE DEF seen, base
  <2>2. x.task = worker[w].task /\ x.round = worker[w].round
    BY <1>1 DEF WorkerState
  <2>3. worker[w].pc = "load"
    BY <1>3 DEF Load, At
  <2> HIDE DEF x
  <2>4. HoldersKept
    BY <1>1, <2>1, <2>2, <2>3, HolderFrame
  <2>5. QED
    BY <1>3, <2>4, SameItems DEF Load, rows
<1>4. ASSUME NEW result \in Terminal, Process(w, result)
      PROVE  ItemsKept /\ HoldersKept
  <2>1. HoldersKept
    BY <1>4, GotoFrame DEF Process
  <2>2. \A e \in Evals : \A i \in Items : item'[e][i] = "PENDING" => item[e][i] = "PENDING"
    <3>1. t.e \in Evals /\ t.i \in Items
      BY <1>2, <1>4 DEF Process, At
    <3>2. item' = item \/ item' = [item EXCEPT ![t.e] = [item[t.e] EXCEPT ![t.i] = result]]
      BY <1>4 DEF Process
    <3>3. item \in [Evals -> [Items -> ItemStatus]]
      BY DEF TypeOK
    <3>4. result # "PENDING"
      BY DEF Terminal
    <3> HIDE DEF t
    <3>5. QED
      BY <3>1, <3>2, <3>3, <3>4
  <2>3. ItemsKept
    BY <1>4, <2>2 DEF ItemsKept, Process, TypeOK
  <2>4. QED
    BY <2>1, <2>3
<1>5. CASE ItemFailed(w)
  <2>1. HoldersKept
    BY <1>5, GotoFrame DEF ItemFailed
  <2>2. \A e \in Evals : \A i \in Items : item'[e][i] = "PENDING" => item[e][i] = "PENDING"
    <3>1. t.e \in Evals /\ t.i \in Items
      BY <1>2, <1>5 DEF ItemFailed, At
    <3>2. item' = item \/ item' = [item EXCEPT ![t.e] = [item[t.e] EXCEPT ![t.i] = "FAILED"]]
      BY <1>5 DEF ItemFailed
    <3>3. item \in [Evals -> [Items -> ItemStatus]]
      BY DEF TypeOK
    <3> HIDE DEF t
    <3>4. QED
      BY <3>1, <3>2, <3>3
  <2>3. ItemsKept
    BY <1>5, <2>2 DEF ItemsKept, ItemFailed, TypeOK
  <2>4. QED
    BY <2>1, <2>3
<1>6. CASE NextBatch(w)
  <2>1. HoldersKept
    BY <1>6, GotoFrame DEF NextBatch
  <2>2. QED
    BY <1>6, <2>1, SameItems DEF NextBatch, rows
<1>7. QED
  BY <1>3, <1>4, <1>5, <1>6

LEMMA TroubleRounds ==
    ASSUME TypeOK, Expiry \/ Trouble
    PROVE  ItemsKept /\ HoldersKept
<1>1. UNCHANGED <<item, round>>
  BY DEF Expiry, Trouble, LockExpires, ItemExpires, Crash, Redeliver, Raise, RaiseAtStart, rows
<1>2. CASE Expiry
  BY <1>1, <1>2, SameItems, SameWorkers DEF Expiry, LockExpires, ItemExpires
<1>3. ASSUME NEW w \in Workers, Crash(w) \/ Redeliver(w) \/ Raise(w)
      PROVE  HoldersKept
  <2>1. CASE Crash(w)
    BY <2>1, GotoFrame DEF Crash
  <2>2. CASE Redeliver(w)
    BY <2>2, SameWorkers DEF Redeliver
  <2>3. CASE Raise(w)
    BY <2>3, GotoFrame DEF Raise
  <2>4. QED
    BY <1>3, <2>1, <2>2, <2>3
<1>4. ASSUME NEW w \in Workers, NEW t \in Tasks, RaiseAtStart(w, t)
      PROVE  HoldersKept
  <2> DEFINE pc == IF t.kind = "item" THEN "failed" ELSE "broken"
             x == [Idle EXCEPT !.task = t, !.pc = pc]
  <2>1. worker' = [worker EXCEPT ![w] = x]
    BY <1>4 DEF RaiseAtStart
  <2>2. x.pc \in {"failed", "broken"}
    BY DEF Idle
  <2> HIDE DEF x
  <2>3. QED
    BY <2>1, <2>2, HolderFrame DEF TypeOK
<1>5. QED
  BY <1>1, <1>2, <1>3, <1>4, SameItems DEF Trouble

\* A claim: the item was PENDING, so that all others hold older rounds.
LEMMA ClaimRounds ==
    ASSUME TypeOK, TypeOK', RoundInv, NEW w \in Workers, NEW e \in Evals, NEW i \in Items, Claim(w, e, i)
    PROVE  RoundInv'
<1>1. CASE item[e][i] # "PENDING"
  BY <1>1, SameItems, SameWorkers, RoundFrame DEF Claim
<1>2. CASE item[e][i] = "PENDING"
  <2> DEFINE m == Task("item", e, i)
             r == round[e][i]
             x == [Idle EXCEPT !.task = m, !.pc = "load", !.round = r]
  <2>1. worker' = [worker EXCEPT ![w] = x] /\ round' = round
    BY <1>2 DEF Claim
  <2>2. x.task = m /\ x.round = r
    BY DEF Idle
  <2>3. worker'[w] = x /\ \A v \in Workers : v # w => worker'[v] = worker[v]
    BY <2>1 DEF TypeOK
  <2> HIDE DEF x
  <2>4. item' = [item EXCEPT ![e] = [item[e] EXCEPT ![i] = "RUNNING"]]
    BY <1>2 DEF Claim
  <2>5. /\ item'[e][i] = "RUNNING"
        /\ \A f \in Evals : \A j \in Items : item'[f][j] = "PENDING" => item[f][j] = "PENDING"
    BY <2>4 DEF TypeOK
  <2>6. \A f \in Evals : \A j \in Items : Task("item", f, j) = m => f = e /\ j = i
    BY DEF Task
  <2>7. HeldRounds'
    <3> SUFFICES ASSUME NEW v \in Workers, NEW f \in Evals, NEW j \in Items, Holds(v, f, j)'
                 PROVE  /\ worker'[v].round <= round'[f][j]
                        /\ item'[f][j] = "PENDING" => worker'[v].round < round'[f][j]
      BY DEF HeldRounds
    <3>1. CASE v = w
      <4>1. f = e /\ j = i
        BY <3>1, <2>2, <2>3, <2>6 DEF Holds
      <4>2. r \in Nat
        BY DEF TypeOK
      <4>3. QED
        BY <3>1, <4>1, <4>2, <2>1, <2>2, <2>3, <2>5
    <3>2. CASE v # w
      BY <3>2, <2>1, <2>3, <2>5 DEF RoundInv, HeldRounds, Holds
    <3>3. QED
      BY <3>1, <3>2
  <2>8. \A v \in Workers : Holds(v, e, i) => worker[v].round # r
    <3> SUFFICES ASSUME NEW v \in Workers, Holds(v, e, i)
                 PROVE  worker[v].round # r
      OBVIOUS
    <3>1. worker[v].round < r
      BY <1>2 DEF RoundInv, HeldRounds
    <3>2. worker[v].round \in Nat /\ r \in Nat
      BY DEF TypeOK, WorkerState
    <3>3. QED
      BY <3>1, <3>2
  <2>9. OneWorkerPerRound'
    <3> SUFFICES ASSUME NEW u \in Workers, NEW v \in Workers, NEW f \in Evals, NEW j \in Items,
                        u # v, Holds(u, f, j)', Holds(v, f, j)'
                 PROVE  worker'[u].round # worker'[v].round
      BY DEF OneWorkerPerRound, Holds
    <3>1. CASE u # w /\ v # w
      BY <3>1, <2>3 DEF RoundInv, OneWorkerPerRound, Holds
    <3>2. CASE u = w
      <4>1. f = e /\ j = i
        BY <3>2, <2>2, <2>3, <2>6 DEF Holds
      <4>2. Holds(v, e, i) /\ worker'[v] = worker[v]
        BY <3>2, <4>1, <2>3 DEF Holds
      <4>3. QED
        BY <3>2, <4>2, <2>2, <2>3, <2>8
    <3>3. CASE v = w
      <4>1. f = e /\ j = i
        BY <3>3, <2>2, <2>3, <2>6 DEF Holds
      <4>2. Holds(u, e, i) /\ worker'[u] = worker[u]
        BY <3>3, <4>1, <2>3 DEF Holds
      <4>3. QED
        BY <3>3, <4>2, <2>2, <2>3, <2>8
    <3>4. QED
      BY <3>1, <3>2, <3>3
  <2>10. QED
    BY <2>7, <2>9 DEF RoundInv
<1>3. QED
  BY <1>1, <1>2

\* The initial states hold no items.
LEMMA InitRounds == Init => RoundInv
<1> SUFFICES ASSUME Init
             PROVE  RoundInv
  OBVIOUS
<1>1. \A w \in Workers : \A e \in Evals : \A i \in Items : ~Holds(w, e, i)
  BY DEF Init, Idle, Holds
<1>2. QED
  BY <1>1 DEF RoundInv, HeldRounds, OneWorkerPerRound, Holds

\* Every step keeps the rounds apart.
LEMMA NextRounds ==
    ASSUME TypeOK, TypeOK', RoundInv, [Next]_vars
    PROVE  RoundInv'
<1>1. CASE Users
  BY <1>1, UserRounds, RoundFrame DEF Users
<1>2. CASE Beat \/ UNCHANGED vars
  <2>1. UNCHANGED <<item, round>> /\ UNCHANGED worker
    BY <1>2 DEF Beat, rows, vars
  <2>2. QED
    BY <2>1, SameItems, SameWorkers, RoundFrame
<1>3. ASSUME NEW w \in Workers, Continue(w)
      PROVE  RoundInv'
  BY <1>3, SchedulerRounds, BatchRounds, ItemRounds, RoundFrame DEF Continue
<1>4. ASSUME NEW w \in Workers, NEW t \in Tasks, Start(w, t)
      PROVE  RoundInv'
  <2>1. CASE t.kind = "item" /\ Claim(w, t.e, t.i)
    BY <2>1, TaskParts, ClaimRounds
  <2>2. CASE \/ CountEvaluations(w)
             \/ t.kind = "initialize" /\ Initialize(w, t.e)
             \/ t.kind = "batch" /\ (Acquire(w, t.e) \/ GiveUp(w, t.e))
    <3>1. t.kind \in {"initialize", "batch"} => t.e \in Evals
      BY TaskParts
    <3>2. ItemsKept /\ HoldersKept
      BY <2>2, <3>1, SchedulerRounds, BatchRounds
    <3>3. QED
      BY <3>2, RoundFrame
  <2>3. QED
    BY <1>4, <2>1, <2>2 DEF Start
<1>5. CASE Expiry \/ Trouble
  BY <1>5, TroubleRounds, RoundFrame
<1>6. QED
  BY <1>1, <1>2, <1>3, <1>4, <1>5 DEF Next

\* Between two times an item is put back to PENDING at most one worker asks
\* the agent for it (process_evaluation_item's guarded UPDATE).
THEOREM OneProcessor == Spec => []OneWorkerPerRound
<1>1. RoundInv => OneWorkerPerRound
  BY DEF RoundInv
<1>2. QED
  BY TypeCorrect, InitRounds, NextRounds, <1>1, PTL DEF Spec

-----------------------------------------------------------------------------
(* A COMPLETED evaluation is done.  It is not inductive alone: between its *)
(* verification and its UPDATE a finaliser relies on what it has seen, and *)
(* the coordinator must not put back an item that is no longer RUNNING.    *)

Settled(e) == \A i \in Items : item[e][i] \in Terminal
Finalises(w, e) == worker[w].task.e = e /\ worker[w].pc \in {"judge", "close"}

StuckRun == \A e \in Evals : \A i \in stuck[e] : item[e][i] = "RUNNING"

Verified ==
    \A e \in Evals :
        /\ ~reopened[e]
        /\ status[e] = "COMPLETED" \/ \E w \in Workers : Finalises(w, e)
        => Settled(e)

DoneInv == StuckRun /\ Verified

\* What every action but Verify and Close does: an item that is terminal
\* stays so, unless its evaluation is retried; nobody begins to finalise; no
\* evaluation becomes COMPLETED.
SettledKept == \A e \in Evals : Settled(e) => Settled(e)' \/ reopened'[e]
FinalisersKept == \A w \in Workers : \A e \in Evals : Finalises(w, e)' => Finalises(w, e)
StatusKept == \A e \in Evals : /\ status'[e] = "COMPLETED" => status[e] = "COMPLETED"
                               /\ reopened[e] => reopened'[e]

LEMMA DoneFrame ==
    ASSUME Verified, SettledKept, FinalisersKept, StatusKept
    PROVE  Verified'
  BY DEF Verified, SettledKept, FinalisersKept, StatusKept

\* With its type, an item that is not terminal is PENDING or RUNNING.
LEMMA SettledUnfinished ==
    ASSUME TypeOK, NEW e \in Evals
    PROVE  Unfinished(e) = {} <=> Settled(e)
<1>1. \A i \in Items : item[e][i] \in Terminal \/ item[e][i] \in {"PENDING", "RUNNING"}
  BY DEF TypeOK, ItemStatus, Terminal
<1>2. \A i \in Items : item[e][i] \in Terminal => item[e][i] \notin {"PENDING", "RUNNING"}
  BY DEF Terminal
<1>3. \A i : i \in Unfinished(e) <=> i \in Items /\ item[e][i] \in {"PENDING", "RUNNING"}
  BY DEF Unfinished, WithStatus
<1>4. QED
  BY <1>1, <1>2, <1>3 DEF Settled

LEMMA FinaliserFrame ==
    ASSUME NEW w \in Workers, NEW x, worker' = [worker EXCEPT ![w] = x],
           worker \in [Workers -> WorkerState],
           x.pc \in {"judge", "close"} => /\ worker[w].pc \in {"judge", "close"}
                                         /\ x.task = worker[w].task
    PROVE  FinalisersKept
<1>1. \A v \in Workers : v # w => worker'[v] = worker[v]
  OBVIOUS
<1>2. worker'[w] = x
  OBVIOUS
<1>3. QED
  BY <1>1, <1>2 DEF FinalisersKept, Finalises

LEMMA GotoFinalisers ==
    ASSUME TypeOK, NEW w \in Workers, NEW pc,
           Done(w) \/ (Goto(w, pc) /\ pc \notin {"judge", "close"})
    PROVE  FinalisersKept
<1>1. worker \in [Workers -> WorkerState]
  BY DEF TypeOK
<1>2. CASE Done(w)
  <2>1. Idle.pc = "idle"
    BY DEF Idle
  <2>2. QED
    BY <1>1, <1>2, <2>1, FinaliserFrame DEF Done
<1>3. CASE Goto(w, pc) /\ pc \notin {"judge", "close"}
  <2>1. [worker[w] EXCEPT !.pc = pc].pc = pc
    BY <1>1 DEF WorkerState
  <2>2. QED
    BY <1>1, <1>3, <2>1, FinaliserFrame DEF Goto
<1>4. QED
  BY <1>2, <1>3

LEMMA SameFinalisers ==
    ASSUME UNCHANGED worker
    PROVE  FinalisersKept
  BY DEF FinalisersKept, Finalises

LEMMA SameSettled ==
    ASSUME UNCHANGED item
    PROVE  SettledKept
  BY DEF SettledKept, Settled

LEMMA SameStatus ==
    ASSUME UNCHANGED <<status, reopened>>
    PROVE  StatusKept
  BY DEF StatusKept

\* Only RUNNING items are stuck.
LEMMA StuckStep ==
    ASSUME TypeOK, StuckRun, [Next]_vars
    PROVE  StuckRun'
<1> DEFINE Same == UNCHANGED <<item, stuck>>
<1>1. CASE Same
  BY <1>1 DEF StuckRun
<1>2. ASSUME NEW e \in Evals, NEW scope, Retry(e, scope)
      PROVE  StuckRun'
  <2> DEFINE S == RetryItems(e, scope)
  <2>1. /\ item' = [item EXCEPT ![e] = [i \in Items |-> IF i \in S THEN "PENDING" ELSE item[e][i]]]
        /\ stuck' = [stuck EXCEPT ![e] = @ \ S]
    BY <1>2 DEF Retry
  <2> HIDE DEF S
  <2>2. QED
    BY <2>1 DEF StuckRun, TypeOK
<1>3. ASSUME NEW w \in Workers, NEW e \in Evals, Coordinate(w, e)
      PROVE  StuckRun'
  BY <1>3 DEF Coordinate, StuckRun, TypeOK
<1>4. ASSUME NEW e \in Evals, NEW i \in Items, NEW s,
             item' = [item EXCEPT ![e] = [item[e] EXCEPT ![i] = s]] \/ item' = item,
             stuck' = [stuck EXCEPT ![e] = @ \ {i}]
      PROVE  StuckRun'
  <2>1. \A f \in Evals : \A j \in Items : f # e \/ j # i => item'[f][j] = item[f][j]
    BY <1>4 DEF TypeOK
  <2>2. \A f \in Evals : \A j \in stuck'[f] : j \in stuck[f] /\ j \in Items /\ (f # e \/ j # i)
    BY <1>4 DEF TypeOK
  <2>3. QED
    BY <2>1, <2>2 DEF StuckRun
<1>5. ASSUME NEW w \in Workers, NEW e \in Evals, NEW i \in Items, Claim(w, e, i)
      PROVE  StuckRun'
  BY <1>1, <1>4, <1>5 DEF Claim
<1>6. ASSUME NEW w \in Workers, NEW result, Process(w, result) \/ ItemFailed(w)
      PROVE  StuckRun'
  <2>1. worker[w].task \in Tasks /\ worker[w].task.kind = "item"
    BY <1>6 DEF TypeOK, WorkerState, Process, ItemFailed, At
  <2>2. worker[w].task.e \in Evals /\ worker[w].task.i \in Items
    BY <2>1, TaskParts
  <2>3. QED
    BY <1>1, <1>4, <1>6, <2>2 DEF Process, ItemFailed
<1>7. ASSUME NEW e \in Evals, NEW i \in Items, ItemExpires(e, i)
      PROVE  StuckRun'
  BY <1>7 DEF ItemExpires, StuckRun, TypeOK
<1>8. CASE Users
  <2>1. ASSUME NEW e \in Evals,
               Create(e) \/ (\E op \in {"pause", "resume"} : Ask(e, op)) \/ Answer(e) \/ Delete(e)
        PROVE  Same
    BY <2>1 DEF Create, Ask, Answer, Delete, rows
  <2>2. QED
    BY <1>1, <1>2, <1>8, <2>1 DEF Users
<1>9. CASE Beat \/ UNCHANGED vars
  BY <1>1, <1>9 DEF Beat, rows, vars
<1>10. ASSUME NEW w \in Workers, Continue(w)
       PROVE  StuckRun'
  <2>1. \/ Same
        \/ \E e \in Evals : Coordinate(w, e)
        \/ \E result : Process(w, result) \/ ItemFailed(w)
    BY <1>10
    DEF Continue, SelectEvaluations, SelectRunning, PublishBatch, InitializationFailed,
        Check, Count, Pick, Verify, Judge, Close, Release, Load, NextBatch, rows
  <2>2. QED
    BY <1>1, <1>3, <1>6, <2>1
<1>11. ASSUME NEW w \in Workers, NEW t \in Tasks, Start(w, t)
       PROVE  StuckRun'
  <2>1. CASE t.kind = "item" /\ Claim(w, t.e, t.i)
    BY <1>5, <2>1, TaskParts
  <2>2. CASE ~(t.kind = "item" /\ Claim(w, t.e, t.i))
    <3>1. Same
      BY <1>11, <2>2 DEF Start, CountEvaluations, Initialize, Acquire, GiveUp, rows
    <3>2. QED
      BY <1>1, <3>1
  <2>3. QED
    BY <2>1, <2>2
<1>12. CASE Expiry
  <2>1. ASSUME NEW e \in Evals, LockExpires(e)
        PROVE  Same
    BY <2>1 DEF LockExpires, rows
  <2>2. QED
    BY <1>1, <1>7, <1>12, <2>1 DEF Expiry
<1>13. CASE Trouble
  <2>1. Same
    BY <1>13 DEF Trouble, Crash, Redeliver, Raise, RaiseAtStart, rows
  <2>2. QED
    BY <1>1, <2>1
<1>14. QED
  BY <1>8, <1>9, <1>10, <1>11, <1>12, <1>13 DEF Next

\* Requests of users.
LEMMA UserDone ==
    ASSUME TypeOK, NEW e \in Evals,
           \/ Create(e) \/ (\E op \in {"pause", "resume"} : Ask(e, op)) \/ Answer(e)
           \/ (\E scope \in {"all", "failed"} : Retry(e, scope)) \/ Delete(e)
    PROVE  SettledKept /\ FinalisersKept /\ StatusKept
<1>1. FinalisersKept
  BY SameFinalisers DEF Create, Ask, Answer, Retry, Delete
<1>2. ASSUME NEW scope, Retry(e, scope)
      PROVE  SettledKept /\ StatusKept
  <2> DEFINE S == RetryItems(e, scope)
  <2>1. item' = [item EXCEPT ![e] = [i \in Items |-> IF i \in S THEN "PENDING" ELSE item[e][i]]]
    BY <1>2 DEF Retry
  <2>2. /\ reopened' = [reopened EXCEPT ![e] = TRUE]
        /\ status' = [status EXCEPT ![e] = "RUNNING"]
    BY <1>2 DEF Retry
  <2> HIDE DEF S
  <2>3. SettledKept
    BY <2>1, <2>2 DEF SettledKept, Settled, TypeOK
  <2>4. StatusKept
    BY <2>2 DEF StatusKept, TypeOK
  <2>5. QED
    BY <2>3, <2>4
<1>3. CASE Create(e)
  BY <1>1, <1>3, SameSettled DEF Create, StatusKept, TypeOK
<1>4. ASSUME NEW op, Ask(e, op)
      PROVE  SettledKept /\ StatusKept
  BY <1>4, SameSettled, SameStatus DEF Ask, rows
<1>5. CASE Answer(e)
  BY <1>1, <1>5, SameSettled DEF Answer, StatusKept, TypeOK
<1>6. CASE Delete(e)
  BY <1>1, <1>6, SameSettled, SameStatus DEF Delete
<1>7. QED
  BY <1>1, <1>2, <1>3, <1>4, <1>5, <1>6

\* Steps of the scheduler and of initialisation.  The coordinator puts back
\* RUNNING items only.
LEMMA SchedulerDone ==
    ASSUME TypeOK, StuckRun, NEW w \in Workers,
           \/ CountEvaluations(w)
           \/ SelectEvaluations(w) \/ SelectRunning(w) \/ (\E e \in Evals : Coordinate(w, e))
           \/ (\E e \in Evals : Initialize(w, e)) \/ PublishBatch(w) \/ InitializationFailed(w)
    PROVE  SettledKept /\ FinalisersKept /\ StatusKept
<1>1. worker \in [Workers -> WorkerState] /\ worker[w] \in WorkerState
  BY DEF TypeOK
<1>2. Idle.pc = "idle" /\ Idle \in WorkerState
  BY IdleType DEF Idle
<1>3. CASE CountEvaluations(w)
  <2> DEFINE n == Cardinality({e \in Evals : status[e] = "RUNNING"})
  <2>1. [Idle EXCEPT !.pc = "select", !.n = n].pc = "select"
    BY DEF Idle
  <2>2. worker' = [worker EXCEPT ![w] = [Idle EXCEPT !.pc = "select", !.n = n]]
    BY <1>3 DEF CountEvaluations
  <2>3. FinalisersKept
    BY <1>1, <2>1, <2>2, FinaliserFrame
  <2>4. QED
    BY <1>3, <2>3, SameSettled, SameStatus DEF CountEvaluations, rows
<1>4. CASE SelectEvaluations(w)
  BY <1>4, GotoFinalisers, SameSettled, SameStatus DEF SelectEvaluations, rows
<1>5. CASE SelectRunning(w)
  <2> DEFINE S == {e \in Evals : status[e] = "RUNNING"}
             x == IF S = {} THEN Idle ELSE [worker[w] EXCEPT !.pc = "coordinate", !.todo = S]
  <2>1. x.pc \in {"idle", "coordinate"}
    BY <1>1, <1>2 DEF WorkerState
  <2>2. worker' = [worker EXCEPT ![w] = x]
    BY <1>5 DEF SelectRunning
  <2> HIDE DEF x
  <2>3. FinalisersKept
    BY <1>1, <2>1, <2>2, FinaliserFrame
  <2>4. QED
    BY <1>5, <2>3, SameSettled, SameStatus DEF SelectRunning, rows
<1>6. ASSUME NEW e \in Evals, Coordinate(w, e)
      PROVE  SettledKept /\ FinalisersKept /\ StatusKept
  <2> DEFINE x == IF worker[w].todo = {e} THEN Idle ELSE [worker[w] EXCEPT !.todo = @ \ {e}]
  <2>1. x.pc \in {"idle", "coordinate"}
    BY <1>1, <1>2, <1>6 DEF WorkerState, Coordinate, At
  <2>2. worker' = [worker EXCEPT ![w] = x]
    BY <1>6 DEF Coordinate
  <2> HIDE DEF x
  <2>3. FinalisersKept
    BY <1>1, <2>1, <2>2, FinaliserFrame
  <2>4. item' = [item EXCEPT ![e] = [i \in Items |-> IF i \in stuck[e] THEN "PENDING" ELSE item[e][i]]]
    BY <1>6 DEF Coordinate
  <2>5. ASSUME NEW f \in Evals, Settled(f), NEW i \in Items
        PROVE  item'[f][i] \in Terminal
    <3>1. f = e => i \notin stuck[e]
      BY <2>5 DEF StuckRun, Settled, Terminal
    <3>2. QED
      BY <2>4, <2>5, <3>1 DEF Settled, TypeOK
  <2>6. SettledKept
    BY <2>5 DEF SettledKept, Settled
  <2>7. QED
    BY <1>6, <2>3, <2>6, SameStatus DEF Coordinate
<1>7. ASSUME NEW e \in Evals, Initialize(w, e)
      PROVE  SettledKept /\ FinalisersKept /\ StatusKept
  <2> DEFINE x == [Idle EXCEPT !.task = Task("initialize", e, 0), !.pc = "publish"]
  <2>1. x.pc = "publish"
    BY DEF Idle
  <2>2. worker' = [worker EXCEPT ![w] = x]
    BY <1>7 DEF Initialize
  <2> HIDE DEF x
  <2>3. FinalisersKept
    BY <1>1, <2>1, <2>2, FinaliserFrame
  <2>4. StatusKept
    BY <1>7 DEF Initialize, StatusKept, TypeOK
  <2>5. QED
    BY <1>7, <2>3, <2>4, SameSettled DEF Initialize
<1>8. CASE PublishBatch(w)
  BY <1>8, GotoFinalisers, SameSettled, SameStatus DEF PublishBatch, rows
<1>9. CASE InitializationFailed(w)
  <2>1. StatusKept
    BY <1>9 DEF InitializationFailed, StatusKept, TypeOK
  <2>2. QED
    BY <1>9, <2>1, GotoFinalisers, SameSettled DEF InitializationFailed
<1>10. QED
  BY <1>3, <1>4, <1>5, <1>6, <1>7, <1>8, <1>9

\* Steps of a batch but for the verification and the UPDATE.
LEMMA BatchDone ==
    ASSUME TypeOK, NEW w \in Workers,
           \/ (\E e \in Evals : Acquire(w, e) \/ GiveUp(w, e))
           \/ Check(w) \/ Count(w) \/ Pick(w) \/ Judge(w) \/ Release(w)
    PROVE  SettledKept /\ FinalisersKept /\ StatusKept
<1>1. worker \in [Workers -> WorkerState] /\ worker[w] \in WorkerState
  BY DEF TypeOK
<1>2. SettledKept /\ StatusKept
  <2>1. UNCHANGED <<item, status, reopened>>
    BY DEF Acquire, GiveUp, Check, Count, Pick, Judge, Release, rows
  <2>2. QED
    BY <2>1, SameSettled, SameStatus
<1>3. ASSUME NEW e \in Evals, Acquire(w, e)
      PROVE  FinalisersKept
  <2> DEFINE x == [Idle EXCEPT !.task = Task("batch", e, 0), !.pc = "check"]
  <2>1. x.pc = "check"
    BY DEF Idle
  <2>2. worker' = [worker EXCEPT ![w] = x]
    BY <1>3 DEF Acquire
  <2> HIDE DEF x
  <2>3. QED
    BY <1>1, <2>1, <2>2, FinaliserFrame
<1>4. ASSUME NEW e \in Evals, GiveUp(w, e)
      PROVE  FinalisersKept
  BY <1>4, SameFinalisers DEF GiveUp
<1>5. ASSUME Check(w) \/ Pick(w) \/ Release(w)
      PROVE  FinalisersKept
  <2>1. CASE Check(w)
    BY <2>1, GotoFinalisers DEF Check
  <2>2. CASE Pick(w)
    BY <2>2, GotoFinalisers DEF Pick
  <2>3. CASE Release(w)
    BY <2>3, GotoFinalisers DEF Release
  <2>4. QED
    BY <1>5, <2>1, <2>2, <2>3
<1>6. ASSUME Count(w)
      PROVE  FinalisersKept
  <2> DEFINE n == Cardinality(WithStatus(worker[w].task.e, "RUNNING"))
             pc == IF n < MaxProcessing THEN "pick" ELSE "release"
             x == [worker[w] EXCEPT !.pc = pc, !.n = n]
  <2>1. worker' = [worker EXCEPT ![w] = x]
    BY <1>6 DEF Count
  <2>2. pc \in {"pick", "release"}
    OBVIOUS
  <2> HIDE DEF n, pc
  <2>3. x.pc = pc
    BY <1>1 DEF WorkerState
  <2> HIDE DEF x
  <2>4. QED
    BY <1>1, <2>1, <2>2, <2>3, FinaliserFrame
<1>7. ASSUME Judge(w)
      PROVE  FinalisersKept
  <2> DEFINE n == Cardinality(WithStatus(worker[w].task.e, "FAILED"))
             m == Cardinality(Items \ Unfinished(worker[w].task.e))
             x == [worker[w] EXCEPT !.pc = "close", !.n = n, !.base = m]
  <2>1. worker' = [worker EXCEPT ![w] = x]
    BY <1>7 DEF Judge
  <2> HIDE DEF n, m
  <2>2. x.task = worker[w].task
    BY <1>1 DEF WorkerState
  <2>3. worker[w].pc = "judge"
    BY <1>7 DEF Judge, At
  <2> HIDE DEF x
  <2>4. QED
    BY <1>1, <2>1, <2>2, <2>3, FinaliserFrame
<1>8. QED
  BY <1>2, <1>3, <1>4, <1>5, <1>6, <1>7

\* Steps of an item.  One that is claimed was PENDING, and results are
\* terminal.
LEMMA ItemDone ==
    ASSUME TypeOK, NEW w \in Workers,
           \/ (\E e \in Evals : \E i \in Items : Claim(w, e, i))
           \/ Load(w) \/ (\E result \in Terminal : Process(w, result)) \/ ItemFailed(w) \/ NextBatch(w)
    PROVE  SettledKept /\ FinalisersKept /\ StatusKept
<1>1. worker \in [Workers -> WorkerState] /\ worker[w] \in WorkerState
  BY DEF TypeOK
<1>2. StatusKept
  BY SameStatus DEF Claim, Load, Process, ItemFailed, NextBatch, rows
<1>3. ASSUME NEW e \in Evals, NEW i \in Items, NEW s,
             \/ UNCHANGED item
             \/ /\ item' = [item EXCEPT ![e] = [item[e] EXCEPT ![i] = s]]
                /\ item[e][i] = "PENDING" \/ s \in Terminal
      PROVE  SettledKept
  <2>1. ASSUME NEW f \in Evals, Settled(f), NEW j \in Items
        PROVE  item'[f][j] \in Terminal
    <3>1. item[f][j] \in Terminal /\ (f = e /\ j = i => item[f][j] # "PENDING")
      BY <2>1 DEF Settled, Terminal
    <3>2. item'[f][j] = item[f][j] \/ (f = e /\ j = i /\ item'[f][j] = s)
      BY <1>3 DEF TypeOK
    <3>3. QED
      BY <1>3, <3>1, <3>2
  <2>2. QED
    BY <2>1 DEF SettledKept, Settled
<1>4. ASSUME NEW e \in Evals, NEW i \in Items, Claim(w, e, i)
      PROVE  SettledKept /\ FinalisersKept
  <2>1. SettledKept
    BY <1>3, <1>4 DEF Claim
  <2> DEFINE m == Task("item", e, i)
             r == round[e][i]
             x == [Idle EXCEPT !.task = m, !.pc = "load", !.round = r]
  <2>2. UNCHANGED worker \/ worker' = [worker EXCEPT ![w] = x]
    BY <1>4 DEF Claim
  <2> HIDE DEF m, r
  <2>3. x.pc = "load"
    BY DEF Idle
  <2> HIDE DEF x
  <2>4. FinalisersKept
    BY <1>1, <2>2, <2>3, FinaliserFrame, SameFinalisers
  <2>5. QED
    BY <2>1, <2>4
<1>5. ASSUME Load(w)
      PROVE  SettledKept /\ FinalisersKept
  <2> DEFINE seen == item[worker[w].task.e][worker[w].task.i]
             base == completed[worker[w].task.e]
             x == [worker[w] EXCEPT !.pc = "agent", !.seen = seen, !.base = base]
  <2>1. worker' = [worker EXCEPT ![w] = x]
    BY <1>5 DEF Load
  <2> HIDE DEF seen, base
  <2>2. x.pc = "agent"
    BY <1>1 DEF WorkerState
  <2> HIDE DEF x
  <2>3. FinalisersKept
    BY <1>1, <2>1, <2>2, FinaliserFrame
  <2>4. QED
    BY <1>5, <2>3, SameSettled DEF Load, rows
<1>6. At(w, "item", worker[w].pc) => worker[w].task.e \in Evals /\ worker[w].task.i \in Items
  BY <1>1, TaskParts DEF At, WorkerState
<1>7. ASSUME NEW result \in Terminal, Process(w, result)
      PROVE  SettledKept /\ FinalisersKept
  <2>1. SettledKept
    BY <1>3, <1>6, <1>7 DEF Process, At
  <2>2. QED
    BY <1>7, <2>1, GotoFinalisers DEF Process
<1>8. ASSUME ItemFailed(w)
      PROVE  SettledKept /\ FinalisersKept
  <2>1. SettledKept
    BY <1>3, <1>6, <1>8 DEF ItemFailed, At, Terminal
  <2>2. QED
    BY <1>8, <2>1, GotoFinalisers DEF ItemFailed
<1>9. ASSUME NextBatch(w)
      PROVE  SettledKept /\ FinalisersKept
  BY <1>9, GotoFinalisers, SameSettled DEF NextBatch, rows
<1>10. QED
  BY <1>2, <1>4, <1>5, <1>7, <1>8, <1>9

\* Faults and the passing of time.
LEMMA TroubleDone ==
    ASSUME TypeOK, Expiry \/ Trouble
    PROVE  SettledKept /\ FinalisersKept /\ StatusKept
<1>1. UNCHANGED <<item, status, reopened>>
  BY DEF Expiry, Trouble, LockExpires, ItemExpires, Crash, Redeliver, Raise, RaiseAtStart, rows
<1>2. SettledKept /\ StatusKept
  BY <1>1, SameSettled, SameStatus
<1>3. ASSUME Expiry
      PROVE  FinalisersKept
  BY <1>3, SameFinalisers DEF Expiry, LockExpires, ItemExpires
<1>4. ASSUME NEW w \in Workers, Crash(w) \/ Redeliver(w) \/ Raise(w)
      PROVE  FinalisersKept
  <2>1. CASE Crash(w)
    BY <2>1, GotoFinalisers DEF Crash
  <2>2. CASE Redeliver(w)
    BY <2>2, SameFinalisers DEF Redeliver
  <2>3. CASE Raise(w)
    BY <2>3, GotoFinalisers DEF Raise
  <2>4. QED
    BY <1>4, <2>1, <2>2, <2>3
<1>5. ASSUME NEW w \in Workers, NEW t \in Tasks, RaiseAtStart(w, t)
      PROVE  FinalisersKept
  <2> DEFINE pc == IF t.kind = "item" THEN "failed" ELSE "broken"
             x == [Idle EXCEPT !.task = t, !.pc = pc]
  <2>1. worker' = [worker EXCEPT ![w] = x]
    BY <1>5 DEF RaiseAtStart
  <2>2. x.pc \in {"failed", "broken"}
    BY DEF Idle
  <2> HIDE DEF x
  <2>3. QED
    BY <2>1, <2>2, FinaliserFrame DEF TypeOK
<1>6. QED
  BY <1>2, <1>3, <1>4, <1>5 DEF Trouble

\* The verification looks at the items itself ...
LEMMA VerifyDone ==
    ASSUME TypeOK, Verified, NEW w \in Workers, Verify(w)
    PROVE  Verified'
<1> DEFINE e == worker[w].task.e
<1>1. worker \in [Workers -> WorkerState] /\ worker[w] \in WorkerState
  BY DEF TypeOK
<1>2. e \in Evals
  BY <1>1, TaskParts DEF Verify, At, WorkerState
<1>3. UNCHANGED <<status, item>>
  BY DEF Verify, rows
<1>4. CASE Unfinished(e) = {}
  <2>1. Goto(w, "judge") /\ reopened' = [reopened EXCEPT ![e] = FALSE]
    BY <1>4 DEF Verify
  <2>2. Settled(e)
    BY <1>2, <1>4, SettledUnfinished
  <2>3. \A v \in Workers : v # w => worker'[v] = worker[v]
    BY <2>1 DEF Goto
  <2>4. worker'[w].task = worker[w].task
    BY <1>1, <2>1 DEF Goto, WorkerState
  <2> HIDE DEF e
  <2>5. ASSUME NEW f \in Evals, f # e,
               ~reopened'[f], status'[f] = "COMPLETED" \/ \E v \in Workers : Finalises(v, f)'
        PROVE  Settled(f)
    <3>1. ~reopened[f]
      BY <2>1, <2>5 DEF TypeOK
    <3>2. \A v \in Workers : Finalises(v, f)' => Finalises(v, f)
      BY <2>3, <2>4, <2>5 DEF Finalises, e
    <3>3. QED
      BY <1>3, <2>5, <3>1, <3>2 DEF Verified
  <2>6. QED
    BY <1>3, <2>2, <2>5 DEF Verified, Settled
<1>5. CASE Unfinished(e) # {}
  <2>1. Goto(w, "release") /\ UNCHANGED reopened
    BY <1>5 DEF Verify
  <2>2. QED
    BY <1>3, <2>1, GotoFinalisers, SameSettled, SameStatus, DoneFrame
<1>6. QED
  BY <1>4, <1>5

\* ... and the UPDATE relies on it.
LEMMA CloseDone ==
    ASSUME TypeOK, Verified, NEW w \in Workers, Close(w)
    PROVE  Verified'
<1> DEFINE e == worker[w].task.e
<1>1. Finalises(w, e)
  BY DEF Close, At, Finalises
<1>2. UNCHANGED <<item, reopened>>
  BY DEF Close
<1>3. FinalisersKept
  BY GotoFinalisers DEF Close
<1>4. \A f \in Evals : f # e => status'[f] = status[f]
  BY DEF Close, TypeOK
<1> HIDE DEF e
<1>5. ASSUME NEW f \in Evals,
             ~reopened'[f], status'[f] = "COMPLETED" \/ \E v \in Workers : Finalises(v, f)'
      PROVE  Settled(f)
  <2>1. status[f] = "COMPLETED" \/ \E v \in Workers : Finalises(v, f)
    BY <1>1, <1>3, <1>4, <1>5 DEF FinalisersKept
  <2>2. QED
    BY <1>2, <1>5, <2>1 DEF Verified
<1>6. QED
  BY <1>2, <1>5 DEF Verified, Settled

\* Every step keeps the invariant.
LEMMA NextDone ==
    ASSUME TypeOK, DoneInv, [Next]_vars
    PROVE  DoneInv'
<1> USE DEF DoneInv
<1>1. CASE Users
  BY <1>1, UserDone, DoneFrame, StuckStep DEF Users
<1>2. CASE Beat \/ UNCHANGED vars
  <2>1. UNCHANGED <<item, status, reopened>> /\ UNCHANGED worker
    BY <1>2 DEF Beat, rows, vars
  <2>2. QED
    BY <2>1, SameSettled, SameStatus, SameFinalisers, DoneFrame, StuckStep
<1>3. ASSUME NEW w \in Workers, Continue(w)
      PROVE  Verified'
  BY <1>3, SchedulerDone, BatchDone, ItemDone, VerifyDone, CloseDone, DoneFrame DEF Continue
<1>4. ASSUME NEW w \in Workers, NEW t \in Tasks, Start(w, t)
      PROVE  Verified'
  <2>1. t.kind \in {"initialize", "batch", "item"} => t.e \in Evals
    BY TaskParts
  <2>2. t.kind = "item" => t.i \in Items
    BY TaskParts
  <2>3. SettledKept /\ FinalisersKept /\ StatusKept
    BY <1>4, <2>1, <2>2, SchedulerDone, BatchDone, ItemDone DEF Start
  <2>4. QED
    BY <2>3, DoneFrame
<1>5. CASE Expiry \/ Trouble
  BY <1>5, TroubleDone, DoneFrame, StuckStep
<1>6. QED
  BY <1>1, <1>2, <1>3, <1>4, <1>5, StuckStep DEF Next

\* A COMPLETED evaluation that was not retried since its verification has no
\* item left to process (_finalize_evaluation).
THEOREM CompletionIsDone == Spec => []CompletedIsDone
<1>1. Init => DoneInv
  BY DEF Init, DoneInv, StuckRun, Verified, Finalises, Idle
<1>2. TypeOK /\ DoneInv => CompletedIsDone
  BY SettledUnfinished DEF DoneInv, Verified, CompletedIsDone
<1>3. QED
  BY TypeCorrect, NextDone, <1>1, <1>2, PTL DEF Spec

-----------------------------------------------------------------------------
(* What a step does to a worker.  The arguments below need only this of    *)
(* the next-state relation.                                                *)

\* The worker has ended, or begun a batch, or begun or gone on with another
\* task, or gone on with its batch.
Moves(w) ==
    \/ worker'[w] = Idle
    \/ \E e \in Evals : Acquire(w, e) /\ worker'[w].task = Task("batch", e, 0) /\ worker'[w].pc = "check"
    \/ worker'[w].task.kind # "batch" /\ worker'[w].pc \notin {"judge", "close"}
    \/ /\ worker'[w].task = worker[w].task /\ worker[w].pc # "idle"
       /\ worker'[w].pc = "close" => Judge(w)

\* The first step of a task.
LEMMA StartMoves ==
    ASSUME TypeOK, NEW w \in Workers, NEW t \in Tasks, Start(w, t) \/ RaiseAtStart(w, t)
    PROVE  worker' = worker \/ Moves(w)
<1>a. ASSUME NEW x, worker' = [worker EXCEPT ![w] = x]
      PROVE  worker'[w] = x
  BY <1>a DEF TypeOK
<1>1. CASE CountEvaluations(w)
  <2> DEFINE n == Cardinality({e \in Evals : status[e] = "RUNNING"})
             x == [Idle EXCEPT !.pc = "select", !.n = n]
  <2>1. worker' = [worker EXCEPT ![w] = x]
    BY <1>1 DEF CountEvaluations
  <2> HIDE DEF n
  <2>2. x.task.kind = "reconcile" /\ x.pc = "select"
    BY DEF Idle, Reconcile, Task
  <2> HIDE DEF x
  <2>3. QED
    BY <1>a, <2>1, <2>2 DEF Moves
<1>2. CASE t.kind = "initialize" /\ Initialize(w, t.e)
  <2> DEFINE x == [Idle EXCEPT !.task = Task("initialize", t.e, 0), !.pc = "publish"]
  <2>1. worker' = [worker EXCEPT ![w] = x]
    BY <1>2 DEF Initialize
  <2>2. x.task.kind = "initialize" /\ x.pc = "publish"
    BY DEF Idle, Task
  <2> HIDE DEF x
  <2>3. QED
    BY <1>a, <2>1, <2>2 DEF Moves
<1>3. CASE t.kind = "batch" /\ Acquire(w, t.e)
  <2> DEFINE x == [Idle EXCEPT !.task = Task("batch", t.e, 0), !.pc = "check"]
  <2>1. worker' = [worker EXCEPT ![w] = x]
    BY <1>3 DEF Acquire
  <2>2. x.task = Task("batch", t.e, 0) /\ x.pc = "check"
    BY DEF Idle
  <2> HIDE DEF x
  <2>3. QED
    BY <1>3, <1>a, <2>1, <2>2, TaskParts DEF Moves
<1>4. CASE t.kind = "batch" /\ GiveUp(w, t.e)
  BY <1>4 DEF GiveUp
<1>5. CASE t.kind = "item" /\ Claim(w, t.e, t.i)
  <2> DEFINE m == Task("item", t.e, t.i)
             r == round[t.e][t.i]
             x == [Idle EXCEPT !.task = m, !.pc = "load", !.round = r]
  <2>1. worker' = worker \/ worker' = [worker EXCEPT ![w] = x]
    BY <1>5 DEF Claim
  <2>2. m.kind = "item"
    BY DEF Task
  <2> HIDE DEF m, r
  <2>3. x.task = m /\ x.pc = "load"
    BY DEF Idle
  <2> HIDE DEF x
  <2>4. QED
    BY <1>a, <2>1, <2>2, <2>3 DEF Moves
<1>6. CASE RaiseAtStart(w, t)
  <2> DEFINE pc == IF t.kind = "item" THEN "failed" ELSE "broken"
             x == [Idle EXCEPT !.task = t, !.pc = pc]
  <2>1. worker' = [worker EXCEPT ![w] = x] /\ t.kind # "batch"
    BY <1>6 DEF RaiseAtStart
  <2>2. x.task = t /\ x.pc \in {"failed", "broken"}
    BY DEF Idle
  <2> HIDE DEF x
  <2>3. QED
    BY <1>a, <2>1, <2>2 DEF Moves
<1>7. QED
  BY <1>1, <1>2, <1>3, <1>4, <1>5, <1>6 DEF Start

\* Its later steps, faults included.
LEMMA ContinueMoves ==
    ASSUME TypeOK, NEW w \in Workers, Continue(w) \/ Crash(w) \/ Redeliver(w) \/ Raise(w)
    PROVE  worker' = worker \/ Moves(w)
<1>1. worker \in [Workers -> WorkerState] /\ worker[w] \in WorkerState
  BY DEF TypeOK
<1>a. ASSUME NEW x, worker' = [worker EXCEPT ![w] = x], x.task = worker[w].task, x.pc # "close",
             worker[w].pc # "idle"
      PROVE  Moves(w)
  BY <1>1, <1>a DEF Moves
<1>b. ASSUME NEW pc, Goto(w, pc), pc # "close", worker[w].pc # "idle"
      PROVE  Moves(w)
  <2> DEFINE x == [worker[w] EXCEPT !.pc = pc]
  <2>1. worker' = [worker EXCEPT ![w] = x]
    BY <1>b DEF Goto
  <2>2. x.task = worker[w].task /\ x.pc = pc
    BY <1>1 DEF WorkerState
  <2> HIDE DEF x
  <2>3. QED
    BY <1>a, <1>b, <2>1, <2>2
<1>c. ASSUME Done(w)
      PROVE  Moves(w)
  BY <1>1, <1>c DEF Done, Moves
<1>2. CASE \/ SelectEvaluations(w) \/ PublishBatch(w) \/ InitializationFailed(w)
           \/ Check(w) \/ Pick(w) \/ Verify(w) \/ Close(w) \/ Release(w)
           \/ (\E result \in Terminal : Process(w, result)) \/ ItemFailed(w) \/ NextBatch(w)
           \/ Crash(w) \/ Redeliver(w) \/ Raise(w)
  BY <1>2, <1>b, <1>c
  DEF SelectEvaluations, PublishBatch, InitializationFailed, Check, Pick, Verify, Close, Release, Process,
      ItemFailed, NextBatch, Crash, Redeliver, Raise, At
<1>3. CASE SelectRunning(w)
  <2> DEFINE S == {e \in Evals : status[e] = "RUNNING"}
             x == [worker[w] EXCEPT !.pc = "coordinate", !.todo = S]
  <2>1. worker' = [worker EXCEPT ![w] = IF S = {} THEN Idle ELSE x] /\ worker[w].pc # "idle"
    BY <1>3 DEF SelectRunning, At
  <2> HIDE DEF S
  <2>2. x.task = worker[w].task /\ x.pc = "coordinate"
    BY <1>1 DEF WorkerState
  <2> HIDE DEF x
  <2>3. QED
    BY <1>a, <1>c, <2>1, <2>2 DEF Done
<1>4. ASSUME NEW e \in Evals, Coordinate(w, e)
      PROVE  Moves(w)
  <2> DEFINE x == [worker[w] EXCEPT !.todo = @ \ {e}]
  <2>1. worker' = [worker EXCEPT ![w] = IF worker[w].todo = {e} THEN Idle ELSE x] /\ worker[w].pc = "coordinate"
    BY <1>4 DEF Coordinate, At
  <2>2. x.task = worker[w].task /\ x.pc = worker[w].pc
    BY <1>1 DEF WorkerState
  <2> HIDE DEF x
  <2>3. QED
    BY <1>a, <1>c, <2>1, <2>2 DEF Done
<1>5. CASE Count(w)
  <2> DEFINE n == Cardinality(WithStatus(worker[w].task.e, "RUNNING"))
             pc == IF n < MaxProcessing THEN "pick" ELSE "release"
             x == [worker[w] EXCEPT !.pc = pc, !.n = n]
  <2>1. worker' = [worker EXCEPT ![w] = x] /\ worker[w].pc # "idle" /\ pc \in {"pick", "release"}
    BY <1>5 DEF Count, At
  <2> HIDE DEF n, pc
  <2>2. x.task = worker[w].task /\ x.pc = pc
    BY <1>1 DEF WorkerState
  <2> HIDE DEF x
  <2>3. QED
    BY <1>a, <2>1, <2>2
<1>6. CASE Judge(w)
  <2> DEFINE n == Cardinality(WithStatus(worker[w].task.e, "FAILED"))
             m == Cardinality(Items \ Unfinished(worker[w].task.e))
             x == [worker[w] EXCEPT !.pc = "close", !.n = n, !.base = m]
  <2>1. worker' = [worker EXCEPT ![w] = x] /\ worker[w].pc # "idle"
    BY <1>6 DEF Judge, At
  <2> HIDE DEF n, m
  <2>2. x.task = worker[w].task
    BY <1>1 DEF WorkerState
  <2> HIDE DEF x
  <2>3. QED
    BY <1>1, <1>6, <2>1, <2>2 DEF Moves
<1>7. CASE Load(w)
  <2> DEFINE seen == item[worker[w].task.e][worker[w].task.i]
             base == completed[worker[w].task.e]
             x == [worker[w] EXCEPT !.pc = "agent", !.seen = seen, !.base = base]
  <2>1. worker' = [worker EXCEPT ![w] = x] /\ worker[w].pc # "idle"
    BY <1>7 DEF Load, At
  <2> HIDE DEF seen, base
  <2>2. x.task = worker[w].task /\ x.pc = "agent"
    BY <1>1 DEF WorkerState
  <2> HIDE DEF x
  <2>3. QED
    BY <1>a, <2>1, <2>2
<1>8. QED
  BY <1>2, <1>3, <1>4, <1>5, <1>6, <1>7 DEF Continue

LEMMA WorkerMoves ==
    ASSUME TypeOK, [Next]_vars, NEW w \in Workers, worker'[w] # worker[w]
    PROVE  Moves(w)
<1>1. ASSUME NEW v \in Workers,
             \/ Continue(v) \/ Crash(v) \/ Redeliver(v) \/ Raise(v)
             \/ \E t \in Tasks : Start(v, t) \/ RaiseAtStart(v, t)
      PROVE  (worker' = worker \/ Moves(v)) /\ \A u \in Workers : u # v => worker'[u] = worker[u]
  <2>1. worker' = worker \/ Moves(v)
    BY <1>1, StartMoves, ContinueMoves
  <2>2. worker' = worker \/ \E x : worker' = [worker EXCEPT ![v] = x]
    BY <1>1
    DEF Continue, Start, Crash, Redeliver, Raise, RaiseAtStart, CountEvaluations, Initialize, Acquire, GiveUp,
        Claim, SelectEvaluations, SelectRunning, Coordinate, PublishBatch, InitializationFailed, Check, Count,
        Pick, Verify, Judge, Close, Release, Load, Process, ItemFailed, NextBatch, Goto, Done
  <2>3. QED
    BY <2>1, <2>2 DEF TypeOK
<1>2. CASE Users \/ Beat \/ Expiry \/ UNCHANGED vars
  BY <1>2 DEF Users, Beat, Expiry, vars, Create, Ask, Answer, Retry, Delete, LockExpires, ItemExpires
<1>3. QED
  BY <1>1, <1>2 DEF Next, Trouble

-----------------------------------------------------------------------------
(* One batch of an evaluation at a time.  A batch between acquire and      *)
(* release is the holder of the lock: the key goes only when its holder    *)
(* deletes it or has died, unless a batch outlives it.                     *)

InBatch(w) == worker[w].task.kind = "batch" /\ worker[w].pc # "idle"

BatchHolds == \A w \in Workers : InBatch(w) => lock[worker[w].task.e] = w

\* What happens to the lock a worker holds.
LEMMA LockMoves ==
    ASSUME TypeOK, "slow_batch" \notin Faults, [Next]_vars,
           NEW w \in Workers, NEW e \in Evals, lock[e] = w
    PROVE  lock'[e] = w \/ worker'[w] = Idle
<1>1. lock \in [Evals -> Workers \cup {Free, Orphan}] /\ worker \in [Workers -> WorkerState]
  BY DEF TypeOK
<1>2. ASSUME NEW v \in Workers, Release(v)
      PROVE  lock'[e] = w \/ worker'[w] = Idle
  BY <1>1, <1>2 DEF Release, Done
<1>3. ASSUME NEW v \in Workers, Crash(v)
      PROVE  lock'[e] = w \/ worker'[w] = Idle
  BY <1>1, <1>3 DEF Crash, Done
<1>4. ASSUME NEW v \in Workers, NEW f \in Evals, Acquire(v, f)
      PROVE  lock'[e] = w
  BY <1>1, <1>4, LockAssumption DEF Acquire
<1>5. ASSUME NEW f \in Evals, LockExpires(f)
      PROVE  lock'[e] = w
  BY <1>1, <1>5, LockAssumption DEF LockExpires, Fault
<1>6. ASSUME NEW v \in Workers, Continue(v), ~Release(v)
      PROVE  lock' = lock
  BY <1>6
  DEF Continue, SelectEvaluations, SelectRunning, Coordinate, PublishBatch, InitializationFailed, Check, Count,
      Pick, Verify, Judge, Close, Load, Process, ItemFailed, NextBatch
<1>7. ASSUME NEW v \in Workers, NEW t \in Tasks, Start(v, t)
      PROVE  lock' = lock \/ \E f \in Evals : Acquire(v, f)
  BY <1>7, TaskParts DEF Start, CountEvaluations, Initialize, GiveUp, Claim
<1>8. CASE Users \/ Beat \/ UNCHANGED vars
  BY <1>8 DEF Users, Beat, vars, Create, Ask, Answer, Retry, Delete
<1>9. CASE Expiry
  BY <1>5, <1>9 DEF Expiry, ItemExpires
<1>10. CASE Trouble
  BY <1>3, <1>10 DEF Trouble, Redeliver, Raise, RaiseAtStart
<1>11. QED
  BY <1>2, <1>4, <1>6, <1>7, <1>8, <1>9, <1>10 DEF Next

LEMMA BatchHoldsStep ==
    ASSUME TypeOK, "slow_batch" \notin Faults, BatchHolds, [Next]_vars
    PROVE  BatchHolds'
<1> SUFFICES ASSUME NEW w \in Workers, InBatch(w)'
             PROVE  lock'[worker'[w].task.e] = w
  BY DEF BatchHolds, InBatch
<1>1. worker \in [Workers -> WorkerState] /\ worker[w] \in WorkerState /\ Idle.pc = "idle"
  BY DEF TypeOK, Idle
<1>2. ASSUME InBatch(w), worker'[w].task = worker[w].task
      PROVE  lock'[worker'[w].task.e] = w
  <2>1. worker[w].task.e \in Evals /\ lock[worker[w].task.e] = w
    BY <1>1, <1>2, TaskParts DEF BatchHolds, InBatch, WorkerState
  <2>2. QED
    BY <1>1, <1>2, <2>1, LockMoves DEF InBatch
<1>3. CASE worker'[w] = worker[w]
  BY <1>2, <1>3 DEF InBatch
<1>4. CASE worker'[w] # worker[w]
  <2>1. ASSUME NEW e \in Evals, Acquire(w, e), worker'[w].task = Task("batch", e, 0)
        PROVE  lock'[worker'[w].task.e] = w
    BY <2>1 DEF Acquire, Task, TypeOK
  <2>2. worker'[w].task = worker[w].task /\ worker[w].pc # "idle" => InBatch(w)
    BY DEF InBatch
  <2>3. QED
    BY <1>1, <1>2, <1>4, <2>1, <2>2, WorkerMoves DEF Moves, InBatch
<1>5. QED
  BY <1>3, <1>4

\* As long as no batch takes longer than its lock lasts, no two batches of an
\* evaluation run together: whatever is delivered twice, raised or dies.
THEOREM OneBatch ==
    ASSUME "slow_batch" \notin Faults
    PROVE  Spec => []BatchesExclusive
<1>1. Init => BatchHolds
  BY DEF Init, BatchHolds, InBatch, Idle
<1>2. TypeOK /\ BatchHolds /\ [Next]_vars => BatchHolds'
  BY BatchHoldsStep
<1>3. BatchHolds => BatchesExclusive
  BY DEF BatchHolds, InBatch, BatchesExclusive
<1>4. QED
  BY <1>1, <1>2, <1>3, TypeCorrect, PTL DEF Spec

-----------------------------------------------------------------------------
(* A COMPLETED evaluation is exact when nobody retries and no item takes   *)
(* so long that the coordinator gives it to another worker.  An item has   *)
(* then one worker, from its claim to its result, and a COMPLETED item is  *)
(* never touched again; a finaliser that has counted no FAILED item has    *)
(* therefore seen the final results, however late it writes them down.     *)

OneHolder ==
    \A v, w \in Workers : \A e \in Evals : \A i \in Items : Holds(v, e, i) /\ Holds(w, e, i) => v = w

HeldOpen ==
    \A w \in Workers : \A e \in Evals : \A i \in Items :
        Holds(w, e, i) => item[e][i] \in {"RUNNING", "FAILED"} /\ i \notin stuck[e]

FinalisedSettled == \A w \in Workers : \A e \in Evals : Finalises(w, e) => Settled(e)

ClosingExact ==
    \A w \in Workers : \A e \in Evals : worker[w].task.e = e /\ worker[w].pc = "close" =>
        /\ worker[w].base = NItems
        /\ worker[w].n = 0 => \A i \in Items : item[e][i] = "COMPLETED"

HeldInv == StuckRun /\ OneHolder /\ HeldOpen
ExactInv == HeldInv /\ FinalisedSettled /\ ClosingExact /\ CompletedIsExact

\* The actions that write items, progress and statuses.
LEMMA ItemWriters ==
    ASSUME [Next]_vars, item' # item
    PROVE  \/ \E e \in Evals : \E scope \in {"all", "failed"} : Retry(e, scope)
           \/ \E w \in Workers : \E e \in Evals : Coordinate(w, e)
           \/ \E w \in Workers : \E e \in Evals : \E i \in Items : Claim(w, e, i)
           \/ \E w \in Workers : \E result \in Terminal : Process(w, result)
           \/ \E w \in Workers : ItemFailed(w)
<1>1. CASE Users
  BY <1>1 DEF Users, Create, Ask, Answer, Delete, rows
<1>2. ASSUME NEW w \in Workers, Continue(w)
      PROVE  \/ \E e \in Evals : Coordinate(w, e)
             \/ \E result \in Terminal : Process(w, result)
             \/ ItemFailed(w)
  BY <1>2
  DEF Continue, SelectEvaluations, SelectRunning, PublishBatch, InitializationFailed,
      Check, Count, Pick, Verify, Judge, Close, Release, Load, NextBatch, rows
<1>3. ASSUME NEW w \in Workers, NEW t \in Tasks, Start(w, t)
      PROVE  t.kind = "item" /\ Claim(w, t.e, t.i)
  BY <1>3 DEF Start, CountEvaluations, Initialize, Acquire, GiveUp, rows
<1>4. UNCHANGED item \/ ~(Beat \/ Expiry \/ Trouble \/ UNCHANGED vars)
  BY DEF Beat, Expiry, Trouble, vars, rows, LockExpires, ItemExpires, Crash, Redeliver, Raise, RaiseAtStart
<1>5. QED
  BY <1>1, <1>2, <1>3, <1>4, TaskParts DEF Next

LEMMA ProgressWriters ==
    ASSUME "retry" \notin Ops, [Next]_vars, <<status, completed>>' # <<status, completed>>
    PROVE  \/ \E w \in Workers : \E result \in Terminal : Process(w, result)
           \/ \E w \in Workers : Close(w)
           \/ /\ UNCHANGED completed
              /\ \/ \E e \in Evals : Create(e) \/ Answer(e)
                 \/ \E w \in Workers : \E e \in Evals : Initialize(w, e)
                 \/ \E w \in Workers : InitializationFailed(w)
<1>1. CASE Users
  BY <1>1 DEF Users, Create, Ask, Answer, Retry, Request, Delete, rows
<1>2. ASSUME NEW w \in Workers, Continue(w)
      PROVE  \/ \E result \in Terminal : Process(w, result)
             \/ Close(w)
             \/ UNCHANGED completed /\ InitializationFailed(w)
  BY <1>2
  DEF Continue, SelectEvaluations, SelectRunning, Coordinate, PublishBatch, InitializationFailed,
      Check, Count, Pick, Verify, Judge, Release, Load, ItemFailed, NextBatch, rows
<1>3. ASSUME NEW w \in Workers, NEW t \in Tasks, Start(w, t)
      PROVE  t.kind = "initialize" /\ Initialize(w, t.e) /\ UNCHANGED completed
  BY <1>3 DEF Start, CountEvaluations, Initialize, Acquire, GiveUp, Claim, rows
<1>4. UNCHANGED <<status, completed>> \/ ~(Beat \/ Expiry \/ Trouble \/ UNCHANGED vars)
  BY DEF Beat, Expiry, Trouble, vars, rows, LockExpires, ItemExpires, Crash, Redeliver, Raise, RaiseAtStart
<1>5. QED
  BY <1>1, <1>2, <1>3, <1>4, TaskParts DEF Next

\* Items become stuck by the passing of time only.
LEMMA StuckWriters ==
    ASSUME TypeOK, [Next]_vars, NEW e \in Evals, NEW i \in Items, i \notin stuck[e], i \in stuck'[e]
    PROVE  ItemExpires(e, i)
<1>1. stuck \in [Evals -> SUBSET Items]
  BY DEF TypeOK
<1>2. ~Users
  BY <1>1 DEF Users, Create, Ask, Answer, Retry, Delete, rows
<1>3. ASSUME NEW w \in Workers, Continue(w)
      PROVE  FALSE
  <2>1. \A f \in Evals : stuck'[f] \subseteq stuck[f]
    BY <1>1, <1>3
    DEF Continue, SelectEvaluations, SelectRunning, Coordinate, PublishBatch, InitializationFailed, Check, Count,
        Pick, Verify, Judge, Close, Release, Load, Process, ItemFailed, NextBatch, rows
  <2>2. QED
    BY <2>1
<1>4. ASSUME NEW w \in Workers, NEW t \in Tasks, Start(w, t)
      PROVE  FALSE
  <2>1. \A f \in Evals : stuck'[f] \subseteq stuck[f]
    BY <1>1, <1>4 DEF Start, CountEvaluations, Initialize, Acquire, GiveUp, Claim, rows
  <2>2. QED
    BY <2>1
<1>5. ~(Beat \/ Trouble \/ UNCHANGED vars)
  BY DEF Beat, Trouble, vars, rows, Crash, Redeliver, Raise, RaiseAtStart
<1>6. CASE Expiry
  BY <1>1, <1>6 DEF Expiry, LockExpires, ItemExpires, rows
<1>7. QED
  BY <1>2, <1>3, <1>4, <1>5, <1>6 DEF Next

\* Who holds an item held it before, or has just claimed it.
LEMMA HolderMoves ==
    ASSUME TypeOK, [Next]_vars, NEW w \in Workers, NEW e \in Evals, NEW i \in Items, Holds(w, e, i)'
    PROVE  \/ Holds(w, e, i)
           \/ /\ Claim(w, e, i) /\ item[e][i] = "PENDING"
              /\ item'[e][i] = "RUNNING" /\ i \notin stuck'[e]
              /\ \A v \in Workers : v # w => worker'[v] = worker[v]
<1>1. HoldersKept => Holds(w, e, i)
  BY DEF HoldersKept
<1>2. CASE Users
  BY <1>1, <1>2, UserRounds DEF Users
<1>3. CASE Beat \/ UNCHANGED vars
  BY <1>1, <1>3, SameWorkers DEF Beat, vars
<1>4. ASSUME NEW v \in Workers, Continue(v)
      PROVE  Holds(w, e, i)
  BY <1>1, <1>4, SchedulerRounds, BatchRounds, ItemRounds DEF Continue
<1>5. CASE Expiry \/ Trouble
  BY <1>1, <1>5, TroubleRounds
<1>6. ASSUME NEW v \in Workers, NEW t \in Tasks, Start(v, t), ~(t.kind = "item" /\ Claim(v, t.e, t.i))
      PROVE  Holds(w, e, i)
  <2>1. t.kind \in {"initialize", "batch"} => t.e \in Evals
    BY TaskParts
  <2>2. HoldersKept
    BY <1>6, <2>1, SchedulerRounds, BatchRounds DEF Start
  <2>3. QED
    BY <1>1, <2>2
<1>7. ASSUME NEW v \in Workers, NEW f \in Evals, NEW j \in Items, Claim(v, f, j)
      PROVE  \/ Holds(w, e, i)
             \/ /\ Claim(w, e, i) /\ item[e][i] = "PENDING"
                /\ item'[e][i] = "RUNNING" /\ i \notin stuck'[e]
                /\ \A u \in Workers : u # w => worker'[u] = worker[u]
  <2>1. CASE item[f][j] # "PENDING"
    BY <1>1, <1>7, <2>1, SameWorkers DEF Claim
  <2>2. CASE item[f][j] = "PENDING"
    <3> DEFINE m == Task("item", f, j)
               r == round[f][j]
               x == [Idle EXCEPT !.task = m, !.pc = "load", !.round = r]
    <3>1. worker' = [worker EXCEPT ![v] = x]
      BY <1>7, <2>2 DEF Claim
    <3>2. x.task = m
      BY DEF Idle
    <3> HIDE DEF x
    <3>3. worker'[v] = x /\ \A u \in Workers : u # v => worker'[u] = worker[u]
      BY <3>1 DEF TypeOK
    <3>4. /\ item' = [item EXCEPT ![f] = [item[f] EXCEPT ![j] = "RUNNING"]]
          /\ stuck' = [stuck EXCEPT ![f] = @ \ {j}]
      BY <1>7, <2>2 DEF Claim
    <3>5. item'[f][j] = "RUNNING" /\ j \notin stuck'[f]
      BY <3>4 DEF TypeOK
    <3>6. CASE v # w
      BY <3>3, <3>6 DEF Holds
    <3>7. CASE v = w
      <4>1. f = e /\ j = i
        BY <3>2, <3>3, <3>7 DEF Holds, Task
      <4>2. QED
        BY <1>7, <2>2, <3>3, <3>5, <3>7, <4>1
    <3>8. QED
      BY <3>6, <3>7
  <2>3. QED
    BY <2>1, <2>2
<1>8. QED
  BY <1>2, <1>3, <1>4, <1>5, <1>6, <1>7, TaskParts DEF Next

\* Who finalises finalised before, or has just verified.
LEMMA FinaliserMoves ==
    ASSUME TypeOK, StuckRun, [Next]_vars, NEW w \in Workers, NEW e \in Evals, Finalises(w, e)'
    PROVE  Finalises(w, e) \/ (Unfinished(e) = {} /\ item' = item)
<1>1. FinalisersKept => Finalises(w, e)
  BY DEF FinalisersKept
<1>2. CASE Users
  BY <1>1, <1>2, UserDone DEF Users
<1>3. CASE Beat \/ UNCHANGED vars
  BY <1>1, <1>3, SameFinalisers DEF Beat, vars
<1>4. ASSUME NEW v \in Workers, Continue(v), ~Verify(v)
      PROVE  Finalises(w, e)
  <2>1. CASE Close(v)
    BY <1>1, <2>1, GotoFinalisers DEF Close
  <2>2. CASE ~Close(v)
    BY <1>1, <1>4, <2>2, SchedulerDone, BatchDone, ItemDone DEF Continue
  <2>3. QED
    BY <2>1, <2>2
<1>5. CASE Expiry \/ Trouble
  BY <1>1, <1>5, TroubleDone
<1>6. ASSUME NEW v \in Workers, NEW t \in Tasks, Start(v, t)
      PROVE  Finalises(w, e)
  <2>1. t.kind \in {"initialize", "batch", "item"} => t.e \in Evals
    BY TaskParts
  <2>2. t.kind = "item" => t.i \in Items
    BY TaskParts
  <2>3. FinalisersKept
    BY <1>6, <2>1, <2>2, SchedulerDone, BatchDone, ItemDone DEF Start
  <2>4. QED
    BY <1>1, <2>3
<1>7. ASSUME NEW v \in Workers, Verify(v)
      PROVE  Finalises(w, e) \/ (Unfinished(e) = {} /\ item' = item)
  <2>1. CASE Unfinished(worker[v].task.e) # {}
    BY <1>1, <1>7, <2>1, GotoFinalisers DEF Verify
  <2>2. CASE Unfinished(worker[v].task.e) = {}
    <3>1. worker' = [worker EXCEPT ![v] = [worker[v] EXCEPT !.pc = "judge"]] /\ item' = item
      BY <1>7, <2>2 DEF Verify, Goto, rows
    <3>2. worker \in [Workers -> WorkerState] /\ worker[v] \in WorkerState
      BY DEF TypeOK
    <3>3. [worker[v] EXCEPT !.pc = "judge"].task = worker[v].task
      BY <3>2 DEF WorkerState
    <3>4. worker'[w].task = worker[w].task /\ (v # w => worker'[w] = worker[w])
      BY <3>1, <3>2, <3>3
    <3>5. QED
      BY <2>2, <3>1, <3>4 DEF Finalises
  <2>3. QED
    BY <2>1, <2>2
<1>8. QED
  BY <1>2, <1>3, <1>4, <1>5, <1>6, <1>7 DEF Next

\* How an item changes when nobody retries.
LEMMA ItemMoves ==
    ASSUME TypeOK, "retry" \notin Ops, [Next]_vars,
           NEW e \in Evals, NEW i \in Items, item'[e][i] # item[e][i]
    PROVE  \/ i \in stuck[e]
           \/ item[e][i] = "PENDING" /\ item'[e][i] = "RUNNING"
           \/ item[e][i] = "RUNNING" /\ item'[e][i] = "FAILED"
           \/ \E w \in Workers : /\ Holds(w, e, i)
                                 /\ \E result \in Terminal : Process(w, result)
                                 /\ item'[e][i] \in Terminal
<1>1. item \in [Evals -> [Items -> ItemStatus]] /\ worker \in [Workers -> WorkerState]
  BY DEF TypeOK
<1>2. ASSUME NEW w \in Workers, worker[w].task.kind = "item"
      PROVE  /\ worker[w].task.e \in Evals /\ worker[w].task.i \in Items
             /\ worker[w].task = Task("item", worker[w].task.e, worker[w].task.i)
  BY <1>1, <1>2, TaskParts DEF WorkerState
<1>3. ASSUME NEW f \in Evals, NEW j \in Items, NEW s,
             item' = [item EXCEPT ![f] = [item[f] EXCEPT ![j] = s]]
      PROVE  e = f /\ i = j /\ item'[e][i] = s
  BY <1>1, <1>3
<1>4. ASSUME NEW f \in Evals, NEW scope, Retry(f, scope)
      PROVE  FALSE
  BY <1>4 DEF Retry, Request
<1>5. ASSUME NEW w \in Workers, NEW f \in Evals, Coordinate(w, f)
      PROVE  i \in stuck[e]
  <2>1. item' = [item EXCEPT ![f] = [j \in Items |-> IF j \in stuck[f] THEN "PENDING" ELSE item[f][j]]]
    BY <1>5 DEF Coordinate
  <2>2. QED
    BY <1>1, <2>1
<1>6. ASSUME NEW w \in Workers, NEW f \in Evals, NEW j \in Items, Claim(w, f, j)
      PROVE  item[e][i] = "PENDING" /\ item'[e][i] = "RUNNING"
  BY <1>3, <1>6 DEF Claim
<1>7. ASSUME NEW w \in Workers, NEW result \in Terminal, Process(w, result)
      PROVE  Holds(w, e, i) /\ item'[e][i] = result
  <2>1. worker[w].task.kind = "item" /\ worker[w].pc = "agent"
    BY <1>7 DEF Process, At
  <2>2. item' = item \/ item' = [item EXCEPT ![worker[w].task.e] =
                                    [item[worker[w].task.e] EXCEPT ![worker[w].task.i] = result]]
    BY <1>7 DEF Process
  <2>3. worker[w].task.e = e /\ worker[w].task.i = i /\ item'[e][i] = result
    <3> DEFINE f == worker[w].task.e
               j == worker[w].task.i
    <3>1. f \in Evals /\ j \in Items
      BY <1>2, <2>1
    <3>2. item' = [item EXCEPT ![f] = [item[f] EXCEPT ![j] = result]]
      BY <2>2
    <3> HIDE DEF f, j
    <3>3. e = f /\ i = j /\ item'[e][i] = result
      BY <1>3, <3>1, <3>2
    <3>4. QED
      BY <3>3 DEF f, j
  <2>4. QED
    BY <1>2, <2>1, <2>3 DEF Holds
<1>8. ASSUME NEW w \in Workers, ItemFailed(w)
      PROVE  item[e][i] = "RUNNING" /\ item'[e][i] = "FAILED"
  <2>1. worker[w].task.kind = "item"
    BY <1>8 DEF ItemFailed, At
  <2>2. /\ item[worker[w].task.e][worker[w].task.i] = "RUNNING"
        /\ item' = [item EXCEPT ![worker[w].task.e] =
                       [item[worker[w].task.e] EXCEPT ![worker[w].task.i] = "FAILED"]]
    BY <1>8 DEF ItemFailed
  <2>3. QED
    BY <1>2, <1>3, <2>1, <2>2
<1>9. QED
  BY <1>4, <1>5, <1>6, <1>7, <1>8, ItemWriters

\* A COMPLETED item is never touched again, a FAILED one at most completed:
\* by the worker that holds it.
LEMMA ItemsFinal ==
    ASSUME TypeOK, HeldInv, "retry" \notin Ops, [Next]_vars, NEW e \in Evals, NEW i \in Items
    PROVE  /\ item[e][i] = "COMPLETED" => item'[e][i] = "COMPLETED"
           /\ item[e][i] \in Terminal => item'[e][i] \in Terminal
<1>1. i \in stuck[e] => item[e][i] = "RUNNING"
  BY DEF HeldInv, StuckRun
<1>2. \A w \in Workers : Holds(w, e, i) => item[e][i] \in {"RUNNING", "FAILED"}
  BY DEF HeldInv, HeldOpen
<1>3. QED
  BY <1>1, <1>2, ItemMoves DEF Terminal

LEMMA HeldStep ==
    ASSUME TypeOK, HeldInv, "retry" \notin Ops, "slow_item" \notin Faults, [Next]_vars
    PROVE  HeldInv'
<1>1. StuckRun'
  BY StuckStep DEF HeldInv
<1>2. OneHolder'
  <2> SUFFICES ASSUME NEW v \in Workers, NEW w \in Workers, NEW e \in Evals, NEW i \in Items,
                      Holds(v, e, i)', Holds(w, e, i)', v # w
               PROVE  FALSE
    BY DEF OneHolder
  <2>1. ASSUME NEW x \in Workers, NEW y \in Workers, x # y, Holds(x, e, i)', Holds(y, e, i)'
        PROVE  Holds(x, e, i)
    <3>1. CASE Claim(x, e, i) /\ item[e][i] = "PENDING" /\ worker'[y] = worker[y]
      <4>1. Holds(y, e, i)
        BY <2>1, <3>1 DEF Holds
      <4>2. QED
        BY <3>1, <4>1 DEF HeldInv, HeldOpen
    <3>2. QED
      BY <2>1, <3>1, HolderMoves
  <2>2. Holds(v, e, i) /\ Holds(w, e, i)
    BY <2>1
  <2>3. QED
    BY <2>2 DEF HeldInv, OneHolder
<1>3. HeldOpen'
  <2> SUFFICES ASSUME NEW w \in Workers, NEW e \in Evals, NEW i \in Items, Holds(w, e, i)'
               PROVE  item'[e][i] \in {"RUNNING", "FAILED"} /\ i \notin stuck'[e]
    BY DEF HeldOpen
  <2>1. CASE item'[e][i] = "RUNNING" /\ i \notin stuck'[e]
    BY <2>1
  <2>2. CASE Holds(w, e, i)
    <3>1. item[e][i] \in {"RUNNING", "FAILED"} /\ i \notin stuck[e]
      BY <2>2 DEF HeldInv, HeldOpen
    <3>2. ASSUME ItemExpires(e, i)
          PROVE  FALSE
      BY <2>2, <3>2 DEF ItemExpires, Fault, Processing, Holds
    <3>3. i \notin stuck'[e]
      BY <3>1, <3>2, StuckWriters
    <3>4. ASSUME NEW v \in Workers, Holds(v, e, i), NEW result, Process(v, result)
          PROVE  FALSE
      <4>1. v = w
        BY <2>2, <3>4 DEF HeldInv, OneHolder
      <4>2. worker'[v].pc = "next"
        BY <3>4 DEF Process, Goto, TypeOK, WorkerState
      <4>3. QED
        BY <4>1, <4>2 DEF Holds
    <3>5. QED
      BY <3>1, <3>3, <3>4, ItemMoves
  <2>3. QED
    BY <2>1, <2>2, HolderMoves
<1>4. QED
  BY <1>1, <1>2, <1>3 DEF HeldInv

LEMMA FinalisedStep ==
    ASSUME TypeOK, HeldInv, FinalisedSettled, "retry" \notin Ops, [Next]_vars
    PROVE  FinalisedSettled'
<1> SUFFICES ASSUME NEW w \in Workers, NEW e \in Evals, Finalises(w, e)'
             PROVE  Settled(e)'
  BY DEF FinalisedSettled
<1>1. Settled(e)
  BY FinaliserMoves, SettledUnfinished DEF FinalisedSettled, HeldInv
<1>2. QED
  BY <1>1, ItemsFinal DEF Settled

\* What a finaliser has counted when all items are terminal.
LEMMA JudgedExact ==
    ASSUME TypeOK, NEW w \in Workers, NEW e \in Evals, Judge(w), worker[w].task.e = e, Settled(e)
    PROVE  /\ worker'[w].base = NItems
           /\ worker'[w].n = 0 => \A i \in Items : item[e][i] = "COMPLETED"
<1> DEFINE n == Cardinality(WithStatus(e, "FAILED"))
           m == Cardinality(Items \ Unfinished(e))
           x == [worker[w] EXCEPT !.pc = "close", !.n = n, !.base = m]
<1>1. worker' = [worker EXCEPT ![w] = x]
  BY DEF Judge
<1>2. m = NItems
  <2>1. Items \ Unfinished(e) = Items
    BY SettledUnfinished
  <2>2. Cardinality(Items) = NItems
    BY FS_Interval, SizesAssumption DEF Items
  <2>3. QED
    BY <2>1, <2>2
<1>3. n = 0 => \A i \in Items : item[e][i] = "COMPLETED"
  <2>1. IsFiniteSet(Items)
    BY FS_Interval, SizesAssumption DEF Items
  <2>2. IsFiniteSet(WithStatus(e, "FAILED"))
    BY <2>1, FS_Subset DEF WithStatus
  <2>3. n = 0 => WithStatus(e, "FAILED") = {}
    BY <2>2, FS_EmptySet
  <2>4. QED
    BY <2>3 DEF WithStatus, Settled, Terminal
<1> HIDE DEF n, m
<1>4. x.n = n /\ x.base = m
  BY DEF TypeOK, WorkerState
<1> HIDE DEF x
<1>5. worker'[w] = x
  BY <1>1 DEF TypeOK
<1>6. QED
  BY <1>2, <1>3, <1>4, <1>5

LEMMA ClosingStep ==
    ASSUME TypeOK, HeldInv, FinalisedSettled, ClosingExact, "retry" \notin Ops, [Next]_vars
    PROVE  ClosingExact'
<1> SUFFICES ASSUME NEW w \in Workers, NEW e \in Evals, worker'[w].task.e = e, worker'[w].pc = "close"
             PROVE  /\ worker'[w].base = NItems
                    /\ worker'[w].n = 0 => \A i \in Items : item'[e][i] = "COMPLETED"
  BY DEF ClosingExact
<1>1. CASE worker'[w] = worker[w]
  <2>1. /\ worker[w].base = NItems
        /\ worker[w].n = 0 => \A i \in Items : item[e][i] = "COMPLETED"
    BY <1>1 DEF ClosingExact
  <2>2. QED
    BY <1>1, <2>1, ItemsFinal
<1>2. CASE worker'[w] # worker[w]
  <2>1. Judge(w) /\ worker[w].task.e = e
    BY <1>2, WorkerMoves DEF Moves, Idle
  <2>2. Settled(e)
    BY <2>1 DEF FinalisedSettled, Finalises, Judge, At
  <2>3. item' = item
    BY <2>1 DEF Judge, rows
  <2>4. QED
    BY <2>1, <2>2, <2>3, JudgedExact
<1>3. QED
  BY <1>1, <1>2

LEMMA ExactStep ==
    ASSUME TypeOK, HeldInv, ClosingExact, CompletedIsExact, "retry" \notin Ops, [Next]_vars
    PROVE  CompletedIsExact'
<1> SUFFICES ASSUME NEW e \in Evals, status'[e] = "COMPLETED"
             PROVE  (\A i \in Items : item'[e][i] = "COMPLETED") /\ completed'[e] = NItems
  BY DEF CompletedIsExact
<1>1. /\ status \in [Evals -> EvaluationStatus] /\ completed \in [Evals -> Int]
      /\ worker \in [Workers -> WorkerState]
  BY DEF TypeOK
<1>2. ASSUME status[e] = "COMPLETED", completed'[e] = completed[e]
      PROVE  (\A i \in Items : item'[e][i] = "COMPLETED") /\ completed'[e] = NItems
  BY <1>2, ItemsFinal DEF CompletedIsExact
<1>3. ASSUME NEW w \in Workers, NEW result, Process(w, result)
      PROVE  status[e] = "COMPLETED" /\ completed'[e] = completed[e]
  <2> DEFINE t == worker[w].task
  <2>1. status' = status /\ completed' = [completed EXCEPT ![t.e] = worker[w].base + 1]
    BY <1>3 DEF Process
  <2>2. t.kind = "item" /\ worker[w].pc = "agent"
    BY <1>3 DEF Process, At
  <2>3. t.e \in Evals /\ t.i \in Items /\ t = Task("item", t.e, t.i)
    BY <1>1, <2>2, TaskParts DEF WorkerState
  <2>4. item[t.e][t.i] \in {"RUNNING", "FAILED"}
    BY <2>2, <2>3 DEF HeldInv, HeldOpen, Holds
  <2>5. t.e # e
    BY <2>1, <2>3, <2>4 DEF CompletedIsExact
  <2> HIDE DEF t
  <2>6. QED
    BY <1>1, <2>1, <2>5
<1>4. ASSUME NEW w \in Workers, Close(w)
      PROVE  (\A i \in Items : item'[e][i] = "COMPLETED") /\ completed'[e] = NItems
  <2> DEFINE f == worker[w].task.e
             s == IF worker[w].n > 0 THEN "FAILED" ELSE "COMPLETED"
  <2>1. item' = item /\ worker[w].pc = "close" /\ worker[w].n \in Nat
    BY <1>1, <1>4 DEF Close, At, WorkerState
  <2>2. CASE status[f] # "RUNNING"
    BY <1>2, <1>4, <2>2 DEF Close
  <2>3. CASE status[f] = "RUNNING"
    <3>1. status' = [status EXCEPT ![f] = s] /\ completed' = [completed EXCEPT ![f] = worker[w].base]
      BY <1>4, <2>3 DEF Close
    <3>2. CASE f # e
      BY <1>1, <1>2, <3>1, <3>2
    <3>3. CASE f = e
      <4>1. s = "COMPLETED" /\ completed'[e] = worker[w].base
        BY <1>1, <3>1, <3>3
      <4>2. worker[w].n = 0
        BY <2>1, <4>1
      <4>3. QED
        BY <2>1, <3>3, <4>1, <4>2 DEF ClosingExact
    <3>4. QED
      BY <3>2, <3>3
  <2>4. QED
    BY <2>2, <2>3
<1>5. CASE /\ UNCHANGED completed
           /\ \/ \E f \in Evals : Create(f) \/ Answer(f)
              \/ \E w \in Workers : \E f \in Evals : Initialize(w, f)
              \/ \E w \in Workers : InitializationFailed(w)
  <2>1. ASSUME NEW f, NEW s, status' = [status EXCEPT ![f] = s], s # "COMPLETED"
        PROVE  status[e] = "COMPLETED"
    BY <1>1, <2>1
  <2>2. status[e] = "COMPLETED"
    BY <1>5, <2>1 DEF Create, Answer, Initialize, InitializationFailed
  <2>3. QED
    BY <1>2, <1>5, <2>2
<1>6. CASE UNCHANGED <<status, completed>>
  BY <1>2, <1>6
<1>7. QED
  BY <1>2, <1>3, <1>4, <1>5, <1>6, ProgressWriters

\* A COMPLETED evaluation has only COMPLETED items and a progress that counts
\* them all, as long as nobody retries and no item takes 15 minutes: whoever
\* crashes, however often messages come, and with any number of finalisers.
THEOREM CompletionIsExact ==
    ASSUME "retry" \notin Ops, "slow_item" \notin Faults
    PROVE  Spec => []CompletedIsExact
<1>1. Init => ExactInv
  BY DEF Init, ExactInv, HeldInv, StuckRun, OneHolder, HeldOpen, Holds, FinalisedSettled, Finalises,
         ClosingExact, CompletedIsExact, Idle
<1>2. TypeOK /\ ExactInv /\ [Next]_vars => ExactInv'
  BY HeldStep, FinalisedStep, ClosingStep, ExactStep DEF ExactInv
<1>3. ExactInv => CompletedIsExact
  BY DEF ExactInv
<1>4. QED
  BY <1>1, <1>2, <1>3, TypeCorrect, PTL DEF Spec

=============================================================================
