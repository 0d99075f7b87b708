----------------------------- MODULE Evaluation -----------------------------
(***************************************************************************)
(* The evaluation workflow: a question set is put to an agent, item by     *)
(* item, and a judge scores the answers.                                   *)
(*                                                                         *)
(* Four Celery tasks share the tables evaluation and evaluation_item: the  *)
(* scheduler (every five minutes, and after a request), initialisation,    *)
(* the batch processor (under a Redis lock per evaluation) that dispatches *)
(* items and finalises, and the item processor.  Users pause, resume,      *)
(* retry and delete evaluations meanwhile.                                 *)
(*                                                                         *)
(* Granularity: at READ COMMITTED every SELECT and every UPDATE that       *)
(* another's write can come between is a step of its own.                  *)
(***************************************************************************)
EXTENDS Integers, FiniteSets

CONSTANTS
    NEvals,         \* evaluations, 1..NEvals in the order of gmt_created
    NItems,         \* items of each evaluation, in the order of gmt_created
    Workers,        \* Celery worker processes
    Free, Orphan,   \* the lock: not held; held by a worker that died
    MaxEvaluations, \* MAX_CONCURRENT_EVALUATIONS
    MaxProcessing,  \* MAX_CONCURRENT_PROCESSING_TASKS_PER_EVALUATION
    Ops,            \* the requests users send: subset of AllOps
    MaxRequests,    \* bound: requests in a behaviour, resumes not counted
    Faults,         \* what goes wrong: subset of AllFaults
    MaxFaults,      \* bound: faults in a behaviour
    MaxCopies       \* bound: equal messages the broker keeps apart

Evals == 1..NEvals
Items == 1..NItems
AllOps == {"pause", "resume", "retry", "delete"}
\* A worker dies; the broker delivers a message again before it is
\* acknowledged; an item takes 15 minutes; a batch takes 60 seconds; a
\* statement or a publication raises an exception.
AllFaults == {"crash", "redeliver", "slow_item", "slow_batch", "error"}

ASSUME SizesAssumption == NEvals \in Nat /\ NItems \in Nat
ASSUME LimitsAssumption == MaxEvaluations \in Nat /\ MaxProcessing \in Nat \ {0}
ASSUME InputsAssumption == Ops \subseteq AllOps /\ Faults \subseteq AllFaults
ASSUME BoundsAssumption == MaxRequests \in Nat /\ MaxFaults \in Nat /\ MaxCopies \in Nat \ {0}
ASSUME LockAssumption == Free \notin Workers /\ Orphan \notin Workers /\ Free # Orphan

VARIABLES
    status,    \* evaluation.status; "NONE" before the evaluation is created
    deleted,   \* evaluation.gmt_deleted is set
    completed, \* evaluation.completed_questions
    item,      \* evaluation_item.status
    stuck,     \* the RUNNING items whose gmt_updated is 15 minutes old
    lock,      \* the Redis key evaluation_processing:{id}
    queue,     \* how many copies of each message wait in the broker
    worker,    \* the local state of each worker
    asked,     \* a pause or resume request that has read its evaluation
    round,     \* history: how often each item was put back to PENDING
    reopened,  \* history: evaluations retried since a finaliser verified them
    requests,  \* requests so far
    faults     \* faults so far

rows == <<status, deleted, completed, item, stuck>>
vars == <<status, deleted, completed, item, stuck, lock, queue, worker, asked,
          round, reopened, requests, faults>>

-----------------------------------------------------------------------------
(* Data                                                                    *)

EvaluationStatus == {"NONE", "PENDING", "RUNNING", "PAUSED", "COMPLETED", "FAILED"}
ItemStatus == {"PENDING", "RUNNING", "COMPLETED", "FAILED"}
Terminal == {"COMPLETED", "FAILED"}

Task(kind, e, i) == [kind |-> kind, e |-> e, i |-> i]
Reconcile == Task("reconcile", 0, 0)
Tasks == {Reconcile} \cup [kind : {"initialize", "batch"}, e : Evals, i : {0}]
                     \cup [kind : {"item"}, e : Evals, i : Items]

Steps == {"idle",
          "select", "running", "coordinate",                              \* reconcile
          "publish", "broken",                                            \* initialize
          "check", "count", "pick", "verify", "judge", "close", "release", \* batch
          "load", "agent", "failed", "next"}                              \* item

\* The locals of a task: n a count it has read, todo the evaluations it has
\* still to coordinate, seen and base the item's status and the progress it
\* has loaded, round the item's round when it was claimed.
WorkerState == [task : Tasks, pc : Steps, n : Nat, todo : SUBSET Evals,
                seen : ItemStatus, base : Int, round : Nat]
Idle == [task |-> Reconcile, pc |-> "idle", n |-> 0, todo |-> {},
         seen |-> "PENDING", base |-> 0, round |-> 0]

\* task.delay for every task of T: one more copy, up to the bound.
Send(T) == [t \in Tasks |-> IF t \in T /\ queue[t] < MaxCopies THEN queue[t] + 1 ELSE queue[t]]

\* Worker w takes the message t and begins.
Take(w, t) == /\ worker[w].pc = "idle"
              /\ queue[t] > 0
              /\ queue' = [queue EXCEPT ![t] = @ - 1]

At(w, kind, pc) == worker[w].task.kind = kind /\ worker[w].pc = pc
Goto(w, pc) == worker' = [worker EXCEPT ![w] = [worker[w] EXCEPT !.pc = pc]]
Done(w) == worker' = [worker EXCEPT ![w] = Idle]

\* ORDER BY gmt_created LIMIT n
First(S, n) == {x \in S : Cardinality({y \in S : y < x}) < n}

WithStatus(e, s) == {i \in Items : item[e][i] = s}

Init ==
    /\ status = [e \in Evals |-> "NONE"]
    /\ deleted = [e \in Evals |-> FALSE]
    /\ completed = [e \in Evals |-> 0]
    /\ item = [e \in Evals |-> [i \in Items |-> "PENDING"]]
    /\ stuck = [e \in Evals |-> {}]
    /\ lock = [e \in Evals |-> Free]
    /\ queue = [t \in Tasks |-> 0]
    /\ worker = [w \in Workers |-> Idle]
    /\ asked = [e \in Evals |-> "none"]
    /\ round = [e \in Evals |-> [i \in Items |-> 0]]
    /\ reopened = [e \in Evals |-> FALSE]
    /\ requests = 0
    /\ faults = 0

-----------------------------------------------------------------------------
(* Requests                                                                *)

Request(op) == /\ op \in Ops
               /\ requests < MaxRequests
               /\ requests' = requests + 1

\* create_evaluation: the evaluation and its items, all PENDING, then the
\* scheduler is triggered.
Create(e) ==
    /\ status[e] = "NONE"
    /\ \A f \in Evals : f < e => status[f] # "NONE"
    /\ status' = [status EXCEPT ![e] = "PENDING"]
    /\ queue' = Send({Reconcile})
    /\ UNCHANGED <<deleted, completed, item, stuck, lock, worker, asked, round, reopened, requests, faults>>

\* update_evaluation_status selects the evaluation by its status, without a
\* lock ...  (A resume needs a pause before it: the bound on pauses bounds both.)
Ask(e, op) ==
    /\ IF op = "pause" THEN Request(op) ELSE op \in Ops /\ UNCHANGED requests
    /\ asked[e] = "none"
    /\ ~deleted[e]
    /\ status[e] \in (IF op = "pause" THEN {"RUNNING", "PENDING"} ELSE {"PAUSED"})
    /\ asked' = [asked EXCEPT ![e] = op]
    /\ UNCHANGED <<rows, lock, queue, worker, round, reopened, faults>>

\* ... and writes the new status whatever it is by then.
Answer(e) ==
    /\ asked[e] # "none"
    /\ asked' = [asked EXCEPT ![e] = "none"]
    /\ \/ /\ asked[e] = "pause"
          /\ status' = [status EXCEPT ![e] = "PAUSED"]
          /\ UNCHANGED queue
       \/ /\ asked[e] = "resume"
          /\ status' = [status EXCEPT ![e] = "PENDING"]
          /\ queue' = Send({Reconcile})
    /\ UNCHANGED <<deleted, completed, item, stuck, lock, worker, round, reopened, requests, faults>>

\* retry_evaluation, in one transaction that locks the evaluation.
RetryItems(e, scope) == IF scope = "all" THEN Items ELSE WithStatus(e, "FAILED")

Retry(e, scope) ==
    /\ Request("retry")
    /\ status[e] # "NONE"
    /\ ~deleted[e]
    /\ LET S == RetryItems(e, scope)
       IN /\ item' = [item EXCEPT ![e] = [i \in Items |-> IF i \in S THEN "PENDING" ELSE item[e][i]]]
          /\ stuck' = [stuck EXCEPT ![e] = @ \ S]
          /\ round' = [round EXCEPT ![e] = [i \in Items |-> round[e][i] + (IF i \in S THEN 1 ELSE 0)]]
          /\ completed' = [completed EXCEPT ![e] = IF scope = "all" THEN 0 ELSE @ - Cardinality(S)]
    /\ status' = [status EXCEPT ![e] = "RUNNING"]
    /\ reopened' = [reopened EXCEPT ![e] = TRUE]
    /\ queue' = Send({Reconcile})
    /\ UNCHANGED <<deleted, lock, worker, asked, faults>>

\* delete_evaluation_by_id only marks the row.
Delete(e) ==
    /\ Request("delete")
    /\ status[e] # "NONE"
    /\ ~deleted[e]
    /\ deleted' = [deleted EXCEPT ![e] = TRUE]
    /\ UNCHANGED <<status, completed, item, stuck, lock, queue, worker, asked, round, reopened, faults>>

-----------------------------------------------------------------------------
(* The scheduler                                                           *)

\* The beat, every five minutes.
Beat ==
    /\ queue[Reconcile] = 0
    /\ queue' = Send({Reconcile})
    /\ UNCHANGED <<rows, lock, worker, asked, round, reopened, requests, faults>>

\* schedule_evaluations counts the RUNNING evaluations, deleted ones too ...
CountEvaluations(w) ==
    /\ Take(w, Reconcile)
    /\ worker' = [worker EXCEPT ![w] =
           [Idle EXCEPT !.pc = "select", !.n = Cardinality({e \in Evals : status[e] = "RUNNING"})]]
    /\ UNCHANGED <<rows, lock, asked, round, reopened, requests, faults>>

\* ... selects PENDING ones for the free slots and triggers them ...
SelectEvaluations(w) ==
    /\ At(w, "reconcile", "select")
    /\ LET slots == MaxEvaluations - worker[w].n
           chosen == IF slots > 0 THEN First({e \in Evals : status[e] = "PENDING"}, slots) ELSE {}
       IN queue' = Send({Task("initialize", e, 0) : e \in chosen})
    /\ Goto(w, "running")
    /\ UNCHANGED <<rows, lock, asked, round, reopened, requests, faults>>

\* ... and selects the RUNNING ones to coordinate.
SelectRunning(w) ==
    /\ At(w, "reconcile", "running")
    /\ LET S == {e \in Evals : status[e] = "RUNNING"}
       IN worker' = [worker EXCEPT ![w] =
              IF S = {} THEN Idle ELSE [worker[w] EXCEPT !.pc = "coordinate", !.todo = S]]
    /\ UNCHANGED <<rows, lock, queue, asked, round, reopened, requests, faults>>

\* Mutant: stuck items are put back, but no batch is triggered.
CoordinateSilently(w, e) ==
    /\ At(w, "reconcile", "coordinate")
    /\ e \in worker[w].todo
    /\ item' = [item EXCEPT ![e] = [i \in Items |-> IF i \in stuck[e] THEN "PENDING" ELSE item[e][i]]]
    /\ round' = [round EXCEPT ![e] = [i \in Items |-> round[e][i] + (IF i \in stuck[e] THEN 1 ELSE 0)]]
    /\ stuck' = [stuck EXCEPT ![e] = {}]
    /\ worker' = [worker EXCEPT ![w] =
           IF worker[w].todo = {e} THEN Idle ELSE [worker[w] EXCEPT !.todo = @ \ {e}]]
    /\ UNCHANGED <<status, deleted, completed, lock, queue, asked, reopened, requests, faults>>

\* _coordinate_evaluation: stuck items go back to PENDING; a batch is
\* triggered in any case.
Coordinate(w, e) ==
    /\ At(w, "reconcile", "coordinate")
    /\ e \in worker[w].todo
    /\ item' = [item EXCEPT ![e] = [i \in Items |-> IF i \in stuck[e] THEN "PENDING" ELSE item[e][i]]]
    /\ round' = [round EXCEPT ![e] = [i \in Items |-> round[e][i] + (IF i \in stuck[e] THEN 1 ELSE 0)]]
    /\ stuck' = [stuck EXCEPT ![e] = {}]
    /\ queue' = Send({Task("batch", e, 0)})
    /\ worker' = [worker EXCEPT ![w] =
           IF worker[w].todo = {e} THEN Idle ELSE [worker[w] EXCEPT !.todo = @ \ {e}]]
    /\ UNCHANGED <<status, deleted, completed, lock, asked, reopened, requests, faults>>

-----------------------------------------------------------------------------
(* Initialisation                                                          *)

\* initialize_evaluation sets RUNNING whatever the status was.  The ORM
\* writes nothing when it had loaded RUNNING, so that the load and the
\* commit are one step.
Initialize(w, e) ==
    /\ Take(w, Task("initialize", e, 0))
    /\ status' = [status EXCEPT ![e] = "RUNNING"]
    /\ worker' = [worker EXCEPT ![w] = [Idle EXCEPT !.task = Task("initialize", e, 0), !.pc = "publish"]]
    /\ UNCHANGED <<deleted, completed, item, stuck, lock, asked, round, reopened, requests, faults>>

PublishBatch(w) ==
    /\ At(w, "initialize", "publish")
    /\ queue' = Send({Task("batch", worker[w].task.e, 0)})
    /\ Done(w)
    /\ UNCHANGED <<rows, lock, asked, round, reopened, requests, faults>>

\* The handler of an exception marks the evaluation FAILED.
InitializationFailed(w) ==
    /\ At(w, "initialize", "broken")
    /\ status' = [status EXCEPT ![worker[w].task.e] = "FAILED"]
    /\ Done(w)
    /\ UNCHANGED <<deleted, completed, item, stuck, lock, queue, asked, round, reopened, requests, faults>>

-----------------------------------------------------------------------------
(* Batches                                                                 *)

\* Mutant: SET without NX takes the lock from its holder.
AcquireAnyway(w, e) ==
    /\ Take(w, Task("batch", e, 0))
    /\ lock' = [lock EXCEPT ![e] = w]
    /\ worker' = [worker EXCEPT ![w] = [Idle EXCEPT !.task = Task("batch", e, 0), !.pc = "check"]]
    /\ UNCHANGED <<rows, asked, round, reopened, requests, faults>>

\* acquire(timeout=5): SET NX EX succeeds, or the batch gives up.
Acquire(w, e) ==
    /\ Take(w, Task("batch", e, 0))
    /\ lock[e] = Free
    /\ lock' = [lock EXCEPT ![e] = w]
    /\ worker' = [worker EXCEPT ![w] = [Idle EXCEPT !.task = Task("batch", e, 0), !.pc = "check"]]
    /\ UNCHANGED <<rows, asked, round, reopened, requests, faults>>

GiveUp(w, e) ==
    /\ Take(w, Task("batch", e, 0))
    /\ lock[e] # Free
    /\ UNCHANGED <<rows, lock, worker, asked, round, reopened, requests, faults>>

Check(w) ==
    /\ At(w, "batch", "check")
    /\ LET e == worker[w].task.e
       IN Goto(w, IF deleted[e] \/ status[e] # "RUNNING" THEN "release" ELSE "count")
    /\ UNCHANGED <<rows, lock, queue, asked, round, reopened, requests, faults>>

\* Mutant: the item that sent this batch is taken off the count, as if it
\* were RUNNING still.
CountOthers(w) ==
    /\ At(w, "batch", "count")
    /\ LET n == Cardinality(WithStatus(worker[w].task.e, "RUNNING")) - 1
       IN worker' = [worker EXCEPT ![w] =
              [worker[w] EXCEPT !.pc = IF n < MaxProcessing THEN "pick" ELSE "release", !.n = n]]
    /\ UNCHANGED <<rows, lock, queue, asked, round, reopened, requests, faults>>

Count(w) ==
    /\ At(w, "batch", "count")
    /\ LET n == Cardinality(WithStatus(worker[w].task.e, "RUNNING"))
       IN worker' = [worker EXCEPT ![w] =
              [worker[w] EXCEPT !.pc = IF n < MaxProcessing THEN "pick" ELSE "release", !.n = n]]
    /\ UNCHANGED <<rows, lock, queue, asked, round, reopened, requests, faults>>

\* Select the first PENDING items for the free slots and dispatch them; with
\* none PENDING and none counted as RUNNING, finalise.
Pick(w) ==
    /\ At(w, "batch", "pick")
    /\ LET e == worker[w].task.e
           chosen == First(WithStatus(e, "PENDING"), MaxProcessing - worker[w].n)
       IN /\ queue' = Send({Task("item", e, i) : i \in chosen})
          /\ Goto(w, IF chosen = {} /\ worker[w].n = 0 THEN "verify" ELSE "release")
    /\ UNCHANGED <<rows, lock, asked, round, reopened, requests, faults>>

\* Mutant: only PENDING items hold the finalisation back.
PendingOnly(e) == WithStatus(e, "PENDING")

\* _finalize_evaluation, 1: the items that are not terminal.
Unfinished(e) == WithStatus(e, "PENDING") \cup WithStatus(e, "RUNNING")

Verify(w) ==
    /\ At(w, "batch", "verify")
    /\ LET e == worker[w].task.e
       IN IF Unfinished(e) = {}
          THEN Goto(w, "judge") /\ reopened' = [reopened EXCEPT ![e] = FALSE]
          ELSE Goto(w, "release") /\ UNCHANGED reopened
    /\ UNCHANGED <<rows, lock, queue, asked, round, requests, faults>>

\* Mutant: failed items do not count.
JudgeLeniently(w) ==
    /\ At(w, "batch", "judge")
    /\ LET e == worker[w].task.e
       IN worker' = [worker EXCEPT ![w] =
              [worker[w] EXCEPT !.pc = "close", !.n = 0, !.base = Cardinality(Items \ Unfinished(e))]]
    /\ UNCHANGED <<rows, lock, queue, asked, round, reopened, requests, faults>>

\* _finalize_evaluation, 2: the counts the result is made of.  Those of all
\* terminal and of FAILED items are one step: only a late result can come
\* between, and it changes the second only.
Judge(w) ==
    /\ At(w, "batch", "judge")
    /\ LET e == worker[w].task.e
       IN worker' = [worker EXCEPT ![w] =
              [worker[w] EXCEPT !.pc = "close", !.n = Cardinality(WithStatus(e, "FAILED")),
                                !.base = Cardinality(Items \ Unfinished(e))]]
    /\ UNCHANGED <<rows, lock, queue, asked, round, reopened, requests, faults>>

\* _finalize_evaluation, 3: the guarded UPDATE.
Close(w) ==
    /\ At(w, "batch", "close")
    /\ LET e == worker[w].task.e
       IN IF status[e] = "RUNNING"
          THEN /\ status' = [status EXCEPT ![e] = IF worker[w].n > 0 THEN "FAILED" ELSE "COMPLETED"]
               /\ completed' = [completed EXCEPT ![e] = worker[w].base]
          ELSE UNCHANGED <<status, completed>>
    /\ Goto(w, "release")
    /\ UNCHANGED <<deleted, item, stuck, lock, queue, asked, round, reopened, requests, faults>>

\* release: the script deletes the key only if it holds this lock's value.
Release(w) ==
    /\ At(w, "batch", "release")
    /\ LET e == worker[w].task.e
       IN lock' = IF lock[e] = w THEN [lock EXCEPT ![e] = Free] ELSE lock
    /\ Done(w)
    /\ UNCHANGED <<rows, queue, asked, round, reopened, requests, faults>>

-----------------------------------------------------------------------------
(* Items                                                                   *)

\* Mutant: the UPDATE also matches an item that is RUNNING already.
ClaimUnfinished(w, e, i) ==
    /\ Take(w, Task("item", e, i))
    /\ IF item[e][i] \in {"PENDING", "RUNNING"}
       THEN /\ item' = [item EXCEPT ![e] = [item[e] EXCEPT ![i] = "RUNNING"]]
            /\ stuck' = [stuck EXCEPT ![e] = @ \ {i}]
            /\ worker' = [worker EXCEPT ![w] =
                   [Idle EXCEPT !.task = Task("item", e, i), !.pc = "load", !.round = round[e][i]]]
       ELSE UNCHANGED <<item, stuck, worker>>
    /\ UNCHANGED <<status, deleted, completed, lock, asked, round, reopened, requests, faults>>

\* The guarded UPDATE PENDING -> RUNNING; a lost race skips the item.
Claim(w, e, i) ==
    /\ Take(w, Task("item", e, i))
    /\ IF item[e][i] = "PENDING"
       THEN /\ item' = [item EXCEPT ![e] = [item[e] EXCEPT ![i] = "RUNNING"]]
            /\ stuck' = [stuck EXCEPT ![e] = @ \ {i}]
            /\ worker' = [worker EXCEPT ![w] =
                   [Idle EXCEPT !.task = Task("item", e, i), !.pc = "load", !.round = round[e][i]]]
       ELSE UNCHANGED <<item, stuck, worker>>
    /\ UNCHANGED <<status, deleted, completed, lock, asked, round, reopened, requests, faults>>

\* The item and the evaluation are loaded.  One step: the item is this
\* worker's until it is put back.
Load(w) ==
    /\ At(w, "item", "load")
    /\ LET t == worker[w].task
       IN worker' = [worker EXCEPT ![w] =
              [worker[w] EXCEPT !.pc = "agent", !.seen = item[t.e][t.i], !.base = completed[t.e]]]
    /\ UNCHANGED <<rows, lock, queue, asked, round, reopened, requests, faults>>

\* _process_single_item: the agent and the judge have answered, or one of
\* them failed.  The ORM writes the status by id, unless it equals the one
\* it had loaded, and the progress computed from what it had loaded.
Process(w, result) ==
    /\ At(w, "item", "agent")
    /\ LET t == worker[w].task
       IN /\ item' = IF result = worker[w].seen THEN item
                     ELSE [item EXCEPT ![t.e] = [item[t.e] EXCEPT ![t.i] = result]]
          /\ stuck' = [stuck EXCEPT ![t.e] = @ \ {t.i}]
          /\ completed' = [completed EXCEPT ![t.e] = worker[w].base + 1]
    /\ Goto(w, "next")
    /\ UNCHANGED <<status, deleted, lock, queue, asked, round, reopened, requests, faults>>

\* The handler of an exception: the guarded UPDATE RUNNING -> FAILED.
ItemFailed(w) ==
    /\ At(w, "item", "failed")
    /\ LET t == worker[w].task
       IN IF item[t.e][t.i] = "RUNNING"
          THEN /\ item' = [item EXCEPT ![t.e] = [item[t.e] EXCEPT ![t.i] = "FAILED"]]
               /\ stuck' = [stuck EXCEPT ![t.e] = @ \ {t.i}]
          ELSE UNCHANGED <<item, stuck>>
    /\ Goto(w, "next")
    /\ UNCHANGED <<status, deleted, completed, lock, queue, asked, round, reopened, requests, faults>>

NextBatch(w) ==
    /\ At(w, "item", "next")
    /\ queue' = Send({Task("batch", worker[w].task.e, 0)})
    /\ Done(w)
    /\ UNCHANGED <<rows, lock, asked, round, reopened, requests, faults>>

-----------------------------------------------------------------------------
(* Faults                                                                  *)

Fault(kind) == /\ kind \in Faults
               /\ faults < MaxFaults
               /\ faults' = faults + 1

\* A worker dies.  Its message is acknowledged late: the broker delivers it
\* again, unless only the pool process died.
Crash(w) ==
    /\ Fault("crash")
    /\ worker[w].pc # "idle"
    /\ \/ queue' = Send({worker[w].task})
       \/ UNCHANGED queue
    /\ lock' = [e \in Evals |-> IF lock[e] = w THEN Orphan ELSE lock[e]]
    /\ Done(w)
    /\ UNCHANGED <<rows, asked, round, reopened, requests>>

Redeliver(w) ==
    /\ Fault("redeliver")
    /\ worker[w].pc # "idle"
    /\ queue' = Send({worker[w].task})
    /\ UNCHANGED <<rows, lock, worker, asked, round, reopened, requests>>

Processing(w, e, i) == /\ worker[w].task = Task("item", e, i)
                       /\ worker[w].pc \in {"load", "agent", "failed"}

\* Fifteen minutes pass while an item is RUNNING: because nobody works on it
\* any more, or because its worker is slow.
ItemExpires(e, i) ==
    /\ item[e][i] = "RUNNING"
    /\ i \notin stuck[e]
    /\ \/ (\A w \in Workers : ~Processing(w, e, i)) /\ UNCHANGED faults
       \/ (\E w \in Workers : Processing(w, e, i)) /\ Fault("slow_item")
    /\ stuck' = [stuck EXCEPT ![e] = @ \cup {i}]
    /\ UNCHANGED <<status, deleted, completed, item, lock, queue, worker, asked, round, reopened, requests>>

\* Sixty seconds pass since the lock was acquired: its holder is dead, or slow.
LockExpires(e) ==
    /\ lock[e] # Free
    /\ \/ lock[e] = Orphan /\ UNCHANGED faults
       \/ lock[e] # Orphan /\ Fault("slow_batch")
    /\ lock' = [lock EXCEPT ![e] = Free]
    /\ UNCHANGED <<rows, queue, worker, asked, round, reopened, requests>>

\* An exception before the handler's end: the scheduler gives up, the batch
\* goes to its finally clause, initialisation and item to their handlers.
Raise(w) ==
    /\ Fault("error")
    /\ \/ worker[w].task.kind = "reconcile" /\ worker[w].pc # "idle" /\ Done(w)
       \/ At(w, "initialize", "publish") /\ Goto(w, "broken")
       \/ worker[w].task.kind = "batch" /\ worker[w].pc \notin {"idle", "release"} /\ Goto(w, "release")
       \/ worker[w].task.kind = "item" /\ worker[w].pc \in {"load", "agent"} /\ Goto(w, "failed")
    /\ UNCHANGED <<rows, lock, queue, asked, round, reopened, requests>>

\* The first statement of a task raises: the load of the evaluation, or the
\* claim of the item.
RaiseAtStart(w, t) ==
    /\ Fault("error")
    /\ t.kind \in {"initialize", "item"}
    /\ Take(w, t)
    /\ worker' = [worker EXCEPT ![w] =
           [Idle EXCEPT !.task = t, !.pc = IF t.kind = "item" THEN "failed" ELSE "broken"]]
    /\ UNCHANGED <<rows, lock, asked, round, reopened, requests>>

-----------------------------------------------------------------------------
(* The specification                                                       *)

Users == \E e \in Evals :
    \/ Create(e)
    \/ \E op \in {"pause", "resume"} : Ask(e, op)
    \/ Answer(e)
    \/ \E scope \in {"all", "failed"} : Retry(e, scope)
    \/ Delete(e)

\* Worker w begins the task t.
Start(w, t) ==
    \/ t = Reconcile /\ CountEvaluations(w)
    \/ t.kind = "initialize" /\ Initialize(w, t.e)
    \/ t.kind = "batch" /\ (Acquire(w, t.e) \/ GiveUp(w, t.e))
    \/ t.kind = "item" /\ Claim(w, t.e, t.i)

\* Worker w goes on with its task.
Continue(w) ==
    \/ SelectEvaluations(w) \/ SelectRunning(w) \/ (\E e \in Evals : Coordinate(w, e))
    \/ PublishBatch(w) \/ InitializationFailed(w)
    \/ Check(w) \/ Count(w) \/ Pick(w) \/ Verify(w) \/ Judge(w) \/ Close(w) \/ Release(w)
    \/ Load(w) \/ (\E result \in Terminal : Process(w, result)) \/ ItemFailed(w) \/ NextBatch(w)

Expiry == \E e \in Evals : LockExpires(e) \/ \E i \in Items : ItemExpires(e, i)

Trouble == \E w \in Workers : \/ Crash(w) \/ Redeliver(w) \/ Raise(w)
                              \/ \E t \in Tasks : RaiseAtStart(w, t)

Next == \/ Users
        \/ Beat
        \/ \E w \in Workers : Continue(w) \/ \E t \in Tasks : Start(w, t)
        \/ Expiry
        \/ Trouble

Spec == Init /\ [][Next]_vars

\* The beat fires, workers go on, the broker delivers every message in turn
\* (so often as there is an idle worker), and time passes for the lock and
\* the item of a dead worker.
Fairness ==
    /\ WF_vars(Beat)
    /\ \A w \in Workers : WF_vars(Continue(w))
    /\ \A t \in Tasks : SF_vars(\E w \in Workers : Start(w, t))
    /\ \A e \in Evals : /\ WF_vars(Answer(e))
                        /\ WF_vars(lock[e] = Orphan /\ LockExpires(e))
                        /\ \A i \in Items :
                             WF_vars((\A w \in Workers : ~Processing(w, e, i)) /\ ItemExpires(e, i))

FairSpec == Spec /\ Fairness

-----------------------------------------------------------------------------
(* Properties                                                              *)

\* Every variable has its type.
TypeOK ==
    /\ status \in [Evals -> EvaluationStatus]
    /\ deleted \in [Evals -> BOOLEAN]
    /\ completed \in [Evals -> Int]
    /\ item \in [Evals -> [Items -> ItemStatus]]
    /\ stuck \in [Evals -> SUBSET Items]
    /\ lock \in [Evals -> Workers \cup {Free, Orphan}]
    /\ queue \in [Tasks -> 0..MaxCopies]
    /\ worker \in [Workers -> WorkerState]
    /\ asked \in [Evals -> {"none", "pause", "resume"}]
    /\ round \in [Evals -> [Items -> Nat]]
    /\ reopened \in [Evals -> BOOLEAN]
    /\ requests \in 0..MaxRequests
    /\ faults \in 0..MaxFaults

\* Between two times an item is put back to PENDING, by a retry or because it
\* was stuck, at most one worker asks the agent for it: messages may be
\* dispatched twice, delivered twice or late, the guarded UPDATE of
\* process_evaluation_item lets one through.
OneWorkerPerRound ==
    \A v, w \in Workers : \A e \in Evals : \A i \in Items :
        /\ v # w
        /\ worker[v].task = Task("item", e, i) /\ worker[v].pc \in {"load", "agent"}
        /\ worker[w].task = Task("item", e, i) /\ worker[w].pc \in {"load", "agent"}
        => worker[v].round # worker[w].round

\* An evaluation that is COMPLETED has no item left to process, unless it was
\* retried after the finaliser had verified it: the items claimed between
\* the batch's two SELECTs, expired locks and several finalisers
\* notwithstanding (_finalize_evaluation).
CompletedIsDone ==
    \A e \in Evals : status[e] = "COMPLETED" /\ ~reopened[e] => Unfinished(e) = {}

\* When no item is slow and nobody retries, a COMPLETED evaluation has only
\* COMPLETED items and its completed_questions counts them all, although the
\* workers compute it from what they had loaded.
CompletedIsExact ==
    \A e \in Evals : status[e] = "COMPLETED" =>
        /\ \A i \in Items : item[e][i] = "COMPLETED"
        /\ completed[e] = NItems

\* Two batches of an evaluation are between acquire and release together only
\* if one of them has outlived the lock.
BatchesExclusive ==
    \A v, w \in Workers :
        /\ v # w
        /\ worker[v].task.kind = "batch" /\ worker[v].pc # "idle"
        /\ worker[w].task.kind = "batch" /\ worker[w].pc # "idle"
        => worker[v].task.e # worker[w].task.e

\* An evaluation waiting or running in the end is finalised, paused or
\* deleted, whichever worker dies: signals that found the lock taken, lost
\* messages and stuck items are made up for by the coordinator.
EvaluationFinishes ==
    \A e \in Evals : status[e] \in {"PENDING", "RUNNING"} ~>
                         status[e] \in Terminal \cup {"PAUSED"} \/ deleted[e]
=============================================================================
