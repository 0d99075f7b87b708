-------------------------- MODULE DocumentIndexing --------------------------
(***************************************************************************)
(* The life of the search indexes of one document.                         *)
(*                                                                         *)
(* API requests write the wanted state into the table document_index (one  *)
(* row per index type, with a status, a wanted version and the version     *)
(* last built).  Reconcilers scan that table, claim rows in a transaction  *)
(* and publish workflows to the Celery broker BEFORE they commit the       *)
(* claim.  Workers run the workflow's tasks: parse, fan out, create /      *)
(* update / delete; a task validates its row, does the external work, and  *)
(* reports through a callback that writes the row and the document's       *)
(* overall status.                                                         *)
(*                                                                         *)
(* Granularity.  The database runs at READ COMMITTED: a read and the write *)
(* that depends on it are steps of their own, a row written by an open     *)
(* transaction is locked until it ends, and a transaction's writes become  *)
(* visible in its commit step.  Where several SELECTs are one step the     *)
(* comment says why.  One document is enough: every statement of this code *)
(* selects by document_id or by a row's id.                                *)
(***************************************************************************)
EXTENDS Integers, FiniteSets

CONSTANTS
    IndexTypes,      \* VECTOR, FULLTEXT, GRAPH, SUMMARY, VISION
    ConfiguredTypes, \* the types the collection's configuration enables
    Reconcilers,     \* executions of reconcile_indexes_task that may overlap
    Workers,         \* worker processes running the index tasks
    NoOne,           \* the holder of a row nobody has locked
    Sessions,        \* API requests that may be in flight together
    Ops,             \* the kinds of API request the environment sends
    InitialDocs,     \* how the document got here: subset of {"UPLOADED", "PENDING"}
    MaxRetries,      \* max_retries of the tasks
    MaxRequests,     \* bound: API requests in a behaviour
    MaxFaults        \* bound: crashes, redeliveries, failed publishes

AllOps == {"confirm", "rebuild", "rebuild_failed", "delete", "expire"}

ASSUME TypesAssumption == ConfiguredTypes \subseteq IndexTypes
ASSUME OpsAssumption == Ops \subseteq AllOps
ASSUME InitAssumption == InitialDocs \subseteq {"UPLOADED", "PENDING"}
ASSUME BoundsAssumption == MaxRetries \in Nat /\ MaxRequests \in Nat /\ MaxFaults \in Nat
ASSUME ActorsAssumption == Reconcilers \cap Workers = {} /\ NoOne \notin Reconcilers \cup Workers

VARIABLES
    row,      \* document_index: the committed row of each type
    doc,      \* document.status, committed
    lock,     \* the open transaction that has written the row, if any
    rec,      \* the local state of each reconciler
    worker,   \* the local state of each worker
    api,      \* the local state of each API request
    queue,    \* messages the broker holds that no worker has acknowledged
    credit,   \* history: committed requests minus committed claims, per type
    requests, \* API requests begun so far
    faults    \* faults that have happened so far

vars == <<row, doc, lock, rec, worker, api, queue, credit, requests, faults>>

-----------------------------------------------------------------------------
(* Data                                                                    *)

DocStatus == {"UPLOADED", "EXPIRED", "PENDING", "RUNNING", "COMPLETE", "FAILED", "DELETED"}

IndexStatus == {"PENDING", "CREATING", "ACTIVE", "DELETING", "DELETION_IN_PROGRESS", "FAILED"}

\* A row that does not exist has status ABSENT; id then counts the rows this
\* type has had, so that a row inserted later is a different row.
Row == [status : IndexStatus \cup {"ABSENT"}, version : Nat, observed : Nat, id : Nat]

Absent(k) == [status |-> "ABSENT", version |-> 0, observed |-> 0, id |-> k]

NewRow(k) == [status |-> "PENDING", version |-> 1, observed |-> 0, id |-> k + 1]

Actions == {"CREATE", "UPDATE", "DELETE"}

\* target gives the version to build of each index type of the message (the
\* workflow's context); 0 is the None of a deletion.
Message == [kind : {"parse", "trigger", "index"}, action : Actions,
            types : (SUBSET IndexTypes) \ {{}}, target : [IndexTypes -> Nat], tries : Nat]

Holders == Reconcilers \cup Workers

InProgress == {"CREATING", "DELETION_IN_PROGRESS"}

NoMessage == [kind |-> "none", action |-> "none", types |-> {},
              target |-> [t \in IndexTypes |-> 0], tries |-> 0]

\* One row a reconciler's scan returned, and one row its transaction claimed.
Entry == [type : IndexTypes, id : Nat, action : Actions]
Claim == [type : IndexTypes, action : Actions, target : Nat]

ReconcilerState ==
    [phase : {"idle", "claim", "publish"},
     todo : SUBSET Entry,
     current : SUBSET [entry : Entry, version : Nat],
     claimed : SUBSET Claim,
     unsent : SUBSET Actions]

WorkerState ==
    [phase : {"idle", "started", "relevant", "validated", "working", "succeeded", "failed", "committing"},
     msg : Message \cup {NoMessage},
     todo : SUBSET IndexTypes,
     type : IndexTypes \cup {"none"},
     write : Row,
     docWrite : DocStatus \cup {"keep"}]

SessionState ==
    [phase : {"idle", "open", "loaded"}, op : AllOps \cup {"none"},
     types : SUBSET IndexTypes, loaded : [IndexTypes -> Row]]

IdleReconciler == [phase |-> "idle", todo |-> {}, current |-> {}, claimed |-> {}, unsent |-> {}]
IdleWorker == [phase |-> "idle", msg |-> NoMessage, todo |-> {}, type |-> "none",
               write |-> Absent(0), docWrite |-> "keep"]
IdleSession == [phase |-> "idle", op |-> "none", types |-> {}, loaded |-> [t \in IndexTypes |-> Absent(0)]]

Init ==
    /\ doc \in InitialDocs
    /\ row = [t \in IndexTypes |->
                IF doc = "PENDING" /\ t \in ConfiguredTypes THEN NewRow(0) ELSE Absent(0)]
    /\ credit = [t \in IndexTypes |-> IF doc = "PENDING" /\ t \in ConfiguredTypes THEN 1 ELSE 0]
    /\ lock = [t \in IndexTypes |-> NoOne]
    /\ rec = [r \in Reconcilers |-> IdleReconciler]
    /\ worker = [w \in Workers |-> IdleWorker]
    /\ api = [s \in Sessions |-> IdleSession]
    /\ queue = {}
    /\ requests = 0
    /\ faults = 0

\* A fault of the environment, counted against its bound.
Fault == faults < MaxFaults /\ faults' = faults + 1

Exists(t) == row[t].status # "ABSENT"

Free(t) == lock[t] = NoOne

Release(p) == [t \in IndexTypes |-> IF lock[t] = p THEN NoOne ELSE lock[t]]

-----------------------------------------------------------------------------
(* API requests.  A request checks the document in one session, loads the  *)
(* rows in its own transaction, changes the loaded objects and writes them *)
(* back at the end.  The ORM writes only the attributes whose value has    *)
(* changed since they were loaded, and computes version + 1 in memory.     *)

FailedTypes == {t \in IndexTypes : row[t].status = "FAILED"}

\* The types each kind of request writes; any list the user names for a rebuild.
RequestTypes(op) ==
    CASE op = "confirm"        -> {ConfiguredTypes}
      [] op = "rebuild"        -> (SUBSET IndexTypes) \ {{}}
      [] op = "rebuild_failed" -> {FailedTypes} \ {{}}
      [] op = "delete"         -> {IndexTypes}
      [] OTHER                 -> {{}}

\* confirm_documents, rebuild_*_indexes, _delete_document and
\* cleanup_expired_documents: the check of the document, in its own query.
OpenRequest(s) ==
    /\ api[s].phase = "idle"
    /\ requests < MaxRequests
    /\ \E op \in Ops : \E types \in RequestTypes(op) :
         /\ doc # "DELETED"
         /\ op \in {"confirm", "expire"} => doc = "UPLOADED"
         /\ api' = [api EXCEPT ![s] = [IdleSession EXCEPT !.phase = "open", !.op = op, !.types = types]]
    /\ requests' = requests + 1
    /\ UNCHANGED <<row, doc, lock, rec, worker, queue, credit, faults>>

\* create_or_update_document_indexes / delete_document_indexes: the SELECTs, one
\* per type.  They are one step: no row's write depends on another row's read.
LoadRows(s) ==
    /\ api[s].phase = "open"
    /\ api' = [api EXCEPT ![s] = [api[s] EXCEPT
                  !.phase = "loaded",
                  !.loaded = [t \in IndexTypes |-> IF t \in api[s].types THEN row[t] ELSE Absent(0)]]]
    /\ UNCHANGED <<row, doc, lock, rec, worker, queue, credit, requests, faults>>

\* The row after create_or_update_document_indexes has changed what it loaded.
Requested(loaded, now) ==
    IF loaded.status = "ABSENT"
    THEN NewRow(now.id)
    ELSE [now EXCEPT !.status = IF loaded.status = "PENDING" THEN @ ELSE "PENDING",
                     !.version = loaded.version + 1]

\* The row after delete_document_indexes has changed what it loaded.
Doomed(loaded, now) ==
    IF loaded.status \in {"ABSENT", "DELETING"} THEN now ELSE [now EXCEPT !.status = "DELETING"]

\* The UPDATE of a loaded row is by its id: 0 rows matched is StaleDataError,
\* and a second INSERT of the same type breaks the table's unique constraint.
WriteConflict(s) ==
    \E t \in api[s].types :
        LET loaded == api[s].loaded[t] IN
        IF loaded.status = "ABSENT"
        THEN api[s].op # "delete" /\ Exists(t)
        ELSE ~Exists(t) \/ row[t].id # loaded.id

\* The types whose row the request writes.
Written(s) ==
    IF api[s].op = "delete"
    THEN {t \in api[s].types : api[s].loaded[t].status # "ABSENT"}
    ELSE api[s].types

CommitRequest(s) ==
    /\ api[s].phase = "loaded"
    /\ api[s].op # "expire"
    /\ ~WriteConflict(s)
    /\ \A t \in Written(s) : Free(t)
    /\ row' = [t \in IndexTypes |->
                 IF t \notin Written(s) THEN row[t]
                 ELSE IF api[s].op = "delete" THEN Doomed(api[s].loaded[t], row[t])
                 ELSE Requested(api[s].loaded[t], row[t])]
    /\ credit' = [t \in IndexTypes |-> IF t \in Written(s) THEN credit[t] + 1 ELSE credit[t]]
    /\ doc' = CASE api[s].op = "confirm" -> "PENDING"
                [] api[s].op = "delete"  -> "DELETED"
                [] OTHER                 -> doc
    /\ api' = [api EXCEPT ![s] = IdleSession]
    /\ UNCHANGED <<lock, rec, worker, queue, requests, faults>>

\* cleanup_expired_documents writes the status of the document it has selected
\* as unconfirmed for too long; it touches no index.
CommitExpiry(s) ==
    /\ api[s].phase = "loaded"
    /\ api[s].op = "expire"
    /\ doc' = "EXPIRED"
    /\ api' = [api EXCEPT ![s] = IdleSession]
    /\ UNCHANGED <<row, lock, rec, worker, queue, credit, requests, faults>>

\* A conflict, a later error of the request or its crash: nothing is written.
RollbackRequest(s) ==
    /\ api[s].phase # "idle"
    /\ api' = [api EXCEPT ![s] = IdleSession]
    /\ UNCHANGED <<row, doc, lock, rec, worker, queue, credit, requests, faults>>

-----------------------------------------------------------------------------
(* The reconciler: reconcile_all for one document.                         *)

\* Mutant: a creation does not ask for version = 1.
NeedsAnyVersion(action, r) ==
    CASE action = "CREATE" -> r.status = "PENDING" /\ r.observed < r.version
      [] action = "UPDATE" -> r.status = "PENDING" /\ r.observed < r.version /\ r.version > 1
      [] action = "DELETE" -> r.status = "DELETING"

\* The conditions shared by the scan and by the guarded UPDATE of a claim.
Needs(action, r) ==
    CASE action = "CREATE" -> r.status = "PENDING" /\ r.observed < r.version /\ r.version = 1
      [] action = "UPDATE" -> r.status = "PENDING" /\ r.observed < r.version /\ r.version > 1
      [] action = "DELETE" -> r.status = "DELETING"

Claimable(r) == \E action \in Actions : Needs(action, r)

\* Mutant: the scan looks for rows to build only.
ScanBuilds ==
    {e \in [type : IndexTypes, id : {row[t].id : t \in IndexTypes}, action : {"CREATE", "UPDATE"}] :
        e.id = row[e.type].id /\ Needs(e.action, row[e.type])}

ScanEntries ==
    {e \in [type : IndexTypes, id : {row[t].id : t \in IndexTypes}, action : Actions] :
        e.id = row[e.type].id /\ Needs(e.action, row[e.type])}

\* _get_indexes_needing_reconciliation: read in a session of its own.  Its three
\* SELECTs are one step: a row that changes between them is found twice, and
\* only the claim of its later state can win.
Scan(r) ==
    /\ rec[r].phase = "idle"
    /\ ScanEntries # {}
    /\ rec' = [rec EXCEPT ![r] = [IdleReconciler EXCEPT !.phase = "claim", !.todo = ScanEntries]]
    /\ UNCHANGED <<row, doc, lock, worker, api, queue, credit, requests, faults>>

\* _claim_document_indexes: SELECT the current row of one entry.
SelectCurrent(r) ==
    /\ rec[r].phase = "claim"
    /\ rec[r].current = {}
    /\ \E e \in rec[r].todo :
         rec' = [rec EXCEPT ![r] = [rec[r] EXCEPT
                   !.todo = rec[r].todo \ {e},
                   !.current = IF Exists(e.type) /\ row[e.type].id = e.id
                               THEN {[entry |-> e, version |-> row[e.type].version]}
                               ELSE {}]]
    /\ UNCHANGED <<row, doc, lock, worker, api, queue, credit, requests, faults>>

\* Mutant: the UPDATE looks for the row by its id alone.
ClaimById(e) == row[e.type].id = e.id

\* What the guarded UPDATE of a claim matches.
ClaimWins(e) == row[e.type].id = e.id /\ Needs(e.action, row[e.type])

\* _claim_document_indexes: the guarded UPDATE.  It waits for a transaction
\* that holds the row, then evaluates its guard on what that one committed.
GuardedUpdate(r) ==
    \E c \in rec[r].current :
        LET t == c.entry.type
            wins == ClaimWins(c.entry)
            claim == [type |-> t, action |-> c.entry.action,
                      target |-> IF c.entry.action = "DELETE" THEN 0 ELSE c.version]
        IN /\ Free(t)
           /\ rec' = [rec EXCEPT ![r] = [rec[r] EXCEPT
                         !.current = {},
                         !.claimed = IF wins THEN rec[r].claimed \cup {claim} ELSE rec[r].claimed]]
           /\ lock' = IF wins THEN [lock EXCEPT ![t] = r] ELSE lock
           /\ UNCHANGED <<row, doc, worker, api, queue, credit, requests, faults>>

\* _reconcile_single_document: with nothing claimed the document is skipped,
\* otherwise its claims are published before they are committed.
EndClaiming(r) ==
    /\ rec[r].phase = "claim"
    /\ rec[r].todo = {} /\ rec[r].current = {}
    /\ rec' = [rec EXCEPT ![r] =
                 IF rec[r].claimed = {} THEN IdleReconciler
                 ELSE [rec[r] EXCEPT !.phase = "publish",
                                     !.unsent = {c.action : c \in rec[r].claimed}]]
    /\ UNCHANGED <<row, doc, lock, worker, api, queue, credit, requests, faults>>

\* The workflow of one batch of claims: create and update start with a parse,
\* a deletion starts with its fan-out.
Workflow(claims, action) ==
    LET batch == {c \in claims : c.action = action}
        types == {c.type : c \in batch}
    IN [kind |-> IF action = "DELETE" THEN "trigger" ELSE "parse",
        action |-> action,
        types |-> types,
        target |-> [t \in IndexTypes |->
                      IF t \in types THEN (CHOOSE c \in batch : c.type = t).target ELSE 0],
        tries |-> 0]

\* _reconcile_document_operations: the batches go out in the order CREATE,
\* UPDATE, DELETE.
Publish(r) ==
    /\ rec[r].phase = "publish"
    /\ \E action \in rec[r].unsent :
         /\ action = "UPDATE" => "CREATE" \notin rec[r].unsent
         /\ action = "DELETE" => rec[r].unsent = {"DELETE"}
         /\ queue' = queue \cup {Workflow(rec[r].claimed, action)}
         /\ rec' = [rec EXCEPT ![r] = [rec[r] EXCEPT !.unsent = rec[r].unsent \ {action}]]
    /\ UNCHANGED <<row, doc, lock, worker, api, credit, requests, faults>>

ClaimedTypes(r) == {c.type : c \in rec[r].claimed}

CommitClaim(r) ==
    /\ rec[r].phase = "publish"
    /\ rec[r].unsent = {}
    /\ row' = [t \in IndexTypes |->
                 IF t \in ClaimedTypes(r)
                 THEN [row[t] EXCEPT !.status = IF \E c \in rec[r].claimed : c.type = t /\ c.action = "DELETE"
                                                THEN "DELETION_IN_PROGRESS" ELSE "CREATING"]
                 ELSE row[t]]
    /\ credit' = [t \in IndexTypes |-> IF t \in ClaimedTypes(r) THEN credit[t] - 1 ELSE credit[t]]
    /\ lock' = Release(r)
    /\ rec' = [rec EXCEPT ![r] = IdleReconciler]
    /\ UNCHANGED <<doc, worker, api, queue, requests, faults>>

\* A publish that raises, a claim that raises, or the death of the reconciler:
\* the transaction is rolled back, what was published stays published.
AbortClaim(r) ==
    /\ rec[r].phase # "idle"
    /\ Fault
    /\ lock' = Release(r)
    /\ rec' = [rec EXCEPT ![r] = IdleReconciler]
    /\ UNCHANGED <<row, doc, worker, api, queue, credit, requests>>

-----------------------------------------------------------------------------
(* The workers.  A message stays with the broker until its task ends       *)
(* (task_acks_late), so it can be delivered a second time meanwhile.       *)

\* The task ends and its message is replaced by the messages it sends.
Finish(w, sent) ==
    /\ queue' = (queue \ {worker[w].msg}) \cup sent
    /\ worker' = [worker EXCEPT ![w] = IdleWorker]

\* Mutant: a retry is not counted.
RetryUncounted(m) == m

\* autoretry_for: the message again, once more tried.
Retry(m) == [m EXCEPT !.tries = @ + 1]

\* The task has raised: retried, or given up and reported for these types.
TaskFails(w) ==
    IF worker[w].msg.tries < MaxRetries
    THEN Finish(w, {Retry(worker[w].msg)})
    ELSE /\ worker' = [worker EXCEPT ![w] = [worker[w] EXCEPT !.phase = "failed",
                                                              !.todo = worker[w].msg.types]]
         /\ UNCHANGED queue

Receive(w) ==
    /\ worker[w].phase = "idle"
    /\ \E m \in queue :
         /\ \A v \in Workers : worker[v].msg # m
         /\ worker' = [worker EXCEPT ![w] = [worker[w] EXCEPT !.phase = "started", !.msg = m]]
    /\ UNCHANGED <<row, doc, lock, rec, api, queue, credit, requests, faults>>

\* The broker's visibility timeout passes while the task still runs.
Redeliver(w) ==
    /\ worker[w].phase = "idle"
    /\ \E m \in queue :
         /\ \E v \in Workers : worker[v].msg = m
         /\ worker' = [worker EXCEPT ![w] = [worker[w] EXCEPT !.phase = "started", !.msg = m]]
    /\ Fault
    /\ UNCHANGED <<row, doc, lock, rec, api, queue, credit, requests>>

\* parse_document_task: a deleted document cannot be loaded, and the parser
\* may fail on any document.
ParseDocument(w) ==
    LET m == worker[w].msg IN
    /\ worker[w].phase = "started"
    /\ m.kind = "parse"
    /\ \/ doc # "DELETED" /\ Finish(w, {[m EXCEPT !.kind = "trigger", !.tries = 0]})
       \/ TaskFails(w)
    /\ UNCHANGED <<row, doc, lock, rec, api, credit, requests, faults>>

\* trigger_*_indexes_workflow: one task per index type.
TriggerIndexTasks(w) ==
    LET m == worker[w].msg IN
    /\ worker[w].phase = "started"
    /\ m.kind = "trigger"
    /\ Finish(w, {[m EXCEPT !.kind = "index", !.types = {t},
                            !.target = [u \in IndexTypes |-> IF u = t THEN @[t] ELSE 0]] : t \in m.types})
    /\ UNCHANGED <<row, doc, lock, rec, api, credit, requests, faults>>

\* The one type of an index task.
TypeOf(m) == CHOOSE t \in m.types : TRUE

\* _validate_task_relevance and the check of delete_index_task: the row.
Relevant(m) ==
    LET r == row[TypeOf(m)] IN
    IF m.action = "DELETE"
    THEN r.status = "DELETION_IN_PROGRESS"
    ELSE r.status = "CREATING" /\ r.version = m.target[TypeOf(m)]

ValidateTask(w) ==
    LET m == worker[w].msg
        next == IF m.action = "DELETE" THEN "validated" ELSE "relevant"
    IN /\ worker[w].phase = "started"
       /\ m.kind = "index"
       /\ IF Relevant(m)
          THEN worker' = [worker EXCEPT ![w] = [worker[w] EXCEPT !.phase = next]] /\ UNCHANGED queue
          ELSE Finish(w, {})
       /\ UNCHANGED <<row, doc, lock, rec, api, credit, requests, faults>>

\* Mutant: only expired documents are left out.
UnbuildableExpired == {"EXPIRED"}

\* The documents whose indexes _validate_task_relevance does not build.
Unbuildable == {"UPLOADED", "EXPIRED"}

\* _validate_task_relevance: the status of the document, read after the row.
CheckDocument(w) ==
    /\ worker[w].phase = "relevant"
    /\ IF doc \in Unbuildable
       THEN Finish(w, {})
       ELSE worker' = [worker EXCEPT ![w] = [worker[w] EXCEPT !.phase = "validated"]] /\ UNCHANGED queue
    /\ UNCHANGED <<row, doc, lock, rec, api, credit, requests, faults>>

\* DocumentIndexTask.create_index / update_index / delete_index load the
\* document first: only a deletion accepts a deleted one.
LoadDocument(w) ==
    /\ worker[w].phase = "validated"
    /\ IF worker[w].msg.action # "DELETE" /\ doc = "DELETED"
       THEN TaskFails(w)
       ELSE worker' = [worker EXCEPT ![w] = [worker[w] EXCEPT !.phase = "working"]] /\ UNCHANGED queue
    /\ UNCHANGED <<row, doc, lock, rec, api, credit, requests, faults>>

\* The rest of them: the work on the external index, which may fail.
RunIndexer(w) ==
    /\ worker[w].phase = "working"
    /\ \/ worker' = [worker EXCEPT ![w] = [worker[w] EXCEPT !.phase = "succeeded"]] /\ UNCHANGED queue
       \/ TaskFails(w)
    /\ UNCHANGED <<row, doc, lock, rec, api, credit, requests, faults>>

\* Mutant: an index status is taken for a document status.
OverallIndexStatus(rows) == IF \E t \in IndexTypes : rows[t].status = "FAILED" THEN "FAILED" ELSE "ACTIVE"

\* Document.get_overall_index_status over the rows the transaction sees.
OverallStatus(rows) ==
    LET present == {t \in IndexTypes : rows[t].status # "ABSENT"}
        some(S) == \E t \in present : rows[t].status \in S
    IN CASE present = {}                                  -> "PENDING"
         [] present # {} /\ some({"FAILED"})              -> "FAILED"
         [] ~some({"FAILED"}) /\ some(InProgress)         -> "RUNNING"
         [] present # {} /\ \A t \in present : rows[t].status = "ACTIVE" -> "COMPLETE"
         [] OTHER                                         -> "PENDING"

\* Mutant: deleted documents are not left alone.
DocWriteDeleted(t, new) ==
    LET overall == OverallStatus([row EXCEPT ![t] = new]) IN
    IF doc \in {"UPLOADED", "EXPIRED"} \/ doc = overall THEN "keep" ELSE overall

\* _update_document_status: the status to write with the callback, "keep" when
\* the document is out of the pipeline or its status is already that one.
DocWrite(t, new) ==
    LET overall == OverallStatus([row EXCEPT ![t] = new]) IN
    IF doc \in {"DELETED", "UPLOADED", "EXPIRED"} \/ doc = overall THEN "keep" ELSE overall

\* The guarded write of a callback and the reads that follow it, in one open
\* transaction that holds the row.
OpenCallback(w, t, new) ==
    /\ lock' = [lock EXCEPT ![t] = w]
    /\ worker' = [worker EXCEPT ![w] = [worker[w] EXCEPT
                     !.phase = "committing", !.type = t, !.todo = worker[w].todo \ {t},
                     !.write = new, !.docWrite = DocWrite(t, new)]]
    /\ UNCHANGED queue

\* Mutant: the version is not validated.
BuildAccepted(m, r) == r.status = "CREATING"

\* The guard of on_index_created.
BuildIsCurrent(m, r) == r.status = "CREATING" /\ r.version = m.target[TypeOf(m)]

\* on_index_created and on_index_deleted.
ReportSuccess(w) ==
    LET m == worker[w].msg
        t == TypeOf(m)
        r == row[t]
    IN /\ worker[w].phase = "succeeded"
       /\ Free(t)
       /\ IF m.action = "DELETE"
          THEN IF r.status = "DELETION_IN_PROGRESS"
               THEN OpenCallback(w, t, Absent(r.id))
               ELSE Finish(w, {}) /\ UNCHANGED lock
          ELSE IF BuildIsCurrent(m, r)
               THEN OpenCallback(w, t, [r EXCEPT !.status = "ACTIVE", !.observed = m.target[t]])
               ELSE Finish(w, {}) /\ UNCHANGED lock
       /\ UNCHANGED <<row, doc, rec, api, credit, requests, faults>>

\* on_index_failed, once for each type of the message.
ReportFailure(w) ==
    /\ worker[w].phase = "failed"
    /\ \E t \in worker[w].todo :
         /\ Free(t)
         /\ IF row[t].status \in InProgress
            THEN OpenCallback(w, t, [row[t] EXCEPT !.status = "FAILED"])
            ELSE /\ worker' = [worker EXCEPT ![w] = [worker[w] EXCEPT !.todo = worker[w].todo \ {t}]]
                 /\ UNCHANGED <<queue, lock>>
    /\ UNCHANGED <<row, doc, rec, api, credit, requests, faults>>

\* Every type has been reported: the task ends as failed.
EndFailure(w) ==
    /\ worker[w].phase = "failed"
    /\ worker[w].todo = {}
    /\ Finish(w, {})
    /\ UNCHANGED <<row, doc, lock, rec, api, credit, requests, faults>>

\* After a callback the task ends, unless more types are to be reported failed.
AfterCallback(w) ==
    IF worker[w].todo = {}
    THEN Finish(w, {})
    ELSE /\ worker' = [worker EXCEPT ![w] = [IdleWorker EXCEPT !.phase = "failed", !.msg = worker[w].msg,
                                                               !.todo = worker[w].todo]]
         /\ UNCHANGED queue

CommitCallback(w) ==
    /\ worker[w].phase = "committing"
    /\ row' = [row EXCEPT ![worker[w].type] = worker[w].write]
    /\ doc' = IF worker[w].docWrite = "keep" THEN doc ELSE worker[w].docWrite
    /\ lock' = Release(w)
    /\ AfterCallback(w)
    /\ UNCHANGED <<rec, api, credit, requests, faults>>

\* _handle_index_*: an exception in a callback is logged and swallowed, and the
\* types after it are not reported.
CallbackRaises(w) ==
    /\ worker[w].phase \in {"succeeded", "failed", "committing"}
    /\ lock' = Release(w)
    /\ Finish(w, {})
    /\ Fault
    /\ UNCHANGED <<row, doc, rec, api, credit, requests>>

\* The worker dies: its transaction is rolled back; the message of a killed
\* child is acknowledged and lost, that of a dead node is delivered again.
WorkerDies(w) ==
    /\ worker[w].phase # "idle"
    /\ lock' = Release(w)
    /\ worker' = [worker EXCEPT ![w] = IdleWorker]
    /\ queue' \in {queue, queue \ {worker[w].msg}}
    /\ Fault
    /\ UNCHANGED <<row, doc, rec, api, credit, requests>>

-----------------------------------------------------------------------------
RequestStep(s) == OpenRequest(s) \/ LoadRows(s) \/ CommitRequest(s) \/ CommitExpiry(s) \/ RollbackRequest(s)

ReconcilerStep(r) == SelectCurrent(r) \/ GuardedUpdate(r) \/ EndClaiming(r) \/ Publish(r) \/ CommitClaim(r)

WorkerStep(w) ==
    \/ Receive(w) \/ ParseDocument(w) \/ TriggerIndexTasks(w) \/ ValidateTask(w) \/ CheckDocument(w)
    \/ LoadDocument(w) \/ RunIndexer(w) \/ ReportSuccess(w) \/ ReportFailure(w) \/ EndFailure(w) \/ CommitCallback(w)

FaultStep ==
    \/ \E r \in Reconcilers : AbortClaim(r)
    \/ \E w \in Workers : Redeliver(w) \/ CallbackRaises(w) \/ WorkerDies(w)

Next ==
    \/ \E s \in Sessions : RequestStep(s)
    \/ \E r \in Reconcilers : Scan(r) \/ ReconcilerStep(r)
    \/ \E w \in Workers : WorkerStep(w)
    \/ FaultStep

Spec == Init /\ [][Next]_vars

\* Celery beat starts reconcile_indexes_task again and again and the broker
\* delivers what it holds; what is started goes on.  Nothing makes a user send
\* a request, and a request that has begun ends.
Fairness ==
    /\ \A r \in Reconcilers : WF_vars(Scan(r)) /\ WF_vars(ReconcilerStep(r))
    /\ \A w \in Workers : WF_vars(WorkerStep(w))
    /\ \A s \in Sessions : WF_vars(LoadRows(s)) /\ WF_vars(CommitRequest(s) \/ CommitExpiry(s) \/ RollbackRequest(s))

FairSpec == Spec /\ Fairness

-----------------------------------------------------------------------------
(* Properties                                                              *)

TypeOK ==
    /\ row \in [IndexTypes -> Row]
    /\ doc \in DocStatus
    /\ lock \in [IndexTypes -> Holders \cup {NoOne}]
    /\ rec \in [Reconcilers -> ReconcilerState]
    /\ worker \in [Workers -> WorkerState]
    /\ api \in [Sessions -> SessionState]
    /\ queue \subseteq Message
    /\ credit \in [IndexTypes -> Int]
    /\ requests \in 0..MaxRequests
    /\ faults \in 0..MaxFaults

\* No dispatch without a request of its own: the reconcilers that the beat and
\* the API start together, on any number of workers, never commit two claims
\* for one request (the guarded UPDATE of _claim_document_indexes).
ClaimedOncePerRequest == \A t \in IndexTypes : credit[t] >= 0

\* A claimed creation carries the version of the row it has claimed although
\* the version was read before the claim: the guard's version = 1 pins it.
CreateClaimExact ==
    \A r \in Reconcilers : \A c \in rec[r].claimed :
        c.action = "CREATE" => row[c.type].version = c.target

\* A task that worked on an old version never makes its row ACTIVE: what
\* becomes ACTIVE records the version wanted at that very moment
\* (on_index_created, from its guarded write to its commit).
OnlyCurrentActivates ==
    [][\A t \in IndexTypes :
         row[t].status # "ACTIVE" /\ row'[t].status = "ACTIVE"
           => row'[t].observed = row[t].version /\ row'[t].version = row[t].version]_vars

\* A callback that will write an overall status over the document when it
\* commits, and a row that the deletion s has not found: inserted by another
\* request after the deletion's SELECTs.
Overwrites(w) == worker[w].phase = "committing" /\ worker[w].docWrite # "keep"

Missed(s, t) == Exists(t) /\ api[s].loaded[t].status = "ABSENT"

\* A callback that read the document before its deletion does not write an
\* overall status over it (_update_document_status): after the deletion nobody
\* begins to, and the deletion has waited for those whose row it had found.
\* Only a request that checked the document before can bring it back, or the
\* callback of a row the deletion has missed.
CallbacksRespectDeletion ==
    [][/\ doc = "DELETED" /\ doc' # "DELETED" =>
            \/ \E s \in Sessions : api[s].op \in {"confirm", "expire"} /\ api'[s] = IdleSession
            \/ \E w \in Workers : Overwrites(w) /\ ~Overwrites(w)'
       /\ doc' = "DELETED" =>
            \A w \in Workers : Overwrites(w)' =>
                /\ Overwrites(w)
                /\ \/ doc = "DELETED"
                   \/ \E s \in Sessions : api'[s] # api[s] /\ Missed(s, worker[w].type)]_vars

\* Once every index of a document has been built and nothing is under way, the
\* document is COMPLETE, as the upload design wants of it
\* (IndexTaskCallbacks._update_document_status).  Two callbacks at once break
\* it: each computes the status before it can see what the other has written.
AllBuilt ==
    /\ \A t \in ConfiguredTypes : row[t].status = "ACTIVE"
    /\ \A t \in IndexTypes \ ConfiguredTypes : ~Exists(t)
    /\ queue = {}
    /\ \A w \in Workers : worker[w].phase = "idle"

AllBuiltIsComplete == AllBuilt /\ doc \notin {"UPLOADED", "EXPIRED", "DELETED"} => doc = "COMPLETE"

\* An index of an uploaded document nobody has confirmed is never built, even
\* when a rebuild is asked for it (_validate_task_relevance).
UnconfirmedNeverActive ==
    doc = "UPLOADED" => \A t \in IndexTypes : row[t].status # "ACTIVE"

\* Every row the scan should see is claimed in the end, whatever requests,
\* crashes and failed publishes come between.
PendingIsPickedUp ==
    \A t \in IndexTypes : Claimable(row[t]) ~> ~Claimable(row[t])

\* Every task ends: retries and redeliveries do not go on for ever.
TasksEnd == <>[](queue = {} /\ \A w \in Workers : worker[w].phase = "idle")

\* A claimed deletion is carried out or reported as failed.
DeletionResolves ==
    \A t \in IndexTypes : row[t].status = "DELETION_IN_PROGRESS" ~> row[t].status # "DELETION_IN_PROGRESS"
=============================================================================
