--------------------------- MODULE CollectionSummary ---------------------------
(***************************************************************************)
(* The generated summary of a collection: requests of the user that edit   *)
(* the collection and ask for a summary, reconcilers that claim the rows   *)
(* of collection_summary and publish a task for each, the tasks, and the   *)
(* callbacks that store the summary and copy it to the collection.         *)
(*                                                                         *)
(* Granularity.  READ COMMITTED: a SELECT is a step; the writes of a       *)
(* transaction are visible from its commit, and a row it has written is    *)
(* locked until then.  A reconciler keeps one transaction for several      *)
(* rows, a callback writes the row and the collection in one.              *)
(***************************************************************************)
EXTENDS Integers, FiniteSets

CONSTANTS
    Collections,
    Requests,        \* API requests that may be in flight together
    Reconcilers,     \* runs of reconcile_collection_summaries_task
    Tasks,           \* places for messages of collection_summary_task
    Nobody,
    MaxRequests,     \* bound: requests in a behaviour
    MaxFaults        \* bound: failed publishes, crashes and redeliveries

ASSUME BoundAssumption == MaxRequests \in Nat /\ MaxFaults \in Nat
ASSUME NobodyAssumption == Nobody \notin Reconcilers /\ Nobody \notin Collections

VARIABLES
    collection,      \* rows of collection
    row,             \* rows of collection_summary
    lock,            \* the reconciler whose transaction has written a row
    request,         \* local state of each request
    reconciler,      \* local state of each reconciler
    task,            \* messages and the state of their workers
    sent,            \* requests so far
    faults           \* faults so far

vars == <<collection, row, lock, request, reconciler, task, sent, faults>>

-----------------------------------------------------------------------------
Status == {"none", "PENDING", "GENERATING", "COMPLETE", "FAILED"}

\* The id tells a row from one that was deleted and made again.
NoRow(id) == [status |-> "none", id |-> id, version |-> 0, observed |-> 0, summary |-> 0]

\* Mutant: the version starts where the observed version does.
NewRowObserved(id) == [status |-> "PENDING", id |-> id, version |-> 0, observed |-> 0, summary |-> 0]

NewRow(id) == [status |-> "PENDING", id |-> id, version |-> 1, observed |-> 0, summary |-> 0]

\* A text is a pair: who wrote it, and the number of the request or version.
\* An empty summary is version 0.
Text(by, n) == [by |-> by, n |-> n]

IdleRequest == [phase |-> "idle", c |-> Nobody, n |-> 0, enable |-> FALSE, seen |-> NoRow(0)]

IdleReconciler == [phase |-> "idle", todo |-> {}, expired |-> FALSE, current |-> Nobody, version |-> 0, claimed |-> {}]

IdleTask == [phase |-> "none", c |-> Nobody, id |-> 0, version |-> 0, enabled |-> FALSE, stamp |-> 0, text |-> 0]

Init ==
    /\ collection = [c \in Collections |->
                       [alive |-> TRUE, enabled |-> TRUE, description |-> Text("user", 0), stamp |-> 0]]
    /\ row \in [Collections -> {NoRow(0), NewRow(0)}]
    /\ lock = [c \in Collections |-> Nobody]
    /\ request = [q \in Requests |-> IdleRequest]
    /\ reconciler = [r \in Reconcilers |-> IdleReconciler]
    /\ task = [t \in Tasks |-> IdleTask]
    /\ sent = 0
    /\ faults = 0

\* A statement waits for the transaction that has written its row; it finds
\* nothing to wait for when its row is gone.
MayWrite(c, id) == lock[c] = Nobody \/ row[c].id # id

-----------------------------------------------------------------------------
(* Requests: update_collection, delete_collection and the trigger          *)

EndRequest(q) == request' = [request EXCEPT ![q] = IdleRequest]

OpenUpdate(q) ==
    \E c \in Collections, enable \in BOOLEAN :
        /\ request[q].phase = "idle" /\ sent < MaxRequests
        /\ collection[c].alive
        /\ sent' = sent + 1
        /\ request' = [request EXCEPT ![q] =
                         [IdleRequest EXCEPT !.phase = "update", !.c = c, !.n = sent + 1, !.enable = enable]]
        /\ UNCHANGED <<collection, row, lock, reconciler, task, faults>>

\* update_collection_by_id does not touch gmt_updated.
CommitUpdate(q) ==
    LET c == request[q].c IN
    /\ request[q].phase = "update"
    /\ collection[c].alive
    /\ collection' = [collection EXCEPT ![c] =
                        [@ EXCEPT !.description = Text("user", request[q].n), !.enabled = request[q].enable]]
    /\ request' = [request EXCEPT ![q].phase = "trigger"]
    /\ UNCHANGED <<row, lock, reconciler, task, sent, faults>>

UpdateRefused(q) ==
    /\ request[q].phase = "update"
    /\ ~collection[request[q].c].alive
    /\ EndRequest(q)
    /\ UNCHANGED <<collection, row, lock, reconciler, task, sent, faults>>

\* trigger_collection_summary_generation looks at the row ...
ReadSummary(q) ==
    LET rec == row[request[q].c] IN
    /\ request[q].phase = "trigger"
    /\ request' = [request EXCEPT ![q] =
                     IF \/ request[q].enable /\ rec.status = "GENERATING"
                        \/ ~request[q].enable /\ rec.status = "none"
                     THEN IdleRequest
                     ELSE [@ EXCEPT !.phase = "write", !.seen = rec]]
    /\ UNCHANGED <<collection, row, lock, reconciler, task, sent, faults>>

\* ... and writes what that calls for: the version only, not the status.
\* A row that was deleted or made by somebody else meanwhile is an error.
BumpVersion(q) ==
    LET c == request[q].c  seen == request[q].seen IN
    /\ request[q].phase = "write" /\ request[q].enable /\ seen.status # "none"
    /\ MayWrite(c, seen.id)
    /\ row' = IF row[c].status # "none" /\ row[c].id = seen.id
              THEN [row EXCEPT ![c].version = seen.version + 1] ELSE row
    /\ EndRequest(q)
    /\ UNCHANGED <<collection, lock, reconciler, task, sent, faults>>

InsertSummary(q) ==
    LET c == request[q].c IN
    /\ request[q].phase = "write" /\ request[q].enable /\ request[q].seen.status = "none"
    /\ lock[c] = Nobody
    /\ row' = IF row[c].status = "none" THEN [row EXCEPT ![c] = NewRow(row[c].id)] ELSE row
    /\ EndRequest(q)
    /\ UNCHANGED <<collection, lock, reconciler, task, sent, faults>>

DeleteSummary(q) ==
    LET c == request[q].c  seen == request[q].seen IN
    /\ request[q].phase = "write" /\ ~request[q].enable
    /\ MayWrite(c, seen.id)
    /\ row' = IF row[c].status # "none" /\ row[c].id = seen.id
              THEN [row EXCEPT ![c] = NoRow(seen.id + 1)] ELSE row
    /\ EndRequest(q)
    /\ UNCHANGED <<collection, lock, reconciler, task, sent, faults>>

\* delete_collection leaves the summary's row.
DeleteCollection(c) ==
    /\ sent < MaxRequests
    /\ collection[c].alive
    /\ collection' = [collection EXCEPT ![c].alive = FALSE]
    /\ sent' = sent + 1
    /\ UNCHANGED <<row, lock, request, reconciler, task, faults>>

-----------------------------------------------------------------------------
(* CollectionSummaryReconciler                                             *)

Fault == faults < MaxFaults /\ faults' = faults + 1

Needed == {c \in Collections : row[c].status = "PENDING" /\ row[c].version # row[c].observed}

Scan(r) ==
    /\ reconciler[r].phase = "idle"
    /\ Needed # {}
    /\ reconciler' = [reconciler EXCEPT ![r] =
                        [IdleReconciler EXCEPT !.phase = "next", !.todo = {<<c, row[c].id, row[c].version>> : c \in Needed}]]
    /\ UNCHANGED <<collection, row, lock, request, task, sent, faults>>

Unlock(r) == [c \in Collections |-> IF lock[c] = r THEN Nobody ELSE lock[c]]

PassingOver(r, s) == [reconciler[r] EXCEPT !.todo = @ \ {s}]

Claiming(r, s, v) ==
    [reconciler[r] EXCEPT !.phase = "publish", !.todo = @ \ {s}, !.current = s[1], !.version = v,
                          !.claimed = @ \cup {s[1]}]

\* Mutant: the status is not compared again in the UPDATE.
ClaimAnyStatus(r) ==
    \E s \in reconciler[r].todo :
    \E v \in IF reconciler[r].expired THEN {s[3], row[s[1]].version} ELSE {s[3]} :
        LET c == s[1] IN
        /\ reconciler[r].phase = "next"
        /\ MayWrite(c, s[2]) \/ lock[c] = r
        /\ IF row[c].status # "none" /\ row[c].id = s[2] /\ row[c].version = v
           THEN /\ lock' = [lock EXCEPT ![c] = r]
                /\ reconciler' = [reconciler EXCEPT ![r] = Claiming(r, s, v)]
           ELSE /\ reconciler' = [reconciler EXCEPT ![r] = PassingOver(r, s)]
                /\ UNCHANGED lock
        /\ UNCHANGED <<collection, row, request, task, sent, faults>>

\* The version is that of the scan, or read again: a commit of the session
\* expires the rows it holds.
Claim(r) ==
    \E s \in reconciler[r].todo :
    \E v \in IF reconciler[r].expired THEN {s[3], row[s[1]].version} ELSE {s[3]} :
        LET c == s[1] IN
        /\ reconciler[r].phase = "next"
        /\ MayWrite(c, s[2]) \/ lock[c] = r
        /\ IF row[c].status \notin {"none", "GENERATING"} /\ row[c].id = s[2] /\ row[c].version = v
           THEN /\ lock' = [lock EXCEPT ![c] = r]
                /\ reconciler' = [reconciler EXCEPT ![r] = Claiming(r, s, v)]
           ELSE /\ reconciler' = [reconciler EXCEPT ![r] = PassingOver(r, s)]
                /\ UNCHANGED lock
        /\ UNCHANGED <<collection, row, request, task, sent, faults>>

\* The task is sent while the claim is not committed.
Publish(r) ==
    LET c == reconciler[r].current IN
    \E t \in Tasks :
        /\ reconciler[r].phase = "publish"
        /\ task[t].phase = "none"
        /\ task' = [task EXCEPT ![t] =
                      [IdleTask EXCEPT !.phase = "sent", !.c = c, !.id = row[c].id, !.version = reconciler[r].version]]
        /\ reconciler' = [reconciler EXCEPT ![r].phase = "commit"]
        /\ UNCHANGED <<collection, row, lock, request, sent, faults>>

\* The exception is logged; the claim stays in the transaction and goes with
\* the next commit.
PublishFails(r) ==
    /\ reconciler[r].phase = "publish"
    /\ reconciler' = [reconciler EXCEPT ![r].phase = "next"]
    /\ Fault
    /\ UNCHANGED <<collection, row, lock, request, task, sent>>

CommitClaims(r) ==
    /\ reconciler[r].phase = "commit"
    /\ row' = [c \in Collections |->
                 IF c \in reconciler[r].claimed THEN [row[c] EXCEPT !.status = "GENERATING"] ELSE row[c]]
    /\ lock' = Unlock(r)
    /\ reconciler' = [reconciler EXCEPT ![r] = [@ EXCEPT !.phase = "next", !.claimed = {}, !.expired = TRUE]]
    /\ UNCHANGED <<collection, request, task, sent, faults>>

EndScan(r) ==
    /\ reconciler[r].phase = "next" /\ reconciler[r].todo = {}
    /\ reconciler' = [reconciler EXCEPT ![r] = IdleReconciler]
    /\ lock' = Unlock(r)
    /\ UNCHANGED <<collection, row, request, task, sent, faults>>

ReconcilerDies(r) ==
    /\ reconciler[r].phase # "idle"
    /\ reconciler' = [reconciler EXCEPT ![r] = IdleReconciler]
    /\ lock' = Unlock(r)
    /\ Fault
    /\ UNCHANGED <<collection, row, request, task, sent>>

-----------------------------------------------------------------------------
(* The task and its callbacks                                              *)

EndTask(t) == task' = [task EXCEPT ![t] = IdleTask]

Row(t) == row[task[t].c]

\* Whether the callbacks find the row as the task left it.
Expected(t) ==
    /\ Row(t).id = task[t].id
    /\ Row(t).status = "GENERATING"
    /\ Row(t).version = task[t].version

\* The map and reduce of the documents' summaries: a text, an empty one when
\* no document has a summary, or an exception.
Generated(t) ==
    {[task[t] EXCEPT !.phase = "failing"]}
    \cup {[task[t] EXCEPT !.phase = "report", !.text = text] : text \in {0, task[t].version}}

\* generate_collection_summary_task: a missing collection and a row that is
\* not as expected are failures.
GenerateSummary(t) ==
    LET gone == Row(t).status = "none" \/ Row(t).id # task[t].id
        outcomes == IF collection[task[t].c].alive /\ gone THEN {IdleTask}
                    ELSE IF collection[task[t].c].alive /\ Expected(t) THEN Generated(t)
                    ELSE {[task[t] EXCEPT !.phase = "failing"]} IN
    /\ task[t].phase = "sent"
    /\ \E outcome \in outcomes : task' = [task EXCEPT ![t] = outcome]
    /\ UNCHANGED <<collection, row, lock, request, reconciler, sent, faults>>

\* on_summary_generated reads the row and the collection ...
ReadForSummary(t) ==
    LET col == collection[task[t].c] IN
    /\ task[t].phase = "report"
    /\ task' = [task EXCEPT ![t] =
                  IF Expected(t) /\ col.alive
                  THEN [@ EXCEPT !.phase = "store", !.enabled = col.enabled, !.stamp = col.stamp]
                  ELSE IdleTask]
    /\ UNCHANGED <<collection, row, lock, request, reconciler, sent, faults>>

MayDescribe(t) ==
    LET col == collection[task[t].c] IN
    task[t].enabled /\ task[t].text # 0 /\ col.stamp = task[t].stamp /\ col.alive

Describe(t) ==
    LET col == collection[task[t].c] IN
    collection' = [collection EXCEPT ![task[t].c] =
                     [col EXCEPT !.description = Text("summary", task[t].text), !.stamp = @ + 1]]

\* Mutant: the number of rows written is not looked at.
StoreAnyway(t) ==
    LET c == task[t].c IN
    /\ task[t].phase = "store"
    /\ MayWrite(c, task[t].id)
    /\ row' = IF Expected(t)
              THEN [row EXCEPT ![c] = [@ EXCEPT !.status = "COMPLETE", !.summary = task[t].text, !.observed = task[t].version]]
              ELSE row
    /\ IF MayDescribe(t) THEN Describe(t) ELSE UNCHANGED collection
    /\ EndTask(t)
    /\ UNCHANGED <<lock, request, reconciler, sent, faults>>

\* ... and writes both in one transaction, each under a guard of its own.
StoreSummary(t) ==
    LET c == task[t].c IN
    /\ task[t].phase = "store"
    /\ MayWrite(c, task[t].id)
    /\ IF Expected(t)
       THEN /\ row' = [row EXCEPT ![c] =
                         [@ EXCEPT !.status = "COMPLETE", !.summary = task[t].text, !.observed = task[t].version]]
            /\ IF MayDescribe(t) THEN Describe(t) ELSE UNCHANGED collection
       ELSE UNCHANGED <<row, collection>>
    /\ EndTask(t)
    /\ UNCHANGED <<lock, request, reconciler, sent, faults>>

\* Mutant: the failure is written with a status the column does not have.
FailSummaryUnknown(t) ==
    /\ task[t].phase = "failing"
    /\ MayWrite(task[t].c, task[t].id)
    /\ row' = IF Expected(t) THEN [row EXCEPT ![task[t].c].status = "ERROR"] ELSE row
    /\ EndTask(t)
    /\ UNCHANGED <<collection, lock, request, reconciler, sent, faults>>

\* on_summary_failed
FailSummary(t) ==
    /\ task[t].phase = "failing"
    /\ MayWrite(task[t].c, task[t].id)
    /\ row' = IF Expected(t) THEN [row EXCEPT ![task[t].c].status = "FAILED"] ELSE row
    /\ EndTask(t)
    /\ UNCHANGED <<collection, lock, request, reconciler, sent, faults>>

\* A worker dies, or the broker takes it for dead: the message comes again.
Redeliver(t) ==
    /\ task[t].phase \notin {"none", "sent"}
    /\ \/ task' = [task EXCEPT ![t].phase = "sent"]
       \/ \E u \in Tasks : task[u].phase = "none" /\ task' = [task EXCEPT ![u] = [task[t] EXCEPT !.phase = "sent"]]
    /\ Fault
    /\ UNCHANGED <<collection, row, lock, request, reconciler, sent>>

-----------------------------------------------------------------------------
RequestStep(q) ==
    CommitUpdate(q) \/ UpdateRefused(q) \/ ReadSummary(q) \/ BumpVersion(q) \/ InsertSummary(q) \/ DeleteSummary(q)

ReconcilerStep(r) == Claim(r) \/ Publish(r) \/ CommitClaims(r) \/ EndScan(r)

TaskStep(t) == GenerateSummary(t) \/ ReadForSummary(t) \/ StoreSummary(t) \/ FailSummary(t)

Next ==
    \/ \E q \in Requests : OpenUpdate(q) \/ RequestStep(q)
    \/ \E c \in Collections : DeleteCollection(c)
    \/ \E r \in Reconcilers : Scan(r) \/ ReconcilerStep(r) \/ PublishFails(r) \/ ReconcilerDies(r)
    \/ \E t \in Tasks : TaskStep(t) \/ Redeliver(t)

Spec == Init /\ [][Next]_vars

\* The beat starts a reconciler every minute and the workers work.
FairSpec ==
    /\ Spec
    /\ \A q \in Requests : WF_vars(RequestStep(q))
    /\ \A r \in Reconcilers : WF_vars(Scan(r) \/ ReconcilerStep(r))
    /\ \A t \in Tasks : WF_vars(TaskStep(t))

-----------------------------------------------------------------------------
(* Properties                                                              *)

TypeOK ==
    /\ collection \in [Collections -> [alive : BOOLEAN, enabled : BOOLEAN, stamp : Nat,
                                       description : [by : {"user", "summary"}, n : Nat]]]
    /\ row \in [Collections -> [status : Status, id : Nat, version : Nat, observed : Nat, summary : Nat]]
    /\ lock \in [Collections -> Reconcilers \cup {Nobody}]
    /\ \A q \in Requests : request[q].phase \in {"idle", "update", "trigger", "write"}
    /\ \A r \in Reconcilers : reconciler[r].phase \in {"idle", "next", "publish", "commit"}
    /\ \A t \in Tasks : task[t].phase \in {"none", "sent", "report", "store", "failing"}

\* A description is generated only together with the summary it is a copy of,
\* and only for a collection that is there: a task that was delivered twice,
\* outlived its row or its collection leaves the description alone
\* (on_summary_generated).
DescribesTheSummary ==
    [][\A c \in Collections :
         collection'[c].description # collection[c].description /\ collection'[c].description.by = "summary" =>
            /\ collection[c].alive
            /\ row[c].status = "GENERATING" /\ row'[c].status = "COMPLETE"
            /\ row'[c].observed = row'[c].version
            /\ row'[c].summary = collection'[c].description.n]_vars

\* A claim that is held is nobody else's: until it is committed the row keeps
\* its reconciler's lock and is there, generated by nobody
\* (_claim_summary_for_processing).
ClaimsHold ==
    \A r \in Reconcilers : \A c \in reconciler[r].claimed :
        /\ lock[c] = r
        /\ row[c].status \notin {"none", "GENERATING"}
        /\ \A s \in Reconcilers : c \in reconciler[s].claimed => s = r

\* A summary that waits is claimed, whichever requests, crashes and failed
\* publishes come between, unless it is deleted.
PendingIsClaimed ==
    \A c \in Collections : row[c].status = "PENDING" ~> row[c].status # "PENDING"

\* A request for a summary of a collection that has one is followed by its
\* generation: "update its version to trigger reconciliation".
RequestedIsGenerated ==
    \A c \in Collections :
        (row[c].status = "COMPLETE" /\ row[c].version # row[c].observed)
            ~> (row[c].status = "none" \/ row[c].version = row[c].observed)
===============================================================================
