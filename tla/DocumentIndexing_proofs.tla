----------------------- MODULE DocumentIndexing_proofs -----------------------
(***************************************************************************)
(* Theorems about DocumentIndexing, for every value of its constants: any  *)
(* number of index types, reconcilers, workers and API requests, and any   *)
(* bounds.                                                                 *)
(***************************************************************************)
EXTENDS DocumentIndexing, TLAPS

-----------------------------------------------------------------------------
(* Type correctness.  Two facts strengthen it: what a reconciler has still *)
(* to publish is a batch of its claims, and a busy worker has a message.   *)

Shape ==
    /\ \A r \in Reconcilers : rec[r].unsent \subseteq {c.action : c \in rec[r].claimed}
    /\ \A w \in Workers : worker[w].phase # "idle" => worker[w].msg \in Message

TypeInv == TypeOK /\ Shape

\* What a request writes into a row is a row (create_or_update_document_indexes
\* and delete_document_indexes).
LEMMA RequestWritesRow ==
    ASSUME NEW loaded \in Row, NEW now \in Row
    PROVE  Requested(loaded, now) \in Row /\ Doomed(loaded, now) \in Row
<1>1. CASE loaded.status = "ABSENT"
  BY <1>1 DEF Requested, Doomed, NewRow, Row, IndexStatus
<1>2. CASE loaded.status # "ABSENT"
  <2>1. loaded.version + 1 \in Nat
    BY DEF Row
  <2>2. Requested(loaded, now) \in Row
    BY <1>2, <2>1 DEF Requested, Row, IndexStatus
  <2>3. Doomed(loaded, now) \in Row
    BY DEF Doomed, Row, IndexStatus
  <2>4. QED
    BY <2>2, <2>3
<1>3. QED
  BY <1>1, <1>2

\* A batch of claims makes a well-formed message (the workflow entry points).
LEMMA WorkflowType ==
    ASSUME NEW claims \in SUBSET Claim, NEW a \in Actions, \E c \in claims : c.action = a
    PROVE  Workflow(claims, a) \in Message
<1> DEFINE batch == {c \in claims : c.action = a}
           types == {c.type : c \in batch}
           target == [t \in IndexTypes |->
                        IF t \in types THEN (CHOOSE c \in batch : c.type = t).target ELSE 0]
<1>1. types \in (SUBSET IndexTypes) \ {{}}
  BY DEF Claim
<1>2. \A t \in types : (CHOOSE c \in batch : c.type = t) \in batch
  OBVIOUS
<1>3. target \in [IndexTypes -> Nat]
  BY <1>2 DEF Claim
<1>4. QED
  BY <1>1, <1>3 DEF Workflow, Message, Actions

\* The first step of every behaviour: the initial states are typed.
LEMMA InitType == Init => TypeInv
  BY InitAssumption, BoundsAssumption
  DEF Init, TypeInv, TypeOK, Shape, Row, NewRow, Absent, DocStatus, IndexStatus, Holders,
      ReconcilerState, WorkerState, SessionState, IdleReconciler, IdleWorker, IdleSession, NoMessage

\* API requests keep the types.
LEMMA RequestType ==
    ASSUME TypeInv, NEW s \in Sessions, RequestStep(s)
    PROVE  TypeInv'
<1> USE DEF TypeInv, TypeOK, Shape
<1>1. CASE OpenRequest(s)
  <2>1. PICK op \in Ops : \E types \in RequestTypes(op) :
          api' = [api EXCEPT ![s] = [IdleSession EXCEPT !.phase = "open", !.op = op, !.types = types]]
    BY <1>1 DEF OpenRequest
  <2>2. PICK types \in RequestTypes(op) :
          api' = [api EXCEPT ![s] = [IdleSession EXCEPT !.phase = "open", !.op = op, !.types = types]]
    BY <2>1
  <2>3. types \in SUBSET IndexTypes
    BY TypesAssumption DEF RequestTypes, FailedTypes
  <2>4. [IdleSession EXCEPT !.phase = "open", !.op = op, !.types = types] \in SessionState
    BY <2>3, OpsAssumption DEF IdleSession, SessionState, Absent, Row
  <2>5. api' \in [Sessions -> SessionState]
    BY <2>2, <2>4
  <2>6. requests' \in 0..MaxRequests
    BY <1>1, BoundsAssumption DEF OpenRequest
  <2>7. QED
    BY <1>1, <2>5, <2>6 DEF OpenRequest
<1>2. CASE LoadRows(s)
  <2>1. api' \in [Sessions -> SessionState]
    <3>1. [t \in IndexTypes |-> IF t \in api[s].types THEN row[t] ELSE Absent(0)] \in [IndexTypes -> Row]
      BY DEF Absent, Row
    <3>2. [api[s] EXCEPT !.phase = "loaded",
             !.loaded = [t \in IndexTypes |-> IF t \in api[s].types THEN row[t] ELSE Absent(0)]] \in SessionState
      BY <3>1 DEF SessionState
    <3>3. QED
      BY <1>2, <3>2 DEF LoadRows
  <2>2. QED
    BY <1>2, <2>1 DEF LoadRows
<1>3. IdleSession \in SessionState
  BY DEF IdleSession, SessionState, Absent, Row
<1>4. CASE CommitRequest(s)
  <2>1. row' \in [IndexTypes -> Row]
    <3>1. \A t \in IndexTypes : api[s].loaded[t] \in Row /\ row[t] \in Row
      BY DEF SessionState
    <3>2. QED
      BY <1>4, <3>1, RequestWritesRow DEF CommitRequest
  <2>2. doc' \in DocStatus
    BY <1>4 DEF CommitRequest, DocStatus
  <2>3. credit' \in [IndexTypes -> Int]
    BY <1>4 DEF CommitRequest
  <2>4. api' \in [Sessions -> SessionState]
    BY <1>3, <1>4 DEF CommitRequest
  <2>5. QED
    BY <1>4, <2>1, <2>2, <2>3, <2>4 DEF CommitRequest
<1>5. CASE CommitExpiry(s)
  BY <1>3, <1>5 DEF CommitExpiry, DocStatus
<1>6. CASE RollbackRequest(s)
  BY <1>3, <1>6 DEF RollbackRequest
<1>7. QED
  BY <1>1, <1>2, <1>4, <1>5, <1>6 DEF RequestStep

\* Reconcilers keep the types.
LEMMA ReconcilerType ==
    ASSUME TypeInv, NEW r \in Reconcilers, Scan(r) \/ ReconcilerStep(r) \/ AbortClaim(r)
    PROVE  TypeInv'
<1> USE DEF TypeInv, TypeOK, Shape
<1>0. IdleReconciler \in ReconcilerState /\ IdleReconciler.unsent = {}
  BY DEF IdleReconciler, ReconcilerState
<1>1. CASE Scan(r)
  <2>1. ScanEntries \in SUBSET Entry
    BY DEF ScanEntries, Entry, Row
  <2>2. [IdleReconciler EXCEPT !.phase = "claim", !.todo = ScanEntries] \in ReconcilerState
    BY <2>1 DEF IdleReconciler, ReconcilerState
  <2>3. QED
    BY <1>1, <2>2 DEF Scan, IdleReconciler
<1>2. CASE SelectCurrent(r)
  <2>1. PICK e \in rec[r].todo :
         rec' = [rec EXCEPT ![r] = [rec[r] EXCEPT
                   !.todo = rec[r].todo \ {e},
                   !.current = IF Exists(e.type) /\ row[e.type].id = e.id
                               THEN {[entry |-> e, version |-> row[e.type].version]}
                               ELSE {}]]
    BY <1>2 DEF SelectCurrent
  <2> DEFINE current == IF Exists(e.type) /\ row[e.type].id = e.id
                        THEN {[entry |-> e, version |-> row[e.type].version]}
                        ELSE {}
  <2>2. e \in Entry /\ row[e.type].version \in Nat
    BY DEF ReconcilerState, Entry, Row
  <2>3. current \in SUBSET [entry : Entry, version : Nat]
    BY <2>2
  <2> HIDE DEF current
  <2>4. [rec[r] EXCEPT !.todo = rec[r].todo \ {e}, !.current = current] \in ReconcilerState
    BY <2>3 DEF ReconcilerState
  <2>5. QED
    BY <1>2, <2>1, <2>4 DEF SelectCurrent, current
<1>3. CASE GuardedUpdate(r)
  <2>1. PICK c \in rec[r].current :
          LET claim == [type |-> c.entry.type, action |-> c.entry.action,
                        target |-> IF c.entry.action = "DELETE" THEN 0 ELSE c.version]
          IN /\ rec' = [rec EXCEPT ![r] = [rec[r] EXCEPT
                          !.current = {},
                          !.claimed = IF ClaimWins(c.entry) THEN rec[r].claimed \cup {claim} ELSE rec[r].claimed]]
             /\ lock' = IF ClaimWins(c.entry) THEN [lock EXCEPT ![c.entry.type] = r] ELSE lock
             /\ UNCHANGED <<row, doc, worker, api, queue, credit, requests, faults>>
    BY <1>3 DEF GuardedUpdate
  <2> DEFINE claim == [type |-> c.entry.type, action |-> c.entry.action,
                       target |-> IF c.entry.action = "DELETE" THEN 0 ELSE c.version]
             claims == IF ClaimWins(c.entry) THEN rec[r].claimed \cup {claim} ELSE rec[r].claimed
  <2>2. claim \in Claim
    BY DEF ReconcilerState, Entry, Claim
  <2>3. claims \in SUBSET Claim /\ rec[r].claimed \subseteq claims
    BY <2>2 DEF ReconcilerState
  <2> HIDE DEF claim, claims
  <2>4. [rec[r] EXCEPT !.current = {}, !.claimed = claims] \in ReconcilerState
    BY <2>3 DEF ReconcilerState
  <2>5. rec' = [rec EXCEPT ![r] = [rec[r] EXCEPT !.current = {}, !.claimed = claims]]
    BY <2>1 DEF claims, claim
  <2>6. rec'[r].unsent \subseteq {d.action : d \in rec'[r].claimed}
    BY <2>3, <2>4, <2>5 DEF ReconcilerState
  <2>7. lock' \in [IndexTypes -> Holders \cup {NoOne}]
    BY <2>1 DEF Holders
  <2>8. QED
    BY <2>1, <2>4, <2>5, <2>6, <2>7
<1>4. CASE EndClaiming(r)
  <2> DEFINE unsent == {c.action : c \in rec[r].claimed}
  <2>1. unsent \in SUBSET Actions
    BY DEF ReconcilerState, Claim
  <2> HIDE DEF unsent
  <2>2. [rec[r] EXCEPT !.phase = "publish", !.unsent = unsent] \in ReconcilerState
    BY <2>1 DEF ReconcilerState
  <2>3. rec' = [rec EXCEPT ![r] = IF rec[r].claimed = {} THEN IdleReconciler
                                  ELSE [rec[r] EXCEPT !.phase = "publish", !.unsent = unsent]]
    BY <1>4 DEF EndClaiming, unsent
  <2>4. rec'[r].unsent \subseteq {c.action : c \in rec'[r].claimed}
    BY <1>0, <2>2, <2>3 DEF ReconcilerState, unsent
  <2>5. QED
    BY <1>0, <1>4, <2>2, <2>3, <2>4 DEF EndClaiming
<1>5. CASE Publish(r)
  <2>1. PICK a \in rec[r].unsent :
          /\ queue' = queue \cup {Workflow(rec[r].claimed, a)}
          /\ rec' = [rec EXCEPT ![r] = [rec[r] EXCEPT !.unsent = rec[r].unsent \ {a}]]
    BY <1>5 DEF Publish
  <2>2. Workflow(rec[r].claimed, a) \in Message
    BY WorkflowType DEF ReconcilerState
  <2>3. [rec[r] EXCEPT !.unsent = rec[r].unsent \ {a}] \in ReconcilerState
    BY DEF ReconcilerState
  <2>4. rec'[r].unsent \subseteq {c.action : c \in rec'[r].claimed}
    BY <2>1, <2>3 DEF ReconcilerState
  <2>5. QED
    BY <1>5, <2>1, <2>2, <2>3, <2>4 DEF Publish
<1>6. Release(r) \in [IndexTypes -> Holders \cup {NoOne}]
  BY DEF Release
<1>7. CASE CommitClaim(r)
  <2>1. row' \in [IndexTypes -> Row]
    BY <1>7 DEF CommitClaim, Row, IndexStatus
  <2>2. credit' \in [IndexTypes -> Int]
    BY <1>7 DEF CommitClaim
  <2>3. QED
    BY <1>0, <1>6, <1>7, <2>1, <2>2 DEF CommitClaim
<1>8. CASE AbortClaim(r)
  BY <1>0, <1>6, <1>8, BoundsAssumption DEF AbortClaim, Fault
<1>9. QED
  BY <1>1, <1>2, <1>3, <1>4, <1>5, <1>7, <1>8 DEF ReconcilerStep

\* Ending a task, and retrying it or giving it up, keep the types
\* (BaseIndexTask, autoretry_for).
LEMMA FinishType ==
    ASSUME TypeInv, NEW w \in Workers, NEW sent \in SUBSET Message, Finish(w, sent)
    PROVE  /\ queue' \subseteq Message
           /\ worker' \in [Workers -> WorkerState]
           /\ \A v \in Workers : worker'[v].phase # "idle" => worker'[v].msg \in Message
<1>1. IdleWorker \in WorkerState /\ IdleWorker.phase = "idle"
  BY DEF IdleWorker, WorkerState, Row, Absent
<1>2. QED
  BY <1>1 DEF Finish, TypeInv, TypeOK, Shape

\* A worker that moves on with its message keeps the types.
LEMMA AdvanceType ==
    ASSUME TypeInv, NEW w \in Workers, NEW state \in WorkerState,
           worker' = [worker EXCEPT ![w] = state], state.msg \in Message, UNCHANGED queue
    PROVE  /\ queue' \subseteq Message
           /\ worker' \in [Workers -> WorkerState]
           /\ \A v \in Workers : worker'[v].phase # "idle" => worker'[v].msg \in Message
  BY DEF TypeInv, TypeOK, Shape

LEMMA TaskFailsType ==
    ASSUME TypeInv, NEW w \in Workers, worker[w].phase # "idle", TaskFails(w)
    PROVE  /\ queue' \subseteq Message
           /\ worker' \in [Workers -> WorkerState]
           /\ \A v \in Workers : worker'[v].phase # "idle" => worker'[v].msg \in Message
<1>1. worker[w] \in WorkerState /\ worker[w].msg \in Message
  BY DEF TypeInv, TypeOK, Shape
<1>2. CASE worker[w].msg.tries < MaxRetries
  <2>1. Retry(worker[w].msg) \in Message
    BY <1>1 DEF Retry, Message
  <2>2. QED
    BY <1>2, <2>1, FinishType DEF TaskFails
<1>3. CASE ~(worker[w].msg.tries < MaxRetries)
  <2> DEFINE state == [worker[w] EXCEPT !.phase = "failed", !.todo = worker[w].msg.types]
  <2>1. state \in WorkerState /\ state.msg \in Message
    BY <1>1 DEF WorkerState, Message
  <2>2. worker' = [worker EXCEPT ![w] = state] /\ UNCHANGED queue
    BY <1>3 DEF TaskFails
  <2> HIDE DEF state
  <2>3. QED
    BY <2>1, <2>2, AdvanceType
<1>4. QED
  BY <1>2, <1>3

\* The status a callback writes into the document is one (_update_document_status).
LEMMA DocWriteType ==
    ASSUME NEW t \in IndexTypes, NEW new \in Row
    PROVE  DocWrite(t, new) \in DocStatus \cup {"keep"}
<1>1. OverallStatus([row EXCEPT ![t] = new]) \in DocStatus
  BY DEF OverallStatus, DocStatus
<1>2. QED
  BY <1>1 DEF DocWrite

LEMMA OpenCallbackType ==
    ASSUME TypeInv, NEW w \in Workers, NEW t \in IndexTypes, NEW new \in Row,
           worker[w].phase # "idle", OpenCallback(w, t, new)
    PROVE  /\ queue' \subseteq Message
           /\ worker' \in [Workers -> WorkerState]
           /\ \A v \in Workers : worker'[v].phase # "idle" => worker'[v].msg \in Message
           /\ lock' \in [IndexTypes -> Holders \cup {NoOne}]
<1> DEFINE written == DocWrite(t, new)
           state == [worker[w] EXCEPT !.phase = "committing", !.type = t, !.todo = worker[w].todo \ {t},
                                      !.write = new, !.docWrite = written]
<1>1. worker[w] \in WorkerState /\ worker[w].msg \in Message
  BY DEF TypeInv, TypeOK, Shape
<1>2. written \in DocStatus \cup {"keep"}
  BY DocWriteType
<1>3. worker' = [worker EXCEPT ![w] = state] /\ UNCHANGED queue /\ lock' = [lock EXCEPT ![t] = w]
  BY DEF OpenCallback
<1> HIDE DEF written
<1>4. state \in WorkerState /\ state.msg \in Message
  BY <1>1, <1>2 DEF WorkerState
<1> HIDE DEF state
<1>5. lock' \in [IndexTypes -> Holders \cup {NoOne}]
  BY <1>3 DEF TypeInv, TypeOK, Holders
<1>6. QED
  BY <1>3, <1>4, <1>5, AdvanceType

\* The type of an index task's message, and a message for one of its types.
LEMMA MessageType ==
    ASSUME NEW m \in Message
    PROVE  /\ TypeOf(m) \in m.types /\ TypeOf(m) \in IndexTypes /\ m.target[TypeOf(m)] \in Nat
           /\ [m EXCEPT !.kind = "trigger", !.tries = 0] \in Message
           /\ \A t \in m.types :
                [m EXCEPT !.kind = "index", !.types = {t},
                          !.target = [u \in IndexTypes |-> IF u = t THEN @[t] ELSE 0]] \in Message
<1>1. TypeOf(m) \in m.types /\ TypeOf(m) \in IndexTypes
  BY DEF TypeOf, Message
<1>2. ASSUME NEW t \in m.types
      PROVE  [m EXCEPT !.kind = "index", !.types = {t},
                       !.target = [u \in IndexTypes |-> IF u = t THEN @[t] ELSE 0]] \in Message
  <2>1. [u \in IndexTypes |-> IF u = t THEN m.target[t] ELSE 0] \in [IndexTypes -> Nat]
    BY DEF Message
  <2>2. {t} \in (SUBSET IndexTypes) \ {{}}
    BY DEF Message
  <2>3. QED
    BY <2>1, <2>2 DEF Message
<1>3. QED
  BY <1>1, <1>2 DEF Message

\* Workers keep the types.
LEMMA WorkerType ==
    ASSUME TypeInv, NEW w \in Workers,
           WorkerStep(w) \/ Redeliver(w) \/ CallbackRaises(w) \/ WorkerDies(w)
    PROVE  TypeInv'
<1> DEFINE Busy == \A v \in Workers : worker'[v].phase # "idle" => worker'[v].msg \in Message
           Kept == queue' \subseteq Message /\ worker' \in [Workers -> WorkerState] /\ Busy
<1>a. worker[w] \in WorkerState /\ (worker[w].phase # "idle" => worker[w].msg \in Message)
  BY DEF TypeInv, TypeOK, Shape
<1>b. ASSUME Kept, UNCHANGED <<row, doc, rec, api, credit, requests>>,
             lock' \in [IndexTypes -> Holders \cup {NoOne}], faults' \in 0..MaxFaults
      PROVE  TypeInv'
  BY <1>b DEF TypeInv, TypeOK, Shape
<1>c. lock \in [IndexTypes -> Holders \cup {NoOne}] /\ faults \in 0..MaxFaults
  BY DEF TypeInv, TypeOK
<1>d. Release(w) \in [IndexTypes -> Holders \cup {NoOne}]
  BY <1>c DEF Release
<1>e. Fault => faults' \in 0..MaxFaults
  BY <1>c, BoundsAssumption DEF Fault
<1>f. {} \in SUBSET Message
  OBVIOUS
<1>1. CASE Receive(w) \/ Redeliver(w)
  <2>1. PICK m \in queue : worker' = [worker EXCEPT ![w] = [worker[w] EXCEPT !.phase = "started", !.msg = m]]
    BY <1>1 DEF Receive, Redeliver
  <2> DEFINE state == [worker[w] EXCEPT !.phase = "started", !.msg = m]
  <2>2. m \in Message
    BY DEF TypeInv, TypeOK
  <2>3. state \in WorkerState /\ state.msg \in Message
    BY <1>a, <2>2 DEF WorkerState
  <2> HIDE DEF state
  <2>4. worker' = [worker EXCEPT ![w] = state]
    BY <2>1 DEF state
  <2>5. UNCHANGED queue
    BY <1>1 DEF Receive, Redeliver
  <2>6. Kept
    BY <2>3, <2>4, <2>5, AdvanceType
  <2> HIDE DEF Kept
  <2>7. QED
    BY <1>1, <1>b, <1>c, <1>e, <2>6 DEF Receive, Redeliver
<1>2. CASE ParseDocument(w)
  <2>1. Kept
    <3>1. [worker[w].msg EXCEPT !.kind = "trigger", !.tries = 0] \in Message
      BY <1>2, <1>a, MessageType DEF ParseDocument
    <3>2. QED
      BY <1>2, <3>1, FinishType, TaskFailsType DEF ParseDocument
  <2> HIDE DEF Kept
  <2>2. QED
    BY <1>2, <1>b, <1>c, <2>1 DEF ParseDocument
<1>3. CASE TriggerIndexTasks(w)
  <2> DEFINE m == worker[w].msg
             sent == {[m EXCEPT !.kind = "index", !.types = {t},
                            !.target = [u \in IndexTypes |-> IF u = t THEN @[t] ELSE 0]] : t \in m.types}
  <2>1. sent \in SUBSET Message
    BY <1>3, <1>a, MessageType DEF TriggerIndexTasks
  <2>2. Finish(w, sent)
    BY <1>3 DEF TriggerIndexTasks
  <2> HIDE DEF sent
  <2>3. Kept
    BY <2>1, <2>2, FinishType
  <2> HIDE DEF Kept
  <2>4. QED
    BY <1>3, <1>b, <1>c, <2>3 DEF TriggerIndexTasks
<1>4. CASE ValidateTask(w) \/ CheckDocument(w)
  <2> DEFINE state(p) == [worker[w] EXCEPT !.phase = p]
  <2>1. \A p \in {"relevant", "validated"} : state(p) \in WorkerState /\ state(p).msg \in Message
    BY <1>4, <1>a DEF ValidateTask, CheckDocument, WorkerState
  <2>2. \/ \E p \in {"relevant", "validated"} : worker' = [worker EXCEPT ![w] = state(p)] /\ UNCHANGED queue
        \/ Finish(w, {})
    BY <1>4 DEF ValidateTask, CheckDocument
  <2> HIDE DEF state
  <2>3. Kept
    BY <1>f, <2>1, <2>2, AdvanceType, FinishType
  <2> HIDE DEF Kept
  <2>4. QED
    BY <1>4, <1>b, <1>c, <2>3 DEF ValidateTask, CheckDocument
<1>5. CASE LoadDocument(w)
  <2> DEFINE state == [worker[w] EXCEPT !.phase = "working"]
  <2>1. state \in WorkerState /\ state.msg \in Message
    BY <1>5, <1>a DEF LoadDocument, WorkerState
  <2>2. (worker' = [worker EXCEPT ![w] = state] /\ UNCHANGED queue) \/ TaskFails(w)
    BY <1>5 DEF LoadDocument
  <2>3. worker[w].phase # "idle"
    BY <1>5 DEF LoadDocument
  <2> HIDE DEF state
  <2>4. Kept
    BY <2>1, <2>2, <2>3, AdvanceType, TaskFailsType
  <2> HIDE DEF Kept
  <2>5. QED
    BY <1>5, <1>b, <1>c, <2>4 DEF LoadDocument
<1>6. CASE RunIndexer(w)
  <2> DEFINE state == [worker[w] EXCEPT !.phase = "succeeded"]
  <2>1. state \in WorkerState /\ state.msg \in Message
    BY <1>6, <1>a DEF RunIndexer, WorkerState
  <2>2. (worker' = [worker EXCEPT ![w] = state] /\ UNCHANGED queue) \/ TaskFails(w)
    BY <1>6 DEF RunIndexer
  <2>3. worker[w].phase # "idle"
    BY <1>6 DEF RunIndexer
  <2> HIDE DEF state
  <2>4. Kept
    BY <2>1, <2>2, <2>3, AdvanceType, TaskFailsType
  <2> HIDE DEF Kept
  <2>5. QED
    BY <1>6, <1>b, <1>c, <2>4 DEF RunIndexer
<1>7. CASE ReportSuccess(w)
  <2> DEFINE m == worker[w].msg
             t == TypeOf(m)
             built == [row[t] EXCEPT !.status = "ACTIVE", !.observed = m.target[t]]
             gone == Absent(row[t].id)
  <2>1. m \in Message /\ t \in IndexTypes /\ m.target[t] \in Nat /\ worker[w].phase # "idle"
    BY <1>7, <1>a, MessageType DEF ReportSuccess
  <2>2. built \in Row /\ gone \in Row
    <3>1. row[t] \in Row
      BY <2>1 DEF TypeInv, TypeOK
    <3> HIDE DEF m, t
    <3>2. QED
      BY <2>1, <3>1 DEF Row, IndexStatus, Absent
  <2>3. OpenCallback(w, t, built) \/ OpenCallback(w, t, gone) \/ (Finish(w, {}) /\ UNCHANGED lock)
    BY <1>7 DEF ReportSuccess
  <2> HIDE DEF m, t, built, gone
  <2>4. Kept /\ lock' \in [IndexTypes -> Holders \cup {NoOne}]
    BY <1>c, <1>f, <2>1, <2>2, <2>3, OpenCallbackType, FinishType
  <2> HIDE DEF Kept
  <2>5. QED
    BY <1>7, <1>b, <1>c, <2>4 DEF ReportSuccess
<1>8. CASE ReportFailure(w)
  <2>1. PICK t \in worker[w].todo :
         IF row[t].status \in InProgress
         THEN OpenCallback(w, t, [row[t] EXCEPT !.status = "FAILED"])
         ELSE /\ worker' = [worker EXCEPT ![w] = [worker[w] EXCEPT !.todo = worker[w].todo \ {t}]]
              /\ UNCHANGED <<queue, lock>>
    BY <1>8 DEF ReportFailure
  <2> DEFINE failed == [row[t] EXCEPT !.status = "FAILED"]
             state == [worker[w] EXCEPT !.todo = worker[w].todo \ {t}]
  <2>2. t \in IndexTypes /\ worker[w].phase # "idle"
    BY <1>8, <1>a DEF ReportFailure, WorkerState
  <2>3. failed \in Row
    BY <2>2 DEF TypeInv, TypeOK, Row, IndexStatus
  <2>4. state \in WorkerState /\ state.msg \in Message
    BY <1>a, <2>2 DEF WorkerState
  <2>5. OpenCallback(w, t, failed) \/ (worker' = [worker EXCEPT ![w] = state] /\ UNCHANGED <<queue, lock>>)
    BY <2>1
  <2> HIDE DEF failed, state
  <2>6. Kept /\ lock' \in [IndexTypes -> Holders \cup {NoOne}]
    BY <1>c, <2>2, <2>3, <2>4, <2>5, OpenCallbackType, AdvanceType
  <2> HIDE DEF Kept
  <2>7. QED
    BY <1>8, <1>b, <1>c, <2>6 DEF ReportFailure
<1>9. CASE EndFailure(w)
  <2>1. Kept
    BY <1>9, <1>f, FinishType DEF EndFailure
  <2> HIDE DEF Kept
  <2>2. QED
    BY <1>9, <1>b, <1>c, <2>1 DEF EndFailure
<1>10. CASE CommitCallback(w)
  <2> DEFINE state == [IdleWorker EXCEPT !.phase = "failed", !.msg = worker[w].msg, !.todo = worker[w].todo]
  <2>1. state \in WorkerState /\ state.msg \in Message
    BY <1>10, <1>a DEF CommitCallback, IdleWorker, WorkerState, Absent, Row
  <2>2. (worker' = [worker EXCEPT ![w] = state] /\ UNCHANGED queue) \/ Finish(w, {})
    BY <1>10 DEF CommitCallback, AfterCallback
  <2> HIDE DEF state
  <2>3. Kept
    BY <1>f, <2>1, <2>2, AdvanceType, FinishType
  <2>4. row' \in [IndexTypes -> Row] /\ doc' \in DocStatus
    BY <1>10, <1>a DEF CommitCallback, WorkerState, TypeInv, TypeOK
  <2>5. QED
    BY <1>10, <1>d, <2>3, <2>4 DEF CommitCallback, TypeInv, TypeOK, Shape
<1>11. CASE CallbackRaises(w)
  <2>1. Kept
    BY <1>11, <1>f, FinishType DEF CallbackRaises
  <2> HIDE DEF Kept
  <2>2. QED
    BY <1>11, <1>b, <1>d, <1>e, <2>1 DEF CallbackRaises
<1>12. CASE WorkerDies(w)
  <2>1. IdleWorker \in WorkerState /\ IdleWorker.phase = "idle"
    BY DEF IdleWorker, WorkerState, Row, Absent
  <2>2. Kept
    BY <1>12, <2>1 DEF WorkerDies, TypeInv, TypeOK, Shape
  <2> HIDE DEF Kept
  <2>3. QED
    BY <1>12, <1>b, <1>d, <1>e, <2>2 DEF WorkerDies
<1>13. QED
  BY <1>1, <1>2, <1>3, <1>4, <1>5, <1>6, <1>7, <1>8, <1>9, <1>10, <1>11, <1>12 DEF WorkerStep

LEMMA TypeStep == TypeInv /\ [Next]_vars => TypeInv'
<1> SUFFICES ASSUME TypeInv, [Next]_vars PROVE TypeInv'
  OBVIOUS
<1>1. CASE UNCHANGED vars
  BY <1>1 DEF TypeInv, TypeOK, Shape, vars
<1>2. CASE Next
  BY <1>2, RequestType, ReconcilerType, WorkerType DEF Next, FaultStep
<1>3. QED
  BY <1>1, <1>2

\* Every reachable state is well typed, whatever the numbers of index types,
\* reconcilers, workers and requests.
THEOREM TypeCorrect == Spec => []TypeOK
<1>1. TypeInv => TypeOK
  BY DEF TypeInv
<1>2. QED
  BY <1>1, InitType, TypeStep, PTL DEF Spec

-----------------------------------------------------------------------------
(* The safety of claims and callbacks.  The argument: a row that an open   *)
(* transaction has written is locked, so nothing changes it before that    *)
(* transaction ends; a claim that has won is of a row that still needs it, *)
(* so every committed claim consumes a committed request.                  *)

\* A row that exists has been wanted at least once.
Versioned ==
    /\ \A t \in IndexTypes : row[t].status # "ABSENT" => row[t].version >= 1
    /\ \A s \in Sessions : \A t \in IndexTypes :
         api[s].loaded[t].status # "ABSENT" => api[s].loaded[t].version >= 1

\* What a reconciler has scanned or selected is a row of now or of the past,
\* and the version it has selected is 1 if the row is still at version 1.
EntriesOld ==
    \A r \in Reconcilers :
        /\ \A e \in rec[r].todo : e.id <= row[e.type].id
        /\ \A c \in rec[r].current :
             /\ c.entry.id <= row[c.entry.type].id
             /\ row[c.entry.type].id = c.entry.id /\ row[c.entry.type].version = 1 => c.version = 1

\* A claim that has won holds its row, which still needs what was claimed.
ClaimsHeld ==
    \A r \in Reconcilers : \A c \in rec[r].claimed :
        /\ lock[c.type] = r
        /\ Needs(c.action, row[c.type])
        /\ c.action = "CREATE" => row[c.type].version = c.target

\* A callback with an open transaction holds its row and keeps its identity.
CallbacksHeld ==
    \A w \in Workers : worker[w].phase = "committing" =>
        LET t == worker[w].type
            new == worker[w].write
        IN /\ t \in IndexTypes
           /\ lock[t] = w
           /\ new.id = row[t].id
           /\ new.status \in {"ACTIVE", "FAILED", "ABSENT"}
           /\ new.version = row[t].version \/ new = Absent(row[t].id)
           /\ new.status = "ACTIVE" => new.observed = row[t].version /\ new.version = row[t].version
           /\ new.status = "FAILED" => row[t].status # "ABSENT" /\ new.version = row[t].version
           /\ new.status = "ACTIVE" => row[t].status # "ABSENT"

CreditCovers ==
    \A t \in IndexTypes : credit[t] >= 0 /\ (Claimable(row[t]) => credit[t] >= 1)

Safe == Versioned /\ EntriesOld /\ ClaimsHeld /\ CallbacksHeld /\ CreditCovers

LEMMA InitSafe == Init => Safe
<1> SUFFICES ASSUME Init PROVE Safe
  OBVIOUS
<1>1. Versioned /\ CreditCovers
  <2>1. \A t \in IndexTypes : \/ row[t] = NewRow(0) /\ credit[t] = 1
                              \/ row[t] = Absent(0) /\ credit[t] = 0
    BY DEF Init
  <2>2. \A z \in Sessions : \A t \in IndexTypes : api[z].loaded[t] = Absent(0)
    BY DEF Init, IdleSession
  <2>3. NewRow(0).version = 1 /\ Absent(0).status = "ABSENT" /\ ~Claimable(Absent(0))
    BY DEF NewRow, Absent, Claimable, Needs, Actions
  <2>4. QED
    BY <2>1, <2>2, <2>3 DEF Versioned, CreditCovers
<1>2. EntriesOld /\ ClaimsHeld /\ CallbacksHeld
  BY DEF Init, EntriesOld, ClaimsHeld, CallbacksHeld, IdleReconciler, IdleWorker
<1>3. QED
  BY <1>1, <1>2 DEF Safe

\* What a request may write: the row is never an older one, and a row that is
\* asked for again is not at version 1 any more.
LEMMA RequestGrows ==
    ASSUME NEW loaded \in Row, NEW now \in Row,
           loaded.status # "ABSENT" => loaded.version >= 1,
           now.status # "ABSENT" => now.version >= 1
    PROVE  /\ Doomed(loaded, now).id = now.id /\ Doomed(loaded, now).version = now.version
           /\ loaded.status # "ABSENT" /\ now.status # "ABSENT" => Doomed(loaded, now).status # "ABSENT"
           /\ loaded.status = "ABSENT" => Doomed(loaded, now) = now
           /\ Requested(loaded, now).version >= 1
           /\ Requested(loaded, now).id >= now.id
           /\ loaded.status # "ABSENT" => Requested(loaded, now).version # 1
           /\ loaded.status = "ABSENT" => Requested(loaded, now).id # now.id
<1>1. CASE loaded.status = "ABSENT"
  BY <1>1 DEF Requested, Doomed, NewRow, Row
<1>2. CASE loaded.status # "ABSENT"
  <2>1. loaded.version + 1 > 1 /\ loaded.version + 1 \in Nat
    BY <1>2 DEF Row
  <2>2. /\ Requested(loaded, now).version = loaded.version + 1
        /\ Requested(loaded, now).id = now.id
    BY <1>2 DEF Requested, Row
  <2>3. /\ Doomed(loaded, now).id = now.id /\ Doomed(loaded, now).version = now.version
        /\ now.status # "ABSENT" => Doomed(loaded, now).status # "ABSENT"
    BY DEF Doomed, Row
  <2>4. now.id \in Nat
    BY DEF Row
  <2>5. QED
    BY <1>2, <2>1, <2>2, <2>3, <2>4
<1>3. QED
  BY <1>1, <1>2

\* A request writes only rows nobody has locked, and a row it has asked for
\* again is not at version 1 any more.
LEMMA CommitRequestSafe ==
    ASSUME TypeInv, Safe, NEW s \in Sessions, CommitRequest(s)
    PROVE  Safe'
<1> DEFINE old(t) == api[s].loaded[t]
<1>a. \A t \in IndexTypes : row[t] \in Row /\ old(t) \in Row /\ row'[t] \in Row
  BY RequestWritesRow DEF TypeInv, TypeOK, SessionState, CommitRequest
<1>b. \A t \in IndexTypes :
         row'[t] = IF t \notin Written(s) THEN row[t]
                   ELSE IF api[s].op = "delete" THEN Doomed(old(t), row[t])
                   ELSE Requested(old(t), row[t])
  BY DEF CommitRequest
<1>c. \A t \in Written(s) :
         /\ t \in IndexTypes /\ t \in api[s].types /\ lock[t] = NoOne
         /\ old(t).status = "ABSENT" => row[t].status = "ABSENT" /\ api[s].op # "delete"
         /\ old(t).status # "ABSENT" => row[t].status # "ABSENT" /\ row[t].id = old(t).id
  BY DEF CommitRequest, Written, WriteConflict, Exists, Free, TypeInv, TypeOK, SessionState
<1>d. UNCHANGED <<lock, rec, worker>>
  BY DEF CommitRequest
<1>e. \A t \in IndexTypes : lock[t] # NoOne => row'[t] = row[t]
  BY <1>b, <1>c
<1>f. \A t \in IndexTypes :
         /\ row'[t].id >= row[t].id
         /\ row'[t].status # "ABSENT" => row'[t].version >= 1
         /\ row'[t].id = row[t].id /\ row'[t].version = 1 => row[t].version = 1
  <2> TAKE t \in IndexTypes
  <2>1. row[t].status # "ABSENT" => row[t].version >= 1
    BY DEF Safe, Versioned
  <2>2. old(t).status # "ABSENT" => old(t).version >= 1
    BY DEF Safe, Versioned
  <2> HIDE DEF old
  <2>3. row[t].id \in Nat
    BY <1>a DEF Row
  <2>4. CASE t \notin Written(s)
    BY <1>b, <2>1, <2>3, <2>4
  <2>5. CASE t \in Written(s) /\ api[s].op = "delete"
    <3>1. row'[t] = Doomed(old(t), row[t])
      BY <1>b, <2>5
    <3>2. QED
      BY <1>a, <1>c, <2>1, <2>2, <2>3, <2>5, <3>1, RequestGrows
  <2>6. CASE t \in Written(s) /\ api[s].op # "delete"
    <3>1. row'[t] = Requested(old(t), row[t])
      BY <1>b, <2>6
    <3>2. QED
      BY <1>a, <1>c, <2>1, <2>2, <2>3, <2>6, <3>1, RequestGrows
  <2>7. QED
    BY <2>4, <2>5, <2>6
<1> HIDE DEF old
<1>1. Versioned'
  <2>1. \A z \in Sessions : \A t \in IndexTypes :
          api'[z].loaded[t].status # "ABSENT" => api'[z].loaded[t].version >= 1
    BY DEF CommitRequest, IdleSession, Absent, Safe, Versioned, TypeInv, TypeOK
  <2>2. QED
    BY <1>f, <2>1 DEF Versioned
<1>2. EntriesOld'
  <2>1. \A r \in Reconcilers : /\ \A e \in rec[r].todo : e.type \in IndexTypes /\ e.id \in Nat
                               /\ \A c \in rec[r].current : c.entry.type \in IndexTypes /\ c.entry.id \in Nat
    BY DEF TypeInv, TypeOK, ReconcilerState, Entry
  <2>2. \A t \in IndexTypes : row[t].id \in Nat /\ row'[t].id \in Nat
    BY <1>a DEF Row
  <2>3. QED
    BY <1>d, <1>f, <2>1, <2>2 DEF EntriesOld, Safe
<1>3. ClaimsHeld'
  <2>1. \A r \in Reconcilers : \A c \in rec[r].claimed : c.type \in IndexTypes /\ row'[c.type] = row[c.type]
    BY <1>e, ActorsAssumption DEF Safe, ClaimsHeld, TypeInv, TypeOK, ReconcilerState, Claim
  <2>2. QED
    BY <1>d, <2>1 DEF Safe, ClaimsHeld
<1>4. CallbacksHeld'
  <2>1. \A w \in Workers : worker[w].phase = "committing" => row'[worker[w].type] = row[worker[w].type]
    BY <1>e, ActorsAssumption DEF Safe, CallbacksHeld
  <2>2. QED
    BY <1>d, <2>1 DEF Safe, CallbacksHeld
<1>5. CreditCovers'
  <2> SUFFICES ASSUME NEW t \in IndexTypes PROVE credit'[t] >= 0 /\ (Claimable(row'[t]) => credit'[t] >= 1)
    BY DEF CreditCovers
  <2>1. credit[t] \in Int /\ credit[t] >= 0 /\ (Claimable(row[t]) => credit[t] >= 1)
    BY DEF TypeInv, TypeOK, Safe, CreditCovers
  <2>2. credit'[t] = IF t \in Written(s) THEN credit[t] + 1 ELSE credit[t]
    BY DEF CommitRequest
  <2>3. QED
    BY <1>b, <2>1, <2>2
<1>6. QED
  BY <1>1, <1>2, <1>3, <1>4, <1>5 DEF Safe

\* API requests keep the claims and callbacks safe.
LEMMA RequestSafe ==
    ASSUME TypeInv, Safe, NEW s \in Sessions, RequestStep(s)
    PROVE  Safe'
<1>1. CASE CommitRequest(s)
  BY <1>1, CommitRequestSafe
<1>2. CASE ~CommitRequest(s)
  <2>1. UNCHANGED <<row, lock, rec, worker, credit>>
    BY <1>2 DEF RequestStep, OpenRequest, LoadRows, CommitExpiry, RollbackRequest
  <2>2. \A z \in Sessions : \A t \in IndexTypes :
          api'[z].loaded[t].status # "ABSENT" => api'[z].loaded[t].version >= 1
    <3>1. CASE LoadRows(s)
      BY <3>1 DEF LoadRows, Absent, Safe, Versioned, TypeInv, TypeOK, SessionState
    <3>2. CASE OpenRequest(s) \/ CommitExpiry(s) \/ RollbackRequest(s)
      <4>1. \E state : api' = [api EXCEPT ![s] = state] /\ state.loaded = IdleSession.loaded
        <5>1. CASE OpenRequest(s)
          <6>1. PICK op, types :
                  api' = [api EXCEPT ![s] = [IdleSession EXCEPT !.phase = "open", !.op = op, !.types = types]]
            BY <5>1 DEF OpenRequest
          <6>2. [IdleSession EXCEPT !.phase = "open", !.op = op, !.types = types].loaded = IdleSession.loaded
            BY DEF IdleSession
          <6>3. QED
            BY <6>1, <6>2
        <5>2. QED
          BY <3>2, <5>1 DEF CommitExpiry, RollbackRequest
      <4>2. PICK state : api' = [api EXCEPT ![s] = state] /\ state.loaded = IdleSession.loaded
        BY <4>1
      <4>3. QED
        BY <4>2 DEF IdleSession, Absent, Safe, Versioned, TypeInv, TypeOK
    <3>3. QED
      BY <1>2, <3>1, <3>2 DEF RequestStep
  <2>3. QED
    BY <2>1, <2>2 DEF Safe, Versioned, EntriesOld, ClaimsHeld, CallbacksHeld, CreditCovers
<1>3. QED
  BY <1>1, <1>2

\* A reconciler that only reads, or that ends without committing.
LEMMA ReconcilerFrame ==
    ASSUME TypeInv, Safe, NEW r \in Reconcilers,
           UNCHANGED <<row, worker, api, credit>>,
           \A q \in Reconcilers \ {r} : rec'[q] = rec[q],
           \/ lock' = lock /\ rec'[r].claimed \subseteq rec[r].claimed
           \/ lock' = Release(r) /\ rec'[r].claimed = {},
           \A e \in rec'[r].todo : e.id <= row[e.type].id,
           \A c \in rec'[r].current :
             /\ c.entry.id <= row[c.entry.type].id
             /\ row[c.entry.type].id = c.entry.id /\ row[c.entry.type].version = 1 => c.version = 1
    PROVE  Safe'
<1>1. Versioned' /\ CreditCovers'
  BY DEF Safe, Versioned, CreditCovers
<1>3. EntriesOld'
  BY DEF Safe, EntriesOld
<1>4. \A p \in Holders \ {r} : \A t \in IndexTypes : lock[t] = p => lock'[t] = p
  BY DEF Release
<1>5. ClaimsHeld'
  <2>1. \A q \in Reconcilers : \A c \in rec'[q].claimed :
          c \in rec[q].claimed /\ lock'[c.type] = lock[c.type]
    <3>1. CASE lock' = lock /\ rec'[r].claimed \subseteq rec[r].claimed
      BY <3>1
    <3>2. CASE lock' = Release(r) /\ rec'[r].claimed = {}
      <4> SUFFICES ASSUME NEW q \in Reconcilers, NEW c \in rec'[q].claimed
                   PROVE  c \in rec[q].claimed /\ lock'[c.type] = lock[c.type]
        OBVIOUS
      <4>1. q # r /\ c \in rec[q].claimed
        BY <3>2
      <4>2. c.type \in IndexTypes /\ lock[c.type] = q
        BY <4>1 DEF Safe, ClaimsHeld, TypeInv, TypeOK, ReconcilerState, Claim
      <4>3. QED
        BY <1>4, <4>1, <4>2 DEF Holders
    <3>3. QED
      BY <3>1, <3>2
  <2>2. QED
    BY <2>1 DEF Safe, ClaimsHeld
<1>6. CallbacksHeld'
  BY <1>4, ActorsAssumption DEF Safe, CallbacksHeld, Holders
<1>7. QED
  BY <1>1, <1>3, <1>5, <1>6 DEF Safe

\* A guarded UPDATE that wins holds the row until the reconciler ends.
LEMMA GuardedUpdateSafe ==
    ASSUME TypeInv, Safe, NEW r \in Reconcilers, GuardedUpdate(r)
    PROVE  Safe'
<1>1. PICK c \in rec[r].current :
        LET claim == [type |-> c.entry.type, action |-> c.entry.action,
                      target |-> IF c.entry.action = "DELETE" THEN 0 ELSE c.version]
        IN /\ Free(c.entry.type)
           /\ rec' = [rec EXCEPT ![r] = [rec[r] EXCEPT
                        !.current = {},
                        !.claimed = IF ClaimWins(c.entry) THEN rec[r].claimed \cup {claim} ELSE rec[r].claimed]]
           /\ lock' = IF ClaimWins(c.entry) THEN [lock EXCEPT ![c.entry.type] = r] ELSE lock
           /\ UNCHANGED <<row, doc, worker, api, queue, credit, requests, faults>>
  BY DEF GuardedUpdate
<1> DEFINE t == c.entry.type
           claim == [type |-> t, action |-> c.entry.action,
                     target |-> IF c.entry.action = "DELETE" THEN 0 ELSE c.version]
           claims == IF ClaimWins(c.entry) THEN rec[r].claimed \cup {claim} ELSE rec[r].claimed
           state == [rec[r] EXCEPT !.current = {}, !.claimed = claims]
<1>2. t \in IndexTypes /\ lock[t] = NoOne
  BY <1>1 DEF Free, TypeInv, TypeOK, ReconcilerState, Entry
<1>3. rec' = [rec EXCEPT ![r] = state]
  BY <1>1
<1>4. state.todo = rec[r].todo /\ state.current = {} /\ state.claimed = claims
  <2> HIDE DEF claims
  <2>1. QED
    BY DEF TypeInv, TypeOK, ReconcilerState
<1>5. CASE ~ClaimWins(c.entry)
  <2>1. \A e \in state.todo : e.id <= row[e.type].id
    BY <1>4 DEF Safe, EntriesOld
  <2>2. state.claimed = rec[r].claimed /\ \A d \in state.current : FALSE
    BY <1>4, <1>5
  <2>3. lock' = lock /\ UNCHANGED <<row, worker, api, credit>>
    BY <1>1, <1>5
  <2> HIDE DEF state
  <2>4. rec'[r] = state /\ \A q \in Reconcilers \ {r} : rec'[q] = rec[q]
    BY <1>3 DEF TypeInv, TypeOK
  <2>5. QED
    BY <2>1, <2>2, <2>3, <2>4, ReconcilerFrame
<1>6. CASE ClaimWins(c.entry)
  <2>1. lock' = [lock EXCEPT ![t] = r] /\ state.claimed = rec[r].claimed \cup {claim}
    BY <1>1, <1>4, <1>6
  <2>2. Needs(c.entry.action, row[t]) /\ row[t].id = c.entry.id
    BY <1>6 DEF ClaimWins
  <2>3. c.entry.action = "CREATE" => row[t].version = c.version
    BY <2>2 DEF Needs, Safe, EntriesOld
  <2>4. claim.type = t /\ claim.action = c.entry.action
        /\ (c.entry.action = "CREATE" => claim.target = c.version)
    OBVIOUS
  <2> HIDE DEF state, claim
  <2>5. rec'[r] = state /\ \A q \in Reconcilers \ {r} : rec'[q] = rec[q]
    BY <1>3 DEF TypeInv, TypeOK
  <2>6. \A u \in IndexTypes : u # t => lock'[u] = lock[u]
    BY <2>1 DEF TypeInv, TypeOK
  <2>7. lock'[t] = r
    BY <1>2, <2>1 DEF TypeInv, TypeOK
  <2>8. UNCHANGED <<row, worker, api, credit>>
    BY <1>1
  <2>9. Versioned' /\ CreditCovers'
    BY <2>8 DEF Safe, Versioned, CreditCovers
  <2>10. EntriesOld'
    BY <1>4, <2>5, <2>8 DEF Safe, EntriesOld
  <2>11. ClaimsHeld'
    <3> SUFFICES ASSUME NEW q \in Reconcilers, NEW d \in rec'[q].claimed
                 PROVE  /\ lock'[d.type] = q
                        /\ Needs(d.action, row[d.type])
                        /\ d.action = "CREATE" => row[d.type].version = d.target
      BY <2>8 DEF ClaimsHeld
    <3>1. CASE q = r /\ d = claim
      BY <2>2, <2>3, <2>4, <2>7, <3>1
    <3>2. CASE d \in rec[q].claimed
      <4>1. d.type \in IndexTypes /\ lock[d.type] = q /\ Needs(d.action, row[d.type])
            /\ (d.action = "CREATE" => row[d.type].version = d.target)
        BY <3>2 DEF Safe, ClaimsHeld, TypeInv, TypeOK, ReconcilerState, Claim
      <4>2. d.type # t
        BY <1>2, <4>1, ActorsAssumption
      <4>3. QED
        BY <2>6, <4>1, <4>2
    <3>3. QED
      BY <2>1, <2>5, <3>1, <3>2
  <2>12. CallbacksHeld'
    <3>1. \A w \in Workers : worker[w].phase = "committing" =>
            lock'[worker[w].type] = lock[worker[w].type]
      BY <1>2, <2>6, ActorsAssumption DEF Safe, CallbacksHeld
    <3>2. QED
      BY <2>8, <3>1 DEF Safe, CallbacksHeld
  <2>13. QED
    BY <2>9, <2>10, <2>11, <2>12 DEF Safe
<1>7. QED
  BY <1>5, <1>6

\* A committed claim takes a request's credit: its row is no longer claimable.
LEMMA CommitClaimSafe ==
    ASSUME TypeInv, Safe, NEW r \in Reconcilers, CommitClaim(r)
    PROVE  Safe'
<1>1. UNCHANGED <<worker, api>> /\ lock' = Release(r) /\ rec' = [rec EXCEPT ![r] = IdleReconciler]
  BY DEF CommitClaim
<1>2. rec'[r] = IdleReconciler /\ \A q \in Reconcilers \ {r} : rec'[q] = rec[q]
  BY <1>1 DEF TypeInv, TypeOK
<1>3. \A t \in IndexTypes : row[t] \in Row /\ lock'[t] = IF lock[t] = r THEN NoOne ELSE lock[t]
  BY <1>1 DEF TypeInv, TypeOK, Release
<1>4. \A t \in ClaimedTypes(r) : t \in IndexTypes /\ lock[t] = r /\ Claimable(row[t]) /\ row[t].status # "ABSENT"
  <2> SUFFICES ASSUME NEW c \in rec[r].claimed
               PROVE  /\ c.type \in IndexTypes /\ lock[c.type] = r
                      /\ Claimable(row[c.type]) /\ row[c.type].status # "ABSENT"
    BY DEF ClaimedTypes
  <2>1. c.type \in IndexTypes /\ c.action \in Actions
    BY DEF TypeInv, TypeOK, ReconcilerState, Claim
  <2>2. lock[c.type] = r /\ Needs(c.action, row[c.type])
    BY DEF Safe, ClaimsHeld
  <2>3. row[c.type].status # "ABSENT"
    BY <2>1, <2>2 DEF Needs, Actions
  <2>4. QED
    BY <2>1, <2>2, <2>3 DEF Claimable
<1>5. \A t \in IndexTypes :
        IF t \in ClaimedTypes(r)
        THEN /\ row'[t].status \in {"CREATING", "DELETION_IN_PROGRESS"}
             /\ row'[t].version = row[t].version /\ row'[t].id = row[t].id
             /\ credit'[t] = credit[t] - 1
        ELSE row'[t] = row[t] /\ credit'[t] = credit[t]
  BY <1>3 DEF CommitClaim, Row
<1>6. Versioned'
  BY <1>1, <1>4, <1>5 DEF Safe, Versioned
<1>7. EntriesOld'
  <2>1. \A q \in Reconcilers : /\ \A e \in rec[q].todo : e.type \in IndexTypes
                               /\ \A c \in rec[q].current : c.entry.type \in IndexTypes
    BY DEF TypeInv, TypeOK, ReconcilerState, Entry
  <2>2. \A t \in IndexTypes : row'[t].version = row[t].version /\ row'[t].id = row[t].id
    BY <1>5
  <2>3. QED
    BY <1>2, <2>1, <2>2 DEF Safe, EntriesOld, IdleReconciler
<1>8. ClaimsHeld'
  <2> SUFFICES ASSUME NEW q \in Reconcilers, NEW c \in rec'[q].claimed
               PROVE  /\ lock'[c.type] = q
                      /\ Needs(c.action, row'[c.type])
                      /\ c.action = "CREATE" => row'[c.type].version = c.target
    BY DEF ClaimsHeld
  <2>1. q # r /\ c \in rec[q].claimed
    BY <1>2 DEF IdleReconciler
  <2>2. c.type \in IndexTypes /\ lock[c.type] = q /\ Needs(c.action, row[c.type])
        /\ (c.action = "CREATE" => row[c.type].version = c.target)
    BY <2>1 DEF Safe, ClaimsHeld, TypeInv, TypeOK, ReconcilerState, Claim
  <2>3. row'[c.type] = row[c.type] /\ lock'[c.type] = q
    BY <1>3, <1>4, <1>5, <2>1, <2>2
  <2>4. QED
    BY <2>2, <2>3
<1>9. CallbacksHeld'
  <2>1. \A w \in Workers : worker[w].phase = "committing" =>
          /\ row'[worker[w].type] = row[worker[w].type]
          /\ lock'[worker[w].type] = lock[worker[w].type]
    BY <1>3, <1>4, <1>5, ActorsAssumption DEF Safe, CallbacksHeld
  <2>2. QED
    BY <1>1, <2>1 DEF Safe, CallbacksHeld
<1>10. CreditCovers'
  <2> SUFFICES ASSUME NEW t \in IndexTypes PROVE credit'[t] >= 0 /\ (Claimable(row'[t]) => credit'[t] >= 1)
    BY DEF CreditCovers
  <2>1. credit[t] \in Int /\ credit[t] >= 0 /\ (Claimable(row[t]) => credit[t] >= 1)
    BY DEF TypeInv, TypeOK, Safe, CreditCovers
  <2>2. CASE t \in ClaimedTypes(r)
    BY <1>4, <1>5, <2>1, <2>2 DEF Claimable, Needs, Actions
  <2>3. CASE t \notin ClaimedTypes(r)
    BY <1>5, <2>1, <2>3
  <2>4. QED
    BY <2>2, <2>3
<1>11. QED
  BY <1>6, <1>7, <1>8, <1>9, <1>10 DEF Safe

\* Reconcilers keep the claims and callbacks safe.
LEMMA ReconcilerSafe ==
    ASSUME TypeInv, Safe, NEW r \in Reconcilers, Scan(r) \/ ReconcilerStep(r) \/ AbortClaim(r)
    PROVE  Safe'
<1>a. rec[r] \in ReconcilerState
  BY DEF TypeInv, TypeOK
<1>b. /\ \A e \in rec[r].todo : e.id <= row[e.type].id
      /\ \A c \in rec[r].current :
            /\ c.entry.id <= row[c.entry.type].id
            /\ row[c.entry.type].id = c.entry.id /\ row[c.entry.type].version = 1 => c.version = 1
  BY DEF Safe, EntriesOld
<1>c. IdleReconciler.todo = {} /\ IdleReconciler.current = {} /\ IdleReconciler.claimed = {}
  BY DEF IdleReconciler
<1>d. ASSUME NEW state, rec' = [rec EXCEPT ![r] = state]
      PROVE  rec'[r] = state /\ \A q \in Reconcilers \ {r} : rec'[q] = rec[q]
  BY <1>d DEF TypeInv, TypeOK
<1>1. CASE Scan(r)
  <2> DEFINE state == [IdleReconciler EXCEPT !.phase = "claim", !.todo = ScanEntries]
  <2>1. state.todo = ScanEntries /\ state.current = {} /\ state.claimed = {}
    BY DEF IdleReconciler
  <2>2. \A e \in ScanEntries : e.id <= row[e.type].id
    BY DEF ScanEntries, TypeInv, TypeOK, Row
  <2>3. rec' = [rec EXCEPT ![r] = state] /\ UNCHANGED <<row, worker, api, credit, lock>>
    BY <1>1 DEF Scan
  <2> HIDE DEF state
  <2>4. rec'[r] = state /\ \A q \in Reconcilers \ {r} : rec'[q] = rec[q]
    BY <1>d, <2>3
  <2>5. QED
    BY <2>1, <2>2, <2>3, <2>4, ReconcilerFrame
<1>2. CASE SelectCurrent(r)
  <2>1. PICK e \in rec[r].todo :
         rec' = [rec EXCEPT ![r] = [rec[r] EXCEPT
                   !.todo = rec[r].todo \ {e},
                   !.current = IF Exists(e.type) /\ row[e.type].id = e.id
                               THEN {[entry |-> e, version |-> row[e.type].version]}
                               ELSE {}]]
    BY <1>2 DEF SelectCurrent
  <2> DEFINE current == IF Exists(e.type) /\ row[e.type].id = e.id
                        THEN {[entry |-> e, version |-> row[e.type].version]}
                        ELSE {}
             state == [rec[r] EXCEPT !.todo = rec[r].todo \ {e}, !.current = current]
  <2>2. \A c \in current : c.entry = e /\ c.version = row[e.type].version
    OBVIOUS
  <2>3. rec' = [rec EXCEPT ![r] = state]
    BY <2>1
  <2> HIDE DEF current
  <2>4. state.todo \subseteq rec[r].todo /\ state.current = current /\ state.claimed = rec[r].claimed
    BY <1>a DEF ReconcilerState
  <2> HIDE DEF state
  <2>5. rec'[r] = state /\ \A q \in Reconcilers \ {r} : rec'[q] = rec[q]
    BY <1>d, <2>3
  <2>6. \A c \in current : /\ c.entry.id <= row[c.entry.type].id
                           /\ row[c.entry.type].version = 1 => c.version = 1
    BY <1>b, <2>2
  <2>7. UNCHANGED <<row, worker, api, credit, lock>>
    BY <1>2 DEF SelectCurrent
  <2>8. QED
    BY <1>b, <2>4, <2>5, <2>6, <2>7, ReconcilerFrame
<1>3. CASE GuardedUpdate(r)
  BY <1>3, GuardedUpdateSafe
<1>4. CASE EndClaiming(r)
  <2> DEFINE state == IF rec[r].claimed = {} THEN IdleReconciler
                      ELSE [rec[r] EXCEPT !.phase = "publish", !.unsent = {c.action : c \in rec[r].claimed}]
  <2>1. state.todo \subseteq rec[r].todo /\ state.current \subseteq rec[r].current
        /\ state.claimed \subseteq rec[r].claimed
    BY <1>a, <1>c DEF ReconcilerState
  <2>2. rec' = [rec EXCEPT ![r] = state] /\ UNCHANGED <<row, worker, api, credit, lock>>
    BY <1>4 DEF EndClaiming
  <2> HIDE DEF state
  <2>3. rec'[r] = state /\ \A q \in Reconcilers \ {r} : rec'[q] = rec[q]
    BY <1>d, <2>2
  <2>4. QED
    BY <1>b, <2>1, <2>2, <2>3, ReconcilerFrame
<1>5. CASE Publish(r)
  <2>1. PICK a \in rec[r].unsent : rec' = [rec EXCEPT ![r] = [rec[r] EXCEPT !.unsent = rec[r].unsent \ {a}]]
    BY <1>5 DEF Publish
  <2> DEFINE state == [rec[r] EXCEPT !.unsent = rec[r].unsent \ {a}]
  <2>2. state.todo = rec[r].todo /\ state.current = rec[r].current /\ state.claimed = rec[r].claimed
    BY <1>a DEF ReconcilerState
  <2>3. rec' = [rec EXCEPT ![r] = state] /\ UNCHANGED <<row, worker, api, credit, lock>>
    BY <1>5, <2>1 DEF Publish
  <2> HIDE DEF state
  <2>4. rec'[r] = state /\ \A q \in Reconcilers \ {r} : rec'[q] = rec[q]
    BY <1>d, <2>3
  <2>5. QED
    BY <1>b, <2>2, <2>3, <2>4, ReconcilerFrame
<1>6. CASE CommitClaim(r)
  BY <1>6, CommitClaimSafe
<1>7. CASE AbortClaim(r)
  <2>1. /\ rec' = [rec EXCEPT ![r] = IdleReconciler] /\ lock' = Release(r)
        /\ UNCHANGED <<row, worker, api, credit>>
    BY <1>7 DEF AbortClaim
  <2>2. rec'[r] = IdleReconciler /\ \A q \in Reconcilers \ {r} : rec'[q] = rec[q]
    BY <1>d, <2>1
  <2>3. QED
    BY <1>c, <2>1, <2>2, ReconcilerFrame
<1>8. QED
  BY <1>1, <1>2, <1>3, <1>4, <1>5, <1>6, <1>7 DEF ReconcilerStep

\* A worker that writes no row: it goes on, or ends and releases what it held.
LEMMA WorkerFrame ==
    ASSUME TypeInv, Safe, NEW w \in Workers,
           UNCHANGED <<row, rec, api, credit>>,
           lock' = lock \/ lock' = Release(w),
           \A v \in Workers \ {w} : worker'[v] = worker[v],
           worker'[w].phase # "committing"
    PROVE  Safe'
<1>1. Versioned' /\ EntriesOld' /\ CreditCovers'
  BY DEF Safe, Versioned, EntriesOld, CreditCovers
<1>2. \A p \in Holders \ {w} : \A t \in IndexTypes : lock[t] = p => lock'[t] = p
  BY DEF Release
<1>3. ClaimsHeld'
  <2>1. \A r \in Reconcilers : \A c \in rec[r].claimed : c.type \in IndexTypes /\ lock[c.type] = r
    BY DEF Safe, ClaimsHeld, TypeInv, TypeOK, ReconcilerState, Claim
  <2>2. QED
    BY <1>2, <2>1, ActorsAssumption DEF Safe, ClaimsHeld, Holders
<1>4. CallbacksHeld'
  BY <1>2 DEF Safe, CallbacksHeld, Holders
<1>5. QED
  BY <1>1, <1>3, <1>4 DEF Safe

\* The steps that leave the other workers alone and end no worker committing.
LEMMA FinishLocal ==
    ASSUME TypeInv, NEW w \in Workers, NEW sent, Finish(w, sent)
    PROVE  (\A v \in Workers \ {w} : worker'[v] = worker[v]) /\ worker'[w].phase # "committing"
  BY DEF Finish, IdleWorker, TypeInv, TypeOK

LEMMA TaskFailsLocal ==
    ASSUME TypeInv, NEW w \in Workers, TaskFails(w)
    PROVE  (\A v \in Workers \ {w} : worker'[v] = worker[v]) /\ worker'[w].phase # "committing"
<1>1. CASE worker[w].msg.tries < MaxRetries
  BY <1>1, FinishLocal DEF TaskFails
<1>2. CASE ~(worker[w].msg.tries < MaxRetries)
  BY <1>2 DEF TaskFails, TypeInv, TypeOK, WorkerState
<1>3. QED
  BY <1>1, <1>2

\* An opened callback holds its row and will write it in the row's identity.
LEMMA OpenCallbackSafe ==
    ASSUME TypeInv, Safe, NEW w \in Workers, NEW t \in IndexTypes, NEW new \in Row,
           Free(t), OpenCallback(w, t, new), UNCHANGED <<row, rec, api, credit>>,
           row[t].status # "ABSENT", new.id = row[t].id,
           \/ new = Absent(row[t].id)
           \/ new.status = "FAILED" /\ new.version = row[t].version
           \/ new.status = "ACTIVE" /\ new.version = row[t].version /\ new.observed = row[t].version
    PROVE  Safe'
<1> DEFINE written == DocWrite(t, new)
           state == [worker[w] EXCEPT !.phase = "committing", !.type = t, !.todo = worker[w].todo \ {t},
                                      !.write = new, !.docWrite = written]
<1>1. worker' = [worker EXCEPT ![w] = state] /\ lock' = [lock EXCEPT ![t] = w]
  BY DEF OpenCallback
<1> HIDE DEF written
<1>2. state.type = t /\ state.write = new
  BY DEF TypeInv, TypeOK, WorkerState
<1> HIDE DEF state
<1>3. worker'[w] = state /\ \A v \in Workers \ {w} : worker'[v] = worker[v]
  BY <1>1 DEF TypeInv, TypeOK
<1>4. lock'[t] = w /\ (\A u \in IndexTypes \ {t} : lock'[u] = lock[u]) /\ lock[t] = NoOne
  BY <1>1 DEF TypeInv, TypeOK, Free
<1>5. Versioned' /\ EntriesOld' /\ CreditCovers'
  BY DEF Safe, Versioned, EntriesOld, CreditCovers
<1>6. ClaimsHeld'
  <2>1. \A r \in Reconcilers : \A c \in rec[r].claimed : c.type \in IndexTypes /\ lock[c.type] = r
    BY DEF Safe, ClaimsHeld, TypeInv, TypeOK, ReconcilerState, Claim
  <2>2. QED
    BY <1>4, <2>1, ActorsAssumption DEF Safe, ClaimsHeld
<1>7. CallbacksHeld'
  <2>1. \A v \in Workers \ {w} : worker[v].phase = "committing" =>
          worker[v].type \in IndexTypes /\ lock'[worker[v].type] = v
    BY <1>4, ActorsAssumption DEF Safe, CallbacksHeld
  <2>2. \A v \in Workers \ {w} : worker'[v].phase = "committing" =>
          LET u == worker'[v].type IN
          /\ u \in IndexTypes
          /\ lock'[u] = v
          /\ worker'[v].write.id = row[u].id
          /\ worker'[v].write.status \in {"ACTIVE", "FAILED", "ABSENT"}
          /\ worker'[v].write.version = row[u].version \/ worker'[v].write = Absent(row[u].id)
          /\ worker'[v].write.status = "ACTIVE" => /\ worker'[v].write.observed = row[u].version
                                                   /\ worker'[v].write.version = row[u].version
          /\ worker'[v].write.status = "FAILED" => /\ row[u].status # "ABSENT"
                                                   /\ worker'[v].write.version = row[u].version
          /\ worker'[v].write.status = "ACTIVE" => row[u].status # "ABSENT"
    BY <1>3, <2>1 DEF Safe, CallbacksHeld
  <2>3. new.status \in {"ACTIVE", "FAILED", "ABSENT"}
        /\ (new.version = row[t].version \/ new = Absent(row[t].id))
        /\ (new.status = "ACTIVE" => new.observed = row[t].version /\ new.version = row[t].version)
        /\ (new.status = "FAILED" => new.version = row[t].version)
    BY DEF Absent
  <2>4. QED
    BY <1>2, <1>3, <1>4, <2>2, <2>3 DEF CallbacksHeld
<1>8. QED
  BY <1>5, <1>6, <1>7 DEF Safe

\* A callback that commits is open no more.
LEMMA CommitEnds ==
    ASSUME TypeInv, NEW w \in Workers, CommitCallback(w)
    PROVE  (\A v \in Workers \ {w} : worker'[v] = worker[v]) /\ worker'[w].phase # "committing"
<1>1. CASE worker[w].todo = {}
  BY <1>1, FinishLocal DEF CommitCallback, AfterCallback
<1>2. CASE worker[w].todo # {}
  <2> DEFINE state == [IdleWorker EXCEPT !.phase = "failed", !.msg = worker[w].msg, !.todo = worker[w].todo]
  <2>1. state.phase = "failed" /\ worker' = [worker EXCEPT ![w] = state]
    BY <1>2 DEF CommitCallback, AfterCallback, IdleWorker
  <2> HIDE DEF state
  <2>2. QED
    BY <2>1 DEF TypeInv, TypeOK
<1>3. QED
  BY <1>1, <1>2

\* A committed callback writes the row it holds: never one that could be claimed.
LEMMA CommitCallbackSafe ==
    ASSUME TypeInv, Safe, NEW w \in Workers, CommitCallback(w)
    PROVE  Safe'
<1> DEFINE t == worker[w].type
           new == worker[w].write
<1>1. /\ t \in IndexTypes /\ lock[t] = w /\ new.id = row[t].id
      /\ new.status \in {"ACTIVE", "FAILED", "ABSENT"}
      /\ new.version = row[t].version \/ new = Absent(row[t].id)
      /\ new.status # "ABSENT" => new.version = row[t].version /\ row[t].status # "ABSENT"
  BY DEF CommitCallback, Safe, CallbacksHeld
<1>2. row'[t] = new /\ \A u \in IndexTypes \ {t} : row'[u] = row[u]
  BY <1>1 DEF CommitCallback, TypeInv, TypeOK
<1>3. UNCHANGED <<rec, api, credit>> /\ lock' = Release(w)
  BY DEF CommitCallback
<1>4. (\A v \in Workers \ {w} : worker'[v] = worker[v]) /\ worker'[w].phase # "committing"
  BY CommitEnds
<1>5. \A u \in IndexTypes : row[u] \in Row
  BY DEF TypeInv, TypeOK
<1>6. \A p \in Holders \ {w} : \A u \in IndexTypes : lock[u] = p => lock'[u] = p /\ row'[u] = row[u]
  BY <1>1, <1>2, <1>3 DEF Release
<1> HIDE DEF new
<1>7. Versioned'
  <2>1. row[t].status # "ABSENT" => row[t].version >= 1
    BY <1>1 DEF Safe, Versioned
  <2>2. row'[t].status # "ABSENT" => row'[t].version >= 1
    BY <1>1, <1>2, <2>1
  <2>3. QED
    BY <1>2, <1>3, <2>2 DEF Safe, Versioned
<1>8. EntriesOld'
  <2>1. \A u \in IndexTypes : /\ row'[u].id = row[u].id
                              /\ row'[u].version = 1 => row[u].version = 1
    BY <1>1, <1>2 DEF Absent
  <2>2. \A r \in Reconcilers : /\ \A e \in rec[r].todo : e.type \in IndexTypes
                               /\ \A c \in rec[r].current : c.entry.type \in IndexTypes
    BY DEF TypeInv, TypeOK, ReconcilerState, Entry
  <2>3. ASSUME NEW r \in Reconcilers, NEW e \in rec[r].todo
        PROVE  e.id <= row'[e.type].id
    <3>1. e.id <= row[e.type].id /\ e.type \in IndexTypes
      BY <2>2 DEF Safe, EntriesOld
    <3>2. QED
      BY <2>1, <3>1
  <2>4. ASSUME NEW r \in Reconcilers, NEW c \in rec[r].current
        PROVE  /\ c.entry.id <= row'[c.entry.type].id
               /\ row'[c.entry.type].id = c.entry.id /\ row'[c.entry.type].version = 1 => c.version = 1
    <3>1. /\ c.entry.id <= row[c.entry.type].id /\ c.entry.type \in IndexTypes
          /\ row[c.entry.type].id = c.entry.id /\ row[c.entry.type].version = 1 => c.version = 1
      BY <2>2 DEF Safe, EntriesOld
    <3>2. QED
      BY <2>1, <3>1
  <2>5. QED
    BY <1>3, <2>3, <2>4 DEF EntriesOld
<1>9. ClaimsHeld'
  <2>1. \A r \in Reconcilers : \A c \in rec[r].claimed : c.type \in IndexTypes /\ lock[c.type] = r
    BY DEF Safe, ClaimsHeld, TypeInv, TypeOK, ReconcilerState, Claim
  <2>2. QED
    BY <1>3, <1>6, <2>1, ActorsAssumption DEF Safe, ClaimsHeld, Holders
<1>10. CallbacksHeld'
  BY <1>4, <1>6 DEF Safe, CallbacksHeld, Holders
<1>11. CreditCovers'
  <2>1. ~Claimable(new)
    BY <1>1 DEF Claimable, Needs, Actions
  <2>2. QED
    BY <1>2, <1>3, <2>1 DEF Safe, CreditCovers
<1>12. QED
  BY <1>7, <1>8, <1>9, <1>10, <1>11 DEF Safe

\* Workers keep the claims and callbacks safe.
LEMMA WorkerSafe ==
    ASSUME TypeInv, Safe, NEW w \in Workers,
           WorkerStep(w) \/ Redeliver(w) \/ CallbackRaises(w) \/ WorkerDies(w)
    PROVE  Safe'
<1> DEFINE Local == (\A v \in Workers \ {w} : worker'[v] = worker[v]) /\ worker'[w].phase # "committing"
<1>a. worker[w] \in WorkerState /\ (worker[w].phase # "idle" => worker[w].msg \in Message)
  BY DEF TypeInv, TypeOK, Shape
<1>b. ASSUME NEW state, worker' = [worker EXCEPT ![w] = state]
      PROVE  worker'[w] = state /\ \A v \in Workers \ {w} : worker'[v] = worker[v]
  BY <1>b DEF TypeInv, TypeOK
<1>1. CASE Receive(w) \/ Redeliver(w)
  <2>1. PICK m \in queue : worker' = [worker EXCEPT ![w] = [worker[w] EXCEPT !.phase = "started", !.msg = m]]
    BY <1>1 DEF Receive, Redeliver
  <2> DEFINE state == [worker[w] EXCEPT !.phase = "started", !.msg = m]
  <2>2. state.phase = "started"
    BY <1>a DEF WorkerState
  <2> HIDE DEF state
  <2>3. Local
    BY <1>b, <2>1, <2>2 DEF state
  <2>4. QED
    BY <1>1, <2>3, WorkerFrame DEF Receive, Redeliver
<1>2. CASE ParseDocument(w) \/ TriggerIndexTasks(w) \/ EndFailure(w)
  <2>1. Local
    BY <1>2, FinishLocal, TaskFailsLocal DEF ParseDocument, TriggerIndexTasks, EndFailure
  <2>2. QED
    BY <1>2, <2>1, WorkerFrame DEF ParseDocument, TriggerIndexTasks, EndFailure
<1>3. CASE ValidateTask(w) \/ CheckDocument(w) \/ LoadDocument(w) \/ RunIndexer(w)
  <2>1. ASSUME NEW p \in {"relevant", "validated", "working", "succeeded"},
               worker' = [worker EXCEPT ![w] = [worker[w] EXCEPT !.phase = p]]
        PROVE  Local
    <3> DEFINE state == [worker[w] EXCEPT !.phase = p]
    <3>1. state.phase # "committing"
      BY <1>a DEF WorkerState
    <3> HIDE DEF state
    <3>2. QED
      BY <1>b, <2>1, <3>1 DEF state
  <2>2. Local
    BY <1>3, <2>1, FinishLocal, TaskFailsLocal DEF ValidateTask, CheckDocument, LoadDocument, RunIndexer
  <2>3. QED
    BY <1>3, <2>2, WorkerFrame DEF ValidateTask, CheckDocument, LoadDocument, RunIndexer
<1>4. CASE ReportSuccess(w)
  <2> DEFINE m == worker[w].msg
             t == TypeOf(m)
             built == [row[t] EXCEPT !.status = "ACTIVE", !.observed = m.target[t]]
             gone == Absent(row[t].id)
  <2>1. m \in Message /\ t \in IndexTypes /\ m.target[t] \in Nat
    BY <1>4, <1>a, MessageType DEF ReportSuccess
  <2>2. row[t] \in Row
    BY <2>1 DEF TypeInv, TypeOK
  <2>3. UNCHANGED <<row, rec, api, credit>> /\ Free(t)
    BY <1>4 DEF ReportSuccess
  <2>4. \/ OpenCallback(w, t, gone) /\ row[t].status = "DELETION_IN_PROGRESS"
        \/ OpenCallback(w, t, built) /\ row[t].status = "CREATING" /\ row[t].version = m.target[t]
        \/ Finish(w, {}) /\ UNCHANGED lock
    BY <1>4 DEF ReportSuccess, BuildIsCurrent
  <2>5. /\ built \in Row /\ built.status = "ACTIVE" /\ built.observed = m.target[t]
        /\ built.id = row[t].id /\ built.version = row[t].version
    <3> HIDE DEF m, t
    <3>1. QED
      BY <2>1, <2>2 DEF Row, IndexStatus
  <2>6. gone \in Row /\ gone.id = row[t].id
    BY <2>2 DEF Row, Absent
  <2>7. gone = Absent(row[t].id)
    OBVIOUS
  <2> HIDE DEF m, t, built, gone
  <2>8. CASE OpenCallback(w, t, gone) /\ row[t].status = "DELETION_IN_PROGRESS"
    BY <2>1, <2>3, <2>6, <2>7, <2>8, OpenCallbackSafe
  <2>9. CASE OpenCallback(w, t, built) /\ row[t].status = "CREATING" /\ row[t].version = m.target[t]
    BY <2>1, <2>3, <2>5, <2>9, OpenCallbackSafe
  <2>10. CASE Finish(w, {}) /\ UNCHANGED lock
    BY <2>3, <2>10, FinishLocal, WorkerFrame
  <2>11. QED
    BY <2>4, <2>8, <2>9, <2>10
<1>5. CASE ReportFailure(w)
  <2>1. PICK t \in worker[w].todo :
         /\ Free(t)
         /\ IF row[t].status \in InProgress
            THEN OpenCallback(w, t, [row[t] EXCEPT !.status = "FAILED"])
            ELSE /\ worker' = [worker EXCEPT ![w] = [worker[w] EXCEPT !.todo = worker[w].todo \ {t}]]
                 /\ UNCHANGED <<queue, lock>>
    BY <1>5 DEF ReportFailure
  <2>2. t \in IndexTypes /\ UNCHANGED <<row, rec, api, credit>>
    BY <1>5, <1>a DEF ReportFailure, WorkerState
  <2>3. CASE row[t].status \in InProgress
    <3> DEFINE failed == [row[t] EXCEPT !.status = "FAILED"]
    <3>1. /\ failed \in Row /\ failed.status = "FAILED"
          /\ failed.id = row[t].id /\ failed.version = row[t].version
      BY <2>2 DEF TypeInv, TypeOK, Row, IndexStatus
    <3>2. OpenCallback(w, t, failed)
      BY <2>1, <2>3
    <3> HIDE DEF failed
    <3>3. row[t].status # "ABSENT"
      BY <2>3 DEF InProgress
    <3>4. QED
      BY <2>1, <2>2, <3>1, <3>2, <3>3, OpenCallbackSafe
  <2>4. CASE row[t].status \notin InProgress
    <3> DEFINE state == [worker[w] EXCEPT !.todo = worker[w].todo \ {t}]
    <3>1. state.phase # "committing"
      BY <1>5, <1>a DEF ReportFailure, WorkerState
    <3>2. worker' = [worker EXCEPT ![w] = state] /\ UNCHANGED lock
      BY <2>1, <2>4
    <3> HIDE DEF state
    <3>3. Local
      BY <1>b, <3>1, <3>2
    <3>4. QED
      BY <2>2, <3>2, <3>3, WorkerFrame
  <2>5. QED
    BY <2>3, <2>4
<1>6. CASE CommitCallback(w)
  BY <1>6, CommitCallbackSafe
<1>7. CASE CallbackRaises(w)
  <2>1. Local
    BY <1>7, FinishLocal DEF CallbackRaises
  <2>2. QED
    BY <1>7, <2>1, WorkerFrame DEF CallbackRaises
<1>8. CASE WorkerDies(w)
  <2>1. Local
    BY <1>8, <1>b DEF WorkerDies, IdleWorker
  <2>2. QED
    BY <1>8, <2>1, WorkerFrame DEF WorkerDies
<1>9. QED
  BY <1>1, <1>2, <1>3, <1>4, <1>5, <1>6, <1>7, <1>8 DEF WorkerStep

LEMMA SafeStep == TypeInv /\ Safe /\ [Next]_vars => Safe'
<1> SUFFICES ASSUME TypeInv, Safe, [Next]_vars PROVE Safe'
  OBVIOUS
<1>1. CASE UNCHANGED vars
  BY <1>1 DEF Safe, Versioned, EntriesOld, ClaimsHeld, CallbacksHeld, CreditCovers, vars
<1>2. CASE Next
  BY <1>2, RequestSafe, ReconcilerSafe, WorkerSafe DEF Next, FaultStep
<1>3. QED
  BY <1>1, <1>2

LEMMA Inductive == Spec => [](TypeInv /\ Safe)
<1>1. Init => TypeInv /\ Safe
  BY InitType, InitSafe
<1>2. TypeInv /\ Safe /\ [Next]_vars => (TypeInv /\ Safe)'
  BY TypeStep, SafeStep
<1>3. QED
  BY <1>1, <1>2, PTL DEF Spec

\* However many reconcilers overlap, no request is dispatched twice: the
\* committed claims of a row never outnumber its committed requests.
THEOREM NoDoubleClaim == Spec => []ClaimedOncePerRequest
<1>1. Safe => ClaimedOncePerRequest
  BY DEF Safe, CreditCovers, ClaimedOncePerRequest
<1>2. QED
  BY <1>1, Inductive, PTL

\* A claimed creation carries the version of the row it holds.
THEOREM CreationsClaimedExactly == Spec => []CreateClaimExact
<1>1. Safe => CreateClaimExact
  BY DEF Safe, ClaimsHeld, CreateClaimExact
<1>2. QED
  BY <1>1, Inductive, PTL

\* The rows a step may turn ACTIVE are those of a callback that commits.
LEMMA ActivatedByCallback ==
    ASSUME TypeInv, Safe, [Next]_vars, NEW t \in IndexTypes,
           row[t].status # "ACTIVE", row'[t].status = "ACTIVE"
    PROVE  \E w \in Workers : /\ worker[w].phase = "committing" /\ worker[w].type = t
                             /\ row'[t] = worker[w].write
<1>1. row' # row
  OBVIOUS
<1>2. CASE \E s \in Sessions : RequestStep(s)
  <2>1. PICK s \in Sessions : CommitRequest(s)
    BY <1>1, <1>2 DEF RequestStep, OpenRequest, LoadRows, CommitExpiry, RollbackRequest
  <2> DEFINE loaded == api[s].loaded[t]
  <2>2. row'[t] \in {row[t], Doomed(loaded, row[t]), Requested(loaded, row[t])}
    BY <2>1 DEF CommitRequest
  <2>3. row[t] \in Row
    BY DEF TypeInv, TypeOK
  <2> HIDE DEF loaded
  <2>4. Doomed(loaded, row[t]).status # "ACTIVE"
    BY <2>3 DEF Doomed, Row
  <2>5. Requested(loaded, row[t]).status # "ACTIVE"
    BY <2>3 DEF Requested, NewRow, Row
  <2>6. QED
    BY <2>2, <2>4, <2>5
<1>3. CASE \E r \in Reconcilers : Scan(r) \/ ReconcilerStep(r) \/ AbortClaim(r)
  <2>1. PICK r \in Reconcilers : CommitClaim(r)
    BY <1>1, <1>3 DEF ReconcilerStep, Scan, SelectCurrent, GuardedUpdate, EndClaiming, Publish, AbortClaim
  <2>2. row'[t].status \in {row[t].status, "CREATING", "DELETION_IN_PROGRESS"}
    BY <2>1 DEF CommitClaim, TypeInv, TypeOK, Row
  <2>3. QED
    BY <2>2
<1>4. CASE \E w \in Workers : WorkerStep(w) \/ Redeliver(w) \/ CallbackRaises(w) \/ WorkerDies(w)
  <2>1. PICK w \in Workers : CommitCallback(w)
    BY <1>1, <1>4 DEF WorkerStep, Receive, Redeliver, ParseDocument, TriggerIndexTasks, ValidateTask,
       CheckDocument, LoadDocument, RunIndexer, ReportSuccess, ReportFailure, EndFailure, CallbackRaises, WorkerDies
  <2>2. worker[w].phase = "committing" /\ row' = [row EXCEPT ![worker[w].type] = worker[w].write]
    BY <2>1 DEF CommitCallback
  <2>3. worker[w].type = t
    BY <2>2 DEF TypeInv, TypeOK
  <2>4. QED
    BY <2>2, <2>3 DEF TypeInv, TypeOK
<1>5. QED
  BY <1>1, <1>2, <1>3, <1>4 DEF Next, FaultStep, vars

\* Whatever was retried, redelivered or delayed, a row becomes ACTIVE only with
\* the version that is wanted of it at that moment.
THEOREM OnlyCurrentVersionActivates == Spec => OnlyCurrentActivates
<1>1. TypeInv /\ Safe /\ [Next]_vars =>
        [\A t \in IndexTypes :
           row[t].status # "ACTIVE" /\ row'[t].status = "ACTIVE"
             => row'[t].observed = row[t].version /\ row'[t].version = row[t].version]_vars
  <2> SUFFICES ASSUME TypeInv, Safe, [Next]_vars, NEW t \in IndexTypes,
                      row[t].status # "ACTIVE", row'[t].status = "ACTIVE"
               PROVE  row'[t].observed = row[t].version /\ row'[t].version = row[t].version
    OBVIOUS
  <2>1. PICK w \in Workers : /\ worker[w].phase = "committing" /\ worker[w].type = t
                            /\ row'[t] = worker[w].write
    BY ActivatedByCallback
  <2>2. QED
    BY <2>1 DEF Safe, CallbacksHeld
<1>2. QED
  BY <1>1, Inductive, PTL DEF OnlyCurrentActivates, Spec

-----------------------------------------------------------------------------
(* What a step may do to the document, to the rows and to the callbacks.   *)
(* The arguments below need only this of the next-state relation.          *)

HeldInProgress ==
    \A w \in Workers : worker[w].phase = "committing" => row[worker[w].type].status \in InProgress

\* Requests and callbacks are all that writes the document.
LEMMA DocWriters ==
    ASSUME [Next]_vars, doc' # doc
    PROVE  \/ \E s \in Sessions : CommitRequest(s) /\ api[s].op \in {"confirm", "delete"}
           \/ \E s \in Sessions : CommitExpiry(s)
           \/ \E w \in Workers : CommitCallback(w) /\ worker[w].docWrite # "keep"
<1>1. CASE \E s \in Sessions : RequestStep(s)
  BY <1>1 DEF RequestStep, OpenRequest, LoadRows, CommitRequest, RollbackRequest
<1>2. ~ \E r \in Reconcilers : Scan(r) \/ ReconcilerStep(r) \/ AbortClaim(r)
  BY DEF ReconcilerStep, Scan, SelectCurrent, GuardedUpdate, EndClaiming, Publish, CommitClaim, AbortClaim
<1>3. CASE \E w \in Workers : WorkerStep(w) \/ Redeliver(w) \/ CallbackRaises(w) \/ WorkerDies(w)
  <2>1. PICK w \in Workers : CommitCallback(w)
    BY <1>3 DEF WorkerStep, Receive, Redeliver, ParseDocument, TriggerIndexTasks, ValidateTask,
       CheckDocument, LoadDocument, RunIndexer, ReportSuccess, ReportFailure, EndFailure, CallbackRaises, WorkerDies
  <2>2. QED
    BY <2>1 DEF CommitCallback
<1>4. QED
  BY <1>1, <1>2, <1>3 DEF Next, FaultStep, vars

\* Requests, claims and callbacks are all that writes rows.
LEMMA RowWriters ==
    ASSUME [Next]_vars, row' # row
    PROVE  \/ \E s \in Sessions : CommitRequest(s)
           \/ \E r \in Reconcilers : CommitClaim(r)
           \/ \E w \in Workers : CommitCallback(w)
<1>1. CASE \E s \in Sessions : RequestStep(s)
  BY <1>1 DEF RequestStep, OpenRequest, LoadRows, CommitExpiry, RollbackRequest
<1>2. CASE \E r \in Reconcilers : Scan(r) \/ ReconcilerStep(r) \/ AbortClaim(r)
  BY <1>2 DEF ReconcilerStep, Scan, SelectCurrent, GuardedUpdate, EndClaiming, Publish, AbortClaim
<1>3. CASE \E w \in Workers : WorkerStep(w) \/ Redeliver(w) \/ CallbackRaises(w) \/ WorkerDies(w)
  BY <1>3 DEF WorkerStep, Receive, Redeliver, ParseDocument, TriggerIndexTasks, ValidateTask,
     CheckDocument, LoadDocument, RunIndexer, ReportSuccess, ReportFailure, EndFailure, CallbackRaises, WorkerDies
<1>4. QED
  BY <1>1, <1>2, <1>3 DEF Next, FaultStep, vars

\* A callback opens on a row in progress that nobody holds; what it will write
\* is ACTIVE only if the task of a build has succeeded.
Opens(w, t, new) ==
    /\ OpenCallback(w, t, new)
    /\ Free(t)
    /\ row[t].status \in InProgress
    /\ UNCHANGED <<row, doc, api>>
    /\ new.status = "ACTIVE" => worker[w].phase = "succeeded" /\ worker[w].msg.action # "DELETE"

LEMMA SuccessOpens ==
    ASSUME TypeInv, NEW w \in Workers, ReportSuccess(w), ~Finish(w, {})
    PROVE  \E t \in IndexTypes : \E new \in Row : Opens(w, t, new)
<1> DEFINE m == worker[w].msg
           t == TypeOf(m)
           built == [row[t] EXCEPT !.status = "ACTIVE", !.observed = m.target[t]]
           gone == Absent(row[t].id)
<1>1. m \in Message /\ t \in IndexTypes /\ m.target[t] \in Nat
  BY MessageType DEF ReportSuccess, TypeInv, Shape
<1>2. row[t] \in Row
  BY <1>1 DEF TypeInv, TypeOK
<1>3. UNCHANGED <<row, doc, api>> /\ Free(t) /\ worker[w].phase = "succeeded"
  BY DEF ReportSuccess
<1>4. \/ OpenCallback(w, t, gone) /\ row[t].status = "DELETION_IN_PROGRESS"
      \/ OpenCallback(w, t, built) /\ row[t].status = "CREATING" /\ m.action # "DELETE"
  BY DEF ReportSuccess, BuildIsCurrent
<1>5. built \in Row
  <2> HIDE DEF m, t
  <2>1. QED
    BY <1>1, <1>2 DEF Row, IndexStatus
<1>6. gone \in Row /\ gone.status = "ABSENT"
  BY <1>2 DEF Row, Absent
<1> HIDE DEF t, built, gone
<1>7. QED
  BY <1>1, <1>3, <1>4, <1>5, <1>6 DEF Opens, InProgress

LEMMA CallbackOpens ==
    ASSUME TypeInv, [Next]_vars, NEW w \in Workers,
           worker'[w].phase = "committing", worker'[w] # worker[w]
    PROVE  \E t \in IndexTypes : \E new \in Row : Opens(w, t, new)
<1>a. worker \in [Workers -> WorkerState] /\ worker[w] \in WorkerState
  BY DEF TypeInv, TypeOK
<1>1. PICK v \in Workers : WorkerStep(v) \/ Redeliver(v) \/ CallbackRaises(v) \/ WorkerDies(v)
  <2>1. UNCHANGED worker => FALSE
    OBVIOUS
  <2>2. QED
    BY <2>1 DEF Next, FaultStep, vars, RequestStep, OpenRequest, LoadRows, CommitRequest, CommitExpiry,
      RollbackRequest, ReconcilerStep, Scan, SelectCurrent, GuardedUpdate, EndClaiming, Publish, CommitClaim, AbortClaim
<1>2. ~ \E sent : Finish(v, sent)
  BY FinishLocal
<1>3. ~TaskFails(v)
  BY TaskFailsLocal
<1>4. ASSUME NEW x, worker' = [worker EXCEPT ![v] = x]
      PROVE  v = w /\ worker'[w] = x /\ x.phase = "committing"
  BY <1>4, <1>a
<1>5. ~ \E p \in {"relevant", "validated", "working", "succeeded"} :
          worker' = [worker EXCEPT ![v] = [worker[v] EXCEPT !.phase = p]]
  <2> SUFFICES ASSUME NEW p \in {"relevant", "validated", "working", "succeeded"},
                      worker' = [worker EXCEPT ![v] = [worker[v] EXCEPT !.phase = p]]
               PROVE  FALSE
    OBVIOUS
  <2>1. v = w /\ [worker[v] EXCEPT !.phase = p].phase = "committing"
    BY <1>4
  <2>2. QED
    BY <1>a, <2>1 DEF WorkerState
<1>6. ~(Receive(v) \/ Redeliver(v))
  <2> SUFFICES ASSUME NEW m, worker' = [worker EXCEPT ![v] = [worker[v] EXCEPT !.phase = "started", !.msg = m]]
               PROVE  FALSE
    BY DEF Receive, Redeliver
  <2>1. v = w /\ [worker[v] EXCEPT !.phase = "started", !.msg = m].phase = "committing"
    BY <1>4
  <2>2. QED
    BY <1>a, <2>1 DEF WorkerState
<1>7. ~(ParseDocument(v) \/ TriggerIndexTasks(v) \/ EndFailure(v) \/ CallbackRaises(v)
        \/ ValidateTask(v) \/ CheckDocument(v) \/ LoadDocument(v) \/ RunIndexer(v))
  BY <1>2, <1>3, <1>5 DEF ParseDocument, TriggerIndexTasks, EndFailure, CallbackRaises,
     ValidateTask, CheckDocument, LoadDocument, RunIndexer
<1>8. ~(WorkerDies(v) \/ CommitCallback(v))
  <2>1. IdleWorker.phase # "committing"
    BY DEF IdleWorker
  <2>2. [IdleWorker EXCEPT !.phase = "failed", !.msg = worker[v].msg, !.todo = worker[v].todo].phase # "committing"
    BY DEF IdleWorker
  <2>3. QED
    BY <1>2, <1>4, <2>1, <2>2 DEF WorkerDies, CommitCallback, AfterCallback
<1>9. CASE ReportSuccess(v)
  <2>1. PICK t \in IndexTypes, new \in Row : Opens(v, t, new)
    BY <1>2, <1>9, SuccessOpens
  <2>2. v = w
    BY <1>4, <2>1 DEF Opens, OpenCallback
  <2>3. QED
    BY <2>1, <2>2
<1>10. CASE ReportFailure(v)
  <2>1. PICK t \in worker[v].todo :
         /\ Free(t)
         /\ IF row[t].status \in InProgress
            THEN OpenCallback(v, t, [row[t] EXCEPT !.status = "FAILED"])
            ELSE /\ worker' = [worker EXCEPT ![v] = [worker[v] EXCEPT !.todo = worker[v].todo \ {t}]]
                 /\ UNCHANGED <<queue, lock>>
    BY <1>10 DEF ReportFailure
  <2>2. row[t].status \in InProgress
    <3> SUFFICES ASSUME worker' = [worker EXCEPT ![v] = [worker[v] EXCEPT !.todo = worker[v].todo \ {t}]]
                 PROVE  FALSE
      BY <2>1
    <3>1. v = w /\ [worker[v] EXCEPT !.todo = worker[v].todo \ {t}].phase = "committing"
      BY <1>4
    <3>2. QED
      BY <1>10, <1>a, <3>1 DEF ReportFailure, WorkerState
  <2> DEFINE failed == [row[t] EXCEPT !.status = "FAILED"]
  <2>3. OpenCallback(v, t, failed)
    BY <2>1, <2>2
  <2>4. t \in IndexTypes /\ row[t] \in Row
    BY <1>a DEF TypeInv, TypeOK, WorkerState
  <2>5. failed \in Row /\ failed.status = "FAILED"
    BY <2>4 DEF Row, IndexStatus
  <2> HIDE DEF failed
  <2>6. v = w
    BY <1>4, <2>3 DEF OpenCallback
  <2>7. UNCHANGED <<row, doc, api>>
    BY <1>10 DEF ReportFailure
  <2>8. QED
    BY <2>1, <2>2, <2>3, <2>4, <2>5, <2>6, <2>7 DEF Opens
<1>11. QED
  BY <1>1, <1>6, <1>7, <1>8, <1>9, <1>10 DEF WorkerStep

\* What the callback has in hand when it has opened.
LEMMA Opened ==
    ASSUME TypeInv, NEW w \in Workers, NEW t \in IndexTypes, NEW new \in Row, Opens(w, t, new)
    PROVE  /\ worker'[w].type = t /\ worker'[w].write = new /\ worker'[w].docWrite = DocWrite(t, new)
           /\ \A v \in Workers : v # w => worker'[v] = worker[v]
<1> DEFINE written == DocWrite(t, new)
           state == [worker[w] EXCEPT !.phase = "committing", !.type = t, !.todo = worker[w].todo \ {t},
                                      !.write = new, !.docWrite = written]
<1>1. worker' = [worker EXCEPT ![w] = state]
  BY DEF Opens, OpenCallback
<1> HIDE DEF written
<1>2. state.type = t /\ state.write = new /\ state.docWrite = written
  BY DEF TypeInv, TypeOK, WorkerState
<1> HIDE DEF state
<1>3. QED
  BY <1>1, <1>2 DEF TypeInv, TypeOK, written

\* A row with an open callback stays in progress until the callback commits.
LEMMA HeldStep ==
    ASSUME TypeInv, Safe, HeldInProgress, [Next]_vars
    PROVE  HeldInProgress'
<1> SUFFICES ASSUME NEW w \in Workers, worker'[w].phase = "committing"
             PROVE  row'[worker'[w].type].status \in InProgress
  BY DEF HeldInProgress
<1>1. CASE worker'[w] # worker[w]
  <2>1. PICK t \in IndexTypes, new \in Row : Opens(w, t, new)
    BY <1>1, CallbackOpens
  <2>2. QED
    BY <2>1, Opened DEF Opens
<1>2. CASE worker'[w] = worker[w]
  <2> DEFINE t == worker[w].type
  <2>1. t \in IndexTypes /\ lock[t] = w /\ row[t].status \in InProgress
    BY <1>2 DEF HeldInProgress, Safe, CallbacksHeld
  <2>2. row'[t] = row[t]
    <3>1. ASSUME NEW s \in Sessions, CommitRequest(s)
          PROVE  row'[t] = row[t]
      BY <2>1, <3>1, ActorsAssumption DEF CommitRequest, Free
    <3>2. ASSUME NEW r \in Reconcilers, CommitClaim(r)
          PROVE  row'[t] = row[t]
      <4>1. t \notin ClaimedTypes(r)
        BY <2>1, ActorsAssumption DEF ClaimedTypes, Safe, ClaimsHeld
      <4>2. QED
        BY <2>1, <3>2, <4>1 DEF CommitClaim
    <3>3. ASSUME NEW v \in Workers, CommitCallback(v)
          PROVE  row'[t] = row[t]
      <4>1. v # w
        <5>1. worker'[v] # worker[v]
          <6>1. worker'[v].phase # "committing"
            BY <3>3, CommitEnds
          <6>2. QED
            BY <3>3, <6>1 DEF CommitCallback
        <5>2. QED
          BY <1>2, <5>1
      <4>2. worker[v].type # t
        BY <2>1, <3>3, <4>1 DEF CommitCallback, Safe, CallbacksHeld
      <4>3. QED
        BY <2>1, <3>3, <4>2 DEF CommitCallback, TypeInv, TypeOK
    <3>4. QED
      BY <3>1, <3>2, <3>3, RowWriters
  <2>3. QED
    BY <1>2, <2>1, <2>2
<1>3. QED
  BY <1>1, <1>2

-----------------------------------------------------------------------------
(* A document nobody has confirmed is not built.  A task passes the check  *)
(* of the document only when the document has left UPLOADED, and it never  *)
(* comes back there.                                                       *)

Unconfirmed ==
    doc = "UPLOADED" =>
        /\ \A t \in IndexTypes : row[t].status # "ACTIVE"
        /\ \A w \in Workers :
             /\ worker[w].phase \in {"validated", "working", "succeeded"} => worker[w].msg.action = "DELETE"
             /\ worker[w].phase = "committing" => worker[w].write.status # "ACTIVE"

\* The overall status is never one of those before or after the pipeline.
LEMMA OverallInside == ASSUME NEW rows PROVE OverallStatus(rows) \in {"PENDING", "RUNNING", "COMPLETE", "FAILED"}
  BY DEF OverallStatus

LEMMA DocWriteInside ==
    ASSUME NEW t, NEW new
    PROVE  /\ DocWrite(t, new) \in {"keep", OverallStatus([row EXCEPT ![t] = new])}
           /\ DocWrite(t, new) # "keep" => doc \notin {"DELETED", "UPLOADED", "EXPIRED"}
           /\ DocWrite(t, new) = "keep" => \/ doc \in {"DELETED", "UPLOADED", "EXPIRED"}
                                           \/ doc = OverallStatus([row EXCEPT ![t] = new])
           /\ DocWrite(t, new) \notin {"UPLOADED", "EXPIRED", "DELETED"}
  BY OverallInside DEF DocWrite

\* What callbacks write over the document, for every open one.
WritesInside ==
    \A w \in Workers : worker[w].phase = "committing" =>
        worker[w].docWrite \notin {"UPLOADED", "EXPIRED", "DELETED"}

LEMMA WritesInsideStep ==
    ASSUME TypeInv, WritesInside, [Next]_vars
    PROVE  WritesInside'
<1> SUFFICES ASSUME NEW w \in Workers, worker'[w].phase = "committing"
             PROVE  worker'[w].docWrite \notin {"UPLOADED", "EXPIRED", "DELETED"}
  BY DEF WritesInside
<1>1. CASE worker'[w] # worker[w]
  <2>1. PICK t \in IndexTypes, new \in Row : Opens(w, t, new)
    BY <1>1, CallbackOpens
  <2>2. worker'[w].docWrite = DocWrite(t, new)
    BY <2>1, Opened
  <2>3. QED
    BY <2>2, DocWriteInside
<1>2. CASE worker'[w] = worker[w]
  BY <1>2 DEF WritesInside
<1>3. QED
  BY <1>1, <1>2

\* The document does not come back to UPLOADED.
LEMMA NeverUnconfirmedAgain ==
    ASSUME TypeInv, WritesInside, [Next]_vars, doc' = "UPLOADED"
    PROVE  doc = "UPLOADED"
<1> SUFFICES ASSUME doc' # doc PROVE FALSE
  OBVIOUS
<1>1. CASE \E s \in Sessions : CommitRequest(s) /\ api[s].op \in {"confirm", "delete"}
  BY <1>1 DEF CommitRequest
<1>2. CASE \E s \in Sessions : CommitExpiry(s)
  BY <1>2 DEF CommitExpiry
<1>3. CASE \E w \in Workers : CommitCallback(w) /\ worker[w].docWrite # "keep"
  BY <1>3 DEF CommitCallback, WritesInside
<1>4. QED
  BY <1>1, <1>2, <1>3, DocWriters

\* How a worker comes to one of the phases of a build.
LEMMA BuildAdvances ==
    ASSUME TypeInv, NEW v \in Workers, NEW w \in Workers,
           WorkerStep(v) \/ Redeliver(v) \/ CallbackRaises(v) \/ WorkerDies(v),
           worker'[w].phase \in {"validated", "working", "succeeded"}, worker'[w] # worker[w]
    PROVE  /\ worker'[w].msg = worker[w].msg
           /\ \/ worker[w].phase \in {"validated", "working"}
              \/ worker[w].msg.action = "DELETE"
              \/ doc \notin Unbuildable
<1>a. worker \in [Workers -> WorkerState] /\ worker[w] \in WorkerState
  BY DEF TypeInv, TypeOK
<1>b. ASSUME NEW x, worker' = [worker EXCEPT ![v] = x]
      PROVE  v = w /\ worker'[w] = x /\ x.phase \in {"validated", "working", "succeeded"}
  BY <1>b, <1>a
<1>1. ~ \E sent : Finish(v, sent)
  BY <1>b DEF Finish, IdleWorker
<1>2. ~TaskFails(v)
  <2>1. [worker[v] EXCEPT !.phase = "failed", !.todo = worker[v].msg.types].phase = "failed"
    BY <1>a DEF WorkerState, TypeInv, TypeOK
  <2>2. QED
    BY <1>1, <1>b, <2>1 DEF TaskFails
<1>3. ~(Receive(v) \/ Redeliver(v))
  <2> SUFFICES ASSUME NEW m, worker' = [worker EXCEPT ![v] = [worker[v] EXCEPT !.phase = "started", !.msg = m]]
               PROVE  FALSE
    BY DEF Receive, Redeliver
  <2>1. [worker[v] EXCEPT !.phase = "started", !.msg = m].phase = "started"
    BY <1>a DEF WorkerState, TypeInv, TypeOK
  <2>2. QED
    BY <1>b, <2>1
<1>4. ~(ParseDocument(v) \/ TriggerIndexTasks(v) \/ EndFailure(v) \/ CallbackRaises(v))
  BY <1>1, <1>2 DEF ParseDocument, TriggerIndexTasks, EndFailure, CallbackRaises
<1>5. ~WorkerDies(v)
  BY <1>b DEF WorkerDies, IdleWorker
<1>6. ~CommitCallback(v)
  <2>1. [IdleWorker EXCEPT !.phase = "failed", !.msg = worker[v].msg, !.todo = worker[v].todo].phase = "failed"
    BY DEF IdleWorker
  <2>2. QED
    BY <1>1, <1>b, <2>1 DEF CommitCallback, AfterCallback
<1>7. \A t, new : ~OpenCallback(v, t, new)
  <2> SUFFICES ASSUME NEW t, NEW new, OpenCallback(v, t, new) PROVE FALSE
    OBVIOUS
  <2> DEFINE written == DocWrite(t, new)
             x == [worker[v] EXCEPT !.phase = "committing", !.type = t, !.todo = worker[v].todo \ {t},
                                    !.write = new, !.docWrite = written]
  <2>1. worker' = [worker EXCEPT ![v] = x]
    BY DEF OpenCallback
  <2> HIDE DEF written
  <2>2. x.phase = "committing"
    BY <1>a DEF WorkerState, TypeInv, TypeOK
  <2> HIDE DEF x
  <2>3. QED
    BY <1>b, <2>1, <2>2
<1>8. ~ReportSuccess(v)
  BY <1>1, <1>7 DEF ReportSuccess
<1>9. ~ReportFailure(v)
  <2> SUFFICES ASSUME NEW t, worker[v].phase = "failed",
                      worker' = [worker EXCEPT ![v] = [worker[v] EXCEPT !.todo = worker[v].todo \ {t}]]
               PROVE  FALSE
    BY <1>7 DEF ReportFailure
  <2>1. [worker[v] EXCEPT !.todo = worker[v].todo \ {t}].phase = "failed"
    BY <1>a DEF WorkerState, TypeInv, TypeOK
  <2>2. QED
    BY <1>b, <2>1
<1>10. ASSUME NEW p, worker' = [worker EXCEPT ![v] = [worker[v] EXCEPT !.phase = p]]
       PROVE  v = w /\ worker'[w].msg = worker[w].msg /\ p \in {"validated", "working", "succeeded"}
  <2>1. v = w /\ worker'[w] = [worker[v] EXCEPT !.phase = p]
    BY <1>b, <1>10
  <2>2. QED
    BY <1>a, <2>1 DEF WorkerState
<1>11. CASE ValidateTask(v)
  BY <1>1, <1>10, <1>11 DEF ValidateTask
<1>12. CASE CheckDocument(v)
  BY <1>1, <1>10, <1>12 DEF CheckDocument
<1>13. CASE LoadDocument(v)
  BY <1>1, <1>2, <1>10, <1>13 DEF LoadDocument
<1>14. CASE RunIndexer(v)
  BY <1>1, <1>2, <1>10, <1>14 DEF RunIndexer
<1>15. QED
  BY <1>3, <1>4, <1>5, <1>6, <1>8, <1>9, <1>11, <1>12, <1>13, <1>14 DEF WorkerStep

LEMMA UnconfirmedStep ==
    ASSUME TypeInv, Safe, WritesInside, Unconfirmed, [Next]_vars
    PROVE  Unconfirmed'
<1> SUFFICES ASSUME doc' = "UPLOADED"
             PROVE  /\ \A t \in IndexTypes : row'[t].status # "ACTIVE"
                    /\ \A w \in Workers :
                         /\ worker'[w].phase \in {"validated", "working", "succeeded"} => worker'[w].msg.action = "DELETE"
                         /\ worker'[w].phase = "committing" => worker'[w].write.status # "ACTIVE"
  BY DEF Unconfirmed
<1>1. doc = "UPLOADED"
  BY NeverUnconfirmedAgain
<1>2. ASSUME NEW t \in IndexTypes
      PROVE  row'[t].status # "ACTIVE"
  BY <1>1, ActivatedByCallback DEF Unconfirmed
<1>3. ASSUME NEW w \in Workers, worker'[w].phase \in {"validated", "working", "succeeded"}
      PROVE  worker'[w].msg.action = "DELETE"
  <2>1. CASE worker'[w] = worker[w]
    BY <1>1, <1>3, <2>1 DEF Unconfirmed
  <2>2. CASE worker'[w] # worker[w]
    <3>1. PICK v \in Workers : WorkerStep(v) \/ Redeliver(v) \/ CallbackRaises(v) \/ WorkerDies(v)
      <4>1. UNCHANGED worker => FALSE
        BY <2>2
      <4>2. QED
        BY <4>1 DEF Next, FaultStep, vars, RequestStep, OpenRequest, LoadRows, CommitRequest, CommitExpiry,
          RollbackRequest, ReconcilerStep, Scan, SelectCurrent, GuardedUpdate, EndClaiming, Publish, CommitClaim, AbortClaim
    <3>2. /\ worker'[w].msg = worker[w].msg
          /\ worker[w].phase \in {"validated", "working"} \/ worker[w].msg.action = "DELETE"
      BY <1>1, <1>3, <2>2, <3>1, BuildAdvances DEF Unbuildable
    <3>3. QED
      BY <1>1, <3>2 DEF Unconfirmed
  <2>3. QED
    BY <2>1, <2>2
<1>4. ASSUME NEW w \in Workers, worker'[w].phase = "committing"
      PROVE  worker'[w].write.status # "ACTIVE"
  <2>1. CASE worker'[w] = worker[w]
    BY <1>1, <1>4, <2>1 DEF Unconfirmed
  <2>2. CASE worker'[w] # worker[w]
    <3>1. PICK t \in IndexTypes, new \in Row : Opens(w, t, new)
      BY <1>4, <2>2, CallbackOpens
    <3>2. new.status # "ACTIVE"
      BY <1>1, <3>1 DEF Opens, Unconfirmed
    <3>3. QED
      BY <3>1, <3>2, Opened
  <2>3. QED
    BY <2>1, <2>2
<1>5. QED
  BY <1>2, <1>3, <1>4

LEMMA InitUnconfirmed == Init => WritesInside /\ Unconfirmed
  BY DEF Init, WritesInside, Unconfirmed, IdleWorker, Absent

\* No index of an unconfirmed document is ever built, whatever was rebuilt,
\* retried or delivered late (_validate_task_relevance).
THEOREM UnconfirmedIsNotBuilt == Spec => []UnconfirmedNeverActive
<1>1. TypeInv /\ Safe /\ WritesInside /\ Unconfirmed /\ [Next]_vars => WritesInside' /\ Unconfirmed'
  BY WritesInsideStep, UnconfirmedStep
<1>2. Unconfirmed => UnconfirmedNeverActive
  BY DEF Unconfirmed, UnconfirmedNeverActive
<1>3. QED
  BY <1>1, <1>2, InitUnconfirmed, Inductive, PTL DEF Spec

-----------------------------------------------------------------------------
(* A callback and the deletion of its document.  A callback computes the   *)
(* overall status while it holds its row, and the deletion writes every    *)
(* row it has found: of two that overlap the deletion waits for the        *)
(* callback, unless it has missed the row.  Requests may overlap as they   *)
(* like: the status of the document they check plays no part.              *)

WholeDeletions ==
    \A s \in Sessions : api[s].phase # "idle" /\ api[s].op = "delete" => api[s].types = IndexTypes

DeletionInv == HeldInProgress /\ WritesInside /\ WholeDeletions

LEMMA RequestKeepsDeletionsWhole ==
    ASSUME TypeInv, WholeDeletions, NEW u \in Sessions, RequestStep(u)
    PROVE  WholeDeletions'
<1>a. api \in [Sessions -> SessionState] /\ api[u] \in SessionState
  BY DEF TypeInv, TypeOK
<1>b. ASSUME NEW x, api' = [api EXCEPT ![u] = x],
             x.phase # "idle" /\ x.op = "delete" => x.types = IndexTypes
      PROVE  WholeDeletions'
  BY <1>b, <1>a DEF WholeDeletions
<1>1. CASE OpenRequest(u)
  <2>1. PICK op, types :
          /\ types \in RequestTypes(op)
          /\ api' = [api EXCEPT ![u] = [IdleSession EXCEPT !.phase = "open", !.op = op, !.types = types]]
    BY <1>1 DEF OpenRequest
  <2> DEFINE x == [IdleSession EXCEPT !.phase = "open", !.op = op, !.types = types]
  <2>2. x.op = op /\ x.types = types /\ (op = "delete" => types = IndexTypes)
    BY <2>1 DEF IdleSession, RequestTypes
  <2>3. api' = [api EXCEPT ![u] = x]
    BY <2>1
  <2> HIDE DEF x
  <2>4. QED
    BY <1>b, <2>2, <2>3
<1>2. CASE LoadRows(u)
  <2> DEFINE loaded == [t \in IndexTypes |-> IF t \in api[u].types THEN row[t] ELSE Absent(0)]
             x == [api[u] EXCEPT !.phase = "loaded", !.loaded = loaded]
  <2>1. api' = [api EXCEPT ![u] = x] /\ api[u].phase = "open"
    BY <1>2 DEF LoadRows
  <2> HIDE DEF loaded
  <2>2. x.op = api[u].op /\ x.types = api[u].types
    BY <1>a DEF SessionState
  <2> HIDE DEF x
  <2>3. QED
    BY <1>b, <2>1, <2>2 DEF WholeDeletions
<1>3. CASE CommitRequest(u) \/ CommitExpiry(u) \/ RollbackRequest(u)
  <2>1. api' = [api EXCEPT ![u] = IdleSession] /\ IdleSession.phase = "idle"
    BY <1>3 DEF CommitRequest, CommitExpiry, RollbackRequest, IdleSession
  <2>2. QED
    BY <1>b, <2>1
<1>4. QED
  BY <1>1, <1>2, <1>3 DEF RequestStep

\* The steps of reconcilers and workers leave the requests alone.
LEMMA OthersKeepRequests ==
    ASSUME [Next]_vars, ~ \E s \in Sessions : RequestStep(s)
    PROVE  UNCHANGED api
  BY DEF Next, FaultStep, vars, ReconcilerStep, Scan, SelectCurrent, GuardedUpdate, EndClaiming, Publish,
     CommitClaim, AbortClaim, WorkerStep, Receive, Redeliver, ParseDocument, TriggerIndexTasks, ValidateTask,
     CheckDocument, LoadDocument, RunIndexer, ReportSuccess, ReportFailure, EndFailure, CommitCallback,
     CallbackRaises, WorkerDies

LEMMA WholeDeletionsStep ==
    ASSUME TypeInv, WholeDeletions, [Next]_vars
    PROVE  WholeDeletions'
<1>1. CASE \E u \in Sessions : RequestStep(u)
  BY <1>1, RequestKeepsDeletionsWhole
<1>2. CASE ~ \E u \in Sessions : RequestStep(u)
  BY <1>2, OthersKeepRequests DEF WholeDeletions
<1>3. QED
  BY <1>1, <1>2

\* A deletion that commits while a callback is open has missed its row.
LEMMA DeletionWaits ==
    ASSUME TypeInv, Safe, DeletionInv, NEW s \in Sessions, CommitRequest(s), api[s].op = "delete",
           NEW w \in Workers, worker[w].phase = "committing"
    PROVE  api'[s] # api[s] /\ Missed(s, worker[w].type)
<1> DEFINE t == worker[w].type
<1>1. t \in IndexTypes /\ lock[t] = w /\ row[t].status \in InProgress
  BY DEF DeletionInv, HeldInProgress, Safe, CallbacksHeld
<1>2. api[s].phase = "loaded" /\ t \in api[s].types
  BY <1>1 DEF DeletionInv, WholeDeletions, CommitRequest
<1>3. api[s].loaded[t].status = "ABSENT"
  <2>1. SUFFICES ASSUME api[s].loaded[t].status # "ABSENT" PROVE FALSE
    OBVIOUS
  <2>2. t \in Written(s)
    BY <1>2, <2>1 DEF Written
  <2>3. QED
    BY <1>1, <2>2, ActorsAssumption DEF CommitRequest, Free
<1>4. api'[s].phase = "idle"
  BY DEF CommitRequest, TypeInv, TypeOK, IdleSession
<1>5. QED
  BY <1>1, <1>2, <1>3, <1>4 DEF Missed, Exists, InProgress

\* What brings a deleted document back.
LEMMA DeletionUndone ==
    ASSUME TypeInv, [Next]_vars, doc = "DELETED", doc' # "DELETED"
    PROVE  \/ \E s \in Sessions : api[s].op \in {"confirm", "expire"} /\ api'[s] = IdleSession
           \/ \E w \in Workers : Overwrites(w) /\ ~Overwrites(w)'
<1>1. ASSUME NEW s \in Sessions, CommitRequest(s), api[s].op \in {"confirm", "delete"}
      PROVE  api[s].op = "confirm" /\ api'[s] = IdleSession
  BY <1>1 DEF CommitRequest, TypeInv, TypeOK
<1>2. ASSUME NEW s \in Sessions, CommitExpiry(s)
      PROVE  api[s].op = "expire" /\ api'[s] = IdleSession
  BY <1>2 DEF CommitExpiry, TypeInv, TypeOK
<1>3. ASSUME NEW w \in Workers, CommitCallback(w), worker[w].docWrite # "keep"
      PROVE  Overwrites(w) /\ ~Overwrites(w)'
  BY <1>3, CommitEnds DEF CommitCallback, Overwrites
<1>4. QED
  BY <1>1, <1>2, <1>3, DocWriters

\* Whoever may still write over a deleted document had read it before, and its
\* row is one the deletion has missed.
LEMMA OverwritesBefore ==
    ASSUME TypeInv, Safe, DeletionInv, [Next]_vars, doc' = "DELETED", NEW w \in Workers, Overwrites(w)'
    PROVE  /\ Overwrites(w)
           /\ \/ doc = "DELETED"
              \/ \E s \in Sessions : api'[s] # api[s] /\ Missed(s, worker[w].type)
<1>1. worker'[w] = worker[w]
  <2>1. SUFFICES ASSUME worker'[w] # worker[w] PROVE FALSE
    OBVIOUS
  <2>2. worker'[w].phase = "committing" /\ worker'[w].docWrite # "keep"
    BY DEF Overwrites
  <2>3. PICK t \in IndexTypes, new \in Row : Opens(w, t, new)
    BY <2>1, <2>2, CallbackOpens
  <2>4. worker'[w].docWrite = DocWrite(t, new) /\ doc' = doc
    BY <2>3, Opened DEF Opens
  <2>5. QED
    BY <2>2, <2>4, DocWriteInside
<1>2. Overwrites(w)
  BY <1>1 DEF Overwrites
<1>3. CASE doc # "DELETED"
  <2>1. doc' # doc
    BY <1>3
  <2>2. ASSUME NEW s \in Sessions, CommitRequest(s), api[s].op \in {"confirm", "delete"}
        PROVE  api[s].op = "delete"
    BY <2>2 DEF CommitRequest
  <2>3. ASSUME NEW s \in Sessions, CommitExpiry(s) PROVE FALSE
    BY <2>3 DEF CommitExpiry
  <2>4. ASSUME NEW v \in Workers, CommitCallback(v), worker[v].docWrite # "keep" PROVE FALSE
    BY <2>4 DEF CommitCallback, DeletionInv, WritesInside
  <2>5. PICK s \in Sessions : CommitRequest(s) /\ api[s].op = "delete"
    BY <2>1, <2>2, <2>3, <2>4, DocWriters
  <2>6. QED
    BY <1>2, <2>5, DeletionWaits DEF Overwrites
<1>4. QED
  BY <1>2, <1>3

\* Whatever requests overlap, a callback that read the document before its
\* deletion does not write over it, unless another request had inserted the row
\* while the deletion was under way (_update_document_status).
THEOREM DeletionIsRespected == Spec => CallbacksRespectDeletion
<1> DEFINE Kept ==
      /\ doc = "DELETED" /\ doc' # "DELETED" =>
           \/ \E s \in Sessions : api[s].op \in {"confirm", "expire"} /\ api'[s] = IdleSession
           \/ \E w \in Workers : Overwrites(w) /\ ~Overwrites(w)'
      /\ doc' = "DELETED" =>
           \A w \in Workers : Overwrites(w)' =>
               /\ Overwrites(w)
               /\ \/ doc = "DELETED"
                  \/ \E s \in Sessions : api'[s] # api[s] /\ Missed(s, worker[w].type)
<1>1. Init => DeletionInv
  BY DEF Init, DeletionInv, HeldInProgress, WritesInside, WholeDeletions, IdleWorker, IdleSession
<1>2. TypeInv /\ Safe /\ DeletionInv /\ [Next]_vars => DeletionInv'
  BY HeldStep, WritesInsideStep, WholeDeletionsStep DEF DeletionInv
<1>3. TypeInv /\ Safe /\ DeletionInv /\ [Next]_vars => Kept
  BY DeletionUndone, OverwritesBefore
<1>4. TypeInv /\ Safe /\ DeletionInv /\ [Next]_vars => [Kept]_vars
  BY <1>3
<1> HIDE DEF Kept
<1>5. Spec => [][Kept]_vars
  BY <1>1, <1>2, <1>4, Inductive, PTL DEF Spec
<1>6. QED
  BY <1>5 DEF Kept, CallbacksRespectDeletion

=============================================================================
