----------------------- MODULE CollectionSummary_proofs -----------------------
(***************************************************************************)
(* Theorems about CollectionSummary, for any collections, requests,        *)
(* reconcilers and messages, and any bounds.                               *)
(***************************************************************************)
EXTENDS CollectionSummary, TLAPS

Texts == [by : {"user", "summary"}, n : Nat]

CollectionRows == [alive : BOOLEAN, enabled : BOOLEAN, stamp : Nat, description : Texts]

SummaryRows == [status : Status, id : Nat, version : Nat, observed : Nat, summary : Nat]

RequestStates ==
    [phase : {"idle", "update", "trigger", "write"}, c : Collections \cup {Nobody}, n : Nat,
     enable : BOOLEAN, seen : SummaryRows]

ReconcilerStates ==
    [phase : {"idle", "next", "publish", "commit"}, todo : SUBSET (Collections \X Nat \X Nat),
     expired : BOOLEAN, current : Collections \cup {Nobody}, version : Nat, claimed : SUBSET Collections]

TaskStates ==
    [phase : {"none", "sent", "report", "store", "failing"}, c : Collections \cup {Nobody}, id : Nat,
     version : Nat, enabled : BOOLEAN, stamp : Nat, text : Nat]

RowsTyped ==
    /\ collection \in [Collections -> CollectionRows]
    /\ row \in [Collections -> SummaryRows]
    /\ lock \in [Collections -> Reconcilers \cup {Nobody}]
    /\ sent \in Nat

RequestsTyped ==
    /\ request \in [Requests -> RequestStates]
    /\ \A q \in Requests : request[q].phase # "idle" => request[q].c \in Collections

ReconcilersTyped ==
    /\ reconciler \in [Reconcilers -> ReconcilerStates]
    /\ \A r \in Reconcilers : reconciler[r].phase = "publish" => reconciler[r].current \in Collections

TasksTyped ==
    /\ task \in [Tasks -> TaskStates]
    /\ \A t \in Tasks : task[t].phase # "none" => task[t].c \in Collections

\* A claim holds its row's lock, and the row is as the UPDATE found it.
ClaimsLocked ==
    \A r \in Reconcilers : \A c \in reconciler[r].claimed :
        lock[c] = r /\ row[c].status \notin {"none", "GENERATING"}

Typed == RowsTyped /\ RequestsTyped /\ ReconcilersTyped /\ TasksTyped

IInv == Typed /\ ClaimsLocked

-----------------------------------------------------------------------------
(* The initial states                                                      *)

LEMMA Idle ==
    /\ \A n \in Nat : NoRow(n) \in SummaryRows /\ NewRow(n) \in SummaryRows
    /\ IdleRequest \in RequestStates /\ IdleRequest.phase = "idle"
    /\ IdleReconciler \in ReconcilerStates /\ IdleReconciler.phase = "idle" /\ IdleReconciler.claimed = {}
    /\ IdleTask \in TaskStates /\ IdleTask.phase = "none"
<1>1. \A n \in Nat : NoRow(n) \in SummaryRows /\ NewRow(n) \in SummaryRows
  BY DEF NoRow, NewRow, SummaryRows, Status
<1>2. IdleRequest \in RequestStates /\ IdleRequest.phase = "idle"
  BY <1>1 DEF IdleRequest, RequestStates
<1>3. QED
  BY <1>1, <1>2 DEF IdleReconciler, ReconcilerStates, IdleTask, TaskStates

\* What the actions write has the type of its place.
LEMMA Edits ==
    /\ \A x \in RequestStates, c \in Collections, n \in Nat, b \in BOOLEAN :
          /\ [x EXCEPT !.phase = "update", !.c = c, !.n = n, !.enable = b] \in RequestStates
          /\ [x EXCEPT !.phase = "update", !.c = c, !.n = n, !.enable = b].c = c
    /\ \A x \in CollectionRows, n \in Nat, b \in BOOLEAN :
          [x EXCEPT !.description = Text("user", n), !.enabled = b] \in CollectionRows
    /\ \A x \in CollectionRows, n \in Nat :
          [x EXCEPT !.description = Text("summary", n), !.stamp = @ + 1] \in CollectionRows
    /\ \A x \in SummaryRows, n, m \in Nat :
          [x EXCEPT !.status = "COMPLETE", !.summary = n, !.observed = m] \in SummaryRows
<1>1. \A n \in Nat : Text("user", n) \in Texts /\ Text("summary", n) \in Texts
  BY DEF Text, Texts
<1>2. ASSUME NEW x \in RequestStates, NEW c \in Collections, NEW n \in Nat, NEW b \in BOOLEAN
      PROVE  /\ [x EXCEPT !.phase = "update", !.c = c, !.n = n, !.enable = b] \in RequestStates
             /\ [x EXCEPT !.phase = "update", !.c = c, !.n = n, !.enable = b].c = c
  BY DEF RequestStates
<1>3. ASSUME NEW x \in CollectionRows, NEW b \in BOOLEAN, NEW text \in Texts
      PROVE  /\ [x EXCEPT !.description = text, !.enabled = b] \in CollectionRows
             /\ [x EXCEPT !.description = text, !.stamp = @ + 1] \in CollectionRows
  <2>1. x.stamp \in Nat /\ x.stamp + 1 \in Nat
    BY DEF CollectionRows
  <2>2. [x EXCEPT !.description = text, !.enabled = b] \in CollectionRows
    BY DEF CollectionRows
  <2>3. [x EXCEPT !.description = text, !.stamp = @ + 1] \in CollectionRows
    BY <2>1 DEF CollectionRows
  <2>4. QED
    BY <2>2, <2>3
<1>4. ASSUME NEW x \in SummaryRows, NEW n \in Nat, NEW m \in Nat
      PROVE  [x EXCEPT !.status = "COMPLETE", !.summary = n, !.observed = m] \in SummaryRows
  BY DEF SummaryRows, Status
<1>5. QED
  BY <1>1, <1>2, <1>3, <1>4

LEMMA Start == Init => IInv
<1>1. SUFFICES ASSUME Init PROVE IInv
  OBVIOUS
<1>2. RowsTyped
  BY <1>1, Idle DEF Init, RowsTyped, CollectionRows, Texts, Text
<1>3. QED
  BY <1>1, <1>2, Idle DEF Init, IInv, Typed, RequestsTyped, ReconcilersTyped, TasksTyped, ClaimsLocked

\* A row that is written while nobody has it locked is nobody's claim.
LEMMA RowWritten ==
    ASSUME IInv, NEW c \in Collections, NEW new \in SummaryRows,
           row' = row \/ (lock[c] = Nobody /\ row' = [row EXCEPT ![c] = new]),
           UNCHANGED <<lock, reconciler>>
    PROVE  row' \in [Collections -> SummaryRows] /\ ClaimsLocked'
<1> USE DEF IInv, Typed
<1>1. row' \in [Collections -> SummaryRows]
  BY DEF RowsTyped
<1>2. ASSUME NEW r \in Reconcilers, NEW d \in reconciler[r].claimed
      PROVE  lock[d] = r /\ row'[d] = row[d]
  <2>1. lock[d] = r /\ lock[d] # Nobody
    BY NobodyAssumption DEF ClaimsLocked
  <2>2. d \in Collections
    BY DEF ReconcilersTyped, ReconcilerStates
  <2>3. QED
    BY <2>1, <2>2 DEF RowsTyped
<1>3. QED
  BY <1>1, <1>2 DEF ClaimsLocked

-----------------------------------------------------------------------------
(* Requests                                                                *)

\* A request writes a summary's row only while no claim holds it.
LEMMA Requesting ==
    ASSUME IInv, NEW q \in Requests, OpenUpdate(q) \/ RequestStep(q)
    PROVE  IInv'
<1> USE DEF IInv, Typed
<1>1. UNCHANGED <<lock, reconciler, task>>
  BY DEF OpenUpdate, RequestStep, CommitUpdate, UpdateRefused, ReadSummary, BumpVersion, InsertSummary, DeleteSummary
<1>2. ReconcilersTyped' /\ TasksTyped'
  BY <1>1 DEF ReconcilersTyped, TasksTyped
<1>3. CASE OpenUpdate(q)
  <2>1. PICK c \in Collections, enable \in BOOLEAN :
          /\ sent' = sent + 1
          /\ request' = [request EXCEPT ![q] =
               [IdleRequest EXCEPT !.phase = "update", !.c = c, !.n = sent + 1, !.enable = enable]]
          /\ UNCHANGED <<collection, row, lock, reconciler, task, faults>>
    BY <1>3 DEF OpenUpdate
  <2>2. /\ [IdleRequest EXCEPT !.phase = "update", !.c = c, !.n = sent + 1, !.enable = enable] \in RequestStates
        /\ [IdleRequest EXCEPT !.phase = "update", !.c = c, !.n = sent + 1, !.enable = enable].c = c
    <3>1. IdleRequest \in RequestStates /\ sent + 1 \in Nat
      BY Idle DEF RowsTyped
    <3>2. QED
      BY <3>1 DEF RequestStates
  <2>3. RequestsTyped'
    BY <2>1, <2>2 DEF RequestsTyped
  <2>4. QED
    BY <2>1, <2>3, <1>2 DEF RowsTyped, ClaimsLocked
<1>4. ASSUME NEW x \in RequestStates, request' = [request EXCEPT ![q] = x], x.phase # "idle" => x.c \in Collections
      PROVE  RequestsTyped'
  BY <1>4 DEF RequestsTyped
<1>5. EndRequest(q) => RequestsTyped'
  BY <1>4, Idle DEF EndRequest
<1>6. CASE CommitUpdate(q)
  <2> DEFINE c == request[q].c
  <2>1. c \in Collections /\ request[q] \in RequestStates
    BY <1>6 DEF CommitUpdate, RequestsTyped
  <2>2. [request[q] EXCEPT !.phase = "trigger"] \in RequestStates
    BY <2>1 DEF RequestStates
  <2>3. RequestsTyped'
    BY <1>4, <1>6, <2>1, <2>2 DEF CommitUpdate, RequestStates
  <2>4. [collection[c] EXCEPT !.description = Text("user", request[q].n), !.enabled = request[q].enable] \in CollectionRows
    <3>1. collection[c] \in CollectionRows /\ request[q].n \in Nat /\ request[q].enable \in BOOLEAN
      BY <2>1 DEF RowsTyped, RequestStates
    <3>2. QED
      BY <3>1, Edits
  <2>5. RowsTyped'
    BY <1>6, <2>1, <2>4 DEF CommitUpdate, RowsTyped
  <2>6. QED
    BY <1>2, <1>6, <2>3, <2>5 DEF CommitUpdate, ClaimsLocked
<1>7. CASE UpdateRefused(q)
  BY <1>2, <1>5, <1>7 DEF UpdateRefused, RowsTyped, ClaimsLocked
<1>8. CASE ReadSummary(q)
  <2>1. request[q] \in RequestStates /\ request[q].c \in Collections /\ row[request[q].c] \in SummaryRows
    BY <1>8 DEF ReadSummary, RequestsTyped, RowsTyped
  <2>2. [request[q] EXCEPT !.phase = "write", !.seen = row[request[q].c]] \in RequestStates
    BY <2>1 DEF RequestStates
  <2>3. RequestsTyped'
    BY <1>4, <1>8, <2>1, <2>2, Idle DEF ReadSummary, RequestStates
  <2>4. QED
    BY <1>2, <1>8, <2>3 DEF ReadSummary, RowsTyped, ClaimsLocked
<1>9. CASE BumpVersion(q) \/ InsertSummary(q) \/ DeleteSummary(q)
  <2> DEFINE c == request[q].c
  <2>1. /\ request[q].seen \in SummaryRows /\ c \in Collections /\ row[c] \in SummaryRows
        /\ request[q].seen.id \in Nat /\ request[q].seen.version \in Nat /\ row[c].id \in Nat
    BY <1>9 DEF BumpVersion, InsertSummary, DeleteSummary, RequestsTyped, RequestStates, RowsTyped, SummaryRows
  <2>2. [row[c] EXCEPT !.version = request[q].seen.version + 1] \in SummaryRows
    BY <2>1 DEF SummaryRows
  <2>3. \E new \in SummaryRows : row' = row \/ (lock[c] = Nobody /\ row' = [row EXCEPT ![c] = new])
    <3>1. CASE BumpVersion(q)
      BY <3>1, <2>1, <2>2 DEF BumpVersion, MayWrite
    <3>2. CASE InsertSummary(q)
      BY <3>2, <2>1, Idle DEF InsertSummary
    <3>3. CASE DeleteSummary(q)
      BY <3>3, <2>1, Idle DEF DeleteSummary, MayWrite
    <3>4. QED
      BY <1>9, <3>1, <3>2, <3>3
  <2>4. UNCHANGED <<collection, sent, lock, reconciler>> /\ EndRequest(q)
    BY <1>9 DEF BumpVersion, InsertSummary, DeleteSummary
  <2>5. row' \in [Collections -> SummaryRows] /\ ClaimsLocked'
    BY <2>1, <2>3, <2>4, RowWritten
  <2>6. QED
    BY <1>2, <1>5, <2>4, <2>5 DEF RowsTyped
<1>10. QED
  BY <1>3, <1>6, <1>7, <1>8, <1>9 DEF RequestStep

\* A deletion of the collection leaves the summaries alone.
LEMMA Deleting ==
    ASSUME IInv, NEW c \in Collections, DeleteCollection(c)
    PROVE  IInv'
<1>1. [collection[c] EXCEPT !.alive = FALSE] \in CollectionRows
  BY DEF IInv, Typed, RowsTyped, CollectionRows
<1>2. QED
  BY <1>1 DEF DeleteCollection, IInv, Typed, RowsTyped, RequestsTyped, ReconcilersTyped, TasksTyped, ClaimsLocked

-----------------------------------------------------------------------------
(* Reconcilers                                                             *)

\* A reconciler that gives its claims up leaves those of the others.
LEMMA Released ==
    ASSUME IInv, NEW r \in Reconcilers, NEW x \in ReconcilerStates, x.claimed = {},
           reconciler' = [reconciler EXCEPT ![r] = x], lock' = Unlock(r),
           \A d \in Collections : d \notin reconciler[r].claimed => row'[d] = row[d]
    PROVE  lock' \in [Collections -> Reconcilers \cup {Nobody}] /\ ClaimsLocked'
<1> USE DEF IInv, Typed
<1>1. lock' \in [Collections -> Reconcilers \cup {Nobody}]
  BY DEF RowsTyped, Unlock
<1>2. reconciler'[r].claimed = {}
  BY DEF ReconcilersTyped
<1>3. ASSUME NEW s \in Reconcilers, s # r, NEW d \in reconciler'[s].claimed
      PROVE  lock'[d] = s /\ row'[d].status \notin {"none", "GENERATING"}
  <2>1. d \in reconciler[s].claimed /\ d \in Collections
    BY <1>3 DEF ReconcilersTyped, ReconcilerStates
  <2>2. lock[d] = s /\ row[d].status \notin {"none", "GENERATING"}
    BY <2>1 DEF ClaimsLocked
  <2>3. d \notin reconciler[r].claimed
    BY <1>3, <2>2 DEF ClaimsLocked
  <2>4. QED
    BY <1>3, <2>1, <2>2, <2>3 DEF Unlock
<1>4. QED
  BY <1>1, <1>2, <1>3 DEF ClaimsLocked

\* The other reconcilers keep their types.
LEMMA ReconcilerWritten ==
    ASSUME IInv, NEW r \in Reconcilers, NEW x \in ReconcilerStates,
           reconciler' = [reconciler EXCEPT ![r] = x],
           x.phase = "publish" => x.current \in Collections
    PROVE  ReconcilersTyped'
BY DEF IInv, Typed, ReconcilersTyped

\* The UPDATE of a claim waits for the claims of the others.
LEMMA ClaimTyped ==
    ASSUME IInv, NEW r \in Reconcilers, Claim(r)
    PROVE  IInv'
<1> USE DEF IInv, Typed
<1>1. RequestsTyped' /\ TasksTyped' /\ UNCHANGED <<row, collection, sent>>
  BY DEF Claim, RequestsTyped, TasksTyped
<1>2. reconciler[r] \in ReconcilerStates
  BY DEF ReconcilersTyped
<1>3. PICK s \in reconciler[r].todo :
        \E v \in IF reconciler[r].expired THEN {s[3], row[s[1]].version} ELSE {s[3]} :
          /\ MayWrite(s[1], s[2]) \/ lock[s[1]] = r
          /\ IF row[s[1]].status \notin {"none", "GENERATING"} /\ row[s[1]].id = s[2] /\ row[s[1]].version = v
             THEN /\ lock' = [lock EXCEPT ![s[1]] = r]
                  /\ reconciler' = [reconciler EXCEPT ![r] = Claiming(r, s, v)]
             ELSE /\ reconciler' = [reconciler EXCEPT ![r] = PassingOver(r, s)]
                  /\ UNCHANGED lock
  BY DEF Claim
<1> DEFINE c == s[1]
<1>4. PICK v \in IF reconciler[r].expired THEN {s[3], row[c].version} ELSE {s[3]} :
        /\ MayWrite(c, s[2]) \/ lock[c] = r
        /\ IF row[c].status \notin {"none", "GENERATING"} /\ row[c].id = s[2] /\ row[c].version = v
           THEN /\ lock' = [lock EXCEPT ![c] = r]
                /\ reconciler' = [reconciler EXCEPT ![r] = Claiming(r, s, v)]
           ELSE /\ reconciler' = [reconciler EXCEPT ![r] = PassingOver(r, s)]
                /\ UNCHANGED lock
  BY <1>3
<1>5. c \in Collections /\ v \in Nat
  <2>1. s \in Collections \X Nat \X Nat
    BY <1>2, <1>3 DEF ReconcilerStates
  <2>2. s[1] \in Collections /\ s[3] \in Nat
    BY <2>1
  <2>3. row[s[1]].version \in Nat
    BY <2>2 DEF RowsTyped, SummaryRows
  <2>4. QED
    BY <1>4, <2>2, <2>3
<1>6. CASE row[c].status \notin {"none", "GENERATING"} /\ row[c].id = s[2] /\ row[c].version = v
  <2> DEFINE x == Claiming(r, s, v)
  <2>1. x \in ReconcilerStates /\ x.current = c /\ x.claimed = reconciler[r].claimed \cup {c}
    BY <1>2, <1>5 DEF ReconcilerStates, Claiming
  <2>2. reconciler' = [reconciler EXCEPT ![r] = x] /\ lock' = [lock EXCEPT ![c] = r]
    BY <1>4, <1>6
  <2>3. ReconcilersTyped'
    BY <1>5, <2>1, <2>2, ReconcilerWritten
  <2>4. RowsTyped'
    BY <1>1, <2>2 DEF RowsTyped
  <2>5. lock[c] = Nobody \/ lock[c] = r
    BY <1>4, <1>6 DEF MayWrite
  <2>6. ASSUME NEW q \in Reconcilers, NEW d \in reconciler'[q].claimed
        PROVE  lock'[d] = q /\ row'[d].status \notin {"none", "GENERATING"}
    <3>1. CASE q = r
      <4>1. d \in reconciler[r].claimed \cup {c}
        BY <2>1, <2>2, <2>6, <3>1 DEF ReconcilersTyped
      <4>2. d \in Collections
        BY <1>2, <1>5, <4>1 DEF ReconcilerStates
      <4>3. QED
        BY <1>1, <1>6, <2>2, <3>1, <4>1, <4>2 DEF ClaimsLocked, RowsTyped
    <3>2. CASE q # r
      <4>1. d \in reconciler[q].claimed /\ d \in Collections
        BY <2>2, <2>6, <3>2 DEF ReconcilersTyped, ReconcilerStates
      <4>2. lock[d] = q /\ row[d].status \notin {"none", "GENERATING"}
        BY <4>1 DEF ClaimsLocked
      <4>3. d # c
        BY <2>5, <3>2, <4>2, NobodyAssumption
      <4>4. QED
        BY <1>1, <2>2, <4>1, <4>2, <4>3 DEF RowsTyped
    <3>3. QED
      BY <3>1, <3>2
  <2>7. QED
    BY <1>1, <2>3, <2>4, <2>6 DEF ClaimsLocked
<1>7. CASE ~(row[c].status \notin {"none", "GENERATING"} /\ row[c].id = s[2] /\ row[c].version = v)
  <2> DEFINE x == PassingOver(r, s)
  <2>1. /\ x \in ReconcilerStates /\ x.claimed = reconciler[r].claimed
        /\ x.phase = reconciler[r].phase /\ x.current = reconciler[r].current
    BY <1>2 DEF ReconcilerStates, PassingOver
  <2>2. reconciler' = [reconciler EXCEPT ![r] = x] /\ lock' = lock
    BY <1>4, <1>7
  <2>3. ReconcilersTyped'
    BY <2>1, <2>2, ReconcilerWritten DEF ReconcilersTyped
  <2>4. \A q \in Reconcilers : reconciler'[q].claimed = reconciler[q].claimed
    BY <2>1, <2>2 DEF ReconcilersTyped
  <2>5. QED
    BY <1>1, <2>2, <2>3, <2>4 DEF RowsTyped, ClaimsLocked
<1>8. QED
  BY <1>6, <1>7

\* A task is published for the row that was claimed.
LEMMA Publishing ==
    ASSUME IInv, NEW r \in Reconcilers, Publish(r)
    PROVE  IInv'
<1> USE DEF IInv, Typed
<1> DEFINE c == reconciler[r].current
<1>1. PICK t \in Tasks :
        /\ task' = [task EXCEPT ![t] =
                      [IdleTask EXCEPT !.phase = "sent", !.c = c, !.id = row[c].id, !.version = reconciler[r].version]]
        /\ reconciler' = [reconciler EXCEPT ![r].phase = "commit"]
        /\ reconciler[r].phase = "publish"
        /\ UNCHANGED <<collection, row, lock, request, sent, faults>>
  BY DEF Publish
<1>2. RowsTyped' /\ RequestsTyped'
  BY <1>1 DEF RowsTyped, RequestsTyped
<1>3. reconciler[r] \in ReconcilerStates /\ c \in Collections /\ reconciler[r].version \in Nat
  BY <1>1 DEF ReconcilersTyped, ReconcilerStates
<1>4. row[c].id \in Nat
  BY <1>3 DEF RowsTyped, SummaryRows
<1> DEFINE m == [IdleTask EXCEPT !.phase = "sent", !.c = c, !.id = row[c].id, !.version = reconciler[r].version]
<1>5. m \in TaskStates /\ m.c = c
  BY <1>3, <1>4, Idle DEF TaskStates
<1>6. TasksTyped'
  BY <1>1, <1>3, <1>5 DEF TasksTyped
<1>7. [reconciler[r] EXCEPT !.phase = "commit"] \in ReconcilerStates
  BY <1>3 DEF ReconcilerStates
<1>8. ReconcilersTyped'
  BY <1>1, <1>7 DEF ReconcilersTyped, ReconcilerStates
<1>9. \A q \in Reconcilers : reconciler'[q].claimed = reconciler[q].claimed
  BY <1>1 DEF ReconcilersTyped, ReconcilerStates
<1>10. QED
  BY <1>1, <1>2, <1>6, <1>8, <1>9 DEF ClaimsLocked

\* The other steps of a reconciler give its claims up, or leave them.
LEMMA Reconciling ==
    ASSUME IInv, NEW r \in Reconcilers, Scan(r) \/ ReconcilerStep(r) \/ PublishFails(r) \/ ReconcilerDies(r)
    PROVE  IInv'
<1> USE DEF IInv, Typed
<1>1. reconciler[r] \in ReconcilerStates
  BY DEF ReconcilersTyped
<1>2. CASE Scan(r)
  <2> DEFINE x == [IdleReconciler EXCEPT !.phase = "next", !.todo = {<<c, row[c].id, row[c].version>> : c \in Needed}]
  <2>1. {<<c, row[c].id, row[c].version>> : c \in Needed} \in SUBSET (Collections \X Nat \X Nat)
    BY DEF Needed, RowsTyped, SummaryRows
  <2>2. x \in ReconcilerStates /\ x.phase = "next" /\ x.claimed = {}
    BY <2>1, Idle DEF ReconcilerStates
  <2>3. /\ reconciler' = [reconciler EXCEPT ![r] = x]
        /\ UNCHANGED <<collection, row, lock, request, task, sent>>
    BY <1>2 DEF Scan
  <2>4. ReconcilersTyped'
    BY <2>2, <2>3, ReconcilerWritten
  <2>5. ClaimsLocked'
    BY <2>2, <2>3 DEF ClaimsLocked, ReconcilersTyped
  <2>6. QED
    BY <2>3, <2>4, <2>5 DEF RowsTyped, RequestsTyped, TasksTyped
<1>3. CASE PublishFails(r)
  <2>1. /\ reconciler' = [reconciler EXCEPT ![r].phase = "next"]
        /\ UNCHANGED <<collection, row, lock, request, task, sent>>
    BY <1>3 DEF PublishFails
  <2>2. [reconciler[r] EXCEPT !.phase = "next"] \in ReconcilerStates
    BY <1>1 DEF ReconcilerStates
  <2>3. ReconcilersTyped'
    BY <2>1, <2>2 DEF ReconcilersTyped, ReconcilerStates
  <2>4. \A q \in Reconcilers : reconciler'[q].claimed = reconciler[q].claimed
    BY <2>1 DEF ReconcilersTyped, ReconcilerStates
  <2>5. QED
    BY <2>1, <2>3, <2>4 DEF RowsTyped, RequestsTyped, TasksTyped, ClaimsLocked
<1>4. CASE CommitClaims(r)
  <2> DEFINE x == [reconciler[r] EXCEPT !.phase = "next", !.claimed = {}, !.expired = TRUE]
  <2>1. x \in ReconcilerStates /\ x.phase = "next" /\ x.claimed = {}
    BY <1>1 DEF ReconcilerStates
  <2>2. /\ reconciler' = [reconciler EXCEPT ![r] = x]
        /\ lock' = Unlock(r)
        /\ row' = [c \in Collections |->
                     IF c \in reconciler[r].claimed THEN [row[c] EXCEPT !.status = "GENERATING"] ELSE row[c]]
        /\ UNCHANGED <<collection, request, task, sent>>
    BY <1>4 DEF CommitClaims
  <2>3. \A c \in Collections : [row[c] EXCEPT !.status = "GENERATING"] \in SummaryRows
    BY DEF RowsTyped, SummaryRows, Status
  <2>4. row' \in [Collections -> SummaryRows]
    BY <2>2, <2>3 DEF RowsTyped
  <2>5. \A d \in Collections : d \notin reconciler[r].claimed => row'[d] = row[d]
    BY <2>2
  <2>6. lock' \in [Collections -> Reconcilers \cup {Nobody}] /\ ClaimsLocked'
    BY <2>1, <2>2, <2>5, Released
  <2>7. ReconcilersTyped'
    BY <2>1, <2>2, ReconcilerWritten
  <2>8. QED
    BY <2>2, <2>4, <2>6, <2>7 DEF RowsTyped, RequestsTyped, TasksTyped
<1>5. CASE EndScan(r) \/ ReconcilerDies(r)
  <2>1. /\ reconciler' = [reconciler EXCEPT ![r] = IdleReconciler]
        /\ lock' = Unlock(r)
        /\ UNCHANGED <<collection, row, request, task, sent>>
    BY <1>5 DEF EndScan, ReconcilerDies
  <2>2. lock' \in [Collections -> Reconcilers \cup {Nobody}] /\ ClaimsLocked'
    BY <2>1, Idle, Released
  <2>3. ReconcilersTyped'
    BY <2>1, Idle, ReconcilerWritten
  <2>4. QED
    BY <2>1, <2>2, <2>3 DEF RowsTyped, RequestsTyped, TasksTyped
<1>6. QED
  BY <1>2, <1>3, <1>4, <1>5, ClaimTyped, Publishing DEF ReconcilerStep

-----------------------------------------------------------------------------
(* Tasks                                                                   *)

LEMMA TaskWritten ==
    ASSUME IInv, NEW t \in Tasks, NEW x \in TaskStates, task' = [task EXCEPT ![t] = x],
           x.phase # "none" => x.c \in Collections
    PROVE  TasksTyped'
BY DEF IInv, Typed, TasksTyped

\* The steps that touch nothing but the message.
LEMMA Working ==
    ASSUME IInv, NEW t \in Tasks, GenerateSummary(t) \/ ReadForSummary(t) \/ Redeliver(t)
    PROVE  IInv'
<1> USE DEF IInv, Typed
<1>1. UNCHANGED <<collection, row, lock, request, reconciler, sent>>
  BY DEF GenerateSummary, ReadForSummary, Redeliver
<1>2. task[t] \in TaskStates /\ task[t].phase # "none" /\ task[t].c \in Collections
  BY DEF GenerateSummary, ReadForSummary, Redeliver, TasksTyped
<1>3. \A p \in {"sent", "report", "store", "failing"} :
        [task[t] EXCEPT !.phase = p] \in TaskStates /\ [task[t] EXCEPT !.phase = p].c = task[t].c
  BY <1>2 DEF TaskStates
<1>4. TasksTyped'
  <2>1. CASE GenerateSummary(t)
    <3>1. PICK x \in {IdleTask, [task[t] EXCEPT !.phase = "failing"]} \cup Generated(t) : task' = [task EXCEPT ![t] = x]
      BY <2>1 DEF GenerateSummary
    <3>2. \A n \in {0, task[t].version} :
             /\ [task[t] EXCEPT !.phase = "report", !.text = n] \in TaskStates
             /\ [task[t] EXCEPT !.phase = "report", !.text = n].c = task[t].c
      <4>1. task[t].version \in Nat
        BY <1>2 DEF TaskStates
      <4>2. ASSUME NEW n \in Nat
            PROVE  /\ [task[t] EXCEPT !.phase = "report", !.text = n] \in TaskStates
                   /\ [task[t] EXCEPT !.phase = "report", !.text = n].c = task[t].c
        BY <1>2 DEF TaskStates
      <4>3. QED
        BY <4>1, <4>2
    <3>3. x \in TaskStates /\ (x.phase # "none" => x.c \in Collections)
      BY <1>2, <1>3, <3>1, <3>2, Idle DEF Generated
    <3>4. QED
      BY <3>1, <3>3, TaskWritten
  <2>2. CASE ReadForSummary(t)
    <3> DEFINE col == collection[task[t].c]
    <3>1. col.enabled \in BOOLEAN /\ col.stamp \in Nat
      BY <1>2 DEF RowsTyped, CollectionRows
    <3> DEFINE x == [task[t] EXCEPT !.phase = "store", !.enabled = col.enabled, !.stamp = col.stamp]
    <3>2. x \in TaskStates /\ x.c = task[t].c
      BY <1>2, <3>1 DEF TaskStates
    <3>3. \E y \in {x, IdleTask} : task' = [task EXCEPT ![t] = y]
      BY <2>2 DEF ReadForSummary
    <3>4. QED
      BY <1>2, <3>2, <3>3, Idle, TaskWritten
  <2>3. CASE Redeliver(t)
    <3> DEFINE x == [task[t] EXCEPT !.phase = "sent"]
    <3>1. \E u \in Tasks : task' = [task EXCEPT ![u] = x]
      BY <2>3 DEF Redeliver
    <3>2. x \in TaskStates /\ x.c \in Collections
      BY <1>2, <1>3
    <3>3. QED
      BY <3>1, <3>2, TaskWritten
  <2>4. QED
    BY <2>1, <2>2, <2>3
<1>5. QED
  BY <1>1, <1>4 DEF RowsTyped, RequestsTyped, ReconcilersTyped, ClaimsLocked

\* A callback writes the row it expects while no claim holds it.
LEMMA Reporting ==
    ASSUME IInv, NEW t \in Tasks, StoreSummary(t) \/ FailSummary(t)
    PROVE  IInv'
<1> USE DEF IInv, Typed
<1> DEFINE c == task[t].c
<1>1. /\ task[t] \in TaskStates /\ c \in Collections
      /\ task[t].text \in Nat /\ task[t].version \in Nat
      /\ row[c] \in SummaryRows /\ collection[c] \in CollectionRows
  BY DEF StoreSummary, FailSummary, TasksTyped, TaskStates, RowsTyped
<1>2. UNCHANGED <<lock, request, reconciler, sent>> /\ task' = [task EXCEPT ![t] = IdleTask]
  BY DEF StoreSummary, FailSummary, EndTask
<1>3. MayWrite(c, task[t].id) /\ (Expected(t) => lock[c] = Nobody)
  BY DEF StoreSummary, FailSummary, MayWrite, Expected, Row
<1>4. CASE StoreSummary(t)
  <2> DEFINE new == [row[c] EXCEPT !.status = "COMPLETE", !.summary = task[t].text, !.observed = task[t].version]
  <2>1. new \in SummaryRows
    BY <1>1, Edits
  <2>2. row' = row \/ (lock[c] = Nobody /\ row' = [row EXCEPT ![c] = new])
    BY <1>3, <1>4 DEF StoreSummary
  <2>3. row' \in [Collections -> SummaryRows] /\ ClaimsLocked'
    BY <1>1, <1>2, <2>1, <2>2, RowWritten
  <2> DEFINE col == [collection[c] EXCEPT !.description = Text("summary", task[t].text), !.stamp = @ + 1]
  <2>4. col \in CollectionRows
    BY <1>1, Edits
  <2>5. collection' = collection \/ collection' = [collection EXCEPT ![c] = col]
    BY <1>4 DEF StoreSummary, Describe
  <2>6. collection' \in [Collections -> CollectionRows]
    BY <1>1, <2>4, <2>5 DEF RowsTyped
  <2>7. RowsTyped'
    BY <1>2, <2>3, <2>6 DEF RowsTyped
  <2>8. QED
    BY <1>2, <2>3, <2>7, Idle, TaskWritten DEF RequestsTyped, ReconcilersTyped
<1>5. CASE FailSummary(t)
  <2> DEFINE new == [row[c] EXCEPT !.status = "FAILED"]
  <2>1. new \in SummaryRows
    BY <1>1 DEF SummaryRows, Status
  <2>2. row' = row \/ (lock[c] = Nobody /\ row' = [row EXCEPT ![c] = new])
    BY <1>3, <1>5 DEF FailSummary
  <2>3. row' \in [Collections -> SummaryRows] /\ ClaimsLocked'
    BY <1>1, <1>2, <2>1, <2>2, RowWritten
  <2>4. RowsTyped'
    BY <1>2, <1>5, <2>3 DEF FailSummary, RowsTyped
  <2>5. QED
    BY <1>2, <2>3, <2>4, Idle, TaskWritten DEF RequestsTyped, ReconcilersTyped
<1>6. QED
  BY <1>4, <1>5

-----------------------------------------------------------------------------
(* Theorems                                                                *)

THEOREM Invariance == Spec => []IInv
<1>1. IInv /\ UNCHANGED vars => IInv'
  BY DEF vars, IInv, Typed, RowsTyped, RequestsTyped, ReconcilersTyped, TasksTyped, ClaimsLocked
<1>2. IInv /\ Next => IInv'
  BY Requesting, Deleting, Reconciling, Working, Reporting DEF Next, TaskStep
<1>3. QED
  BY Start, <1>1, <1>2, PTL DEF Spec

\* Every row and every local state keeps the type of its place.
THEOREM TypeCorrect == Spec => []TypeOK
<1>1. IInv => TypeOK
  BY DEF IInv, Typed, RowsTyped, RequestsTyped, ReconcilersTyped, TasksTyped, TypeOK,
         CollectionRows, Texts, SummaryRows, RequestStates, ReconcilerStates, TaskStates
<1>2. QED
  BY <1>1, Invariance, PTL

\* The claim of a summary (_claim_summary_for_processing) is exclusive, and
\* the row stays as the UPDATE found it until the claim is committed or lost.
THEOREM ClaimsExclusive == Spec => []ClaimsHold
<1>1. IInv => ClaimsHold
  BY DEF IInv, ClaimsLocked, ClaimsHold
<1>2. QED
  BY <1>1, Invariance, PTL

\* A description is generated only by the step that completes the summary it
\* is a copy of, for a collection that is there.
THEOREM Describing == Spec => DescribesTheSummary
<1> DEFINE Copied(c) ==
      collection'[c].description # collection[c].description /\ collection'[c].description.by = "summary" =>
        /\ collection[c].alive
        /\ row[c].status = "GENERATING" /\ row'[c].status = "COMPLETE"
        /\ row'[c].observed = row'[c].version
        /\ row'[c].summary = collection'[c].description.n
<1>1. ASSUME IInv, Next, NEW c \in Collections
      PROVE  Copied(c)
  <2> USE <1>1 DEF IInv, Typed
  <2>1. CASE \E t \in Tasks : StoreSummary(t)
    <3>1. PICK t \in Tasks : StoreSummary(t)
      BY <2>1
    <3>2. /\ task[t].c \in Collections
          /\ row[task[t].c] \in SummaryRows /\ collection[task[t].c] \in CollectionRows
      BY <3>1 DEF StoreSummary, TasksTyped, RowsTyped
    <3>3. CASE c = task[t].c /\ Expected(t) /\ MayDescribe(t)
      <4> DEFINE new == [row[c] EXCEPT !.status = "COMPLETE", !.summary = task[t].text, !.observed = task[t].version]
                 col == [collection[c] EXCEPT !.description = Text("summary", task[t].text), !.stamp = @ + 1]
      <4>1. row' = [row EXCEPT ![c] = new] /\ collection' = [collection EXCEPT ![c] = col]
        BY <3>1, <3>3 DEF StoreSummary, Describe
      <4>2. row'[c] = new /\ collection'[c] = col
        BY <3>2, <4>1 DEF RowsTyped
      <4>3. new.status = "COMPLETE" /\ new.summary = task[t].text /\ new.observed = task[t].version
            /\ new.version = row[c].version
        BY <3>2, <3>3 DEF SummaryRows
      <4>4. col.description = Text("summary", task[t].text)
        BY <3>2, <3>3 DEF CollectionRows
      <4>5. QED
        BY <3>3, <4>2, <4>3, <4>4 DEF Expected, Row, MayDescribe, Text
    <3>4. CASE ~(c = task[t].c /\ Expected(t) /\ MayDescribe(t))
      <4>1. collection'[c] = collection[c]
        BY <3>1, <3>2, <3>4 DEF StoreSummary, Describe, RowsTyped
      <4>2. QED
        BY <4>1
    <3>5. QED
      BY <3>3, <3>4
  <2>2. CASE \E q \in Requests : CommitUpdate(q)
    <3>1. PICK q \in Requests : CommitUpdate(q)
      BY <2>2
    <3> DEFINE d == request[q].c
               new == [collection[d] EXCEPT !.description = Text("user", request[q].n), !.enabled = request[q].enable]
    <3>2. d \in Collections /\ collection[d] \in CollectionRows
      BY <3>1 DEF CommitUpdate, RequestsTyped, RowsTyped
    <3>3. collection' = [collection EXCEPT ![d] = new]
      BY <3>1 DEF CommitUpdate
    <3>4. new.description.by = "user"
      BY <3>2 DEF CollectionRows, Text
    <3>5. c # d => collection'[c] = collection[c]
      BY <3>2, <3>3 DEF RowsTyped
    <3>6. c = d => collection'[c].description.by = "user"
      BY <3>2, <3>3, <3>4 DEF RowsTyped
    <3>7. QED
      BY <3>5, <3>6
  <2>3. CASE \E d \in Collections : DeleteCollection(d)
    <3>1. collection'[c].description = collection[c].description
      BY <2>3 DEF DeleteCollection, RowsTyped, CollectionRows
    <3>2. QED
      BY <3>1
  <2>4. CASE UNCHANGED collection
    BY <2>4
  <2>5. QED
    BY <2>1, <2>2, <2>3, <2>4
    DEF Next, RequestStep, ReconcilerStep, TaskStep, OpenUpdate, UpdateRefused, ReadSummary, BumpVersion,
        InsertSummary, DeleteSummary, Scan, Claim, Publish, CommitClaims, EndScan, PublishFails, ReconcilerDies,
        GenerateSummary, ReadForSummary, FailSummary, Redeliver
<1>2. IInv /\ [Next]_vars => [\A c \in Collections : Copied(c)]_vars
  BY <1>1
<1>3. QED
  BY <1>2, Invariance, PTL DEF Spec, DescribesTheSummary

=============================================================================
