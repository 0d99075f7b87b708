# TLA+ models of SAPilot (ApeRAG)

This directory holds TLA+ specifications of the parts of SAPilot whose
correctness depends on the order of things: API requests, periodic
reconcilers and Celery workers that share database rows and a message broker,
coroutines of one event loop, threads that share a graph.
Every definition is translated from the Python source; `PROJECT.json` maps
each one to its file and lines. The program's documents are quoted only where
a run compares the code with what they say.

## 1. Inventory

SAPilot is a retrieval-augmented-generation platform: users upload documents
into collections, the system parses them and builds several search indexes,
and bots, agents and flows answer questions from them.

| Part | State it keeps | Operations | Talks to |
|---|---|---|---|
| Document service (`service/document_service.py`, `tasks/collection.py`) | `document.status` | create, upload, confirm, delete, rebuild, rebuild failed, expire | index manager, quota, object store; starts the reconciler |
| Index manager (`index/manager.py`) | `document_index` rows: status, version, observed version | create or update rows, mark for deletion | called inside the document service's transactions |
| Index reconciler (`tasks/reconciler.py`) | none of its own | scan, claim, dispatch; callbacks | rows, task scheduler |
| Index tasks (`config/celery_tasks.py`, `tasks/document.py`) | messages in the broker | parse, fan out, create / update / delete with retries | external index stores, callbacks |
| External index stores (`index/*_index.py`) | vectors, full-text documents, graph nodes | write, delete by id | called by the index tasks |
| Collection summary (`collection_summary_service.py`, `reconciler.py`) | `collection_summary` row: status, version, observed version | request, scan, claim, generate, report | the same scheduler and broker |
| Quota (`service/quota_service.py`) | `user_quota`: limit, usage | check and consume, release, set limits, recalculate | inside document, collection and bot transactions |
| Concurrent control (`concurrent_control/`) | a Redis key, or a thread lock | acquire, renew, release | evaluation, LightRAG |
| Evaluation (`service/evaluation_service.py`) | `evaluation` and `evaluation_item` rows | schedule, initialise, batch, item, finalise, pause, resume, retry, delete | Redis lock, broker, agent API |
| Flow engine (`flow/engine.py`) | outputs of the nodes, an event queue | sort, group, run groups in parallel | node runners, event readers |
| Search (`collection_service.py`, `flow/runners/`) | none of its own | build the flow of a request; search, merge, rerank | the flow engine |
| Marketplace (`service/marketplace_service.py`) | `collection_marketplace` and `user_collection_subscription` rows | publish, unpublish, subscribe, unsubscribe | database |
| Collections, bots, chats, models, settings, export, question sets | rows | mostly single-statement CRUD | database |
| LightRAG (`graph/lightrag/`) | chunks, nodes, edges and their vectors, per collection | extract, merge, delete | language model, graph and vector stores, thread locks |
| Agent sessions, DingTalk, MCP, web search, sources, parsers, object stores | connections, files | I/O | external services |

Behaviours that are hard, and where they bite:

* *Interleaving of transactions at READ COMMITTED.* Reads take no locks; what
  was read may be old when it is used (claims, confirmation, overall status).
* *The broker is not part of the transaction.* Workflows are published before
  the claim commits; messages are acknowledged late, so a task can run twice,
  and can be lost with its worker.
* *The ORM.* It writes back only attributes whose value changed since they
  were loaded, and computes `version + 1` in memory.
* *Retries, failures and deletions* of an older version meet the builds of a
  newer one.
* *Rows that no foreign key keeps together.* The quota's usage and the
  resources, a summary and the collection's description, a chunk and the nodes
  that name it as a source: each is kept in step by code alone, and a failure
  or a concurrent writer comes between the writes.
* *Values carried over an await.* A merge writes back the node it read, a
  deletion the sources it worked out for the whole collection, a recount what
  it had counted.

What makes each part correct: an index request is dispatched at most once per
request and, in the end, at least once; what becomes searchable was built at
the version that is wanted; a deleted document stays deleted; the status the
user sees follows from the indexes; every task ends. An evaluation has one
processor per item and is COMPLETED only when it is done. Nothing is added to
a quota that was not charged for, and no charge goes over the limit. A node of
a flow runs once, after what it depends on; the stream of a flow ends; a search
returns what was found, once. A summary is generated by the one who claimed it,
and described where it is stored. The graph holds exactly what the chunks that
exist say, with both ends to every edge, and no lock outlives its holder. A
subscription ends with the publication it was made to, and a user has one.

## 2. Modules

| Module | Content |
|---|---|
| `DocumentIndexing` | the life of one document's indexes: API requests, reconcilers, broker, workers, callbacks |
| `Evaluation` | the evaluation workflow: scheduler, initialisation, batches under the Redis lock, items, users' requests |
| `ResourceQuota` | the quotas of one user and the transactions of all requests that consume, release, limit or recount them |
| `QuotaLedger` | what a quota promises, in four kinds of step; `ResourceQuota` implements it |
| `CollectionSummary` | the summary of a collection: requests, reconcilers, tasks and callbacks |
| `FlowEngine` | the execution of any flow: sort, groups, nodes, failures, events and their reader |
| `SearchFlow` | the flow of a search on that engine: `FlowEngine` with its runners |
| `GraphIndex` | the knowledge graph of a collection: concurrent builds and deletions of documents |
| `Marketplace` | publishing a collection, and the subscriptions to it |
| `MC...` | one per component: the instances TLC checks |
| `..._proofs` | one per component, and one for the engine besides the search's: its theorems |

`SearchFlow` composes the search with the engine: it EXTENDS `FlowEngine` and
gives its constants `Flows`, `Run` and `MayRaise` their values. The components meet
in the document: `DocumentIndexing` has its indexes, `ResourceQuota` its
charge, `GraphIndex` what a build of its graph index writes.

### DocumentIndexing

State and its counterpart in the code:

| Variable | Code |
|---|---|
| `row[t]` | the committed row of `document_index` for the type `t`; `ABSENT` when there is none, `id` tells successive rows apart |
| `doc` | `document.status` |
| `lock[t]` | the open transaction whose UPDATE has locked the row |
| `rec[r]` | the locals of one run of `reconcile_all`: entries scanned, entry selected, claims won, batches still to publish |
| `worker[w]` | the message being worked on, how far the task is, and the writes of an open callback |
| `api[s]` | one request: its operation and the rows it has loaded |
| `queue` | the messages the broker holds, acknowledged only when their task ends |
| `credit[t]` | history: committed requests minus committed claims |
| `requests`, `faults` | counters of the two bounds |

Actions follow the code's handlers. A request is `OpenRequest` (the check of
the document), `LoadRows` (the SELECTs) and `CommitRequest` (the ORM's writes
and the commit) or `RollbackRequest`; `CommitExpiry` is the commit of
`cleanup_expired_documents`. A reconciler is `Scan`, then for each entry
`SelectCurrent` and `GuardedUpdate` (`_claim_document_indexes`), `EndClaiming`,
one `Publish` per batch, and `CommitClaim`; `AbortClaim` is an exception or its
death. A worker receives a message and runs `ParseDocument`,
`TriggerIndexTasks`, or an index task: `ValidateTask` and `CheckDocument`
(`_validate_task_relevance`, or the check of `delete_index_task`),
`LoadDocument`, `RunIndexer`, then `ReportSuccess` or `ReportFailure` (the
guarded UPDATE of the callback and the reads after it) and `CommitCallback`.
`Redeliver`, `CallbackRaises` and `WorkerDies` are the faults.

Abstractions: one document (all statements select by document or row id);
contents, error texts and times are left out; the work on an external store is
one step that succeeds or fails; a transaction's writes appear at its commit,
and the rows it has written are locked until then. The SELECTs of one scan and
those of one request are one step each: no write depends on more than one of
the rows they return, and a row found twice by a scan wins at most once. The
queue is a set: two equal messages (the same workflow published again after an
aborted claim) count as one, and delivering it twice is `Redeliver`.

### Evaluation

| Variable | Code |
|---|---|
| `status`, `deleted`, `completed` | `evaluation.status`, `gmt_deleted`, `completed_questions` |
| `item[e][i]` | `evaluation_item.status` |
| `stuck[e]` | the RUNNING items whose `gmt_updated` is older than the 15 minutes of `_coordinate_evaluation` |
| `lock[e]` | the Redis key `evaluation_processing:{id}`: free, held by a worker, or left by one that died |
| `queue` | the broker: how many copies of each message wait |
| `worker[w]` | the message a worker has taken, how far it is, and the values it has read |
| `asked[e]` | a pause or resume request between its SELECT and its UPDATE |
| `round`, `reopened` | history: how often an item was put back to PENDING; whether the evaluation was retried since a finaliser verified it |
| `requests`, `faults` | counters of the two bounds |

`reconcile_evaluations_task` is `CountEvaluations`, `SelectEvaluations`,
`SelectRunning` and one `Coordinate` per evaluation; `initialize_evaluation`
is `Initialize`, `PublishBatch`, or `InitializationFailed` (its handler);
`process_evaluation_batch` is `Acquire` or `GiveUp`, `Check`, `Count`, `Pick`,
and for the finalisation `Verify`, `Judge`, `Close`, then `Release` in its
`finally`; `process_evaluation_item` is `Claim`, `Load`, `Process`,
`ItemFailed` (its handler) and `NextBatch`. Users send `Create`, `Ask` and
`Answer` (pause, resume), `Retry` and `Delete`. The faults are `Crash`,
`Redeliver`, `Raise` and `RaiseAtStart` (exceptions), and slowness: an item
that outlives its 15 minutes (`ItemExpires`) and a batch that outlives the 60
seconds of its lock (`LockExpires`).

Abstractions: questions, answers and scores are left out, an item's processing
has one of two results. The row of an evaluation and those of its items are
loaded by one step (`Load`), since only the worker that claimed the item
writes what `Load` reads of it, unless the item is put back. A transaction with
one statement is one step. `acquire(timeout=5)` either finds the lock free at
some moment or gives up at one where it is taken. The broker keeps at most
`MaxCopies` equal messages apart: one more is indistinguishable from those
that wait. A message is acknowledged when its task ends
(`task_acks_late`), so a dead worker's message may come back; it may also be
lost, as it is when only the pool process dies.

### ResourceQuota and QuotaLedger

| Variable | Code |
|---|---|
| `item[x]` | `status` of a collection or a bot |
| `doc[d]`, `home[d]` | `document.status` (one value for the statuses of the pipeline) and `collection_id` |
| `usage[k]`, `limit[k]` | `user_quota.current_usage` and `quota_limit` of a key |
| `lock[x]` | the transaction that has selected FOR UPDATE, or written, the row |
| `req[r]` | the locals of a request: what it names, what it has handled and marked, the usage its transaction sees |
| `sent` | counter of the bound |

`Consume` is `check_and_consume_quota`, `ReleaseQuota` is `release_quota`;
`Recount`, `LoadUsage` and `WriteUsage` are `recalculate_user_usage`, and
`UpdateUserQuota` writes any of the limits. The other actions are the requests that use
them: `OpenCreate`/`CommitCreate` and `OpenDelete`, `SelectItem`, `MarkRow`,
`CommitDelete` for collections and bots; `OpenUpload`/`CommitUpload`,
`OpenAdd`, `CountCollection`, `CommitAdd` (`create_documents`), `OpenConfirm`,
`SelectUploaded`, `CommitConfirm`, `OpenRemove`, `SelectDocument`,
`CommitRemove` and the expiry for documents. `Refuse` collects the checks that
raise, `Rollback` is a failure at any other point, `DeadlockVictim` the
database's answer to a cycle of locks. The writes of a transaction appear at
its commit and its rows are locked until then.

`QuotaLedger` has the variables `usage`, `limit` and `live`, which
`ResourceQuota` maps to its own two and to `Live(k)`, the resources that
are there. Its steps are `Charge` (what is added was charged for, within the
limit), `Refund`, `SetLimits` and `Recount`. It is weaker than an exact ledger
on purpose, because the code does not keep one: see section 4.

### CollectionSummary

| Variable | Code |
|---|---|
| `collection[c]` | `status`, the switch in `config`, `description`, and `gmt_updated` as the callback compares it |
| `row[c]` | the row of `collection_summary`: status, version, observed version, and which version its text is of; `id` tells successive rows apart |
| `lock[c]` | the reconciler whose open transaction has written the row |
| `request[q]` | `update_collection` and its trigger: what it has read |
| `reconciler[r]` | what it scanned, claimed and has yet to commit |
| `task[t]` | a message of `collection_summary_task` and its worker |
| `sent`, `faults` | counters of the two bounds |

A request is `OpenUpdate`, `CommitUpdate` or `UpdateRefused`, `ReadSummary`, and one of
`BumpVersion`, `InsertSummary` and `DeleteSummary`. A reconciler is `Scan`,
then `Claim`, `Publish` or `PublishFails`, and `CommitClaims` for each row, then
`EndScan`; it may die. A task is `GenerateSummary`, then `ReadForSummary` and
`StoreSummary` (`on_summary_generated`) or `FailSummary`
(`on_summary_failed`); `Redeliver` gives its message again, to the same or
another worker. A text is identified by who wrote it and when.

### FlowEngine and SearchFlow

| Variable | Code |
|---|---|
| `flow` | the `FlowInstance`: nodes, edges, and which inputs refer to which outputs |
| `phase` | where `execute_flow` is |
| `degree`, `ready`, `processed` | `in_degree`, `queue` and the nodes handled, of the sort and then of the grouping |
| `group`, `node` | the group awaited, and how far each node is |
| `output` | `context.outputs` |
| `events`, `read`, `client` | the event queue, how much of it was sent, whether a client listens |

`StartFlow`, `SortNode` and `EndSort` are `_topological_sort`, `NextGroup` is
`_find_parallel_groups` (a generator) with the `await` of the group before,
`StartNode`, `BindFails`, `RunnerMissing`, `FinishNode` and `NodeFails` are
`_execute_node`, `EndFlow` and `FailFlow` the ends of `execute_flow`,
`SendEvent` and `Disconnect` the stream of `flow_service`. The engine is a
coroutine: a step is what happens between two suspensions.

`SearchFlow` says what each runner may return: the searches any of the given
lists or nothing, the merge the first document of each text in the order of
the searches, the rerank the fallback order or any selection of a model. A
document is its text, where it was recalled, and its score; an image has an
asset and a method as well. What comprehensions and sorts make of a list is
said without recursion, by the indices that are kept and which of two comes
first (`Kept`, `Arranged`): the place of an entry is the number of those before
it.

### GraphIndex

| Variable | Code |
|---|---|
| `chunk[c]` | the document the row of a chunk names |
| `node`, `edge` | the `source_id` of each node and edge in the graph storage |
| `entityVector`, `relationVector` | the sources of their rows in the vector storage |
| `lock[x]` | the thread lock of an entity or a relation |
| `worker[w]` | a thread's task: the components, entities and relations still to merge, what it has read, or what a deletion is about to write |
| `tasks`, `faults` | counters of the two bounds |
| `lost` | history: entities whose vector `delete_entity` failed to drop, in silence, since a build last wrote it |
| `built`, `overlapped` | history: documents whose last task is a build that ended well and none of whose chunk rows has since gone with another document; whether a deletion has run while another task did |

A build is `InsertChunks`, then per connected component (`NextComponent`) for
each entity `ReadNode`, `WriteNode`, `WriteEntityVector` under the entity's
lock, and for each relation `ReadEdge`, `CheckNode` and `CreateNode` per
missing end, `WriteEdge` and `WriteRelationVector` under the relation's. A
deletion is `SelectChunks`, `ScanVectorsAndGraph`, and the writes it has worked
out, storage by storage, with the chunks last. `Fail` ends either at any point:
every call of a storage raises, but for `delete_entity` of the vectors, which
logs the exception and returns (`LoseEntityVector`), and the deletion goes on.

Abstractions: a node, an edge or a vector is its set of sources (descriptions
and weights are left out); what the model extracts is a constant of the chunk,
so a rebuild finds it again; the documents whose text is shared share a chunk,
since a chunk's id is the hash of its text; the deletion reads the graph in one
step. The last differs from the code only while another task writes, which is
why what is claimed of deletions is claimed while none has overlapped.

### Marketplace

| Variable | Code |
|---|---|
| `collection` | `collection.status`: ACTIVE or DELETED |
| `marketplace` | `collection_marketplace.status`, `none` before the first publication |
| `lock` | the request whose transaction has written that row |
| `subscription[s]` | rows of `user_collection_subscription`, active while `gmt_deleted` is null; `before` is history: the rows there were when its request began |
| `request[r]` | one request: its user, how far it is, and what it has read |
| `revoked` | history: the rows older than an unpublish that succeeded |

`subscribe_collection` is `FindMarketplace`, `FindCollection`, `FindExisting`
and `CreateSubscription`; `unsubscribe_collection` is `FindSubscription`,
`SelectSubscription` and `CloseSubscription`; publishing is `VerifyPublish`,
`SelectToPublish` and `WritePublish`, unpublishing `VerifyUnpublish`,
`SelectToUnpublish`, `LockAndSelect` (the session flushes the status before the
SELECT of the subscriptions) and `CommitUnpublish`. `Fail` is an exception or
the end of the process. The database's constraints are modelled where they decide: a second
marketplace row is refused (`WritePublish`), rows with a null `gmt_deleted` are
not compared (`CreateSubscription`), and two rows of a user closed at the same
time are (`Collide`). One collection: a request touches no other. Two requests
that close rows do so at different times. Nothing calls
`cleanup_collection_marketplace_data`, so no action deletes the marketplace
row; the lists join the collection and leave deleted ones out.

Definitions whose comment begins with "Mutant" are wrong variants of a
definition, used only to show that a property can fail.

## 3. Runs

All runs are finite instances of the `MC` modules. `CHECK_DEADLOCK FALSE` is
said where the system may rest: users stop sending requests, a flow ends.

| Run | Instance | Shows |
|---|---|---|
| `indexing_overlap` | 1 type, 2 reconcilers, 2 workers, 2 requests (rebuild, delete) one after the other, 1 fault; reconcilers and workers interchangeable | no request is dispatched twice, creations are claimed with the version of their row; a late or redelivered task makes only the wanted version ACTIVE |
| `indexing_lifecycle` | 1 type, 1 reconciler, 1 worker, 2 requests of all five kinds that may overlap, 1 retry, 1 fault, the document uploaded or confirmed; with fairness | nothing of an unconfirmed document becomes ACTIVE, and only the version that is wanted, although overlapping requests compute the same; no callback writes over a deletion it overlapped; claimable rows are claimed, tasks end |
| `eval_safe` | 1 evaluation of 2 items, 2 workers, 1 pause (and any resumption), retry or deletion, 1 fault of any kind, slowness included | one worker per item and round; COMPLETED means done unless retried meanwhile |
| `eval_finishes` | 1 evaluation of 2 items, 2 workers, 1 crash, redelivery or exception, no request, nothing slow; with fairness | an evaluation that waits or runs comes to its end, whichever worker dies; COMPLETED, it has only COMPLETED items and its progress counts them all; the lock keeps batches apart |
| `quota_promise` | 1 collection, 1 bot, 2 documents, 2 requests at a time, 3 of any kind, each failing anywhere; limits 1, 1 and 2, one document per collection, any limits set to 0; with fairness | the ledger is implemented, a collection stays within its own quota, no request waits for ever, deadlocks included |
| `search_flow` | all 512 graphs of three nodes, the empty one, chains of four nodes with every edge between them, references with and without edges, a node without a runner; the searches by vector with graph or full text, and by images; with fairness | nodes run after what they depend on and once, cycles and only they are refused, nothing starts after a failure, the stream ends, a search returns what was found, once and in order |
| `summary_claims` | 1 collection, 1 request at a time, 2 in all, 2 reconcilers, 2 messages, 1 fault; with fairness | a claim is exclusive, a description changes only with its summary, a waiting summary is claimed |
| `graph_sources` | 2 documents with a chunk each and one they share, 3 entities of which one is never named, 2 threads, 3 tasks, 2 faults: a task fails at any step, or a vector is not dropped | nothing is left of a deleted chunk but such vectors, nothing of a built one is missing, edges have their ends, locks their holders |

Four runs end in a counterexample, the disagreement of the code with a
sentence of the repository (quoted in `PROJECT.json`, "findings"):

| Run | Property | What happens |
|---|---|---|
| `indexing_stranded` | `DeletionResolves` | the deletion task runs before the claim that published it commits, skips itself, and the row stays DELETION_IN_PROGRESS |
| `summary_stale` | `RequestedIsGenerated` | a request for a new summary raises the version of a COMPLETE row and leaves its status, which no reconciler selects |
| `indexing_skew` | `AllBuiltIsComplete` | the callbacks of a document's two indexes overlap, each sees the other's index in progress, and the document stays RUNNING with both ACTIVE |
| `market_duplicates` | `ActiveUnique` | two requests of a user overlap, both find no subscription, and both make one |

### Met while modelling

The models also contain the following behaviour of the code; the properties
above are stated so that they hold beside it, and each says where it stops.

* Two types' callbacks each read the other's index in progress and leave the
  document RUNNING although all its indexes are ACTIVE (`ReportSuccess`; the run
  `indexing_skew`).
* A confirmation that had selected the document writes PENDING over a DELETED
  committed meanwhile, and so does the callback of a row the confirmation has
  inserted and the deletion has not found (`OpenRequest`, `CommitRequest`):
  `CallbacksRespectDeletion` leaves both out.
* Two rebuilds write the same version; when the first is built before the
  second commits, the row is PENDING at a version already observed, which no
  reconciler takes up (`Written`, `Needs`).
* The failure callback does not compare versions, and a worker that dies, or a
  callback whose exception is swallowed, leaves its row in progress, which is
  not scanned (`ReportFailure`, `WorkerDies`, `CallbackRaises`).
* A retry between the finaliser's verification and its UPDATE leaves the
  evaluation COMPLETED with PENDING items (the exception of
  `CompletedIsDone`); an evaluation deleted while RUNNING keeps its slot.
* Two deletions of the same resource, or a deletion that overlaps a recount,
  release it twice or write a usage that was counted before the other's commit:
  the usage may fall below what exists, and afterwards more can be added than
  the limit says. Names a collection already has are charged for when they are
  uploaded again, and the documents of a deleted collection are refunded by a
  recount only. This is why `QuotaLedger` bounds what a charge adds and not what
  exists.
* The summary's task is published before its claim commits, like an index's;
  a worker that is fast enough finds the row PENDING and reports a failure,
  which waits for the claim's commit and makes the row FAILED; no reconciler
  takes it up again (`GenerateSummary`, `FailSummary`).
* An endpoint a relation needs is looked up and created under the relation's
  lock; a merge of the entity in between is overwritten. `Represented`
  therefore speaks of entities that are named wherever they are related.
* A deletion writes back sources worked out for every node and edge of the
  collection, so what a build merges meanwhile is lost; nothing keeps the two
  apart. A document that shares a chunk takes the chunk's row with it, and what
  only this chunk says, while the other document is still there.
* `PGOpsSyncVectorStorage.delete_entity` catches whatever its DELETE raises, so a
  deletion that could not drop an entity's vector goes on to delete the chunks
  (`LoseEntityVector`). The vector stays until a build writes that entity again,
  since the next deletion of the document finds no chunks and returns.
  `NothingLeftBehind` leaves out these vectors (`lost`), and no others.
* Two requests of a user at once both find no subscription and both make one:
  the unique constraint does not compare rows whose `gmt_deleted` is null
  (`CreateSubscription`; the run `market_duplicates`). The user is still
  subscribed after unsubscribing, and the owner cannot unpublish while both
  last: the transaction would close them at one time, which the constraint
  refuses (`CommitUnpublish`). It is proved that only requests that overlap do
  this (`DuplicatesOverlap`).
* A request that found the collection published may subscribe after it was
  unpublished (`CreateSubscription` looks at nothing again), and counts when it
  is published again; `collection_marketplace_design.md:90` wants users to subscribe
  again. `RevokedForGood`, which is proved, is about the subscriptions an unpublish
  could find.
* A publication that had loaded PUBLISHED writes no status: an unpublish
  between its SELECT and its commit wins (`WritePublish`).
* The embedding of an image is stored without a text (`index/vision_index.py:117`),
  and the merge keeps one document of each text: of several images found by
  their embedding only the first comes back (`Unique`). `SearchAnswers` says that
  no text is lost, which is all the merge promises.
* The weights of a node or an edge that is merged again grow by what was
  already counted, and the cut of a vision search to `top_k` comes after
  `top_k` was doubled (`VisionSearch`).

### Bounds

Two reconcilers and two workers, or one of each, give every conflict between two
transactions on a row, since a claim, a callback and a request exclude each
other through the row's lock. A second request is what makes versions differ;
one fault gives each crash, redelivery or failed publish at every point, and
one retry (`indexing_lifecycle`) the difference between a first and a last
attempt; in `indexing_overlap` a redelivery is what makes a task late. One index
type is enough where a property is about one row, and another type's row only
takes part in the document's status; what two types do to that is
`indexing_skew`. In `Evaluation`
two workers make every pair of tasks overlap (two batches, a batch and an item,
two processors of an item), two items are the fewest of which one can be open
while the other is finished, and one slot per evaluation makes a batch leave
an item for the next. One copy of a message is enough:
a second copy of a batch or item message does what a redelivery does. The
resumption of a paused evaluation is not counted, so every pause can be undone.
In `ResourceQuota` two requests overlap in every way two transactions can, and
the third prepares or follows them; one document per collection makes the
second confirmation the one that does not fit, and the limits leave room for
one resource or two, and for none once they are set to 0. Three nodes are the fewest with a cycle beside
a node that is sorted, and with a path that is longer than one edge beside it; two
chains joined by any edges have groups whose nodes wait for different
predecessors. In `CollectionSummary` a redelivered message needs the second
place, and the second request makes the version differ from the one claimed.
In `GraphIndex` the shared chunk makes both documents write the same node and
edge, and the second deletion find what the first has left; three tasks are two
builds that overlap and a deletion, or a build, a deletion that fails and its
repetition; two faults are a removal lost in silence by a deletion that then
fails, or one in each of two deletions.
Counters appear in the guards only: `MaxRequests`, `MaxFaults`, `MaxTasks`,
`MaxRetries` (which the code has, as 3) and `MaxCopies`.

### Fairness

`DocumentIndexing`. Beat starts
`reconcile_indexes_task` every hour and every request starts it as well, so a
reconciler scans again and again, and what a process has begun goes on: weak
fairness of `Scan`, of each reconciler's and each worker's steps, and of a
request's own steps. No fairness makes a user send a request, and faults are
never fair.

`Evaluation`. Weak fairness of the beat (every five minutes), of
each worker's next step and of a pause or resume that has begun; of the expiry of a
lock whose holder died and of an item nobody works on, because time passes.
Strong fairness of the delivery of each message: workers become idle again and
again and the broker serves its queues in turn, so none waits for ever. Slow
items and batches, exceptions and crashes are faults and never fair.

`ResourceQuota`. Weak fairness of each request's own steps, the choice of a
deadlock's victim among them, which the database guarantees; a rollback is
never fair, so `RequestsEnd` is not owed to failures.

`FlowEngine`. Weak fairness of the engine, of each node and of the stream: an
event loop runs what is ready, and a runner returns or raises. No fairness
makes a runner raise or a client leave.

`CollectionSummary`. Weak fairness of a request that has begun, of the
reconciler, which beat starts, and of the workers.

## 4. Proofs

`DocumentIndexing_proofs` proves, for any sets of types, reconcilers, workers
and requests and any bounds, from the assumptions named in the module
(configured types are index types, the actors are distinct):

* `TypeCorrect`: `Spec => []TypeOK`. Two facts strengthen it: what is still to
  be published is a batch of the claims won, and a busy worker has a message.
* `NoDoubleClaim`: `Spec => []ClaimedOncePerRequest`.
* `CreationsClaimedExactly`: `Spec => []CreateClaimExact`.
* `OnlyCurrentVersionActivates`: `Spec => OnlyCurrentActivates`.

The last three rest on one inductive invariant, `TypeInv /\ Safe`. None of
them is inductive alone: that a committed claim never lacks a request needs
that the claimed row still needs the work at the commit (`ClaimsHeld`), which
holds because the winner of the guarded UPDATE holds the row's lock; that
nothing else changes the row meanwhile needs the same of callbacks
(`CallbacksHeld`); and a creation's version is exact because a row at version 1
has always been at version 1 (`EntriesOld`, `Versioned`). `CreditCovers` says
that a claimable row has an unclaimed request. The proof has one lemma per
actor and, below it, one step per action.

Three more are about the document:

* `UnconfirmedIsNotBuilt`: `Spec => []UnconfirmedNeverActive`, of any number of
  overlapping requests. The invariant (`Unconfirmed`) says that while the document
  is UPLOADED a task past its check is a deletion, and no callback about to commit
  writes ACTIVE; no callback takes a document back to UPLOADED (`WritesInside`).
* `DeletionIsRespected`: `Spec => CallbacksRespectDeletion`, of any number of
  overlapping requests and any types. A deletion writes every row it has found, so
  its commit waits for the callbacks that hold one, and after it
  `_update_document_status` selects the document no more. The invariant
  (`DeletionInv`) says that an open callback's row is still in progress
  (`HeldInProgress`), that it writes none of the statuses that requests write
  (`WritesInside`), and that a deletion has loaded all types (`WholeDeletions`).
  What requests do to a deletion is not part of it: a confirmation that overlaps
  one undoes it, as described above.

`Evaluation_proofs` proves, for any numbers of evaluations, items, workers,
requests and faults and any limits:

* `TypeCorrect`: `Spec => []TypeOK`.
* `OneProcessor`: `Spec => []OneWorkerPerRound`. A claim is only made of a
  PENDING item, but the worker of an earlier round may still run, so the
  invariant adds `HeldRounds`: nobody holds a round newer than the item's, and
  while the item is PENDING everybody holds an older one.
* `CompletionIsDone`: `Spec => []CompletedIsDone`. The invariant carries what a
  finaliser has verified to its UPDATE (`Verified`), several finalisers with
  expired locks included, and says that only RUNNING items are stuck
  (`StuckRun`), so that the coordinator reopens nothing.
* `OneBatch`: `Spec => []BatchesExclusive` if no batch outlasts its lock
  (`"slow_batch" \notin Faults`: the lock expires after 60 seconds, and nothing
  renews it). The invariant `BatchHolds` says that a batch from its
  acquisition to its release holds the lock.
* `CompletionIsExact`: `Spec => []CompletedIsExact` if nobody retries and no item
  takes fifteen minutes, whatever crashes, is redelivered, paused, resumed or deleted.
  Beside the properties of a finaliser (`ClosingExact`, `FinalisedSettled`) the
  invariant `ExactInv` says that an item has one holder at most (`OneHolder`),
  and that what is held is open and not among the stuck, so that neither the
  coordinator nor a second worker touches it (`HeldOpen`). A retry between
  verification and UPDATE, or an item reopened under its worker, breaks it: see
  above.

Both of these modules have a frame lemma (what all actions but one or two
keep) and one lemma per group of actions that establishes the frame.

`ResourceQuota_proofs` proves, for any resources, limits, requests and bounds:

* `TypeCorrect`: `Spec => []TypeOK`.
* `ImplementsLedger`: `Spec => KeepsLedger`, the refinement of `QuotaLedger`:
  every commit is one `Charge` or one `Refund`, and every other step a
  `Recount`, a `SetLimits` or a stutter.
* `CollectionQuota`: `Spec => []CollectionFits`.

The invariant ties the state of a request to the rows it has locked: a request
that was charged holds the quota's row, sees its usage and what it adds to it,
and found room (`Charged`); one that has counted its collection still finds
what it counted, because all who add documents hold the same row (`Counted`); a
deletion's balance is at most the usage it locked (`Refunded`). Cardinalities
of the resources that are added or marked are what the step proofs are about.

`CollectionSummary_proofs` proves, for any collections, requests, reconcilers,
tasks and bounds:

* `TypeCorrect`: `Spec => []TypeOK`.
* `ClaimsExclusive`: `Spec => []ClaimsHold`. The invariant says where a
  reconciler's transaction has written, hence locked, a row, and that a
  claimed row is there.
* `Describing`: `Spec => DescribesTheSummary`: of all actions only the callback
  writes a generated description, in the step that stores the summary.

`FlowEngine_proofs` proves, for any finite set of nodes, any flows and any
runners:

* `TypeCorrect`: `Spec => []TypeOK`.
* `InputsAreReady`: `Spec => []InputsReady`. The counters are in-degrees
  among the nodes not yet taken, so a counter of zero means that all
  predecessors are in earlier groups, which are done.
* `RefusedExactly`: `Spec => []OnlyCyclesRefused`. In one direction the order in
  which nodes are sorted is a rank; in the other, of the nodes that are not
  sorted the one with the least rank has no predecessor among them, so its
  counter is zero and it would be in the queue.
* `FailureIsFinal`: `Spec => NothingStartsAfterFailure`.
* `EndedInFull`: `Spec => []EndedIsComplete`. The events of a node always say
  which state it is in (`Told`), and a flow that ended has all its nodes done,
  so that nothing can follow its last event (`Closed`).

`SearchFlow_proofs` builds on it, for any searches a request may ask for, any
documents they may find and any order in which they end. Each theorem has the
hypothesis `SearchRunners`: the constant `Run` is `RunSearch`, as every run
gives it.

* `InputsBind`: `Spec => []SearchBinds`.
* `NothingIsLost`: `Spec => []SearchAnswers`.
* `FallbackIsOrdered`: `Spec => []FallbackOrders`.
* `ImagesComeOnce`: `Spec => []ImagesOnce`.

They rest on what the list operators return. `ArrangedPlaces`: if `R` orders the
indices `I` strictly, as many entries come before an entry as say its place, no
two entries have the same place, so by counting every place is taken, and
`Arranged` is the list of the entries at `I`, each once, in the order `R`. From
this follow what `Unique`, `OneMethodEach`, `ByScore` and `Fallback` return
(`UniqueTexts`, `OneMethod`, `ByScorePlaces`, `FallbackPlaces`). The invariant `Left` says
what each finished node has left; it is preserved because a node writes its
own output only, and by `InputsReady` what it has read is final and what
reads it has not started. The assumption on documents
(`DocumentsAssumption`) is that scores are numbers, images have one of the two methods the
index writes, searches find lists of documents, and no such list is `NoOutput`.

`GraphIndex_proofs` proves, for any documents, chunks, extractions, threads and
bounds, from the assumption that an entity, a relation and a thread differ from
`Nobody`:

* `TypeCorrect`: `Spec => []TypeOK`.
* `LocksHeld`: `Spec => []LocksAreHeld`. The invariant adds what a thread is at
  work on in each phase (`Fine`): nothing outside of a merge, an entity or a
  relation in it, whose lock it then holds. Every action is an instance of one of four
  lemmas: a thread goes on with what it has, takes a free lock, gives it up, or
  leaves.

Under the assumptions that documents have chunks and that a chunk relates pairs
of entities it also proves of the stores, for any number of tasks and faults
(the run has three and two):

* `DeletionComplete`: `Spec => []NothingLeftBehind`.
* `BuildsRepresented`: `Spec => []Represented`.
* `EndsAreNodes`: `Spec => []EndpointsExist`.

The three hold together, by the invariant `CInv`: while no deletion has
overlapped, the stores are as the properties say (`Contents`), a deletion is
alone (`Alone`), and every thread's work is consistent with the stores. For a
build that is `Builds`: what its document says is stored or still to come
(`Covered`), what it has read under a lock is still what is stored (`Merges`,
`Links`), and the named ends of a relation are nodes before it is merged
(`Found`), which is why a missing end it creates is never a named entity. For a
deletion it is `Deletes`: each store has a `Plan`, writes that take the
gone chunks out and nothing else. A removal that fails in silence is as good as
made, for vectors that are not looked at: all of this is said of `Known`, the
entities' vectors without those of `lost`, and of the writes that are
not to these (`Sound`). A step of a build is shown to make the
stores grow (`Grows`) and to leave alone what others hold locked, so other
builds keep their part (`Bystanding`); a step of a deletion carries out part of
a plan (`WrittenPlan`, `UpdatedPlan`). A dropped node takes edges along: none
that is shown, because a plan drops no node that a built chunk names.

`Marketplace_proofs` proves, for any users, requests and rows:

* `TypeCorrect`: `Spec => []TypeOK`.
* `UnpublishRevokes`: `Spec => []RevokedForGood`. Between its selection and its
  commit an unpublish holds every row it found when it began that is still active
  (`HoldsInv`).
* `SecondNeedsOverlap`: `Spec => []DuplicatesOverlap`. A request about to insert
  began with no row of its user that is active now (`AloneInv`).

Both need that a row once written is a row for ever (`BeganInv`, `NotedInv`).
Of every action, one of three lemmas says that it keeps the invariant: it writes no
row, closes some, or creates one.

Every invariant and every action property of the passing runs is stated by a
theorem. Only model-checked are the liveness properties (`PendingIsPickedUp`,
`TasksEnd`, `EvaluationFinishes`, `FlowEnds` and the others of the kind): fairness
and ENABLED are out of the prover's reach. What `BatchesExclusive` and
`CompletedIsExact` need beside `Spec` is a hypothesis of their theorems, and holds
of the instances that the runs check. `RevokedForGood` and `DuplicatesOverlap` are
proved and belong to no run.

## 5. Not modelled

`PROJECT.json` lists every component with its status. Left out:

* parsers, object stores, sources, web search, tracing, the DingTalk bridge,
  user interface and deployment: I/O or no state to get wrong;
* single-statement CRUD (chats, question sets, prompts, settings, models and
  providers, API keys, audit, exports);
* agent sessions, whose behaviour rests on an external agent library;
* of LightRAG, what the language model extracts (an input of `GraphIndex`),
  descriptions and weights, queries, and `amerge_nodes`, which takes none of
  the locks of the merges;
* the contents of the vector, full-text, summary and vision stores: each is
  written and deleted by the ids in the index row;
* the renewing lock of `concurrent_control/utils.py`, which nothing uses.
