----------------------------- MODULE ResourceQuota -----------------------------
(***************************************************************************)
(* The quotas of one user and the requests that consume and release them.  *)
(*                                                                         *)
(* A row of user_quota holds the limit and the usage of one kind of        *)
(* resource.  A request that creates resources locks the row (SELECT FOR   *)
(* UPDATE), charges it, and creates them in the same transaction; one that *)
(* deletes resources marks them and then locks the row to release.         *)
(* Documents arrive in two phases, upload and confirmation, and only the   *)
(* second is charged.  An administrator sets limits and recounts usage.    *)
(*                                                                         *)
(* Granularity.  READ COMMITTED: each SELECT is a step, a row that a       *)
(* transaction has locked or written stays locked until it ends, and its   *)
(* writes are visible from its commit.  A transaction may fail at every    *)
(* point.                                                                  *)
(***************************************************************************)
EXTENDS Integers, FiniteSets

CONSTANTS
    Collections, Bots,    \* resources the user may have, by name
    Documents,            \* documents, by name; a name is used once
    Requests,             \* API requests that may be in flight together
    NoOne,                \* the holder of a row nobody has locked
    Limits,               \* initial limit of each key
    PerCollection,        \* max_document_count_per_collection
    NewLimits,            \* the limits an administrator may set
    Ops,                  \* the kinds of request the environment sends
    MaxRequests           \* bound: requests in a behaviour

Keys == {"max_collection_count", "max_bot_count", "max_document_count"}

AllOps == {"create", "delete", "upload", "add", "confirm", "remove", "expire", "recount", "limit"}

Items == Collections \cup Bots

Rows == Items \cup Documents \cup Keys

ASSUME OpsAssumption == Ops \subseteq AllOps
ASSUME NamesAssumption ==
    /\ Collections \cap Bots = {} /\ Items \cap Documents = {}
    /\ Keys \cap (Items \cup Documents) = {}
    /\ NoOne \notin Requests \cup Items \cup Documents
    /\ IsFiniteSet(Items) /\ IsFiniteSet(Documents)
ASSUME LimitsAssumption == Limits \in [Keys -> Nat] /\ NewLimits \subseteq Nat /\ PerCollection \in Nat
ASSUME BoundAssumption == MaxRequests \in Nat

VARIABLES
    item,      \* collections and bots: status
    doc,       \* documents: status
    home,      \* the collection of a document
    usage,     \* user_quota.current_usage
    limit,     \* user_quota.quota_limit
    lock,      \* the transaction that holds a row
    req,       \* the local state of each request
    sent       \* requests sent so far

vars == <<item, doc, home, usage, limit, lock, req, sent>>

-----------------------------------------------------------------------------
ItemStatus == {"none", "ACTIVE", "DELETED"}

\* PENDING stands for every status of the indexing pipeline.
DocStatus == {"none", "UPLOADED", "PENDING", "EXPIRED", "DELETED"}

KeyOf(x) == IF x \in Collections THEN "max_collection_count"
            ELSE IF x \in Bots THEN "max_bot_count" ELSE "max_document_count"

RequestState ==
    [op : AllOps \cup {"none"},
     phase : {"idle", "open", "charged", "counted", "write", "release"},
     key : Keys,
     names : SUBSET (Items \cup Documents),   \* what the request names
     todo : SUBSET (Items \cup Documents),    \* what it has not handled yet
     current : Items \cup Documents \cup {NoOne},
     marked : SUBSET (Items \cup Documents),  \* the rows it has written
     balance : Int,                           \* the usage its transaction sees
     place : Collections \cup {NoOne},
     count : [Keys -> Int]]                   \* a recount; -1 where nothing is written

IdleRequest == [op |-> "none", phase |-> "idle", key |-> "max_document_count", names |-> {}, todo |-> {},
                current |-> NoOne, marked |-> {}, balance |-> 0, place |-> NoOne, count |-> [k \in Keys |-> 0]]

Live(k) ==
    IF k = "max_document_count"
    THEN Cardinality({d \in Documents : doc[d] = "PENDING"})
    ELSE Cardinality({x \in Items : KeyOf(x) = k /\ item[x] = "ACTIVE"})

\* Collections and bots were created through the quota; uploads are not charged.
Init ==
    /\ item \in [Items -> {"none", "ACTIVE"}]
    /\ home \in [Documents -> Collections \cup {NoOne}]
    /\ doc = [d \in Documents |-> IF home[d] = NoOne THEN "none" ELSE "UPLOADED"]
    /\ \A d \in Documents : home[d] # NoOne => item[home[d]] = "ACTIVE"
    /\ limit = Limits
    /\ usage = [k \in Keys |-> Live(k)]
    /\ \A k \in Keys : usage[k] <= limit[k]
    /\ lock = [x \in Rows |-> NoOne]
    /\ req = [r \in Requests |-> IdleRequest]
    /\ sent = 0

Open(r, s) ==
    /\ req[r].phase = "idle"
    /\ sent < MaxRequests
    /\ s.op \in Ops
    /\ req' = [req EXCEPT ![r] = s]
    /\ sent' = sent + 1
    /\ UNCHANGED <<item, doc, home, usage, limit, lock>>

FreeFor(x, r) == lock[x] \in {NoOne, r}

\* Mutant: the quota's row is left locked.
UnlockResources(r) == [x \in Rows |-> IF lock[x] = r /\ x \notin Keys THEN NoOne ELSE lock[x]]

Unlock(r) == [x \in Rows |-> IF lock[x] = r THEN NoOne ELSE lock[x]]

\* The request ends and its transaction with it.
End(r) ==
    /\ req' = [req EXCEPT ![r] = IdleRequest]
    /\ lock' = Unlock(r)

\* An exception anywhere, or the client goes away: nothing is committed.
Rollback(r) ==
    /\ req[r].phase # "idle"
    /\ End(r)
    /\ UNCHANGED <<item, doc, home, usage, limit, sent>>

-----------------------------------------------------------------------------
(* quota_service                                                           *)

\* Mutant: the row is read without FOR UPDATE.
ReadRow(r) == lock' = lock

\* SELECT ... FOR UPDATE of the row of the request's key.
LockRow(r) ==
    /\ FreeFor(req[r].key, r)
    /\ lock' = [lock EXCEPT ![req[r].key] = r]

HasRoom(k, n) == usage[k] + n <= limit[k]

\* check_and_consume_quota: one unit for each name of the request.
Consume(r) ==
    LET k == req[r].key
        n == Cardinality(req[r].names)
    IN /\ req[r].op \in {"create", "add", "confirm"}
       /\ req[r].phase = "open"
       /\ HasRoom(k, n)
       /\ LockRow(r)
       /\ req' = [req EXCEPT ![r] = [req[r] EXCEPT !.phase = "charged", !.balance = usage[k] + n]]
       /\ UNCHANGED <<item, doc, home, usage, limit, sent>>

\* Mutant: not clipped at zero.
ReleasedOne(seen) == seen - 1

Released(seen) == IF seen > 0 THEN seen - 1 ELSE 0

\* release_quota for the row just marked, in the transaction of the deletion.
ReleaseQuota(r) ==
    LET k == req[r].key
        seen == IF lock[k] = r THEN req[r].balance ELSE usage[k]
    IN /\ req[r].phase = "release"
       /\ LockRow(r)
       /\ req' = [req EXCEPT ![r] = [req[r] EXCEPT
                     !.phase = "open", !.balance = Released(seen), !.current = NoOne]]
       /\ UNCHANGED <<item, doc, home, usage, limit, sent>>

\* update_user_quota: the rows of the keys it names are read without a lock,
\* and only their limits are written, together at the flush.
UpdateUserQuota(r) ==
    \E keys \in (SUBSET Keys) \ {{}} : \E new \in [keys -> NewLimits] :
        /\ req[r].op = "limit"
        /\ \A k \in keys : FreeFor(k, r)
        /\ limit' = [k \in Keys |-> IF k \in keys THEN new[k] ELSE limit[k]]
        /\ End(r)
        /\ UNCHANGED <<item, doc, home, usage, sent>>

\* recalculate_user_usage counts what is not deleted; the counts of the three
\* kinds are one step, as each is written to a row of its own.
Actual(k) ==
    IF k = "max_document_count"
    THEN Cardinality({d \in Documents : doc[d] \notin {"none", "DELETED"} /\ item[home[d]] = "ACTIVE"})
    ELSE Live(k)

Recount(r) ==
    /\ req[r].op = "recount" /\ req[r].phase = "open"
    /\ req' = [req EXCEPT ![r] = [req[r] EXCEPT !.phase = "counted", !.count = [k \in Keys |-> Actual(k)]]]
    /\ UNCHANGED <<item, doc, home, usage, limit, lock, sent>>

\* It loads the rows, and the ORM writes the usage of those that differ.
LoadUsage(r) ==
    /\ req[r].op = "recount" /\ req[r].phase = "counted"
    /\ req' = [req EXCEPT ![r] = [req[r] EXCEPT
                  !.phase = "write", !.count = [k \in Keys |-> IF usage[k] = @[k] THEN -1 ELSE @[k]]]]
    /\ UNCHANGED <<item, doc, home, usage, limit, lock, sent>>

WriteUsage(r) ==
    LET written == {k \in Keys : req[r].count[k] >= 0} IN
    /\ req[r].op = "recount" /\ req[r].phase = "write"
    /\ \A k \in written : FreeFor(k, r)
    /\ usage' = [k \in Keys |-> IF k \in written THEN req[r].count[k] ELSE usage[k]]
    /\ End(r)
    /\ UNCHANGED <<item, doc, home, limit, sent>>

-----------------------------------------------------------------------------
(* collection_service and bot_service                                      *)

OpenCreate(r) ==
    \E x \in Items : item[x] = "none" /\
        Open(r, [IdleRequest EXCEPT !.op = "create", !.phase = "open", !.key = KeyOf(x), !.names = {x}])

CommitCreate(r) ==
    /\ req[r].op = "create" /\ req[r].phase = "charged"
    /\ item' = [x \in Items |-> IF x \in req[r].names THEN "ACTIVE" ELSE item[x]]
    /\ usage' = [usage EXCEPT ![req[r].key] = req[r].balance]
    /\ End(r)
    /\ UNCHANGED <<doc, home, limit, sent>>

\* query_collection, query_bot: it must exist before the transaction begins.
OpenDelete(r) ==
    \E x \in Items : item[x] = "ACTIVE" /\
        Open(r, [IdleRequest EXCEPT !.op = "delete", !.phase = "open", !.key = KeyOf(x), !.names = {x}, !.todo = {x}])

\* In the transaction a bot must still not be deleted; a collection may be.
SelectItem(r) ==
    /\ req[r].op = "delete" /\ req[r].phase = "open"
    /\ \E x \in req[r].todo :
         /\ x \in Bots => item[x] # "DELETED"
         /\ req' = [req EXCEPT ![r] = [req[r] EXCEPT !.phase = "write", !.current = x, !.todo = @ \ {x}]]
    /\ UNCHANGED <<item, doc, home, usage, limit, lock, sent>>

\* The row of the resource is written, and locked with it, before the quota's.
MarkRow(r) ==
    LET x == req[r].current IN
    /\ req[r].op \in {"delete", "remove", "confirm"} /\ req[r].phase = "write"
    /\ FreeFor(x, r)
    /\ lock' = [lock EXCEPT ![x] = r]
    /\ req' = [req EXCEPT ![r] = [req[r] EXCEPT
                  !.marked = @ \cup {x},
                  !.phase = IF req[r].op = "confirm" THEN "counted" ELSE "release"]]
    /\ UNCHANGED <<item, doc, home, usage, limit, sent>>

CommitDelete(r) ==
    /\ req[r].op = "delete" /\ req[r].phase = "open" /\ req[r].todo = {}
    /\ item' = [x \in Items |-> IF x \in req[r].marked THEN "DELETED" ELSE item[x]]
    /\ usage' = [usage EXCEPT ![req[r].key] = req[r].balance]
    /\ End(r)
    /\ UNCHANGED <<doc, home, limit, sent>>

-----------------------------------------------------------------------------
(* document_service                                                        *)

\* _validate_collection, in a query of its own.
OpenUpload(r) ==
    \E d \in Documents, c \in Collections :
        /\ item[c] = "ACTIVE"
        /\ Open(r, [IdleRequest EXCEPT !.op = "upload", !.phase = "open", !.names = {d}, !.place = c])

\* INSERT ... ON CONFLICT DO NOTHING: a name that exists is returned as it is.
CommitUpload(r) ==
    LET new == {d \in req[r].names : doc[d] = "none"} IN
    /\ req[r].op = "upload"
    /\ doc' = [d \in Documents |-> IF d \in new THEN "UPLOADED" ELSE doc[d]]
    /\ home' = [d \in Documents |-> IF d \in new THEN req[r].place ELSE home[d]]
    /\ End(r)
    /\ UNCHANGED <<item, usage, limit, sent>>

\* create_documents: new files and files the collection has already.
OpenAdd(r) ==
    \E c \in Collections, F \in (SUBSET Documents) \ {{}} :
        /\ item[c] = "ACTIVE"
        /\ \A d \in F : doc[d] # "DELETED" /\ home[d] \in {NoOne, c}
        /\ Open(r, [IdleRequest EXCEPT !.op = "add", !.phase = "open", !.names = F, !.place = c])

\* confirm_documents names documents of one collection, whatever their status.
OpenConfirm(r) ==
    \E c \in Collections : \E F \in (SUBSET {d \in Documents : home[d] = c}) \ {{}} :
        Open(r, [IdleRequest EXCEPT !.op = "confirm", !.phase = "open", !.names = F, !.todo = F, !.place = c])

\* _check_document_quotas: the documents of the collection, counted under the
\* lock of the user's row.
Fits(c, n) ==
    Cardinality({d \in Documents : home[d] = c /\ doc[d] \notin {"none", "DELETED", "UPLOADED"}}) + n <= PerCollection

CountCollection(r) ==
    /\ req[r].op \in {"add", "confirm"} /\ req[r].phase = "charged"
    /\ Fits(req[r].place, Cardinality(req[r].names))
    /\ req' = [req EXCEPT ![r] = [req[r] EXCEPT !.phase = "counted"]]
    /\ UNCHANGED <<item, doc, home, usage, limit, lock, sent>>

\* Names that exist are left alone, though they were charged for.  The unique
\* index keeps a name from being inserted twice.
CommitAdd(r) ==
    LET new == {d \in req[r].names : doc[d] = "none"} IN
    /\ req[r].op = "add" /\ req[r].phase = "counted"
    /\ doc' = [d \in Documents |-> IF d \in new THEN "PENDING" ELSE doc[d]]
    /\ home' = [d \in Documents |-> IF d \in new THEN req[r].place ELSE home[d]]
    /\ usage' = [usage EXCEPT !["max_document_count"] = req[r].balance]
    /\ End(r)
    /\ UNCHANGED <<item, limit, sent>>

\* Confirmation looks the collection up once, before its first document ...
SelectsFirst(r) == req[r].op = "confirm" /\ req[r].phase = "counted" /\ req[r].todo = req[r].names

\* ... and at one document after the other, without a lock.  The collection and
\* the first document are one step: no request writes both.
SelectUploaded(r) ==
    /\ req[r].op = "confirm" /\ req[r].phase = "counted"
    /\ SelectsFirst(r) => item[req[r].place] = "ACTIVE"
    /\ \E d \in req[r].todo :
         req' = [req EXCEPT ![r] = [req[r] EXCEPT
                   !.todo = @ \ {d},
                   !.current = d,
                   !.phase = IF doc[d] = "UPLOADED" THEN "write" ELSE "counted"]]
    /\ UNCHANGED <<item, doc, home, usage, limit, lock, sent>>

CommitConfirm(r) ==
    /\ req[r].op = "confirm" /\ req[r].phase = "counted" /\ req[r].todo = {}
    /\ doc' = [d \in Documents |-> IF d \in req[r].marked THEN "PENDING" ELSE doc[d]]
    /\ usage' = [usage EXCEPT !["max_document_count"] = req[r].balance]
    /\ End(r)
    /\ UNCHANGED <<item, home, limit, sent>>

OpenRemove(r) ==
    \E c \in Collections : \E F \in (SUBSET {d \in Documents : home[d] = c}) \ {{}} :
        Open(r, [IdleRequest EXCEPT !.op = "remove", !.phase = "open", !.names = F, !.todo = F, !.place = c])

\* _delete_document reads the document in a session of its own.
SelectDocument(r) ==
    /\ req[r].op = "remove" /\ req[r].phase = "open"
    /\ \E d \in req[r].todo :
         req' = [req EXCEPT ![r] = [req[r] EXCEPT
                   !.todo = @ \ {d},
                   !.current = d,
                   !.phase = IF doc[d] = "DELETED" THEN "open" ELSE "write"]]
    /\ UNCHANGED <<item, doc, home, usage, limit, lock, sent>>

CommitRemove(r) ==
    /\ req[r].op = "remove" /\ req[r].phase = "open" /\ req[r].todo = {}
    /\ doc' = [d \in Documents |-> IF d \in req[r].marked THEN "DELETED" ELSE doc[d]]
    /\ usage' = IF req[r].marked = {} THEN usage ELSE [usage EXCEPT !["max_document_count"] = req[r].balance]
    /\ End(r)
    /\ UNCHANGED <<item, home, limit, sent>>

\* cleanup_expired_documents selects what is UPLOADED and writes it later.
OpenExpire(r) ==
    \E c \in Collections : \E old \in (SUBSET {d \in Documents : home[d] = c /\ doc[d] = "UPLOADED"}) \ {{}} :
        Open(r, [IdleRequest EXCEPT !.op = "expire", !.phase = "open", !.names = old, !.place = c])

CommitExpire(r) ==
    /\ req[r].op = "expire"
    /\ \A d \in req[r].names : FreeFor(d, r)
    /\ doc' = [d \in Documents |-> IF d \in req[r].names THEN "EXPIRED" ELSE doc[d]]
    /\ End(r)
    /\ UNCHANGED <<item, home, usage, limit, sent>>

-----------------------------------------------------------------------------
(* A request that is refused, and one the database picks as the victim of  *)
(* a deadlock: a deletion holds a document and waits for the quota, while  *)
(* a confirmation or another deletion holds the quota and waits for the    *)
(* document.                                                               *)

Refuse(r) ==
    /\ \/ /\ req[r].op \in {"create", "add", "confirm"} /\ req[r].phase = "open"
          /\ FreeFor(req[r].key, r)
          /\ ~HasRoom(req[r].key, Cardinality(req[r].names))
       \/ /\ req[r].op \in {"add", "confirm"} /\ req[r].phase = "charged"
          /\ ~Fits(req[r].place, Cardinality(req[r].names))
       \/ SelectsFirst(r) /\ item[req[r].place] # "ACTIVE"
       \/ /\ req[r].op = "delete" /\ req[r].phase = "open"
          /\ \E x \in req[r].todo \cap Bots : item[x] = "DELETED"
    /\ End(r)
    /\ UNCHANGED <<item, doc, home, usage, limit, sent>>

\* The row a transaction that holds others may have to wait for.
Needs(r) ==
    IF req[r].phase = "write" /\ req[r].op \in {"delete", "remove", "confirm"} THEN {req[r].current}
    ELSE IF req[r].phase = "release" THEN {req[r].key}
    ELSE {}

WaitsFor(r, s) == r # s /\ \E x \in Needs(r) : lock[x] = s

DeadlockVictim(r) ==
    /\ \E s \in Requests : WaitsFor(r, s) /\ WaitsFor(s, r)
    /\ End(r)
    /\ UNCHANGED <<item, doc, home, usage, limit, sent>>

-----------------------------------------------------------------------------
OpenRequest(r) ==
    \/ OpenCreate(r) \/ OpenDelete(r) \/ OpenUpload(r) \/ OpenAdd(r) \/ OpenConfirm(r) \/ OpenRemove(r)
    \/ OpenExpire(r)
    \/ \E op \in {"recount", "limit"} : Open(r, [IdleRequest EXCEPT !.op = op, !.phase = "open"])

RequestStep(r) ==
    \/ Consume(r) \/ ReleaseQuota(r) \/ UpdateUserQuota(r) \/ Recount(r) \/ LoadUsage(r) \/ WriteUsage(r)
    \/ CommitCreate(r) \/ SelectItem(r) \/ MarkRow(r) \/ CommitDelete(r)
    \/ CommitUpload(r) \/ CountCollection(r) \/ CommitAdd(r) \/ SelectUploaded(r) \/ CommitConfirm(r)
    \/ SelectDocument(r) \/ CommitRemove(r) \/ CommitExpire(r)
    \/ Refuse(r) \/ DeadlockVictim(r)

Next == \E r \in Requests : OpenRequest(r) \/ RequestStep(r) \/ Rollback(r)

Spec == Init /\ [][Next]_vars

\* A request that runs goes on, and the database finds deadlocks.
FairSpec == Spec /\ \A r \in Requests : WF_vars(RequestStep(r))

-----------------------------------------------------------------------------
(* Properties                                                              *)

TypeOK ==
    /\ item \in [Items -> ItemStatus]
    /\ doc \in [Documents -> DocStatus]
    /\ home \in [Documents -> Collections \cup {NoOne}]
    /\ usage \in [Keys -> Nat]
    /\ limit \in [Keys -> Nat]
    /\ lock \in [Rows -> Requests \cup {NoOne}]
    /\ req \in [Requests -> RequestState]
    /\ sent \in 0..MaxRequests

\* A collection never has more documents in the pipeline than its own quota
\* allows, although that quota is a count nobody locks: everyone who adds
\* documents counts and commits under the lock of the user's row
\* (_check_document_quotas), while deletions and expiries come and go.
CollectionFits ==
    \A c \in Collections : Cardinality({d \in Documents : home[d] = c /\ doc[d] = "PENDING"}) <= PerCollection

\* The quota service implements its promise: resources are only ever added by
\* a commit that charges for them within the limit, and no charge is lost to
\* a concurrent one (check_and_consume_quota, release_quota).
Promise == INSTANCE QuotaLedger WITH live <- [k \in Keys |-> Live(k)]

KeepsLedger == Promise!Ledger

\* Every request ends, although deletions and confirmations take the same
\* rows in opposite orders: nothing keeps a row locked for ever.
RequestsEnd == \A r \in Requests : req[r].phase # "idle" ~> req[r].phase = "idle"
===============================================================================
