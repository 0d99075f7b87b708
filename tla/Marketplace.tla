------------------------------ MODULE Marketplace ------------------------------
(***************************************************************************)
(* The marketplace record of one collection and the subscriptions to it:   *)
(* its owner publishes, unpublishes and deletes the collection while users *)
(* subscribe and unsubscribe.                                              *)
(*                                                                         *)
(* Granularity.  The checks of a request are transactions of their own, so *)
(* each is a step.  READ COMMITTED: a SELECT is a step, writes are visible *)
(* from their commit, and the marketplace row an unpublish has written is  *)
(* locked until then (the session flushes it before the SELECT of the      *)
(* subscriptions).  Collections share nothing of this, so there is one.    *)
(***************************************************************************)
EXTENDS Naturals, FiniteSets

CONSTANTS
    Users,
    Owner,           \* the user the collection belongs to
    Requests,        \* API requests that may be in flight together
    Subscriptions,   \* bound: rows of user_collection_subscription
    Nobody           \* no request holds the lock; no user has the row

VARIABLES
    collection,      \* status of the collection
    marketplace,     \* status of its row of collection_marketplace
    lock,            \* the request that has written that row and not committed
    subscription,    \* rows of user_collection_subscription
    request,         \* local state of each request
    revoked          \* history: rows older than an unpublish that succeeded

vars == <<collection, marketplace, lock, subscription, request, revoked>>

-----------------------------------------------------------------------------
\* The row is never deleted: nothing calls cleanup_collection_marketplace_data.
MarketplaceStatus == {"none", "DRAFT", "PUBLISHED"}

\* A row is open while its gmt_deleted is null.  History: "before" is the rows
\* there were when the request that wrote it began.
NoSubscription == [state |-> "none", user |-> Nobody, before |-> {}]

Idle == [phase |-> "idle", user |-> Nobody, status |-> "none", rows |-> {}, began |-> {}]

Phases == {"idle",
           "findMarketplace", "findCollection", "findExisting", "createSubscription",
           "findSubscription", "selectSubscription", "closeSubscription",
           "verifyPublish", "selectToPublish", "writePublish",
           "verifyUnpublish", "selectToUnpublish", "lockMarketplace", "closeSubscriptions"}

Init ==
    /\ collection = "ACTIVE"
    /\ marketplace = "none"
    /\ lock = Nobody
    /\ subscription = [s \in Subscriptions |-> NoSubscription]
    /\ request = [r \in Requests |-> Idle]
    /\ revoked = {}

Rows == {s \in Subscriptions : subscription[s].state # "none"}
Active == {s \in Subscriptions : subscription[s].state = "active"}
ActiveOf(u) == {s \in Active : subscription[s].user = u}

At(r, phase) == request[r].phase = phase
Goto(r, phase) == request' = [request EXCEPT ![r].phase = phase]
Done(r) == request' = [request EXCEPT ![r] = Idle]
Close(rows) == [s \in Subscriptions |->
                    IF s \in rows THEN [subscription[s] EXCEPT !.state = "closed"] ELSE subscription[s]]

\* Goes on if the check holds; otherwise the request raises, or has nothing to do.
Check(r, ok, phase) ==
    /\ IF ok THEN Goto(r, phase) ELSE Done(r)
    /\ UNCHANGED <<collection, marketplace, lock, subscription, revoked>>

\* An API request arrives.
Begin(r) ==
    /\ At(r, "idle")
    /\ \E u \in Users, first \in {"findMarketplace", "findSubscription", "verifyPublish", "verifyUnpublish"} :
           request' = [request EXCEPT ![r] = [Idle EXCEPT !.phase = first, !.user = u, !.began = Rows]]
    /\ UNCHANGED <<collection, marketplace, lock, subscription, revoked>>

\* A query or a commit raises, or the process ends: the transaction is rolled back.
Fail(r) ==
    /\ ~At(r, "idle")
    /\ Done(r)
    /\ lock' = IF lock = r THEN Nobody ELSE lock
    /\ UNCHANGED <<collection, marketplace, subscription, revoked>>

-----------------------------------------------------------------------------
\* subscribe_collection
FindMarketplace(r) == At(r, "findMarketplace") /\ Check(r, marketplace = "PUBLISHED", "findCollection")

FindCollection(r) ==
    At(r, "findCollection") /\ Check(r, collection = "ACTIVE" /\ request[r].user # Owner, "findExisting")

FindExisting(r) == At(r, "findExisting") /\ Check(r, ActiveOf(request[r].user) = {}, "createSubscription")

\* Nothing is checked again, and the unique constraint lets rows with a null
\* gmt_deleted be.
CreateSubscription(r) ==
    /\ At(r, "createSubscription")
    /\ \E s \in Subscriptions \ Rows :
           subscription' = [subscription EXCEPT ![s] =
               [state |-> "active", user |-> request[r].user, before |-> request[r].began]]
    /\ Done(r)
    /\ UNCHANGED <<collection, marketplace, lock, revoked>>

\* unsubscribe_collection: a look, then a transaction that looks again and
\* closes one row.
FindSubscription(r) ==
    At(r, "findSubscription") /\ Check(r, ActiveOf(request[r].user) # {}, "selectSubscription")

SelectSubscription(r) ==
    /\ At(r, "selectSubscription")
    /\ IF ActiveOf(request[r].user) = {}
       THEN Done(r)
       ELSE \E s \in ActiveOf(request[r].user) :
                request' = [request EXCEPT ![r].phase = "closeSubscription", ![r].rows = {s}]
    /\ UNCHANGED <<collection, marketplace, lock, subscription, revoked>>

CloseSubscription(r) ==
    /\ At(r, "closeSubscription")
    /\ subscription' = Close(request[r].rows)
    /\ Done(r)
    /\ UNCHANGED <<collection, marketplace, lock, revoked>>

-----------------------------------------------------------------------------
Owns(r) == collection = "ACTIVE" /\ request[r].user = Owner

\* publish_collection
VerifyPublish(r) == At(r, "verifyPublish") /\ Check(r, Owns(r), "selectToPublish")

SelectToPublish(r) ==
    /\ At(r, "selectToPublish")
    /\ request' = [request EXCEPT ![r].phase = "writePublish", ![r].status = marketplace]
    /\ UNCHANGED <<collection, marketplace, lock, subscription, revoked>>

\* Where no row was found one is inserted, and the constraint on collection_id
\* refuses a second.  The ORM does not write a status that is as it was loaded.
WritePublish(r) ==
    /\ At(r, "writePublish")
    /\ lock = Nobody
    /\ marketplace' = CASE request[r].status = "none" /\ marketplace # "none" -> marketplace
                        [] request[r].status = "PUBLISHED" -> marketplace
                        [] OTHER -> "PUBLISHED"
    /\ Done(r)
    /\ UNCHANGED <<collection, lock, subscription, revoked>>

\* unpublish_collection
VerifyUnpublish(r) == At(r, "verifyUnpublish") /\ Check(r, Owns(r), "selectToUnpublish")

SelectToUnpublish(r) ==
    /\ At(r, "selectToUnpublish")
    /\ IF marketplace = "none"
       THEN Done(r)
       ELSE request' = [request EXCEPT ![r].phase = "lockMarketplace", ![r].status = marketplace]
    /\ UNCHANGED <<collection, marketplace, lock, subscription, revoked>>

LockAndSelect(r) ==
    /\ At(r, "lockMarketplace")
    /\ lock = Nobody
    /\ lock' = r
    /\ request' = [request EXCEPT ![r].phase = "closeSubscriptions", ![r].rows = Active]
    /\ UNCHANGED <<collection, marketplace, subscription, revoked>>

\* Rows of one user would be closed at the same gmt_deleted: the unique
\* constraint refuses them, and with them the whole unpublish.
Collide(rows) == \E s, t \in rows : s # t /\ subscription[s].user = subscription[t].user

CommitUnpublish(r) ==
    /\ At(r, "closeSubscriptions")
    /\ IF Collide(request[r].rows)
       THEN UNCHANGED <<marketplace, subscription, revoked>>
       ELSE /\ marketplace' = IF request[r].status = "DRAFT" THEN marketplace ELSE "DRAFT"
            /\ subscription' = Close(request[r].rows)
            /\ revoked' = revoked \cup request[r].began
    /\ lock' = Nobody
    /\ Done(r)
    /\ UNCHANGED collection

\* The collection is deleted; the marketplace is not told.
DeleteCollection ==
    /\ collection = "ACTIVE"
    /\ collection' = "DELETED"
    /\ UNCHANGED <<marketplace, lock, subscription, request, revoked>>

-----------------------------------------------------------------------------
Subscribe(r) == FindMarketplace(r) \/ FindCollection(r) \/ FindExisting(r) \/ CreateSubscription(r)

Unsubscribe(r) == FindSubscription(r) \/ SelectSubscription(r) \/ CloseSubscription(r)

Publish(r) == VerifyPublish(r) \/ SelectToPublish(r) \/ WritePublish(r)

Unpublish(r) == VerifyUnpublish(r) \/ SelectToUnpublish(r) \/ LockAndSelect(r) \/ CommitUnpublish(r)

Next ==
    \/ \E r \in Requests : Begin(r) \/ Subscribe(r) \/ Unsubscribe(r) \/ Publish(r) \/ Unpublish(r) \/ Fail(r)
    \/ DeleteCollection

Spec == Init /\ [][Next]_vars

-----------------------------------------------------------------------------
\* Every variable has its type: the status of the marketplace row, one lock,
\* rows and requests with their local state.
TypeOK ==
    /\ collection \in {"ACTIVE", "DELETED"}
    /\ marketplace \in MarketplaceStatus
    /\ lock \in Requests \cup {Nobody}
    /\ subscription \in [Subscriptions -> [state : {"none", "active", "closed"}, user : Users \cup {Nobody},
                                           before : SUBSET Subscriptions]]
    /\ request \in [Requests -> [phase : Phases, user : Users \cup {Nobody}, status : MarketplaceStatus,
                                 rows : SUBSET Subscriptions, began : SUBSET Subscriptions]]
    /\ revoked \subseteq Subscriptions

\* A subscription that was there when the owner began to unpublish, and whose
\* unpublishing succeeded, is never active again: whatever subscribes,
\* unsubscribes and publishes overlap it, before or after.
RevokedForGood == revoked \cap Active = {}

\* A user has at most one active subscription to a published collection, as
\* the comment on UserCollectionSubscription.__table_args__ and the design
\* want.  Two requests of the user that overlap break it: each looks before
\* the other has inserted, and the constraint does not compare nulls.
ActiveUnique == \A u \in Users : Cardinality(ActiveOf(u)) <= 1

\* It takes an overlap: the later of two requests that did not is refused (or
\* the earlier row is closed).
DuplicatesOverlap ==
    \A s, t \in Active : s # t /\ subscription[s].user = subscription[t].user => s \notin subscription[t].before
=============================================================================
