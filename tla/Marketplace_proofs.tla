--------------------------- MODULE Marketplace_proofs ---------------------------
(***************************************************************************)
(* Proofs about Marketplace, for any number of users, requests and rows.   *)
(***************************************************************************)
EXTENDS Marketplace, TLAPS

\* What a request counted when it began, and what it has selected, are rows still.
BeganInv == \A r \in Requests : request[r].began \cup request[r].rows \subseteq Rows

\* So are those noted with a row, and the rows an unpublish was older than.
NotedInv == /\ \A s \in Subscriptions : subscription[s].before \subseteq Rows
            /\ revoked \subseteq Rows

\* An unpublish that is about to close rows holds, of the rows there were when
\* it began, every one that is active.
HoldsInv == \A r \in Requests : At(r, "closeSubscriptions") =>
                request[r].began \cap Active \subseteq request[r].rows

\* A request about to subscribe began with no active row of its user that
\* is active now.
AloneInv == \A r \in Requests : At(r, "createSubscription") =>
                request[r].began \cap ActiveOf(request[r].user) = {}

RevokedInv == RevokedForGood

OverlapInv == DuplicatesOverlap

\* The inductive invariant.
Inv == TypeOK /\ BeganInv /\ NotedInv /\ HoldsInv /\ AloneInv /\ RevokedInv /\ OverlapInv

-----------------------------------------------------------------------------
RequestType == [phase : Phases, user : Users \cup {Nobody}, status : MarketplaceStatus,
                rows : SUBSET Subscriptions, began : SUBSET Subscriptions]

SubscriptionType == [state : {"none", "active", "closed"}, user : Users \cup {Nobody},
                     before : SUBSET Subscriptions]

LEMMA IdleType == Idle \in RequestType
BY DEF Idle, RequestType, Phases, MarketplaceStatus

LEMMA DoneType == ASSUME TypeOK, NEW r \in Requests, Done(r)
                  PROVE  request' \in [Requests -> RequestType]
BY IdleType DEF TypeOK, Done, RequestType

LEMMA GotoType == ASSUME TypeOK, NEW r \in Requests, NEW phase \in Phases, Goto(r, phase)
                  PROVE  request' \in [Requests -> RequestType]
BY DEF TypeOK, Goto, RequestType

LEMMA StatusType == ASSUME TypeOK, NEW r \in Requests, NEW phase \in Phases,
                           request' = [request EXCEPT ![r].phase = phase, ![r].status = marketplace]
                    PROVE  request' \in [Requests -> RequestType]
<1>1. [request[r] EXCEPT !.phase = phase, !.status = marketplace] \in RequestType
  BY DEF TypeOK, RequestType
<1>2. request' = [request EXCEPT ![r] = [request[r] EXCEPT !.phase = phase, !.status = marketplace]]
  BY DEF TypeOK
<1> QED
  BY <1>1, <1>2 DEF TypeOK, RequestType

LEMMA RowsType == ASSUME TypeOK, NEW r \in Requests, NEW phase \in Phases, NEW rows \in SUBSET Subscriptions,
                         request' = [request EXCEPT ![r].phase = phase, ![r].rows = rows]
                  PROVE  request' \in [Requests -> RequestType]
<1>1. [request[r] EXCEPT !.phase = phase, !.rows = rows] \in RequestType
  BY DEF TypeOK, RequestType
<1>2. request' = [request EXCEPT ![r] = [request[r] EXCEPT !.phase = phase, !.rows = rows]]
  BY DEF TypeOK
<1> QED
  BY <1>1, <1>2 DEF TypeOK, RequestType

LEMMA CloseType == ASSUME TypeOK, NEW rows \in SUBSET Subscriptions
                   PROVE  Close(rows) \in [Subscriptions -> SubscriptionType]
BY DEF TypeOK, Close, SubscriptionType

LEMMA CheckType == ASSUME TypeOK, NEW r \in Requests, NEW phase \in Phases, NEW ok \in BOOLEAN,
                          Check(r, ok, phase)
                   PROVE  TypeOK'
<1>1. request' \in [Requests -> RequestType]
  BY DoneType, GotoType DEF Check
<1> QED
  BY <1>1 DEF TypeOK, Check, RequestType

LEMMA TypeInit == Init => TypeOK
<1>1. NoSubscription \in SubscriptionType
  BY DEF NoSubscription, SubscriptionType
<1> QED
  BY <1>1, IdleType DEF Init, TypeOK, RequestType, SubscriptionType, MarketplaceStatus

LEMMA TypeNext == TypeOK /\ [Next]_vars => TypeOK'
<1> SUFFICES ASSUME TypeOK, [Next]_vars
             PROVE  TypeOK'
  OBVIOUS
<1>1. ASSUME NEW r \in Requests, Begin(r)
      PROVE  TypeOK'
  <2>1. PICK u \in Users, first \in {"findMarketplace", "findSubscription", "verifyPublish", "verifyUnpublish"} :
           request' = [request EXCEPT ![r] = [Idle EXCEPT !.phase = first, !.user = u, !.began = Rows]]
    BY <1>1 DEF Begin
  <2>2. [Idle EXCEPT !.phase = first, !.user = u, !.began = Rows] \in RequestType
    BY IdleType DEF RequestType, Phases, Rows
  <2>3. request' \in [Requests -> RequestType]
    BY <2>1, <2>2 DEF TypeOK, RequestType
  <2> QED
    BY <1>1, <2>3 DEF Begin, TypeOK, RequestType
<1>2. ASSUME NEW r \in Requests, Fail(r)
      PROVE  TypeOK'
  <2>1. request' \in [Requests -> RequestType]
    BY <1>2, DoneType DEF Fail
  <2> QED
    BY <1>2, <2>1 DEF Fail, TypeOK, RequestType
<1>3. ASSUME NEW r \in Requests, Subscribe(r)
      PROVE  TypeOK'
  <2>1. CASE FindMarketplace(r)
    BY <2>1, CheckType DEF FindMarketplace, Phases
  <2>2. CASE FindCollection(r)
    BY <2>2, CheckType DEF FindCollection, Phases
  <2>3. CASE FindExisting(r)
    BY <2>3, CheckType DEF FindExisting, Phases
  <2>4. CASE CreateSubscription(r)
    <3>1. request' \in [Requests -> RequestType]
      BY <2>4, DoneType DEF CreateSubscription
    <3>2. [state |-> "active", user |-> request[r].user, before |-> request[r].began] \in SubscriptionType
      BY DEF TypeOK, SubscriptionType
    <3>3. subscription' \in [Subscriptions -> SubscriptionType]
      BY <2>4, <3>2 DEF CreateSubscription, TypeOK, SubscriptionType
    <3> QED
      BY <2>4, <3>1, <3>3 DEF CreateSubscription, TypeOK, RequestType, SubscriptionType
  <2> QED
    BY <1>3, <2>1, <2>2, <2>3, <2>4 DEF Subscribe
<1>4. ASSUME NEW r \in Requests, Unsubscribe(r)
      PROVE  TypeOK'
  <2>1. CASE FindSubscription(r)
    BY <2>1, CheckType DEF FindSubscription, Phases
  <2>2. CASE SelectSubscription(r)
    <3>1. CASE ActiveOf(request[r].user) = {}
      <4>1. request' \in [Requests -> RequestType]
        BY <2>2, <3>1, DoneType DEF SelectSubscription
      <4> QED
        BY <2>2, <4>1 DEF SelectSubscription, TypeOK, RequestType
    <3>2. CASE ActiveOf(request[r].user) # {}
      <4>1. PICK s \in ActiveOf(request[r].user) :
               request' = [request EXCEPT ![r].phase = "closeSubscription", ![r].rows = {s}]
        BY <2>2, <3>2 DEF SelectSubscription
      <4>2. {s} \in SUBSET Subscriptions
        BY DEF ActiveOf, Active
      <4>3. request' \in [Requests -> RequestType]
        BY <4>1, <4>2, RowsType DEF Phases
      <4> QED
        BY <2>2, <4>3 DEF SelectSubscription, TypeOK, RequestType
    <3> QED
      BY <3>1, <3>2
  <2>3. CASE CloseSubscription(r)
    <3>1. request' \in [Requests -> RequestType]
      BY <2>3, DoneType DEF CloseSubscription
    <3>2. subscription' \in [Subscriptions -> SubscriptionType]
      BY <2>3, CloseType DEF CloseSubscription, TypeOK
    <3> QED
      BY <2>3, <3>1, <3>2 DEF CloseSubscription, TypeOK, RequestType, SubscriptionType
  <2> QED
    BY <1>4, <2>1, <2>2, <2>3 DEF Unsubscribe
<1>5. ASSUME NEW r \in Requests, Publish(r)
      PROVE  TypeOK'
  <2>1. CASE VerifyPublish(r)
    BY <2>1, CheckType DEF VerifyPublish, Owns, Phases
  <2>2. CASE SelectToPublish(r)
    <3>1. request' \in [Requests -> RequestType]
      BY <2>2, StatusType DEF SelectToPublish, Phases
    <3> QED
      BY <2>2, <3>1 DEF SelectToPublish, TypeOK, RequestType
  <2>3. CASE WritePublish(r)
    <3>1. request' \in [Requests -> RequestType]
      BY <2>3, DoneType DEF WritePublish
    <3>2. marketplace' \in {marketplace, "PUBLISHED"}
      BY <2>3 DEF WritePublish
    <3> QED
      BY <2>3, <3>1, <3>2 DEF WritePublish, TypeOK, RequestType, MarketplaceStatus
  <2> QED
    BY <1>5, <2>1, <2>2, <2>3 DEF Publish
<1>6. ASSUME NEW r \in Requests, Unpublish(r)
      PROVE  TypeOK'
  <2>1. CASE VerifyUnpublish(r)
    BY <2>1, CheckType DEF VerifyUnpublish, Owns, Phases
  <2>2. CASE SelectToUnpublish(r)
    <3>1. request' \in [Requests -> RequestType]
      BY <2>2, DoneType, StatusType DEF SelectToUnpublish, Phases
    <3> QED
      BY <2>2, <3>1 DEF SelectToUnpublish, TypeOK, RequestType
  <2>3. CASE LockAndSelect(r)
    <3>1. Active \in SUBSET Subscriptions
      BY DEF Active
    <3>2. request' \in [Requests -> RequestType]
      BY <2>3, <3>1, RowsType DEF LockAndSelect, Phases
    <3> QED
      BY <2>3, <3>2 DEF LockAndSelect, TypeOK, RequestType
  <2>4. CASE CommitUnpublish(r)
    <3>1. request' \in [Requests -> RequestType]
      BY <2>4, DoneType DEF CommitUnpublish
    <3>2. subscription' \in [Subscriptions -> SubscriptionType]
      BY <2>4, CloseType DEF CommitUnpublish, TypeOK, SubscriptionType
    <3>3. marketplace' \in MarketplaceStatus /\ revoked' \subseteq Subscriptions
      BY <2>4 DEF CommitUnpublish, TypeOK, MarketplaceStatus
    <3> QED
      BY <2>4, <3>1, <3>2, <3>3 DEF CommitUnpublish, TypeOK, RequestType, SubscriptionType
  <2> QED
    BY <1>6, <2>1, <2>2, <2>3, <2>4 DEF Unpublish
<1>7. CASE DeleteCollection
  BY <1>7 DEF DeleteCollection, TypeOK
<1>8. CASE UNCHANGED vars
  BY <1>8 DEF vars, TypeOK
<1> QED
  BY <1>1, <1>2, <1>3, <1>4, <1>5, <1>6, <1>7, <1>8 DEF Next

\* The local state of requests, the rows and the marketplace keep their types.
THEOREM TypeCorrect == Spec => []TypeOK
BY TypeInit, TypeNext, PTL DEF Spec

-----------------------------------------------------------------------------
\* A step of request r that writes no row keeps the invariant if what r holds
\* after it is as the invariant wants it.
LEMMA QuietStep ==
    ASSUME Inv, TypeOK', NEW r \in Requests, subscription' = subscription, revoked' = revoked,
           \A q \in Requests \ {r} : request'[q] = request[q],
           request'[r].began \cup request'[r].rows \subseteq Rows,
           request'[r].phase = "closeSubscriptions" =>
               request'[r].began \cap Active \subseteq request'[r].rows,
           request'[r].phase = "createSubscription" =>
               request'[r].began \cap ActiveOf(request'[r].user) = {}
    PROVE  Inv'
<1>1. Rows' = Rows /\ Active' = Active
  BY DEF Rows, Active
<1>2. \A u : ActiveOf(u)' = ActiveOf(u)
  BY <1>1 DEF ActiveOf
<1>3. BeganInv'
  BY <1>1 DEF Inv, BeganInv
<1>4. NotedInv'
  BY <1>1 DEF Inv, NotedInv
<1>5. HoldsInv'
  BY <1>1 DEF Inv, HoldsInv, At
<1>6. AloneInv'
  BY <1>2 DEF Inv, AloneInv, At, ActiveOf, Active
<1>7. RevokedInv' /\ OverlapInv'
  BY <1>1 DEF Inv, RevokedInv, OverlapInv, RevokedForGood, DuplicatesOverlap
<1> QED
  BY <1>3, <1>4, <1>5, <1>6, <1>7 DEF Inv

\* A step that ends request r and closes rows keeps the invariant, if what it
\* declares revoked is closed by it or was before.
LEMMA ClosingStep ==
    ASSUME Inv, TypeOK', NEW r \in Requests, NEW rows \in SUBSET Rows,
           subscription' = Close(rows), Done(r),
           revoked' \subseteq Rows, revoked' \cap Active \subseteq rows
    PROVE  Inv'
<1>1. \A q \in Requests : request'[q] = IF q = r THEN Idle ELSE request[q]
  BY DEF Done, Inv, TypeOK
<1>2. Rows' = Rows
  BY DEF Rows, Close, Inv, TypeOK
<1>3. Active' = Active \ rows
  BY DEF Active, Close, Inv, TypeOK, Rows
<1>4. \A s \in Subscriptions : /\ subscription'[s].user = subscription[s].user
                               /\ subscription'[s].before = subscription[s].before
  BY DEF Close, Inv, TypeOK
<1>5. BeganInv'
  BY <1>1, <1>2 DEF Inv, BeganInv, Idle
<1>6. NotedInv'
  BY <1>2, <1>4 DEF Inv, NotedInv
<1>7. HoldsInv'
  BY <1>1, <1>3 DEF Inv, HoldsInv, At, Idle
<1>8. AloneInv'
  <2> SUFFICES ASSUME NEW q \in Requests, At(q, "createSubscription")', NEW s \in request'[q].began,
                      s \in Active', subscription'[s].user = request'[q].user
               PROVE  FALSE
    BY DEF AloneInv, ActiveOf, At
  <2>1. q # r /\ request'[q] = request[q] /\ At(q, "createSubscription")
    BY <1>1 DEF At, Idle
  <2>2. s \in Active /\ s \in Subscriptions
    BY <1>3 DEF Active
  <2>3. s \in ActiveOf(request[q].user)
    BY <1>4, <2>1, <2>2 DEF ActiveOf
  <2> QED
    BY <2>1, <2>3 DEF Inv, AloneInv
<1>9. RevokedInv'
  BY <1>3 DEF RevokedInv, RevokedForGood
<1>10. OverlapInv'
  BY <1>3, <1>4 DEF Inv, OverlapInv, DuplicatesOverlap, Active
<1> QED
  BY <1>5, <1>6, <1>7, <1>8, <1>9, <1>10 DEF Inv

LEMMA CreateStep == ASSUME Inv, TypeOK', NEW r \in Requests, CreateSubscription(r)
                    PROVE  Inv'
<1>1. PICK s \in Subscriptions \ Rows :
         subscription' = [subscription EXCEPT ![s] =
             [state |-> "active", user |-> request[r].user, before |-> request[r].began]]
  BY DEF CreateSubscription
<1>2. At(r, "createSubscription") /\ revoked' = revoked
  BY DEF CreateSubscription
<1>3. \A q \in Requests : request'[q] = IF q = r THEN Idle ELSE request[q]
  BY DEF CreateSubscription, Done, Inv, TypeOK
<1>4. \A t \in Subscriptions : t # s => subscription'[t] = subscription[t]
  BY <1>1 DEF Inv, TypeOK
<1>5. /\ subscription'[s].state = "active"
      /\ subscription'[s].user = request[r].user
      /\ subscription'[s].before = request[r].began
  BY <1>1 DEF Inv, TypeOK
<1>6. Rows' = Rows \cup {s} /\ Active' = Active \cup {s}
  BY <1>4, <1>5 DEF Rows, Active
<1>7. s \notin Active
  BY <1>1 DEF Rows, Active
<1>8. BeganInv'
  BY <1>3, <1>6 DEF Inv, BeganInv, Idle
<1>9. NotedInv'
  BY <1>2, <1>4, <1>5, <1>6 DEF Inv, NotedInv, BeganInv
<1>10. HoldsInv'
  <2> SUFFICES ASSUME NEW q \in Requests, At(q, "closeSubscriptions")', NEW t \in request'[q].began, t \in Active'
               PROVE  t \in request'[q].rows
    BY DEF HoldsInv, At
  <2>1. request'[q] = request[q] /\ At(q, "closeSubscriptions")
    BY <1>3 DEF At, Idle
  <2>2. t \in Active
    BY <1>1, <1>6, <2>1 DEF Inv, BeganInv
  <2> QED
    BY <2>1, <2>2 DEF Inv, HoldsInv
<1>11. AloneInv'
  <2> SUFFICES ASSUME NEW q \in Requests, At(q, "createSubscription")', NEW t \in request'[q].began,
                      t \in Active', subscription'[t].user = request'[q].user
               PROVE  FALSE
    BY DEF AloneInv, ActiveOf, At
  <2>1. request'[q] = request[q] /\ At(q, "createSubscription")
    BY <1>3 DEF At, Idle
  <2>2. t \in Rows /\ t # s
    BY <1>1, <2>1 DEF Inv, BeganInv
  <2>3. t \in Active /\ subscription[t].user = request[q].user
    BY <1>4, <1>6, <2>1, <2>2 DEF Rows
  <2> QED
    BY <2>1, <2>3 DEF Inv, AloneInv, ActiveOf
<1>12. RevokedInv'
  BY <1>1, <1>2, <1>6 DEF Inv, RevokedInv, RevokedForGood, NotedInv
<1>13. OverlapInv'
  <2> SUFFICES ASSUME NEW t \in Active', NEW u \in Active', t # u,
                      subscription'[t].user = subscription'[u].user, t \in subscription'[u].before
               PROVE  FALSE
    BY DEF OverlapInv, DuplicatesOverlap
  <2>1. CASE u = s
    <3>1. t \in Active /\ t \in Subscriptions /\ subscription[t].user = request[r].user
      BY <1>4, <1>5, <1>6, <2>1 DEF Active
    <3> QED
      BY <1>2, <1>5, <2>1, <3>1 DEF Inv, AloneInv, ActiveOf
  <2>2. CASE u # s
    <3>1. u \in Active /\ u \in Subscriptions /\ subscription'[u] = subscription[u]
      BY <1>4, <1>6, <2>2 DEF Active
    <3>2. t # s
      BY <1>1, <3>1 DEF Inv, NotedInv
    <3>3. t \in Active /\ subscription'[t] = subscription[t]
      BY <1>4, <1>6, <3>2 DEF Active
    <3> QED
      BY <3>1, <3>3 DEF Inv, OverlapInv, DuplicatesOverlap
  <2> QED
    BY <2>1, <2>2
<1> QED
  BY <1>8, <1>9, <1>10, <1>11, <1>12, <1>13 DEF Inv

-----------------------------------------------------------------------------
\* A request that is done, or has passed a check, holds what the invariant wants.
LEMMA DoneStep == ASSUME Inv, TypeOK', NEW r \in Requests, Done(r),
                         subscription' = subscription, revoked' = revoked
                  PROVE  Inv'
<1>1. request'[r] = Idle /\ \A q \in Requests \ {r} : request'[q] = request[q]
  BY DEF Done, Inv, TypeOK
<1> QED
  BY <1>1, QuietStep DEF Idle

LEMMA CheckStep ==
    ASSUME Inv, TypeOK', NEW r \in Requests, NEW phase, NEW ok \in BOOLEAN, Check(r, ok, phase),
           phase # "closeSubscriptions",
           ok /\ phase = "createSubscription" => request[r].began \cap ActiveOf(request[r].user) = {}
    PROVE  Inv'
<1>1. subscription' = subscription /\ revoked' = revoked
  BY DEF Check
<1>2. CASE ok
  <2>1. /\ request'[r].phase = phase
        /\ request'[r].began = request[r].began
        /\ request'[r].rows = request[r].rows
        /\ request'[r].user = request[r].user
        /\ \A q \in Requests \ {r} : request'[q] = request[q]
    BY <1>2 DEF Check, Goto, Inv, TypeOK
  <2>2. request'[r].began \cup request'[r].rows \subseteq Rows
    BY <2>1 DEF Inv, BeganInv
  <2> QED
    BY <1>1, <1>2, <2>1, <2>2, QuietStep
<1>3. CASE ~ok
  BY <1>1, <1>3, DoneStep DEF Check
<1> QED
  BY <1>2, <1>3

LEMMA InvInit == Init => Inv
<1> SUFFICES ASSUME Init
             PROVE  Inv
  OBVIOUS
<1>1. Active = {}
  BY DEF Init, Active, NoSubscription
<1>2. BeganInv /\ HoldsInv /\ AloneInv
  BY DEF Init, BeganInv, HoldsInv, AloneInv, At, Idle
<1>3. NotedInv
  BY DEF Init, NotedInv, NoSubscription
<1>4. RevokedInv /\ OverlapInv
  BY <1>1 DEF RevokedInv, OverlapInv, RevokedForGood, DuplicatesOverlap
<1> QED
  BY <1>2, <1>3, <1>4, TypeInit DEF Inv

LEMMA InvNext == Inv /\ [Next]_vars => Inv'
<1> SUFFICES ASSUME Inv, [Next]_vars
             PROVE  Inv'
  OBVIOUS
<1>0. TypeOK'
  BY TypeNext DEF Inv
<1>1. ASSUME NEW r \in Requests, Begin(r)
      PROVE  Inv'
  <2>1. PICK u \in Users, first \in {"findMarketplace", "findSubscription", "verifyPublish", "verifyUnpublish"} :
           request' = [request EXCEPT ![r] = [Idle EXCEPT !.phase = first, !.user = u, !.began = Rows]]
    BY <1>1 DEF Begin
  <2>2. /\ request'[r].phase = first
        /\ request'[r].began = Rows
        /\ request'[r].rows = {}
        /\ \A q \in Requests \ {r} : request'[q] = request[q]
    BY <2>1 DEF Inv, TypeOK, Idle
  <2> QED
    BY <1>0, <1>1, <2>2, QuietStep DEF Begin
<1>2. ASSUME NEW r \in Requests, Fail(r)
      PROVE  Inv'
  BY <1>0, <1>2, DoneStep DEF Fail
<1>3. ASSUME NEW r \in Requests, Subscribe(r)
      PROVE  Inv'
  <2>1. CASE FindMarketplace(r)
    BY <1>0, <2>1, CheckStep DEF FindMarketplace
  <2>2. CASE FindCollection(r)
    BY <1>0, <2>2, CheckStep DEF FindCollection
  <2>3. CASE FindExisting(r)
    BY <1>0, <2>3, CheckStep DEF FindExisting
  <2>4. CASE CreateSubscription(r)
    BY <1>0, <2>4, CreateStep
  <2> QED
    BY <1>3, <2>1, <2>2, <2>3, <2>4 DEF Subscribe
<1>4. ASSUME NEW r \in Requests, Unsubscribe(r)
      PROVE  Inv'
  <2>1. CASE FindSubscription(r)
    BY <1>0, <2>1, CheckStep DEF FindSubscription
  <2>2. CASE SelectSubscription(r)
    <3>1. CASE ActiveOf(request[r].user) = {}
      BY <1>0, <2>2, <3>1, DoneStep DEF SelectSubscription
    <3>2. CASE ActiveOf(request[r].user) # {}
      <4>1. PICK s \in ActiveOf(request[r].user) :
               request' = [request EXCEPT ![r].phase = "closeSubscription", ![r].rows = {s}]
        BY <2>2, <3>2 DEF SelectSubscription
      <4>2. /\ request'[r].phase = "closeSubscription"
            /\ request'[r].began = request[r].began
            /\ request'[r].rows = {s}
            /\ \A q \in Requests \ {r} : request'[q] = request[q]
        BY <4>1 DEF Inv, TypeOK
      <4>3. request'[r].began \cup request'[r].rows \subseteq Rows
        BY <4>2 DEF Inv, BeganInv, ActiveOf, Active, Rows
      <4> QED
        BY <1>0, <2>2, <4>2, <4>3, QuietStep DEF SelectSubscription
    <3> QED
      BY <3>1, <3>2
  <2>3. CASE CloseSubscription(r)
    <3>1. request[r].rows \in SUBSET Rows
      BY DEF Inv, BeganInv
    <3>2. revoked \subseteq Rows /\ revoked \cap Active = {}
      BY DEF Inv, NotedInv, RevokedInv, RevokedForGood
    <3> QED
      BY <1>0, <2>3, <3>1, <3>2, ClosingStep DEF CloseSubscription
  <2> QED
    BY <1>4, <2>1, <2>2, <2>3 DEF Unsubscribe
<1>5. ASSUME NEW r \in Requests, Publish(r)
      PROVE  Inv'
  <2>1. CASE VerifyPublish(r)
    BY <1>0, <2>1, CheckStep DEF VerifyPublish, Owns
  <2>2. CASE SelectToPublish(r)
    <3>1. /\ request'[r].phase = "writePublish"
          /\ request'[r].began = request[r].began
          /\ request'[r].rows = request[r].rows
          /\ \A q \in Requests \ {r} : request'[q] = request[q]
      BY <2>2 DEF SelectToPublish, Inv, TypeOK
    <3>2. request'[r].began \cup request'[r].rows \subseteq Rows
      BY <3>1 DEF Inv, BeganInv
    <3> QED
      BY <1>0, <2>2, <3>1, <3>2, QuietStep DEF SelectToPublish
  <2>3. CASE WritePublish(r)
    BY <1>0, <2>3, DoneStep DEF WritePublish
  <2> QED
    BY <1>5, <2>1, <2>2, <2>3 DEF Publish
<1>6. ASSUME NEW r \in Requests, Unpublish(r)
      PROVE  Inv'
  <2>1. CASE VerifyUnpublish(r)
    BY <1>0, <2>1, CheckStep DEF VerifyUnpublish, Owns
  <2>2. CASE SelectToUnpublish(r)
    <3>1. CASE marketplace = "none"
      BY <1>0, <2>2, <3>1, DoneStep DEF SelectToUnpublish
    <3>2. CASE marketplace # "none"
      <4>1. /\ request'[r].phase = "lockMarketplace"
            /\ request'[r].began = request[r].began
            /\ request'[r].rows = request[r].rows
            /\ \A q \in Requests \ {r} : request'[q] = request[q]
        BY <2>2, <3>2 DEF SelectToUnpublish, Inv, TypeOK
      <4>2. request'[r].began \cup request'[r].rows \subseteq Rows
        BY <4>1 DEF Inv, BeganInv
      <4> QED
        BY <1>0, <2>2, <4>1, <4>2, QuietStep DEF SelectToUnpublish
    <3> QED
      BY <3>1, <3>2
  <2>3. CASE LockAndSelect(r)
    <3>1. /\ request'[r].phase = "closeSubscriptions"
          /\ request'[r].began = request[r].began
          /\ request'[r].rows = Active
          /\ \A q \in Requests \ {r} : request'[q] = request[q]
      BY <2>3 DEF LockAndSelect, Inv, TypeOK
    <3>2. request'[r].began \cup request'[r].rows \subseteq Rows
      BY <3>1 DEF Inv, BeganInv, Active, Rows
    <3> QED
      BY <1>0, <2>3, <3>1, <3>2, QuietStep DEF LockAndSelect
  <2>4. CASE CommitUnpublish(r)
    <3>1. CASE Collide(request[r].rows)
      BY <1>0, <2>4, <3>1, DoneStep DEF CommitUnpublish
    <3>2. CASE ~Collide(request[r].rows)
      <4>1. request[r].rows \in SUBSET Rows /\ request[r].began \subseteq Rows
        BY DEF Inv, BeganInv
      <4>2. request[r].began \cap Active \subseteq request[r].rows
        BY <2>4 DEF CommitUnpublish, Inv, HoldsInv
      <4>3. revoked \subseteq Rows /\ revoked \cap Active = {}
        BY DEF Inv, NotedInv, RevokedInv, RevokedForGood
      <4>4. /\ subscription' = Close(request[r].rows)
            /\ revoked' = revoked \cup request[r].began
            /\ Done(r)
        BY <2>4, <3>2 DEF CommitUnpublish
      <4>5. revoked' \subseteq Rows /\ revoked' \cap Active \subseteq request[r].rows
        BY <4>1, <4>2, <4>3, <4>4
      <4> QED
        BY <1>0, <4>1, <4>4, <4>5, ClosingStep
    <3> QED
      BY <3>1, <3>2
  <2> QED
    BY <1>6, <2>1, <2>2, <2>3, <2>4 DEF Unpublish
<1>7. ASSUME UNCHANGED <<subscription, request, revoked>>
      PROVE  Inv'
  BY <1>0, <1>7 DEF Inv, BeganInv, NotedInv, HoldsInv, AloneInv, RevokedInv, OverlapInv, RevokedForGood,
                    DuplicatesOverlap, At, Rows, Active, ActiveOf
<1>8. CASE DeleteCollection
  BY <1>7, <1>8 DEF DeleteCollection
<1>9. CASE UNCHANGED vars
  BY <1>7, <1>9 DEF vars
<1> QED
  BY <1>1, <1>2, <1>3, <1>4, <1>5, <1>6, <1>8, <1>9 DEF Next

\* The invariant holds of every behaviour.
THEOREM Invariant == Spec => []Inv
BY InvInit, InvNext, PTL DEF Spec

\* However many requests overlap, a subscription older than an unpublish that
\* succeeded never counts again: publishing again cannot bring it back.
THEOREM UnpublishRevokes == Spec => []RevokedForGood
BY Invariant, PTL DEF Inv, RevokedInv

\* A user gets a second active subscription only from requests that overlapped.
THEOREM SecondNeedsOverlap == Spec => []DuplicatesOverlap
BY Invariant, PTL DEF Inv, OverlapInv
=============================================================================
