------------------------- MODULE ResourceQuota_proofs -------------------------
(***************************************************************************)
(* Theorems about ResourceQuota, for any resources, requests and limits:   *)
(* it implements QuotaLedger, and collections stay within their quota.     *)
(***************************************************************************)
EXTENDS ResourceQuota, FiniteSetTheorems, TLAPS

Docs == "max_document_count"

Pending(c) == {d \in Documents : home[d] = c /\ doc[d] = "PENDING"}

\* The resources a key counts.
Counts(k) ==
    IF k = Docs THEN {d \in Documents : doc[d] = "PENDING"}
    ELSE {x \in Items : KeyOf(x) = k /\ item[x] = "ACTIVE"}

\* A name has a collection as soon as it has a document.
Homes == \A d \in Documents : home[d] = NoOne <=> doc[d] = "none"

\* What a request of a kind carries with it.
Shaped(r) ==
    /\ req[r].phase = "idle" <=> req[r].op = "none"
    /\ req[r].phase = "idle" => \A x \in Rows : lock[x] # r
    /\ req[r].phase = "release" => req[r].op \in {"delete", "remove"}
    /\ req[r].op \in {"create", "add", "confirm"} => req[r].names # {}
    /\ req[r].op = "create" => \A x \in req[r].names : x \in Items /\ KeyOf(x) = req[r].key
    /\ req[r].op = "delete" => \A x \in req[r].todo \cup req[r].marked : x \in Items /\ KeyOf(x) = req[r].key
    /\ req[r].op = "delete" /\ req[r].phase = "write" => req[r].current \in Items /\ KeyOf(req[r].current) = req[r].key
    /\ req[r].op \in {"upload", "add", "confirm"} => req[r].place \in Collections
    /\ req[r].op \in {"upload", "add", "confirm", "remove", "expire"} => req[r].names \subseteq Documents
    /\ req[r].op \in {"add", "confirm", "remove"} => req[r].key = Docs
    /\ req[r].op \in {"confirm", "remove"} =>
          /\ req[r].todo \subseteq req[r].names /\ req[r].marked \subseteq req[r].names
          /\ req[r].phase = "write" => req[r].current \in req[r].names
    /\ req[r].op = "confirm" => \A d \in req[r].names : home[d] = req[r].place
    /\ req[r].op \in {"remove", "expire"} => \A d \in req[r].names : home[d] # NoOne

\* A request that has charged keeps the quota's row locked until it commits.
Charged(r) ==
    req[r].op \in {"create", "add", "confirm"} /\ req[r].phase \in {"charged", "counted", "write"} =>
        /\ lock[req[r].key] = r
        /\ req[r].balance = usage[req[r].key] + Cardinality(req[r].names)
        /\ req[r].balance <= limit[req[r].key]

\* What it has counted in the collection can only have become less.
Counted(r) ==
    req[r].op \in {"add", "confirm"} /\ req[r].phase \in {"counted", "write"} =>
        Cardinality(Pending(req[r].place)) + Cardinality(req[r].names) <= PerCollection

\* A deletion that has marked a row has the quota's row, or is about to lock it.
Refunded(r) ==
    req[r].op \in {"delete", "remove"} =>
        /\ lock[req[r].key] = r => req[r].balance \in 0..usage[req[r].key]
        /\ req[r].phase \in {"open", "write"} => req[r].marked = {} \/ lock[req[r].key] = r
        /\ req[r].op = "delete" /\ req[r].phase = "open" => req[r].todo # {} \/ lock[req[r].key] = r

Good(r) == Shaped(r) /\ Charged(r) /\ Counted(r) /\ Refunded(r)

IInv == TypeOK /\ Homes /\ CollectionFits /\ \A r \in Requests : Good(r)

-----------------------------------------------------------------------------
(* Sets of names                                                           *)

LEMMA Names ==
    /\ Rows = Items \cup Documents \cup Keys
    /\ \A x \in Items : KeyOf(x) \in Keys /\ KeyOf(x) # Docs
    /\ Docs \in Keys
    /\ \A x \in Items \cup Documents : x \notin Keys
    /\ \A r \in Requests : r # NoOne
    /\ \A x \in Items : x \notin Documents
    /\ \A c \in Collections : c \in Items /\ c # NoOne
BY NamesAssumption DEF Rows, Items, Keys, KeyOf, Docs

LEMMA Finite ==
    /\ \A N \in SUBSET (Items \cup Documents) : IsFiniteSet(N) /\ Cardinality(N) \in Nat
    /\ \A N \in SUBSET (Items \cup Documents) : N # {} => Cardinality(N) >= 1
<1>1. IsFiniteSet(Items \cup Documents)
  BY NamesAssumption, FS_Union
<1>2. ASSUME NEW N \in SUBSET (Items \cup Documents)
      PROVE  IsFiniteSet(N) /\ Cardinality(N) \in Nat /\ (N # {} => Cardinality(N) >= 1)
  <2>1. IsFiniteSet(N)
    BY <1>1, FS_Subset
  <2>2. Cardinality(N) \in Nat
    BY <2>1, FS_CardinalityType
  <2>3. Cardinality(N) = 0 <=> N = {}
    BY <2>1, FS_EmptySet
  <2>4. QED
    BY <2>1, <2>2, <2>3
<1>3. QED
  BY <1>2

\* A set of names that lost some and one that gained some of N.
LEMMA Sizes ==
    ASSUME NEW A \in SUBSET (Items \cup Documents), NEW B \in SUBSET (Items \cup Documents)
    PROVE  /\ A \subseteq B => Cardinality(A) <= Cardinality(B)
           /\ \A N \in SUBSET (Items \cup Documents) :
                 B \subseteq A \cup N => Cardinality(B) <= Cardinality(A) + Cardinality(N)
<1>1. IsFiniteSet(A) /\ IsFiniteSet(B) /\ Cardinality(A) \in Nat /\ Cardinality(B) \in Nat
  BY Finite
<1>2. A \subseteq B => Cardinality(A) <= Cardinality(B)
  BY <1>1, FS_Subset
<1>3. ASSUME NEW N \in SUBSET (Items \cup Documents), B \subseteq A \cup N
      PROVE  Cardinality(B) <= Cardinality(A) + Cardinality(N)
  <2>1. IsFiniteSet(N) /\ Cardinality(N) \in Nat
    BY Finite
  <2>2. IsFiniteSet(A \cup N) /\ IsFiniteSet(A \cap N)
    BY <1>1, <2>1, FS_Union, FS_Intersection
  <2>3. Cardinality(A \cup N) = Cardinality(A) + Cardinality(N) - Cardinality(A \cap N)
    BY <1>1, <2>1, FS_Union
  <2>4. Cardinality(A \cap N) \in Nat /\ Cardinality(A \cup N) \in Nat
    BY <2>2, FS_CardinalityType
  <2>5. Cardinality(B) <= Cardinality(A \cup N)
    BY <1>3, <2>2, FS_Subset
  <2>6. QED
    BY <1>1, <2>1, <2>3, <2>4, <2>5
<1>4. QED
  BY <1>2, <1>3

LEMMA LiveIs == \A k \in Keys : Live(k) = Cardinality(Counts(k)) /\ Counts(k) \in SUBSET (Items \cup Documents)
BY DEF Live, Counts, Docs

-----------------------------------------------------------------------------
(* Steps of a request seen by the others                                   *)

\* Who holds the quota's row keeps the others from its usage and limit, and
\* from adding documents.
Harmless(r) ==
    /\ \A s \in Requests \ {r} : \A y \in Rows : lock'[y] = s <=> lock[y] = s
    /\ \A k \in Keys : lock[k] \notin {NoOne, r} => usage'[k] = usage[k] /\ limit'[k] = limit[k]
    /\ \A d \in Documents : home[d] # NoOne => home'[d] = home[d]
    /\ lock[Docs] \notin {NoOne, r} => \A c \in Collections : Pending(c)' \subseteq Pending(c)

LEMMA Others ==
    ASSUME IInv, NEW r \in Requests, NEW x \in RequestState, req' = [req EXCEPT ![r] = x], Harmless(r)
    PROVE  \A s \in Requests \ {r} : Good(s)'
<1>1. SUFFICES ASSUME NEW s \in Requests \ {r}
               PROVE  Good(s)'
  OBVIOUS
<1>2. Good(s) /\ req'[s] = req[s] /\ req[s] \in RequestState
  BY DEF IInv, TypeOK
<1>3. \A y \in Rows : lock'[y] = s <=> lock[y] = s
  BY DEF Harmless
<1>4. req[s].key \in Keys /\ req[s].key \in Rows
  BY <1>2, Names DEF RequestState
<1>5. lock[req[s].key] = s => usage'[req[s].key] = usage[req[s].key] /\ limit'[req[s].key] = limit[req[s].key]
  BY <1>4, Names DEF Harmless
<1>6. Shaped(s)'
  <2>1. req[s].op = "confirm" => \A d \in req[s].names : home'[d] = req[s].place
    <3>1. ASSUME req[s].op = "confirm", NEW d \in req[s].names
          PROVE  home'[d] = req[s].place
      <4>1. d \in Documents /\ home[d] = req[s].place /\ req[s].place \in Collections
        BY <1>2, <3>1 DEF Good, Shaped
      <4>2. home[d] # NoOne
        BY <4>1, Names
      <4>3. QED
        BY <4>1, <4>2 DEF Harmless
    <3>2. QED
      BY <3>1
  <2>2. req[s].op \in {"remove", "expire"} => \A d \in req[s].names : home'[d] # NoOne
    BY <1>2 DEF Good, Shaped, Harmless
  <2>3. QED
    BY <1>2, <1>3, <2>1, <2>2 DEF Good, Shaped
<1>7. Charged(s)'
  BY <1>2, <1>3, <1>4, <1>5 DEF Good, Charged
<1>8. Counted(s)'
  <2>1. ASSUME req[s].op \in {"add", "confirm"}, req[s].phase \in {"counted", "write"}
        PROVE  Cardinality(Pending(req[s].place)') + Cardinality(req[s].names) <= PerCollection
    <3>1. lock[Docs] = s /\ req[s].place \in Collections /\ req[s].names \subseteq Documents
      BY <1>2, <2>1 DEF Good, Shaped, Charged
    <3>2. Pending(req[s].place)' \subseteq Pending(req[s].place)
      BY <1>2, <3>1, Names DEF Harmless, Pending
    <3>3. /\ Pending(req[s].place)' \in SUBSET (Items \cup Documents)
          /\ Pending(req[s].place) \in SUBSET (Items \cup Documents)
      BY DEF Pending
    <3>4. Cardinality(Pending(req[s].place)') <= Cardinality(Pending(req[s].place))
      BY <3>2, <3>3, Sizes
    <3>5. /\ Cardinality(Pending(req[s].place)') \in Nat /\ Cardinality(Pending(req[s].place)) \in Nat
          /\ Cardinality(req[s].names) \in Nat
      BY <3>1, <3>3, Finite
    <3>6. Cardinality(Pending(req[s].place)) + Cardinality(req[s].names) <= PerCollection
      BY <1>2, <2>1 DEF Good, Counted
    <3>7. QED
      BY <3>4, <3>5, <3>6, LimitsAssumption
  <2>2. QED
    BY <1>2, <2>1 DEF Counted, Pending
<1>9. Refunded(s)'
  BY <1>2, <1>3, <1>4, <1>5 DEF Good, Refunded
<1>10. QED
  BY <1>6, <1>7, <1>8, <1>9 DEF Good

-----------------------------------------------------------------------------
(* The initial states and the requests that begin                          *)

LEMMA Idle ==
    /\ IdleRequest \in RequestState
    /\ IdleRequest.op = "none" /\ IdleRequest.phase = "idle" /\ IdleRequest.key = Docs /\ IdleRequest.marked = {}
BY DEF IdleRequest, RequestState, AllOps, Keys, Docs

LEMMA Start == Init => IInv
<1>1. SUFFICES ASSUME Init PROVE IInv
  OBVIOUS
<1>2. \A k \in Keys : Live(k) \in Nat
  BY LiveIs, Finite
<1>3. TypeOK
  <2>1. doc \in [Documents -> DocStatus] /\ item \in [Items -> ItemStatus] /\ sent \in 0..MaxRequests
    BY <1>1, BoundAssumption DEF Init, DocStatus, ItemStatus
  <2>2. usage \in [Keys -> Nat] /\ limit \in [Keys -> Nat]
    BY <1>1, <1>2, LimitsAssumption DEF Init
  <2>3. lock \in [Rows -> Requests \cup {NoOne}] /\ req \in [Requests -> RequestState]
    BY <1>1, Idle DEF Init
  <2>4. home \in [Documents -> Collections \cup {NoOne}]
    BY <1>1 DEF Init
  <2>5. QED
    BY <2>1, <2>2, <2>3, <2>4 DEF TypeOK
<1>4. Homes
  BY <1>1 DEF Init, Homes
<1>5. CollectionFits
  <2>1. \A c \in Collections : {d \in Documents : home[d] = c /\ doc[d] = "PENDING"} = {}
    BY <1>1 DEF Init
  <2>2. QED
    BY <2>1, FS_EmptySet, LimitsAssumption DEF CollectionFits
<1>6. \A r \in Requests : Good(r)
  BY <1>1, Idle, Names DEF Init, Good, Shaped, Charged, Counted, Refunded
<1>7. QED
  BY <1>3, <1>4, <1>5, <1>6 DEF IInv

\* A step of r that leaves the resources and the quota alone.
LEMMA Quiet ==
    ASSUME IInv, NEW r \in Requests, NEW x \in RequestState, req' = [req EXCEPT ![r] = x], Good(r)',
           UNCHANGED <<item, doc, home, usage, limit>>, sent' \in 0..MaxRequests,
           lock' \in [Rows -> Requests \cup {NoOne}],
           \A s \in Requests \ {r} : \A y \in Rows : lock'[y] = s <=> lock[y] = s
    PROVE  IInv'
<1>1. Harmless(r)
  BY DEF Harmless, Pending
<1>2. \A s \in Requests : Good(s)'
  BY <1>1, Others
<1>3. TypeOK' /\ Homes' /\ CollectionFits'
  BY DEF IInv, TypeOK, Homes, CollectionFits
<1>4. QED
  BY <1>2, <1>3 DEF IInv

LEMMA Opening ==
    ASSUME IInv, NEW r \in Requests, OpenRequest(r)
    PROVE  IInv'
<1>1. ASSUME NEW s \in RequestState, Open(r, s), s.phase = "open", s.op # "none",
             s.op \in {"create", "add", "confirm"} => s.names # {},
             s.op = "create" => \A x \in s.names : x \in Items /\ KeyOf(x) = s.key,
             s.op = "delete" => s.todo # {} /\ \A x \in s.todo : x \in Items /\ KeyOf(x) = s.key,
             s.op \in {"upload", "add", "confirm"} => s.place \in Collections,
             s.op \in {"upload", "add", "confirm", "remove", "expire"} => s.names \subseteq Documents,
             s.op \in {"add", "confirm", "remove"} => s.key = Docs,
             s.op \in {"confirm", "remove"} => s.todo \subseteq s.names,
             s.op = "confirm" => \A d \in s.names : home[d] = s.place,
             s.op \in {"remove", "expire"} => \A d \in s.names : home[d] # NoOne,
             s.marked = {}
      PROVE  IInv'
  <2>1. /\ req[r].phase = "idle" /\ req' = [req EXCEPT ![r] = s] /\ sent' = sent + 1 /\ sent < MaxRequests
        /\ UNCHANGED <<item, doc, home, usage, limit, lock>>
    BY <1>1 DEF Open
  <2>2. req'[r] = s /\ \A x \in Rows : lock[x] # r
    BY <2>1 DEF IInv, TypeOK, Good, Shaped
  <2>3. s.key \in Rows
    BY Names DEF RequestState
  <2>4. Good(r)'
    <3>1. Shaped(r)'
      BY <1>1, <2>1, <2>2 DEF Shaped
    <3>2. Charged(r)' /\ Counted(r)'
      BY <1>1, <2>2 DEF Charged, Counted
    <3>3. Refunded(r)'
      BY <1>1, <2>1, <2>2, <2>3 DEF Refunded
    <3>4. QED
      BY <3>1, <3>2, <3>3 DEF Good
  <2>5. sent' \in 0..MaxRequests /\ lock' \in [Rows -> Requests \cup {NoOne}]
    BY <2>1, BoundAssumption DEF IInv, TypeOK
  <2>6. QED
    BY <2>1, <2>4, <2>5, Quiet
<1>2. CASE OpenCreate(r)
  <2>1. PICK x \in Items :
          Open(r, [IdleRequest EXCEPT !.op = "create", !.phase = "open", !.key = KeyOf(x), !.names = {x}])
    BY <1>2 DEF OpenCreate
  <2> DEFINE s == [IdleRequest EXCEPT !.op = "create", !.phase = "open", !.key = KeyOf(x), !.names = {x}]
  <2>2. /\ s \in RequestState /\ s.op = "create" /\ s.phase = "open" /\ s.names = {x} /\ s.key = KeyOf(x)
        /\ s.marked = {}
    BY Names, Idle DEF RequestState, AllOps
  <2>3. QED
    BY <1>1, <2>1, <2>2
<1>3. CASE OpenDelete(r)
  <2>1. PICK x \in Items :
          Open(r, [IdleRequest EXCEPT !.op = "delete", !.phase = "open", !.key = KeyOf(x), !.names = {x}, !.todo = {x}])
    BY <1>3 DEF OpenDelete
  <2> DEFINE s == [IdleRequest EXCEPT !.op = "delete", !.phase = "open", !.key = KeyOf(x), !.names = {x}, !.todo = {x}]
  <2>2. /\ s \in RequestState /\ s.op = "delete" /\ s.phase = "open" /\ s.todo = {x} /\ s.key = KeyOf(x)
        /\ s.marked = {}
    BY Names, Idle DEF RequestState, AllOps
  <2>3. QED
    BY <1>1, <2>1, <2>2
<1>4. CASE OpenUpload(r)
  <2>1. PICK d \in Documents, c \in Collections :
          Open(r, [IdleRequest EXCEPT !.op = "upload", !.phase = "open", !.names = {d}, !.place = c])
    BY <1>4 DEF OpenUpload
  <2> DEFINE s == [IdleRequest EXCEPT !.op = "upload", !.phase = "open", !.names = {d}, !.place = c]
  <2>2. s \in RequestState /\ s.op = "upload" /\ s.phase = "open" /\ s.names = {d} /\ s.place = c /\ s.marked = {}
    BY Names, Idle DEF RequestState, AllOps
  <2>3. QED
    BY <1>1, <2>1, <2>2
<1>5. CASE OpenAdd(r)
  <2>1. PICK c \in Collections, F \in (SUBSET Documents) \ {{}} :
          Open(r, [IdleRequest EXCEPT !.op = "add", !.phase = "open", !.names = F, !.place = c])
    BY <1>5 DEF OpenAdd
  <2> DEFINE s == [IdleRequest EXCEPT !.op = "add", !.phase = "open", !.names = F, !.place = c]
  <2>2. /\ s \in RequestState /\ s.op = "add" /\ s.phase = "open" /\ s.names = F /\ s.place = c /\ s.key = Docs
        /\ s.marked = {}
    BY Names, Idle DEF RequestState, AllOps
  <2>3. QED
    BY <1>1, <2>1, <2>2
<1>6. ASSUME NEW op \in {"confirm", "remove"}, NEW c \in Collections,
             NEW F \in (SUBSET {d \in Documents : home[d] = c}) \ {{}},
             Open(r, [IdleRequest EXCEPT !.op = op, !.phase = "open", !.names = F, !.todo = F, !.place = c])
      PROVE  IInv'
  <2> DEFINE s == [IdleRequest EXCEPT !.op = op, !.phase = "open", !.names = F, !.todo = F, !.place = c]
  <2>1. F \subseteq Documents /\ F # {} /\ \A d \in F : home[d] = c
    OBVIOUS
  <2>2. /\ s \in RequestState /\ s.op = op /\ s.phase = "open" /\ s.names = F /\ s.todo = F /\ s.place = c
        /\ s.key = Docs /\ s.marked = {}
    BY <2>1, Names, Idle DEF RequestState, AllOps
  <2>3. QED
    BY <1>1, <1>6, <2>1, <2>2, Names
<1>7. CASE OpenConfirm(r) \/ OpenRemove(r)
  BY <1>6, <1>7 DEF OpenConfirm, OpenRemove
<1>8. CASE OpenExpire(r)
  <2>1. PICK c \in Collections :
          \E old \in (SUBSET {d \in Documents : home[d] = c /\ doc[d] = "UPLOADED"}) \ {{}} :
            Open(r, [IdleRequest EXCEPT !.op = "expire", !.phase = "open", !.names = old, !.place = c])
    BY <1>8 DEF OpenExpire
  <2>2. PICK old \in SUBSET Documents :
          /\ Open(r, [IdleRequest EXCEPT !.op = "expire", !.phase = "open", !.names = old, !.place = c])
          /\ \A d \in old : home[d] = c
    BY <2>1
  <2> DEFINE s == [IdleRequest EXCEPT !.op = "expire", !.phase = "open", !.names = old, !.place = c]
  <2>3. s \in RequestState /\ s.op = "expire" /\ s.phase = "open" /\ s.names = old /\ s.marked = {}
    BY Names, Idle DEF RequestState, AllOps
  <2>4. QED
    BY <1>1, <2>2, <2>3, Names
<1>9. CASE \E op \in {"recount", "limit"} : Open(r, [IdleRequest EXCEPT !.op = op, !.phase = "open"])
  <2>1. PICK op \in {"recount", "limit"} : Open(r, [IdleRequest EXCEPT !.op = op, !.phase = "open"])
    BY <1>9
  <2> DEFINE s == [IdleRequest EXCEPT !.op = op, !.phase = "open"]
  <2>2. s \in RequestState /\ s.op = op /\ s.phase = "open" /\ s.marked = {}
    BY Names, Idle DEF RequestState, AllOps
  <2>3. QED
    BY <1>1, <2>1, <2>2
<1>10. QED
  BY <1>2, <1>3, <1>4, <1>5, <1>7, <1>8, <1>9 DEF OpenRequest

-----------------------------------------------------------------------------
(* Steps in the middle of a request                                        *)

\* What is known of a request that is at work.
LEMMA Own ==
    ASSUME IInv, NEW r \in Requests
    PROVE  /\ req[r] \in RequestState /\ Good(r)
           /\ req[r].key \in Keys /\ req[r].key \in Rows
           /\ usage[req[r].key] \in Nat /\ limit[req[r].key] \in Nat
           /\ req[r].names \in SUBSET (Items \cup Documents) /\ Cardinality(req[r].names) \in Nat
<1>1. req[r] \in RequestState /\ Good(r)
  BY DEF IInv, TypeOK
<1>2. req[r].key \in Keys /\ req[r].names \in SUBSET (Items \cup Documents)
  BY <1>1 DEF RequestState
<1>3. QED
  BY <1>1, <1>2, Names, Finite DEF IInv, TypeOK

\* The lock of a free row is nobody else's to lose.
LEMMA Locking ==
    ASSUME IInv, NEW r \in Requests, NEW y \in Rows, FreeFor(y, r), lock' = [lock EXCEPT ![y] = r]
    PROVE  /\ lock' \in [Rows -> Requests \cup {NoOne}]
           /\ \A s \in Requests \ {r} : \A z \in Rows : lock'[z] = s <=> lock[z] = s
           /\ \A z \in Rows : lock'[z] = IF z = y THEN r ELSE lock[z]
BY Names DEF IInv, TypeOK, FreeFor

LEMMA Consuming ==
    ASSUME IInv, NEW r \in Requests, Consume(r)
    PROVE  IInv'
<1> DEFINE k == req[r].key
           n == Cardinality(req[r].names)
           x == [req[r] EXCEPT !.phase = "charged", !.balance = usage[k] + n]
<1>1. /\ req[r].op \in {"create", "add", "confirm"} /\ req[r].phase = "open"
      /\ usage[k] + n <= limit[k] /\ FreeFor(k, r) /\ lock' = [lock EXCEPT ![k] = r]
      /\ req' = [req EXCEPT ![r] = x]
      /\ UNCHANGED <<item, doc, home, usage, limit, sent>>
  BY DEF Consume, HasRoom, LockRow
<1>2. /\ req[r] \in RequestState /\ Good(r) /\ k \in Keys /\ k \in Rows
      /\ usage[k] \in Nat /\ limit[k] \in Nat /\ n \in Nat /\ usage[k] + n \in Int
  BY Own
<1>3. /\ x \in RequestState /\ x.op = req[r].op /\ x.phase = "charged" /\ x.key = k /\ x.balance = usage[k] + n
      /\ x.names = req[r].names /\ x.place = req[r].place /\ x.todo = req[r].todo /\ x.marked = req[r].marked
  BY <1>2 DEF RequestState
<1>4. /\ lock' \in [Rows -> Requests \cup {NoOne}] /\ lock'[k] = r
      /\ \A s \in Requests \ {r} : \A z \in Rows : lock'[z] = s <=> lock[z] = s
  BY <1>1, <1>2, Locking
<1>5. req'[r] = x
  BY <1>1 DEF IInv, TypeOK
<1>6. Shaped(r)'
  BY <1>1, <1>2, <1>3, <1>5 DEF Good, Shaped
<1>7. Charged(r)'
  BY <1>1, <1>2, <1>3, <1>4, <1>5 DEF Charged
<1>8. Counted(r)' /\ Refunded(r)'
  BY <1>1, <1>3, <1>5 DEF Counted, Refunded
<1>9. QED
  BY <1>1, <1>3, <1>4, <1>6, <1>7, <1>8, Quiet DEF Good, IInv, TypeOK

LEMMA Releasing ==
    ASSUME IInv, NEW r \in Requests, ReleaseQuota(r)
    PROVE  IInv'
<1> DEFINE k == req[r].key
           seen == IF lock[k] = r THEN req[r].balance ELSE usage[k]
           x == [req[r] EXCEPT !.phase = "open", !.balance = Released(seen), !.current = NoOne]
<1>1. /\ req[r].phase = "release" /\ FreeFor(k, r) /\ lock' = [lock EXCEPT ![k] = r]
      /\ req' = [req EXCEPT ![r] = x]
      /\ UNCHANGED <<item, doc, home, usage, limit, sent>>
  BY DEF ReleaseQuota, LockRow
<1>2. /\ req[r] \in RequestState /\ Good(r) /\ k \in Keys /\ k \in Rows /\ usage[k] \in Nat
      /\ req[r].op \in {"delete", "remove"}
  BY <1>1, Own DEF Good, Shaped
<1>3. seen \in 0..usage[k]
  BY <1>2 DEF Good, Refunded
<1>4. Released(seen) \in 0..usage[k] /\ Released(seen) \in Int
  BY <1>2, <1>3 DEF Released
<1>5. /\ x \in RequestState /\ x.op = req[r].op /\ x.phase = "open" /\ x.key = k /\ x.balance = Released(seen)
      /\ x.names = req[r].names /\ x.place = req[r].place /\ x.todo = req[r].todo /\ x.marked = req[r].marked
  BY <1>2, <1>4 DEF RequestState
<1>6. /\ lock' \in [Rows -> Requests \cup {NoOne}] /\ lock'[k] = r
      /\ \A s \in Requests \ {r} : \A z \in Rows : lock'[z] = s <=> lock[z] = s
  BY <1>1, <1>2, Locking
<1>7. req'[r] = x
  BY <1>1 DEF IInv, TypeOK
<1>8. Shaped(r)'
  BY <1>1, <1>2, <1>5, <1>7 DEF Good, Shaped
<1>9. Refunded(r)'
  <2>1. req'[r].balance \in 0..usage'[req'[r].key] /\ lock'[req'[r].key] = r /\ req'[r].phase = "open"
    BY <1>1, <1>4, <1>5, <1>6, <1>7
  <2>2. QED
    BY <2>1 DEF Refunded
<1>10. Charged(r)' /\ Counted(r)'
  BY <1>2, <1>5, <1>7 DEF Charged, Counted
<1>11. QED
  BY <1>1, <1>5, <1>6, <1>8, <1>9, <1>10, Quiet DEF Good, IInv, TypeOK

\* A step that changes nothing but r's own state.
LEMMA Private ==
    ASSUME IInv, NEW r \in Requests, NEW x \in RequestState, req' = [req EXCEPT ![r] = x], Good(r)',
           UNCHANGED <<item, doc, home, usage, limit, lock, sent>>
    PROVE  IInv'
BY Quiet DEF IInv, TypeOK

LEMMA Recounting ==
    ASSUME IInv, NEW r \in Requests, Recount(r) \/ LoadUsage(r)
    PROVE  IInv'
<1>1. /\ req[r].op = "recount" /\ req[r].phase \in {"open", "counted"}
      /\ UNCHANGED <<item, doc, home, usage, limit, lock, sent>>
  BY DEF Recount, LoadUsage
<1>2. req[r] \in RequestState /\ Good(r)
  BY Own
<1>3. PICK p \in {"counted", "write"}, f \in [Keys -> Int] :
        req' = [req EXCEPT ![r] = [req[r] EXCEPT !.phase = p, !.count = f]]
  <2>1. CASE Recount(r)
    <3>1. \A k \in Keys : Actual(k) \in Int
      <4>1. ASSUME NEW k \in Keys PROVE Actual(k) \in Int
        <5>1. {d \in Documents : doc[d] \notin {"none", "DELETED"} /\ item[home[d]] = "ACTIVE"} \in SUBSET (Items \cup Documents)
          OBVIOUS
        <5>2. Cardinality({d \in Documents : doc[d] \notin {"none", "DELETED"} /\ item[home[d]] = "ACTIVE"}) \in Nat
          BY <5>1, Finite
        <5>3. Live(k) \in Nat
          BY LiveIs, Finite
        <5>4. QED
          BY <5>2, <5>3 DEF Actual
      <4>2. QED
        BY <4>1
    <3>2. [k \in Keys |-> Actual(k)] \in [Keys -> Int]
      BY <3>1
    <3>3. QED
      BY <2>1, <3>2 DEF Recount
  <2>2. CASE LoadUsage(r)
    <3> DEFINE f == [k \in Keys |-> IF usage[k] = req[r].count[k] THEN -1 ELSE req[r].count[k]]
    <3>1. req[r].count \in [Keys -> Int]
      BY <1>2 DEF RequestState
    <3>2. f \in [Keys -> Int]
      BY <3>1
    <3>3. req' = [req EXCEPT ![r] = [req[r] EXCEPT !.phase = "write", !.count = f]]
      BY <2>2 DEF LoadUsage
    <3>4. QED
      BY <3>2, <3>3
  <2>3. QED
    BY <2>1, <2>2
<1> DEFINE x == [req[r] EXCEPT !.phase = p, !.count = f]
<1>4. /\ x \in RequestState /\ x.op = "recount" /\ x.phase = p /\ x.key = req[r].key
  BY <1>1, <1>2 DEF RequestState
<1>5. req'[r] = x
  BY <1>3 DEF IInv, TypeOK
<1>6. Good(r)'
  BY <1>4, <1>5 DEF Good, Shaped, Charged, Counted, Refunded
<1>7. QED
  BY <1>1, <1>3, <1>4, <1>6, Private

\* A deletion, a removal or a confirmation takes up its next row.
LEMMA Selecting ==
    ASSUME IInv, NEW r \in Requests, SelectItem(r) \/ SelectUploaded(r) \/ SelectDocument(r)
    PROVE  IInv'
<1>1. /\ \/ req[r].op \in {"delete", "remove"} /\ req[r].phase = "open"
         \/ req[r].op = "confirm" /\ req[r].phase = "counted"
      /\ UNCHANGED <<item, doc, home, usage, limit, lock, sent>>
  BY DEF SelectItem, SelectUploaded, SelectDocument
<1>2. PICK d \in req[r].todo, p \in {"open", "counted", "write"} :
        /\ req' = [req EXCEPT ![r] = [req[r] EXCEPT !.todo = @ \ {d}, !.current = d, !.phase = p]]
        /\ req[r].op = "delete" => p = "write"
        /\ req[r].op = "remove" => p \in {"open", "write"}
        /\ req[r].op = "confirm" => p \in {"counted", "write"}
  <2>1. CASE SelectItem(r)
    <3>1. PICK x \in req[r].todo :
            req' = [req EXCEPT ![r] = [req[r] EXCEPT !.phase = "write", !.current = x, !.todo = @ \ {x}]]
      BY <2>1 DEF SelectItem
    <3>2. /\ [req[r] EXCEPT !.phase = "write", !.current = x, !.todo = @ \ {x}]
             = [req[r] EXCEPT !.todo = @ \ {x}, !.current = x, !.phase = "write"]
          /\ req[r].op = "delete"
      BY <2>1, Own DEF RequestState, SelectItem
    <3>3. QED
      BY <3>1, <3>2
  <2>2. CASE SelectUploaded(r)
    BY <2>2 DEF SelectUploaded
  <2>3. CASE SelectDocument(r)
    BY <2>3 DEF SelectDocument
  <2>4. QED
    BY <2>1, <2>2, <2>3
<1>3. /\ req[r] \in RequestState /\ Good(r) /\ d \in Items \cup Documents
  BY <1>1, <1>2, Own DEF RequestState
<1> DEFINE x == [req[r] EXCEPT !.todo = @ \ {d}, !.current = d, !.phase = p]
<1>4. /\ x \in RequestState /\ x.op = req[r].op /\ x.phase = p /\ x.key = req[r].key /\ x.balance = req[r].balance
      /\ x.names = req[r].names /\ x.place = req[r].place /\ x.todo = req[r].todo \ {d}
      /\ x.marked = req[r].marked /\ x.current = d
  BY <1>3 DEF RequestState
<1>5. req'[r] = x
  BY <1>2 DEF IInv, TypeOK
<1>6. Shaped(r)'
  BY <1>1, <1>2, <1>3, <1>4, <1>5 DEF Good, Shaped
<1>7. Charged(r)' /\ Refunded(r)'
  BY <1>1, <1>2, <1>3, <1>4, <1>5 DEF Good, Charged, Refunded
<1>8. Counted(r)'
  BY <1>1, <1>2, <1>3, <1>4, <1>5 DEF Good, Counted, Pending
<1>9. QED
  BY <1>1, <1>2, <1>4, <1>6, <1>7, <1>8, Private DEF Good

LEMMA Marking ==
    ASSUME IInv, NEW r \in Requests, MarkRow(r)
    PROVE  IInv'
<1> DEFINE y == req[r].current
           p == IF req[r].op = "confirm" THEN "counted" ELSE "release"
           x == [req[r] EXCEPT !.marked = @ \cup {y}, !.phase = p]
<1>1. /\ req[r].op \in {"delete", "remove", "confirm"} /\ req[r].phase = "write"
      /\ FreeFor(y, r) /\ lock' = [lock EXCEPT ![y] = r]
      /\ req' = [req EXCEPT ![r] = x]
      /\ UNCHANGED <<item, doc, home, usage, limit, sent>>
  BY DEF MarkRow
<1>2. req[r] \in RequestState /\ Good(r) /\ req[r].key \in Keys /\ req[r].key \in Rows
  BY Own
<1>3. y \in Items \cup Documents /\ y \in Rows /\ y \notin Keys
  BY <1>1, <1>2, Names DEF Good, Shaped
<1>4. /\ x \in RequestState /\ x.op = req[r].op /\ x.phase = p /\ x.key = req[r].key /\ x.balance = req[r].balance
      /\ x.names = req[r].names /\ x.place = req[r].place /\ x.todo = req[r].todo
      /\ x.marked = req[r].marked \cup {y}
  BY <1>2, <1>3 DEF RequestState
<1>5. /\ lock' \in [Rows -> Requests \cup {NoOne}]
      /\ \A s \in Requests \ {r} : \A z \in Rows : lock'[z] = s <=> lock[z] = s
      /\ lock'[req[r].key] = lock[req[r].key]
  BY <1>1, <1>2, <1>3, Locking
<1>6. req'[r] = x
  BY <1>1 DEF IInv, TypeOK
<1>7. Shaped(r)'
  BY <1>1, <1>2, <1>4, <1>6 DEF Good, Shaped
<1>8. Charged(r)' /\ Refunded(r)'
  BY <1>1, <1>2, <1>4, <1>5, <1>6 DEF Good, Charged, Refunded
<1>9. Counted(r)'
  BY <1>1, <1>2, <1>4, <1>6 DEF Good, Counted, Pending
<1>10. QED
  BY <1>1, <1>4, <1>5, <1>7, <1>8, <1>9, Quiet DEF Good, IInv, TypeOK

LEMMA Counting ==
    ASSUME IInv, NEW r \in Requests, CountCollection(r)
    PROVE  IInv'
<1> DEFINE x == [req[r] EXCEPT !.phase = "counted"]
           n == Cardinality(req[r].names)
<1>1. /\ req[r].op \in {"add", "confirm"} /\ req[r].phase = "charged" /\ Fits(req[r].place, n)
      /\ req' = [req EXCEPT ![r] = x]
      /\ UNCHANGED <<item, doc, home, usage, limit, lock, sent>>
  BY DEF CountCollection
<1>2. req[r] \in RequestState /\ Good(r) /\ n \in Nat
  BY Own
<1>3. /\ x \in RequestState /\ x.op = req[r].op /\ x.phase = "counted" /\ x.key = req[r].key
      /\ x.balance = req[r].balance
      /\ x.names = req[r].names /\ x.place = req[r].place /\ x.todo = req[r].todo /\ x.marked = req[r].marked
  BY <1>2 DEF RequestState
<1>4. req'[r] = x
  BY <1>1 DEF IInv, TypeOK
<1>5. Shaped(r)' /\ Charged(r)' /\ Refunded(r)'
  BY <1>1, <1>2, <1>3, <1>4 DEF Good, Shaped, Charged, Refunded
<1>6. Cardinality(Pending(req[r].place)) + n <= PerCollection
  <2> DEFINE A == Pending(req[r].place)
             B == {d \in Documents : home[d] = req[r].place /\ doc[d] \notin {"none", "DELETED", "UPLOADED"}}
  <2>1. A \in SUBSET (Items \cup Documents) /\ B \in SUBSET (Items \cup Documents) /\ A \subseteq B
    BY DEF Pending
  <2>2. Cardinality(A) <= Cardinality(B) /\ Cardinality(A) \in Nat /\ Cardinality(B) \in Nat
    BY <2>1, Sizes, Finite
  <2>3. Cardinality(B) + n <= PerCollection
    BY <1>1 DEF Fits
  <2>4. QED
    BY <1>2, <2>2, <2>3, LimitsAssumption
<1>7. Counted(r)'
  BY <1>1, <1>3, <1>4, <1>6 DEF Counted, Pending
<1>8. QED
  BY <1>1, <1>3, <1>5, <1>7, Private DEF Good

-----------------------------------------------------------------------------
(* The end of a request                                                    *)

LEMMA Ending ==
    ASSUME IInv, NEW r \in Requests, End(r),
           item' \in [Items -> ItemStatus], doc' \in [Documents -> DocStatus],
           home' \in [Documents -> Collections \cup {NoOne}],
           usage' \in [Keys -> Nat], limit' \in [Keys -> Nat], sent' = sent,
           Homes', CollectionFits',
           \A k \in Keys : lock[k] \notin {NoOne, r} => usage'[k] = usage[k] /\ limit'[k] = limit[k],
           \A d \in Documents : home[d] # NoOne => home'[d] = home[d],
           lock[Docs] \notin {NoOne, r} => \A c \in Collections : Pending(c)' \subseteq Pending(c)
    PROVE  IInv'
<1>1. req' = [req EXCEPT ![r] = IdleRequest] /\ lock' = Unlock(r)
  BY DEF End
<1>2. lock' \in [Rows -> Requests \cup {NoOne}] /\ \A x \in Rows : lock'[x] # r
  BY <1>1, Names DEF IInv, TypeOK, Unlock
<1>3. \A s \in Requests \ {r} : \A y \in Rows : lock'[y] = s <=> lock[y] = s
  BY <1>1, Names DEF IInv, TypeOK, Unlock
<1>4. Good(r)'
  <2>1. req'[r] = IdleRequest
    BY <1>1 DEF IInv, TypeOK
  <2>2. QED
    BY <1>2, <2>1, Idle DEF Good, Shaped, Charged, Counted, Refunded
<1>5. \A s \in Requests : Good(s)'
  BY <1>1, <1>3, <1>4, Idle, Others DEF Harmless
<1>6. TypeOK'
  BY <1>1, <1>2, Idle DEF IInv, TypeOK
<1>7. QED
  BY <1>5, <1>6 DEF IInv

-----------------------------------------------------------------------------
(* Steps of the ledger                                                     *)

AllLive == [k \in Keys |-> Live(k)]

LedgerStep == Promise!LedgerNext \/ UNCHANGED <<usage, limit, AllLive>>

LEMMA LiveNext == \A k \in Keys : Live(k)' = Cardinality(Counts(k)') /\ Counts(k)' \in SUBSET (Items \cup Documents)
BY DEF Live, Counts, Docs

\* Resources are added by a charge.
LEMMA ChargeStep ==
    ASSUME NEW k \in Keys, usage \in [Keys -> Nat], limit \in [Keys -> Nat],
           NEW N \in SUBSET (Items \cup Documents), N # {}, usage[k] + Cardinality(N) <= limit[k],
           usage' = [usage EXCEPT ![k] = usage[k] + Cardinality(N)], limit' = limit,
           Counts(k) \subseteq Counts(k)', Counts(k)' \subseteq Counts(k) \cup N,
           \A j \in Keys \ {k} : Counts(j)' = Counts(j)
    PROVE  LedgerStep
<1> DEFINE n == Cardinality(N)
           m == Live(k)' - Live(k)
<1>1. n \in Nat /\ n >= 1 /\ \A j \in Keys : Live(j) \in Nat /\ Live(j)' \in Nat
  BY Finite, LiveIs, LiveNext
<1>2. Live(k) <= Live(k)' /\ Live(k)' <= Live(k) + n
  BY LiveIs, LiveNext, Sizes
<1>3. m \in 0..n /\ Live(k)' = Live(k) + m
  BY <1>1, <1>2
<1>4. \A j \in Keys \ {k} : Live(j)' = Live(j)
  BY LiveIs, LiveNext
<1>5. AllLive' = [AllLive EXCEPT ![k] = @ + m]
  BY <1>3, <1>4 DEF AllLive
<1>6. n \in 1..(limit[k] - usage[k])
  BY <1>1
<1>7. Promise!Charge(k)
  BY <1>3, <1>5, <1>6 DEF Promise!Charge, AllLive
<1>8. QED
  BY <1>7 DEF LedgerStep, Promise!LedgerNext

\* Resources go away, with or without a refund.
LEMMA RefundStep ==
    ASSUME NEW k \in Keys, usage \in [Keys -> Nat],
           NEW b \in 0..usage[k], usage' = [usage EXCEPT ![k] = b], limit' = limit,
           Counts(k)' \subseteq Counts(k), \A j \in Keys \ {k} : Counts(j)' = Counts(j)
    PROVE  LedgerStep
<1>1. Live(k)' <= Live(k)
  BY LiveIs, LiveNext, Sizes
<1>2. \A j \in Keys \ {k} : Live(j)' = Live(j)
  BY LiveIs, LiveNext
<1>3. AllLive' = [AllLive EXCEPT ![k] = AllLive'[k]] /\ AllLive'[k] <= AllLive[k]
  BY <1>1, <1>2 DEF AllLive
<1>4. usage'[k] <= usage[k] /\ usage' = [usage EXCEPT ![k] = usage'[k]]
  OBVIOUS
<1>5. Promise!Refund(k)
  BY <1>3, <1>4 DEF Promise!Refund, AllLive
<1>6. QED
  BY <1>5 DEF LedgerStep, Promise!LedgerNext

LEMMA SameLive ==
    ASSUME \A k \in Keys : Counts(k)' = Counts(k)
    PROVE  AllLive' = AllLive
BY LiveIs, LiveNext DEF AllLive

-----------------------------------------------------------------------------
(* The ends of the requests, one by one                                    *)

\* Nothing was done: refused, rolled back, picked by the database.
LEMMA GivingUp ==
    ASSUME IInv, NEW r \in Requests, Rollback(r) \/ Refuse(r) \/ DeadlockVictim(r)
    PROVE  IInv' /\ LedgerStep
<1>1. End(r) /\ UNCHANGED <<item, doc, home, usage, limit, sent>>
  BY DEF Rollback, Refuse, DeadlockVictim
<1>2. IInv'
  BY <1>1, Ending DEF IInv, TypeOK, Homes, CollectionFits, Pending
<1>3. LedgerStep
  BY <1>1, SameLive DEF LedgerStep, Counts
<1>4. QED
  BY <1>2, <1>3

LEMMA Administering ==
    ASSUME IInv, NEW r \in Requests, UpdateUserQuota(r) \/ WriteUsage(r)
    PROVE  IInv' /\ LedgerStep
<1>1. End(r) /\ UNCHANGED <<item, doc, home, sent>>
  BY DEF UpdateUserQuota, WriteUsage
<1>2. Homes' /\ CollectionFits' /\ AllLive' = AllLive
  BY <1>1, SameLive DEF IInv, Homes, CollectionFits, Counts
<1>3. CASE UpdateUserQuota(r)
  <2>0. PICK keys \in SUBSET Keys :
          /\ \A k \in keys : FreeFor(k, r)
          /\ \E new \in [keys -> NewLimits] :
                 limit' = [k \in Keys |-> IF k \in keys THEN new[k] ELSE limit[k]]
          /\ usage' = usage
    BY <1>3 DEF UpdateUserQuota
  <2>1. PICK new \in [keys -> NewLimits] :
          limit' = [k \in Keys |-> IF k \in keys THEN new[k] ELSE limit[k]]
    BY <2>0
  <2>a. limit' \in [Keys -> Nat] /\ \A k \in Keys : k \notin keys => limit'[k] = limit[k]
    BY <2>1, LimitsAssumption DEF IInv, TypeOK
  <2>2. IInv'
    BY <1>1, <1>2, <2>0, <2>a, Ending DEF IInv, TypeOK, Pending, FreeFor
  <2>3. Promise!SetLimits
    BY <1>2, <2>0 DEF Promise!SetLimits, AllLive
  <2>4. QED
    BY <2>2, <2>3 DEF LedgerStep, Promise!LedgerNext
<1>4. CASE WriteUsage(r)
  <2> DEFINE written == {k \in Keys : req[r].count[k] >= 0}
  <2>1. /\ \A k \in written : FreeFor(k, r)
        /\ usage' = [k \in Keys |-> IF k \in written THEN req[r].count[k] ELSE usage[k]] /\ limit' = limit
    BY <1>4 DEF WriteUsage
  <2>2. req[r].count \in [Keys -> Int]
    BY Own DEF RequestState
  <2>3. usage' \in [Keys -> Nat]
    BY <2>1, <2>2 DEF IInv, TypeOK
  <2>4. \A k \in Keys : lock[k] \notin {NoOne, r} => usage'[k] = usage[k]
    BY <2>1 DEF FreeFor
  <2>5. IInv'
    BY <1>1, <1>2, <2>1, <2>3, <2>4, Ending DEF IInv, TypeOK, Pending
  <2>6. Promise!Recount
    BY <1>2, <2>1 DEF Promise!Recount, AllLive
  <2>7. QED
    BY <2>5, <2>6 DEF LedgerStep, Promise!LedgerNext
<1>5. QED
  BY <1>3, <1>4

\* What a key counts when only items, or only documents, are written.
LEMMA CountsNext ==
    /\ UNCHANGED doc => Counts(Docs)' = Counts(Docs)
    /\ UNCHANGED item => \A j \in Keys \ {Docs} : Counts(j)' = Counts(j)
    /\ Counts(Docs) = {d \in Documents : doc[d] = "PENDING"}
    /\ Counts(Docs)' = {d \in Documents : doc'[d] = "PENDING"}
    /\ \A j \in Keys \ {Docs} :
          /\ Counts(j) = {x \in Items : KeyOf(x) = j /\ item[x] = "ACTIVE"}
          /\ Counts(j)' = {x \in Items : KeyOf(x) = j /\ item'[x] = "ACTIVE"}
BY DEF Counts

LEMMA Creating ==
    ASSUME IInv, NEW r \in Requests, CommitCreate(r)
    PROVE  IInv' /\ LedgerStep
<1>0. PICK k \in Keys : k = req[r].key
  BY Own
<1> DEFINE N == req[r].names
<1>1. /\ req[r].op = "create" /\ req[r].phase = "charged" /\ End(r)
      /\ item' = [x \in Items |-> IF x \in N THEN "ACTIVE" ELSE item[x]]
      /\ usage' = [usage EXCEPT ![k] = req[r].balance]
      /\ UNCHANGED <<doc, home, limit, sent>>
  BY <1>0 DEF CommitCreate
<1>2. /\ Good(r) /\ k \in Keys /\ k \in Rows /\ usage[k] \in Nat /\ limit[k] \in Nat
      /\ N \in SUBSET (Items \cup Documents) /\ Cardinality(N) \in Nat
  BY <1>0, Own
<1>3. /\ lock[k] = r /\ req[r].balance = usage[k] + Cardinality(N) /\ req[r].balance <= limit[k]
      /\ N # {} /\ \A x \in N : x \in Items /\ KeyOf(x) = k
  BY <1>0, <1>1, <1>2 DEF Good, Shaped, Charged
<1>4. item' \in [Items -> ItemStatus] /\ usage' \in [Keys -> Nat]
  BY <1>1, <1>2, <1>3 DEF IInv, TypeOK, ItemStatus
<1>5. \A j \in Keys : lock[j] \notin {NoOne, r} => usage'[j] = usage[j] /\ limit'[j] = limit[j]
  BY <1>1, <1>3 DEF IInv, TypeOK
<1>6. IInv'
  BY <1>1, <1>4, <1>5, Ending DEF IInv, TypeOK, Homes, CollectionFits, Pending
<1>7. /\ Counts(k) \subseteq Counts(k)' /\ Counts(k)' \subseteq Counts(k) \cup N
      /\ \A j \in Keys \ {k} : Counts(j)' = Counts(j)
  <2>1. k # Docs
    BY <1>3, Names
  <2>2. \A x \in Items : KeyOf(x) # k => item'[x] = item[x]
    BY <1>1, <1>3
  <2>3. \A j \in Keys \ {k, Docs} : Counts(j)' = Counts(j)
    <3>1. SUFFICES ASSUME NEW j \in Keys \ {k, Docs}
                   PROVE  Counts(j)' = Counts(j)
      OBVIOUS
    <3>2. {x \in Items : KeyOf(x) = j /\ item'[x] = "ACTIVE"} = {x \in Items : KeyOf(x) = j /\ item[x] = "ACTIVE"}
      BY <2>2
    <3>3. QED
      BY <3>2, CountsNext
  <2>4. Counts(k) \subseteq Counts(k)' /\ Counts(k)' \subseteq Counts(k) \cup N
    BY <1>1, <1>2, <2>1, CountsNext
  <2>5. QED
    BY <1>1, <2>1, <2>3, <2>4, CountsNext
<1>8. LedgerStep
  <2>1. usage[k] + Cardinality(N) <= limit[k] /\ usage' = [usage EXCEPT ![k] = usage[k] + Cardinality(N)]
    BY <1>1, <1>3
  <2>2. QED
    BY <1>1, <1>2, <1>3, <1>7, <2>1, ChargeStep DEF IInv, TypeOK
<1>9. QED
  BY <1>6, <1>8

LEMMA Deleting ==
    ASSUME IInv, NEW r \in Requests, CommitDelete(r)
    PROVE  IInv' /\ LedgerStep
<1>0. PICK k \in Keys : k = req[r].key
  BY Own
<1> DEFINE N == req[r].marked
<1>1. /\ req[r].op = "delete" /\ req[r].phase = "open" /\ req[r].todo = {} /\ End(r)
      /\ item' = [x \in Items |-> IF x \in N THEN "DELETED" ELSE item[x]]
      /\ usage' = [usage EXCEPT ![k] = req[r].balance]
      /\ UNCHANGED <<doc, home, limit, sent>>
  BY <1>0 DEF CommitDelete
<1>2. Good(r) /\ k \in Keys /\ k \in Rows /\ usage[k] \in Nat
  BY <1>0, Own
<1>3. /\ lock[k] = r /\ req[r].balance \in 0..usage[k] /\ \A x \in N : x \in Items /\ KeyOf(x) = k
  BY <1>0, <1>1, <1>2 DEF Good, Shaped, Refunded
<1>4. item' \in [Items -> ItemStatus] /\ usage' \in [Keys -> Nat]
  BY <1>1, <1>2, <1>3 DEF IInv, TypeOK, ItemStatus
<1>5. \A j \in Keys : lock[j] \notin {NoOne, r} => usage'[j] = usage[j] /\ limit'[j] = limit[j]
  BY <1>1, <1>3 DEF IInv, TypeOK
<1>6. IInv'
  BY <1>1, <1>4, <1>5, Ending DEF IInv, TypeOK, Homes, CollectionFits, Pending
<1>7. Counts(k)' \subseteq Counts(k) /\ \A j \in Keys \ {k} : Counts(j)' = Counts(j)
  <2>1. \A x \in Items : KeyOf(x) # k => item'[x] = item[x]
    BY <1>1, <1>3
  <2>2. \A j \in Keys \ {k, Docs} : Counts(j)' = Counts(j)
    <3>1. SUFFICES ASSUME NEW j \in Keys \ {k, Docs}
                   PROVE  Counts(j)' = Counts(j)
      OBVIOUS
    <3>2. {x \in Items : KeyOf(x) = j /\ item'[x] = "ACTIVE"} = {x \in Items : KeyOf(x) = j /\ item[x] = "ACTIVE"}
      BY <2>1
    <3>3. QED
      BY <3>2, CountsNext
  <2>3. k # Docs => Counts(k)' \subseteq Counts(k)
    BY <1>1, <1>2, CountsNext
  <2>4. QED
    BY <1>1, <2>2, <2>3, CountsNext
<1>8. LedgerStep
  <2>1. usage \in [Keys -> Nat]
    BY DEF IInv, TypeOK
  <2>2. QED
    BY <1>1, <1>2, <1>3, <1>7, <2>1, RefundStep
<1>9. QED
  BY <1>6, <1>8

\* A collection still fits when it gains what its quota has room for.
LEMMA FitsNext ==
    ASSUME CollectionFits,
           \A c \in Collections :
              \/ Pending(c)' \subseteq Pending(c)
              \/ \E N \in SUBSET (Items \cup Documents) :
                    /\ Pending(c)' \subseteq Pending(c) \cup N
                    /\ Cardinality(Pending(c)) + Cardinality(N) <= PerCollection
    PROVE  CollectionFits'
<1>1. ASSUME NEW c \in Collections
      PROVE  Cardinality(Pending(c)') <= PerCollection
  <2>1. /\ Pending(c)' \in SUBSET (Items \cup Documents) /\ Pending(c) \in SUBSET (Items \cup Documents)
    BY DEF Pending
  <2>2. Cardinality(Pending(c)') \in Nat /\ Cardinality(Pending(c)) \in Nat
    BY <2>1, Finite
  <2>3. Cardinality(Pending(c)) <= PerCollection
    BY DEF CollectionFits, Pending
  <2>4. CASE Pending(c)' \subseteq Pending(c)
    BY <2>1, <2>2, <2>3, <2>4, Sizes, LimitsAssumption
  <2>5. CASE \E N \in SUBSET (Items \cup Documents) :
               /\ Pending(c)' \subseteq Pending(c) \cup N
               /\ Cardinality(Pending(c)) + Cardinality(N) <= PerCollection
    <3>1. PICK N \in SUBSET (Items \cup Documents) :
            /\ Pending(c)' \subseteq Pending(c) \cup N
            /\ Cardinality(Pending(c)) + Cardinality(N) <= PerCollection
      BY <2>5
    <3>2. Cardinality(N) \in Nat /\ Cardinality(Pending(c)') <= Cardinality(Pending(c)) + Cardinality(N)
      BY <2>1, <3>1, Sizes, Finite
    <3>3. QED
      BY <2>2, <3>1, <3>2, LimitsAssumption
  <2>6. QED
    BY <2>4, <2>5
<1>2. QED
  BY <1>1 DEF CollectionFits, Pending

LEMMA Uploading ==
    ASSUME IInv, NEW r \in Requests, CommitUpload(r)
    PROVE  IInv' /\ LedgerStep
<1>0. PICK c \in Collections : c = req[r].place
  BY Own DEF CommitUpload, Good, Shaped
<1> DEFINE new == {d \in req[r].names : doc[d] = "none"}
<1>1. /\ End(r)
      /\ doc' = [d \in Documents |-> IF d \in new THEN "UPLOADED" ELSE doc[d]]
      /\ home' = [d \in Documents |-> IF d \in new THEN c ELSE home[d]]
      /\ UNCHANGED <<item, usage, limit, sent>>
  BY <1>0 DEF CommitUpload
<1>2. c # NoOne /\ \A d \in Documents : d \in new => home[d] = NoOne
  BY Names DEF IInv, Homes
<1>3. /\ doc' \in [Documents -> DocStatus] /\ home' \in [Documents -> Collections \cup {NoOne}]
      /\ \A d \in Documents : home[d] # NoOne => home'[d] = home[d]
      /\ Homes'
  BY <1>1, <1>2 DEF IInv, TypeOK, DocStatus, Homes
<1>4. \A b \in Collections : Pending(b)' \subseteq Pending(b)
  BY <1>1 DEF Pending
<1>5. IInv'
  BY <1>1, <1>3, <1>4, FitsNext, Ending DEF IInv, TypeOK
<1>6. {d \in Documents : doc'[d] = "PENDING"} = {d \in Documents : doc[d] = "PENDING"}
  BY <1>1
<1>7. \A k \in Keys : Counts(k)' = Counts(k)
  BY <1>1, <1>6, CountsNext
<1>8. QED
  BY <1>1, <1>5, <1>7, SameLive DEF LedgerStep

\* Documents are added to a collection, all of them by the request's charge.
LEMMA DocumentsAdded ==
    ASSUME IInv, NEW r \in Requests, End(r), UNCHANGED <<item, limit, sent>>,
           req[r].op \in {"add", "confirm"}, req[r].phase = "counted",
           usage' = [usage EXCEPT ![Docs] = req[r].balance],
           NEW new \in SUBSET req[r].names,
           doc' = [d \in Documents |-> IF d \in new THEN "PENDING" ELSE doc[d]],
           home' = [d \in Documents |-> IF d \in new THEN req[r].place ELSE home[d]],
           \A d \in new : home[d] \in {NoOne, req[r].place}
    PROVE  IInv' /\ LedgerStep
<1>0. PICK c \in Collections : c = req[r].place
  BY Own DEF Good, Shaped
<1>1. PICK N \in SUBSET Documents : N = req[r].names /\ new \subseteq N
  BY Own DEF Good, Shaped
<1>2. /\ Good(r) /\ req[r].key = Docs /\ usage[Docs] \in Nat /\ limit[Docs] \in Nat
      /\ N \in SUBSET (Items \cup Documents) /\ Cardinality(N) \in Nat /\ c # NoOne
  BY <1>1, Own, Names DEF Good, Shaped
<1>3. /\ lock[Docs] = r /\ req[r].balance = usage[Docs] + Cardinality(N) /\ req[r].balance <= limit[Docs]
      /\ N # {} /\ Cardinality(Pending(c)) + Cardinality(N) <= PerCollection
  BY <1>0, <1>1, <1>2 DEF Good, Shaped, Charged, Counted
<1>4. /\ doc' \in [Documents -> DocStatus] /\ home' \in [Documents -> Collections \cup {NoOne}]
      /\ \A d \in Documents : home[d] # NoOne => home'[d] = home[d]
      /\ Homes'
  BY <1>0, <1>1, <1>2 DEF IInv, TypeOK, DocStatus, Homes
<1>5. usage' \in [Keys -> Nat] /\ \A j \in Keys : lock[j] \notin {NoOne, r} => usage'[j] = usage[j]
  <2>1. usage \in [Keys -> Nat] /\ Docs \in Keys /\ usage[Docs] + Cardinality(N) \in Nat
    BY <1>2, Names DEF IInv, TypeOK
  <2>2. QED
    BY <1>3, <2>1
<1>6. Pending(c)' \subseteq Pending(c) \cup N /\ \A b \in Collections \ {c} : Pending(b)' \subseteq Pending(b)
  BY <1>0, <1>1 DEF Pending
<1>7. CollectionFits'
  BY <1>2, <1>3, <1>6, FitsNext DEF IInv
<1>8. IInv'
  BY <1>3, <1>4, <1>5, <1>7, Ending DEF IInv, TypeOK
<1>9. /\ Counts(Docs) \subseteq Counts(Docs)' /\ Counts(Docs)' \subseteq Counts(Docs) \cup N
      /\ \A j \in Keys \ {Docs} : Counts(j)' = Counts(j)
  BY <1>1, CountsNext
<1>10. usage[Docs] + Cardinality(N) <= limit[Docs] /\ usage' = [usage EXCEPT ![Docs] = usage[Docs] + Cardinality(N)]
  BY <1>3
<1>11. LedgerStep
  BY <1>2, <1>3, <1>9, <1>10, ChargeStep, Names DEF IInv, TypeOK
<1>12. QED
  BY <1>8, <1>11

LEMMA Adding ==
    ASSUME IInv, NEW r \in Requests, CommitAdd(r) \/ CommitConfirm(r)
    PROVE  IInv' /\ LedgerStep
<1>1. Good(r) /\ req[r].names \subseteq Documents
  BY Own DEF Good, Shaped, CommitAdd, CommitConfirm
<1>2. CASE CommitAdd(r)
  <2> DEFINE new == {d \in req[r].names : doc[d] = "none"}
  <2>1. \A d \in new : home[d] \in {NoOne, req[r].place}
    BY <1>1 DEF IInv, Homes
  <2>2. QED
    BY <1>2, <2>1, DocumentsAdded DEF CommitAdd, Docs
<1>3. CASE CommitConfirm(r)
  <2> DEFINE new == req[r].marked
  <2>1. new \subseteq req[r].names /\ \A d \in new : home[d] = req[r].place
    BY <1>1, <1>3 DEF Good, Shaped, CommitConfirm
  <2>2. home' = [d \in Documents |-> IF d \in new THEN req[r].place ELSE home[d]]
    BY <1>1, <1>3, <2>1 DEF CommitConfirm, IInv, TypeOK
  <2>3. QED
    BY <1>3, <2>1, <2>2, DocumentsAdded DEF CommitConfirm, Docs
<1>4. QED
  BY <1>2, <1>3

\* Documents leave the pipeline.
LEMMA DocumentsGone ==
    ASSUME IInv, NEW r \in Requests, End(r), UNCHANGED <<item, home, limit, sent>>,
           NEW b \in 0..usage[Docs], usage' = [usage EXCEPT ![Docs] = b],
           b # usage[Docs] => lock[Docs] = r,
           NEW gone \in SUBSET Documents, NEW status \in {"EXPIRED", "DELETED"},
           doc' = [d \in Documents |-> IF d \in gone THEN status ELSE doc[d]],
           \A d \in gone : home[d] # NoOne
    PROVE  IInv' /\ LedgerStep
<1>1. usage \in [Keys -> Nat] /\ Docs \in Keys
  BY Names DEF IInv, TypeOK
<1>2. doc' \in [Documents -> DocStatus] /\ Homes'
  BY DEF IInv, TypeOK, DocStatus, Homes
<1>3. \A c \in Collections : Pending(c)' \subseteq Pending(c)
  BY DEF Pending
<1>4. usage' \in [Keys -> Nat] /\ \A j \in Keys : lock[j] \notin {NoOne, r} => usage'[j] = usage[j]
  BY <1>1
<1>5. IInv'
  BY <1>2, <1>3, <1>4, FitsNext, Ending DEF IInv, TypeOK
<1>6. Counts(Docs)' \subseteq Counts(Docs) /\ \A j \in Keys \ {Docs} : Counts(j)' = Counts(j)
  BY CountsNext
<1>7. QED
  BY <1>1, <1>5, <1>6, RefundStep

LEMMA Removing ==
    ASSUME IInv, NEW r \in Requests, CommitRemove(r) \/ CommitExpire(r)
    PROVE  IInv' /\ LedgerStep
<1>1. /\ Good(r) /\ usage[Docs] \in Nat /\ req[r].names \subseteq Documents
      /\ usage' = [usage EXCEPT ![Docs] = usage[Docs]] \/ CommitRemove(r)
      /\ \A d \in req[r].names : home[d] # NoOne
  BY Own, Names DEF Good, Shaped, CommitRemove, CommitExpire, IInv, TypeOK
<1>2. CASE CommitRemove(r)
  <2>1. /\ End(r) /\ req[r].op = "remove" /\ req[r].phase = "open"
        /\ doc' = [d \in Documents |-> IF d \in req[r].marked THEN "DELETED" ELSE doc[d]]
        /\ usage' = IF req[r].marked = {} THEN usage ELSE [usage EXCEPT ![Docs] = req[r].balance]
        /\ UNCHANGED <<item, home, limit, sent>>
    BY <1>2 DEF CommitRemove, Docs
  <2>2. req[r].key = Docs /\ req[r].marked \subseteq req[r].names
    BY <1>1, <2>1 DEF Good, Shaped
  <2>3. req[r].marked # {} => lock[Docs] = r /\ req[r].balance \in 0..usage[Docs]
    BY <1>1, <2>1, <2>2 DEF Good, Refunded
  <2>4. usage = [usage EXCEPT ![Docs] = usage[Docs]] /\ usage[Docs] \in 0..usage[Docs]
    BY <1>1 DEF IInv, TypeOK
  <2>5. PICK b \in 0..usage[Docs] : usage' = [usage EXCEPT ![Docs] = b] /\ (b # usage[Docs] => lock[Docs] = r)
    BY <2>1, <2>3, <2>4
  <2>6. req[r].marked \in SUBSET Documents /\ \A d \in req[r].marked : home[d] # NoOne
    BY <1>1, <2>2
  <2>7. QED
    BY <2>1, <2>5, <2>6, DocumentsGone
<1>3. CASE CommitExpire(r)
  <2>1. /\ End(r) /\ doc' = [d \in Documents |-> IF d \in req[r].names THEN "EXPIRED" ELSE doc[d]]
        /\ UNCHANGED <<item, home, usage, limit, sent>>
    BY <1>3 DEF CommitExpire
  <2>2. usage' = [usage EXCEPT ![Docs] = usage[Docs]] /\ usage[Docs] \in 0..usage[Docs]
    BY <1>1, <2>1 DEF IInv, TypeOK
  <2>3. QED
    BY <1>1, <2>1, <2>2, DocumentsGone
<1>4. QED
  BY <1>2, <1>3

-----------------------------------------------------------------------------
(* Theorems                                                                *)

LEMMA Preserved ==
    ASSUME IInv, Next
    PROVE  IInv' /\ LedgerStep
<1>1. PICK r \in Requests : OpenRequest(r) \/ RequestStep(r) \/ Rollback(r)
  BY DEF Next
<1>2. CASE \/ OpenRequest(r) \/ Consume(r) \/ ReleaseQuota(r) \/ Recount(r) \/ LoadUsage(r) \/ SelectItem(r)
           \/ SelectUploaded(r) \/ SelectDocument(r) \/ MarkRow(r) \/ CountCollection(r)
  <2>1. IInv'
    BY <1>2, Opening, Consuming, Releasing, Recounting, Selecting, Marking, Counting
  <2>2. UNCHANGED <<item, doc, usage, limit>>
    BY <1>2 DEF OpenRequest, Open, OpenCreate, OpenDelete, OpenUpload, OpenAdd, OpenConfirm, OpenRemove, OpenExpire,
                Consume, ReleaseQuota, Recount, LoadUsage, SelectItem, SelectUploaded, SelectDocument, MarkRow,
                CountCollection
  <2>3. QED
    BY <2>1, <2>2, SameLive DEF LedgerStep, Counts
<1>3. QED
  BY <1>1, <1>2, GivingUp, Administering, Creating, Deleting, Uploading, Adding, Removing DEF RequestStep

THEOREM Invariance == Spec => []IInv
<1>1. IInv /\ UNCHANGED vars => IInv'
  BY DEF vars, IInv, TypeOK, Homes, CollectionFits, Good, Shaped, Charged, Counted, Refunded, Pending
<1>2. IInv /\ [Next]_vars => IInv'
  BY <1>1, Preserved
<1>3. QED
  BY Start, <1>2, PTL DEF Spec

\* Usage, limits, statuses and requests are well typed: no overlap of
\* releases and recounts makes a usage negative.
THEOREM TypeCorrect == Spec => []TypeOK
<1>1. IInv => TypeOK
  BY DEF IInv
<1>2. QED
  BY <1>1, Invariance, PTL

\* However many requests overlap, a collection keeps within its own quota.
THEOREM CollectionQuota == Spec => []CollectionFits
<1>1. IInv => CollectionFits
  BY DEF IInv
<1>2. QED
  BY <1>1, Invariance, PTL

\* The quota service implements the ledger: every step is a charge that finds
\* room for what it adds, a refund, an administrator's, or none of its own.
THEOREM ImplementsLedger == Spec => KeepsLedger
<1>1. Init => Promise!LedgerInit
  <2>1. \A k \in Keys : Live(k) \in Nat
    BY LiveIs, Finite
  <2>2. QED
    BY <2>1, LimitsAssumption DEF Init, Promise!LedgerInit
<1>2. IInv /\ [Next]_vars => [Promise!LedgerNext]_(Promise!ledger)
  <2>1. SUFFICES ASSUME IInv, [Next]_vars
                 PROVE  [Promise!LedgerNext]_(Promise!ledger)
    OBVIOUS
  <2>2. CASE Next
    BY <2>1, <2>2, Preserved DEF LedgerStep, AllLive, Promise!ledger
  <2>3. CASE UNCHANGED vars
    <3>1. AllLive' = AllLive
      BY <2>3, SameLive DEF vars, Counts
    <3>2. QED
      BY <2>3, <3>1 DEF vars, AllLive, Promise!ledger
  <2>4. QED
    BY <2>1, <2>2, <2>3
<1>3. QED
  BY <1>1, <1>2, Invariance, PTL DEF Spec, KeepsLedger, Promise!Ledger

=============================================================================
