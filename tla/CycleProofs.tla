----------------------------- MODULE CycleProofs -----------------------------
(***************************************************************************)
(* What one cycle of SyncCycle does to the names it reconciles, for every  *)
(* zone, number of pages, plan and retries: a name that has a record keeps *)
(* it, one that resolves rightly goes on doing so, a cycle without a       *)
(* failure has done its work, and the summary is true.                     *)
(*                                                                         *)
(* The first three are about a zone that no other writer and no request of *)
(* an earlier cycle touches meanwhile.                                     *)
(* The argument then is that the listing is the zone, page by page; that   *)
(* no record is in it twice, so that each has one action of the plan; and  *)
(* that the actions, in whatever order, number and lateness they take      *)
(* effect, only ever bring a record closer to what is wanted.              *)
(***************************************************************************)
EXTENDS SyncCycleProofs, FiniteSetTheorems, WellFoundedInduction

----------------------------------------------------------------------------
(* The invariant. *)

(* sync_once starts with nothing. *)
Phases ==
  /\ pc # "executing" => plan = {} /\ todo = {} /\ summary = NothingDone
  /\ pc \in {"idle", "reading"} => page = 1 /\ listed = {}

(* A page is fetched once. *)
Pages ==
  \A e \in listed : e.page \in 1..page /\ (pc = "listing" => e.page < page)

(* The pages fetched so far are the first ones of the zone as it is. *)
Mirror ==
  pc = "listing" /\ ~disturbed =>
    /\ \A e \in listed : e.rec = zone[e.id] /\ e.id \in OnPage(zone, e.page, PageSize)
    /\ \A i \in ARecords(zone) :
         Position(zone, i) <= (page - 1) * PageSize => \E e \in listed : e.id = i

(* Each listed record is listed once, and has one action of the plan. *)
Made     == pc = "executing" => plan = BuildPlan(desired, listed)
Distinct ==
  pc = "executing" /\ ~disturbed => \A e, f \in listed : e.id = f.id => e = f

(* The record a wanted name keeps is still there, and right if it was right. *)
Keeps(z, e, n) ==
  /\ Owned(z, e.id) /\ KeyOf[z[e.id].name] = n
  /\ Matches(e.rec, n, desired[n]) => Matches(z[e.id], n, desired[n])
Serving ==
  pc = "executing" /\ ~disturbed =>
    \A n \in Managed : \A e \in listed :
      desired[n] # NoAddr /\ IsPrimary(e, listed, n, desired[n]) => Keeps(zone, e, n)

(* What is not right yet has its action still to come, as long as none failed;
   what has been created stays. *)
Right(z, i)   == Matches(z[i], KeyOf[z[i].name], desired[KeyOf[z[i].name]])
HasItem(i)    == \E item \in todo : item.id = i /\ item.op \in {"update", "delete"}
HasNew(z, n)  == \E i \in RecordsOf(z, n) : \A x \in plan : x.id # i
Cleaning ==
  pc = "executing" /\ ~disturbed /\ ~dry_run /\ summary["failed"] = 0 =>
    /\ \A i \in Ids : Owned(zone, i) => Right(zone, i) \/ HasItem(i)
    /\ \A item \in plan \ todo : item.op = "create" => HasNew(zone, item.name)

CycleFacts ==
  Phases /\ Pages /\ Mirror /\ Made /\ Distinct /\ Serving /\ Cleaning
CycleInv == TypeOK /\ CycleFacts

(* The summary counts what is no longer to do. *)
DoneOf(c) == {item \in plan \ todo : item.op = c}
Counted ==
  /\ summary["failed"] + summary["create"] + summary["update"]
       + summary["delete"] + summary["noop"] = Cardinality(plan \ todo)
  /\ summary["failed"] = 0 => \A c \in Ops : summary[c] = Cardinality(DoneOf(c))

----------------------------------------------------------------------------
(* Numbers: the smallest of a set, and pages. *)

LEMMA MinNat ==
  ASSUME NEW S \in SUBSET Nat, S # {}
  PROVE  \E m \in S : \A k \in S : m <= k
<1>1. IsWellFoundedOn(OpToRel(<, Nat), Nat)
  BY NatLessThanWellFounded
<1>2. PICK m \in S : \A y \in S : <<y, m>> \notin OpToRel(<, Nat)
  BY <1>1, WFMin
<1>3. \A y \in S : ~(y < m)
  BY <1>2 DEF OpToRel
<1> QED BY <1>3

(* Of the entries of a listing there is always a first. *)
LEMMA FirstEntry ==
  ASSUME NEW C \in SUBSET Entries, C # {}
  PROVE  \E e \in C : \A f \in C : ~SortedBefore(f, e)
<1>1. \A e \in C : e.id \in Nat /\ e.page \in Nat
  BY ZoneAssumption DEF Entries
<1>2. {e.id : e \in C} \in SUBSET Nat /\ {e.id : e \in C} # {}
  BY <1>1
<1>3. PICK m \in {e.id : e \in C} : \A k \in {e.id : e \in C} : m <= k
  BY <1>2, MinNat
<1> DEFINE D == {e \in C : e.id = m}
<1>4. {e.page : e \in D} \in SUBSET Nat /\ {e.page : e \in D} # {}
  BY <1>1
<1>5. PICK q \in {e.page : e \in D} : \A k \in {e.page : e \in D} : q <= k
  BY <1>4, MinNat
<1>6. PICK e \in D : e.page = q
  OBVIOUS
<1>7. ASSUME NEW f \in C, SortedBefore(f, e) PROVE FALSE
  <2>1. m <= f.id /\ e.id = m /\ m \in Nat /\ f.id \in Nat
    BY <1>1, <1>3
  <2>2. f.id = m /\ f.page < e.page
    BY <1>7, <2>1 DEF SortedBefore
  <2>3. q <= f.page
    BY <2>2, <1>5
  <2> QED BY <2>2, <2>3, <1>1, <1>6
<1> QED BY <1>6, <1>7

LEMMA PositionType ==
  ASSUME NEW z, NEW i \in ARecords(z)
  PROVE  /\ Position(z, i) \in Nat \ {0}
         /\ Cardinality(ARecords(z)) \in Nat
         /\ Position(z, i) <= Cardinality(ARecords(z))
<1> DEFINE Before == {j \in ARecords(z) : j <= i}
<1>1. ARecords(z) \in SUBSET Ids /\ IsFiniteSet(ARecords(z))
  BY FiniteAssumption, FS_Subset DEF ARecords
<1>2. Before \in SUBSET ARecords(z)
  OBVIOUS
<1>3. IsFiniteSet(Before) /\ Cardinality(Before) <= Cardinality(ARecords(z))
  BY <1>1, <1>2, FS_Subset
<1>4. Cardinality(Before) \in Nat /\ Cardinality(ARecords(z)) \in Nat
  BY <1>1, <1>3, FS_CardinalityType
<1>5. i \in Before
  <2>1. i \in Nat
    BY <1>1, ZoneAssumption
  <2> QED BY <2>1
<1>6. Cardinality(Before) # 0
  BY <1>3, <1>5, FS_EmptySet
<1> QED BY <1>3, <1>4, <1>6 DEF Position

LEMMA Multiples ==
  ASSUME NEW a \in Nat, NEW b \in Nat, a <= b, NEW s \in Nat
  PROVE  a * s <= b * s
<1>1. PICK d \in Nat : b = a + d
  <2>1. b - a \in Nat /\ b = a + (b - a)
    OBVIOUS
  <2> QED BY <2>1
<1>2. b * s = a * s + d * s
  BY <1>1
<1>3. a * s \in Nat /\ d * s \in Nat
  OBVIOUS
<1> QED BY <1>2, <1>3

(* No record of a zone is on two pages. *)
LEMMA OnePage ==
  ASSUME NEW z, NEW i, NEW p \in Nat \ {0}, NEW q \in Nat \ {0},
         i \in OnPage(z, p, PageSize), i \in OnPage(z, q, PageSize)
  PROVE  p = q
<1>1. /\ PageSize \in Nat
      /\ i \in ARecords(z) /\ Position(z, i) \in Nat
  BY SyncCycleAssumption, PositionType DEF OnPage
<1>2. ASSUME NEW a \in Nat \ {0}, NEW b \in Nat \ {0}, a < b,
             i \in OnPage(z, a, PageSize), i \in OnPage(z, b, PageSize)
      PROVE  FALSE
  <2>1. a * PageSize <= (b - 1) * PageSize
    BY <1>1, <1>2, Multiples
  <2>2. (b - 1) * PageSize < Position(z, i) /\ Position(z, i) <= a * PageSize
    BY <1>2 DEF OnPage
  <2>3. a * PageSize \in Nat /\ (b - 1) * PageSize \in Nat
    BY <1>1
  <2> QED BY <1>1, <2>1, <2>2, <2>3
<1> QED BY <1>2

(* The last page is that of the last record. *)
LEMMA LastPage ==
  ASSUME NEW z, NEW i \in ARecords(z), NEW p \in Nat, p >= TotalPages(z, PageSize)
  PROVE  Position(z, i) <= p * PageSize
<1> DEFINE c == Cardinality(ARecords(z))
           q == (c + PageSize - 1) \div PageSize
<1>1. PageSize \in Nat \ {0} /\ c \in Nat /\ Position(z, i) \in Nat /\ Position(z, i) <= c
  BY SyncCycleAssumption, PositionType
<1>2. q \in Nat /\ c + PageSize - 1 < (q + 1) * PageSize
  BY <1>1
<1>3. (q + 1) * PageSize = q * PageSize + PageSize /\ q * PageSize \in Nat
  BY <1>1, <1>2
<1>4. c <= q * PageSize
  BY <1>1, <1>2, <1>3
<1>5. q * PageSize <= p * PageSize
  BY <1>1, <1>2, Multiples DEF TotalPages
<1>6. p * PageSize \in Nat
  BY <1>1
<1> QED BY <1>1, <1>3, <1>4, <1>5, <1>6

----------------------------------------------------------------------------
(* What a request of the plan does, when and as often as it takes effect. *)

(* The item of a plan with the id of a listed record is about its name. *)
LEMMA ItemOf ==
  ASSUME TypeOK, plan = BuildPlan(desired, listed),
         \A e, f \in listed : e.id = f.id => e = f,
         NEW x \in plan, NEW n \in Managed, NEW e \in Group(listed, n), x.id = e.id
  PROVE  x.name = n /\ x.op = OpFor(e, n, desired, listed)
<1>1. e \in listed /\ KeyOf[e.rec.name] = n /\ e.id # NoId
  BY ZoneAssumption DEF Group, TypeOK, Entries, NoId
<1>2. PICK m \in Managed : \E f \in Group(listed, m) :
        x = [op |-> OpFor(f, m, desired, listed), name |-> m, addr |-> desired[m],
             id |-> f.id, page |-> f.page]
  BY <1>1 DEF BuildPlan
<1>3. PICK f \in Group(listed, m) :
        x = [op |-> OpFor(f, m, desired, listed), name |-> m, addr |-> desired[m],
             id |-> f.id, page |-> f.page]
  BY <1>2
<1>4. f \in listed /\ KeyOf[f.rec.name] = m /\ x.id = f.id
  BY <1>3 DEF Group
<1>5. f = e /\ m = n
  BY <1>1, <1>4
<1> QED BY <1>3, <1>5

(* The record put there is the one wanted. *)
LEMMA PayloadIsRight ==
  ASSUME TypeOK, plan = BuildPlan(desired, listed), NEW x \in plan, Publishes(x)
  PROVE  /\ InScope(Payload(x)) /\ Payload(x) \in Record
         /\ KeyOf[Payload(x).name] = x.name
         /\ x.name \in Managed
         /\ Matches(Payload(x), x.name, desired[x.name])
<1>1. x \in Items /\ x.addr = desired[x.name]
  BY PlanShape DEF TypeOK
<1>2. InScope(Payload(x)) /\ Payload(x) \in Record
  BY <1>1, PayloadInScope DEF Publishes
<1>3. x.name \in Managed /\ KeyOf[x.name] = x.name
  BY <1>1, ZoneAssumption DEF Items
<1> QED BY <1>1, <1>2, <1>3 DEF Payload, Matches

(* A record that is there after the request was as it is now, and not the one
   the request is about, or it is what is wanted. *)
LEMMA EffectOn ==
  ASSUME TypeOK, plan = BuildPlan(desired, listed), NEW x \in plan,
         NEW after \in Outcomes(zone, x, FreshIds),
         NEW i \in Ids, Owned(after, i)
  PROVE  Right(after, i) \/ (after[i] = zone[i] /\ x.id # i)
<1>1. x \in Items /\ zone \in Zones
  BY DEF TypeOK
<1>2. PICK j \in Ids :
        /\ IF x.op = "create" THEN j \in FreshIds ELSE j = x.id /\ zone[j] # NoRecord
        /\ \/ Publishes(x) /\ after = [zone EXCEPT ![j] = Payload(x)]
           \/ x.op = "delete" /\ after = [zone EXCEPT ![j] = NoRecord]
  BY <1>1, FreshAreIds, OutcomeShape
<1>3. x.op = "create" => x.id \notin Ids
  BY <1>1, ZoneAssumption DEF Items, NoId
<1>4. CASE i # j
  BY <1>1, <1>2, <1>3, <1>4 DEF Zones
<1>5. CASE i = j
  <2>1. after[i] = Payload(x) /\ Publishes(x)
    BY <1>1, <1>2, <1>5 DEF Zones, Owned
  <2> QED BY <2>1, PayloadIsRight DEF Right
<1> QED BY <1>4, <1>5

LEMMA EffectKeeps ==
  ASSUME TypeOK, plan = BuildPlan(desired, listed),
         \A e, f \in listed : e.id = f.id => e = f,
         NEW x \in plan, NEW after \in Outcomes(zone, x, FreshIds),
         NEW n \in Managed, NEW e \in listed, desired[n] # NoAddr,
         IsPrimary(e, listed, n, desired[n]), Keeps(zone, e, n)
  PROVE  Keeps(after, e, n)
<1>1. x \in Items /\ zone \in Zones /\ e.id \in Ids
  BY DEF TypeOK, Entries
<1>2. PICK j \in Ids :
        /\ IF x.op = "create" THEN j \in FreshIds ELSE j = x.id /\ zone[j] # NoRecord
        /\ \/ Publishes(x) /\ after = [zone EXCEPT ![j] = Payload(x)]
           \/ x.op = "delete" /\ after = [zone EXCEPT ![j] = NoRecord]
  BY <1>1, FreshAreIds, OutcomeShape
<1>3. CASE e.id # j
  <2>1. after[e.id] = zone[e.id]
    BY <1>1, <1>2, <1>3 DEF Zones
  <2> QED BY <2>1 DEF Keeps, Owned
<1>4. CASE e.id = j
  <2>1. e \in Group(listed, n)
    BY DEF IsPrimary, Candidates
  <2>2. x.op # "create" /\ x.id = e.id
    BY <1>2, <1>4 DEF FreshIds
  <2>3. x.name = n /\ x.op # "delete"
    BY <2>1, <2>2, ItemOf DEF OpFor
  <2>4. Publishes(x) /\ after[e.id] = Payload(x)
    BY <1>1, <1>2, <1>4, <2>3 DEF Zones
  <2> QED
    BY <2>3, <2>4, <1>1, PayloadIsRight, NoRecordAssumption DEF Keeps, Owned
<1> QED BY <1>3, <1>4

LEMMA EffectNew ==
  ASSUME TypeOK, plan = BuildPlan(desired, listed), NEW x \in plan,
         NEW after \in Outcomes(zone, x, FreshIds)
  PROVE  /\ \A n \in Managed : HasNew(zone, n) => HasNew(after, n)
         /\ x.op = "create" => HasNew(after, x.name)
<1>1. x \in Items /\ zone \in Zones
  BY DEF TypeOK
<1>2. PICK j \in Ids :
        /\ IF x.op = "create" THEN j \in FreshIds ELSE j = x.id /\ zone[j] # NoRecord
        /\ \/ Publishes(x) /\ after = [zone EXCEPT ![j] = Payload(x)]
           \/ x.op = "delete" /\ after = [zone EXCEPT ![j] = NoRecord]
  BY <1>1, FreshAreIds, OutcomeShape
<1>3. ASSUME NEW n \in Managed, NEW i \in RecordsOf(zone, n), \A y \in plan : y.id # i
      PROVE  i \in RecordsOf(after, n)
  <2>1. i \in Ids /\ zone[i] # NoRecord /\ i # x.id
    BY <1>3 DEF RecordsOf, Owned
  <2>2. i # j
    BY <1>2, <2>1 DEF FreshIds
  <2>3. after[i] = zone[i]
    BY <1>1, <1>2, <2>1, <2>2 DEF Zones
  <2> QED BY <2>3 DEF RecordsOf, Owned
<1>4. ASSUME x.op = "create" PROVE HasNew(after, x.name)
  <2>1. Publishes(x) /\ after[j] = Payload(x) /\ j \in FreshIds
    BY <1>1, <1>2, <1>4 DEF Zones
  <2>2. j \in RecordsOf(after, x.name)
    BY <2>1, PayloadIsRight, NoRecordAssumption DEF RecordsOf, Owned
  <2> QED BY <2>1, <2>2 DEF HasNew, FreshIds
<1> QED BY <1>3, <1>4 DEF HasNew

----------------------------------------------------------------------------
(* The invariant is one. *)

LEMMA CycleInit == Init => CycleInv
<1> SUFFICES ASSUME Init PROVE CycleFacts
  BY TypeInit DEF CycleInv
<1> QED
  BY DEF Init, CycleFacts, Phases, Pages, Mirror, Made, Distinct, Serving, Cleaning

LEMMA ForgetCycle == Forget => CycleFacts'
BY DEF Forget, CycleFacts, Phases, Pages, Mirror, Made, Distinct, Serving, Cleaning

(* A step that neither the zone nor the cycle has a part in. *)
LEMMA SameCycle ==
  ASSUME CycleFacts,
         UNCHANGED <<zone, dry_run, pc, desired, page, listed, plan, todo, summary, disturbed>>
  PROVE  CycleFacts'
<1>1. Phases' /\ Pages' /\ Made' /\ Distinct'
  BY DEF CycleFacts, Phases, Pages, Made, Distinct
<1>2. Mirror'
  BY DEF CycleFacts, Mirror, OnPage, ARecords, Position
<1>3. Serving'
  BY DEF CycleFacts, Serving, Keeps
<1>4. Cleaning'
  BY DEF CycleFacts, Cleaning, Right, HasItem, HasNew
<1> QED BY <1>1, <1>2, <1>3, <1>4 DEF CycleFacts

(* The listing begins: nothing is before the first page. *)
LEMMA ListingBegins ==
  ASSUME CycleInv, StartSync \/ ReadLeases
  PROVE  CycleFacts'
<1>1. /\ pc' \in {"reading", "listing"} /\ page = 1 /\ listed = {}
      /\ UNCHANGED <<page, listed, plan, todo, summary>>
      /\ plan = {} /\ todo = {} /\ summary = NothingDone
  BY DEF CycleInv, CycleFacts, Phases, StartSync, ReadLeases
<1>2. Phases' /\ Pages'
  BY <1>1 DEF Phases, Pages
<1>3. Mirror'
  <2>1. ASSUME NEW i \in ARecords(zone)', (Position(zone, i) <= (page - 1) * PageSize)'
        PROVE  FALSE
    <3>1. (page' - 1) * PageSize = 0
      BY <1>1, SyncCycleAssumption
    <3>2. Position(zone', i) \in Nat \ {0}
      BY <2>1, PositionType
    <3> QED BY <2>1, <3>1, <3>2
  <2> QED BY <1>1, <2>1 DEF Mirror
<1>4. Made' /\ Distinct' /\ Serving' /\ Cleaning'
  BY <1>1 DEF Made, Distinct, Serving, Cleaning
<1> QED BY <1>2, <1>3, <1>4 DEF CycleFacts

(* What the fetched page adds. *)
LEMMA FetchedMirrors ==
  ASSUME CycleInv, pc = "listing", ~disturbed
  PROVE  /\ \A e \in Fetched :
              e.rec = zone[e.id] /\ e.page \in 1..page
                /\ e.id \in OnPage(zone, e.page, PageSize)
         /\ \A i \in ARecords(zone) :
              Position(zone, i) <= page * PageSize => \E e \in Fetched : e.id = i
<1>1. page \in Nat \ {0} /\ Mirror /\ Pages
  BY DEF CycleInv, CycleFacts, TypeOK
<1>2. ASSUME NEW e \in Fetched
      PROVE  e.rec = zone[e.id] /\ e.page \in 1..page
               /\ e.id \in OnPage(zone, e.page, PageSize)
  BY <1>1 DEF Fetched, Mirror, Pages
<1>3. ASSUME NEW i \in ARecords(zone), Position(zone, i) <= page * PageSize
      PROVE  \E e \in Fetched : e.id = i
  <2>1. CASE Position(zone, i) <= (page - 1) * PageSize
    BY <1>1, <2>1 DEF Mirror, Fetched
  <2>2. CASE ~(Position(zone, i) <= (page - 1) * PageSize)
    <3>1. (page - 1) * PageSize \in Nat /\ Position(zone, i) \in Nat
      BY <1>1, SyncCycleAssumption, PositionType
    <3>2. i \in OnPage(zone, page, PageSize)
      BY <1>3, <2>2, <3>1 DEF OnPage
    <3> DEFINE e == [id |-> i, page |-> page, rec |-> zone[i]]
    <3>3. e \in Fetched /\ e.id = i
      BY <3>2 DEF Fetched
    <3> QED BY <3>3
  <2> QED BY <2>1, <2>2
<1> QED BY <1>2, <1>3

LEMMA FetchKeeps ==
  ASSUME CycleInv, FetchPage
  PROVE  CycleFacts'
<1>1. /\ pc = "listing" /\ listed' = Fetched /\ page' = page + 1 /\ page \in Nat \ {0}
      /\ UNCHANGED <<zone, pc, plan, todo, summary, disturbed>>
  BY DEF FetchPage, world, CycleInv, TypeOK
<1>2. Phases'
  BY <1>1 DEF CycleInv, CycleFacts, Phases
<1>3. Pages'
  <2>1. \A e \in Fetched : e.page \in 1..page
    BY <1>1 DEF Fetched, CycleInv, CycleFacts, Pages
  <2> QED BY <1>1, <2>1 DEF Pages
<1>4. Mirror'
  <2> SUFFICES ASSUME ~disturbed
               PROVE  /\ \A e \in Fetched :
                           e.rec = zone[e.id] /\ e.id \in OnPage(zone, e.page, PageSize)
                      /\ \A i \in ARecords(zone) :
                           Position(zone, i) <= page * PageSize
                             => \E e \in Fetched : e.id = i
    <3>1. page' - 1 = page
      BY <1>1
    <3> QED BY <1>1, <3>1 DEF Mirror, OnPage, ARecords, Position
  <2> QED BY <1>1, FetchedMirrors
<1>5. Made' /\ Distinct' /\ Serving' /\ Cleaning'
  BY <1>1 DEF Made, Distinct, Serving, Cleaning
<1> QED BY <1>2, <1>3, <1>4, <1>5 DEF CycleFacts

(* The plan is made: every record has its item, and no two are for one. *)
LEMMA PlanBegins ==
  ASSUME CycleInv, FetchLastPage
  PROVE  CycleFacts'
<1>1. /\ pc = "listing" /\ pc' = "executing" /\ listed' = Fetched
      /\ plan' = BuildPlan(desired, Fetched) /\ todo' = plan'
      /\ page >= TotalPages(zone, PageSize)
      /\ UNCHANGED <<zone, desired, page, summary, disturbed>>
  BY DEF FetchLastPage, world
<1>2. /\ page \in Nat \ {0} /\ zone \in Zones /\ Fetched \in SUBSET Entries
      /\ desired \in Wants
  BY FetchedType DEF CycleInv, TypeOK
<1>3. Phases' /\ Pages' /\ Mirror' /\ Made'
  <2>1. \A e \in Fetched : e.page \in 1..page
    BY <1>1, <1>2 DEF Fetched, CycleInv, CycleFacts, Pages
  <2> QED BY <1>1, <2>1 DEF Phases, Pages, Mirror, Made
<1>4. Distinct'
  <2> SUFFICES ASSUME ~disturbed, NEW e \in Fetched, NEW f \in Fetched, e.id = f.id
               PROVE  e = f
    BY <1>1 DEF Distinct
  <2>1. /\ e.rec = f.rec /\ e.page \in Nat \ {0} /\ f.page \in Nat \ {0}
        /\ e.id \in OnPage(zone, e.page, PageSize)
        /\ e.id \in OnPage(zone, f.page, PageSize)
    BY <1>1, FetchedMirrors
  <2>2. e.page = f.page
    BY <2>1, OnePage
  <2> QED BY <1>2, <2>1, <2>2 DEF Entries
<1>5. Serving'
  <2> SUFFICES ASSUME ~disturbed, NEW n \in Managed, NEW e \in Fetched,
                      IsPrimary(e, Fetched, n, desired[n])
               PROVE  Keeps(zone, e, n)
    BY <1>1 DEF Serving, Keeps
  <2>1. InScope(e.rec) /\ KeyOf[e.rec.name] = n
    BY DEF IsPrimary, Candidates, Group
  <2>2. e.rec = zone[e.id] /\ zone[e.id] # NoRecord
    BY <1>1, FetchedMirrors DEF OnPage, ARecords
  <2> QED BY <2>1, <2>2 DEF Keeps, Owned
<1>6. Cleaning'
  <2> SUFFICES ASSUME ~disturbed, NEW i \in Ids, Owned(zone, i)
               PROVE  Right(zone, i) \/ \E item \in plan' :
                        item.id = i /\ item.op \in {"update", "delete"}
    BY <1>1 DEF Cleaning, Right, HasItem
  <2> DEFINE n == KeyOf[zone[i].name]
  <2>1. i \in ARecords(zone) /\ zone[i] \in Record
    BY <1>2 DEF ARecords, Owned, InScope, Zones
  <2>2. n \in Managed
    BY <2>1, ZoneAssumption DEF Owned, InScope, Record
  <2>3. PICK e \in Fetched : e.id = i
    BY <1>1, <1>2, <2>1, LastPage, FetchedMirrors
  <2>4. e.rec = zone[i]
    BY <1>1, <2>3, FetchedMirrors
  <2>5. e \in Group(Fetched, n)
    BY <2>3, <2>4 DEF Group, Owned
  <2> DEFINE item == [op |-> OpFor(e, n, desired, Fetched), name |-> n,
                      addr |-> desired[n], id |-> e.id, page |-> e.page]
  <2>6. item \in plan'
    BY <1>1, <2>2, <2>5 DEF BuildPlan
  <2>7. item.op = OpFor(e, n, desired, Fetched) /\ item.id = i
    BY <2>3
  <2>8. CASE OpFor(e, n, desired, Fetched) \in {"update", "delete"}
    BY <2>6, <2>7, <2>8
  <2>9. CASE OpFor(e, n, desired, Fetched) \notin {"update", "delete"}
    BY <2>4, <2>9 DEF OpFor, Right
  <2> QED BY <2>8, <2>9
<1> QED BY <1>3, <1>4, <1>5, <1>6 DEF CycleFacts

(* An attempt: what it does to the zone, and to the items left. *)
LEMMA ItemKeeps ==
  ASSUME CycleInv, pc = "executing", NEW x \in plan,
         zone' = zone \/ zone' \in Outcomes(zone, x, FreshIds),
         UNCHANGED <<pc, desired, page, listed, plan, disturbed>>
  PROVE  Phases' /\ Pages' /\ Mirror' /\ Made' /\ Distinct' /\ Serving'
<1>1. Phases' /\ Pages' /\ Mirror' /\ Made' /\ Distinct'
  BY DEF CycleInv, CycleFacts, Phases, Pages, Mirror, Made, Distinct
<1>2. Serving'
  <2> SUFFICES ASSUME ~disturbed, NEW n \in Managed, NEW e \in listed,
                      desired[n] # NoAddr, IsPrimary(e, listed, n, desired[n])
               PROVE  Keeps(zone', e, n)
    BY DEF Serving, Keeps
  <2>1. /\ TypeOK /\ plan = BuildPlan(desired, listed) /\ Keeps(zone, e, n)
        /\ \A f, g \in listed : f.id = g.id => f = g
    BY DEF CycleInv, CycleFacts, Made, Distinct, Serving
  <2>2. CASE zone' = zone
    BY <2>1, <2>2
  <2>3. CASE zone' \in Outcomes(zone, x, FreshIds)
    BY <2>1, <2>3, EffectKeeps
  <2> QED BY <2>2, <2>3
<1> QED BY <1>1, <1>2

LEMMA ItemCleans ==
  ASSUME CycleInv, pc = "executing", NEW x \in plan,
         zone' = zone \/ zone' \in Outcomes(zone, x, FreshIds),
         UNCHANGED <<pc, desired, page, listed, plan, disturbed, dry_run>>,
         summary'["failed"] = 0 => summary["failed"] = 0,
         \/ todo' = todo
         \/ todo' = todo \ {x} /\ (x.op = "noop" \/ zone' \in Outcomes(zone, x, FreshIds))
         \/ dry_run \/ summary'["failed"] # 0
  PROVE  Cleaning'
<1> SUFFICES ASSUME ~disturbed, ~dry_run, summary'["failed"] = 0
             PROVE  /\ \A i \in Ids : Owned(zone', i) =>
                         Right(zone', i)
                           \/ \E item \in todo' : item.id = i /\ item.op \in {"update", "delete"}
                    /\ \A item \in plan \ todo' : item.op = "create" => HasNew(zone', item.name)
  BY DEF Cleaning, Right, HasItem, HasNew
<1>1. /\ TypeOK /\ plan = BuildPlan(desired, listed) /\ plan \subseteq Items
      /\ \A i \in Ids : Owned(zone, i) => Right(zone, i) \/ HasItem(i)
      /\ \A item \in plan \ todo : item.op = "create" => HasNew(zone, item.name)
  BY DEF CycleInv, CycleFacts, Made, Cleaning, TypeOK
<1>2. ASSUME NEW i \in Ids, Owned(zone', i)
      PROVE  Right(zone', i)
               \/ \E item \in todo' : item.id = i /\ item.op \in {"update", "delete"}
  <2>1. CASE zone' = zone /\ zone' \notin Outcomes(zone, x, FreshIds)
    <3>1. Owned(zone, i) /\ (Right(zone, i) => Right(zone', i))
      BY <1>2, <2>1 DEF Right
    <3>2. ASSUME NEW item \in todo, item.op # "noop" PROVE item \in todo'
      BY <2>1, <3>2
    <3> QED BY <1>1, <3>1, <3>2 DEF HasItem
  <2>2. CASE zone' \in Outcomes(zone, x, FreshIds)
    <3>1. Right(zone', i) \/ (zone'[i] = zone[i] /\ x.id # i)
      BY <1>1, <1>2, <2>2, EffectOn
    <3>2. CASE zone'[i] = zone[i] /\ x.id # i
      <4>1. Owned(zone, i) /\ (Right(zone, i) => Right(zone', i))
        BY <1>2, <3>2 DEF Owned, Right
      <4> QED BY <1>1, <3>2, <4>1 DEF HasItem
    <3> QED BY <3>1, <3>2
  <2> QED BY <2>1, <2>2
<1>3. ASSUME NEW item \in plan \ todo', item.op = "create"
      PROVE  HasNew(zone', item.name)
  <2>1. item.name \in Managed
    BY <1>1 DEF Items
  <2>2. CASE item \in plan \ todo
    BY <1>1, <1>3, <2>1, <2>2, EffectNew
  <2>3. CASE item = x /\ zone' \in Outcomes(zone, x, FreshIds)
    BY <1>1, <1>3, <2>3, EffectNew
  <2> QED BY <1>3, <2>2, <2>3
<1> QED BY <1>2, <1>3

(* Someone else's step: either the cycle is disturbed, or nothing of the zone
   has been looked at yet. *)
LEMMA OthersKeep ==
  ASSUME CycleInv, UNCHANGED <<dry_run, pc, desired, page, listed, plan, todo, summary>>,
         UnderWay => disturbed'
  PROVE  CycleFacts'
<1>1. Phases' /\ Pages' /\ Made'
  BY DEF CycleInv, CycleFacts, Phases, Pages, Made
<1>2. CASE disturbed'
  BY <1>1, <1>2 DEF CycleFacts, Mirror, Distinct, Serving, Cleaning
<1>3. CASE ~UnderWay
  <2>1. pc' # "executing" /\ page = 1 /\ (pc' = "listing" => listed' = {})
    BY <1>3 DEF UnderWay, CycleInv, CycleFacts, TypeOK, Pages
  <2>2. ASSUME NEW i \in ARecords(zone'), Position(zone', i) <= (page - 1) * PageSize
        PROVE  FALSE
    <3>1. (page - 1) * PageSize = 0
      BY <2>1, SyncCycleAssumption
    <3>2. Position(zone', i) \in Nat \ {0}
      BY PositionType
    <3> QED BY <2>2, <3>1, <3>2
  <2>3. Mirror'
    BY <2>1, <2>2 DEF Mirror, ARecords, Position
  <2> QED BY <1>1, <2>1, <2>3 DEF CycleFacts, Distinct, Serving, Cleaning
<1> QED BY <1>2, <1>3

LEMMA CycleStep == CycleInv /\ [Next]_vars => CycleInv'
<1> SUFFICES ASSUME CycleInv, [Next]_vars PROVE CycleFacts'
  BY TypeStep DEF CycleInv
<1>1. CASE StartSync \/ ReadLeases
  BY <1>1, ListingBegins
<1>2. CASE ReadFails \/ ListFails \/ EndSync \/ Crash
  BY <1>2, ForgetCycle DEF ReadFails, ListFails, EndSync, Crash
<1>3. CASE FetchPage
  BY <1>3, FetchKeeps
<1>4. CASE FetchLastPage
  BY <1>4, PlanBegins
<1>5. CASE ListRetry \/ SourceChange \/ UNCHANGED vars
  <2>1. UNCHANGED <<zone, dry_run, pc, desired, page, listed, plan, todo, summary, disturbed>>
    BY <1>5 DEF ListRetry, SourceChange, vars, cycle, world
  <2> QED BY <2>1, SameCycle DEF CycleInv
<1>6. ASSUME NEW item \in todo,
             Skip(item) \/ DryRunItem(item) \/ Complete(item)
               \/ Refuse(item) \/ Retry(item) \/ Fail(item)
      PROVE  CycleFacts'
  <2>1. /\ item \in plan /\ pc = "executing"
        /\ summary \in [Counters -> Nat] /\ item.op \in Ops
    BY <1>6 DEF CycleInv, TypeOK, Items, Skip, DryRunItem, DryCreate, DryUpdate, DryDelete,
                Complete, Refuse, Retry,
                Fail, Sends, Creates, Updates, Deletes, Due
  <2>2. /\ zone' = zone \/ zone' \in Outcomes(zone, item, FreshIds)
        /\ UNCHANGED <<pc, desired, page, listed, plan, disturbed, dry_run>>
    BY <1>6 DEF Skip, DryRunItem, DryCreate, DryUpdate, DryDelete, Complete, Refuse, Retry,
                Fail, Handled, Lost, Applied,
                Delayed, world
  <2>3. ASSUME NEW c \in Counters, Handled(item, c)
        PROVE  /\ todo' = todo \ {item}
               /\ c = "failed" => summary'["failed"] # 0
               /\ c # "failed" => summary'["failed"] = summary["failed"]
    BY <2>1, <2>3 DEF Handled, Counters
  <2>4. item.op # "failed" /\ item.op \in Counters /\ "failed" \in Counters
        /\ "noop" \in Counters
    BY <2>1 DEF Ops, Counters
  <2>5. /\ summary'["failed"] = 0 => summary["failed"] = 0
        /\ \/ todo' = todo
           \/ /\ todo' = todo \ {item}
              /\ item.op = "noop" \/ zone' \in Outcomes(zone, item, FreshIds)
           \/ dry_run \/ summary'["failed"] # 0
    <3>1. CASE Skip(item) \/ DryRunItem(item)
      BY <3>1, <2>3, <2>4 DEF Skip, DryRunItem, DryCreate, DryUpdate, DryDelete
    <3>2. CASE Complete(item)
      BY <3>2, <2>3, <2>4 DEF Complete, Applied
    <3>3. CASE Refuse(item) \/ Fail(item)
      BY <3>3, <2>3, <2>4 DEF Refuse, Fail
    <3>4. CASE Retry(item)
      BY <3>4 DEF Retry
    <3> QED BY <1>6, <3>1, <3>2, <3>3, <3>4
  <2> QED BY <2>1, <2>2, <2>5, ItemKeeps, ItemCleans DEF CycleFacts
<1>7. ASSUME NEW s \in Slots, LateArrives(s) PROVE CycleFacts'
  <2>1. /\ UNCHANGED <<dry_run, pc, desired, page, listed, plan, todo, summary>>
        /\ zone' \in Outcomes(zone, late[s], FreshIds) \cup {zone}
        /\ disturbed' = (disturbed \/ (UnderWay /\ late[s] \notin plan))
    BY <1>7 DEF LateArrives
  <2>2. CASE pc = "executing" /\ late[s] \in plan
    <3>1. disturbed' = disturbed
      BY <2>1, <2>2 DEF CycleInv, TypeOK
    <3> QED BY <2>1, <2>2, <3>1, ItemKeeps, ItemCleans DEF CycleFacts
  <2>3. CASE ~(pc = "executing" /\ late[s] \in plan)
    <3>1. UnderWay => disturbed'
      BY <2>1, <2>3 DEF CycleInv, CycleFacts, Phases
    <3> QED BY <2>1, <3>1, OthersKeep
  <2> QED BY <2>2, <2>3
<1>8. ASSUME NEW i \in Ids, Edit(i) PROVE CycleFacts'
  <2>1. /\ UNCHANGED <<dry_run, pc, desired, page, listed, plan, todo, summary>>
        /\ UnderWay => disturbed'
    BY <1>8 DEF Edit
  <2> QED BY <2>1, OthersKeep
<1> QED
  BY <1>1, <1>2, <1>3, <1>4, <1>5, <1>6, <1>7, <1>8
  DEF Next, Service, CalmStep, TroubledStep, Environment, ZoneMoves

LEMMA CycleAlways == Spec => []CycleInv
BY CycleInit, CycleStep, PTL DEF Spec

----------------------------------------------------------------------------
(* What it gives. *)

(* A name that has candidates keeps the first of them. *)
LEMMA PrimaryKept ==
  ASSUME CycleInv, pc = "executing", ~disturbed, NEW n \in Managed,
         desired[n] # NoAddr, Candidates(listed, n, desired[n]) # {}
  PROVE  \E e \in Candidates(listed, n, desired[n]) : e.id \in Ids /\ Keeps(zone, e, n)
<1>1. Candidates(listed, n, desired[n]) \in SUBSET Entries
  BY DEF Candidates, Group, CycleInv, TypeOK
<1>2. PICK e \in Candidates(listed, n, desired[n]) :
        \A f \in Candidates(listed, n, desired[n]) : ~SortedBefore(f, e)
  BY <1>1, FirstEntry
<1>3. e \in listed /\ e.id \in Ids
  BY <1>1 DEF Candidates, Group, Entries
<1>4. IsPrimary(e, listed, n, desired[n])
  BY <1>2 DEF IsPrimary
<1> QED BY <1>3, <1>4 DEF CycleInv, CycleFacts, Serving

LEMMA NeverVanishesHolds == CycleInv => NeverVanishes
<1> SUFFICES ASSUME CycleInv, pc = "executing", ~disturbed, NEW n \in Managed,
                    desired[n] # NoAddr, Group(listed, n) # {}
             PROVE  RecordsOf(zone, n) # {}
  BY DEF NeverVanishes
<1>1. Candidates(listed, n, desired[n]) # {}
  BY DEF Candidates
<1>2. PICK e \in Candidates(listed, n, desired[n]) : e.id \in Ids /\ Keeps(zone, e, n)
  BY <1>1, PrimaryKept
<1> QED BY <1>2 DEF Keeps, RecordsOf

LEMMA ServesHolds == CycleInv => ServesThroughout
<1> SUFFICES ASSUME CycleInv, pc = "executing", ~disturbed, NEW n \in Managed,
                    desired[n] # NoAddr,
                    NEW f \in listed, Matches(f.rec, n, desired[n])
             PROVE  \E i \in Ids : zone[i] # NoRecord /\ Matches(zone[i], n, desired[n])
  BY DEF ServesThroughout
<1>1. f \in {e \in Group(listed, n) : Matches(e.rec, n, desired[n])}
  BY ZoneAssumption DEF Matches, Group, InScope
<1>2. /\ Candidates(listed, n, desired[n]) # {}
      /\ \A e \in Candidates(listed, n, desired[n]) : Matches(e.rec, n, desired[n])
  BY <1>1 DEF Candidates
<1>3. PICK e \in Candidates(listed, n, desired[n]) : e.id \in Ids /\ Keeps(zone, e, n)
  BY <1>2, PrimaryKept
<1> QED BY <1>2, <1>3 DEF Keeps, Owned

LEMMA CleanCycleHolds == CycleInv => CleanCycleServes
<1> SUFFICES ASSUME CycleInv, pc = "executing", todo = {}, summary["failed"] = 0,
                    ~disturbed, ~dry_run, NEW n \in Managed
             PROVE  /\ \A i \in RecordsOf(zone, n) : Matches(zone[i], n, desired[n])
                    /\ desired[n] # NoAddr => RecordsOf(zone, n) # {}
  BY DEF CleanCycleServes
<1>1. ASSUME NEW i \in RecordsOf(zone, n) PROVE Matches(zone[i], n, desired[n])
  BY <1>1 DEF CycleInv, CycleFacts, Cleaning, HasItem, Right, RecordsOf
<1>2. ASSUME desired[n] # NoAddr PROVE RecordsOf(zone, n) # {}
  <2>1. CASE Group(listed, n) # {}
    BY <1>2, <2>1, NeverVanishesHolds DEF NeverVanishes
  <2>2. CASE Group(listed, n) = {}
    <3> DEFINE new == [op |-> "create", name |-> n, addr |-> desired[n],
                       id |-> NoId, page |-> 0]
    <3>1. new \in plan \ todo
      BY <1>2, <2>2 DEF CycleInv, CycleFacts, Made, BuildPlan
    <3>2. new.op = "create" /\ new.name = n
      OBVIOUS
    <3>3. HasNew(zone, n)
      BY <3>1, <3>2 DEF CycleInv, CycleFacts, Cleaning
    <3> QED BY <3>3 DEF HasNew
  <2> QED BY <2>1, <2>2
<1> QED BY <1>1, <1>2

(* A wanted name that has a record when the zone is listed has one throughout
   the cycle, even if every request fails, is retried or arrives late within
   the cycle, as long as no other writer and no request of an earlier cycle
   touches the zone since the listing began: its record is updated in place. *)
THEOREM NeverVanishesAlways == Spec => []NeverVanishes
BY CycleAlways, NeverVanishesHolds, PTL

(* A name that is resolved rightly when the zone is listed stays so throughout
   the cycle: of its records one that matches is kept. *)
THEOREM ServesThroughoutAlways == Spec => []ServesThroughout
BY CycleAlways, ServesHolds, PTL

(* A cycle whose summary has no failure, in a zone that no one else touched
   meanwhile, has brought every managed name in line. *)
THEOREM CleanCycleAlways == Spec => []CleanCycleServes
BY CycleAlways, CleanCycleHolds, PTL

----------------------------------------------------------------------------
(* The summary. *)

LEMMA PlanFinite ==
  ASSUME CycleInv
  PROVE  IsFiniteSet(plan)
<1>1. CASE pc # "executing"
  BY <1>1, FS_EmptySet DEF CycleInv, CycleFacts, Phases
<1>2. CASE pc = "executing"
  <2>1. /\ plan = BuildPlan(desired, listed) /\ page \in Nat \ {0}
        /\ desired \in Wants /\ listed \in SUBSET Entries
        /\ \A e \in listed : e.page \in 1..page
    BY <1>2 DEF CycleInv, CycleFacts, Made, Pages, TypeOK
  <2>2. ASSUME NEW x \in plan
        PROVE  x \in Items /\ x.addr = desired[x.name] /\ x.page \in 0..page
    <3>1. x.page = 0 \/ \E e \in listed : x.page = e.page
      BY <2>1 DEF BuildPlan, Group
    <3> QED BY <2>1, <3>1, PlanShape
  <2> DEFINE T == (Ops \X Managed) \X ((Ids \cup {NoId}) \X (0..page))
             f == [x \in plan |-> <<<<x.op, x.name>>, <<x.id, x.page>>>>]
  <2>3. ASSUME NEW x \in plan PROVE f[x] \in T
    BY <2>2 DEF Items
  <2>4. ASSUME NEW x \in plan, NEW y \in plan, f[x] = f[y] PROVE x = y
    <3>1. x.op = y.op /\ x.name = y.name /\ x.id = y.id /\ x.page = y.page
      BY <2>4
    <3>2. x.addr = y.addr /\ x \in Items /\ y \in Items
      BY <3>1, <2>2
    <3> QED BY <3>1, <3>2 DEF Items
  <2>5. f \in Injection(plan, T)
    BY <2>3, <2>4 DEF Injection, IsInjective
  <2>6. IsFiniteSet(Ops)
    <3>1. Ops = ((({} \cup {"create"}) \cup {"update"}) \cup {"delete"}) \cup {"noop"}
      BY DEF Ops
    <3> QED BY <3>1, FS_EmptySet, FS_AddElement
  <2>7. IsFiniteSet(Ids \cup {NoId}) /\ IsFiniteSet(0..page)
    <3>1. IsFiniteSet(Ids \cup {NoId})
      BY FiniteAssumption, FS_AddElement
    <3>2. 0 \in Int /\ page \in Int
      BY <2>1
    <3> QED BY <3>1, <3>2, FS_Interval
  <2>8. IsFiniteSet(Ops \X Managed) /\ IsFiniteSet((Ids \cup {NoId}) \X (0..page))
    BY <2>6, <2>7, FiniteAssumption, FS_Product
  <2>9. IsFiniteSet(T)
    BY <2>8, FS_Product
  <2> HIDE DEF T, f
  <2> QED BY <2>5, <2>9, FS_Injection
<1> QED BY <1>1, <1>2

LEMMA CountedInit == Init => Counted
<1> SUFFICES ASSUME Init PROVE Counted
  OBVIOUS
<1>1. /\ plan \ todo = {} /\ \A c \in Ops : DoneOf(c) = {}
      /\ \A c \in Counters : summary[c] = 0
  BY DEF Init, DoneOf, NothingDone
<1> QED BY <1>1, FS_EmptySet DEF Counted, Counters, Ops

LEMMA HandledCounts ==
  ASSUME CycleInv, Counted, NEW item \in todo,
         NEW c \in {"failed", item.op}, Handled(item, c)
  PROVE  Counted'
<1> DEFINE D == plan \ todo
<1>1. /\ item \in plan /\ item \notin D /\ D \subseteq plan /\ item.op \in Ops
      /\ c \in Counters /\ summary \in [Counters -> Nat]
      /\ summary' = [summary EXCEPT ![c] = @ + 1]
      /\ plan' = plan /\ plan' \ todo' = D \cup {item}
  BY DEF Handled, CycleInv, TypeOK, Items, Counters
<1>2. IsFiniteSet(D)
  BY <1>1, PlanFinite, FS_Subset
<1>3. Cardinality(D \cup {item}) = Cardinality(D) + 1 /\ Cardinality(D) \in Nat
  BY <1>1, <1>2, FS_AddElement, FS_CardinalityType
<1>4. /\ \A k \in Counters : summary[k] \in Nat
      /\ \A k \in Counters : summary'[k] = IF k = c THEN summary[k] + 1 ELSE summary[k]
  BY <1>1
<1>5. (summary["failed"] + summary["create"] + summary["update"]
         + summary["delete"] + summary["noop"])' = Cardinality(plan \ todo)'
  <2>1. summary["failed"] + summary["create"] + summary["update"]
          + summary["delete"] + summary["noop"] = Cardinality(D)
    BY DEF Counted
  <2>2. Cardinality(plan \ todo)' = Cardinality(D) + 1
    BY <1>1, <1>3
  <2>3. c \in {"failed", "create", "update", "delete", "noop"}
    BY <1>1 DEF Counters, Ops
  <2>4. /\ summary["failed"] \in Nat /\ summary["create"] \in Nat
        /\ summary["update"] \in Nat /\ summary["delete"] \in Nat
        /\ summary["noop"] \in Nat
    BY <1>4 DEF Counters, Ops
  <2>5. /\ summary'["failed"] = IF c = "failed" THEN summary["failed"] + 1 ELSE summary["failed"]
        /\ summary'["create"] = IF c = "create" THEN summary["create"] + 1 ELSE summary["create"]
        /\ summary'["update"] = IF c = "update" THEN summary["update"] + 1 ELSE summary["update"]
        /\ summary'["delete"] = IF c = "delete" THEN summary["delete"] + 1 ELSE summary["delete"]
        /\ summary'["noop"] = IF c = "noop" THEN summary["noop"] + 1 ELSE summary["noop"]
    BY <1>4 DEF Counters, Ops
  <2>6. /\ (summary["failed"] + summary["create"] + summary["update"]
              + summary["delete"] + summary["noop"])'
             = summary'["failed"] + summary'["create"] + summary'["update"]
                 + summary'["delete"] + summary'["noop"]
    OBVIOUS
  <2> HIDE DEF D
  <2>7. summary'["failed"] + summary'["create"] + summary'["update"]
          + summary'["delete"] + summary'["noop"] = Cardinality(D) + 1
    BY <1>3, <2>1, <2>3, <2>4, <2>5
  <2> QED BY <2>2, <2>6, <2>7
<1>6. ASSUME summary'["failed"] = 0, NEW k \in Ops
      PROVE  summary'[k] = Cardinality(DoneOf(k)')
  <2>1. c = item.op /\ c # "failed" /\ summary["failed"] = 0
    BY <1>1, <1>4, <1>6 DEF Counters
  <2>2. summary[k] = Cardinality(DoneOf(k))
    BY <2>1 DEF Counted
  <2>3. CASE k = c
    <3>1. DoneOf(k)' = DoneOf(k) \cup {item} /\ item \notin DoneOf(k)
      BY <1>1, <2>1, <2>3 DEF DoneOf
    <3>2. IsFiniteSet(DoneOf(k))
      BY <1>2, FS_Subset DEF DoneOf
    <3>3. Cardinality(DoneOf(k)') = Cardinality(DoneOf(k)) + 1
      BY <3>1, <3>2, FS_AddElement
    <3> QED BY <1>4, <2>2, <2>3, <3>3 DEF Counters
  <2>4. CASE k # c
    <3>1. DoneOf(k)' = DoneOf(k)
      BY <1>1, <2>1, <2>4 DEF DoneOf
    <3> QED BY <1>4, <2>2, <2>4, <3>1 DEF Counters
  <2> QED BY <2>3, <2>4
<1> QED BY <1>5, <1>6 DEF Counted

LEMMA CountedStep == CycleInv /\ Counted /\ [Next]_vars => Counted'
<1> SUFFICES ASSUME CycleInv, Counted, [Next]_vars PROVE Counted'
  OBVIOUS
<1>1. ASSUME UNCHANGED <<plan, todo, summary>> PROVE Counted'
  BY <1>1 DEF Counted, DoneOf
<1>2. CASE \/ StartSync \/ ReadLeases \/ FetchPage \/ ListRetry \/ SourceChange
           \/ UNCHANGED vars \/ (\E s \in Slots : LateArrives(s)) \/ \E i \in Ids : Edit(i)
           \/ \E item \in todo : Retry(item)
  BY <1>1, <1>2 DEF StartSync, ReadLeases, FetchPage, ListRetry, SourceChange, vars, cycle,
                    LateArrives, Edit, Retry
<1>3. ASSUME plan' = todo', summary' = NothingDone PROVE Counted'
  <2>1. /\ plan' \ todo' = {} /\ \A c \in Ops : DoneOf(c)' = {}
        /\ \A c \in Counters : summary'[c] = 0
    BY <1>3 DEF DoneOf, NothingDone
  <2> QED BY <2>1, FS_EmptySet DEF Counted, Counters, Ops
<1>4. CASE ReadFails \/ ListFails \/ EndSync \/ Crash \/ FetchLastPage
  BY <1>3, <1>4 DEF ReadFails, ListFails, EndSync, Crash, FetchLastPage, Forget,
                    CycleInv, CycleFacts, Phases
<1>5. ASSUME NEW item \in todo,
             Skip(item) \/ DryRunItem(item) \/ Complete(item) \/ Refuse(item) \/ Fail(item)
      PROVE  Counted'
  <2>1. \E c \in {"failed", item.op} : Handled(item, c)
    BY <1>5 DEF Skip, DryRunItem, DryCreate, DryUpdate, DryDelete, Complete, Refuse, Fail
  <2> QED BY <2>1, HandledCounts
<1> QED
  BY <1>2, <1>4, <1>5 DEF Next, Service, CalmStep, TroubledStep, Environment, ZoneMoves

(* The summary accounts for every action of the plan once, done or failed, and
   when none failed it says how many of each kind were done. *)
THEOREM AccountsAlways == Spec => []AccountsForPlan
<1>1. Spec => []Counted
  BY CycleAlways, CountedInit, CountedStep, PTL DEF Spec
<1>2. Counted => AccountsForPlan
  <2>1. ASSUME todo = {}, NEW c \in Ops
        PROVE  DoneOf(c) = {item \in plan : item.op = c}
    BY <2>1 DEF DoneOf
  <2> QED BY <2>1 DEF Counted, AccountsForPlan, Planned
<1> QED BY <1>1, <1>2, PTL
=============================================================================
