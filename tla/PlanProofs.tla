----------------------------- MODULE PlanProofs -----------------------------
(***************************************************************************)
(* The plans of SyncCycle, for any number of names, records and pages: how *)
(* many writes and deletes a plan has, that a service left alone brings    *)
(* every zone exactly in line and leaves it so, and that a dry run tells   *)
(* what the zone lacks.                                                    *)
(***************************************************************************)
EXTENDS CycleProofs

----------------------------------------------------------------------------
(* The plan in numbers. *)

(* No record is listed twice on one page. *)
OncePerPage == \A e, f \in listed : e.id = f.id /\ e.page = f.page => e = f

LEMMA OncePerPageStep == CycleInv /\ OncePerPage /\ [Next]_vars => OncePerPage'
<1> SUFFICES ASSUME CycleInv, OncePerPage, [Next]_vars PROVE OncePerPage'
  OBVIOUS
<1>1. CASE FetchPage \/ FetchLastPage
  <2>1. listed' = Fetched /\ \A e \in listed : e.page < page
    BY <1>1 DEF FetchPage, FetchLastPage, CycleInv, CycleFacts, Pages, TypeOK
  <2> SUFFICES ASSUME NEW e \in Fetched, NEW f \in Fetched, e.id = f.id, e.page = f.page
               PROVE  e = f
    BY <2>1 DEF OncePerPage
  <2>2. page \in Nat /\ listed \subseteq Entries
    BY DEF CycleInv, TypeOK
  <2>3. CASE e \in listed /\ f \in listed
    BY <2>3 DEF OncePerPage
  <2>4. CASE e \notin listed /\ f \notin listed
    BY <2>4 DEF Fetched
  <2>5. ~(e \in listed /\ f \notin listed) /\ ~(e \notin listed /\ f \in listed)
    BY <2>1, <2>2 DEF Fetched, Entries
  <2> QED BY <2>3, <2>4, <2>5
<1>2. CASE ReadFails \/ ListFails \/ EndSync \/ Crash
  BY <1>2 DEF ReadFails, ListFails, EndSync, Crash, Forget, OncePerPage
<1>3. CASE \/ StartSync \/ ReadLeases \/ ListRetry \/ SourceChange \/ UNCHANGED vars
           \/ (\E s \in Slots : LateArrives(s)) \/ \E i \in Ids : Edit(i)
  BY <1>3 DEF StartSync, ReadLeases, ListRetry, SourceChange, cycle, vars, LateArrives,
              Edit, OncePerPage
<1>4. CASE \E item \in todo :
             \/ Skip(item) \/ DryRunItem(item) \/ Complete(item)
             \/ Refuse(item) \/ Retry(item) \/ Fail(item)
  BY <1>4 DEF Skip, DryRunItem, DryCreate, DryUpdate, DryDelete, Complete, Refuse, Retry,
              Fail, Handled, OncePerPage
<1> QED
  BY <1>1, <1>2, <1>3, <1>4
  DEF Next, Service, CalmStep, TroubledStep, Environment, ZoneMoves

(* Of the entries of a wanted name one is kept, and no more. *)
LEMMA OnePrimary ==
  ASSUME CycleInv, OncePerPage, NEW n \in Managed, Group(listed, n) # {}
  PROVE  \E e \in Candidates(listed, n, desired[n]) :
           \A f : IsPrimary(f, listed, n, desired[n]) <=> f = e
<1> DEFINE C == Candidates(listed, n, desired[n])
<1>1. C \in SUBSET Entries /\ C # {} /\ C \subseteq listed
  BY DEF Candidates, Group, CycleInv, TypeOK
<1>2. PICK e \in C : \A f \in C : ~SortedBefore(f, e)
  BY <1>1, FirstEntry
<1>3. ASSUME NEW f, IsPrimary(f, listed, n, desired[n]) PROVE f = e
  <2>1. f \in C /\ ~SortedBefore(e, f) /\ ~SortedBefore(f, e)
    BY <1>2, <1>3 DEF IsPrimary
  <2>2. e.id \in Nat /\ f.id \in Nat /\ e.page \in Nat /\ f.page \in Nat
    BY <1>1, <2>1, ZoneAssumption DEF Entries
  <2>3. e.id = f.id /\ e.page = f.page
    BY <2>1, <2>2 DEF SortedBefore
  <2> QED BY <1>1, <2>1, <2>3 DEF OncePerPage
<1> QED BY <1>2, <1>3 DEF IsPrimary

(* The item of a listed record. *)
ItemFor(e, n) ==
  [op |-> OpFor(e, n, desired, listed), name |-> n, addr |-> desired[n],
   id |-> e.id, page |-> e.page]
NewItem(n) ==
  [op |-> "create", name |-> n, addr |-> desired[n], id |-> NoId, page |-> 0]

LEMMA ItemsOf ==
  ASSUME CycleInv, pc = "executing", NEW n \in Managed, NEW item
  PROVE  item \in plan /\ item.name = n <=>
           \/ item = NewItem(n) /\ desired[n] # NoAddr /\ Group(listed, n) = {}
           \/ \E e \in Group(listed, n) : item = ItemFor(e, n)
<1>1. plan = BuildPlan(desired, listed)
  BY DEF CycleInv, CycleFacts, Made
<1>2. NewItem(n).name = n /\ \A e : ItemFor(e, n).name = n
  BY DEF NewItem, ItemFor
<1>3. ASSUME item \in plan, item.name = n
      PROVE  \/ item = NewItem(n) /\ desired[n] # NoAddr /\ Group(listed, n) = {}
             \/ \E e \in Group(listed, n) : item = ItemFor(e, n)
  <2>1. CASE \E m \in Managed : desired[m] # NoAddr /\ Group(listed, m) = {} /\ item = NewItem(m)
    BY <1>3, <2>1 DEF NewItem
  <2>2. CASE \E m \in Managed : \E e \in Group(listed, m) : item = ItemFor(e, m)
    BY <1>3, <2>2 DEF ItemFor
  <2> QED BY <1>1, <1>3, <2>1, <2>2 DEF BuildPlan, NewItem, ItemFor
<1>4. ASSUME item = NewItem(n), desired[n] # NoAddr, Group(listed, n) = {} PROVE item \in plan
  BY <1>1, <1>4 DEF BuildPlan, NewItem
<1>5. ASSUME NEW e \in Group(listed, n), item = ItemFor(e, n) PROVE item \in plan
  BY <1>1, <1>5 DEF BuildPlan, ItemFor
<1> QED BY <1>2, <1>3, <1>4, <1>5

(* A listing is finite: an entry of it is known by its id and its page. *)
LEMMA ListedFinite ==
  ASSUME CycleInv, OncePerPage
  PROVE  IsFiniteSet(listed)
<1> DEFINE T == Ids \X (1..page)
           f == [e \in listed |-> <<e.id, e.page>>]
<1>1. f \in Injection(listed, T)
  <2>1. \A e \in listed : f[e] \in T
    BY DEF CycleInv, CycleFacts, Pages, TypeOK, Entries
  <2>2. \A d, e \in listed : f[d] = f[e] => d = e
    BY DEF OncePerPage
  <2> QED BY <2>1, <2>2 DEF Injection, IsInjective
<1>2. IsFiniteSet(1..page)
  <2>1. 1 \in Int /\ page \in Int
    BY DEF CycleInv, TypeOK
  <2> QED BY <2>1, FS_Interval
<1>3. IsFiniteSet(T)
  BY <1>2, FiniteAssumption, FS_Product
<1> HIDE DEF T, f
<1> QED BY <1>1, <1>3, FS_Injection

(* As many records are deleted as are listed and not kept. *)
LEMMA DeletesOf ==
  ASSUME CycleInv, OncePerPage, pc = "executing", NEW n \in Managed
  PROVE  Cardinality(Asked(n, {"delete"})) =
           Cardinality(Group(listed, n))
             - IF desired[n] # NoAddr /\ Group(listed, n) # {} THEN 1 ELSE 0
<1> DEFINE G == Group(listed, n)
           D == {e \in G : OpFor(e, n, desired, listed) = "delete"}
           A == Asked(n, {"delete"})
           f == [e \in D |-> ItemFor(e, n)]
<1>1. IsFiniteSet(G) /\ IsFiniteSet(D) /\ G \subseteq listed
  <2>1. G \in SUBSET listed /\ D \in SUBSET listed
    BY DEF Group
  <2> QED BY <2>1, ListedFinite, FS_Subset
<1>2. Cardinality(A) = Cardinality(D)
  <2>1. ASSUME NEW e \in D PROVE f[e] \in A
    BY <2>1, ItemsOf DEF Asked, ItemFor
  <2>2. ASSUME NEW x \in A PROVE \E e \in D : f[e] = x
    <3>1. x \in plan /\ x.name = n /\ x.op = "delete"
      BY <2>2 DEF Asked
    <3>2. NewItem(n).op # "delete" /\ \A e : ItemFor(e, n).op = OpFor(e, n, desired, listed)
      BY DEF NewItem, ItemFor
    <3>3. PICK e \in G : x = ItemFor(e, n)
      BY <3>1, <3>2, ItemsOf
    <3> QED BY <3>1, <3>2, <3>3
  <2>3. ASSUME NEW d \in D, NEW e \in D, f[d] = f[e] PROVE d = e
    <3>1. d.id = e.id /\ d.page = e.page
      BY <2>3 DEF ItemFor
    <3> QED BY <3>1, <1>1 DEF OncePerPage
  <2>4. f \in Surjection(D, A) /\ f \in Injection(D, A)
    BY <2>1, <2>2, <2>3 DEF Surjection, Injection, IsInjective
  <2> HIDE DEF D, A, f
  <2> QED BY <1>1, <2>4, FS_Surjection
<1>3. CASE desired[n] = NoAddr
  <2>1. D = G
    BY <1>3 DEF OpFor
  <2>2. Cardinality(G) \in Nat
    BY <1>1, FS_CardinalityType
  <2> QED BY <1>2, <1>3, <2>1, <2>2
<1>4. CASE G = {}
  <2>1. D = {}
    BY <1>4
  <2> QED BY <1>2, <1>4, <2>1, FS_EmptySet
<1>5. CASE desired[n] # NoAddr /\ G # {}
  <2>1. PICK e \in Candidates(listed, n, desired[n]) :
          \A g : IsPrimary(g, listed, n, desired[n]) <=> g = e
    BY <1>5, OnePrimary
  <2>2. e \in G
    BY DEF Candidates
  <2>3. D = G \ {e}
    BY <1>5, <2>1 DEF OpFor
  <2>4. Cardinality(D) = Cardinality(G) - 1
    BY <1>1, <2>2, <2>3, FS_RemoveElement
  <2> QED BY <1>2, <1>5, <2>4
<1> QED BY <1>3, <1>4, <1>5

(* A wanted name without a match has one write, any other name none. *)
LEMMA WritesOf ==
  ASSUME CycleInv, OncePerPage, pc = "executing", NEW n \in Managed
  PROVE  Cardinality(Asked(n, {"create", "update"})) =
           IF desired[n] = NoAddr
                \/ (desired[n] # NoAddr /\ \E e \in Group(listed, n) : Matches(e.rec, n, desired[n]))
           THEN 0 ELSE 1
<1> DEFINE G == Group(listed, n)
           A == Asked(n, {"create", "update"})
           hit == desired[n] # NoAddr /\ \E e \in G : Matches(e.rec, n, desired[n])
<1>1. NewItem(n).op = "create" /\ \A e : ItemFor(e, n).op = OpFor(e, n, desired, listed)
  BY DEF NewItem, ItemFor
<1>2. \A x : x \in A <=>
        \/ x = NewItem(n) /\ desired[n] # NoAddr /\ G = {}
        \/ \E e \in G : x = ItemFor(e, n) /\ OpFor(e, n, desired, listed) = "update"
  <2>1. \A x : x \in A <=> x \in plan /\ x.name = n /\ x.op \in {"create", "update"}
    BY DEF Asked
  <2>2. \A e : OpFor(e, n, desired, listed) # "create"
    BY DEF OpFor
  <2> HIDE DEF A, G
  <2>3. ASSUME NEW x
        PROVE  x \in plan /\ x.name = n <=>
                 \/ x = NewItem(n) /\ desired[n] # NoAddr /\ G = {}
                 \/ \E e \in G : x = ItemFor(e, n)
    BY ItemsOf DEF G
  <2> QED BY <1>1, <2>1, <2>2, <2>3
<1>3. CASE desired[n] = NoAddr
  <2>1. A = {}
    BY <1>2, <1>3 DEF OpFor
  <2> QED BY <1>3, <2>1, FS_EmptySet
<1>4. CASE hit
  <2>1. ASSUME NEW e \in G, OpFor(e, n, desired, listed) = "update" PROVE FALSE
    <3>1. e \in Candidates(listed, n, desired[n]) /\ ~Matches(e.rec, n, desired[n])
      BY <2>1 DEF OpFor, IsPrimary
    <3> QED BY <1>4, <3>1 DEF Candidates
  <2>2. A = {}
    BY <1>2, <1>4, <2>1
  <2> QED BY <1>4, <2>2, FS_EmptySet
<1>5. CASE desired[n] # NoAddr /\ ~hit
  <2>1. CASE G = {}
    <3>1. A = {NewItem(n)}
      BY <1>2, <1>5, <2>1
    <3> QED BY <1>5, <3>1, FS_Singleton
  <2>2. CASE G # {}
    <3>1. PICK e \in Candidates(listed, n, desired[n]) :
            \A g : IsPrimary(g, listed, n, desired[n]) <=> g = e
      BY <2>2, OnePrimary
    <3>2. e \in G /\ OpFor(e, n, desired, listed) = "update"
      BY <1>5, <3>1 DEF Candidates, OpFor
    <3>3. \A g \in G : OpFor(g, n, desired, listed) = "update" => g = e
      BY <3>1 DEF OpFor
    <3>4. A = {ItemFor(e, n)}
      BY <1>2, <2>2, <3>2, <3>3
    <3> QED BY <1>5, <3>4, FS_Singleton
  <2> QED BY <2>1, <2>2
<1> QED BY <1>3, <1>4, <1>5

LEMMA MinimalHolds == CycleInv /\ OncePerPage => MinimalPlan
BY DeletesOf, WritesOf DEF MinimalPlan

(* Whatever the zone was like when it was listed and whoever changed it meanwhile,
   the plan has one write for a wanted name none of whose entries matches and no
   other, and as many deletes for a name as it has entries, less one if it is
   wanted.  It is the entries that are counted: one record listed on two pages
   is two of them, of which one may be kept and the other deleted. *)
THEOREM MinimalPlanAlways == Spec => []MinimalPlan
<1>1. Init => OncePerPage
  BY DEF Init, OncePerPage
<1>2. Spec => []OncePerPage
  BY <1>1, CycleAlways, OncePerPageStep, PTL DEF Spec
<1> QED BY CycleAlways, MinimalHolds, <1>2, PTL

----------------------------------------------------------------------------
(* Left alone: no fault, no other writer, leases that stay, no dry run. *)

(* No two actions of a plan are about one record, or make one for a name. *)
LEMMA OneItemEach ==
  ASSUME CycleInv, pc = "executing", ~disturbed, NEW x \in plan, NEW y \in plan,
         x.id = y.id, x.id = NoId => x.name = y.name
  PROVE  x = y
<1>1. /\ x.name \in Managed /\ y.name \in Managed
      /\ \A e, f \in listed : e.id = f.id => e = f
      /\ \A e \in listed : e.id # NoId
  BY ZoneAssumption DEF CycleInv, CycleFacts, Distinct, TypeOK, Items, Entries, NoId
<1>2. \/ x = NewItem(x.name) \/ \E e \in Group(listed, x.name) : x = ItemFor(e, x.name)
  BY <1>1, ItemsOf
<1>3. \/ y = NewItem(y.name) \/ \E e \in Group(listed, y.name) : y = ItemFor(e, y.name)
  BY <1>1, ItemsOf
<1>4. /\ \A n : NewItem(n).id = NoId
      /\ \A e, n : ItemFor(e, n).id = e.id
  BY DEF NewItem, ItemFor
<1>5. CASE x.id = NoId
  <2>1. \A n : \A e \in Group(listed, n) : ItemFor(e, n).id # NoId
    BY <1>1, <1>4 DEF Group
  <2>2. x = NewItem(x.name) /\ y = NewItem(y.name)
    BY <1>2, <1>3, <1>5, <2>1
  <2> QED BY <2>2, <1>5
<1>6. CASE x.id # NoId
  <2>1. PICK e \in Group(listed, x.name) : x = ItemFor(e, x.name)
    BY <1>2, <1>4, <1>6
  <2>2. PICK f \in Group(listed, y.name) : y = ItemFor(f, y.name)
    BY <1>3, <1>4, <1>6
  <2>3. e.id = f.id /\ e \in listed /\ f \in listed
    BY <2>1, <2>2, <1>4 DEF Group
  <2>4. e = f /\ x.name = y.name
    BY <2>1, <2>2, <2>3, <1>1 DEF Group
  <2> QED BY <2>1, <2>2, <2>4
<1> QED BY <1>5, <1>6

(* A record reported as skipped for "no_change" is deleted by the same cycle only
   if another writer or a request of an earlier cycle touched the zone since its
   listing began (sync_drift shows that then it can be): retries and late requests
   of the cycle's own do not bring it about. *)
THEOREM SkippedIsKeptUndisturbed == Spec => [](~disturbed => SkippedIsKept)
<1>1. CycleInv => (~disturbed => SkippedIsKept)
  <2> SUFFICES ASSUME CycleInv, ~disturbed, NEW a \in plan \ todo, NEW b \in plan \ todo,
                      a.op = "noop", b.op = "delete", a.id = b.id
               PROVE  FALSE
    BY DEF SkippedIsKept
  <2>1. a \in Items /\ pc = "executing"
    BY DEF CycleInv, TypeOK, CycleFacts, Phases
  <2>2. a.id # NoId
    BY <2>1 DEF Items
  <2> QED BY <2>1, <2>2, OneItemEach
<1> QED BY <1>1, CycleAlways, PTL

(* What is still to do is still to be done, and of two records of a wanted name
   one is still to be deleted. *)
Tasks ==
  pc = "executing" =>
    /\ \A x \in todo :
         /\ x.op = "create" => RecordsOf(zone, x.name) = {}
         /\ x.op \in {"update", "delete"} => x.id \in RecordsOf(zone, x.name)
         /\ x.op = "update" => ~Matches(zone[x.id], x.name, desired[x.name])
    /\ \A n \in Managed : desired[n] # NoAddr =>
         \A i, j \in RecordsOf(zone, n) :
           i # j => \E x \in todo : x.op = "delete" /\ x.id \in {i, j}

CalmFacts ==
  /\ ~disturbed /\ ~dry_run /\ summary["failed"] = 0
  /\ pc \in {"listing", "executing"} => desired = source
  /\ Tasks
CalmInv == CycleInv /\ OncePerPage /\ CalmFacts

(* The listing is the zone, as it is when the plan is made. *)
Listed ==
  /\ \A e \in listed : e.rec = zone[e.id] /\ zone[e.id] # NoRecord
  /\ \A i \in Ids : Owned(zone, i) => \E e \in listed : e.id = i
JustPlanned == pc = "executing" /\ ~disturbed /\ todo = plan /\ Listed

LEMMA ListedRecords ==
  ASSUME CycleInv, Listed, NEW n \in Managed
  PROVE  /\ \A i \in RecordsOf(zone, n) : \E e \in Group(listed, n) : e.id = i
         /\ \A e \in Group(listed, n) : e.id \in RecordsOf(zone, n) /\ e.rec = zone[e.id]
<1>1. listed \subseteq Entries
  BY DEF CycleInv, TypeOK
<1>2. ASSUME NEW i \in RecordsOf(zone, n) PROVE \E e \in Group(listed, n) : e.id = i
  <2>1. i \in Ids /\ Owned(zone, i) /\ KeyOf[zone[i].name] = n
    BY <1>2 DEF RecordsOf
  <2>2. PICK e \in listed : e.id = i /\ e.rec = zone[i]
    BY <2>1 DEF Listed
  <2> QED BY <2>1, <2>2 DEF Group, Owned
<1>3. ASSUME NEW e \in Group(listed, n)
      PROVE  e.id \in RecordsOf(zone, n) /\ e.rec = zone[e.id]
  <2>1. e \in listed /\ e.id \in Ids /\ InScope(e.rec) /\ KeyOf[e.rec.name] = n
    BY <1>1, <1>3 DEF Group, Entries
  <2> QED BY <2>1 DEF Listed, RecordsOf, Owned
<1> QED BY <1>2, <1>3

LEMMA PlannedTasks == CycleInv /\ OncePerPage /\ JustPlanned => Tasks
<1> SUFFICES ASSUME CycleInv, OncePerPage, JustPlanned PROVE Tasks
  OBVIOUS
<1>1. /\ pc = "executing" /\ todo = plan /\ plan \subseteq Items /\ listed \subseteq Entries
      /\ \A x \in plan : x.name \in Managed
  BY DEF CycleInv, TypeOK, JustPlanned, Items
<1>2. ASSUME NEW n \in Managed
      PROVE  /\ \A i \in RecordsOf(zone, n) : \E e \in Group(listed, n) : e.id = i
             /\ \A e \in Group(listed, n) : e.id \in RecordsOf(zone, n) /\ e.rec = zone[e.id]
  BY ListedRecords DEF JustPlanned
<1>4. ASSUME NEW x \in plan
      PROVE  /\ x.op = "create" => RecordsOf(zone, x.name) = {}
             /\ x.op \in {"update", "delete"} => x.id \in RecordsOf(zone, x.name)
             /\ x.op = "update" => ~Matches(zone[x.id], x.name, desired[x.name])
  <2> DEFINE n == x.name
  <2>1. n \in Managed
    BY <1>1
  <2>2. \/ x = NewItem(n) /\ Group(listed, n) = {}
        \/ \E e \in Group(listed, n) : x = ItemFor(e, n)
    BY <1>1, <2>1, ItemsOf
  <2>3. CASE x = NewItem(n) /\ Group(listed, n) = {}
    <3>1. x.op = "create"
      BY <2>3 DEF NewItem
    <3> QED BY <1>2, <2>1, <2>3, <3>1
  <2>4. ASSUME NEW e \in Group(listed, n), x = ItemFor(e, n)
        PROVE  /\ x.op # "create" /\ x.id \in RecordsOf(zone, n)
               /\ x.op = "update" => ~Matches(zone[x.id], n, desired[n])
    <3>1. x.op = OpFor(e, n, desired, listed) /\ x.id = e.id
      BY <2>4 DEF ItemFor
    <3>2. e.id \in RecordsOf(zone, n) /\ e.rec = zone[e.id]
      BY <1>2, <2>1
    <3> QED BY <3>1, <3>2 DEF OpFor
  <2> QED BY <2>2, <2>3, <2>4
<1>5. ASSUME NEW n \in Managed, desired[n] # NoAddr,
             NEW i \in RecordsOf(zone, n), NEW j \in RecordsOf(zone, n), i # j
      PROVE  \E x \in plan : x.op = "delete" /\ x.id \in {i, j}
  <2>1. PICK e \in Group(listed, n) : e.id = i
    BY <1>2
  <2>2. PICK f \in Group(listed, n) : f.id = j
    BY <1>2
  <2>3. PICK p \in Candidates(listed, n, desired[n]) :
          \A g : IsPrimary(g, listed, n, desired[n]) <=> g = p
    BY <2>1, OnePrimary
  <2>4. PICK g \in {e, f} : g # p
    BY <1>5, <2>1, <2>2
  <2>5. g \in Group(listed, n) /\ g.id \in {i, j} /\ OpFor(g, n, desired, listed) = "delete"
    BY <2>1, <2>2, <2>3, <2>4 DEF OpFor
  <2>6. ItemFor(g, n) \in plan
    BY <1>1, <2>5, ItemsOf
  <2>7. ItemFor(g, n).op = "delete" /\ ItemFor(g, n).id = g.id
    BY <2>5 DEF ItemFor
  <2> QED BY <2>5, <2>6, <2>7
<1> QED BY <1>1, <1>4, <1>5 DEF Tasks

LEMMA PlannedTasksNext == (CycleInv /\ OncePerPage /\ JustPlanned => Tasks)'
BY PlannedTasks, PTL

LEMMA PlanIsRight ==
  ASSUME CycleInv, ~disturbed, FetchLastPage
  PROVE  JustPlanned'
<1>1. /\ pc = "listing" /\ pc' = "executing" /\ listed' = Fetched /\ todo' = plan'
      /\ page >= TotalPages(zone, PageSize) /\ page \in Nat \ {0}
      /\ UNCHANGED <<zone, disturbed>>
  BY DEF FetchLastPage, world, CycleInv, TypeOK
<1>2. \A e \in Fetched : e.rec = zone[e.id] /\ zone[e.id] # NoRecord
  BY <1>1, FetchedMirrors DEF OnPage, ARecords
<1>3. ASSUME NEW i \in Ids, Owned(zone, i) PROVE \E e \in Fetched : e.id = i
  <2>1. i \in ARecords(zone)
    BY <1>3 DEF ARecords, Owned, InScope
  <2> QED BY <1>1, <2>1, LastPage, FetchedMirrors
<1> QED BY <1>1, <1>2, <1>3 DEF JustPlanned, Listed, Owned

(* A request that is done is no longer to be done, and the rest is. *)
LEMMA TasksGoOn ==
  ASSUME CalmInv, NEW x \in todo, Complete(x)
  PROVE  Tasks'
<1> DEFINE n == x.name
<1>1. /\ pc = "executing" /\ ~disturbed /\ todo' = todo \ {x} /\ desired' = desired
      /\ zone' \in Outcomes(zone, x, FreshIds)
      /\ x \in plan /\ x \in Items /\ zone \in Zones /\ todo \subseteq plan
      /\ plan = BuildPlan(desired, listed) /\ TypeOK
  BY DEF CalmInv, CalmFacts, CycleInv, CycleFacts, Made, TypeOK, Complete, Sends, Creates,
         Updates, Deletes, Due, Applied,
         Handled
<1>2. PICK j \in Ids :
        /\ IF x.op = "create" THEN j \in FreshIds ELSE j = x.id /\ zone[j] # NoRecord
        /\ \/ Publishes(x) /\ zone' = [zone EXCEPT ![j] = Payload(x)]
           \/ x.op = "delete" /\ zone' = [zone EXCEPT ![j] = NoRecord]
  BY <1>1, FreshAreIds, OutcomeShape
<1>3. /\ \A i \in Ids : i # j => zone'[i] = zone[i]
      /\ Publishes(x) => zone'[j] = Payload(x)
      /\ x.op = "delete" => zone'[j] = NoRecord
  BY <1>1, <1>2 DEF Zones, Publishes
<1>4. n \in Managed /\ x.op \in {"create", "update", "delete"}
  BY <1>1, <1>2 DEF Items, Publishes
<1>5. Publishes(x) => Owned(zone', j) /\ KeyOf[zone'[j].name] = n
  BY <1>1, <1>3, PayloadIsRight, NoRecordAssumption DEF Owned
<1>6. /\ x.op = "create" => RecordsOf(zone, n) = {} /\ zone[j] = NoRecord
      /\ x.op # "create" => j = x.id /\ j \in RecordsOf(zone, n)
  BY <1>1, <1>2, <1>4 DEF CalmInv, CalmFacts, Tasks, FreshIds
<1>7. ASSUME NEW m \in Managed
      PROVE  RecordsOf(zone', m) =
               IF m # n THEN RecordsOf(zone, m)
               ELSE IF x.op = "delete" THEN RecordsOf(zone, m) \ {j}
               ELSE IF x.op = "create" THEN {j} ELSE RecordsOf(zone, m)
  <2>1. \A i \in Ids : i # j => (i \in RecordsOf(zone', m) <=> i \in RecordsOf(zone, m))
    BY <1>3 DEF RecordsOf, Owned
  <2>2. j \in RecordsOf(zone', m) <=> x.op # "delete" /\ m = n
    BY <1>3, <1>4, <1>5 DEF RecordsOf, Owned, Publishes
  <2>3. j \in RecordsOf(zone, m) <=> x.op # "create" /\ m = n
    BY <1>6 DEF RecordsOf, Owned
  <2>4. RecordsOf(zone', m) \subseteq Ids /\ RecordsOf(zone, m) \subseteq Ids
    BY DEF RecordsOf
  <2> QED BY <1>4, <1>6, <2>1, <2>2, <2>3, <2>4
<1>8. ASSUME NEW y \in todo \ {x}
      PROVE  /\ y.op = "create" => RecordsOf(zone', y.name) = {}
             /\ y.op \in {"update", "delete"} => y.id \in RecordsOf(zone', y.name)
             /\ y.op = "update" => ~Matches(zone'[y.id], y.name, desired[y.name])
  <2>1. /\ y \in plan /\ y \in Items /\ y.name \in Managed
        /\ y.op = "create" => RecordsOf(zone, y.name) = {} /\ y.id = NoId
        /\ y.op \in {"update", "delete"} => y.id \in RecordsOf(zone, y.name)
        /\ y.op = "update" => ~Matches(zone[y.id], y.name, desired[y.name])
    <3>1. y \in todo /\ y \in plan /\ y \in Items
      BY <1>1 DEF TypeOK
    <3>2. y.name \in Managed /\ (y.op = "create" => y.id = NoId)
      BY <3>1 DEF Items
    <3> QED BY <1>1, <3>1, <3>2 DEF CalmInv, CalmFacts, Tasks
  <2>2. ~(y.id = x.id /\ (x.id = NoId => x.name = y.name))
    BY <1>1, <2>1, OneItemEach DEF CalmInv
  <2>3. CASE y.op = "create"
    <3>1. y.name = n => x.op # "create"
      BY <1>1, <2>1, <2>2, <2>3 DEF Items
    <3>2. y.name = n => FALSE
      BY <1>6, <2>1, <2>3, <3>1
    <3> QED BY <1>7, <2>1, <2>3, <3>2
  <2>4. CASE y.op \in {"update", "delete"}
    <3>1. y.id \in RecordsOf(zone, y.name) /\ y.id \in Ids
      BY <2>1, <2>4 DEF RecordsOf
    <3>2. y.id # NoId
      BY <3>1, ZoneAssumption DEF NoId
    <3>3. y.id # j
      <4>1. CASE x.op = "create"
        BY <1>6, <3>1, <4>1 DEF RecordsOf, Owned
      <4>2. CASE x.op # "create"
        BY <1>6, <2>2, <3>2, <4>2
      <4> QED BY <4>1, <4>2
    <3>4. y.id \in RecordsOf(zone', y.name) /\ zone'[y.id] = zone[y.id]
      BY <1>3, <3>1, <3>3 DEF RecordsOf, Owned
    <3> QED BY <2>1, <2>4, <3>4
  <2> QED BY <2>3, <2>4
<1>9. ASSUME NEW m \in Managed, desired[m] # NoAddr,
             NEW i \in RecordsOf(zone', m), NEW k \in RecordsOf(zone', m), i # k
      PROVE  \E y \in todo \ {x} : y.op = "delete" /\ y.id \in {i, k}
  <2>1. ~(m = n /\ x.op = "create")
    BY <1>7, <1>9
  <2>2. i \in RecordsOf(zone, m) /\ k \in RecordsOf(zone, m)
    BY <1>7, <1>9, <2>1
  <2>3. PICK y \in todo : y.op = "delete" /\ y.id \in {i, k}
    BY <1>1, <1>9, <2>2 DEF CalmInv, CalmFacts, Tasks
  <2>4. y # x
    <3>1. ASSUME y = x PROVE FALSE
      <4>1. x.op = "delete" /\ j \in {i, k}
        BY <1>6, <2>3, <3>1
      <4>2. zone'[j] = NoRecord
        BY <1>3, <4>1
      <4> QED BY <1>9, <4>1, <4>2 DEF RecordsOf, Owned
    <3> QED BY <3>1
  <2> QED BY <2>3, <2>4
<1> QED BY <1>1, <1>8, <1>9 DEF Tasks

LEMMA CalmInit == TRUE \notin DryRuns /\ Init => CalmInv
<1> SUFFICES ASSUME TRUE \notin DryRuns, Init PROVE OncePerPage /\ CalmFacts
  BY CycleInit DEF CalmInv
<1>1. dry_run \in BOOLEAN \ {TRUE}
  BY SyncCycleAssumption DEF Init
<1> QED BY <1>1 DEF Init, OncePerPage, CalmFacts, Tasks, NothingDone, Counters

LEMMA CalmKeeps == CalmInv /\ [CalmStep]_vars => CalmInv'
<1> SUFFICES ASSUME CalmInv, [CalmStep]_vars PROVE CalmInv'
  OBVIOUS
<1>1. CycleInv' /\ OncePerPage'
  BY CycleStep, OncePerPageStep DEF CalmInv, Next, Service
<1> SUFFICES CalmFacts'
  BY <1>1 DEF CalmInv
<1>2. CASE StartSync
  BY <1>2 DEF StartSync, world, CalmInv, CalmFacts, Tasks
<1>3. CASE ReadLeases
  BY <1>3 DEF ReadLeases, world, CalmInv, CalmFacts, Tasks
<1>4. CASE FetchPage
  BY <1>4 DEF FetchPage, world, CalmInv, CalmFacts, Tasks
<1>5. CASE FetchLastPage
  <2>1. Tasks'
    BY <1>1, <1>5, PlanIsRight, PlannedTasksNext DEF CalmInv, CalmFacts
  <2> QED BY <1>5, <2>1 DEF FetchLastPage, world, CalmInv, CalmFacts
<1>6. CASE EndSync
  BY <1>6 DEF EndSync, Forget, world, NothingDone, Counters, CalmInv, CalmFacts, Tasks
<1>7. ASSUME NEW x \in todo, Skip(x) \/ DryRunItem(x) \/ Complete(x)
      PROVE  CalmFacts'
  <2>1. /\ x.op \in Ops /\ summary \in [Counters -> Nat] /\ ~DryRunItem(x)
    BY <1>7 DEF CalmInv, CalmFacts, CycleInv, TypeOK, Items, DryRunItem, DryCreate,
                DryUpdate, DryDelete
  <2>2. /\ UNCHANGED <<disturbed, dry_run, pc, desired, source>>
        /\ \E c \in Ops : Handled(x, c)
    BY <1>7, <2>1 DEF Skip, Complete, Handled, world, Ops
  <2>3. summary'["failed"] = summary["failed"]
    BY <2>1, <2>2 DEF Handled, Ops, Counters
  <2>4. CASE Skip(x)
    <3>1. x.op = "noop" /\ zone' = zone /\ todo' = todo \ {x}
      BY <2>4 DEF Skip, Handled, world
    <3>2. Tasks'
      BY <2>2, <3>1 DEF CalmInv, CalmFacts, Tasks
    <3> QED BY <2>2, <2>3, <3>2 DEF CalmInv, CalmFacts
  <2>5. CASE Complete(x)
    BY <2>2, <2>3, <2>5, TasksGoOn DEF CalmInv, CalmFacts
  <2> QED BY <1>7, <2>1, <2>4, <2>5
<1>8. CASE UNCHANGED vars
  BY <1>8 DEF vars, CalmInv, CalmFacts, Tasks
<1> QED
  BY <1>2, <1>3, <1>4, <1>5, <1>6, <1>7, <1>8 DEF CalmStep

(* With nothing left to do the zone is exactly what is wanted. *)
LEMMA CalmReaches == CalmInv => PlanReachesDesired
<1> SUFFICES ASSUME CalmInv, pc = "executing", todo = {}, NEW n \in Managed
             PROVE  IF desired[n] = NoAddr THEN RecordsOf(zone, n) = {}
                    ELSE \E i \in Ids :
                           RecordsOf(zone, n) = {i} /\ Matches(zone[i], n, desired[n])
  BY DEF PlanReachesDesired, InSync
<1>1. /\ \A i \in RecordsOf(zone, n) : Matches(zone[i], n, desired[n])
      /\ desired[n] # NoAddr => RecordsOf(zone, n) # {}
  BY CleanCycleHolds DEF CleanCycleServes, CalmInv, CalmFacts
<1>2. CASE desired[n] = NoAddr
  <2>1. ASSUME NEW i \in RecordsOf(zone, n) PROVE FALSE
    <3>1. zone[i] \in Record
      BY <2>1 DEF RecordsOf, Owned, CalmInv, CycleInv, TypeOK, Zones
    <3> QED BY <1>1, <1>2, <3>1, ZoneAssumption DEF Matches, Record
  <2> QED BY <1>2, <2>1
<1>3. CASE desired[n] # NoAddr
  <2>1. PICK i : i \in RecordsOf(zone, n)
    BY <1>1, <1>3
  <2>2. \A j \in RecordsOf(zone, n) : j = i
    BY <1>3, <2>1 DEF CalmInv, CalmFacts, Tasks
  <2>3. RecordsOf(zone, n) = {i} /\ i \in Ids
    BY <2>1, <2>2 DEF RecordsOf
  <2> QED BY <1>1, <1>3, <2>1, <2>3
<1> QED BY <1>2, <1>3

(* In a zone that is in line there is nothing to do. *)
LEMMA NothingToDo ==
  ASSUME CalmInv, pc = "executing", InSync(zone, desired), NEW x \in todo
  PROVE  x.op = "noop"
<1> DEFINE n == x.name
<1>1. /\ x \in plan /\ x \in Items /\ n \in Managed
      /\ x.op \in {"create", "update", "delete", "noop"}
      /\ x.op # "delete" => x.addr \in Addrs
      /\ x.addr = desired[n] /\ plan = BuildPlan(desired, listed) /\ TypeOK
      /\ \A e, f \in listed : e.id = f.id => e = f
      /\ listed \subseteq Entries /\ ~disturbed
  BY PlanShape
  DEF CalmInv, CalmFacts, CycleInv, CycleFacts, Made, Distinct, TypeOK, Items, Ops
<1>2. /\ desired[n] = NoAddr => RecordsOf(zone, n) = {}
      /\ desired[n] # NoAddr =>
           \E i \in Ids : RecordsOf(zone, n) = {i} /\ Matches(zone[i], n, desired[n])
  BY <1>1 DEF InSync
<1>3. /\ x.op = "create" => RecordsOf(zone, n) = {}
      /\ x.op \in {"update", "delete"} => x.id \in RecordsOf(zone, n)
      /\ x.op = "update" => ~Matches(zone[x.id], n, desired[n])
  BY DEF CalmInv, CalmFacts, Tasks
<1>4. x.op \in {"create", "update"} => desired[n] # NoAddr
  BY <1>1, ZoneAssumption
<1>5. ASSUME x.op = "delete", desired[n] # NoAddr PROVE FALSE
  <2>1. PICK f \in Group(listed, n) : x = ItemFor(f, n)
    <3>1. x # NewItem(n)
      BY <1>5 DEF NewItem
    <3> QED BY <1>1, <3>1, ItemsOf DEF CalmInv
  <2>2. Candidates(listed, n, desired[n]) # {}
    BY <2>1 DEF Candidates
  <2>3. PICK e \in Candidates(listed, n, desired[n]) :
          \A g : IsPrimary(g, listed, n, desired[n]) <=> g = e
    BY <1>1, <2>1, OnePrimary DEF CalmInv
  <2>4. e \in listed /\ e \in Group(listed, n) /\ e.id \in Ids
    BY <1>1 DEF Candidates, Group, Entries
  <2>5. Keeps(zone, e, n)
    BY <1>1, <1>5, <2>3, <2>4 DEF CalmInv, CycleInv, CycleFacts, Serving
  <2>6. e.id \in RecordsOf(zone, n)
    BY <2>4, <2>5 DEF Keeps, RecordsOf
  <2>7. x.id = e.id
    BY <1>2, <1>3, <1>5, <2>6
  <2>8. x.op = OpFor(e, n, desired, listed)
    BY <1>1, <2>4, <2>7, ItemOf
  <2> QED BY <1>5, <2>3, <2>8 DEF OpFor
<1> QED BY <1>1, <1>2, <1>3, <1>4, <1>5

LEMMA CalmStays ==
  ASSUME CalmInv, [CalmStep]_vars, InSync(zone, source)
  PROVE  InSync(zone, source)'
<1>1. UNCHANGED <<zone, source>>
  <2>1. ASSUME NEW x \in todo, Complete(x) PROVE FALSE
    <3>1. pc = "executing" /\ x.op # "noop"
      BY <2>1 DEF Complete, Sends, Creates, Updates, Deletes, Due
    <3>2. desired = source
      BY <3>1 DEF CalmInv, CalmFacts
    <3> QED BY <3>1, <3>2, NothingToDo
  <2> QED
    BY <2>1 DEF CalmStep, StartSync, ReadLeases, FetchPage, FetchLastPage, EndSync, Skip,
                DryRunItem, DryCreate, DryUpdate, DryDelete, world, vars
<1> QED BY <1>1 DEF InSync, RecordsOf, Owned

(* A service left alone: when a cycle is through, the zone has one record for each
   wanted name, that matches, and none for any other. *)
THEOREM PlanReachesAlways == TRUE \notin DryRuns /\ CalmSpec => []PlanReachesDesired
<1>1. TRUE \notin DryRuns /\ CalmSpec => []CalmInv
  BY CalmInit, CalmKeeps, PTL DEF CalmSpec
<1> QED BY <1>1, CalmReaches, PTL

(* A zone once in line is not touched again: no further cycle creates, rewrites
   or deletes anything. *)
THEOREM StaysAlways == TRUE \notin DryRuns /\ CalmSpec => StaysInSync
<1>1. TRUE \notin DryRuns /\ CalmSpec => []CalmInv
  BY CalmInit, CalmKeeps, PTL DEF CalmSpec
<1>2. CalmInv /\ [CalmStep]_vars
        => [InSync(zone, source) => InSync(zone, source)']_vars
  BY CalmStays
<1> QED BY <1>1, <1>2, PTL DEF CalmSpec, StaysInSync

----------------------------------------------------------------------------
(* With DRY_RUN nothing is sent, so that nothing is late either. *)
NothingSent == dry_run => \A s \in Slots : late[s] = NoRequest

LEMMA NothingSentStep == NothingSent /\ [Next]_vars => NothingSent'
<1> SUFFICES ASSUME NothingSent, [Next]_vars PROVE NothingSent'
  OBVIOUS
<1>1. dry_run' = dry_run
  BY DEF Next, Service, CalmStep, TroubledStep, Environment, ZoneMoves, StartSync, ReadLeases,
         ReadFails, FetchPage, FetchLastPage, ListRetry, ListFails, Skip, DryRunItem,
         DryCreate, DryUpdate, DryDelete, Complete,
         Refuse, Retry, Fail, EndSync, Crash, SourceChange, LateArrives, Edit, world, vars
<1>2. dry_run => late' = late
  BY DEF NothingSent, Next, Service, CalmStep, TroubledStep, Environment, ZoneMoves, StartSync,
         ReadLeases, ReadFails, FetchPage, FetchLastPage, ListRetry, ListFails, Skip,
         DryRunItem, DryCreate, DryUpdate, DryDelete,
         Complete, Refuse, Retry, Fail, Sends, Creates, Updates, Deletes, EndSync, Crash,
         SourceChange, LateArrives, Edit,
         world, vars
<1> QED BY <1>1, <1>2 DEF NothingSent

(* As long as no one else touches the zone it stays as a dry run has listed it, and
   nothing fails. *)
DryListed ==
  pc = "executing" /\ dry_run /\ ~disturbed => Listed /\ summary["failed"] = 0

LEMMA DryListedStep ==
  CycleInv /\ NothingSent /\ DryListed /\ [Next]_vars => DryListed'
<1> SUFFICES ASSUME CycleInv, NothingSent, DryListed, [Next]_vars,
                    pc' = "executing", dry_run', ~disturbed'
             PROVE  Listed' /\ summary'["failed"] = 0
  BY DEF DryListed
<1>1. CASE FetchLastPage
  <2>1. ~disturbed /\ summary = NothingDone /\ summary' = summary
    BY <1>1 DEF FetchLastPage, CycleInv, CycleFacts, Phases
  <2>2. Listed'
    BY <1>1, <2>1, PlanIsRight DEF JustPlanned
  <2> QED BY <2>1, <2>2 DEF NothingDone, Counters
<1>2. ASSUME NEW x \in todo,
             \/ Skip(x) \/ DryRunItem(x) \/ Complete(x) \/ Refuse(x) \/ Retry(x) \/ Fail(x)
      PROVE  Listed' /\ summary'["failed"] = 0
  <2>1. pc = "executing" /\ dry_run /\ ~disturbed
    <3>1. UNCHANGED <<pc, dry_run, disturbed>>
      BY <1>2 DEF Skip, DryRunItem, DryCreate, DryUpdate, DryDelete, Complete, Refuse,
                  Retry,
                  Fail, Handled, world
    <3> QED BY <3>1
  <2>2. Skip(x) \/ DryRunItem(x)
    BY <1>2, <2>1 DEF Complete, Refuse, Retry, Fail, Sends, Creates, Updates, Deletes
  <2>3. /\ UNCHANGED <<zone, listed>>
        /\ \E c \in Ops : summary' = [summary EXCEPT ![c] = @ + 1]
    BY <2>2 DEF Skip, DryRunItem, DryCreate, DryUpdate, DryDelete, Handled, world, Ops
  <2>4. summary \in [Counters -> Nat] /\ "failed" \notin Ops /\ "failed" \in Counters
    BY DEF CycleInv, TypeOK, Counters, Ops
  <2>5. summary'["failed"] = summary["failed"]
    BY <2>3, <2>4
  <2> QED BY <2>1, <2>3, <2>5 DEF DryListed, Listed, Owned
<1>3. ASSUME NEW s \in Slots, LateArrives(s) PROVE FALSE
  BY <1>3 DEF NothingSent, LateArrives
<1>4. ASSUME NEW i \in Ids, Edit(i) PROVE FALSE
  BY <1>4 DEF Edit, UnderWay
<1>5. CASE SourceChange \/ UNCHANGED vars
  BY <1>5 DEF SourceChange, cycle, vars, DryListed, Listed, Owned
<1>6. ~(StartSync \/ ReadLeases \/ ReadFails \/ FetchPage \/ ListRetry \/ ListFails \/ EndSync
          \/ Crash)
  BY DEF StartSync, ReadLeases, ReadFails, FetchPage, ListRetry, ListFails, EndSync, Crash, Forget
<1> QED
  BY <1>1, <1>2, <1>3, <1>4, <1>5, <1>6
  DEF Next, Service, CalmStep, TroubledStep, Environment, ZoneMoves

(* A name has one item at most that is not a delete. *)
LEMMA OneReport ==
  ASSUME CycleInv, OncePerPage, pc = "executing", NEW x \in plan, NEW y \in plan,
         x.name = y.name, x.op # "delete", y.op # "delete"
  PROVE  x = y
<1> DEFINE n == x.name
<1>1. n \in Managed
  BY DEF CycleInv, TypeOK, Items
<1>2. /\ (x = NewItem(n) /\ Group(listed, n) = {}) \/ \E e \in Group(listed, n) : x = ItemFor(e, n)
      /\ (y = NewItem(n) /\ Group(listed, n) = {}) \/ \E e \in Group(listed, n) : y = ItemFor(e, n)
  BY <1>1, ItemsOf
<1>3. CASE Group(listed, n) = {}
  BY <1>2, <1>3
<1>4. CASE Group(listed, n) # {}
  <2>1. PICK p : \A f : IsPrimary(f, listed, n, desired[n]) <=> f = p
    <3>1. PICK q \in Candidates(listed, n, desired[n]) :
            \A f : IsPrimary(f, listed, n, desired[n]) <=> f = q
      BY <1>1, <1>4, OnePrimary
    <3> QED BY <3>1
  <2>2. \A e : ItemFor(e, n).op # "delete" => e = p
    BY <2>1 DEF ItemFor, OpFor
  <2> QED BY <1>2, <1>4, <2>2
<1> QED BY <1>3, <1>4

(* What a plan does for a name says how the name stands in the zone listed. *)
LEMMA Reported ==
  ASSUME CycleInv, OncePerPage, Listed, pc = "executing", NEW n \in Managed
  PROVE  /\ n \in Missing <=> \E x \in plan : x.name = n /\ x.op = "create"
         /\ n \in Outdated <=> \E x \in plan : x.name = n /\ x.op = "update"
         /\ n \in Served <=> \E x \in plan : x.name = n /\ x.op = "noop"
<1> DEFINE G == Group(listed, n)
<1>1. /\ \A i \in RecordsOf(zone, n) : \E e \in G : e.id = i
      /\ \A e \in G : e.id \in RecordsOf(zone, n) /\ e.rec = zone[e.id]
  BY ListedRecords
<1>2. ASSUME NEW c
      PROVE  (\E x \in plan : x.name = n /\ x.op = c) <=>
               \/ c = "create" /\ desired[n] # NoAddr /\ G = {}
               \/ \E e \in G : c = OpFor(e, n, desired, listed)
  <2>1. /\ NewItem(n).op = "create"
        /\ \A e : ItemFor(e, n).op = OpFor(e, n, desired, listed)
    BY DEF NewItem, ItemFor
  <2> HIDE DEF G
  <2>2. ASSUME NEW x
        PROVE  x \in plan /\ x.name = n <=>
                 \/ x = NewItem(n) /\ desired[n] # NoAddr /\ G = {}
                 \/ \E e \in G : x = ItemFor(e, n)
    BY ItemsOf DEF G
  <2> QED BY <2>1, <2>2
<1>3. \A e : OpFor(e, n, desired, listed) \in {"update", "delete", "noop"}
  BY DEF OpFor
<1>4. RecordsOf(zone, n) = {} <=> G = {}
  BY <1>1
<1>5. Resolved(n) <=> \E e \in G : Matches(e.rec, n, desired[n])
  BY <1>1 DEF Resolved
<1>6. CASE desired[n] = NoAddr
  <2>1. \A e : OpFor(e, n, desired, listed) = "delete"
    BY <1>6 DEF OpFor
  <2> QED BY <1>2, <1>6, <2>1 DEF Missing, Outdated, Served
<1>7. CASE G = {}
  <2>1. RecordsOf(zone, n) = {} /\ ~Resolved(n)
    BY <1>4, <1>5, <1>7
  <2> QED BY <1>2, <1>7, <2>1 DEF Missing, Outdated, Served
<1>8. CASE desired[n] # NoAddr /\ G # {}
  <2>1. PICK p \in Candidates(listed, n, desired[n]) :
          \A f : IsPrimary(f, listed, n, desired[n]) <=> f = p
    BY <1>8, OnePrimary
  <2>2. p \in G /\ (Matches(p.rec, n, desired[n]) <=> Resolved(n))
    BY <1>5 DEF Candidates
  <2>3. OpFor(p, n, desired, listed) = IF Resolved(n) THEN "noop" ELSE "update"
    BY <1>8, <2>1, <2>2 DEF OpFor
  <2>4. \A e \in G : e # p => OpFor(e, n, desired, listed) = "delete"
    BY <2>1 DEF OpFor
  <2>5. RecordsOf(zone, n) # {}
    BY <1>4, <1>8
  <2> HIDE DEF G
  <2>6. /\ (\E x \in plan : x.name = n /\ x.op = "noop") <=> Resolved(n)
        /\ (\E x \in plan : x.name = n /\ x.op = "update") <=> ~Resolved(n)
        /\ ~(\E x \in plan : x.name = n /\ x.op = "create")
    BY <1>2, <1>3, <1>8, <2>2, <2>3, <2>4
  <2> QED BY <1>8, <2>5, <2>6 DEF Missing, Outdated, Served
<1> QED BY <1>6, <1>7, <1>8

(* As many names as actions of a kind. *)
LEMMA CountNames ==
  ASSUME CycleInv, OncePerPage, pc = "executing", todo = {},
         NEW c \in Ops \ {"delete"}, NEW N \in SUBSET Managed,
         \A n \in Managed : n \in N <=> \E x \in plan : x.name = n /\ x.op = c
  PROVE  Cardinality(DoneOf(c)) = Cardinality(N)
<1> DEFINE D == DoneOf(c)
           f == [x \in D |-> x.name]
<1>1. D = {x \in plan : x.op = c} /\ \A x \in plan : x.name \in Managed
  BY DEF DoneOf, CycleInv, TypeOK, Items
<1>2. IsFiniteSet(D)
  BY <1>1, PlanFinite, FS_Subset
<1>3. \A x \in D : f[x] \in N
  BY <1>1
<1>4. \A n \in N : \E x \in D : f[x] = n
  BY <1>1
<1>5. \A x, y \in D : f[x] = f[y] => x = y
  BY <1>1, OneReport
<1>6. f \in Surjection(D, N) /\ f \in Injection(D, N)
  BY <1>3, <1>4, <1>5 DEF Surjection, Injection, IsInjective
<1> HIDE DEF D, f
<1>7. Cardinality(D) = Cardinality(N)
  BY <1>2, <1>6, FS_Surjection
<1> QED BY <1>7 DEF D

(* As many actions about a record as the zone has records of managed names. *)
LEMMA CountRecords ==
  ASSUME CycleInv, Listed, pc = "executing", ~disturbed
  PROVE  Cardinality({x \in plan : x.id # NoId}) = Cardinality({i \in Ids : Owned(zone, i)})
<1> DEFINE D == {x \in plan : x.id # NoId}
           R == {i \in Ids : Owned(zone, i)}
           f == [x \in D |-> x.id]
<1>1. IsFiniteSet(D)
  BY PlanFinite, FS_Subset
<1>2. ASSUME NEW x \in D PROVE f[x] \in R
  <2>1. x.name \in Managed /\ x.id # NoId
    BY DEF CycleInv, TypeOK, Items
  <2>2. NewItem(x.name).id = NoId /\ \A e : ItemFor(e, x.name).id = e.id
    BY DEF NewItem, ItemFor
  <2>3. PICK e \in Group(listed, x.name) : x.id = e.id
    BY <2>1, <2>2, ItemsOf
  <2>4. x.id \in RecordsOf(zone, x.name)
    BY <2>1, <2>3, ListedRecords
  <2> QED BY <2>4 DEF RecordsOf
<1>3. ASSUME NEW i \in R PROVE \E x \in D : f[x] = i
  <2> DEFINE n == KeyOf[zone[i].name]
  <2>1. zone[i] \in Record
    BY DEF Owned, CycleInv, TypeOK, Zones
  <2>2. n \in Managed /\ i \in RecordsOf(zone, n) /\ i # NoId
    BY <2>1, ZoneAssumption DEF Record, Owned, InScope, RecordsOf, NoId
  <2>3. PICK e \in Group(listed, n) : e.id = i
    BY <2>2, ListedRecords
  <2>4. ItemFor(e, n) \in plan /\ ItemFor(e, n).id = i
    BY <2>2, <2>3, ItemsOf DEF ItemFor
  <2> QED BY <2>2, <2>4
<1>4. \A x, y \in D : f[x] = f[y] => x = y
  BY OneItemEach
<1>5. f \in Surjection(D, R) /\ f \in Injection(D, R)
  BY <1>2, <1>3, <1>4 DEF Surjection, Injection, IsInjective
<1> HIDE DEF D, R, f
<1>6. Cardinality(D) = Cardinality(R)
  BY <1>1, <1>5, FS_Surjection
<1> QED BY <1>6 DEF D, R

LEMMA ForetellsHolds ==
  ASSUME CycleInv, OncePerPage, Counted, DryListed
  PROVE  DryRunForetells
<1> SUFFICES ASSUME pc = "executing", todo = {}, dry_run, ~disturbed
             PROVE  /\ summary["create"] = Cardinality(Missing)
                    /\ summary["update"] = Cardinality(Outdated)
                    /\ summary["noop"] = Cardinality(Served)
                    /\ summary["delete"] = Cardinality({i \in Ids : Owned(zone, i)})
                                             - Cardinality(Outdated) - Cardinality(Served)
                    /\ summary["failed"] = 0
  BY DEF DryRunForetells
<1>1. Listed /\ summary["failed"] = 0
  BY DEF DryListed
<1>2. \A c \in Ops : summary[c] = Cardinality(DoneOf(c)) /\ summary[c] \in Nat
  BY <1>1 DEF Counted, CycleInv, TypeOK, Counters
<1>3. /\ Cardinality(DoneOf("create")) = Cardinality(Missing)
      /\ Cardinality(DoneOf("update")) = Cardinality(Outdated)
      /\ Cardinality(DoneOf("noop")) = Cardinality(Served)
  <2>1. /\ Missing \in SUBSET Managed /\ Outdated \in SUBSET Managed
        /\ Served \in SUBSET Managed /\ {"create", "update", "noop"} \subseteq Ops \ {"delete"}
    BY DEF Missing, Outdated, Served, Ops
  <2>2. \A n \in Managed :
          /\ n \in Missing <=> \E x \in plan : x.name = n /\ x.op = "create"
          /\ n \in Outdated <=> \E x \in plan : x.name = n /\ x.op = "update"
          /\ n \in Served <=> \E x \in plan : x.name = n /\ x.op = "noop"
    BY <1>1, Reported
  <2> QED BY <2>1, <2>2, CountNames
<1>4. Cardinality(plan) = summary["create"] + summary["update"] + summary["delete"]
                            + summary["noop"]
  <2>1. plan \ todo = plan
    OBVIOUS
  <2>2. /\ summary["create"] \in Nat /\ summary["update"] \in Nat
        /\ summary["delete"] \in Nat /\ summary["noop"] \in Nat
    BY <1>2 DEF Ops
  <2> QED BY <1>1, <2>1, <2>2 DEF Counted
<1>5. Cardinality({i \in Ids : Owned(zone, i)}) = Cardinality(plan) - summary["create"]
  <2>1. /\ {x \in plan : x.id # NoId} = plan \ DoneOf("create")
        /\ plan \cap DoneOf("create") = DoneOf("create")
    BY DEF CycleInv, TypeOK, Items, DoneOf
  <2>2. Cardinality(plan \ DoneOf("create")) = Cardinality(plan) - Cardinality(DoneOf("create"))
    BY <2>1, PlanFinite, FS_Difference
  <2> QED BY <1>1, <1>2, <2>1, <2>2, CountRecords DEF Ops
<1>6. summary["update"] \in Nat /\ summary["noop"] \in Nat /\ summary["delete"] \in Nat
      /\ summary["create"] \in Nat
  BY <1>2 DEF Ops
<1> QED BY <1>1, <1>2, <1>3, <1>4, <1>5, <1>6 DEF Ops

(* README: "Dry run computes the same plan and logs planned actions without
   calling Cloudflare mutation endpoints": the summary of a dry run, when no one
   else touched the zone meanwhile, is what the zone lacks, which is as it was. *)
THEOREM DryRunForetellsAlways == Spec => []DryRunForetells
<1>1. Init => OncePerPage /\ NothingSent /\ DryListed
  BY DEF Init, OncePerPage, NothingSent, DryListed
<1>2. Spec => [](CycleInv /\ OncePerPage /\ Counted /\ NothingSent /\ DryListed)
  BY <1>1, CycleInit, CycleStep, OncePerPageStep, CountedInit, CountedStep, NothingSentStep,
     DryListedStep, PTL DEF Spec
<1>3. CycleInv /\ OncePerPage /\ Counted /\ NothingSent /\ DryListed => DryRunForetells
  BY ForetellsHolds
<1> QED BY <1>2, <1>3, PTL
=============================================================================
