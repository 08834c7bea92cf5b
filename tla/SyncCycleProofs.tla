-------------------------- MODULE SyncCycleProofs --------------------------
(***************************************************************************)
(* What SyncCycle keeps for every zone, set of records, number of retries  *)
(* and plan: it is well typed, and it never touches a record that is not   *)
(* its own.  The second rests on an invariant of the references it holds:  *)
(* between listing and request the zone changes, but no id it holds can    *)
(* come to stand for a record outside its scope.                           *)
(***************************************************************************)
EXTENDS SyncCycle, TLAPS

----------------------------------------------------------------------------
(* Facts of the zone and the planner. *)

(* The body of a request that publishes is a record of the managed scope. *)
LEMMA PayloadInScope ==
  ASSUME NEW item \in Items, item.op # "delete"
  PROVE  Payload(item) \in Record /\ InScope(Payload(item))
<1>1. item.name \in RawNames /\ item.addr \in Addrs /\ item.name \in Managed
  BY ZoneAssumption DEF Items
<1>2. KeyOf[item.name] = item.name /\ item.name # NotManaged
  BY <1>1, ZoneAssumption
<1> QED BY <1>1, <1>2 DEF Payload, Record, Types, Opts, InScope

(* A request that the server performs changes one record: the id it names, or a
   fresh one for a create; it puts the payload there or deletes it. *)
LEMMA OutcomeShape ==
  ASSUME NEW z \in Zones, NEW item \in Items, NEW unused \in SUBSET Ids,
         NEW after \in Outcomes(z, item, unused)
  PROVE  \E i \in Ids :
           /\ IF item.op = "create" THEN i \in unused
              ELSE i = item.id /\ z[i] # NoRecord
           /\ \/ /\ Publishes(item)
                 /\ after = [z EXCEPT ![i] = Payload(item)]
              \/ item.op = "delete" /\ after = [z EXCEPT ![i] = NoRecord]
<1>1. item.op \in Ops
  BY DEF Items
<1>2. CASE item.op = "create"
  BY <1>2 DEF Outcomes, Publishes
<1>3. CASE item.op = "update"
  BY <1>3 DEF Outcomes, Publishes
<1>4. CASE item.op = "delete"
  BY <1>4 DEF Outcomes, Publishes
<1>5. CASE item.op = "noop"
  BY <1>5 DEF Outcomes, Publishes
<1> QED BY <1>1, <1>2, <1>3, <1>4, <1>5 DEF Ops

LEMMA OutcomeType ==
  ASSUME NEW z \in Zones, NEW item \in Items, NEW unused \in SUBSET Ids,
         NEW after \in Outcomes(z, item, unused)
  PROVE  after \in Zones
<1>1. PICK i \in Ids :
        \/ Publishes(item) /\ after = [z EXCEPT ![i] = Payload(item)]
        \/ item.op = "delete" /\ after = [z EXCEPT ![i] = NoRecord]
  BY OutcomeShape
<1>2. CASE Publishes(item) /\ after = [z EXCEPT ![i] = Payload(item)]
  <2>1. Payload(item) \in Record
    BY <1>2, PayloadInScope DEF Publishes
  <2> QED BY <1>2, <2>1 DEF Zones
<1>3. CASE item.op = "delete" /\ after = [z EXCEPT ![i] = NoRecord]
  BY <1>3 DEF Zones
<1> QED BY <1>1, <1>2, <1>3

(* What the server does for the service never makes a record unsafe: it leaves
   it alone, deletes it or brings it into the managed scope. *)
LEMMA OutcomeSafe ==
  ASSUME NEW z \in Zones, NEW item \in Items, NEW unused \in SUBSET Ids,
         NEW after \in Outcomes(z, item, unused), NEW i \in Ids,
         z[i] = NoRecord \/ InScope(z[i])
  PROVE  after[i] = NoRecord \/ InScope(after[i])
<1>1. PICK j \in Ids :
        \/ Publishes(item) /\ after = [z EXCEPT ![j] = Payload(item)]
        \/ item.op = "delete" /\ after = [z EXCEPT ![j] = NoRecord]
  BY OutcomeShape
<1>2. CASE Publishes(item) /\ after = [z EXCEPT ![j] = Payload(item)]
  <2>1. InScope(Payload(item))
    BY <1>2, PayloadInScope DEF Publishes
  <2>2. after[i] = IF i = j THEN Payload(item) ELSE z[i]
    BY <1>2 DEF Zones
  <2> QED BY <2>1, <2>2
<1>3. CASE item.op = "delete" /\ after = [z EXCEPT ![j] = NoRecord]
  <2>1. after[i] = IF i = j THEN NoRecord ELSE z[i]
    BY <1>3 DEF Zones
  <2> QED BY <2>1
<1> QED BY <1>1, <1>2, <1>3

(* Each action of a plan either creates a record for a wanted name without one,
   or is about a listed record in the managed scope, of that name. *)
LEMMA PlanShape ==
  ASSUME NEW want \in Wants, NEW listing \in SUBSET Entries,
         NEW item \in BuildPlan(want, listing)
  PROVE  /\ item \in Items
         /\ item.addr = want[item.name]
         /\ item.id # NoId => \E e \in listing : InScope(e.rec) /\ e.id = item.id
<1>1. CASE \E n \in Managed :
             /\ want[n] # NoAddr
             /\ item = [op |-> "create", name |-> n, addr |-> want[n],
                        id |-> NoId, page |-> 0]
  <2>1. PICK n \in Managed :
          /\ want[n] # NoAddr
          /\ item = [op |-> "create", name |-> n, addr |-> want[n],
                     id |-> NoId, page |-> 0]
    BY <1>1
  <2>2. want[n] \in Addrs
    BY <2>1 DEF Wants
  <2> QED BY <2>1, <2>2 DEF Items, Ops
<1>2. CASE \E n \in Managed : \E e \in Group(listing, n) :
             item = [op |-> OpFor(e, n, want, listing), name |-> n,
                     addr |-> want[n], id |-> e.id, page |-> e.page]
  <2>0. PICK n \in Managed : \E e \in Group(listing, n) :
          item = [op |-> OpFor(e, n, want, listing), name |-> n,
                  addr |-> want[n], id |-> e.id, page |-> e.page]
    BY <1>2
  <2>1. PICK e \in Group(listing, n) :
          item = [op |-> OpFor(e, n, want, listing), name |-> n,
                  addr |-> want[n], id |-> e.id, page |-> e.page]
    BY <2>0
  <2>2. e \in listing /\ InScope(e.rec) /\ e.id \in Ids /\ e.page \in Nat
    BY DEF Group, Entries
  <2>3. e.id # NoId
    BY <2>2, ZoneAssumption DEF NoId
  <2>4. OpFor(e, n, want, listing) \in {"update", "delete", "noop"}
    BY DEF OpFor
  <2>5. want[n] \in Addrs \cup {NoAddr}
    BY DEF Wants
  <2>6. OpFor(e, n, want, listing) # "delete" => want[n] \in Addrs
    BY <2>5 DEF OpFor
  <2>7. item.op = OpFor(e, n, want, listing) /\ item.name = n /\ item.addr = want[n]
        /\ item.id = e.id /\ item.page = e.page
    BY <2>1
  <2>8. item \in Items
    BY <2>1, <2>2, <2>3, <2>4, <2>5, <2>6 DEF Items, Ops
  <2> QED BY <2>2, <2>7, <2>8
<1> QED BY <1>1, <1>2 DEF BuildPlan

----------------------------------------------------------------------------
(* Type correctness. *)

LEMMA FreshAreIds == FreshIds \in SUBSET Ids
BY DEF FreshIds

(* What the other writers and the leases hold, as the steps leave it. *)
LEMMA ForgetType ==
  ASSUME TypeOK, Forget, UNCHANGED world
  PROVE  TypeOK'
<1>1. NoWant \in Wants
  BY DEF NoWant, Wants
<1>2. NothingDone \in [Counters -> Nat]
  BY DEF NothingDone
<1>3. 1 \in 1..MaxRetries
  BY SyncCycleAssumption
<1>4. disturbed' \in BOOLEAN
  BY DEF Forget
<1>5. zone' \in Zones /\ late' \in [Slots -> Items \cup {NoRequest}] /\ edits' \in Nat
      /\ source' \in Wants /\ leased' \subseteq Managed \X Addrs
  BY DEF world, TypeOK
<1>6. dry_run' \in BOOLEAN
  BY DEF world, TypeOK
<1> QED BY <1>1, <1>2, <1>3, <1>4, <1>5, <1>6 DEF TypeOK, Forget

(* The listing stays a set of entries. *)
LEMMA FetchedType ==
  ASSUME TypeOK
  PROVE  Fetched \subseteq Entries
<1> SUFFICES ASSUME NEW i \in OnPage(zone, page, PageSize)
             PROVE  [id |-> i, page |-> page, rec |-> zone[i]] \in Entries
  BY DEF Fetched, TypeOK
<1>1. i \in Ids /\ zone[i] # NoRecord
  BY DEF OnPage, ARecords
<1>2. zone[i] \in Record
  BY <1>1 DEF TypeOK, Zones
<1> QED BY <1>1, <1>2 DEF Entries, TypeOK

(* One attempt of a request leaves a zone and a set of requests, whatever
   becomes of it. *)
LEMMA AttemptType ==
  ASSUME TypeOK, NEW item \in Items, Lost \/ Applied(item) \/ Delayed(item)
  PROVE  zone' \in Zones /\ late' \in [Slots -> Items \cup {NoRequest}]
<1>1. CASE Lost
  BY <1>1 DEF Lost, TypeOK
<1>2. CASE Applied(item)
  <2>1. zone' \in Outcomes(zone, item, FreshIds) /\ late' = late
    BY <1>2 DEF Applied
  <2>2. zone \in Zones
    BY DEF TypeOK
  <2>3. zone' \in Zones
    BY <2>1, <2>2, FreshAreIds, OutcomeType
  <2> QED BY <2>1, <2>3 DEF TypeOK
<1>3. CASE Delayed(item)
  BY <1>3 DEF Delayed, TypeOK
<1> QED BY <1>1, <1>2, <1>3

LEMMA HandledType ==
  ASSUME TypeOK, NEW item \in todo, NEW c \in Counters, Handled(item, c)
  PROVE  /\ pc' \in {"idle", "reading", "listing", "executing"}
         /\ desired' \in Wants
         /\ page' \in Nat \ {0}
         /\ listed' \subseteq Entries
         /\ attempt' \in 1..MaxRetries
         /\ plan' \subseteq Items
         /\ todo' \subseteq plan'
         /\ summary' \in [Counters -> Nat]
         /\ disturbed' \in BOOLEAN
<1>1. 1 \in 1..MaxRetries
  BY SyncCycleAssumption
<1>2. summary' \in [Counters -> Nat]
  BY DEF Handled, TypeOK
<1> QED BY <1>1, <1>2 DEF Handled, TypeOK

LEMMA TypeInit == Init => TypeOK
<1> SUFFICES ASSUME Init PROVE TypeOK
  OBVIOUS
<1>1. NoWant \in Wants
  BY DEF NoWant, Wants
<1>2. NothingDone \in [Counters -> Nat]
  BY DEF NothingDone
<1>3. 1 \in 1..MaxRetries
  BY SyncCycleAssumption
<1>4. zone \in Zones /\ source \in Wants /\ leased \subseteq Managed \X Addrs
  BY SyncCycleAssumption DEF Init, PairsOf
<1>5. disturbed \in BOOLEAN
  BY DEF Init
<1>6. late \in [Slots -> Items \cup {NoRequest}]
  BY DEF Init
<1>7. dry_run \in BOOLEAN
  BY SyncCycleAssumption DEF Init
<1> QED BY <1>1, <1>2, <1>3, <1>4, <1>5, <1>6, <1>7 DEF Init, TypeOK

LEMMA TypeStep == TypeOK /\ [Next]_vars => TypeOK'
<1> SUFFICES ASSUME TypeOK, [Next]_vars PROVE TypeOK'
  OBVIOUS
<1>1. CASE StartSync
  BY <1>1 DEF StartSync, TypeOK, world
<1>2. CASE ReadLeases
  BY <1>2 DEF ReadLeases, TypeOK, world
<1>3. CASE ReadFails
  BY <1>3, ForgetType DEF ReadFails
<1>4. CASE FetchPage
  <2>1. 1 \in 1..MaxRetries
    BY SyncCycleAssumption
  <2>2. page + 1 \in Nat \ {0}
    BY DEF TypeOK
  <2> QED BY <1>4, <2>1, <2>2, FetchedType DEF FetchPage, TypeOK, world
<1>5. CASE FetchLastPage
  <2>1. 1 \in 1..MaxRetries
    BY SyncCycleAssumption
  <2>2. listed' \in SUBSET Entries /\ desired \in Wants
    BY <1>5, FetchedType DEF FetchLastPage, TypeOK
  <2>3. plan' \subseteq Items /\ todo' = plan'
    BY <1>5, <2>2, PlanShape DEF FetchLastPage
  <2> QED BY <1>5, <2>1, <2>2, <2>3 DEF FetchLastPage, TypeOK, world
<1>6. CASE ListRetry
  BY <1>6, SyncCycleAssumption DEF ListRetry, TypeOK, world
<1>7. CASE ListFails
  BY <1>7, ForgetType DEF ListFails
<1>8. ASSUME NEW item \in todo,
             Skip(item) \/ DryRunItem(item) \/ Complete(item)
               \/ Refuse(item) \/ Retry(item) \/ Fail(item)
      PROVE  TypeOK'
  <2>1. item \in Items /\ item.op \in Counters /\ "failed" \in Counters
        /\ "noop" \in Counters
    BY DEF TypeOK, Items, Counters, Ops
  <2>2. CASE Skip(item)
    BY <2>1, <2>2, HandledType DEF Skip, TypeOK, world
  <2>3. CASE DryRunItem(item)
    BY <2>1, <2>3, HandledType DEF DryRunItem, DryCreate, DryUpdate, DryDelete, TypeOK,
                                   world
  <2>4. CASE Complete(item)
    BY <2>1, <2>4, HandledType, AttemptType DEF Complete, TypeOK
  <2>5. CASE Refuse(item)
    BY <2>1, <2>5, HandledType DEF Refuse, TypeOK, world
  <2>6. CASE Retry(item)
    <3>1. attempt' \in 1..MaxRetries
      BY <2>6, SyncCycleAssumption DEF Retry, TypeOK
    <3> QED BY <2>1, <2>6, <3>1, AttemptType DEF Retry, TypeOK
  <2>7. CASE Fail(item)
    BY <2>1, <2>7, HandledType, AttemptType DEF Fail, TypeOK
  <2> QED BY <1>8, <2>2, <2>3, <2>4, <2>5, <2>6, <2>7
<1>9. CASE EndSync
  BY <1>9, ForgetType DEF EndSync
<1>10. CASE Crash
  BY <1>10, ForgetType DEF Crash
<1>11. CASE SourceChange
  BY <1>11, SyncCycleAssumption DEF SourceChange, TypeOK, PairsOf, cycle
<1>12. ASSUME NEW s \in Slots, LateArrives(s) PROVE TypeOK'
  <2>1. late[s] \in Items /\ zone \in Zones
    BY <1>12 DEF LateArrives, TypeOK
  <2>2. zone' \in Zones
    BY <1>12, <2>1, FreshAreIds, OutcomeType DEF LateArrives
  <2>3. disturbed' \in BOOLEAN
    BY <1>12 DEF LateArrives
  <2> QED BY <1>12, <2>2, <2>3 DEF LateArrives, TypeOK
<1>13. ASSUME NEW i \in Ids, Edit(i) PROVE TypeOK'
  <2>1. zone' \in Zones
    BY <1>13, SyncCycleAssumption DEF Edit, TypeOK, Zones
  <2>2. disturbed' \in BOOLEAN /\ edits' \in Nat
    BY <1>13 DEF Edit, TypeOK
  <2> QED BY <1>13, <2>1, <2>2 DEF Edit, TypeOK
<1>14. CASE UNCHANGED vars
  BY <1>14 DEF vars, TypeOK
<1> QED
  BY <1>1, <1>2, <1>3, <1>4, <1>5, <1>6, <1>7, <1>8, <1>9, <1>10, <1>11, <1>12,
     <1>13, <1>14
  DEF Next, Service, CalmStep, TroubledStep, Environment, ZoneMoves

(* Every variable of the service keeps its type: in particular no request ever
   publishes NoAddr, and no attempt exceeds MaxRetries. *)
THEOREM TypeCorrect == Spec => []TypeOK
BY TypeInit, TypeStep, PTL DEF Spec

----------------------------------------------------------------------------
(* What the service holds: ids that stand for records of its own, and addresses
   that were leased.  Each is inductive together with the types; the ids only as
   long as no other writer renames a record into or out of the managed suffix. *)

LEMMA AttemptSafe ==
  ASSUME TypeOK, NEW item \in Items, Lost \/ Applied(item) \/ Delayed(item),
         NEW i \in Ids, SafeId(i)
  PROVE  SafeId(i)'
<1>1. CASE Lost \/ Delayed(item)
  BY <1>1 DEF Lost, Delayed, SafeId
<1>2. CASE Applied(item)
  <2>1. zone' \in Outcomes(zone, item, FreshIds) /\ zone \in Zones
    BY <1>2 DEF Applied, TypeOK
  <2>2. zone'[i] = NoRecord \/ InScope(zone'[i])
    BY <2>1, FreshAreIds, OutcomeSafe DEF SafeId
  <2> QED BY <2>2 DEF SafeId
<1> QED BY <1>1, <1>2

(* A step that makes no safe id unsafe and refers to nothing new. *)
LEMMA HoldsOwnIdsMonotone ==
  ASSUME TypeOK, HoldsOwnIds,
         \A i \in Ids : SafeId(i) => SafeId(i)',
         listed' \subseteq listed, plan' \subseteq plan,
         \A s \in Slots : late'[s] \in {late[s], NoRequest} \cup plan
  PROVE  HoldsOwnIds'
<1>1. \A e \in listed : e.id \in Ids
  BY DEF TypeOK, Entries
<1>2. \A item \in Items : item.id # NoId => item.id \in Ids
  BY DEF Items
<1>3. plan \subseteq Items /\ \A s \in Slots : late[s] # NoRequest => late[s] \in Items
  BY DEF TypeOK
<1>4. \A e \in listed' : InScope(e.rec) => SafeId(e.id)'
  BY <1>1 DEF HoldsOwnIds
<1>5. \A item \in plan : item.id # NoId => SafeId(item.id)'
  BY <1>2, <1>3 DEF HoldsOwnIds
<1>6. \A s \in Slots : late'[s] # NoRequest /\ late'[s].id # NoId
        => zone'[late'[s].id] = NoRecord \/ InScope(zone'[late'[s].id])
  <2> SUFFICES ASSUME NEW s \in Slots, late'[s] # NoRequest, late'[s].id # NoId
               PROVE  zone'[late'[s].id] = NoRecord \/ InScope(zone'[late'[s].id])
    OBVIOUS
  <2>1. CASE late'[s] \in plan
    BY <2>1, <1>5 DEF SafeId
  <2>2. CASE late'[s] = late[s]
    <3>1. SafeId(late[s].id) /\ late[s].id \in Ids
      BY <2>2, <1>2, <1>3 DEF HoldsOwnIds
    <3> QED BY <2>2, <3>1 DEF SafeId
  <2> QED BY <2>1, <2>2
<1>7. \A item \in plan' : item.id # NoId => SafeId(item.id)'
  BY <1>5
<1> QED BY <1>4, <1>6, <1>7 DEF HoldsOwnIds, SafeId

(* A step that publishes nothing new and forgets no lease. *)
LEMMA PublishesLeasedMonotone ==
  ASSUME PublishesLeased,
         leased \subseteq leased', PairsOf(source)' \subseteq leased',
         PairsOf(desired)' \subseteq leased',
         plan' \subseteq plan,
         \A s \in Slots : late'[s] \in {late[s], NoRequest} \cup plan
  PROVE  PublishesLeased'
BY DEF PublishesLeased, Publishes

LEMMA NoWantPairs == PairsOf(NoWant) = {}
BY ZoneAssumption DEF PairsOf, NoWant

(* The end of a cycle, however it ends. *)
LEMMA ForgetSafe ==
  ASSUME TypeOK, Forget, UNCHANGED world
  PROVE  /\ HoldsOwnIds => HoldsOwnIds'
         /\ PublishesLeased => PublishesLeased'
<1>1. listed' = {} /\ plan' = {} /\ PairsOf(desired)' = {}
      /\ PairsOf(source)' = PairsOf(source)
      /\ late' = late /\ zone' = zone /\ leased' = leased
  BY NoWantPairs DEF Forget, world, PairsOf
<1>2. \A i \in Ids : SafeId(i) => SafeId(i)'
  BY <1>1 DEF SafeId
<1>3. HoldsOwnIds => HoldsOwnIds'
  BY <1>1, <1>2, HoldsOwnIdsMonotone
<1>4. PublishesLeased => PublishesLeased'
  BY <1>1, PublishesLeasedMonotone DEF PublishesLeased
<1> QED BY <1>3, <1>4

(* A step of the executor, which only sends what is in the plan. *)
LEMMA AttemptKeeps ==
  ASSUME TypeOK, NEW item \in todo,
         Skip(item) \/ DryRunItem(item) \/ Complete(item)
           \/ Refuse(item) \/ Retry(item) \/ Fail(item)
  PROVE  /\ UNCHANGED <<source, leased, desired, listed, plan>>
         /\ \A s \in Slots : late'[s] \in {late[s], NoRequest} \cup plan
         /\ \A i \in Ids : SafeId(i) => SafeId(i)'
<1>1. item \in plan /\ item \in Items
  BY DEF TypeOK
<1>2. Lost \/ Applied(item) \/ Delayed(item)
  BY DEF Skip, DryRunItem, DryCreate, DryUpdate, DryDelete, Complete, Refuse, Retry, Fail,
         Lost, world
<1>3. UNCHANGED <<source, leased, desired, listed, plan>>
  BY DEF Skip, DryRunItem, DryCreate, DryUpdate, DryDelete, Complete, Refuse, Retry, Fail,
         Handled, world
<1>4. \A s \in Slots : late'[s] \in {late[s], NoRequest} \cup plan
  BY <1>1, <1>2 DEF Lost, Applied, Delayed, TypeOK
<1>5. \A i \in Ids : SafeId(i) => SafeId(i)'
  BY <1>1, <1>2, AttemptSafe
<1> QED BY <1>3, <1>4, <1>5

(* What a page adds to the listing is a record as it is in the zone now. *)
LEMMA FetchedSafe ==
  ASSUME TypeOK, HoldsOwnIds
  PROVE  \A e \in Fetched : InScope(e.rec) => SafeId(e.id)
BY DEF Fetched, HoldsOwnIds, SafeId

----------------------------------------------------------------------------
(* Addresses: they come from the leases and are only ever handed on. *)

LEMMA LeasedInit == Init => PublishesLeased
BY NoWantPairs DEF Init, PublishesLeased

LEMMA LeasedStep == TypeOK /\ PublishesLeased /\ [Next]_vars => PublishesLeased'
<1> SUFFICES ASSUME TypeOK, PublishesLeased, [Next]_vars
             PROVE  PublishesLeased'
  OBVIOUS
<1>a. PairsOf(source) \subseteq leased /\ PairsOf(desired) \subseteq leased
  BY DEF PublishesLeased
<1>1. CASE StartSync \/ ListRetry \/ FetchPage \/ UNCHANGED vars
  <2>1. UNCHANGED <<late, source, leased, desired, plan>>
    BY <1>1 DEF StartSync, ListRetry, FetchPage, vars, world
  <2> QED BY <2>1 DEF PublishesLeased, PairsOf
<1>2. CASE ReadLeases
  <2>1. UNCHANGED <<late, source, leased, plan>> /\ desired' = source
    BY <1>2 DEF ReadLeases, world
  <2> QED BY <2>1, <1>a DEF PublishesLeased, PairsOf
<1>3. CASE ReadFails \/ ListFails \/ EndSync \/ Crash
  BY <1>3, ForgetSafe DEF ReadFails, ListFails, EndSync, Crash
<1>4. CASE FetchLastPage
  <2>1. /\ UNCHANGED <<late, source, leased, desired>>
        /\ plan' = BuildPlan(desired, Fetched)
    BY <1>4 DEF FetchLastPage, world
  <2>2. Fetched \in SUBSET Entries /\ desired \in Wants
    BY FetchedType DEF TypeOK
  <2>3. ASSUME NEW item \in plan', Publishes(item)
        PROVE  <<item.name, item.addr>> \in leased
    <3>1. item \in Items /\ item.addr = desired[item.name]
      BY <2>1, <2>2, <2>3, PlanShape
    <3>2. <<item.name, item.addr>> \in PairsOf(desired)
      BY <3>1, <2>3 DEF Publishes, Items, PairsOf
    <3> QED BY <3>2, <1>a
  <2> QED BY <2>1, <2>3 DEF PublishesLeased, Publishes, PairsOf
<1>5. ASSUME NEW item \in todo,
             Skip(item) \/ DryRunItem(item) \/ Complete(item)
               \/ Refuse(item) \/ Retry(item) \/ Fail(item)
      PROVE  PublishesLeased'
  <2>1. /\ UNCHANGED <<source, leased, desired, plan>>
        /\ \A s \in Slots : late'[s] \in {late[s], NoRequest} \cup plan
    BY <1>5, AttemptKeeps
  <2>2. PairsOf(source)' \subseteq leased' /\ PairsOf(desired)' \subseteq leased'
    BY <2>1, <1>a DEF PairsOf
  <2> QED BY <2>1, <2>2, PublishesLeasedMonotone
<1>6. ASSUME NEW s \in Slots, LateArrives(s)
      PROVE  PublishesLeased'
  <2>1. /\ UNCHANGED <<source, leased, desired, plan>>
        /\ \A t \in Slots : late'[t] \in {late[t], NoRequest} \cup plan
    BY <1>6 DEF LateArrives, TypeOK
  <2>2. PairsOf(source)' \subseteq leased' /\ PairsOf(desired)' \subseteq leased'
    BY <2>1, <1>a DEF PairsOf
  <2> QED BY <2>1, <2>2, PublishesLeasedMonotone
<1>7. ASSUME NEW i \in Ids, Edit(i)
      PROVE  PublishesLeased'
  <2>1. UNCHANGED <<late, source, leased, desired, plan>>
    BY <1>7 DEF Edit
  <2> QED BY <2>1 DEF PublishesLeased, PairsOf
<1>8. CASE SourceChange
  <2>1. /\ UNCHANGED <<late, desired, plan>>
        /\ leased' = leased \cup PairsOf(source')
    BY <1>8 DEF SourceChange, cycle
  <2> QED BY <2>1, <1>a DEF PublishesLeased, PairsOf
<1> QED
  BY <1>1, <1>2, <1>3, <1>4, <1>5, <1>6, <1>7, <1>8
  DEF Next, Service, CalmStep, TroubledStep, Environment, ZoneMoves

(* No request, however late, publishes an address that was not leased to that
   name, whatever other writers do to the zone. *)
THEOREM PublishesLeasedAlways == Spec => []PublishesLeased
<1>1. TypeOK /\ PublishesLeased /\ [Next]_vars => (TypeOK /\ PublishesLeased)'
  BY TypeStep, LeasedStep
<1> QED BY <1>1, TypeInit, LeasedInit, PTL DEF Spec

----------------------------------------------------------------------------
(* Ids: here the other writers matter. *)

LEMMA OwnIdsInit == Init => HoldsOwnIds
BY DEF Init, HoldsOwnIds

LEMMA OwnIdsStep ==
  ~EditorRefiles /\ TypeOK /\ HoldsOwnIds /\ [Next]_vars => HoldsOwnIds'
<1> SUFFICES ASSUME ~EditorRefiles, TypeOK, HoldsOwnIds, [Next]_vars
             PROVE  HoldsOwnIds'
  OBVIOUS
<1>1. CASE StartSync \/ ListRetry \/ ReadLeases \/ SourceChange \/ UNCHANGED vars
  <2>1. UNCHANGED <<zone, late, listed, plan>>
    BY <1>1 DEF StartSync, ListRetry, ReadLeases, SourceChange, vars, world, cycle
  <2> QED BY <2>1 DEF HoldsOwnIds, SafeId
<1>2. CASE ReadFails \/ ListFails \/ EndSync \/ Crash
  BY <1>2, ForgetSafe DEF ReadFails, ListFails, EndSync, Crash
<1>3. CASE FetchPage
  <2>1. UNCHANGED <<zone, late, plan>> /\ listed' = Fetched
    BY <1>3 DEF FetchPage, world
  <2> QED BY <2>1, FetchedSafe DEF HoldsOwnIds, SafeId
<1>4. CASE FetchLastPage
  <2>1. /\ UNCHANGED <<zone, late>>
        /\ listed' = Fetched
        /\ plan' = BuildPlan(desired, Fetched)
    BY <1>4 DEF FetchLastPage, world
  <2>2. Fetched \in SUBSET Entries /\ desired \in Wants
    BY FetchedType DEF TypeOK
  <2>3. ASSUME NEW item \in plan', item.id # NoId
        PROVE  SafeId(item.id)
    <3>1. \E e \in Fetched : InScope(e.rec) /\ e.id = item.id
      BY <2>1, <2>2, <2>3, PlanShape
    <3> QED BY <3>1, FetchedSafe
  <2> QED BY <2>1, <2>3, FetchedSafe DEF HoldsOwnIds, SafeId
<1>5. ASSUME NEW item \in todo,
             Skip(item) \/ DryRunItem(item) \/ Complete(item)
               \/ Refuse(item) \/ Retry(item) \/ Fail(item)
      PROVE  HoldsOwnIds'
  BY <1>5, AttemptKeeps, HoldsOwnIdsMonotone
<1>6. ASSUME NEW s \in Slots, LateArrives(s)
      PROVE  HoldsOwnIds'
  <2>1. late[s] \in Items /\ zone \in Zones
    BY <1>6 DEF LateArrives, TypeOK
  <2>2. ASSUME NEW i \in Ids, SafeId(i) PROVE SafeId(i)'
    BY <1>6, <2>1, <2>2, FreshAreIds, OutcomeSafe DEF LateArrives, SafeId
  <2>3. /\ UNCHANGED <<listed, plan>>
        /\ \A t \in Slots : late'[t] \in {late[t], NoRequest} \cup plan
    BY <1>6 DEF LateArrives, TypeOK
  <2> QED BY <2>2, <2>3, HoldsOwnIdsMonotone
<1>7. ASSUME NEW i \in Ids, Edit(i)
      PROVE  HoldsOwnIds'
  <2>1. UNCHANGED <<late, listed, plan>>
    BY <1>7 DEF Edit
  <2>2. PICK r \in EditorRecords \cup {NoRecord} :
          /\ zone[i] = NoRecord => i \in FreshIds
          /\ zone[i] # NoRecord /\ r # NoRecord => InScope(r) = InScope(zone[i])
          /\ zone' = [zone EXCEPT ![i] = r]
    BY <1>7 DEF Edit
  <2>3. ASSUME NEW j \in Ids, SafeId(j), j = i => zone[i] # NoRecord
        PROVE  SafeId(j)'
    <3>1. zone'[j] = IF j = i THEN r ELSE zone[j]
      BY <2>2 DEF TypeOK, Zones
    <3> QED BY <2>2, <2>3, <3>1 DEF SafeId
  <2>4. zone[i] = NoRecord =>
          /\ \A e \in listed : e.id # i
          /\ \A item \in plan : item.id # i
          /\ \A s \in Slots : late[s] # NoRequest => late[s].id # i
    BY <2>2 DEF FreshIds
  <2>5. /\ \A e \in listed : e.id \in Ids
        /\ \A item \in plan : item.id # NoId => item.id \in Ids
        /\ \A s \in Slots :
             late[s] # NoRequest /\ late[s].id # NoId => late[s].id \in Ids
    BY DEF TypeOK, Entries, Items
  <2>6. \A e \in listed : InScope(e.rec) => SafeId(e.id)'
    BY <2>3, <2>4, <2>5 DEF HoldsOwnIds
  <2>7. \A item \in plan : item.id # NoId => SafeId(item.id)'
    BY <2>3, <2>4, <2>5 DEF HoldsOwnIds
  <2>8. \A s \in Slots : late[s] # NoRequest /\ late[s].id # NoId
          => zone'[late[s].id] = NoRecord \/ InScope(zone'[late[s].id])
    BY <2>3, <2>4, <2>5 DEF HoldsOwnIds, SafeId
  <2> QED
    BY <2>1, <2>6, <2>7, <2>8 DEF HoldsOwnIds, SafeId
<1> QED
  BY <1>1, <1>2, <1>3, <1>4, <1>5, <1>6, <1>7
  DEF Next, Service, CalmStep, TroubledStep, Environment, ZoneMoves

(* Between listing and request the zone changes freely, and still no id the
   service holds ever stands for a record that is not its own. *)
THEOREM HoldsOwnIdsAlways ==
  ASSUME ~EditorRefiles
  PROVE  Spec => []HoldsOwnIds
<1>1. TypeOK /\ HoldsOwnIds /\ [Next]_vars => (TypeOK /\ HoldsOwnIds)'
  BY TypeStep, OwnIdsStep
<1> QED BY <1>1, TypeInit, OwnIdsInit, PTL DEF Spec

(* Both together, and the types. *)
IInv == TypeOK /\ HoldsOwnIds /\ PublishesLeased

LEMMA IInit == Init => IInv
BY TypeInit, OwnIdsInit, LeasedInit DEF IInv

LEMMA IStep == ~EditorRefiles /\ IInv /\ [Next]_vars => IInv'
BY TypeStep, OwnIdsStep, LeasedStep DEF IInv

----------------------------------------------------------------------------
(* The service keeps the promise stated in ManagedZone. *)

(* ManagedZone speaks of the same zone. *)
LEMMA SameZones == Promise!Zones = Zones
BY DEF Promise!Zones, Promise!Record, Promise!Types, Promise!Opts, Zones, Record,
       Types, Opts

LEMMA SameScope ==
  ASSUME NEW r
  PROVE  Promise!InScope(r) <=> InScope(r)
BY DEF Promise!InScope, InScope

LEMMA SameOwned ==
  ASSUME NEW z, NEW i
  PROVE  Promise!Owned(z, i) <=> Owned(z, i)
BY SameScope DEF Promise!Owned, Owned

(* A request that is performed is one step of the promise. *)
LEMMA OutcomeIsPromised ==
  ASSUME TypeOK, NEW item \in Items,
         item.id # NoId => SafeId(item.id),
         Publishes(item) => <<item.name, item.addr>> \in leased,
         zone' \in Outcomes(zone, item, FreshIds),
         UNCHANGED <<leased, edits>>
  PROVE  Promise!Next
<1>1. zone \in Zones
  BY DEF TypeOK
<1>2. PICK i \in Ids :
        /\ IF item.op = "create" THEN i \in FreshIds
           ELSE i = item.id /\ zone[i] # NoRecord
        /\ \/ /\ Publishes(item)
              /\ zone' = [zone EXCEPT ![i] = Payload(item)]
           \/ item.op = "delete" /\ zone' = [zone EXCEPT ![i] = NoRecord]
  BY <1>1, FreshAreIds, OutcomeShape
<1>3. item.op # "create" => item.id # NoId
  BY DEF Items
<1>4. zone[i] = NoRecord \/ InScope(zone[i])
  BY <1>2, <1>3 DEF FreshIds, SafeId
<1>5. CASE Publishes(item) /\ zone' = [zone EXCEPT ![i] = Payload(item)]
  <2>1. <<item.name, item.addr>> \in leased
    BY <1>5
  <2>2. Payload(item) = [type |-> "A", name |-> <<item.name, item.addr>>[1],
                         content |-> <<item.name, item.addr>>[2], opts |-> "default"]
    BY DEF Payload
  <2>3. Promise!Publish(i)
    BY <1>4, <1>5, <2>1, <2>2, SameScope DEF Promise!Publish
  <2> QED BY <2>3 DEF Promise!Next
<1>6. CASE item.op = "delete" /\ zone' = [zone EXCEPT ![i] = NoRecord]
  <2>1. Owned(zone, i)
    BY <1>2, <1>4, <1>6 DEF Owned
  <2>2. Promise!Retract(i)
    BY <1>6, <2>1, SameOwned DEF Promise!Retract
  <2> QED BY <2>2 DEF Promise!Next
<1> QED BY <1>2, <1>5, <1>6

LEMMA PromiseInit == Init => Promise!Init
BY SyncCycleAssumption, SameZones DEF Init, Promise!Init, PairsOf

LEMMA PromiseStep ==
  ~EditorRefiles /\ IInv /\ [Next]_vars => [Promise!Next]_(Promise!mzVars)
<1> SUFFICES ASSUME ~EditorRefiles, IInv, [Next]_vars
             PROVE  Promise!Next \/ UNCHANGED <<zone, leased, edits>>
  BY DEF Promise!mzVars
<1>1. CASE StartSync \/ ReadLeases \/ ReadFails \/ FetchPage \/ FetchLastPage
             \/ ListRetry \/ ListFails \/ EndSync \/ Crash \/ UNCHANGED vars
  BY <1>1 DEF StartSync, ReadLeases, ReadFails, FetchPage, FetchLastPage,
              ListRetry, ListFails, EndSync, Crash, vars, world
<1>2. ASSUME NEW item \in todo,
             Skip(item) \/ DryRunItem(item) \/ Complete(item)
               \/ Refuse(item) \/ Retry(item) \/ Fail(item)
      PROVE  Promise!Next \/ UNCHANGED <<zone, leased, edits>>
  <2>1. UNCHANGED <<leased, edits>>
        /\ (UNCHANGED zone \/ zone' \in Outcomes(zone, item, FreshIds))
    BY <1>2 DEF Skip, DryRunItem, DryCreate, DryUpdate, DryDelete, Complete, Refuse, Retry,
                Fail, Lost, Applied,
                Delayed, world
  <2>2. /\ item \in Items
        /\ item.id # NoId => SafeId(item.id)
        /\ Publishes(item) => <<item.name, item.addr>> \in leased
    BY DEF IInv, TypeOK, HoldsOwnIds, PublishesLeased
  <2> QED BY <2>1, <2>2, OutcomeIsPromised DEF IInv
<1>3. ASSUME NEW s \in Slots, LateArrives(s)
      PROVE  Promise!Next \/ UNCHANGED <<zone, leased, edits>>
  <2>1. UNCHANGED <<leased, edits>>
        /\ (UNCHANGED zone \/ zone' \in Outcomes(zone, late[s], FreshIds))
    BY <1>3 DEF LateArrives
  <2>2. /\ late[s] \in Items
        /\ late[s].id # NoId => SafeId(late[s].id)
        /\ Publishes(late[s]) => <<late[s].name, late[s].addr>> \in leased
    BY <1>3 DEF LateArrives, IInv, TypeOK, HoldsOwnIds, PublishesLeased
  <2> QED BY <2>1, <2>2, OutcomeIsPromised DEF IInv
<1>4. ASSUME NEW i \in Ids, Edit(i)
      PROVE  Promise!Next
  <2>1. zone' \in Zones
    BY <1>4, TypeStep DEF IInv, TypeOK, Next, Environment
  <2>2. Promise!Foreign
    BY <1>4, <2>1, SameZones DEF Edit, Promise!Foreign
  <2> QED BY <2>2 DEF Promise!Next
<1>5. CASE SourceChange
  <2>1. leased' \in SUBSET (Managed \X Addrs) /\ leased \subseteq leased'
    BY <1>5, TypeStep DEF SourceChange, IInv, TypeOK, Next, Environment
  <2>2. Promise!Grant
    BY <1>5, <2>1 DEF SourceChange, Promise!Grant
  <2> QED BY <2>2 DEF Promise!Next
<1> QED
  BY <1>1, <1>2, <1>3, <1>4, <1>5
  DEF Next, Service, CalmStep, TroubledStep, Environment, ZoneMoves

(* Every behaviour of the detailed service is one of the promise: one record at
   a time, its own or new, pointed at an address leased to its name or deleted,
   whatever is lost, late, retried, refused or crashes. *)
THEOREM Implements ==
  ASSUME ~EditorRefiles
  PROVE  Spec => KeepsPromise
<1>1. Promise!Init /\ [][Promise!Next]_(Promise!mzVars) => Promise!Spec
  BY PTL DEF Promise!Spec
<1> QED
  BY <1>1, IInit, IStep, PromiseInit, PromiseStep, PTL DEF Spec, KeepsPromise

(* README: "Records outside MANAGED_RECORD_SUFFIX are left unchanged" and "Only A
   records are managed": follows from the promise alone. *)
LEMMA PromiseSpares ==
  ASSUME zone \in Zones, [Promise!Next]_(Promise!mzVars), edits \in Nat, edits' = edits,
         NEW i \in Ids, zone[i] # NoRecord, ~InScope(zone[i])
  PROVE  zone'[i] = zone[i]
<1>1. CASE UNCHANGED Promise!mzVars
  BY <1>1 DEF Promise!mzVars
<1>2. ASSUME NEW j \in Ids, Promise!Publish(j) \/ Promise!Retract(j)
      PROVE  zone'[i] = zone[i]
  <2>1. zone[j] = NoRecord \/ InScope(zone[j])
    BY <1>2, SameScope, SameOwned DEF Promise!Publish, Promise!Retract, Owned
  <2>2. j # i
    BY <2>1
  <2>3. \E r : zone' = [zone EXCEPT ![j] = r]
    BY <1>2 DEF Promise!Publish, Promise!Retract
  <2> QED BY <2>2, <2>3 DEF Zones
<1>3. CASE Promise!Foreign
  BY <1>3 DEF Promise!Foreign
<1>4. CASE Promise!Grant
  BY <1>4 DEF Promise!Grant
<1> QED BY <1>1, <1>2, <1>3, <1>4 DEF Promise!Next

THEOREM UnmanagedSafe ==
  ASSUME ~EditorRefiles
  PROVE  Spec => UnmanagedUntouched
<1>1. IInv /\ [Next]_vars =>
        [edits' = edits =>
           \A i \in Ids : zone[i] # NoRecord /\ ~InScope(zone[i]) => zone'[i] = zone[i]]_vars
  BY PromiseStep, PromiseSpares DEF IInv, TypeOK
<1> QED BY <1>1, IInit, IStep, PTL DEF Spec, UnmanagedUntouched
=============================================================================
