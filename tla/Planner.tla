------------------------------ MODULE Planner ------------------------------
(***************************************************************************)
(* sync/planner.rs: from the desired state and the listed records, the     *)
(* actions that bring the zone in line, and the order they are executed    *)
(* in.  A plan is the set of its actions together with that order.         *)
(***************************************************************************)
EXTENDS DnsZone

CONSTANT Rank   \* the order BTreeMap gives the managed names

ASSUME RankAssumption ==
  /\ Rank \in [Managed -> Nat]
  /\ \A m, n \in Managed : Rank[m] = Rank[n] => m = n

(* One listed record.  The same record listed on two pages is two entries. *)
Entries == [id : Ids, page : Nat, rec : Record]

(* fault: the type and suffix filters are gone. *)
GroupUnfiltered(listing, n) ==
  {e \in listing : e.rec.name = n \/ KeyOf[e.rec.name] \in {n, NotManaged}}

(* fault: grouped by the name as it is stored. *)
GroupByRawName(listing, n) == {e \in listing : InScope(e.rec) /\ e.rec.name = n}

(* current_by_name: the entries that pass the type, name and suffix filters,
   by normalised name. *)
Group(listing, n) == {e \in listing : InScope(e.rec) /\ KeyOf[e.rec.name] = n}

(* records.sort_by(id), which is stable: equal ids stay in listing order. *)
SortedBefore(e, f) == e.id < f.id \/ (e.id = f.id /\ e.page < f.page)

(* The entry of a wanted name that is kept: the first that matches already,
   else the first. *)
Candidates(listing, n, a) ==
  LET hits == {e \in Group(listing, n) : Matches(e.rec, n, a)}
  IN  IF hits # {} THEN hits ELSE Group(listing, n)

(* fault: the first is kept, matching or not. *)
IsPrimaryFirst(e, listing, n, a) ==
  e \in Group(listing, n) /\ \A f \in Group(listing, n) : ~SortedBefore(f, e)
IsPrimary(e, listing, n, a) ==
  /\ e \in Candidates(listing, n, a)
  /\ \A f \in Candidates(listing, n, a) : ~SortedBefore(f, e)

(* fault: spare records of a wanted name are left alone. *)
OpForSparing(e, n, want, listing) ==
  IF want[n] = NoAddr THEN "delete"
  ELSE IF Matches(e.rec, n, want[n]) THEN "noop" ELSE "update"

(* fault: a record that does not match is deleted, not updated. *)
OpForDropping(e, n, want, listing) ==
  IF want[n] # NoAddr /\ Matches(e.rec, n, want[n]) /\ IsPrimary(e, listing, n, want[n])
  THEN "noop" ELSE "delete"

(* What becomes of one listed record of name n. *)
OpFor(e, n, want, listing) ==
  IF want[n] = NoAddr \/ ~IsPrimary(e, listing, n, want[n]) THEN "delete"
  ELSE IF Matches(e.rec, n, want[n]) THEN "noop" ELSE "update"

(* fault: an update asks for the content the record has. *)
BuildPlanAsFound(want, listing) ==
  {[op |-> "create", name |-> n, addr |-> want[n], id |-> NoId, page |-> 0] :
      n \in {m \in Managed : want[m] # NoAddr /\ Group(listing, m) = {}}}
  \cup
  UNION {{[op |-> OpFor(e, n, want, listing), name |-> n, addr |-> e.rec.content,
           id |-> e.id, page |-> e.page] : e \in Group(listing, n)} : n \in Managed}

(* build_plan: what is missing is created, and each listed record has its item. *)
BuildPlan(want, listing) ==
  {[op |-> "create", name |-> n, addr |-> want[n], id |-> NoId, page |-> 0] :
      n \in {m \in Managed : want[m] # NoAddr /\ Group(listing, m) = {}}}
  \cup
  UNION {{[op |-> OpFor(e, n, want, listing), name |-> n, addr |-> want[n],
           id |-> e.id, page |-> e.page] : e \in Group(listing, n)} : n \in Managed}

(* Position in Plan.actions: the wanted names in order, each with the record
   it keeps (or creates) first and its spares after it in sorted order; then
   the records of names no longer wanted. *)
Place(item, want) ==
  << IF want[item.name] = NoAddr THEN 1 ELSE 0,
     Rank[item.name],
     IF item.op = "delete" THEN 1 ELSE 0,
     item.id,
     item.page >>

Precedes(a, b, want) ==
  LET p == Place(a, want)
      q == Place(b, want)
  IN  \E k \in 1..5 : p[k] < q[k] /\ \A j \in 1..(k - 1) : p[j] = q[j]
=============================================================================
