----------------------------- MODULE SyncCycle -----------------------------
(***************************************************************************)
(* One reconciliation after another: sync/mod.rs sync_once, the executor   *)
(* it calls and the requests of cloudflare/client.rs, each of which may be *)
(* retried, lost, answered too late or refused, while other writers edit   *)
(* the same zone, the leases change and the process may crash.             *)
(*                                                                         *)
(* A step of the service is what it does between two awaits: it reads the  *)
(* lease files, fetches a page, or sends one attempt of one request and    *)
(* acts on its reply.  Everything of a cycle but the zone is a local       *)
(* variable of sync_once; a crash forgets it all.                          *)
(***************************************************************************)
EXTENDS Planner

CONSTANTS
  PageSize,       \* per_page of the listing (100 in the code)
  MaxRetries,     \* DEFAULT_MAX_RETRIES: attempts of one request (3 in the code)
  Slots,          \* where requests whose caller gave up wait in the network
  NoRequest,      \* an empty slot
  MaxEdits,       \* bound: edits other writers make
  EditorRecords,  \* bound: the records they write
  EditorRefiles,  \* whether they rename records into or out of the managed suffix
  Sources,        \* bound: desired states the lease files give
  InitZones,      \* bound: zones the service may find at the start
  DryRuns         \* bound: the settings of DRY_RUN

ASSUME SyncCycleAssumption ==
  /\ PageSize \in Nat \ {0}
  /\ MaxRetries \in Nat \ {0}
  /\ NoRequest \notin Items
  /\ MaxEdits \in Nat
  /\ EditorRecords \subseteq Record
  /\ EditorRefiles \in BOOLEAN
  /\ Sources \subseteq Wants
  /\ InitZones \subseteq Zones
  /\ DryRuns \subseteq BOOLEAN

VARIABLES
  zone,       \* the records, by id
  late,       \* requests given up by the client that may still take effect
  edits,      \* how many edits other writers made
  source,     \* the desired state the lease files give now
  leased,     \* history: every pair <<name, address>> the leases ever gave
  dry_run,    \* DRY_RUN, read once at the start
  pc,         \* where sync_once stands
  desired,    \* desired.records of this cycle
  page,       \* the page list_a_records asks for
  listed,     \* records: the entries of the pages fetched so far
  attempt,    \* attempt of request_json
  plan,       \* Plan.actions
  todo,       \* the actions execute_plan has not handled yet
  summary,    \* ExecutionSummary
  disturbed   \* history: the zone changed under this cycle's plan or listing

world == <<zone, late, edits, source, leased, dry_run>>
cycle == <<pc, desired, page, listed, attempt, plan, todo, summary, disturbed>>
vars  == <<zone, late, edits, source, leased, dry_run,
           pc, desired, page, listed, attempt, plan, todo, summary, disturbed>>

Counters    == Ops \cup {"failed"}
NothingDone == [c \in Counters |-> 0]
NoWant      == [n \in Managed |-> NoAddr]
PairsOf(w)  == {p \in Managed \X Addrs : w[p[1]] = p[2]}

(* The zone the plan was made from may no longer be the zone. *)
UnderWay == pc = "executing" \/ page > 1

(* Ids the server may give a new record: it never gives the same id twice, so
   not one that some variable still refers to. *)
FreshIds ==
  {i \in Ids : /\ zone[i] = NoRecord
               /\ \A e \in listed : e.id # i
               /\ \A item \in plan : item.id # i
               /\ \A s \in Slots : late[s] # NoRequest => late[s].id # i}

Init ==
  /\ zone \in InitZones
  /\ late = [s \in Slots |-> NoRequest]
  /\ edits = 0
  /\ source \in Sources
  /\ leased = PairsOf(source)
  /\ dry_run \in DryRuns
  /\ pc = "idle"
  /\ desired = NoWant
  /\ page = 1
  /\ listed = {}
  /\ attempt = 1
  /\ plan = {}
  /\ todo = {}
  /\ summary = NothingDone
  /\ disturbed = FALSE

----------------------------------------------------------------------------
(* Reading the leases and listing the zone. *)

(* sync_once returns or the process dies: its locals are gone. *)
Forget ==
  /\ pc' = "idle"
  /\ desired' = NoWant
  /\ page' = 1
  /\ listed' = {}
  /\ attempt' = 1
  /\ plan' = {}
  /\ todo' = {}
  /\ summary' = NothingDone
  /\ disturbed' = FALSE

StartSync ==
  /\ pc = "idle"
  /\ pc' = "reading"
  /\ UNCHANGED <<world, desired, page, listed, attempt, plan, todo, summary, disturbed>>

(* get_ipv4_leases and build_desired_state. *)
ReadLeases ==
  /\ pc = "reading"
  /\ desired' = source
  /\ pc' = "listing"
  /\ UNCHANGED <<world, page, listed, attempt, plan, todo, summary, disturbed>>

(* An unreadable or inconsistent lease file ends the cycle; so does a listing
   request that failed for good (below).  No record is touched. *)
ReadFails ==
  /\ pc = "reading"
  /\ Forget
  /\ UNCHANGED world

Fetched == listed \cup
  {[id |-> i, page |-> page, rec |-> zone[i]] : i \in OnPage(zone, page, PageSize)}

(* A page arrives whose total_pages says there is another one. *)
FetchPage ==
  /\ pc = "listing"
  /\ page < TotalPages(zone, PageSize)
  /\ listed' = Fetched
  /\ page' = page + 1
  /\ attempt' = 1
  /\ UNCHANGED <<world, pc, desired, plan, todo, summary, disturbed>>

(* The last page arrives, and the plan is made before the next await. *)
FetchLastPage ==
  /\ pc = "listing"
  /\ page >= TotalPages(zone, PageSize)
  /\ listed' = Fetched
  /\ plan' = BuildPlan(desired, listed')
  /\ todo' = plan'
  /\ attempt' = 1
  /\ pc' = "executing"
  /\ UNCHANGED <<world, desired, page, summary, disturbed>>

(* 429, 5xx, a timeout or a refused connection: request_json asks again. *)
ListRetry ==
  /\ pc = "listing"
  /\ attempt < MaxRetries
  /\ attempt' = attempt + 1
  /\ UNCHANGED <<world, pc, desired, page, listed, plan, todo, summary, disturbed>>

(* Any other error, or the last attempt: what was listed is thrown away. *)
ListFails ==
  /\ pc = "listing"
  /\ Forget
  /\ UNCHANGED world

----------------------------------------------------------------------------
(* execute_plan: the first action left is handled, whatever became of the
   ones before it. *)

Due(item) ==
  /\ pc = "executing"
  /\ item \in todo
  /\ \A other \in todo : ~Precedes(other, item, desired)

(* fault: failures are not counted. *)
HandledUncounted(item, c) ==
  /\ todo' = todo \ {item}
  /\ attempt' = 1
  /\ summary' = [summary EXCEPT ![c] = IF c = "failed" THEN @ ELSE @ + 1]
  /\ UNCHANGED <<pc, desired, page, listed, plan, disturbed>>

(* fault: the first failure ends the loop. *)
HandledStopping(item, c) ==
  /\ todo' = IF c = "failed" THEN {} ELSE todo \ {item}
  /\ attempt' = 1
  /\ summary' = [summary EXCEPT ![c] = @ + 1]
  /\ UNCHANGED <<pc, desired, page, listed, plan, disturbed>>

(* The loop goes on after counting the action under c. *)
Handled(item, c) ==
  /\ todo' = todo \ {item}
  /\ attempt' = 1
  /\ summary' = [summary EXCEPT ![c] = @ + 1]
  /\ UNCHANGED <<pc, desired, page, listed, plan, disturbed>>

Skip(item) ==
  /\ Due(item)
  /\ item.op = "noop"
  /\ Handled(item, "noop")
  /\ UNCHANGED world

(* Each of the other three arms of the match looks at dry_run for itself: with it
   the action is counted as done ... *)
DryCreate(item) == Due(item) /\ item.op = "create" /\ dry_run /\ Handled(item, "create")
DryUpdate(item) == Due(item) /\ item.op = "update" /\ dry_run /\ Handled(item, "update")
DryDelete(item) == Due(item) /\ item.op = "delete" /\ dry_run /\ Handled(item, "delete")

DryRunItem(item) ==
  /\ DryCreate(item) \/ DryUpdate(item) \/ DryDelete(item)
  /\ UNCHANGED world

(* ... and without it the request is sent. *)
Creates(item) == Due(item) /\ item.op = "create" /\ ~dry_run

(* fault: this arm does not look at dry_run. *)
UpdatesAlways(item) == Due(item) /\ item.op = "update"
Updates(item) == Due(item) /\ item.op = "update" /\ ~dry_run
Deletes(item) == Due(item) /\ item.op = "delete" /\ ~dry_run

Sends(item) == Creates(item) \/ Updates(item) \/ Deletes(item)

(* What the request in flight does to the zone when no good reply to it comes
   back: nothing, its full effect, or its effect some time later. *)
Lost    == UNCHANGED <<zone, late>>
Applied(item) ==
  /\ zone' \in Outcomes(zone, item, FreshIds)
  /\ UNCHANGED late
Delayed(item) ==
  /\ \E s \in Slots : late[s] = NoRequest /\ late' = [late EXCEPT ![s] = item]
  /\ UNCHANGED zone

Complete(item) ==
  /\ Sends(item)
  /\ Applied(item)
  /\ Handled(item, item.op)
  /\ UNCHANGED <<edits, source, leased, dry_run>>

(* 404 for a record that is gone, or no room for a new one: not retryable. *)
Refuse(item) ==
  /\ Sends(item)
  /\ Outcomes(zone, item, FreshIds) = {}
  /\ Handled(item, "failed")
  /\ UNCHANGED world

(* fault: <= for < in the test for another attempt. *)
RetryOnceMore(item) ==
  /\ Sends(item)
  /\ attempt <= MaxRetries
  /\ Lost \/ Applied(item) \/ Delayed(item)
  /\ attempt' = attempt + 1
  /\ UNCHANGED <<edits, source, leased, dry_run,
                 pc, desired, page, listed, plan, todo, summary, disturbed>>
Retry(item) ==
  /\ Sends(item)
  /\ attempt < MaxRetries
  /\ Lost \/ Applied(item) \/ Delayed(item)
  /\ attempt' = attempt + 1
  /\ UNCHANGED <<edits, source, leased, dry_run,
                 pc, desired, page, listed, plan, todo, summary, disturbed>>

(* The last attempt failed, or an error that is not retried: a status, an
   unreadable body, success = false. *)
Fail(item) ==
  /\ Sends(item)
  /\ Lost \/ Applied(item) \/ Delayed(item)
  /\ Handled(item, "failed")
  /\ UNCHANGED <<edits, source, leased, dry_run>>

EndSync ==
  /\ pc = "executing"
  /\ todo = {}
  /\ Forget
  /\ UNCHANGED world

----------------------------------------------------------------------------
(* The world around the service. *)

Crash ==
  /\ pc # "idle"
  /\ Forget
  /\ UNCHANGED world

(* A request the client gave up on reaches the server, or is dropped at last.
   One of this plan does nothing the plan does not ask for. *)
LateArrives(s) ==
  /\ late[s] # NoRequest
  /\ late' = [late EXCEPT ![s] = NoRequest]
  /\ zone' \in Outcomes(zone, late[s], FreshIds) \cup {zone}
  /\ disturbed' = (disturbed \/ (UnderWay /\ late[s] \notin plan))
  /\ UNCHANGED <<edits, source, leased, dry_run,
                 pc, desired, page, listed, attempt, plan, todo, summary>>

(* Another writer adds, changes or removes the record with id i. *)
Edit(i) ==
  /\ edits < MaxEdits
  /\ \E r \in EditorRecords \cup {NoRecord} :
       /\ r # zone[i]
       /\ zone[i] = NoRecord => i \in FreshIds
       /\ zone[i] # NoRecord /\ r # NoRecord /\ ~EditorRefiles
            => InScope(r) = InScope(zone[i])
       /\ zone' = [zone EXCEPT ![i] = r]
  /\ edits' = edits + 1
  /\ disturbed' = (disturbed \/ UnderWay)
  /\ UNCHANGED <<late, source, leased, dry_run,
                 pc, desired, page, listed, attempt, plan, todo, summary>>

(* The DHCP server grants, renews, releases or moves leases, or one expires. *)
SourceChange ==
  /\ source' \in Sources \ {source}
  /\ leased' = leased \cup PairsOf(source')
  /\ UNCHANGED <<zone, late, edits, dry_run, cycle>>

(* What the service does when nothing goes wrong ... *)
CalmStep ==
  \/ StartSync \/ ReadLeases \/ FetchPage \/ FetchLastPage \/ EndSync
  \/ \E item \in todo : Skip(item) \/ DryRunItem(item) \/ Complete(item)

(* ... and when something does. *)
TroubledStep ==
  \/ ReadFails \/ ListRetry \/ ListFails
  \/ \E item \in todo : Refuse(item) \/ Retry(item) \/ Fail(item)

Service == CalmStep \/ TroubledStep

(* The zone changes by none of the service's doing. *)
ZoneMoves == (\E s \in Slots : LateArrives(s)) \/ \E i \in Ids : Edit(i)

Environment == Crash \/ SourceChange \/ ZoneMoves

Next == Service \/ Environment

(* sync_once is called again and again (main.rs: the interval) and every await
   of it ends (the client has a timeout), so the service keeps taking steps.
   Nothing is assumed of the network or of the other writers. *)
Fairness == WF_vars(Service)
Spec     == Init /\ [][Next]_vars /\ Fairness

(* The service by itself: no fault, no other writer, leases that stay. *)
CalmSpec == Init /\ [][CalmStep]_vars

----------------------------------------------------------------------------
(* Properties. *)

TypeOK ==
  /\ zone \in Zones
  /\ late \in [Slots -> Items \cup {NoRequest}]
  /\ edits \in Nat
  /\ source \in Wants
  /\ leased \subseteq Managed \X Addrs
  /\ dry_run \in BOOLEAN
  /\ pc \in {"idle", "reading", "listing", "executing"}
  /\ desired \in Wants
  /\ page \in Nat \ {0}
  /\ listed \subseteq Entries
  /\ attempt \in 1..MaxRetries
  /\ plan \subseteq Items
  /\ todo \subseteq plan
  /\ summary \in [Counters -> Nat]
  /\ disturbed \in BOOLEAN

(* The summary logged at the end of a cycle accounts for every action of the
   plan once: each is counted done or failed, and none is left out because an
   earlier one failed (execute_plan goes on after an error). *)
Planned(c) == Cardinality({item \in plan : item.op = c})
AccountsForPlan ==
  /\ summary["failed"] + summary["create"] + summary["update"]
       + summary["delete"] + summary["noop"] = Cardinality(plan \ todo)
  /\ pc = "executing" /\ todo = {} /\ summary["failed"] = 0
       => \A c \in Ops : summary[c] = Planned(c)

(* A name that is resolved correctly when the zone is listed stays so
   throughout the cycle, whichever requests fail, are retried or arrive late,
   as long as no one else touches the zone meanwhile. *)
ServesThroughout ==
  pc = "executing" /\ ~disturbed =>
    \A n \in Managed :
      (desired[n] # NoAddr /\ \E e \in listed : Matches(e.rec, n, desired[n]))
        => \E i \in Ids : zone[i] # NoRecord /\ Matches(zone[i], n, desired[n])

(* A wanted name that is listed with a record, even one with an address gone stale,
   has one throughout the cycle, unless another writer or a request of an earlier
   cycle touches the zone meanwhile: a changed address is put in place, not
   deleted and created anew. *)
NeverVanishes ==
  pc = "executing" /\ ~disturbed =>
    \A n \in Managed :
      desired[n] # NoAddr /\ Group(listed, n) # {} => RecordsOf(zone, n) # {}

(* Left alone, one cycle brings any zone exactly in line with the leases, and a
   zone once in line stays so: the next cycle finds nothing to create again,
   to rewrite or to delete. *)
PlanReachesDesired == pc = "executing" /\ todo = {} => InSync(zone, desired)
StaysInSync        == [][InSync(zone, source) => InSync(zone, source)']_vars

(* The plan in numbers: one write for a wanted name none of whose listed entries
   matches, none for any other, and one delete for each entry of a managed name,
   less one for a name that is wanted.  (An entry is a record on a page: a
   listing that drifted may have two entries for one record, see SkippedIsKept.) *)
Asked(n, ops) == {item \in plan : item.name = n /\ item.op \in ops}
MinimalPlan ==
  pc = "executing" =>
    \A n \in Managed :
      LET group == Group(listed, n)
          hit   == desired[n] # NoAddr /\ \E e \in group : Matches(e.rec, n, desired[n])
      IN  /\ Cardinality(Asked(n, {"create", "update"})) =
               IF desired[n] = NoAddr \/ hit THEN 0 ELSE 1
          /\ Cardinality(Asked(n, {"delete"})) =
               Cardinality(group) - IF desired[n] # NoAddr /\ group # {} THEN 1 ELSE 0

(* A cycle that reports no failure, in a zone no one else touched, has done its
   work: every wanted name is resolved, by matching records only, and no
   record of an unwanted one is left.  (A create that was retried may have left
   more than one matching record: the next cycle deletes the spares.) *)
CleanCycleServes ==
  pc = "executing" /\ todo = {} /\ summary["failed"] = 0 /\ ~disturbed /\ ~dry_run =>
    \A n \in Managed :
      /\ \A i \in RecordsOf(zone, n) : Matches(zone[i], n, desired[n])
      /\ desired[n] # NoAddr => RecordsOf(zone, n) # {}

(* A record that execute_plan reports as skipped for "no_change" is not deleted
   by the same cycle. *)
SkippedIsKept ==
  \A a, b \in plan \ todo : a.op = "noop" /\ b.op = "delete" => a.id # b.id

(* Every id the service still holds, in its listing, its plan or a request under
   way, is that of a record of its own or of one that is gone; other writers may
   delete, add and change records meanwhile. *)
SafeId(i) == zone[i] = NoRecord \/ InScope(zone[i])
HoldsOwnIds ==
  /\ \A e \in listed : InScope(e.rec) => SafeId(e.id)
  /\ \A item \in plan : item.id # NoId => SafeId(item.id)
  /\ \A s \in Slots : late[s] # NoRequest /\ late[s].id # NoId => SafeId(late[s].id)

(* Every address the service is about to publish, or may still publish by a late
   request, was leased to that very name at some time. *)
Publishes(item) == item.op \in {"create", "update"}
PublishesLeased ==
  /\ PairsOf(source) \cup PairsOf(desired) \subseteq leased
  /\ \A item \in plan : Publishes(item) => <<item.name, item.addr>> \in leased
  /\ \A s \in Slots :
       late[s] # NoRequest /\ Publishes(late[s]) => <<late[s].name, late[s].addr>> \in leased

(* README: "Records outside MANAGED_RECORD_SUFFIX are left unchanged", nor is a
   record of another type ever touched: no step but another writer's edit
   changes a record that is not the service's own. *)
UnmanagedUntouched ==
  [][edits' = edits =>
       \A i \in Ids : zone[i] # NoRecord /\ ~InScope(zone[i]) => zone'[i] = zone[i]]_vars

(* The whole service, with its plans, retries, crashes and late requests, keeps
   the promise stated in ManagedZone. *)
Promise      == INSTANCE ManagedZone WITH zone <- zone, leased <- leased, edits <- edits
KeepsPromise == Promise!Spec

(* When the other writers, the leases and the network leave it in peace, the
   service brings the zone in line with the leases for good, from wherever
   crashes, failures and late requests have taken it. *)
Calm        == CalmStep \/ \E s \in Slots : LateArrives(s)
Convergence == <>[][Calm]_vars => <>[]InSync(zone, source)

(* README: "Dry run computes the same plan and logs planned actions without calling
   Cloudflare mutation endpoints": when nobody else touched the zone, the summary
   of a dry run tells what the zone lacks, as it is when the run is through: a
   create for each wanted name without a record, an update for each with none
   that matches, a delete for each record of the service's own beyond those. *)
Missing  == {n \in Managed : desired[n] # NoAddr /\ RecordsOf(zone, n) = {}}
Resolved(n) == \E i \in RecordsOf(zone, n) : Matches(zone[i], n, desired[n])
Served   == {n \in Managed : desired[n] # NoAddr /\ Resolved(n)}
Outdated == {n \in Managed : desired[n] # NoAddr /\ RecordsOf(zone, n) # {} /\ ~Resolved(n)}
DryRunForetells ==
  pc = "executing" /\ todo = {} /\ dry_run /\ ~disturbed =>
    /\ summary["create"] = Cardinality(Missing)
    /\ summary["update"] = Cardinality(Outdated)
    /\ summary["noop"] = Cardinality(Served)
    /\ summary["delete"] = Cardinality({i \in Ids : Owned(zone, i)})
                             - Cardinality(Outdated) - Cardinality(Served)
    /\ summary["failed"] = 0
=============================================================================
