---------------------------- MODULE ProgramProofs ----------------------------
(***************************************************************************)
(* What the whole program does to the zone.  What no part promises by      *)
(* itself: once the loop waits and nothing is on its way, the zone is what *)
(* the lease file says.  Watch contributes that no change of the file is   *)
(* lost, SyncCycle that a cycle nobody disturbs brings the zone in line;   *)
(* here the two are put together, for every value of the constants and     *)
(* every interleaving.  And what each part promises, the program keeps.    *)
(*                                                                         *)
(* The theorems about the parts are taken from instances of their proof    *)
(* modules.  Their definitions are those of Service's own instances, W and *)
(* S, under other names: the first part of the module says so.             *)
(***************************************************************************)
EXTENDS ServiceProofs

WP == INSTANCE WatchProofs
SP == INSTANCE PlanProofs

----------------------------------------------------------------------------
(* W and WP, S and SP are the same. *)

LEMMA SameWatch == [W!Next]_(W!vars) <=> [WP!Next]_(WP!vars)
<1>1. W!Watcher <=> WP!Watcher
  BY DEF W!Watcher, W!Scan, W!Compare, W!ScanFails, W!Poll, W!Running, W!TrySend, W!main,
         WP!Watcher, WP!Scan, WP!Compare, WP!ScanFails, WP!Poll, WP!Running, WP!TrySend,
         WP!main
<1>2. W!MainTask <=> WP!MainTask
  BY DEF W!MainTask, W!ReadFile, W!Publish, W!ReadAgain, W!ReadFails, W!EndSync,
         W!PollShutdown, W!Receive, W!Debounced, W!Drain, W!Drained, W!BeginSync, W!watcher, W!main,
         WP!MainTask, WP!ReadFile, WP!Publish, WP!ReadAgain, WP!ReadFails, WP!EndSync,
         WP!PollShutdown, WP!Receive, WP!Debounced, WP!Drain, WP!Drained, WP!BeginSync, WP!watcher, WP!main
<1>3. (W!Timer <=> WP!Timer) /\ (W!Shutdown <=> WP!Shutdown)
  BY DEF W!Timer, W!Shutdown, W!BeginSync, W!watcher,
         WP!Timer, WP!Shutdown, WP!BeginSync, WP!watcher
<1>4. W!Outside <=> WP!Outside
  BY DEF W!Outside, W!Change, W!Signal, W!Restart, W!Running, W!watcher, W!main,
         WP!Outside, WP!Change, WP!Signal, WP!Restart, WP!Running, WP!watcher, WP!main
<1> QED BY <1>1, <1>2, <1>3, <1>4 DEF W!Next, W!vars, WP!Next, WP!vars

LEMMA SameComing ==
  /\ W!Init <=> WP!Init
  /\ \A f : W!SyncComing(f) <=> WP!SyncComing(f)
BY DEF W!Init, W!SyncComing, WP!Init, WP!SyncComing

LEMMA SameCardinality ==
  ASSUME NEW x PROVE S!Cardinality(x) = SP!Cardinality(x)
BY DEF S!Cardinality, S!IsFiniteSet, SP!Cardinality, SP!IsFiniteSet

LEMMA SameFetch ==
  (S!FetchPage <=> SP!FetchPage) /\ (S!FetchLastPage <=> SP!FetchLastPage)
<1>1. ASSUME NEW z, NEW p
      PROVE  /\ S!OnPage(z, p, PageSize) = SP!OnPage(z, p, PageSize)
             /\ S!TotalPages(z, PageSize) = SP!TotalPages(z, PageSize)
  BY SameCardinality DEF S!OnPage, S!TotalPages, S!ARecords, S!Position,
     SP!OnPage, SP!TotalPages, SP!ARecords, SP!Position
<1>2. ASSUME NEW listing, NEW n PROVE S!Group(listing, n) = SP!Group(listing, n)
  BY DEF S!Group, S!InScope, SP!Group, SP!InScope
<1>3. ASSUME NEW e, NEW listing, NEW n, NEW a
      PROVE  S!IsPrimary(e, listing, n, a) <=> SP!IsPrimary(e, listing, n, a)
  BY <1>2 DEF S!IsPrimary, S!Candidates, S!SortedBefore, S!Matches,
     SP!IsPrimary, SP!Candidates, SP!SortedBefore, SP!Matches
<1>4. ASSUME NEW e, NEW n, NEW want, NEW listing
      PROVE  S!OpFor(e, n, want, listing) = SP!OpFor(e, n, want, listing)
  BY <1>3 DEF S!OpFor, S!Matches, SP!OpFor, SP!Matches
<1>5. ASSUME NEW want, NEW listing PROVE S!BuildPlan(want, listing) = SP!BuildPlan(want, listing)
  BY <1>2, <1>4 DEF S!BuildPlan, S!NoId, SP!BuildPlan, SP!NoId
<1> QED
  BY <1>1, <1>5 DEF S!FetchPage, S!FetchLastPage, S!Fetched, S!world,
     SP!FetchPage, SP!FetchLastPage, SP!Fetched, SP!world

LEMMA SameApplied ==
  /\ S!FreshIds = SP!FreshIds
  /\ \A z, item, unused : S!Outcomes(z, item, unused) = SP!Outcomes(z, item, unused)
  /\ \A item : S!Applied(item) <=> SP!Applied(item)
<1>1. S!FreshIds = SP!FreshIds
  BY DEF S!FreshIds, SP!FreshIds
<1>2. ASSUME NEW z, NEW item, NEW unused
      PROVE  S!Outcomes(z, item, unused) = SP!Outcomes(z, item, unused)
  BY DEF S!Outcomes, S!Payload, SP!Outcomes, SP!Payload
<1> QED BY <1>1, <1>2 DEF S!Applied, SP!Applied

LEMMA SameItem ==
  ASSUME NEW x
  PROVE  /\ (S!Skip(x) <=> SP!Skip(x)) /\ (S!DryRunItem(x) <=> SP!DryRunItem(x))
         /\ (S!Complete(x) <=> SP!Complete(x)) /\ (S!Refuse(x) <=> SP!Refuse(x))
         /\ (S!Retry(x) <=> SP!Retry(x)) /\ (S!Fail(x) <=> SP!Fail(x))
<1>1. S!Due(x) <=> SP!Due(x)
  BY DEF S!Due, S!Precedes, S!Place, SP!Due, SP!Precedes, SP!Place
<1>2. S!Sends(x) <=> SP!Sends(x)
  BY <1>1 DEF S!Sends, S!Creates, S!Updates, S!Deletes, SP!Sends, SP!Creates, SP!Updates,
              SP!Deletes
<1>3. ASSUME NEW c PROVE S!Handled(x, c) <=> SP!Handled(x, c)
  BY DEF S!Handled, SP!Handled
<1>4. (S!Skip(x) <=> SP!Skip(x)) /\ (S!DryRunItem(x) <=> SP!DryRunItem(x))
  BY <1>1, <1>3 DEF S!Skip, S!DryRunItem, S!DryCreate, S!DryUpdate, S!DryDelete, S!world,
                    SP!Skip, SP!DryRunItem, SP!DryCreate, SP!DryUpdate, SP!DryDelete,
                    SP!world
<1>5. S!Complete(x) <=> SP!Complete(x)
  BY <1>2, <1>3, SameApplied DEF S!Complete, SP!Complete
<1>6. S!Refuse(x) <=> SP!Refuse(x)
  BY <1>2, <1>3, SameApplied DEF S!Refuse, S!world, SP!Refuse, SP!world
<1>7. (S!Retry(x) <=> SP!Retry(x)) /\ (S!Fail(x) <=> SP!Fail(x))
  BY <1>2, <1>3, SameApplied DEF S!Retry, S!Fail, S!Lost, S!Delayed,
     SP!Retry, SP!Fail, SP!Lost, SP!Delayed
<1> QED BY <1>4, <1>5, <1>6, <1>7

LEMMA SamePhases ==
  /\ (S!StartSync <=> SP!StartSync) /\ (S!ReadLeases <=> SP!ReadLeases)
  /\ (S!EndSync <=> SP!EndSync) /\ (S!ReadFails <=> SP!ReadFails)
  /\ (S!ListRetry <=> SP!ListRetry) /\ (S!ListFails <=> SP!ListFails)
  /\ (S!Crash <=> SP!Crash)
<1>1. S!Forget <=> SP!Forget
  BY DEF S!Forget, S!NoWant, S!NothingDone, S!Counters, S!Ops,
         SP!Forget, SP!NoWant, SP!NothingDone, SP!Counters, SP!Ops
<1> QED
  BY <1>1 DEF S!StartSync, S!ReadLeases, S!EndSync, S!ReadFails, S!ListRetry, S!ListFails,
     S!Crash, S!world, SP!StartSync, SP!ReadLeases, SP!EndSync, SP!ReadFails, SP!ListRetry,
     SP!ListFails, SP!Crash, SP!world

LEMMA SameCalm == S!CalmStep <=> SP!CalmStep
BY SameFetch, SamePhases, SameItem DEF S!CalmStep, SP!CalmStep

LEMMA SameSync == [S!Next]_(S!vars) <=> [SP!Next]_(SP!vars)
<1>1. S!SourceChange <=> SP!SourceChange
  BY DEF S!SourceChange, S!PairsOf, S!cycle, SP!SourceChange, SP!PairsOf, SP!cycle
<1>2. ASSUME NEW s PROVE S!LateArrives(s) <=> SP!LateArrives(s)
  BY SameApplied DEF S!LateArrives, S!UnderWay, SP!LateArrives, SP!UnderWay
<1>3. ASSUME NEW i PROVE S!Edit(i) <=> SP!Edit(i)
  BY SameApplied DEF S!Edit, S!UnderWay, S!InScope, SP!Edit, SP!UnderWay, SP!InScope
<1>4. S!ZoneMoves <=> SP!ZoneMoves
  BY <1>2, <1>3 DEF S!ZoneMoves, SP!ZoneMoves
<1>5. S!TroubledStep <=> SP!TroubledStep
  BY SamePhases, SameItem DEF S!TroubledStep, SP!TroubledStep
<1> QED
  BY <1>1, <1>4, <1>5, SameCalm, SamePhases
  DEF S!Next, S!Service, S!Environment, S!vars, SP!Next, SP!Service, SP!Environment, SP!vars

LEMMA SameZone ==
  /\ S!Init <=> SP!Init
  /\ \A z, want : S!InSync(z, want) <=> SP!InSync(z, want)
<1>1. S!Init <=> SP!Init
  BY DEF S!Init, S!PairsOf, S!NoWant, S!NothingDone, S!Counters, S!Ops,
         SP!Init, SP!PairsOf, SP!NoWant, SP!NothingDone, SP!Counters, SP!Ops
<1> QED
  BY <1>1 DEF S!InSync, S!RecordsOf, S!Owned, S!InScope, S!Matches,
              SP!InSync, SP!RecordsOf, SP!Owned, SP!InScope, SP!Matches

(* What the parts assume of their constants. *)
LEMMA PartsAssumptions ==
  /\ WP!WatchAssumption
  /\ SP!ZoneAssumption /\ SP!FiniteAssumption /\ SP!NoRecordAssumption
  /\ SP!RankAssumption /\ SP!SyncCycleAssumption
BY ServiceAssumption
DEF W!WatchAssumption, WP!WatchAssumption, S!ZoneAssumption, S!FiniteAssumption,
    S!NoRecordAssumption, S!RankAssumption, S!SyncCycleAssumption, S!Record, S!Types, S!Opts,
    S!Zones, S!Wants, S!Items, S!Ops, S!NoId, S!IsFiniteSet, SP!ZoneAssumption,
    SP!FiniteAssumption, SP!NoRecordAssumption, SP!RankAssumption, SP!SyncCycleAssumption,
    SP!Record, SP!Types, SP!Opts, SP!Zones, SP!Wants, SP!Items, SP!Ops, SP!NoId,
    SP!IsFiniteSet

----------------------------------------------------------------------------
(* The invariant. *)

(* A cycle does not read a version there has not been yet. *)
Heard == \A f \in Files : tried[f] <= disk[f]

(* Nothing disturbs a cycle that has not listed anything yet. *)
Begun == pc = "reading" => disturbed = FALSE

(* A cycle that has read the file as it is, and that nothing has gone wrong for,
   is one SyncCycle's theorems about a service left alone are about; when it has
   returned, the zone is in line, and stays so until the next one. *)
Returned == pc = "idle" /\ mpc \in {"publishing", "waiting", "debouncing", "draining"}
Settled ==
  fresh /\ (\A f \in Files : tried[f] = disk[f]) =>
    /\ pc \in {"listing", "executing"} => SP!CalmFacts
    /\ Returned => S!InSync(zone, source)

Parts == IInv /\ WP!IInv /\ SP!CycleInv /\ SP!OncePerPage
RInv  == Parts /\ ~dry_run /\ Heard /\ Begun /\ Settled

LEMMA PartsInit == Init => Parts
<1>1. Init => IInv /\ WP!Init /\ SP!Init
  BY IInit, SameComing, SameZone DEF Init
<1>2. WP!Init => WP!IInv
  BY WP!IInit, PartsAssumptions
<1>3. SP!Init => SP!CycleInv
  BY SP!CycleInit, PartsAssumptions
<1>4. SP!Init => SP!OncePerPage
  BY DEF SP!Init, SP!OncePerPage
<1> QED BY <1>1, <1>2, <1>3, <1>4 DEF Parts

LEMMA PartsStep == Parts /\ [Next]_vars => Parts'
<1> SUFFICES ASSUME Parts, [Next]_vars PROVE Parts'
  OBVIOUS
<1>1. IInv' /\ [WP!Next]_(WP!vars) /\ [SP!Next]_(SP!vars)
  BY IStep, WatchStep, SyncStep, SameWatch, SameSync DEF Parts
<1>2. WP!IInv'
  BY <1>1, WP!TypeStep, WP!SeenStep, WP!WakeupStep, PartsAssumptions DEF WP!IInv, Parts
<1>3. SP!CycleInv' /\ SP!OncePerPage'
  BY <1>1, SP!CycleStep, SP!OncePerPageStep, PartsAssumptions DEF Parts
<1> QED BY <1>1, <1>2, <1>3 DEF Parts

(* DRY_RUN is read once, at the start. *)
LEMMA DryRunStays == [Next]_vars => dry_run' = dry_run
BY DEF Next, MainTask, Cycle, Trouble, Loop, Watcher, Timer, Shutdown, FileChanges, LeasesMove,
       Restart, Signal, ZoneMoves, vars, sync, S!StartSync, S!ReadLeases, S!CalmStep,
       S!TroubledStep, S!FetchPage, S!FetchLastPage, S!EndSync, S!Skip, S!DryRunItem,
       S!DryCreate, S!DryUpdate, S!DryDelete,
       S!Complete, S!ReadFails, S!ListRetry, S!ListFails, S!Refuse, S!Retry, S!Fail,
       S!SourceChange, S!ZoneMoves, S!LateArrives, S!Edit, S!world

LEMMA HeardStep == WP!TypeOK /\ Heard /\ [WP!Next]_(WP!vars) => Heard'
BY DEF WP!TypeOK, Heard, WP!Next, WP!Watcher, WP!MainTask, WP!Outside, WP!Scan, WP!Compare,
       WP!ScanFails, WP!Poll, WP!ReadFile, WP!Publish, WP!ReadAgain, WP!ReadFails, WP!EndSync,
       WP!PollShutdown, WP!Receive, WP!Timer, WP!Shutdown, WP!Debounced, WP!Drain, WP!Drained, WP!BeginSync,
       WP!Change, WP!Signal, WP!Restart, WP!main, WP!watcher, WP!vars

LEMMA BegunStep == Parts /\ Begun /\ [Next]_vars => Begun'
<1> SUFFICES ASSUME Parts, Begun, [Next]_vars, pc' = "reading" PROVE disturbed' = FALSE
  BY DEF Begun
<1>1. [S!Next]_(S!vars) /\ Blank
  BY SyncStep DEF Parts, IInv
<1>2. CASE pc = "reading"
  <2>1. disturbed = FALSE /\ ~S!UnderWay
    BY <1>2 DEF Begun, Parts, SP!CycleInv, SP!CycleFacts, SP!Phases, S!UnderWay
  <2> QED
    BY <1>1, <1>2, <2>1 DEF S!Next, S!Service, S!CalmStep, S!TroubledStep, S!Environment,
       S!StartSync, S!ReadLeases, S!FetchPage, S!FetchLastPage, S!EndSync, S!Skip,
       S!DryRunItem, S!DryCreate, S!DryUpdate, S!DryDelete, S!Complete, S!ReadFails,
       S!ListRetry, S!ListFails, S!Refuse, S!Retry,
       S!Fail, S!Sends, S!Creates, S!Updates, S!Deletes, S!Due, S!Crash, S!Forget,
       S!SourceChange, S!ZoneMoves,
       S!LateArrives, S!Edit, S!cycle, S!vars
<1>3. CASE pc # "reading"
  <2>1. S!StartSync
    BY <1>1, <1>3 DEF S!Next, S!Service, S!CalmStep, S!TroubledStep, S!Environment,
       S!ReadLeases, S!FetchPage, S!FetchLastPage, S!EndSync, S!Skip,
       S!DryRunItem, S!DryCreate, S!DryUpdate, S!DryDelete, S!Complete, S!ReadFails,
       S!ListRetry, S!ListFails, S!Refuse, S!Retry,
       S!Fail, S!Sends, S!Creates, S!Updates, S!Deletes, S!Due, S!Handled, S!Crash,
       S!Forget, S!SourceChange, S!ZoneMoves,
       S!LateArrives, S!Edit, S!cycle, S!world, S!vars
  <2>2. pc = "idle" /\ disturbed' = disturbed
    BY <2>1 DEF S!StartSync
  <2> QED BY <1>1, <2>2, Zenon DEF Blank
<1> QED BY <1>2, <1>3

----------------------------------------------------------------------------
(* Each kind of step keeps what is settled. *)

(* The file is read as it is: the cycle that begins has nothing against it. *)
LEMMA ReadSettles ==
  ASSUME Parts, Parts', Begun, ~dry_run, S!ReadLeases
  PROVE  Settled'
<1>1. /\ pc = "reading" /\ pc' = "listing" /\ desired' = source /\ source' = source
      /\ disturbed' = disturbed /\ dry_run' = dry_run /\ summary' = summary
  BY DEF S!ReadLeases, S!world
<1>2. ~disturbed /\ summary = SP!NothingDone
  BY <1>1 DEF Parts, Begun, SP!CycleInv, SP!CycleFacts, SP!Phases
<1>3. SP!CalmFacts'
  BY <1>1, <1>2 DEF SP!CalmFacts, SP!Tasks, SP!NothingDone, SP!Counters
<1> QED BY <1>1, <1>3 DEF Settled, Returned

(* The cycle goes on undisturbed; at its end the zone is in line. *)
LEMMA CalmSettles ==
  ASSUME Parts, Settled, pc # "idle", mpc = "publishing", S!CalmStep,
         UNCHANGED <<watch, fresh>>
  PROVE  Settled'
<1> SUFFICES ASSUME fresh, \A f \in Files : tried[f] = disk[f]
             PROVE  SP!CalmFacts' /\ (Returned' => S!InSync(zone, source)')
  BY DEF Settled, watch
<1>1. pc \in {"listing", "executing"}
  BY DEF Parts, IInv, InStep, SP!CycleInv, SP!TypeOK
<1>2. SP!CalmInv /\ SP!CalmStep
  BY <1>1, SameCalm DEF Settled, Parts, SP!CalmInv
<1>3. SP!CalmInv'
  BY <1>2, SP!CalmKeeps, PartsAssumptions
<1>4. ASSUME pc' = "idle" PROVE S!InSync(zone, source)'
  <2>1. S!EndSync
    BY <1>1, <1>4 DEF S!CalmStep, S!StartSync, S!ReadLeases, S!FetchPage, S!FetchLastPage,
       S!Skip, S!DryRunItem, S!DryCreate, S!DryUpdate, S!DryDelete, S!Complete, S!Sends,
       S!Creates, S!Updates, S!Deletes, S!Due, S!Handled
  <2>2. /\ pc = "executing" /\ todo = {} /\ zone' = zone /\ source' = source
    BY <2>1 DEF S!EndSync, S!world
  <2>3. SP!InSync(zone, desired)
    BY <1>2, <2>2, SP!CalmReaches, PartsAssumptions DEF SP!PlanReachesDesired
  <2>4. desired = source
    BY <1>2, <2>2 DEF SP!CalmInv, SP!CalmFacts
  <2> QED BY <2>2, <2>3, <2>4, SameZone
<1> QED BY <1>3, <1>4 DEF SP!CalmInv, Returned

(* A step that is none of the cycle's business. *)
LEMMA OthersSettle ==
  ASSUME Settled, UNCHANGED <<sync, disk, tried>>, fresh' => fresh, Returned' => Returned
  PROVE  Settled'
<1>1. SP!CalmFacts' <=> SP!CalmFacts
  BY DEF sync, SP!CalmFacts, SP!Tasks, SP!RecordsOf, SP!Owned
<1>2. S!InSync(zone, source)' <=> S!InSync(zone, source)
  BY DEF sync, S!InSync, S!RecordsOf, S!Owned
<1> QED BY <1>1, <1>2 DEF Settled, sync

LEMMA SettledStep == RInv /\ [Next]_vars => Settled'
<1> SUFFICES ASSUME RInv, [Next]_vars PROVE Settled'
  OBVIOUS
<1>0. Parts /\ Parts' /\ Settled /\ InStep /\ InStep' /\ ~dry_run /\ Heard /\ Begun
  BY PartsStep DEF RInv, Parts, IInv
<1>1. CASE mpc = "syncing" /\ S!StartSync /\ UNCHANGED watch
  BY <1>1 DEF S!StartSync, Settled, Returned
<1>2. CASE (\E f \in Files : W!ReadFile(f)) /\ S!ReadLeases
  BY <1>0, <1>2, ReadSettles
<1>3. CASE pc = "listing" /\ W!Publish /\ UNCHANGED sync /\ UNCHANGED fresh
  BY <1>0, <1>3, OthersSettle DEF W!Publish, Returned, sync
<1>4. CASE mpc = "publishing" /\ pc # "idle" /\ S!CalmStep /\ UNCHANGED <<watch, fresh>>
  BY <1>0, <1>4, CalmSettles
<1>5. CASE pc = "idle" /\ W!EndSync /\ UNCHANGED sync /\ UNCHANGED fresh
  BY <1>0, <1>5, OthersSettle DEF W!EndSync, Returned
<1>6. CASE Loop /\ UNCHANGED fresh
  BY <1>0, <1>6, OthersSettle
  DEF Loop, W!PollShutdown, W!Receive, W!Debounced, W!Drain, W!Drained, W!BeginSync, W!main,
      Returned, InStep, sync
<1>7. CASE fresh' = FALSE
  BY <1>7 DEF Settled
<1>8. CASE Watcher
  BY <1>0, <1>8, OthersSettle
  DEF Watcher, W!Watcher, W!Compare, W!ScanFails, W!Poll, W!Scan, W!main, Returned, sync
<1>9. CASE Timer \/ Shutdown
  BY <1>0, <1>9, OthersSettle
  DEF Timer, Shutdown, W!Timer, W!Shutdown, W!BeginSync, Returned, sync
<1>10. CASE FileChanges
  <2>1. PICK f \in Files : W!Change(f)
    BY <1>10 DEF FileChanges
  <2>2. tried'[f] # disk'[f]
    BY <1>0, <2>1 DEF W!Change, W!main, Heard, Parts, WP!IInv, WP!TypeOK
  <2> QED BY <2>2 DEF Settled
<1>11. CASE Signal
  <2>1. CASE mpc' = "stopped"
    <3>1. pc' = "idle"
      BY <1>11, <2>1 DEF Signal, S!Forget
    <3> QED BY <2>1, <3>1 DEF Settled, Returned
  <2>2. CASE mpc' # "stopped"
    BY <1>0, <1>11, <2>2, OthersSettle DEF Signal, W!Signal, Returned, sync
  <2> QED BY <2>1, <2>2
<1>12. CASE UNCHANGED vars
  BY <1>0, <1>12, OthersSettle DEF vars, watch, Returned, sync
<1> QED
  BY <1>1, <1>2, <1>3, <1>4, <1>5, <1>6, <1>7, <1>8, <1>9, <1>10, <1>11, <1>12
  DEF Next, MainTask, Cycle, LeasesMove, Restart, ZoneMoves

LEMMA RInit == TRUE \notin DryRuns /\ Init => RInv
<1> SUFFICES ASSUME TRUE \notin DryRuns, Init PROVE RInv
  OBVIOUS
<1>1. ~dry_run
  BY ServiceAssumption DEF Init, S!Init, S!SyncCycleAssumption
<1>2. Heard /\ Begun /\ Settled
  BY DEF Init, W!Init, S!Init, Heard, Begun, Settled, Returned
<1> QED BY <1>1, <1>2, PartsInit DEF RInv

LEMMA RStep == RInv /\ [Next]_vars => RInv'
<1> SUFFICES ASSUME RInv, [Next]_vars PROVE RInv'
  OBVIOUS
<1>1. Parts' /\ ~dry_run'
  BY PartsStep, DryRunStays DEF RInv
<1>2. Heard'
  <2>1. WP!TypeOK /\ [WP!Next]_(WP!vars)
    BY WatchStep, SameWatch DEF RInv, Parts, WP!IInv
  <2> QED BY <2>1, HeardStep DEF RInv
<1> QED BY <1>1, <1>2, BegunStep, SettledStep DEF RInv

(* README: "It also watches the lease CSV file set for changes ... and then runs
   a full sync": whenever the loop waits with no event queued and the watcher has
   nothing to tell, and nothing has gone wrong since the file last changed, the
   zone is what the lease file says. *)
THEOREM AtRestAlways == TRUE \notin DryRuns /\ Spec => []AtRest
<1>1. RInv => AtRest
  <2> SUFFICES ASSUME RInv, covered, fresh, mpc = "waiting",
                      ~(\E f \in Files : W!SyncComing(f))
               PROVE  S!InSync(zone, source)
    BY DEF AtRest
  <2>1. \A f \in Files : tried[f] = disk[f]
    BY SameComing DEF RInv, Parts, WP!IInv, WP!NoLostWakeupOnceCovered, WP!Running
  <2>2. Returned
    BY DEF Returned, RInv, Parts, IInv, InStep
  <2> QED BY <2>1, <2>2 DEF RInv, Settled
<1>2. TRUE \notin DryRuns /\ Spec => []RInv
  BY RInit, RStep, PTL DEF Spec
<1> QED BY <1>1, <1>2, PTL

----------------------------------------------------------------------------
(* What is proved of the parts holds of the program: by the same invariants, since
   each step of the program is one of the part or leaves its variables alone. *)

LEMMA PartsAlways == Spec => []Parts
BY PartsInit, PartsStep, PTL DEF Spec

(* With the watcher, the main loop and the signals around it the service still
   keeps the promise of ManagedZone, and no step of it changes a record that is
   not its own. *)
THEOREM ProgramKeepsPromise ==
  ASSUME ~EditorRefiles
  PROVE  Spec => SP!KeepsPromise /\ SP!UnmanagedUntouched
<1> DEFINE Inv == IInv /\ SP!IInv
<1>1. Init => Inv /\ SP!Promise!Init
  BY IInit, SameZone, SP!IInit, SP!PromiseInit, PartsAssumptions DEF Init
<1>2. Inv /\ [Next]_vars => Inv' /\ [SP!Next]_(SP!vars)
  BY IStep, SyncStep, SameSync, SP!IStep, PartsAssumptions
<1>3. Inv /\ [Next]_vars => [SP!Promise!Next]_(SP!Promise!mzVars)
  BY <1>2, SP!PromiseStep, PartsAssumptions
<1>4. Inv /\ [Next]_vars =>
        [edits' = edits =>
           \A i \in Ids : zone[i] # NoRecord /\ ~SP!InScope(zone[i]) => zone'[i] = zone[i]]_(SP!vars)
  <2> SUFFICES ASSUME Inv, [Next]_vars, edits' = edits,
                      NEW i \in Ids, zone[i] # NoRecord, ~SP!InScope(zone[i])
               PROVE  zone'[i] = zone[i]
    OBVIOUS
  <2>1. zone \in SP!Zones /\ edits \in Nat
    BY DEF SP!IInv, SP!TypeOK
  <2> QED BY <1>3, <2>1, SP!PromiseSpares, PartsAssumptions
<1> HIDE DEF Inv
<1>5. Spec => SP!KeepsPromise
  BY <1>1, <1>2, <1>3, PTL DEF Spec, SP!KeepsPromise, SP!Promise!Spec
<1>6. Spec => SP!UnmanagedUntouched
  BY <1>1, <1>2, <1>4, PTL DEF Spec, SP!UnmanagedUntouched
<1> QED BY <1>5, <1>6

(* In the program, too, and whatever the file does meanwhile: in a cycle that no
   other writer and no late request of an earlier cycle disturbs, a wanted name
   that was listed keeps a record, one that was listed right goes on resolving,
   and a cycle that does without a failure what it planned (no DRY_RUN) leaves all
   managed names right; and any plan has no more writes and deletes for a name
   than MinimalPlan counts for the entries of its listing. *)
THEOREM ProgramServes ==
  Spec => [](SP!NeverVanishes /\ SP!ServesThroughout /\ SP!CleanCycleServes /\ SP!MinimalPlan)
<1>1. Parts => /\ SP!NeverVanishes /\ SP!ServesThroughout
               /\ SP!CleanCycleServes /\ SP!MinimalPlan
  BY SP!NeverVanishesHolds, SP!ServesHolds, SP!CleanCycleHolds, SP!MinimalHolds,
     PartsAssumptions DEF Parts
<1> QED BY <1>1, PartsAlways, PTL

(* No change of the lease file is lost between the watcher and the main loop while
   real cycles, which fail, retry and take their time, are run. *)
THEOREM ProgramMissesNoChange == Spec => []WP!NoLostWakeupOnceCovered
<1>1. Parts => WP!NoLostWakeupOnceCovered
  BY DEF Parts, WP!IInv
<1> QED BY <1>1, PartsAlways, PTL
=============================================================================
