--------------------------- MODULE ServiceProofs ---------------------------
(***************************************************************************)
(* The composed program implements both its parts and stops only between   *)
(* cycles, for every value of the constants: the two parts keep in step.   *)
(***************************************************************************)
EXTENDS Service, TLAPS

(* sync_once has begun exactly while the main task is in it, and when it has
   returned its locals are gone. *)
InStep ==
  /\ pc # "idle" => mpc \in {"syncing", "publishing"}
  /\ pc = "reading" => mpc = "syncing"
  /\ pc = "executing" => mpc = "publishing"
Blank ==
  pc = "idle" =>
    /\ desired = S!NoWant /\ page = 1 /\ listed = {} /\ attempt = 1 /\ plan = {}
    /\ todo = {} /\ summary = S!NothingDone /\ disturbed = FALSE

IInv == InStep /\ Blank

LEMMA IInit == Init => IInv
BY DEF Init, W!Init, S!Init, IInv, InStep, Blank

(* What a step of a cycle leaves of sync_once's locals. *)
LEMMA CycleStep ==
  ASSUME Blank, S!CalmStep \/ S!TroubledStep, pc \in {"listing", "executing"}
  PROVE  Blank' /\ pc' \in {"idle", "listing", "executing"}
<1>1. CASE S!FetchPage \/ S!FetchLastPage \/ S!ListRetry
  BY <1>1 DEF S!FetchPage, S!FetchLastPage, S!ListRetry, Blank
<1>2. CASE S!ListFails \/ S!EndSync
  BY <1>2 DEF S!ListFails, S!EndSync, S!Forget, S!NoWant, S!NothingDone, S!Counters,
              S!Ops, Blank
<1>3. ASSUME NEW item \in todo,
             \/ S!Skip(item) \/ S!DryRunItem(item) \/ S!Complete(item)
             \/ S!Refuse(item) \/ S!Retry(item) \/ S!Fail(item)
      PROVE  pc' = "executing"
  BY <1>3 DEF S!Skip, S!DryRunItem, S!DryCreate, S!DryUpdate, S!DryDelete, S!Complete,
              S!Refuse, S!Retry, S!Fail, S!Sends, S!Creates, S!Updates, S!Deletes,
              S!Due, S!Handled
<1>4. ~S!StartSync /\ ~S!ReadLeases /\ ~S!ReadFails
  BY DEF S!StartSync, S!ReadLeases, S!ReadFails
<1> QED BY <1>1, <1>2, <1>3, <1>4 DEF S!CalmStep, S!TroubledStep, Blank

LEMMA UnchangedKeeps ==
  ASSUME IInv, UNCHANGED sync, pc # "idle" => mpc' = mpc
  PROVE  IInv'
BY DEF IInv, InStep, Blank, sync, S!NoWant, S!NothingDone

LEMMA ForgetKeeps ==
  ASSUME S!Forget
  PROVE  IInv'
BY DEF IInv, InStep, Blank, S!Forget, S!NoWant, S!NothingDone, S!Counters, S!Ops

LEMMA IStep == IInv /\ [Next]_vars => IInv'
<1> SUFFICES ASSUME IInv, [Next]_vars PROVE IInv'
  OBVIOUS
<1>1. CASE mpc = "syncing" /\ S!StartSync /\ UNCHANGED watch
  BY <1>1 DEF S!StartSync, IInv, InStep, Blank, watch
<1>2. CASE (\E f \in Files : W!ReadFile(f)) /\ S!ReadLeases
  BY <1>2 DEF W!ReadFile, S!ReadLeases, IInv, InStep, Blank
<1>3. CASE pc = "listing" /\ W!Publish /\ UNCHANGED sync
  BY <1>3 DEF W!Publish, IInv, InStep, Blank, sync
<1>4. CASE mpc = "publishing" /\ UNCHANGED watch
             /\ ((pc # "idle" /\ S!CalmStep) \/ S!TroubledStep)
  <2>1. pc \in {"listing", "executing"}
    BY <1>4 DEF S!CalmStep, S!TroubledStep, S!StartSync, S!ReadLeases, S!FetchPage,
                S!FetchLastPage, S!EndSync, S!Skip, S!DryRunItem, S!DryCreate, S!DryUpdate,
                S!DryDelete, S!Complete, S!Sends, S!Creates, S!Updates, S!Deletes,
                S!Due, S!ReadFails, S!ListRetry, S!ListFails, S!Refuse, S!Retry, S!Fail,
                IInv, InStep
  <2>2. Blank' /\ pc' \in {"idle", "listing", "executing"}
    BY <1>4, <2>1, CycleStep DEF IInv
  <2> QED BY <1>4, <2>2 DEF IInv, InStep, watch
<1>5. CASE pc = "idle" /\ (W!EndSync \/ W!Timer \/ Loop) /\ UNCHANGED sync
  BY <1>5, UnchangedKeeps
<1>6. CASE pc = "reading" /\ W!ReadAgain /\ UNCHANGED sync
  BY <1>6, UnchangedKeeps DEF W!ReadAgain
<1>7. CASE W!ReadFails /\ S!ReadFails
  BY <1>7, ForgetKeeps DEF S!ReadFails
<1>8. CASE Watcher
  BY <1>8, UnchangedKeeps
  DEF Watcher, W!Watcher, W!Compare, W!ScanFails, W!Poll, W!Scan, W!main
<1>9. CASE Loop \/ Timer \/ Shutdown
  <2>1. pc = "idle" /\ UNCHANGED sync
    BY <1>9 DEF Loop, Timer, Shutdown, W!PollShutdown, W!Receive, W!Debounced, W!Drain,
                W!Drained, W!Timer, W!Shutdown, IInv, InStep
  <2> QED BY <2>1, UnchangedKeeps
<1>10. CASE FileChanges \/ LeasesMove \/ ZoneMoves
  <2>1. mpc' = mpc
    BY <1>10 DEF FileChanges, LeasesMove, ZoneMoves, W!Change, W!main, watch
  <2>2. /\ UNCHANGED <<pc, desired, page, listed, attempt, plan, todo, summary>>
        /\ disturbed' = (disturbed \/ S!UnderWay) \/ disturbed' = disturbed
           \/ \E s \in Slots : disturbed' = (disturbed \/ (S!UnderWay /\ late[s] \notin plan))
    BY <1>10 DEF FileChanges, LeasesMove, ZoneMoves, S!SourceChange, S!cycle, sync,
                 S!ZoneMoves, S!LateArrives, S!Edit
  <2>3. ASSUME pc = "idle" PROVE disturbed' = FALSE
    <3>1. ~S!UnderWay
      BY <2>3 DEF IInv, Blank, S!UnderWay
    <3>2. disturbed = FALSE
      BY <2>3, Zenon DEF IInv, Blank
    <3> QED BY <2>2, <3>1, <3>2, Zenon
  <2> QED BY <2>1, <2>2, <2>3 DEF IInv, InStep, Blank, S!NoWant, S!NothingDone
<1>11. CASE Restart
  BY <1>11, ForgetKeeps DEF Restart
<1>12. CASE Signal
  <2>1. CASE mpc' = "stopped"
    BY <1>12, <2>1, ForgetKeeps DEF Signal
  <2>2. CASE mpc' # "stopped"
    BY <1>12, <2>2, UnchangedKeeps DEF Signal, W!Signal
  <2> QED BY <2>1, <2>2
<1>13. CASE UNCHANGED vars
  BY <1>13, UnchangedKeeps DEF vars, watch
<1> QED
  BY <1>1, <1>2, <1>3, <1>4, <1>5, <1>6, <1>7, <1>8, <1>9, <1>10, <1>11, <1>12, <1>13
  DEF Next, MainTask, Cycle, Trouble

----------------------------------------------------------------------------
(* A signal that comes when shutdown has been polled once, and the handlers are
   installed, stops the program between two cycles: shutdown is one branch of
   select!, polled again only when sync_once has returned. *)
THEOREM StopsOnlyBetweenCycles == Spec => StopsBetweenCycles
<1>1. IInv /\ [Next]_vars =>
        [mpc # "stopped" /\ mpc' = "stopped" /\ armed => pc = "idle"]_vars
  <2> SUFFICES ASSUME IInv, Next, mpc # "stopped", mpc' = "stopped", armed
               PROVE  pc = "idle"
    OBVIOUS
  <2>1. mpc = "waiting"
    BY DEF Next, MainTask, Cycle, Trouble, Loop, Watcher, Timer, Shutdown, FileChanges,
           LeasesMove, Restart, Signal, ZoneMoves, watch, W!main, W!BeginSync,
           W!ReadFile, W!Publish, W!EndSync, W!PollShutdown, W!ReadAgain, W!ReadFails,
           W!Receive, W!Debounced, W!Drain, W!Drained, W!Watcher, W!Compare, W!ScanFails, W!Poll,
           W!Scan, W!Timer, W!Shutdown, W!Change, W!Restart, W!Signal
  <2> QED BY <2>1 DEF IInv, InStep
<1> QED BY <1>1, IInit, IStep, PTL DEF Spec, StopsBetweenCycles

(* A step of the program is a step of Watch, or none ... *)
LEMMA WatchStep == [Next]_vars => [W!Next]_(W!vars)
<1> SUFFICES ASSUME [Next]_vars PROVE W!Next \/ UNCHANGED watch
  BY DEF watch, W!vars, W!main
<1> QED
  BY DEF Next, MainTask, Cycle, Trouble, Loop, Watcher, Timer, Shutdown, FileChanges,
         LeasesMove, Restart, Signal, ZoneMoves, vars, W!Next, W!MainTask, W!Outside

(* ... and a step of SyncCycle, or none. *)
LEMMA SyncStep == IInv /\ [Next]_vars => [S!Next]_(S!vars)
<1> SUFFICES ASSUME IInv, [Next]_vars PROVE S!Next \/ UNCHANGED sync
  BY DEF sync, S!vars
<1>1. ASSUME S!Forget, UNCHANGED <<zone, late, edits, source, leased, dry_run>>
      PROVE  S!Next \/ UNCHANGED sync
  <2>1. CASE pc = "idle"
    BY <1>1, <2>1 DEF S!Forget, IInv, Blank, sync
  <2>2. CASE pc # "idle"
    BY <1>1, <2>2 DEF S!Next, S!Environment, S!Crash, S!world
  <2> QED BY <2>1, <2>2
<1> QED
  BY <1>1 DEF Next, MainTask, Cycle, Trouble, Loop, Watcher, Timer, Shutdown,
              FileChanges, LeasesMove, Restart, Signal, ZoneMoves, vars, S!Next,
              S!Service, S!CalmStep, S!TroubledStep, S!Environment

(* The program implements its two parts: what holds of them holds of it. *)
THEOREM ImplementsItsParts == Spec => IsComposed
<1>1. Init => W!Init /\ S!Init
  BY DEF Init
<1> QED BY <1>1, IInit, IStep, WatchStep, SyncStep, PTL DEF Spec, IsComposed
=============================================================================
