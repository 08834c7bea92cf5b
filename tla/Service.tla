------------------------------ MODULE Service ------------------------------
(***************************************************************************)
(* The whole program: the watcher and the main loop of Watch, whose        *)
(* synchronisations are the cycles of SyncCycle.  What one part does       *)
(* together with the other is one step of both: the read of the lease file *)
(* gives the cycle its desired state, a failed read ends the cycle, and a  *)
(* crash takes both at once.                                               *)
(*                                                                         *)
(* The lease file is one here (LeaseFiles has the several), so that what   *)
(* is read of it is what it holds at one moment.  Its contents, under the  *)
(* clock, are `source`; `disk` is the signature the watcher tells it by.   *)
(***************************************************************************)
EXTENDS Naturals

CONSTANTS
  Files, Capacity, MaxVersion, MaxFaults,                       \* of Watch
  Ids, Managed, RawNames, KeyOf, NotManaged, Addrs, NoAddr, NoRecord, Rank,
  PageSize, MaxRetries, Slots, NoRequest, MaxEdits, EditorRecords,
  EditorRefiles, Sources, InitZones, DryRuns                    \* of SyncCycle

VARIABLES
  disk, faults, signal, wpc, status, previous, scanned, current, chan,
  mpc, toRead, tried, armed, covered,                           \* of Watch
  zone, late, edits, source, leased, dry_run, pc, desired, page, listed,
  attempt, plan, todo, summary, disturbed,                      \* of SyncCycle
  fresh  \* history: nothing went wrong since the file last changed

W == INSTANCE Watch
S == INSTANCE SyncCycle

ASSUME ServiceAssumption ==
  /\ \A f, g \in Files : f = g
  (* what the two parts assume of their constants *)
  /\ W!WatchAssumption
  /\ S!ZoneAssumption /\ S!FiniteAssumption /\ S!NoRecordAssumption
  /\ S!RankAssumption /\ S!SyncCycleAssumption

watch == <<disk, faults, signal, wpc, status, previous, scanned, current, chan,
           mpc, toRead, tried, armed, covered>>
sync  == <<zone, late, edits, source, leased, dry_run, pc, desired, page, listed,
           attempt, plan, todo, summary, disturbed>>
vars  == <<watch, sync, fresh>>

Init == W!Init /\ S!Init /\ fresh = TRUE

----------------------------------------------------------------------------
(* The main task.  sync_once runs while mpc is "syncing", up to the read of
   the leases, and "publishing"; select! is polled when it has returned. *)

Cycle ==
  \/ mpc = "syncing" /\ S!StartSync /\ UNCHANGED watch
  \/ (\E f \in Files : W!ReadFile(f)) /\ S!ReadLeases
  \/ pc = "listing" /\ W!Publish /\ UNCHANGED sync
  \/ mpc = "publishing" /\ pc # "idle" /\ S!CalmStep /\ UNCHANGED watch
  \/ pc = "idle" /\ W!EndSync /\ UNCHANGED sync

(* fault: a lease file that cannot be read counts as one without leases. *)
TroubleReadAsEmpty ==
  \/ pc = "reading" /\ W!ReadAgain /\ UNCHANGED sync
  \/ /\ W!ReadFails
     /\ desired' = S!NoWant /\ pc' = "listing"
     /\ UNCHANGED <<zone, late, edits, source, leased, dry_run, page, listed, attempt,
                    plan, todo, summary, disturbed>>
  \/ mpc = "publishing" /\ S!TroubledStep /\ UNCHANGED watch

(* An error of sync_once is logged and the loop goes on. *)
Trouble ==
  \/ pc = "reading" /\ W!ReadAgain /\ UNCHANGED sync
  \/ W!ReadFails /\ S!ReadFails
  \/ mpc = "publishing" /\ S!TroubledStep /\ UNCHANGED watch

Loop ==
  /\ W!PollShutdown \/ W!Receive \/ W!Debounced \/ W!Drain \/ W!Drained
  /\ UNCHANGED sync

MainTask ==
  \/ (Cycle \/ Loop) /\ UNCHANGED fresh
  \/ Trouble /\ fresh' = FALSE

Watcher  == W!Watcher /\ UNCHANGED <<sync, fresh>>
Timer    == W!Timer /\ UNCHANGED <<sync, fresh>>
Shutdown == W!Shutdown /\ UNCHANGED <<sync, fresh>>

----------------------------------------------------------------------------
(* The outside. *)

(* The lease file is written; what it gives may be as before. *)
FileChanges ==
  /\ \E f \in Files : W!Change(f)
  /\ S!SourceChange \/ UNCHANGED sync
  /\ fresh' = TRUE

(* A lease expires, or the file changes in a way its signature does not show. *)
LeasesMove == S!SourceChange /\ UNCHANGED watch /\ fresh' = FALSE

(* The process dies, perhaps in the middle of a cycle, and is started again. *)
Restart ==
  /\ W!Restart
  /\ S!Forget
  /\ UNCHANGED <<zone, late, edits, source, leased, dry_run>>
  /\ fresh' = FALSE

(* A signal before the handlers are there may end a cycle, too. *)
Signal ==
  /\ W!Signal
  /\ IF mpc' = "stopped"
     THEN S!Forget /\ UNCHANGED <<zone, late, edits, source, leased, dry_run>>
     ELSE UNCHANGED sync
  /\ UNCHANGED fresh

ZoneMoves == S!ZoneMoves /\ UNCHANGED watch /\ fresh' = FALSE

Next ==
  \/ MainTask \/ Watcher \/ Timer \/ Shutdown
  \/ FileChanges \/ LeasesMove \/ Restart \/ Signal \/ ZoneMoves

Fairness == WF_vars(Watcher) /\ WF_vars(MainTask) /\ SF_vars(Shutdown)
Spec     == Init /\ [][Next]_vars /\ Fairness

----------------------------------------------------------------------------
(* Properties. *)

(* The program is the main loop of Watch, and what its synchronisations do to the
   zone is what SyncCycle does, crashes and failed reads included: what holds of
   all behaviours of either holds here. *)
IsComposed ==
  /\ W!Init /\ [][W!Next]_(W!vars)
  /\ S!Init /\ [][S!Next]_(S!vars)

(* When the loop waits, no event is queued and the watcher has nothing to tell,
   the zone is what the lease file says: a change that came in the middle of a
   cycle, of the debounce or of a scan has not been taken for an old one. *)
AtRest ==
  covered /\ fresh /\ mpc = "waiting" /\ ~(\E f \in Files : W!SyncComing(f))
    => S!InSync(zone, source)

(* README: "It also watches the lease CSV file set for changes ... and then runs
   a full sync": the zone follows a change of the lease file with no help of the
   timer, unless something else goes wrong. *)
ChangeReachesZone ==
  covered /\ fresh /\ tried # disk
    ~> S!InSync(zone, source) \/ ~fresh \/ mpc = "stopped"

(* The periodic timer mends all the rest: failed cycles, edits of others, leases
   that expire, changes no signature shows, a watcher that is not there.  When
   they come to an end the zone is, and stays, what the leases say. *)
Quiet ==
  \/ (Cycle \/ Loop) /\ UNCHANGED fresh
  \/ Watcher \/ Timer \/ Signal \/ Shutdown
  \/ (\E s \in Slots : S!LateArrives(s)) /\ UNCHANGED watch /\ fresh' = FALSE
Mirrors ==
  WF_vars(Timer) /\ <>[][Quiet]_vars
    => <>[](S!InSync(zone, source) \/ mpc = "stopped")

(* A signal that finds the handlers installed stops the program between two
   cycles: no plan is left half carried out.  (One that comes before may end it in
   the middle of a plan, also in a cycle started by an event.) *)
StopsBetweenCycles ==
  [][mpc # "stopped" /\ mpc' = "stopped" /\ armed => pc = "idle"]_vars
=============================================================================
