------------------------------- MODULE Watch -------------------------------
(***************************************************************************)
(* Which changes of the lease files reach a synchronisation, and when: the *)
(* polling watcher of leases/watcher.rs, the bounded channel it wakes the  *)
(* main task by, and the select loop of main.rs with its debounce, its     *)
(* periodic timer and its shutdown.  The two tasks run concurrently; each  *)
(* action is what one of them does between two awaits.                     *)
(*                                                                         *)
(* Of a lease file only its version matters here.  A version is told from  *)
(* another by path, modification time and length, as the watcher does: a   *)
(* change that alters none of them is outside this model.                  *)
(***************************************************************************)
EXTENDS Naturals

CONSTANTS
  Files,        \* the files that may bear the prefix of the lease path
  Capacity,     \* of the channel (32 in the code)
  MaxVersion,   \* bound: how often each file changes
  MaxFaults     \* bound: failing scans and attempts to read, and restarts

ASSUME WatchAssumption ==
  /\ Capacity \in Nat \ {0}
  /\ MaxVersion \in [Files -> Nat]
  /\ MaxFaults \in Nat

VARIABLES
  disk,       \* the version of each file
  faults,     \* how many scans and attempts to read failed, or restarts there were
  signal,     \* SIGTERM or SIGINT: "none", "pending" or "missed"
  wpc,        \* the watcher: "scanning", "sleeping" or, if not enabled, "off"
  status,     \* what `previous` holds: "none" yet, an "err" or an "ok" signature
  previous,   \* the signature itself, when ok
  scanned,    \* the files whose metadata the scan under way has read
  current,    \* the versions it has found
  chan,       \* events in the channel
  mpc,        \* the main task
  toRead,     \* the lease files this cycle has still to read
  tried,      \* history: the version of each file when a cycle last got to it
  armed,      \* shutdown has been polled once: the signal handlers are installed
  covered     \* history: a cycle has started after the first signature

watcher == <<wpc, status, previous, scanned, current>>
main    == <<mpc, toRead, tried, armed, covered>>
vars    == <<disk, faults, signal, wpc, status, previous, scanned, current, chan,
             mpc, toRead, tried, armed, covered>>

MainStates == {"syncing", "publishing", "waiting", "debouncing", "draining", "stopped"}

(* main() spawns the watcher, if LEASE_FILE_WATCH_ENABLED says so, and goes
   straight into the initial sync. *)
Init ==
  /\ disk = [f \in Files |-> 0]
  /\ faults = 0
  /\ signal = "none"
  /\ wpc \in {"scanning", "off"}
  /\ status = "none"
  /\ previous = [f \in Files |-> 0]
  /\ scanned = {}
  /\ current = [f \in Files |-> 0]
  /\ chan = 0
  /\ mpc = "syncing"
  /\ toRead = Files
  /\ tried = [f \in Files |-> 0]
  /\ armed = FALSE
  /\ covered = FALSE

Running == mpc # "stopped"

----------------------------------------------------------------------------
(* The watcher. *)

(* read_signature takes the metadata of one file after another. *)
Scan(f) ==
  /\ Running
  /\ wpc = "scanning"
  /\ f \in Files \ scanned
  /\ scanned' = scanned \cup {f}
  /\ current' = [current EXCEPT ![f] = disk[f]]
  /\ UNCHANGED <<disk, faults, signal, wpc, status, previous, chan, main>>

(* fault: an unbounded channel. *)
TrySendUnbounded == chan' = chan + 1

(* try_send: an event more, unless the channel is full. *)
TrySend == chan' = IF chan < Capacity THEN chan + 1 ELSE chan

(* fault: nothing is sent when a signature follows an error. *)
CompareIgnoringErrors ==
  /\ Running
  /\ wpc = "scanning"
  /\ scanned = Files
  /\ IF status = "ok" /\ previous # current THEN TrySend ELSE UNCHANGED chan
  /\ status' = "ok"
  /\ previous' = current
  /\ wpc' = "sleeping"
  /\ UNCHANGED <<disk, faults, signal, scanned, current, main>>

(* The signature is complete: an event is sent when it differs from the one
   before or follows an error, and it becomes the previous one. *)
Compare ==
  /\ Running
  /\ wpc = "scanning"
  /\ scanned = Files
  /\ IF status = "err" \/ (status = "ok" /\ previous # current)
     THEN TrySend ELSE UNCHANGED chan
  /\ status' = "ok"
  /\ previous' = current
  /\ wpc' = "sleeping"
  /\ UNCHANGED <<disk, faults, signal, scanned, current, main>>

(* fault: an error ends the task. *)
ScanFailsEnding ==
  /\ Running
  /\ wpc = "scanning"
  /\ faults < MaxFaults
  /\ faults' = faults + 1
  /\ status' = "err"
  /\ wpc' = "off"
  /\ UNCHANGED <<disk, signal, previous, scanned, current, chan, main>>

(* The directory or a file cannot be read: a warning, and previous is an error. *)
ScanFails ==
  /\ Running
  /\ wpc = "scanning"
  /\ faults < MaxFaults
  /\ faults' = faults + 1
  /\ status' = "err"
  /\ wpc' = "sleeping"
  /\ UNCHANGED <<disk, signal, previous, scanned, current, chan, main>>

(* time::sleep(interval) is over. *)
Poll ==
  /\ Running
  /\ wpc = "sleeping"
  /\ wpc' = "scanning"
  /\ scanned' = {}
  /\ UNCHANGED <<disk, faults, signal, status, previous, current, chan, main>>

----------------------------------------------------------------------------
(* The main task. *)

(* sync_once is called. *)
BeginSync ==
  /\ mpc' = "syncing"
  /\ toRead' = Files
  /\ covered' = (covered \/ status # "none")

(* read_once comes to one file, in whatever order discover_lease_files gave. *)
ReadFile(f) ==
  /\ mpc = "syncing"
  /\ f \in toRead
  /\ toRead' = toRead \ {f}
  /\ tried' = [tried EXCEPT ![f] = disk[f]]
  /\ UNCHANGED <<disk, faults, signal, watcher, chan, mpc, armed, covered>>

(* All files are read; Cloudflare is brought in line. *)
Publish ==
  /\ mpc = "syncing"
  /\ toRead = {}
  /\ mpc' = "publishing"
  /\ UNCHANGED <<disk, faults, signal, watcher, chan, toRead, tried, armed, covered>>

(* A file cannot be read or parsed: get_ipv4_leases reads them all again ... *)
ReadAgain ==
  /\ mpc = "syncing"
  /\ faults < MaxFaults
  /\ faults' = faults + 1
  /\ toRead' = Files
  /\ UNCHANGED <<disk, signal, watcher, chan, mpc, tried, armed, covered>>

(* ... and, after the last attempt, gives up: the cycle has done with all files
   it has not read, as they are now. *)
ReadFails ==
  /\ mpc = "syncing"
  /\ tried' = [f \in Files |-> IF f \in toRead THEN disk[f] ELSE tried[f]]
  /\ toRead' = {}
  /\ mpc' = "publishing"
  /\ UNCHANGED <<disk, faults, signal, watcher, chan, armed, covered>>

(* fault: the channel is drained after the synchronisation, not before it. *)
EndSyncDraining ==
  /\ mpc = "publishing"
  /\ mpc' = "waiting"
  /\ chan' = 0
  /\ UNCHANGED <<disk, faults, signal, watcher, toRead, tried, armed, covered>>

(* sync_once returns, well or not, and select! is entered. *)
EndSync ==
  /\ mpc = "publishing"
  /\ mpc' = "waiting"
  /\ UNCHANGED <<disk, faults, signal, watcher, chan, toRead, tried, armed, covered>>

(* select! comes to shutdown for the first time and finds no signal: the handlers
   are installed.  It polls its branches from a random one and returns at the
   first that is ready, so an event that is queued may be received before. *)
PollShutdown ==
  /\ mpc = "waiting"
  /\ ~armed
  /\ armed' = TRUE
  /\ UNCHANGED <<disk, faults, signal, watcher, chan, mpc, toRead, tried, covered>>

(* fault: the event is taken and no synchronisation follows. *)
ReceiveForgetting ==
  /\ mpc = "waiting"
  /\ chan > 0
  /\ chan' = chan - 1
  /\ UNCHANGED <<disk, faults, signal, watcher, main>>

(* The three branches of select!. *)
Receive ==
  /\ mpc = "waiting"
  /\ chan > 0
  /\ chan' = chan - 1
  /\ mpc' = "debouncing"
  /\ UNCHANGED <<disk, faults, signal, watcher, toRead, tried, armed, covered>>

(* fault: the sender is dropped when no watcher is spawned; recv gives None at
   once, every round anew, and the interval never gets to its end. *)
TimerStarved ==
  /\ mpc = "waiting"
  /\ armed
  /\ wpc # "off"
  /\ BeginSync
  /\ UNCHANGED <<disk, faults, signal, watcher, chan, tried, armed>>

(* sleep_for(sync_interval) is over.  It is made anew each time select! is entered
   and not over at once, so the other branches have been polled before.  Without
   a watcher recv stays pending, for main keeps the sender. *)
Timer ==
  /\ mpc = "waiting"
  /\ armed
  /\ BeginSync
  /\ UNCHANGED <<disk, faults, signal, watcher, chan, tried, armed>>

(* fault: the signal is raced against the whole loop, cycles included. *)
ShutdownAnywhere ==
  /\ Running
  /\ signal = "pending"
  /\ mpc' = "stopped"
  /\ UNCHANGED <<disk, faults, signal, watcher, chan, toRead, tried, armed, covered>>

Shutdown ==
  /\ mpc = "waiting"
  /\ signal = "pending"
  /\ mpc' = "stopped"
  /\ UNCHANGED <<disk, faults, signal, watcher, chan, toRead, tried, armed, covered>>

(* The debounce window is over; the loop of try_recv begins. *)
Debounced ==
  /\ mpc = "debouncing"
  /\ mpc' = "draining"
  /\ UNCHANGED <<disk, faults, signal, watcher, chan, toRead, tried, armed, covered>>

Drain ==
  /\ mpc = "draining"
  /\ chan > 0
  /\ chan' = chan - 1
  /\ UNCHANGED <<disk, faults, signal, watcher, main>>

Drained ==
  /\ mpc = "draining"
  /\ chan = 0
  /\ BeginSync
  /\ UNCHANGED <<disk, faults, signal, watcher, chan, tried, armed>>

----------------------------------------------------------------------------
(* The outside. *)

(* The DHCP server rewrites, appends to, adds or removes a lease file. *)
Change(f) ==
  /\ disk[f] < MaxVersion[f]
  /\ disk' = [disk EXCEPT ![f] = @ + 1]
  /\ UNCHANGED <<faults, signal, watcher, chan, main>>

(* fault: the handlers are there only while the loop waits, as they would be if
   shutdown_signal() were made anew in each round. *)
SignalUnlatched ==
  /\ Running
  /\ signal = "none"
  /\ IF mpc = "waiting" /\ armed
     THEN signal' = "pending" /\ UNCHANGED mpc
     ELSE signal' = "missed" /\ mpc' \in {mpc, IF armed THEN mpc ELSE "stopped"}
  /\ UNCHANGED <<disk, faults, watcher, chan, toRead, tried, armed, covered>>

(* A signal before the handlers are there, as late as in a cycle that an event
   started, kills the process or, sent to the first process of a container, does
   nothing; later it is kept until the loop polls shutdown again. *)
Signal ==
  /\ Running
  /\ signal = "none"
  /\ IF armed
     THEN signal' = "pending" /\ UNCHANGED mpc
     ELSE signal' = "missed" /\ mpc' \in {mpc, "stopped"}
  /\ UNCHANGED <<disk, faults, watcher, chan, toRead, tried, armed, covered>>

(* The process dies and is started again: only the files are as they were, and
   main() begins anew. *)
Restart ==
  /\ Running
  /\ faults < MaxFaults
  /\ faults' = faults + 1
  /\ signal' = "none"
  /\ wpc' = IF wpc = "off" THEN "off" ELSE "scanning"
  /\ status' = "none"
  /\ previous' = [f \in Files |-> 0]
  /\ scanned' = {}
  /\ current' = [f \in Files |-> 0]
  /\ chan' = 0
  /\ mpc' = "syncing"
  /\ toRead' = Files
  /\ armed' = FALSE
  /\ covered' = FALSE
  /\ UNCHANGED <<disk, tried>>

Watcher == Compare \/ ScanFails \/ Poll \/ \E f \in Files : Scan(f)
MainTask ==
  \/ Publish \/ ReadAgain \/ ReadFails \/ EndSync \/ PollShutdown
  \/ Receive \/ Debounced \/ Drain \/ Drained
  \/ \E f \in Files : ReadFile(f)
Outside == Signal \/ Restart \/ \E f \in Files : Change(f)

Next == Watcher \/ MainTask \/ Timer \/ Shutdown \/ Outside

(* Both tasks are driven by the runtime.  select! polls its branches from a
   random one, so a branch ready again and again is taken.  Nothing is assumed
   of the periodic timer: what is eventually read is read because it changed. *)
Fairness == WF_vars(Watcher) /\ WF_vars(MainTask) /\ SF_vars(Shutdown)
Spec     == Init /\ [][Next]_vars /\ Fairness

----------------------------------------------------------------------------
(* Properties. *)

TypeOK ==
  /\ disk \in [Files -> Nat]
  /\ faults \in Nat
  /\ signal \in {"none", "pending", "missed"}
  /\ wpc \in {"scanning", "sleeping", "off"}
  /\ status \in {"none", "err", "ok"}
  /\ previous \in [Files -> Nat]
  /\ scanned \subseteq Files
  /\ current \in [Files -> Nat]
  /\ chan \in 0..Capacity
  /\ mpc \in MainStates
  /\ toRead \subseteq Files
  /\ tried \in [Files -> Nat]
  /\ armed \in BOOLEAN
  /\ covered \in BOOLEAN

(* A synchronisation that reads f is on its way: under way and not there yet,
   announced in the channel, or about to be announced by the watcher, whose
   scan has found a difference, follows an error, or is bound to find one. *)
SyncComing(f) ==
  \/ mpc \in {"debouncing", "draining"} \/ (mpc = "syncing" /\ f \in toRead)
  \/ chan > 0
  \/ status = "err"
  \/ wpc = "scanning" /\ f \in scanned
       /\ ((status = "ok" /\ current[f] # previous[f]) \/ current[f] # disk[f])
  \/ status = "ok" /\ (wpc = "sleeping" \/ f \notin scanned) /\ previous[f] # disk[f]

(* README: "It also watches the lease CSV file set for changes, applies a short
   debounce window, and then runs a full sync": no change is left to the
   periodic timer ... *)
NoLostWakeup ==
  Running /\ wpc # "off" => \A f \in Files : tried[f] # disk[f] => SyncComing(f)

(* ... once a cycle has started after the watcher's first signature. *)
NoLostWakeupOnceCovered ==
  Running /\ covered => \A f \in Files : tried[f] # disk[f] => SyncComing(f)

(* So every change reaches a cycle, without the timer's help: the version it
   leaves behind is read, or given up on by a cycle that fails. *)
ChangesReachSync ==
  \A f \in Files :
    (covered /\ tried[f] # disk[f]) ~> (tried[f] = disk[f] \/ mpc = "stopped")

(* A signal that finds the handlers installed stops the process, even in the
   middle of a cycle or a debounce and however many events follow, unless the
   process dies of something else before. *)
StopsWhenAsked ==
  []((armed /\ signal = "none" /\ <>(signal # "none")) => <>(mpc = "stopped" \/ ~armed))
=============================================================================
