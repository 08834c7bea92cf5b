---------------------------- MODULE WatchProofs ----------------------------
(***************************************************************************)
(* No change of a lease file is lost between the watcher and the main      *)
(* task, for any set of files, any capacity of the channel and any         *)
(* interleaving, once a cycle has started after the first signature.       *)
(***************************************************************************)
EXTENDS Watch, TLAPS

(* What the two tasks have seen of a file is never newer than the file, and a
   covered main task has a watcher that knows a signature or an error, which a
   watcher that is off never does. *)
SeenIsOld ==
  /\ \A f \in Files : previous[f] <= disk[f] /\ current[f] <= disk[f]
  /\ covered => status # "none"
  /\ wpc = "off" => status = "none"

IInv == TypeOK /\ SeenIsOld /\ NoLostWakeupOnceCovered

LEMMA TypeInit == Init => TypeOK
<1> SUFFICES ASSUME Init PROVE TypeOK
  OBVIOUS
<1>1. armed \in BOOLEAN /\ covered \in BOOLEAN
  BY DEF Init
<1>2. chan \in 0..Capacity
  BY WatchAssumption DEF Init
<1> QED BY <1>1, <1>2 DEF Init, TypeOK, MainStates

LEMMA TypeStep == TypeOK /\ [Next]_vars => TypeOK'
<1> SUFFICES ASSUME TypeOK, [Next]_vars PROVE TypeOK'
  OBVIOUS
<1> USE DEF TypeOK, MainStates
<1>1. ASSUME NEW f \in Files, Scan(f) PROVE TypeOK'
  BY <1>1 DEF Scan, main
<1>2. CASE Compare
  BY <1>2, WatchAssumption DEF Compare, TrySend, main
<1>3. CASE ScanFails
  BY <1>3 DEF ScanFails, main
<1>4. CASE Poll
  BY <1>4 DEF Poll, main
<1>5. ASSUME NEW f \in Files, ReadFile(f) PROVE TypeOK'
  BY <1>5 DEF ReadFile, watcher
<1>6. CASE Publish
  BY <1>6 DEF Publish, watcher
<1>7. CASE ReadAgain
  BY <1>7 DEF ReadAgain, watcher
<1>8. CASE ReadFails
  BY <1>8 DEF ReadFails, watcher
<1>9. CASE EndSync \/ PollShutdown
  BY <1>9 DEF EndSync, PollShutdown, watcher
<1>10. CASE Receive
  BY <1>10, WatchAssumption DEF Receive, watcher
<1>11. CASE Timer
  BY <1>11 DEF Timer, BeginSync, watcher
<1>12. CASE Shutdown
  BY <1>12 DEF Shutdown, watcher
<1>13. CASE Debounced
  BY <1>13 DEF Debounced, watcher
<1>14. CASE Drain
  BY <1>14, WatchAssumption DEF Drain, watcher, main
<1>15. CASE Drained
  BY <1>15 DEF Drained, BeginSync, watcher
<1>16. ASSUME NEW f \in Files, Change(f) PROVE TypeOK'
  BY <1>16 DEF Change, watcher, main
<1>17. CASE Signal
  BY <1>17 DEF Signal, watcher
<1>18. CASE Restart
  <2>1. armed' \in BOOLEAN /\ covered' \in BOOLEAN
    BY <1>18 DEF Restart
  <2>2. /\ wpc' \in {"scanning", "sleeping", "off"} /\ chan' \in 0..Capacity
        /\ previous' \in [Files -> Nat] /\ current' \in [Files -> Nat]
        /\ faults' \in Nat
    BY <1>18, WatchAssumption DEF Restart
  <2> QED BY <1>18, <2>1, <2>2 DEF Restart
<1>19. CASE UNCHANGED vars
  BY <1>19 DEF vars
<1> QED
  BY <1>1, <1>2, <1>3, <1>4, <1>5, <1>6, <1>7, <1>8, <1>9, <1>10, <1>11, <1>12,
     <1>13, <1>14, <1>15, <1>16, <1>17, <1>18, <1>19
  DEF Next, Watcher, MainTask, Outside

(* Versions only grow, scans only copy them. *)
LEMMA SeenStep == TypeOK /\ SeenIsOld /\ [Next]_vars => SeenIsOld'
<1> SUFFICES ASSUME TypeOK, SeenIsOld, [Next]_vars PROVE SeenIsOld'
  OBVIOUS
<1> USE DEF TypeOK, SeenIsOld
<1>1. ASSUME NEW f \in Files, Scan(f) PROVE SeenIsOld'
  BY <1>1 DEF Scan, main
<1>2. CASE Compare \/ ScanFails \/ Poll
  BY <1>2 DEF Compare, ScanFails, Poll, main
<1>3. CASE Timer \/ Drained
  BY <1>3 DEF Timer, Drained, BeginSync, watcher
<1>4. ASSUME NEW f \in Files, ReadFile(f) PROVE SeenIsOld'
  BY <1>4 DEF ReadFile, watcher
<1>5. CASE Publish \/ ReadAgain \/ ReadFails \/ EndSync \/ PollShutdown \/ Receive
             \/ Shutdown \/ Debounced \/ Drain \/ Signal
  BY <1>5 DEF Publish, ReadAgain, ReadFails, EndSync, PollShutdown, Receive, Shutdown,
              Debounced, Drain, Signal, watcher, main
<1>6. ASSUME NEW f \in Files, Change(f) PROVE SeenIsOld'
  BY <1>6 DEF Change, watcher, main
<1>7. CASE Restart
  BY <1>7 DEF Restart
<1>8. CASE UNCHANGED vars
  BY <1>8 DEF vars
<1> QED
  BY <1>1, <1>2, <1>3, <1>4, <1>5, <1>6, <1>7, <1>8 DEF Next, Watcher, MainTask, Outside

(* The heart of it: whatever a step does, a file a cycle has not tried as it is
   now still has a synchronisation coming. *)
LEMMA WakeupStep == IInv /\ [Next]_vars => NoLostWakeupOnceCovered'
<1> SUFFICES ASSUME IInv, [Next]_vars, Running', covered',
                    NEW g \in Files, tried'[g] # disk'[g]
             PROVE  SyncComing(g)'
  BY DEF NoLostWakeupOnceCovered
<1> USE DEF IInv, TypeOK, MainStates, Running
<1>a. ASSUME covered, Running, tried[g] # disk[g] PROVE SyncComing(g)
  BY <1>a DEF NoLostWakeupOnceCovered
<1>b. previous[g] <= disk[g] /\ current[g] <= disk[g] /\ (covered => status # "none")
      /\ (wpc = "off" => status = "none")
  BY DEF SeenIsOld
<1>1. ASSUME NEW f \in Files, Scan(f) PROVE SyncComing(g)'
  BY <1>1, <1>a DEF Scan, main, SyncComing
<1>2. CASE Compare
  <2>1. SyncComing(g) /\ status # "none"
    BY <1>2, <1>a, <1>b DEF Compare, main
  <2>2. CASE chan > 0 \/ status = "err" \/ current[g] # previous[g]
    <3>1. chan' > 0
      BY <1>2, <2>1, <2>2, WatchAssumption DEF Compare, TrySend
    <3> QED BY <3>1 DEF SyncComing
  <2>3. CASE status = "ok" /\ current[g] # disk[g]
    BY <1>2, <2>3 DEF Compare, SyncComing
  <2> QED BY <1>2, <2>1, <2>2, <2>3 DEF Compare, main, SyncComing
<1>3. CASE ScanFails
  BY <1>3 DEF ScanFails, SyncComing
<1>4. CASE Poll
  BY <1>4, <1>a DEF Poll, main, SyncComing
<1>5. ASSUME NEW f \in Files, ReadFile(f) PROVE SyncComing(g)'
  BY <1>5, <1>a DEF ReadFile, watcher, SyncComing
<1>6. CASE Publish \/ EndSync \/ PollShutdown
  <2>1. UNCHANGED <<disk, wpc, status, previous, scanned, current, chan, tried, covered>>
    BY <1>6 DEF Publish, EndSync, PollShutdown, watcher
  <2>2. Running /\ ~(mpc \in {"debouncing", "draining"})
        /\ ~(mpc = "syncing" /\ g \in toRead)
    BY <1>6 DEF Publish, EndSync, PollShutdown
  <2>3. SyncComing(g)
    BY <1>a, <2>1, <2>2
  <2> QED BY <2>1, <2>2, <2>3 DEF SyncComing
<1>7. CASE ReadAgain \/ Timer \/ Drained
  BY <1>7 DEF ReadAgain, Timer, Drained, BeginSync, SyncComing
<1>8. CASE ReadFails
  BY <1>8, <1>a DEF ReadFails, watcher, SyncComing
<1>9. CASE Receive \/ Debounced \/ Drain
  BY <1>9 DEF Receive, Debounced, Drain, main, SyncComing
<1>10. CASE Shutdown
  BY <1>10 DEF Shutdown
<1>11. ASSUME NEW f \in Files, Change(f) PROVE SyncComing(g)'
  <2>1. CASE f # g
    BY <1>11, <2>1, <1>a DEF Change, watcher, main, SyncComing
  <2>2. CASE f = g
    <3>1. disk'[g] = disk[g] + 1 /\ previous[g] # disk'[g] /\ current[g] # disk'[g]
      BY <1>11, <2>2, <1>b DEF Change
    <3> QED BY <1>11, <3>1, <1>b DEF Change, watcher, main, SyncComing
  <2> QED BY <2>1, <2>2
<1>12. CASE Signal
  BY <1>12, <1>a DEF Signal, watcher, SyncComing
<1>13. CASE Restart
  BY <1>13 DEF Restart
<1>14. CASE UNCHANGED vars
  BY <1>14, <1>a DEF vars, SyncComing
<1> QED
  BY <1>1, <1>2, <1>3, <1>4, <1>5, <1>6, <1>7, <1>8, <1>9, <1>10, <1>11, <1>12, <1>13, <1>14
  DEF Next, Watcher, MainTask, Outside

LEMMA IInit == Init => IInv
<1>1. Init => SeenIsOld
  BY DEF Init, SeenIsOld
<1>2. Init => NoLostWakeupOnceCovered
  BY DEF Init, NoLostWakeupOnceCovered
<1> QED BY <1>1, <1>2, TypeInit DEF IInv

(* README: a change of the lease files is followed by a full sync.  Nothing the
   two tasks do - a full channel, events drained after the debounce, a change
   in the middle of a scan or of a read, a scan that fails - loses one. *)
THEOREM NoWakeupIsLost == Spec => []NoLostWakeupOnceCovered
<1>1. IInv /\ [Next]_vars => IInv'
  BY TypeStep, SeenStep, WakeupStep DEF IInv
<1>2. IInv => NoLostWakeupOnceCovered
  BY DEF IInv
<1> QED BY <1>1, <1>2, IInit, PTL DEF Spec

(* The channel holds Capacity events at most and the tasks' state is well
   formed. *)
THEOREM WatchTypeCorrect == Spec => []TypeOK
BY TypeInit, TypeStep, PTL DEF Spec
=============================================================================
