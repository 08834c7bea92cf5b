-------------------------- MODULE LeaseFilesProofs --------------------------
(***************************************************************************)
(* What a reader of the lease files may count on while they are written    *)
(* to, for any addresses and any number of attempts and writes.  It rests  *)
(* on the age of the rows: a clean-up never puts an older row of an        *)
(* address behind a newer one, and what a file has not given yet is newer  *)
(* than what the earlier files gave.                                       *)
(***************************************************************************)
EXTENDS LeaseFiles, TLAPS

LEMMA TypeInit == Init => TypeOK
<1> SUFFICES ASSUME Init PROVE TypeOK
  OBVIOUS
<1>1. steady \in BOOLEAN /\ inOrder \in BOOLEAN
  BY DEF Init
<1>2. attempt \in 1..MaxRetries
  BY LeaseFilesAssumption DEF Init
<1> QED BY <1>1, <1>2 DEF Init, TypeOK, Files, Content, NoRows

LEMMA NewerType ==
  ASSUME NEW x \in Content, NEW y \in Content
  PROVE  Newer(x, y) \in Content
BY DEF Newer, Content

LEMMA LatestType ==
  ASSUME TypeOK
  PROVE  Latest \in Content
BY NewerType DEF TypeOK, Latest, Files

LEMMA TypeStep == TypeOK /\ [Next]_vars => TypeOK'
<1> SUFFICES ASSUME TypeOK, [Next]_vars PROVE TypeOK'
  OBVIOUS
<1> USE DEF TypeOK, Files, reader, server
<1>1. ASSUME NEW a \in Addrs, Append(a) PROVE TypeOK'
  BY <1>1 DEF Append, Content
<1>2. CASE AppendBad
  BY <1>2 DEF AppendBad
<1>3. CASE SetAside
  <2>1. disk' \in [Files -> Content] /\ mtime' \in [Files -> Nat] /\ now' \in Nat
    BY <1>3 DEF SetAside, Content, NoRows
  <2>2. steady' \in BOOLEAN /\ there' \subseteq Files /\ "csv" \in there' /\ bad' \subseteq there'
    BY <1>3 DEF SetAside
  <2> QED BY <1>3, <2>1, <2>2 DEF SetAside
<1>4. CASE Merge
  <2>1. disk' \in [Files -> Content] /\ mtime' \in [Files -> Nat] /\ now' \in Nat
    BY <1>4, NewerType DEF Merge, Content, NoRows
  <2>2. steady' \in BOOLEAN /\ there' \subseteq Files /\ "csv" \in there' /\ bad' \subseteq there'
    BY <1>4 DEF Merge
  <2> QED BY <1>4, <2>1, <2>2 DEF Merge
<1>5. CASE Start
  <2>1. attempt' \in 1..MaxRetries
    BY <1>5, LeaseFilesAssumption DEF Start
  <2> QED BY <1>5, <2>1 DEF Start
<1>6. CASE Discover
  <2>1. steady' \in BOOLEAN /\ inOrder' \in BOOLEAN
    BY <1>6 DEF Discover
  <2>2. rows' \in Content /\ atStart' \in Content
    BY <1>6, LatestType DEF Discover, NoRows, Content
  <2> QED BY <1>6, <2>1, <2>2 DEF Discover
<1>7. ASSUME NEW f \in Files, ReadFile(f) PROVE TypeOK'
  BY <1>7 DEF ReadFile, Content
<1>8. CASE ReadAgain
  BY <1>8, LeaseFilesAssumption DEF ReadAgain
<1>9. CASE GiveUp
  BY <1>9 DEF GiveUp
<1>10. CASE Return
  BY <1>10 DEF Return
<1>11. CASE UNCHANGED vars
  BY <1>11 DEF vars
<1> QED
  BY <1>1, <1>2, <1>3, <1>4, <1>5, <1>6, <1>7, <1>8, <1>9, <1>10, <1>11
  DEF Next, Server, Reader

THEOREM LeaseFilesTypeCorrect == Spec => []TypeOK
BY TypeInit, TypeStep, PTL DEF Spec

----------------------------------------------------------------------------
(* The rows on disk: none is from the future, a file that is not there has
   none, and of an address the lease file has the newest row, then the file set
   aside. *)
Ages ==
  \A a \in Addrs :
    /\ \A f \in Files : disk[f][a] <= now /\ (f \notin there => disk[f][a] = 0)
    /\ disk["csv"][a] # 0 => disk["csv.1"][a] < disk["csv"][a] /\ disk["csv.2"][a] < disk["csv"][a]
    /\ disk["csv.1"][a] # 0 => disk["csv.2"][a] < disk["csv.1"][a]

LEMMA AgesStep == TypeOK /\ Ages /\ [Next]_vars => Ages'
<1> SUFFICES ASSUME TypeOK, Ages, [Next]_vars PROVE Ages'
  OBVIOUS
<1> USE DEF TypeOK, Files, Content, Ages
<1>1. ASSUME NEW a \in Addrs, Append(a) PROVE Ages'
  BY <1>1 DEF Append
<1>2. CASE SetAside
  BY <1>2 DEF SetAside, NoRows
<1>3. CASE Merge
  BY <1>3 DEF Merge, NoRows, Newer
<1>4. CASE UNCHANGED <<disk, there>> /\ now' \in {now, now + 1}
  BY <1>4
<1> QED
  BY <1>1, <1>2, <1>3, <1>4
  DEF Next, Server, Reader, AppendBad, Start, Discover, ReadFile, ReadAgain, GiveUp,
      Return, vars, server

(* Where a pass over the files stands.  An address that had a row has been read
   or is in a file still to come; if the files were in order, the row read or to
   come is as new as the latest was, and what is to come is newer than what was
   read. *)
Passing == pc \in {"reading", "done"} /\ steady
Complete ==
  Passing => \A a \in Addrs :
    atStart[a] # 0 => rows[a] # 0 \/ \E f \in found : disk[f][a] # 0
Fresh ==
  Passing /\ inOrder =>
    /\ "csv.1" \in found /\ "csv" \in found => stamp["csv.1"] < stamp["csv"]
    /\ "csv.2" \in found /\ "csv" \in found => stamp["csv.2"] < stamp["csv"]
    /\ "csv.2" \in found /\ "csv.1" \in found => stamp["csv.2"] < stamp["csv.1"]
    /\ \A a \in Addrs :
         /\ rows[a] <= now
         /\ rows[a] <= Latest[a]
         /\ rows[a] >= atStart[a] \/ \E f \in found : disk[f][a] >= atStart[a] /\ disk[f][a] # 0
         /\ \A f \in found : disk[f][a] # 0 => disk[f][a] >= rows[a]
Pass ==
  /\ Passing => found \subseteq there
  /\ pc = "done" => found = {}
  /\ Complete
  /\ Fresh

LEMMA LatestIs ==
  ASSUME TypeOK, NEW a \in Addrs
  PROVE  /\ \A f \in Files : disk[f][a] <= Latest[a]
         /\ \E f \in Files : disk[f][a] = Latest[a]
BY DEF TypeOK, Files, Content, Latest, Newer

LEMMA PassStep == TypeOK /\ Ages /\ Pass /\ [Next]_vars => Pass'
<1> SUFFICES ASSUME TypeOK, Ages, Pass, [Next]_vars PROVE Pass'
  OBVIOUS
<1>1. ASSUME NEW b \in Addrs, Append(b) PROVE Pass'
  <2>1. /\ now' = now + 1 /\ UNCHANGED <<there, pc, found, stamp, rows, atStart, inOrder, steady>>
        /\ \A f \in Files, a \in Addrs :
             disk'[f][a] = IF f = "csv" /\ a = b THEN now + 1 ELSE disk[f][a]
    BY <1>1 DEF Append, reader, TypeOK, Files, Content
  <2>2. \A f \in Files, a \in Addrs : disk[f][a] \in Nat /\ disk[f][a] <= now /\ disk[f][a] <= disk'[f][a]
    BY <2>1 DEF TypeOK, Content, Ages, Files
  <2>3. \A a \in Addrs : Latest[a] <= Latest'[a]
    BY <2>1, <2>2 DEF Latest, Newer, Files
  <2>4. Complete'
    BY <2>1, <2>2 DEF Pass, Complete, Passing, TypeOK, Files
  <2>5. Fresh'
    <3> SUFFICES ASSUME Passing, inOrder, NEW a \in Addrs
        PROVE  /\ rows[a] <= now + 1
               /\ rows[a] <= Latest'[a]
               /\ rows[a] >= atStart[a]
                  \/ \E f \in found : disk'[f][a] >= atStart[a] /\ disk'[f][a] # 0
               /\ \A f \in found : disk'[f][a] # 0 => disk'[f][a] >= rows[a]
      BY <2>1 DEF Fresh, Passing, Pass
    <3>1. rows[a] \in Nat /\ atStart[a] \in Nat /\ now \in Nat /\ found \subseteq Files
          /\ Latest[a] \in Nat /\ Latest'[a] \in Nat
      BY <2>1, <2>2, LatestType DEF TypeOK, Content, Latest, Newer, Files
    <3> QED BY <2>1, <2>2, <2>3, <3>1 DEF Pass, Fresh, TypeOK
  <2> QED BY <2>1, <2>4, <2>5 DEF Pass, Passing
<1>2. CASE SetAside \/ Merge
  BY <1>2 DEF SetAside, Merge, Pass, Passing, Complete, Fresh, reader
<1>3. CASE Discover
  <2>1. /\ found' = there /\ stamp' = mtime /\ rows' = NoRows /\ pc' = "reading"
        /\ atStart' = Latest /\ UNCHANGED <<disk, there, now>>
    BY <1>3 DEF Discover, server
  <2>2. \A a \in Addrs : /\ Latest[a] \in Nat /\ NoRows[a] = 0 /\ now \in Nat
                         /\ Latest[a] # 0 => \E f \in there : disk[f][a] = Latest[a]
    BY LatestIs, LatestType DEF Ages, TypeOK, Content, NoRows
  <2>3. Latest' = Latest
    BY <2>1 DEF Latest
  <2>4. \A f \in Files, a \in Addrs : disk[f][a] \in Nat
    BY DEF TypeOK, Content
  <2>5. Complete'
    BY <2>1, <2>2 DEF Complete
  <2>6. Fresh'
    <3>1. inOrder' =>
            /\ "csv.1" \in there => mtime["csv.1"] < mtime["csv"]
            /\ "csv.2" \in there => mtime["csv.2"] < mtime["csv"]
            /\ {"csv.1", "csv.2"} \subseteq there => mtime["csv.2"] < mtime["csv.1"]
      BY <1>3 DEF Discover
    <3> QED BY <2>1, <2>2, <2>3, <2>4, <3>1 DEF Fresh, TypeOK
  <2> QED BY <2>1, <2>5, <2>6 DEF Pass
<1>4. ASSUME NEW f \in Files, ReadFile(f) PROVE Pass'
  <2>1. /\ f \in found /\ found' = found \ {f}
        /\ UNCHANGED <<disk, there, now, pc, stamp, atStart, steady, inOrder>> /\ pc = "reading"
        /\ \A a \in Addrs : rows'[a] = IF disk[f][a] # 0 THEN disk[f][a] ELSE rows[a]
        /\ \A g \in found \ {f} : stamp[f] <= stamp[g]
    BY <1>4 DEF ReadFile, FirstLeft, server, TypeOK
  <2>2. \A g \in Files, a \in Addrs : disk[g][a] \in Nat /\ disk[g][a] <= now /\ disk[g][a] <= Latest[a]
    BY LatestIs DEF TypeOK, Content, Ages
  <2>3. Latest' = Latest
    BY <2>1 DEF Latest
  <2>4. Complete'
    BY <2>1 DEF Pass, Complete, Passing
  <2>5. Fresh'
    <3> SUFFICES ASSUME Passing, inOrder
        PROVE  Fresh'
      BY <2>1 DEF Fresh, Passing
    <3>1. \A g \in found \ {f} : \A a \in Addrs : disk[g][a] # 0 => disk[f][a] < disk[g][a]
      BY <2>1, <2>2 DEF Pass, Fresh, Ages, TypeOK, Files
    <3>2. \A a \in Addrs : rows[a] \in Nat /\ atStart[a] \in Nat /\ Latest[a] \in Nat
      BY LatestType DEF TypeOK, Content
    <3>3. ASSUME NEW a \in Addrs
          PROVE  /\ rows'[a] <= now
                 /\ rows'[a] <= Latest[a]
                 /\ rows'[a] >= atStart[a]
                    \/ \E g \in found \ {f} : disk[g][a] >= atStart[a] /\ disk[g][a] # 0
                 /\ \A g \in found \ {f} : disk[g][a] # 0 => disk[g][a] >= rows'[a]
      BY <2>1, <2>2, <3>1, <3>2 DEF Pass, Fresh, TypeOK
    <3> QED BY <2>1, <2>3, <3>3 DEF Pass, Fresh
  <2> QED BY <2>1, <2>4, <2>5 DEF Pass, Passing
<1>5. CASE Return
  <2>1. pc = "reading" /\ pc' = "done" /\ found = {}
        /\ UNCHANGED <<disk, there, now, found, stamp, rows, atStart, steady, inOrder>>
    BY <1>5 DEF Return, server
  <2>2. Latest' = Latest
    BY <2>1 DEF Latest
  <2> QED BY <2>1, <2>2 DEF Pass, Passing, Complete, Fresh
<1>6. CASE Start \/ ReadAgain \/ GiveUp
  BY <1>6 DEF Start, ReadAgain, GiveUp, Pass, Passing, Complete, Fresh
<1>7. CASE AppendBad \/ UNCHANGED vars
  <2>1. UNCHANGED <<disk, there, pc, found, stamp, rows, atStart, steady, inOrder>>
        /\ now' \in {now, now + 1}
    BY <1>7 DEF AppendBad, vars, reader
  <2>2. Latest' = Latest
    BY <2>1 DEF Latest
  <2>3. \A a \in Addrs : rows[a] \in Nat /\ now \in Nat
    BY DEF TypeOK, Content
  <2> QED BY <2>1, <2>2, <2>3 DEF Pass, Passing, Complete, Fresh
<1> QED BY <1>1, <1>2, <1>3, <1>4, <1>5, <1>6, <1>7 DEF Next, Server, Reader

IInv == TypeOK /\ Ages /\ Pass

LEMMA InvHolds == Spec => []IInv
<1>1. Init => IInv
  <2>1. ASSUME Init PROVE Ages
    <3>1. \A f \in Files, a \in Addrs : disk[f][a] = 0
      BY <2>1 DEF Init, NoRows
    <3>2. now = 1
      BY <2>1 DEF Init
    <3> SUFFICES ASSUME NEW a \in Addrs
                 PROVE  /\ \A f \in Files : disk[f][a] <= now /\ (f \notin there => disk[f][a] = 0)
                        /\ disk["csv"][a] = 0 /\ disk["csv.1"][a] = 0
      BY DEF Ages
    <3>3. \A f \in Files : disk[f][a] = 0
      BY <3>1
    <3>4. disk["csv"][a] = 0 /\ disk["csv.1"][a] = 0
      BY <3>3 DEF Files
    <3> QED BY <3>2, <3>3, <3>4
  <2>2. Init => Pass
    BY DEF Init, Pass, Passing, Complete, Fresh
  <2> QED BY <2>1, <2>2, TypeInit DEF IInv
<1>2. IInv /\ [Next]_vars => IInv'
  BY TypeStep, AgesStep, PassStep DEF IInv
<1> QED BY <1>1, <1>2, PTL DEF Spec

(* README: "DNS desired state is always rebuilt from the complete lease file
   set": no address is missing from what is returned when no clean-up step fell
   between the discovery of the files and the last read. *)
THEOREM SteadyIsComplete == Spec => []CompleteWhenSteady
<1>1. IInv => CompleteWhenSteady
  BY DEF IInv, Pass, Complete, Passing, CompleteWhenSteady, CompleteSet
<1> QED BY <1>1, InvHolds, PTL

(* README: "the later row wins": with the files in order, no returned row is
   older than the latest one at discovery, whatever is appended meanwhile. *)
THEOREM InOrderIsFresh == Spec => []FreshWhenInOrder
<1>1. IInv => FreshWhenInOrder
  BY DEF IInv, Pass, Fresh, Passing, FreshWhenInOrder
<1> QED BY <1>1, InvHolds, PTL
=============================================================================
