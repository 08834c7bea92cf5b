----------------------------- MODULE LeaseFiles -----------------------------
(***************************************************************************)
(* leases/csv.rs: how a cycle reads the lease files while the DHCP server  *)
(* goes on writing them.  The reader lists the files once, sorts them by   *)
(* modification time and then reads one after another, a later row of an   *)
(* address replacing an earlier one.                                       *)
(*                                                                         *)
(* The server is not in the repository; it appends rows to the lease file  *)
(* and now and then cleans up: the file is set aside and a new one begun,  *)
(* later the file set aside is merged into the one of the last clean-up.   *)
(* The steps of the clean-up are taken to be atomic, which leaves the      *)
(* reader fewer ways to go wrong than the real ones.                       *)
(***************************************************************************)
EXTENDS Naturals

CONSTANTS
  Addrs,        \* IPv4 addresses
  MaxRetries,   \* DEFAULT_MAX_RETRIES (3 in the code)
  MaxTime       \* bound: writes of the server

ASSUME LeaseFilesAssumption ==
  /\ MaxRetries \in Nat \ {0}
  /\ MaxTime \in Nat

(* The lease file, the one set aside and the merged one, in the order of their
   paths, which decides between equal times. *)
Files   == {"csv", "csv.1", "csv.2"}
PathOrder(f) == CASE f = "csv" -> 1 [] f = "csv.1" -> 2 [] f = "csv.2" -> 3

(* A row is known by the time it was written; the content of a file is its last
   row of each address, 0 when it has none. *)
NoRows  == [a \in Addrs |-> 0]
Content == [Addrs -> Nat]

VARIABLES
  now,      \* the server's clock: it ticks with every write
  disk,     \* the content of each file
  there,    \* the files that exist
  mtime,    \* when each file was last written
  bad,      \* the files with a row that does not parse
  pc,       \* get_ipv4_leases: "idle", "discovering", "reading", "done", "failed"
  attempt,  \* its attempt
  found,    \* the files discovered and not read yet
  stamp,    \* their modification times then
  rows,     \* rows_by_address
  atStart,  \* history: the latest row of each address when they were discovered
  steady,   \* history: no clean-up step since
  inOrder   \* history: they were in the order their rows were written

server == <<now, disk, there, mtime, bad>>
reader == <<pc, attempt, found, stamp, rows, atStart, inOrder>>
vars   == <<now, disk, there, mtime, bad, pc, attempt, found, stamp, rows,
            atStart, steady, inOrder>>

(* The latest row of each address in the whole file set; a file that is not
   there has no rows. *)
Newer(x, y) == [a \in Addrs |-> IF x[a] > y[a] THEN x[a] ELSE y[a]]
Latest      == Newer(disk["csv"], Newer(disk["csv.1"], disk["csv.2"]))

Init ==
  /\ now = 1
  /\ disk = [f \in Files |-> NoRows]
  /\ there = {"csv"}
  /\ mtime = [f \in Files |-> IF f = "csv" THEN 1 ELSE 0]
  /\ bad = {}
  /\ pc = "idle"
  /\ attempt = 1
  /\ found = {}
  /\ stamp = [f \in Files |-> 0]
  /\ rows = NoRows
  /\ atStart = NoRows
  /\ steady = TRUE
  /\ inOrder = TRUE

----------------------------------------------------------------------------
(* The DHCP server. *)

Append(a) ==
  /\ now < MaxTime
  /\ now' = now + 1
  /\ disk' = [disk EXCEPT !["csv"][a] = now + 1]
  /\ mtime' = [mtime EXCEPT !["csv"] = now + 1]
  /\ UNCHANGED <<there, bad, reader, steady>>

(* A row that has no subnet_id, say, or a state that is not a number. *)
AppendBad ==
  /\ now < MaxTime
  /\ now' = now + 1
  /\ mtime' = [mtime EXCEPT !["csv"] = now + 1]
  /\ bad' = bad \cup {"csv"}
  /\ UNCHANGED <<disk, there, reader, steady>>

(* A rename keeps the modification time. *)
SetAside ==
  /\ now < MaxTime
  /\ "csv.1" \notin there
  /\ now' = now + 1
  /\ disk' = [disk EXCEPT !["csv.1"] = disk["csv"], !["csv"] = NoRows]
  /\ mtime' = [mtime EXCEPT !["csv.1"] = mtime["csv"], !["csv"] = now + 1]
  /\ there' = there \cup {"csv.1"}
  /\ bad' = {IF f = "csv" THEN "csv.1" ELSE f : f \in bad}
  /\ steady' = FALSE
  /\ UNCHANGED reader

Merge ==
  /\ now < MaxTime
  /\ "csv.1" \in there
  /\ now' = now + 1
  /\ disk' = [disk EXCEPT
       !["csv.2"] = Newer(disk["csv.1"], disk["csv.2"]), !["csv.1"] = NoRows]
  /\ mtime' = [mtime EXCEPT !["csv.2"] = now + 1]
  /\ there' = (there \ {"csv.1"}) \cup {"csv.2"}
  /\ bad' = {IF f = "csv.1" THEN "csv.2" ELSE f : f \in bad}
  /\ steady' = FALSE
  /\ UNCHANGED reader

----------------------------------------------------------------------------
(* get_ipv4_leases. *)

Start ==
  /\ pc \in {"idle", "done", "failed"}
  /\ pc' = "discovering"
  /\ attempt' = 1
  /\ UNCHANGED <<server, found, stamp, rows, atStart, steady, inOrder>>

(* discover_lease_files; rows_by_address starts empty. *)
Discover ==
  /\ pc = "discovering"
  /\ found' = there
  /\ stamp' = mtime
  /\ rows' = NoRows
  /\ pc' = "reading"
  /\ atStart' = Latest
  /\ steady' = TRUE
  /\ inOrder' = (/\ "csv.1" \in there => mtime["csv.1"] < mtime["csv"]
                 /\ "csv.2" \in there => mtime["csv.2"] < mtime["csv"]
                 /\ {"csv.1", "csv.2"} \subseteq there => mtime["csv.2"] < mtime["csv.1"])
  /\ UNCHANGED <<server, attempt>>

(* fault: the newest file first. *)
FirstLeftNewest(f) ==
  /\ f \in found
  /\ \A g \in found \ {f} :
       stamp[f] > stamp[g] \/ (stamp[f] = stamp[g] /\ PathOrder(f) < PathOrder(g))

(* files.sort_by: by time, then by path; the first file not yet read. *)
FirstLeft(f) ==
  /\ f \in found
  /\ \A g \in found \ {f} :
       stamp[f] < stamp[g] \/ (stamp[f] = stamp[g] /\ PathOrder(f) < PathOrder(g))

(* fault: a file that cannot be read is passed over. *)
ReadFileSkipping(f) ==
  /\ pc = "reading"
  /\ FirstLeft(f)
  /\ rows' \in {rows, [a \in Addrs |-> IF disk[f][a] # 0 THEN disk[f][a] ELSE rows[a]]}
  /\ found' = found \ {f}
  /\ UNCHANGED <<server, pc, attempt, stamp, atStart, steady, inOrder>>

(* fs::read finds the file, and no row of it ends parse_lease_csv by its `row?`: the
   columns of LeaseCsvRow are all required. *)
Readable(f) == f \in there \ bad

(* fs::read gives the file as it is now, and every row is inserted. *)
ReadFile(f) ==
  /\ pc = "reading"
  /\ FirstLeft(f)
  /\ Readable(f)
  /\ rows' = [a \in Addrs |-> IF disk[f][a] # 0 THEN disk[f][a] ELSE rows[a]]
  /\ found' = found \ {f}
  /\ UNCHANGED <<server, pc, attempt, stamp, atStart, steady, inOrder>>

(* fault: <= for < in the test for another attempt. *)
ReadAgainOnceMore ==
  /\ pc \in {"discovering", "reading"}
  /\ attempt <= MaxRetries
  /\ attempt' = attempt + 1
  /\ pc' = "discovering"
  /\ UNCHANGED <<server, found, stamp, rows, atStart, steady, inOrder>>

(* An I/O error, a file gone since, a row that does not parse or is cut short by
   a write under way: everything is read again ... *)
ReadAgain ==
  /\ pc \in {"discovering", "reading"}
  /\ attempt < MaxRetries
  /\ attempt' = attempt + 1
  /\ pc' = "discovering"
  /\ UNCHANGED <<server, found, stamp, rows, atStart, steady, inOrder>>

(* ... and after the last attempt the cycle fails. *)
GiveUp ==
  /\ pc \in {"discovering", "reading"}
  /\ attempt = MaxRetries
  /\ pc' = "failed"
  /\ UNCHANGED <<server, attempt, found, stamp, rows, atStart, steady, inOrder>>

Return ==
  /\ pc = "reading"
  /\ found = {}
  /\ pc' = "done"
  /\ UNCHANGED <<server, attempt, found, stamp, rows, atStart, steady, inOrder>>

Server == AppendBad \/ SetAside \/ Merge \/ \E a \in Addrs : Append(a)
Reader ==
  \/ Start \/ Discover \/ ReadAgain \/ GiveUp \/ Return
  \/ \E f \in Files : ReadFile(f)

Next == Server \/ Reader
Spec == Init /\ [][Next]_vars

----------------------------------------------------------------------------
(* Properties. *)

TypeOK ==
  /\ now \in Nat
  /\ disk \in [Files -> Content]
  /\ there \subseteq Files /\ "csv" \in there
  /\ mtime \in [Files -> Nat]
  /\ bad \subseteq there
  /\ pc \in {"idle", "discovering", "reading", "done", "failed"}
  /\ attempt \in 1..MaxRetries
  /\ found \subseteq Files
  /\ stamp \in [Files -> Nat]
  /\ rows \in Content
  /\ atStart \in Content
  /\ steady \in BOOLEAN
  /\ inOrder \in BOOLEAN

(* README: "DNS desired state is always rebuilt from the complete lease file
   set": an address with a row when the files were discovered has one in what
   is returned. *)
CompleteSet ==
  pc = "done" => \A a \in Addrs : atStart[a] # 0 => rows[a] # 0

(* README: "the later row wins, so a newer inactive row overrides an older active
   row": when nothing is written meanwhile, an older row never replaces a newer
   one. *)
NewerRowWins ==
  pc = "done" /\ atStart = Latest /\ steady => \A a \in Addrs : rows[a] # 0 => rows[a] >= atStart[a]

(* As long as no clean-up step falls between discovery and the last read, the
   set is complete, however many rows are appended meanwhile and whatever failed
   in earlier attempts. *)
CompleteWhenSteady == steady => CompleteSet

(* If the files were also in order, no row returned is older than the latest one
   of its address when the files were discovered, and none is made up. *)
FreshWhenInOrder ==
  pc = "done" /\ steady /\ inOrder =>
    \A a \in Addrs : atStart[a] <= rows[a] /\ rows[a] <= Latest[a]
=============================================================================
