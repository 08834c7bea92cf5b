---------------------------- MODULE MCSyncCycle ----------------------------
(* The instances of SyncCycle that TLC checks. *)
EXTENDS SyncCycle

(* Two managed names; one of them also in another spelling ("B.lan."), and a
   name outside the suffix. *)
MCManaged  == {"a", "b"}
MCRawNames == {"a", "b", "B.", "x"}
MCKeyOf    == [r \in MCRawNames |-> CASE r = "a" -> "a" [] r = "x" -> "out" [] OTHER -> "b"]
MCRank     == [n \in MCManaged |-> IF n = "a" THEN 1 ELSE 2]

Rec(t, n, c, o) == [type |-> t, name |-> n, content |-> c, opts |-> o]
Want(x, y)      == [n \in MCManaged |-> IF n = "a" THEN x ELSE y]
Zone(x, y, z)   == [i \in Ids |-> CASE i = 1 -> x [] i = 2 -> y [] i = 3 -> z
                                    [] OTHER -> NoRecord]

(* core: a name appears, moves and goes; a spare, a stale and a foreign record. *)
CoreSources == {Want("ip1", NoAddr), Want("ip2", "ip1")}
CoreZones   == {Zone(NoRecord, Rec("A", "x", "ip1", "default"), NoRecord),
                Zone(Rec("A", "a", "ip1", "custom"), Rec("A", "a", "ip1", "default"),
                     Rec("A", "x", "ip1", "default"))}
CoreEdits   == {Rec("A", "B.", "ip1", "default"), Rec("other", "a", "ip1", "custom")}

(* plans: every zone of three records over the kinds of record that differ to
   the planner, and every desired state. *)
PlanRecords == {Rec("A", "a", "ip1", "default"), Rec("A", "a", "ip2", "default"),
                Rec("A", "a", "ip1", "custom"), Rec("A", "B.", "ip1", "default"),
                Rec("other", "a", "ip1", "default"), Rec("A", "x", "ip1", "default")}
PlanZones   == {[i \in Ids |-> IF i \in 1..3 THEN z[i] ELSE NoRecord] :
                  z \in [1..3 -> PlanRecords \cup {NoRecord}]}
PlanSources == Wants

NoEdits == {}

(* drift: a right and a stale record; a record is added. *)
DriftSources == {Want("ip1", NoAddr)}
DriftZones   == {Zone(NoRecord, Rec("A", "a", "ip1", "default"), Rec("A", "b", "ip1", "default"))}
DriftEdits   == {Rec("A", "x", "ip1", "default")}

(* refile: a stale record, which another writer gives a name outside the suffix. *)
RefileSources == {Want("ip2", NoAddr)}
RefileZones   == {Zone(Rec("A", "a", "ip1", "default"), NoRecord, NoRecord)}

(* converge: two pages of records to start with, and a move between names. *)
ConvergeSources == {Want("ip1", NoAddr), Want("ip2", "ip1")}
ConvergeZones   == {Zone(Rec("A", "x", "ip1", "default"), Rec("A", "a", "ip1", "custom"),
                         Rec("A", "B.", "ip1", "default"))}
ConvergeEdits   == {Rec("A", "a", "ip2", "default")}
=============================================================================
