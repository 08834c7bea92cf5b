---------------------------- MODULE ManagedZone ----------------------------
(***************************************************************************)
(* What dns-reconciler promises whoever shares the zone with it, whatever  *)
(* fails: one record at a time, it gives a record of its own, or a new     *)
(* one, an address that the leases gave that name at some time, or it      *)
(* deletes a record of its own.  No cycle, plan, retry or crash is in it.  *)
(***************************************************************************)
EXTENDS DnsZone

VARIABLES zone, leased, edits

mzVars == <<zone, leased, edits>>

Init ==
  /\ zone \in Zones
  /\ leased \subseteq Managed \X Addrs
  /\ edits = 0

(* The service points a name at an address leased to it. *)
Publish(i) ==
  /\ zone[i] = NoRecord \/ InScope(zone[i])
  /\ \E p \in leased :
       zone' = [zone EXCEPT ![i] = [type |-> "A", name |-> p[1],
                                    content |-> p[2], opts |-> "default"]]
  /\ UNCHANGED <<leased, edits>>

(* The service removes a record of its own. *)
Retract(i) ==
  /\ Owned(zone, i)
  /\ zone' = [zone EXCEPT ![i] = NoRecord]
  /\ UNCHANGED <<leased, edits>>

(* Another writer does as it likes. *)
Foreign ==
  /\ edits' = edits + 1
  /\ zone' \in Zones
  /\ UNCHANGED leased

(* Leases are granted. *)
Grant ==
  /\ leased' \in SUBSET (Managed \X Addrs)
  /\ leased \subseteq leased'
  /\ UNCHANGED <<zone, edits>>

Next == (\E i \in Ids : Publish(i) \/ Retract(i)) \/ Foreign \/ Grant

Spec == Init /\ [][Next]_mzVars
=============================================================================
