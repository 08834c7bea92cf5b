----------------------------- MODULE MCService -----------------------------
(* The instance of Service that TLC checks. *)
EXTENDS Service

(* One file, written once; one managed name, in use or not. *)
MCMaxVersion == [f \in Files |-> 1]
MCKeyOf      == [r \in RawNames |-> r]
MCRank       == [n \in Managed |-> 1]

MCSources    == {[n \in Managed |-> "none"], [n \in Managed |-> "ip1"]}
MCZones      == {[i \in Ids |-> NoRecord]}
=============================================================================
