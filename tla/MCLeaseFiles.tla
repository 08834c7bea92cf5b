---------------------------- MODULE MCLeaseFiles ----------------------------
(* The instances of LeaseFiles that TLC checks; the constants are in the .cfg. *)
EXTENDS LeaseFiles
=============================================================================
