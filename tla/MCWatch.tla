------------------------------ MODULE MCWatch ------------------------------
(* The instances of Watch that TLC checks. *)
EXTENDS Watch

MCFiles == {"csv", "csv.2"}

(* The lease file is written twice, the other one (the clean-up) once. *)
MCMaxVersion == [f \in MCFiles |-> IF f = "csv" THEN 2 ELSE 1]
=============================================================================
