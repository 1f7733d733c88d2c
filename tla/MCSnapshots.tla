---------------------------- MODULE MCSnapshots ----------------------------
(* Heights whose order as names is another: "10" comes before "5".          *)
EXTENDS Snapshots

MCSettings == {NotSet, 0, 5}

(* Chunks of one snapshot at most are deleted.                             *)
OneDamaged == Cardinality(damaged) <= 1
=============================================================================
