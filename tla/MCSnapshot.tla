------------------------------ MODULE MCSnapshot ------------------------------
(* Small instances of Snapshot for TLC. *)
EXTENDS Snapshot, TLC

CONSTANTS prune, ws, api

(* A database with rows of an earlier run.  Category 1 gets an insert,     *)
(* after which it and category 2 no longer fit a buffer of three rows, and *)
(* a prune takes its old row.                                              *)
RowsSmall == 0 :> (0 :> 1)
          @@ 1 :> (0 :> 1 @@ 1 :> 2 @@ 2 :> 1)
          @@ 2 :> (0 :> 2)
=============================================================================
