------------------------------ MODULE MCRestPool ------------------------------
(* Small instances of RestPool for TLC. *)
EXTENDS RestPool

CONSTANTS w1, w2

=============================================================================
