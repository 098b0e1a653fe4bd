----------------------------- MODULE MCController -----------------------------
(* An instance of Controller for TLC.                                      *)
EXTENDS Controller, TLC

=============================================================================
