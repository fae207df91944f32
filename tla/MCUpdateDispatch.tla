-------------------------- MODULE MCUpdateDispatch --------------------------
(* A small instance of UpdateDispatch for TLC.                             *)
EXTENDS UpdateDispatch

CONSTANTS first, second, check
=============================================================================
