-------------------------- MODULE MCDispatchHistory --------------------------
(***************************************************************************)
(* The instances of MCDispatch with the history variable.                  *)
(***************************************************************************)
EXTENDS MCDispatch, DispatchHistory

=============================================================================
