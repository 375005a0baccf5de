----------------------------- MODULE MCDispatch -----------------------------
(***************************************************************************)
(* Small instances of Dispatch for TLC: a python.install and a pip.install *)
(* of one runtime line, and a ping that shares nothing with them.          *)
(***************************************************************************)
EXTENDS Dispatch, TLC

MixedVerb == 1 :> "python.install" @@ 2 :> "pip.install" @@ 3 :> "ping"
MixedTarget == 1 :> "3.12" @@ 2 :> "3.12" @@ 3 :> ""

PoolSymmetry == Permutations(Pool)

=============================================================================
