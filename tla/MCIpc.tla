------------------------------- MODULE MCIpc -------------------------------
(* The server on small instances: one client that asks and subscribes, and *)
(* another that does too; either may be slow, rude or gone.                *)
EXTENDS Ipc, TLC

Symmetry == Permutations(Client)
=============================================================================
