---------------------------- MODULE MCConnectOps -----------------------------
(***************************************************************************)
(* ConnectOps for TLC.  Device addresses are interchangeable, so the runs   *)
(* that check safety only use their symmetry.                               *)
(***************************************************************************)
EXTENDS ConnectOps, TLC

Symmetry == Permutations(Addr)
=============================================================================
