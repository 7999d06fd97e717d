----------------------------- MODULE MCIrReceiver -----------------------------
(* The infrared receiver with keys, and threads, that are alike. *)
EXTENDS IrReceiver, TLC

Symmetry == Permutations(Keys) \cup Permutations(Callers)
=============================================================================
