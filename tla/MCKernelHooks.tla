----------------------------- MODULE MCKernelHooks -----------------------------
(* Instances of KernelHooks for TLC.                                        *)
EXTENDS KernelHooks, TLC

CONSTANTS mon, out, a, b, f, g, t1, t2

Symmetry == Permutations(Thread)

=============================================================================
