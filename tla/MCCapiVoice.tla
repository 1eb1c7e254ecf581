---------------------------- MODULE MCCapiVoice ----------------------------
(***************************************************************************)
(* CapiVoice on small sets of calls, voices and pool threads.  They are    *)
(* interchangeable: nothing in the model distinguishes one from another.   *)
(***************************************************************************)
EXTENDS CapiVoice, TLC

Symmetry == Permutations(Job) \cup Permutations(Voice) \cup Permutations(Thread)
=============================================================================
