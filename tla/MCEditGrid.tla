----------------------------- MODULE MCEditGrid -----------------------------
(***************************************************************************)
(* Small instances of EditGrid for TLC.                                    *)
(***************************************************************************)
EXTENDS EditGrid, TLC

\* No key is special.
KeySymmetry == Permutations(Keys)

=============================================================================
