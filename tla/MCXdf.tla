------------------------------- MODULE MCXdf -------------------------------
(* The instances of XdfFile, XdfTools and XdfStore that TLC checks. *)
EXTENDS XdfTools, XdfStore, XdfOneWriter, TLC

\* Contents are only compared with each other.
Contents == Permutations(Vals)
=============================================================================
