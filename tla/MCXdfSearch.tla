---------------------------- MODULE MCXdfSearch ----------------------------
(* The instances of XdfSearch that TLC checks. *)
EXTENDS XdfSearch
=============================================================================
