----------------------------- MODULE MCOutputCache --------------------------
(***************************************************************************)
(* Three processes on two keys, in a directory that may have a digest-named *)
(* file of its own.                                                        *)
(***************************************************************************)
EXTENDS OutputCache, TLC

Symmetric == Permutations(Process)
=============================================================================
