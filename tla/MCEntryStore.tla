---------------------------- MODULE MCEntryStore ----------------------------
(* EntryStore with interchangeable names.                                   *)
EXTENDS EntryStore, TLC

Symmetry == Permutations(Names)
=============================================================================
