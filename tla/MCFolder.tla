------------------------------ MODULE MCFolder ------------------------------
(* A small folder for TLC: two notes, one that git ignores.               *)

EXTENDS FolderProperties

TheDictionary == {[old |-> "phase one", new |-> "origin", length |-> 9]}
=============================================================================
