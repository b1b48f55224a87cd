----------------------------- MODULE AppliedSet -----------------------------
(***************************************************************************)
(* What the upgrade record promises, with no files in it: a set of ledger  *)
(* entries that only ever grows, an entry at a time, and is always closed  *)
(* under the prerequisites the ledger declares.  RecordRefinement states   *)
(* how the record files implement it.                                      *)
(***************************************************************************)
CONSTANTS Entry, Depends

VARIABLE applied

Closed(entries) == \A e \in entries : Depends[e] \subseteq entries

AppliedInit == applied \in SUBSET Entry /\ Closed(applied)

Apply(e) ==
    /\ e \notin applied
    /\ Depends[e] \subseteq applied
    /\ applied' = applied \cup {e}

AppliedNext == \E e \in Entry : Apply(e)
AppliedSpec == AppliedInit /\ [][AppliedNext]_applied
=============================================================================
