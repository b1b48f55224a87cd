-------------------------- MODULE RecordRefinement --------------------------
(***************************************************************************)
(* The record files implement the applied set, with the baseline, the two  *)
(* layouts and their migration hidden.                                     *)
(***************************************************************************)
EXTENDS RecordProperties

AppliedRecord == INSTANCE AppliedSet WITH applied <- Applied

\* Recording, advancing, migrating and dying at any point, one command at a time,
\* adds one entry whose prerequisites are applied or nothing, and never removes
\* one (upgrade, migrate_receipts).
ImplementsApplied == AppliedRecord!AppliedSpec
=============================================================================
