-------------------------- MODULE FolderProperties --------------------------
(***************************************************************************)
(* What the operator may count on when the tool writes among his files.    *)
(***************************************************************************)
EXTENDS HostFolder

\* No step of a command takes a text of the operator's away that no commit holds:
\* onboarding passes over what is there, and remap begins on a tree whose last commit
\* holds every original ("the prior commit is the verbatim archive"), through torn
\* writes, kills, forced repeats and whatever was staged or left untracked before.  A
\* note that git ignores, and one changed while the command ran, are not covered; the
\* stamp is the tool's own and is written anew.
NothingLost ==
    [][job' # job =>
        \A f \in File \ {STAMP} : work'[f] # work[f] =>
            \/ work[f] \in {Absent, Torn} \/ <<f, work[f]>> \in archive
            \/ f \in edited \cup Ignored]_vars
=============================================================================
