--------------------------- MODULE WhereProperties ---------------------------
(***************************************************************************)
(* What materialize and teardown guarantee of the disk and of the two      *)
(* records they keep of it, and what is said of it and is not so.          *)
(* "plain" marks the behaviours in which nothing was forced, no single     *)
(* branch was named, no worktree was removed by hand and no teardown was   *)
(* "blind": git failed where it looked for work.                           *)
(***************************************************************************)
EXTENDS WhereRoom

\* The variables hold what the disk and the records can hold.
TypeOK ==
    /\ pin \in [Worktree -> Commit]
    /\ remote \in [Worktree -> Commit \cup {NoCommit}]
    /\ store \in [Component -> SUBSET Part]
    /\ branch \in [Worktree -> [head : Commit \cup {NoCommit, Mine}, upstream : BOOLEAN]]
    /\ tree \in [Worktree -> [place : Place, dirty : BOOLEAN, linked : BOOLEAN, filled : BOOLEAN]]
    /\ handle \subseteq {w \in Worktree : Kind[w] = "stored"}
    /\ receipt \subseteq Component
    /\ fingerprint \subseteq Worktree
    /\ job.made \subseteq Component
    /\ job.result \in {"none", "done", "aborted", "refused"}
    /\ edits \in 0 .. MaxEdits
    /\ plain \in BOOLEAN

\* What a run was asked to realize is there: the store in the new layout with its
\* link, something at every worktree's place, the handle of a stored one, and an
\* upstream for every branch the store knows its origin to carry.
Realized(sel) ==
    \A w \in Asked(sel) :
        /\ {"bare", "link"} \subseteq store[Home(w)] /\ "old" \notin store[Home(w)]
        /\ Exists(w, Target(w, sel)) /\ Exists(w, "inside")
        /\ "tracking" \in store[Home(w)] /\ remote[w] # NoCommit => branch[w].upstream

\* A materialize that ran to its end realized everything it was asked, whatever an
\* earlier run, killed or aborted anywhere, had left, and in whatever layout.
DoneMeansRealized ==
    Idle /\ job.verb = "materialize" /\ job.result = "done" => Realized(job.sel)

\* "The receipt records a run that realized what it was asked to": no receipt is
\* written before the last component of the selection is realized (software_materialize,
\* the buffered receipts).
ReceiptMeansRealized == Doing("receipt") => Realized(job.sel)

\* No command destroys uncommitted changes, or a commit that is nowhere else, as long
\* as nothing was forced, named or removed by hand and git could look: teardown looks at
\* every worktree that can hold work, materialize keeps its hands off what exists, and a
\* run killed anywhere leaves nothing that makes the next one blind but a worktree whose
\* link to a store renamed under it was not mended (software_materialize, between the
\* rename and the repair).
WorkKept ==
    [][plain' /\ ~Idle => \A w \in Worktree : tree[w].linked =>
            /\ tree[w].dirty => tree'[w].dirty
            /\ branch[w].head = Mine => branch'[w].head = Mine]_vars

-----------------------------------------------------------------------------
(* Said by a comment of the code, and not so. *)

\* "Refuses to destroy a worktree holding uncommitted changes or unpushed commits
\* unless --force, so unsaved work is never silently lost" (software_teardown), where git
\* can look.
TeardownKeepsWork ==
    [][Doing("delete") /\ ~job.force /\ ~job.blind => \A w \in Worktree :
            /\ tree[w].dirty => tree'[w].dirty
            /\ branch[w].head = Mine => branch'[w].head = Mine]_vars
=============================================================================
