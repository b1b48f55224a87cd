------------------------------- MODULE MCClone -------------------------------
(* A small clone for TLC: two components, a submodule offering a skill of theirs. *)
EXTENDS CloneProperties

TheRecipe == <<"lint", "prove">>
TheTrees == [lint |-> <<"main", "dev">>, prove |-> <<"trunk">>]
TheOffers == [lint |-> {"tell"}, prove |-> {"proof"}, tools |-> {"tell"}]

\* How a run ended, and how it began, matters of an undisturbed one only; what was there
\* when the fingerprint was written matters where there is one.
BootSeen ==
    IF boot.calm THEN <<boot.at, boot.complete, Judged>> ELSE << boot.at >>
Seen == <<clone, IF envhash = << >> THEN << >> ELSE records, BootSeen, edits>>
=============================================================================
