------------------------------ MODULE MCRecord ------------------------------
(* Small instances of the record files for TLC. *)
EXTENDS RecordRefinement, TLC

\* A ledger whose second entry waits for the third.
OutOfOrder ==
    [e \in Entry |-> Entry \cap (IF e = 2 THEN {3} ELSE IF e = 3 THEN {1} ELSE {})]

\* A temporary that no running command has opened is as good as none: the next to
\* open it truncates it.  One that a single command is filling is as good as empty.
Holders(f) == {s \in Session : job[s].file = f /\ job[s].at \in {"fill", "rename"}}
Standing(f) ==
    IF Holders(f) = {} THEN Absent
    ELSE IF \E s \in Session : /\ Holders(f) = {s} /\ job[s].at = "fill"
                               /\ tmp[f] \in Cuts(job[s].text)
         THEN Torn
         ELSE tmp[f]
Seen == << file, [f \in File |-> Standing(f)], job, serial, asked >>
SeenTold == << Seen, told >>

\* What NeverSwept and the guards read of a text is its applied lines and, in the
\* stamp, its baseline; what is left of a command is its rewrites and, until it is
\* written, its text.  Which session runs which command is all one.
Gist(f, text) == << IF f = "host" THEN text.baseline ELSE 0, text.applied, text.log >>
Pending(j) ==
    << j.todo, j.at, IF j.at = "read" THEN "none" ELSE j.file,
       IF j.at \in {"open", "fill", "fill over"} THEN Gist(j.file, j.text) ELSE << >> >>
SeenApplied ==
    << [f \in File |-> Gist(f, file[f])], [f \in File |-> Gist(f, Standing(f))],
       {Pending(job[s]) : s \in Session}, asked >>
=============================================================================
