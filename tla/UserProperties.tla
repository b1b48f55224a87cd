--------------------------- MODULE UserProperties ---------------------------
(***************************************************************************)
(* What the memory store, the audit and the servers owe their callers.     *)
(***************************************************************************)
EXTENDS McpServer

\* An entry whose write was reported, and that nobody has worked on since, can
\* be read whole, and one whose deletion was reported is gone, from the list
\* too, whatever other processes do to other entries and to the index, and
\* wherever any of them dies (write, delete).
ToldHolds ==
    \A s \in Slug \ {INDEX} :
        /\ told[s] = "written" => readable(s)
        /\ told[s] = "deleted" => ~readable(s) /\ s \notin list

\* An entry reported written while nobody else wrote the store is listed, unless
\* its line reads as another's (its first line holds a link, or its slug a
\* closing bracket), until it is written or deleted, or two processes write the
\* store at once, or a slug that is the index's own name is written: no line of
\* another entry, whatever it reads as, and no failure or kill of an operation on
\* one takes it off the list (upsert_index, remove_from_index).
ReportedIsListed == kept \subseteq list

\* A retirement that was reported stays: no dream stamps over it silently ("no
\* silent path back from Retired"), short of one that stamped, or was about to,
\* while the marker was being retired (stamp_if_observed, retire_marker).
RetirementStands == retired => marker = "retired"

\* The audit judges a link by the whole memory: where the tier's stamp stands no
\* clone without the store calls one broken for certain, and where the store is
\* no link to an entry it was bound to list is reported at all (run_audit).
DanglingJudged ==
    \A p \in Proc : At(p, "entries") =>
        \A f \in Findings(p) : f.kind = "dangling-link" =>
            /\ f.confidence = "confirmed" => ~look[p].stamped
            /\ f.about \notin look[p].kept \cap kept

\* What ends a wait for the project's name is a reply and never a request of the
\* client's that bears the same number, for a client that numbers its requests
\* upwards (handle_tool_call).
RepliesAreReplies == \A s \in Server : ~chan[s].mistaken

\* A client that has nothing unanswered gets an answer to its next request, if
\* it replies to what it is asked and the connection lasts, whatever it sends
\* meanwhile (serve, handle_tool_call).
Waits(s) == chan[s].turn \in chan[s].unanswered
TurnsAnswered == \A s \in Server : []<>~Waits(s)
=============================================================================
