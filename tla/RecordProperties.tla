-------------------------- MODULE RecordProperties --------------------------
(***************************************************************************)
(* What the record files guarantee when commands are run one at a time,    *)
(* whatever is cut short between them, and when they overlap.              *)
(***************************************************************************)
EXTENDS RecordStore

Range(seq) == {seq[i] : i \in DOMAIN seq}

\* The files, the temporaries and the commands hold what they can hold.
TypeOK ==
    /\ file \in [File -> Content]
    /\ \A f \in File : tmp[f] = Absent \/ tmp[f] \in Content
    /\ \A s \in Session :
          /\ job[s].at \in {"read", "open", "fill", "fill over", "fill nothing", "rename"}
          /\ job[s].file \in File
          /\ job[s].text \in Content
          /\ job[s].says \subseteq Receipt \cup Line
          /\ Len(job[s].todo) <= 3
    /\ serial \in Nat
    /\ asked \subseteq Entry
    /\ told \subseteq Receipt \cup Line

\* No file is ever seen truncated or mixed, and no half-filled temporary a dead
\* command left behind is ever renamed into place: "a crash or full disk during
\* a stamp update can never leave a truncated/empty `.host`" (write_atomic).
FilesWhole == \A f \in File : file[f].whole

\* What a command reported stays on record: a receipt it recorded is in the
\* union of the logs, an entry it recorded is applied, through every later
\* record, advance, migration and crash.
ReportedKept ==
    \A c \in told : IF c \in Receipt THEN c \in Range(read_all_receipts)
                                     ELSE c.entry \in Applied

\* The two layouts are never mixed again: once nothing legacy is left in the
\* stamp and in `.host-receipts`, no command puts it back ("so the set never
\* fragments across the two files").
NewLayout ==
    /\ file["host"].applied = {}
    /\ \A r \in Range(file["receipts"].log) : is_methodology_phase(r.phase)
NewLayoutStays == [][NewLayout => NewLayout']_vars

-----------------------------------------------------------------------------
(* What is left of it when commands of several sessions overlap. *)

\* No entry is applied that was not applied at first or recorded by a command
\* that found its prerequisites applied: advance "can never sweep an unapplied
\* entry into the baseline", whatever its reading of the files has become by the
\* time it writes (upgrade --advance).
NeverSwept == Applied \subseteq asked
=============================================================================
