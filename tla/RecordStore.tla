---------------------------- MODULE RecordStore ----------------------------
(***************************************************************************)
(* The project's record files and the commands that write them             *)
(* (src/src/main.rs): `.host` (the stamp: baseline and legacy applied      *)
(* lines), `.host-receipts` (applied lines and methodology receipts) and   *)
(* `.host-lifecycle-receipts` (operational receipts).  Each command is a   *)
(* process that reads, decides, and then rewrites whole files one after    *)
(* the other with write_atomic: fill a temporary of a FIXED name, rename   *)
(* it over the file.  Sessions share the files and nothing else; there is  *)
(* no lock, and a process may die between any two steps.                   *)
(***************************************************************************)
EXTENDS Integers, Sequences

CONSTANTS
    Session,        \* the processes at work on one project
    LastEntry,      \* the ledger entries of UPGRADING.md are 1 .. LastEntry
    Depends,        \* each entry's declared prerequisites
    Revision,       \* where the legacy stamp's revision stands in the ledger
    Via,            \* the dispositions an entry may be recorded under
    Operational,    \* the operational phases a receipt may be about
    MaxSerial,      \* bound: no receipt is asked for after this many
    MaxLog          \* bound: no migration is started on a longer receipt log

Entry == 1 .. LastEntry

ASSUME RecordAssumption ==
    /\ LastEntry \in Nat
    /\ Depends \in [Entry -> SUBSET Entry]
    /\ Revision \in Entry
    /\ Via \subseteq {"satisfied", "inapplicable"} /\ "satisfied" \in Via
    /\ Operational \cap {"adopt", "upgrade"} = {}
    /\ MaxSerial \in Nat
    /\ MaxLog \in Nat

VARIABLES
    file,       \* what each record file holds
    tmp,        \* what stands under each file's temporary name, if anything
    job,        \* each session's command and how far it is
    serial,     \* history: receipts numbered in the order they were asked for
    asked,      \* history: the entries applied at first or asked to be recorded
    told        \* history: what a command that exited 0 said is on record

vars == <<file, tmp, job, serial, asked, told>>

-----------------------------------------------------------------------------
(* Files.  An applied line is an entry and the disposition it was recorded *)
(* under; the order of applied lines is not kept.  A receipt is its phase  *)
(* and its serial.  Baseline 0 is a stamp that carries only a revision,    *)
(* Nothing one with neither.  A text that is not whole was truncated, or   *)
(* is two texts mixed, and is read as far as it goes.  Upgrade stands for  *)
(* both methodology phases, adopt and upgrade.                             *)

File == {"host", "receipts", "lifecycle"}
Phase == Operational \cup {"upgrade"}
Receipt == [phase : Phase, serial : Nat]
Line == [entry : Entry, via : Via]
Nothing == -1
Content == [whole : BOOLEAN, baseline : Nothing .. LastEntry,
            applied : SUBSET Line, log : Seq(Receipt)]

Blank == [whole |-> TRUE, baseline |-> 0, applied |-> {}, log |-> << >>]
Torn == [Blank EXCEPT !.whole = FALSE, !.baseline = Nothing]
Absent == [Blank EXCEPT !.baseline = -2]   \* no temporary of that name

\* What a piece of a stamp shows of its baseline: a cut value is no value, and the
\* revision stands above the baseline.
Shows(baseline) == IF baseline = Nothing THEN {Nothing} ELSE {Nothing, 0, baseline}

\* A text written so far.
Cuts(text) ==
    [whole : {FALSE}, baseline : Shows(text.baseline), applied : SUBSET text.applied,
     log : {SubSeq(text.log, 1, n) : n \in 0 .. Len(text.log)}]

\* A text and the tail of a longer one it was written over: the first baseline counts.
Mixed(text, old) ==
    [whole : {FALSE},
     baseline : IF text.baseline > 0 THEN {text.baseline}
                ELSE {b \in {text.baseline} \cup Shows(old.baseline) : text.baseline <= b},
     applied : {text.applied \cup tail : tail \in SUBSET old.applied},
     log : {text.log \o SubSeq(old.log, n, Len(old.log)) : n \in 1 .. Len(old.log) + 1}]

Methodology == {"adopt", "upgrade"}
is_methodology_phase(phase) == phase \in Methodology
HomeOf(r) == IF is_methodology_phase(r.phase) THEN "receipts" ELSE "lifecycle"

read_all_receipts == file["receipts"].log \o file["lifecycle"].log

\* Faulty variant: new applied lines always go to the stamp.
AlwaysStamp == "host"

\* The applied lines live in the stamp while it still has any.
applied_file ==
    IF file["host"].applied = {} THEN "receipts" ELSE "host"
read_applied_lines == file["host"].applied \cup file["receipts"].applied
read_applied_ids == {a.entry : a \in read_applied_lines}

-----------------------------------------------------------------------------
(* The upgrade ledger. *)

\* A legacy stamp's revision stands for the entry it maps to.
baseline_of(stamp) == IF stamp.baseline = 0 THEN Revision ELSE stamp.baseline

entry_applied(e, base, applied) == e \in applied \/ e <= base
Applied ==
    {e \in Entry : entry_applied(e, baseline_of(file["host"]), read_applied_ids)}
Consistent == \A e \in Applied : Depends[e] \subseteq Applied

\* No entry waits for itself, directly or through others.
validate_ledger ==
    \A loop \in SUBSET Entry \ {{}} : \E e \in loop : Depends[e] \cap loop = {}

\* Faulty variant: up to the last applied entry, over those that are not.
LastApplied(p) == p \in Applied /\ \A e \in Applied : e <= p

\* The last entry of the run of applied ones that follows the baseline.
Furthest(p) ==
    /\ \A e \in Entry : e <= p => e \in Applied
    /\ p + 1 \notin Applied

-----------------------------------------------------------------------------
(* A command is a list of rewrites still to make.  Each is made from what  *)
(* the file holds when its turn comes, except a staged one (Put), whose    *)
(* text was settled when the command started.                              *)

Put(f, text) == [file |-> f, edit |-> "put", text |-> text]
AddReceipt(r) == [file |-> HomeOf(r), edit |-> "receipt", receipt |-> r]
BareLine(a) == [file |-> "applied", edit |-> "line", line |-> [entry |-> a.entry]]
AddLine(a) == [file |-> "applied", edit |-> "line", line |-> a]
Advance(p, ids) == [file |-> "host", edit |-> "advance", upto |-> p, ids |-> ids]
Absorb(ids) == [file |-> "receipts", edit |-> "absorb", ids |-> ids]

FileOf(w) == IF w.file = "applied" THEN applied_file ELSE w.file
remove_applied_lines(lines, ids) == {a \in lines : a.entry \notin ids}
Rewritten(w, old) ==
    CASE w.edit = "put"     -> w.text
      [] w.edit = "receipt" -> [old EXCEPT !.log = Append(@, w.receipt)]
      [] w.edit = "line"    -> [old EXCEPT !.applied = @ \cup {w.line}]
      [] w.edit = "advance" -> [old EXCEPT !.baseline = w.upto,
                                           !.applied = remove_applied_lines(@, w.ids)]
      [] w.edit = "absorb"  -> [old EXCEPT !.applied = remove_applied_lines(@, w.ids)]

Command(todo, says) ==
    [todo |-> todo, at |-> "read", file |-> "host", text |-> Blank, says |-> says]
Idle == Command(<< >>, {})
Busy(s) == job[s] # Idle

Begin(s, todo, says) ==
    /\ ~Busy(s)
    /\ todo # << >>
    /\ job' = [job EXCEPT ![s] = Command(todo, says)]
    /\ UNCHANGED <<file, tmp, told>>

-----------------------------------------------------------------------------
(* The commands. *)

\* receipt --record, and every other verb that appends a receipt: the goal
\* verbs, software --materialize, release.
receipt_record(s, phase) ==
    /\ serial < MaxSerial
    /\ serial' = serial + 1
    /\ LET r == [phase |-> phase, serial |-> serial + 1]
       IN  Begin(s, << AddReceipt(r) >>, {r})
    /\ UNCHANGED asked

\* An upgrade command needs a stamp with a baseline or a revision, and first gives a
\* legacy one its baseline.
Stamped == file["host"].baseline # Nothing
StampMigration ==
    IF file["host"].baseline = 0
    THEN << Put("host", [file["host"] EXCEPT !.baseline = Revision]) >>
    ELSE << >>

\* upgrade, upgrade --next, and any upgrade that goes on to refuse: an
\* inconsistent record, unmet prerequisites, a verify that fails.
upgrade_list(s) ==
    /\ Stamped /\ validate_ledger
    /\ Begin(s, StampMigration, {})
    /\ UNCHANGED <<serial, asked>>

\* Faulty variant: the prerequisites are not looked at.
RecordAnyway(s, e, via) ==
    /\ Stamped
    /\ e \notin Applied
    /\ LET a == [entry |-> e, via |-> via]
       IN  Begin(s, StampMigration \o << AddLine(a) >>, {a})
    /\ asked' = asked \cup {e}
    /\ UNCHANGED serial

\* An enabled record is one whose verify passed, whose citation exists or
\* whose inapplicability was given a reason.
upgrade_record(s, e, via) ==
    /\ Stamped /\ validate_ledger
    /\ Consistent
    /\ e \notin Applied
    /\ Depends[e] \subseteq Applied
    /\ LET a == [entry |-> e, via |-> via]
       IN  Begin(s, StampMigration \o << AddLine(a) >>, {a})
    /\ asked' = asked \cup {e}
    /\ UNCHANGED serial

upgrade_advance(s) ==
    /\ Stamped /\ validate_ledger
    /\ Consistent
    /\ \E p \in Entry :
          LET absorbed == {e \in read_applied_ids : e <= p}
          IN  /\ Furthest(p) /\ p # baseline_of(file["host"])
              /\ Begin(s, StampMigration \o << Advance(p, absorbed), Absorb(absorbed) >>, {})
    /\ UNCHANGED <<serial, asked>>

\* Faulty variant: a file that sheds is written first.
ShedsFirst == << "receipts", "lifecycle", "host" >>

\* The receipts of some phases, in their order.
only(log, phases) ==
    LET kept[i \in 0 .. Len(log)] ==
            IF i = 0 THEN << >>
            ELSE IF log[i].phase \in phases THEN Append(kept[i - 1], log[i]) ELSE kept[i - 1]
    IN  kept[Len(log)]

\* Each file that receives is written before the file that sheds.
MigrationOrder == << "lifecycle", "receipts", "host" >>
migrate_receipts(s) ==
    LET log == file["receipts"].log
        operational == only(log, Phase \ Methodology)
        methodology == only(log, Methodology)
        text == [lifecycle |-> [file["lifecycle"] EXCEPT !.log = @ \o operational],
                 receipts  |-> [whole |-> TRUE, baseline |-> 0,
                                applied |-> read_applied_lines, log |-> methodology],
                 host      |-> [file["host"] EXCEPT !.applied = {}]]
    IN  /\ Len(read_all_receipts) <= MaxLog
        /\ file["host"].applied # {} \/ operational # << >>
        /\ Begin(s, [i \in 1 .. 3 |-> Put(MigrationOrder[i], text[MigrationOrder[i]])], {})
        /\ UNCHANGED <<serial, asked>>

-----------------------------------------------------------------------------
(* write_atomic, one rewrite at a time. *)

At(s, step) == Busy(s) /\ job[s].at = step
Move(s, step) == job' = [job EXCEPT ![s].at = step]

\* The rewrite at the head is made, or turned out to change nothing.
Onward(j) == IF Len(j.todo) = 1 THEN Idle
            ELSE [j EXCEPT !.todo = Tail(@), !.at = "read"]
Exits(s) == told' = IF Len(job[s].todo) = 1 THEN told \cup job[s].says ELSE told

\* The command reads the file and works out its new text; advance leaves
\* `.host-receipts` alone when it has no line to absorb.
Read(s) ==
    /\ At(s, "read")
    /\ LET w == Head(job[s].todo)
           f == FileOf(w)
           text == Rewritten(w, file[f])
       IN  IF w.edit = "absorb" /\ text = file[f]
           THEN job' = [job EXCEPT ![s] = Onward(@)] /\ Exits(s)
           ELSE /\ job' = [job EXCEPT ![s].at = "open", ![s].file = f, ![s].text = text]
                /\ UNCHANGED told
    /\ UNCHANGED <<file, tmp, serial, asked>>

\* Faulty variant: the file is written in place.
OpenInPlace(s) ==
    /\ At(s, "open")
    /\ file' = [file EXCEPT ![job[s].file] = Torn]
    /\ Move(s, "fill over")
    /\ UNCHANGED <<tmp, serial, asked, told>>

\* fs::write truncates whatever stands under the temporary's name and begins to
\* write: what is there until it has done is any beginning of the text.
Open(s) ==
    /\ At(s, "open")
    /\ \E c \in Cuts(job[s].text) : tmp' = [tmp EXCEPT ![job[s].file] = c]
    /\ Move(s, "fill")
    /\ UNCHANGED <<file, serial, asked, told>>

\* ... and writes through the handle it opened, wherever a rename by another
\* session has put that file since.  A second text over a longer first leaves its
\* tail behind.
Filled(old, text) ==
    IF [old EXCEPT !.whole = FALSE] \in Cuts(text) THEN {text}
    ELSE {text} \cup Mixed(text, old)
Fill(s) ==
    /\ \/ /\ At(s, "fill")
          /\ \E c \in Filled(tmp[job[s].file], job[s].text) :
                tmp' = [tmp EXCEPT ![job[s].file] = c]
          /\ UNCHANGED file
       \/ /\ At(s, "fill over")
          /\ \E c \in Filled(file[job[s].file], job[s].text) :
                file' = [file EXCEPT ![job[s].file] = c]
          /\ UNCHANGED tmp
       \/ /\ At(s, "fill nothing")
          /\ UNCHANGED <<file, tmp>>
    /\ Move(s, "rename")
    /\ UNCHANGED <<serial, asked, told>>

\* A handle on the temporary is now a handle on the file, and one on the old
\* file a handle on nothing.
Renamed(f, j) ==
    IF j.file # f THEN j
    ELSE CASE j.at = "fill"      -> [j EXCEPT !.at = "fill over"]
           [] j.at = "fill over" -> [j EXCEPT !.at = "fill nothing"]
           [] OTHER              -> j

Rename(s) ==
    /\ At(s, "rename")
    /\ LET f == job[s].file
       IN  /\ tmp[f] # Absent
           /\ file' = [file EXCEPT ![f] = tmp[f]]
           /\ tmp' = [tmp EXCEPT ![f] = Absent]
           /\ job' = [x \in Session |->
                        IF x = s THEN Onward(job[s]) ELSE Renamed(f, job[x])]
    /\ Exits(s)
    /\ UNCHANGED <<serial, asked>>

\* Another session has renamed the temporary away: the command exits 2.
RenameFails(s) ==
    /\ At(s, "rename")
    /\ tmp[job[s].file] = Absent
    /\ job' = [job EXCEPT ![s] = Idle]
    /\ UNCHANGED <<file, tmp, serial, asked, told>>

\* Killed, or out of disk: the temporary stays as it is.
Crash(s) ==
    /\ Busy(s)
    /\ job' = [job EXCEPT ![s] = Idle]
    /\ UNCHANGED <<file, tmp, serial, asked, told>>

-----------------------------------------------------------------------------
\* A project an earlier release adopted: applied lines in the stamp, and receipts of
\* every phase in `.host-receipts`.  A baseline was derived from the revision once and
\* has only moved on since, taking in the lines up to it.
LegacyLogs ==
    {<< >>} \cup {log \in {<< [phase |-> p, serial |-> 0] >> : p \in Phase} : Len(log) <= MaxLog}
Init ==
    /\ \E base \in {0} \cup Revision .. LastEntry, lines \in SUBSET [entry : Entry, via : {"satisfied"}],
          log \in LegacyLogs :
          /\ \A a \in lines : a.entry > base /\ a.entry > Revision
          /\ file = [host      |-> [Blank EXCEPT !.baseline = base, !.applied = lines],
                     receipts  |-> [Blank EXCEPT !.log = log],
                     lifecycle |-> Blank]
          /\ told = {log[i] : i \in DOMAIN log}
    /\ Consistent
    /\ tmp = [f \in File |-> Absent]
    /\ job = [s \in Session |-> Idle]
    /\ serial = 0
    /\ asked = Applied

Start(s) ==
    \/ \E phase \in Phase : receipt_record(s, phase)
    \/ upgrade_list(s)
    \/ \E e \in Entry, via \in Via : upgrade_record(s, e, via)
    \/ upgrade_advance(s)
    \/ migrate_receipts(s)

Step(s) == Read(s) \/ Open(s) \/ Fill(s) \/ Rename(s) \/ RenameFails(s)

Next == \E s \in Session : Start(s) \/ Step(s) \/ Crash(s)
Spec == Init /\ [][Next]_vars
=============================================================================
