----------------------------- MODULE HostFolder -----------------------------
(***************************************************************************)
(* The commands that write among the operator's own files, in one folder:  *)
(* scaffold, init and adopt make a host of it and commit what they made,   *)
(* remap --apply rewrites its notes by a dictionary (src/src/main.rs).     *)
(* Every write may fail, tear the file or be the last before a kill; the   *)
(* operator edits, stages and commits between the commands and in them.    *)
(***************************************************************************)
EXTENDS Naturals, FiniteSets, SequencesExt

CONSTANTS
    ROOMS,      \* the rooms, each with its keepfile
    Doc,        \* the operator's notes
    Skipped,    \* those remap leaves alone: CI files, patterns of .host-lintignore
    Ignored,    \* those git ignores
    Line,       \* what a line of a note may say
    Dictionary, \* the rules of `.host-remap`: old, new and the length of old
    MaxEdits    \* bound: the operator's changes and commits, and what is cut short

STAMP == ".host"
SCAFFOLD == ROOMS \cup {STAMP, "LEXICON", "README.md", "MEMORY.md"}
CARRIED == {"README.md"}
Unchecked == ROOMS \cup {"README.md"}    \* a failed write of these is passed over
File == SCAFFOLD \cup Doc
Own == Doc \cup {"README.md", "MEMORY.md"}  \* the notes, and the two that are his to fill

\* A file's text, by lines.
Absent == << >>
Torn == <<"torn">>      \* cut short; of a room: without its keepfile
Seed == <<"seed">>      \* as the tool writes it
Note == Line \X Line    \* a plain line, and one in a fence the linter ignores

\* What finalize_onboarding does in the repository, once the files are written.
GIT == {"git add", "git commit", "remote"}

ASSUME FolderAssumption ==
    /\ IsFiniteSet(File) /\ File \cap GIT = {}
    /\ ROOMS \cap {STAMP, "LEXICON", "README.md", "MEMORY.md"} = {}
    /\ SCAFFOLD \cap Doc = {} /\ Skipped \subseteq Own /\ Ignored \subseteq Doc
    /\ \A r \in Dictionary : {r.old, r.new} \subseteq Line /\ r.length \in Nat
    /\ MaxEdits \in Nat

VARIABLES
    folder,     \* what it is: "agentic" by its name, with a "software" manifest
    work,       \* what each file says
    index,      \* what is staged of it
    head,       \* what the last commit holds of it
    archive,    \* every text any commit ever held
    repo,       \* the folder is a repository
    remote,     \* it has one on GitHub
    command,    \* what was begun last: "onboarding" or "remap"
    job,        \* the running command's steps, the next one first
    edited,     \* what the operator changed while it ran
    edits       \* how often he did, or a command was cut short

git == <<index, head, archive, repo, remote>>
vars == <<folder, work, git, command, job, edited, edits>>

-----------------------------------------------------------------------------
(* How onboarding reads the folder. *)

exists(f) == work[f] # Absent
agentic_basename == "agentic" \in folder
is_empty == ~repo /\ "software" \notin folder /\ \A f \in File : ~exists(f)
dir_effectively_empty == "software" \notin folder /\ \A f \in File \ CARRIED : ~exists(f)
adopt_in_place_refusal == "software" \in folder /\ ~exists(STAMP)

\* The name given, in the environment or asked for is a slug, and this is its folder.
Named == agentic_basename

adopt_route(force) ==
    CASE adopt_in_place_refusal -> "refuse"
      [] /\ ~adopt_in_place_refusal /\ agentic_basename
         /\ force \/ (~exists(STAMP) /\ dir_effectively_empty) -> "in place"
      [] OTHER -> "elsewhere"

(* What a command does, step by step. *)

scaffold_rooms_stamp == SetToSeq(ROOMS) \o <<STAMP, "LEXICON">>
finalize_onboarding(no_git) == IF no_git THEN << >> ELSE <<"git add", "git commit", "remote">>

\* Faulty variant: what git does not track yet does not make the tree unclean.
CleanTracked == repo /\ \A f \in File : head[f] # Absent => work[f] = index[f] /\ index[f] = head[f]

\* Nothing changed, staged or untracked; an empty directory is nothing to git.
require_clean_git ==
    repo /\ \A f \in File \ Ignored :
        index[f] = head[f] /\ (work[f] = head[f] \/ (f \in ROOMS /\ work[f] = Torn))
\* Of the tool's own texts none holds anything to rename.
collect_files == {f \in File : exists(f)}
is_target(f) == f \in Own
path_ignored(f) == f \in Skipped
Targets == {f \in collect_files : is_target(f) /\ ~path_ignored(f)}

\* The longest left side comes first.
load_remap == SetToSortSeq(Dictionary, LAMBDA r, s : r.length > s.length)

\* The rules go over a line one after the other, each over what the last one left.
apply_rules(line) == FoldLeft(LAMBDA l, r : IF l = r.old THEN r.new ELSE l, line, load_remap)
apply_text(text) == IF text \in Note THEN <<apply_rules(text[1]), text[2]>> ELSE text

-----------------------------------------------------------------------------
(* The commands begin. *)

Idle == job = << >>
Run(which, steps) ==
    /\ Idle /\ command' = which /\ job' = steps /\ edited' = {}
    /\ UNCHANGED <<folder, work, git, edits>>

scaffold == Run("onboarding", scaffold_rooms_stamp)

\* A folder with anything in it must be forced.
create_project == scaffold_rooms_stamp \o <<"README.md", "MEMORY.md">>
init(force, no_git) ==
    /\ Named /\ (force \/ is_empty)
    /\ Run("onboarding", create_project \o finalize_onboarding(no_git))

\* A refused folder, and the source of a host made elsewhere, are left as they are.
adopt(force, no_git) ==
    /\ adopt_route(force) = "in place"
    /\ Run("onboarding", scaffold_rooms_stamp \o <<"MEMORY.md">> \o finalize_onboarding(no_git))
remap_apply ==
    /\ load_remap # << >> /\ require_clean_git
    /\ Run("remap", SetToSeq(Targets))

-----------------------------------------------------------------------------
(* Their steps. *)

Turn == edits < MaxEdits /\ edits' = edits + 1
Done == job' = Tail(job) /\ UNCHANGED edits
Exit == job' = << >> /\ Turn
Due(f) == ~Idle /\ Head(job) = f

\* A write puts the whole text, or leaves the file cut short: the command ends there,
\* or goes on when it does not look, as onboarding does not at some.
Write(f, text) ==
    \/ work' = [work EXCEPT ![f] = text] /\ Done
    \/ /\ work' = [work EXCEPT ![f] = Torn] /\ Turn
       /\ job' \in {<< >>} \cup (IF command = "onboarding" /\ f \in Unchecked THEN {Tail(job)} ELSE {})

\* What is there stays, whatever it is; the stamp is written in every case.
seed ==
    \E f \in SCAFFOLD :
        /\ command = "onboarding" /\ Due(f)
        /\ IF exists(f) /\ f # STAMP THEN Done /\ UNCHANGED work ELSE Write(f, Seed)
        /\ UNCHANGED <<folder, git, command, edited>>

\* Only what was scaffolded is staged, not what else stands in the folder.
git_add ==
    /\ Due("git add")
    /\ repo' = TRUE
    /\ \/ /\ index' = [f \in File |-> IF f \in SCAFFOLD /\ exists(f) /\ ~(f \in ROOMS /\ work[f] = Torn)
                                      THEN work[f] ELSE index[f]]
          /\ Done
       \/ UNCHANGED index /\ Exit
    /\ UNCHANGED <<folder, work, head, archive, remote, command, edited>>

\* The commit takes the index as it is, with what the operator had staged.
Committed(staged) ==
    /\ head' = staged
    /\ archive' = archive \cup {<<f, staged[f]>> : f \in {f \in File : staged[f] # Absent}}
git_commit ==
    /\ Due("git commit")
    /\ \/ Committed(index) /\ Done
       \/ UNCHANGED <<head, archive>> /\ Exit
    /\ UNCHANGED <<folder, work, index, repo, remote, command, edited>>

\* Unless --github asked for it and gh is there, the project stays local.  A creation or
\* push that fails ends the command after the commit; a second creation always does.
github_create_push ==
    /\ Due("remote")
    /\ \/ ~remote /\ remote' = TRUE /\ Done
       \/ UNCHANGED remote /\ Done
       \/ remote' \in {remote, TRUE} /\ Exit
    /\ UNCHANGED <<folder, work, index, head, archive, repo, command, edited>>

remap ==
    \E f \in Own :
        /\ command = "remap" /\ Due(f)
        /\ IF apply_text(work[f]) = work[f] THEN Done /\ UNCHANGED work ELSE Write(f, apply_text(work[f]))
        /\ UNCHANGED <<folder, git, command, edited>>
Kill == ~Idle /\ Exit /\ UNCHANGED <<folder, work, git, command, edited>>

-----------------------------------------------------------------------------
(* The operator. *)

Edit(f, text) ==
    /\ Turn
    /\ work' = [work EXCEPT ![f] = text] /\ edited' = IF Idle THEN edited ELSE edited \cup {f}
    /\ UNCHANGED <<folder, git, command, job>>
WriteOwn == \E f \in Own, line \in Line : Edit(f, <<line, line>>)
Restore == \E f \in Own : head[f] # Absent /\ Edit(f, head[f])
Stage ==
    /\ repo /\ Turn
    /\ \E f \in Own \ Ignored : index' = [index EXCEPT ![f] = work[f]]
    /\ UNCHANGED <<folder, work, head, archive, repo, remote, command, job, edited>>
CommitAll ==
    /\ repo' = TRUE /\ Turn
    /\ index' = [f \in File |-> IF f \in Ignored \/ (f \in ROOMS /\ work[f] = Torn) THEN index[f] ELSE work[f]]
    /\ Committed(index')
    /\ UNCHANGED <<folder, work, remote, command, job, edited>>

Init ==
    /\ folder \in {{}, {"agentic"}, {"agentic", "software"}}
    /\ \E own \in SUBSET (CARRIED \cup Doc), line \in Line :
          work = [f \in File |-> IF f \in own THEN <<line, line>> ELSE Absent]
    /\ repo = FALSE /\ remote = FALSE /\ index = [f \in File |-> Absent] /\ head = index /\ archive = {}
    /\ command = "onboarding" /\ job = << >> /\ edited = {} /\ edits = 0

Next ==
    \/ scaffold \/ \E force, no_git \in BOOLEAN : init(force, no_git) \/ adopt(force, no_git)
    \/ remap_apply \/ seed \/ git_add \/ git_commit \/ github_create_push \/ remap \/ Kill
    \/ WriteOwn \/ Restore \/ Stage \/ CommitAll
Spec == Init /\ [][Next]_vars
=============================================================================
