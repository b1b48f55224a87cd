# A TLA+ model of host-lifecycle

`host-lifecycle` is a command-line tool (and an MCP server over the same code)
that keeps a repository of documents, pinned components and receipts honest. It
has no database and no daemon: its state is a handful of text files, every
command is a process that reads some of them, decides, and rewrites some of
them, and any process may be killed between two writes or overlap with one of
another session. These modules model those commands against the source in
`src/`, check them with TLC on small instances and prove the properties that
matter most with TLAPS for every size.

Paths below are relative to the repository's `src/` directory, so `goal.rs:943`
is line 943 of its `src/goal.rs`.

## 1. The system

### 1.1 Components

| Component | State it keeps | Operations | What makes it hard |
|---|---|---|---|
| goal verbs (`goal.rs`) | goal receipts in `.host-lifecycle-receipts`; the goal marker closing each milestone README's status; OWED rows of `PLAN.md`; `GOAL.md`; the per-worktree `.host-goal` claim | set, park, unpark, abandon, complete, accept, repair, show, propose | five files written one after the other with no journal; four are tracked and shared by worktrees, one is not; the log is the only thing a repair can read |
| record files (`main.rs` 1120-1200, 8350-8670, 10299-10950) | `.host` (baseline, legacy `applied` lines), `.host-receipts`, `.host-lifecycle-receipts` | `receipt --record`, `upgrade` (list, `--next`, `--record`, `--advance`), the stamp migration, `migrate-receipts` | read-modify-write of whole files with no lock and one fixed temporary name per file; a set kept in one of two files depending on the layout |
| receipt gate and phase manifest (`main.rs` 10108-10288, 10605-10655) | none (reads the receipts) | `receipt --gate`, `--manifest`, `ci receipts` | the last stanza of a phase wins, whoever appended it |
| Where room (`main.rs` 5410-6434, 4502-4715) | one bare store per component, worktrees, handle, checkout, lock file | `software --materialize`, `--check`, `--teardown`, `--lock`, `--install-hooks` | a loop over components that may stop in the middle; receipts buffered to the end; unsaved work; a moved pin |
| environment fingerprint (`envhash.rs`) | `.host-envhash` | `env-check`, the refresh after each mutating command | a cached reading of the tree that goes stale |
| bootstrap and setup (`bootstrap.rs`, `setup.rs`) | submodules, skill links, hooks, the re-deriver | `bootstrap`: the steps of a fresh clone, each skipped when it is not owed; `--verify-setup` | seven steps that make what later ones read, any of which may fail; two readers of one clone that each see part of it |
| memory store (`memory.rs`) | entries and their `MEMORY.md` index, per user | write, delete, list, read | entry and index are two writes, by several servers at once |
| dream (`dream.rs`) | the tier marker | the audit with its detectors, stamp, retire | check, then write; a verdict on links from a clone that has no store |
| MCP server (`mcp.rs`) | the session (initialized, elicitation offered) | requests over stdio, elicitation | a request that reads the stream itself while it waits |
| task graph (`main.rs` 3059-4018) | task receipts | `tasks` record, rederive, gate, complete | cycles, verdicts that outlive the task they were about |
| release (`main.rs` 11011-11720) | manifest version, lock file, generated files, staged bundle, tag, receipts | `release`, and the steps it prints for the operator | several files bumped in sequence, then a build; a failed release is run again |
| obligations and proof rungs (`main.rs` 7500-8200) | digest ledger | gate, `--rederive`, `--record-digests` | a proof that is about other sources than those released |
| scaffold, init, adopt, remap (`main.rs` 332-1300, 1326-1760) | rooms, stamp, seeds, the notes | onboarding in a folder that may hold anything, substitution over every note | writes among the operator's own files |
| prose, reconcile, entrance, references, book, the registers' numbering | none | read-only detectors, rendering | string processing |

How they interact: every component that does something worth remembering
appends a receipt, so all of them write the record files; the goal verbs,
`software --materialize`, the task verbs and `receipt --record` go through the same
`append_receipt`; `bootstrap` calls materialize, the hook installer and the gate in
turn; `release` asks the obligations first. Nothing calls back and there are no
threads: what interleaves is processes of several sessions and the operator's own
edits. Coupling is by file only, which is why the record files have a module of their
own and the goal module is about the order in which one verb touches several of
them. `goal_receipt` appends through the same `append_receipt`; the goal module
takes one append as one step, and what an overlap does to that append is the
business of the record module.

### 1.2 What correctness means, per component

- goal: one goal at a time; a declaration never displaces an open goal; nothing
  is accepted that was not closed; a marker in a README always has a receipt
  that explains it, whatever was cut short; the debt of an abandonment is
  written once; acceptance frees the slot.
- record files: what a command reported as recorded stays on record; no file is
  ever seen torn; the applied set only grows and stays closed under the
  prerequisites the ledger declares; the two layouts do not mix; nobody's
  advance marks as done what nobody did.
- Where room: a materialize that says done has realized everything, whatever an
  earlier run left; a receipt stands for a run that realized what it was asked to;
  no work that git can show is destroyed unasked.
- clone (bootstrap, gate, fingerprint): one undisturbed run makes everything it can
  make and a second changes nothing; what it leaves is no drift; nothing that
  was recorded leaves the clone without the gate or the fingerprint saying so.
- memory store: an entry that was written and not deleted is read, and listed if its
  line in the index reads back as its own; a retired marker stays retired; no link is
  called broken by a clone that cannot know.
- MCP server: every request of a waiting client gets its answer, and what ends a
  question is an answer to it.
- task graph: a sound graph can always go on; a complete milestone owes nothing;
  fresh means vouched for on these contents.
- release: tag, manifest, lock, generated files, artifact, proofs and receipts speak
  of one tree; what a failure leaves does not add up.
- onboarding and remap: no text of the operator's is lost.

## 2. The modules

| Module | Role |
|---|---|
| `GoalLedger` | goal receipts, the fold `goal_state`, the markers, the last closure (`goal.rs` 21-78, 888-926); no variables |
| `GoalLifecycle` | the goal verbs, their writes, crashes and the operator's edits |
| `GoalRecord` | abstract: one goal at a time, no files |
| `GoalProperties` | type, invariants, liveness of the goal verbs |
| `GoalRefinement` | `GoalRecord` as an instance under the fold |
| `GoalProofs` | the theorems about both |
| `RecordStore` | the three record files, `write_atomic` and the commands that use it |
| `AppliedSet` | abstract: a set that grows over declared prerequisites |
| `RecordProperties`, `RecordRefinement` | properties; `AppliedSet` as an instance |
| `RecordProofs` | the theorems: any number of sessions, and one command at a time |
| `WhereRoom`, `WhereProperties`, `WhereProofs` | stores, worktrees, handles, their two records; materialize and teardown a step at a time; the operator |
| `CloneSetup`, `CloneProperties`, `CloneProofs` | bootstrap, the completeness gate, the fingerprint, hooks, the commands and damage between runs |
| `DreamAudit` | what the audit finds: a function of the tier, the store's presence and the entries; no variables |
| `UserMemory` | extends `DreamAudit`: the store's files, the tier marker, the processes that work on them |
| `McpServer` | extends `UserMemory`: servers, their clients' pipes, the elicitation |
| `UserProperties`, `UserProofs` | the properties of the three |
| `TaskGraph`, `TaskProperties`, `TaskProofs` | headings to tasks, the checks, verdicts, recording and re-derivation |
| `Obligations` | dispositions, rungs, the digest ledger; shares its variables with `Release` |
| `Release`, `ReleaseProperties`, `ReleaseProofs` | extends `Obligations`: a component's release, the receipt gate, the operator's steps, the forge |
| `HostFolder`, `FolderProperties`, `FolderProofs` | scaffold, init, adopt and remap in one folder, the operator's git |
| `MCGoal`, `MCRecord`, `MCWhere`, `MCClone`, `MCUser`, `MCTask`, `MCRelease`, `MCFolder` | the instances: recipes, ledgers, graphs; symmetry and views where sound |

### 2.1 GoalLifecycle and the code

A verb is one process. Its first action (`set`, `park`, ...) is everything it
reads and decides, with the guards in the code's order (argument, target shape,
open goal, sidecar); a refusal writes nothing and has no action. What the verb
then writes is the set `op.todo`, consumed in the one order the code has
(`Earlier`): receipt (`goal_receipt`), OWED row (`append_owed_row`, abandon
only), README status (`write_readme_status`), claim (`write_claim`), `GOAL.md`
(`write_goal_surface`). One write is one action, so that `Crash` falls between
any two. `WriteSurface` writes the fold of the log as it is then, as the code
re-reads it. `repair` has the code's two branches: the torn closure, if
`unresolved_closure` finds one, else the claim and `GOAL.md` from the fold.

The milestone directory is abstracted to a shape (`missing`, `bare` without a
readable README, `unshaped` without the task structure, `shaped`): all that
`target_defect`, `readme_path` and `unresolved_closure` tell apart. A README is
its goal marker. `complete` also runs subprocess gates (plan row, tasks, gate
verbs, clean tree): an enabled `complete` is one they let through.

The environment between commands is `EditPlan` (directories cut, moved away and back,
edited: one that comes back brings the marker it had), `AddTable`, `DropSidecar` (the
sidecar is untracked, so a checkout or a clean loses it) and `Switch` (the next
command runs in another worktree). Two goal verbs at the same time are not modelled in
this module, so the race of two `goal set` that both look and then append is outside
it; what an overlap does to the append itself is in `RecordStore`.

`clean` is a history variable: no verb was cut short and no repair was run. Only
the properties that the code cannot promise after a kill mention it. `missed` is
another: the milestones whose last status write met no README and was skipped without
a word (`goal.rs:1143`), of which `RecordAgrees` can promise nothing until the next
one is written. `RepairConverges` is what is promised after a kill: a repair that
runs to its end leaves no torn closure to find, and no claim on another milestone.

### 2.2 RecordStore and the code

A command is a list of rewrites still to make (`job[s].todo`), decided when it
starts from the files as they are then. Each rewrite is the code's
`write_atomic`: `Read` works out the new text from the file as it is when its
turn comes (except a `Put`, whose text was settled at the start: the stamp
migration and `migrate-receipts` compute their texts first and write
afterwards), `Open` truncates the temporary, `Fill` writes it, `Rename` moves it
over the file. The temporary's name depends on the file only, so with two
sessions one may truncate the other's temporary, write through its handle into
what the other has already renamed (`fill over`), or find the name gone
(`RenameFails`: exit 2). `Crash` leaves the temporary behind.

A text is `[whole, baseline, applied, log]`: the lines the commands read back.
A text that is not whole is a beginning of one (`Cuts`), or one over the tail of a
longer (`Mixed`), and shows what lines it still has: a stamp cut above its baseline
shows only its revision, one cut above that `Nothing`; the next rewrite of `advance`
gives either a baseline again. An applied line cut within its id is taken not to read
as another entry's (no ledger id is the beginning of another), and one cut within its
provenance keeps it. `applied` is a set because no
reader depends on the order of applied lines; `log` is a sequence because the
last stanza of a phase is the current one. Of the two methodology phases only
`upgrade` appears, since the code treats both the same way here.

`upgrade_record` is enabled for an entry whose verify passed, whose citation
exists or whose inapplicability was given a reason: those are the environment's. A
ledger whose entries wait for each other is refused by all three (`validate_ledger`).
An upgrade that goes on to refuse still migrates a legacy stamp first, which is
`upgrade_list`.

`serial`, `asked` and `told` are history: the order in which receipts were asked
for, the entries somebody asked to record, and what commands that exited 0 said
is on record.

### 2.3 WhereRoom and the code

A component's store is the set of its parts that exist: the old layout's `.git`
directory, `.bare`, the gitdir link, the remote-tracking refs. A worktree is a
branch of the store (its head, its upstream) and a place on disk: `inside` the
host tree, `outside` in a stored line's own place, `lost` (registered in git, the
directory gone), `hollow` (a directory that is no worktree) or `nowhere`. A worktree
is `linked` when its own link finds the store, and `filled` when its submodules came
with it. A commit is one the origins have, or `Mine`: it exists on this machine only.

A command is a selection (`--item` narrows to a component, or to one branch that is
then treated as canonical) and the list of steps it still has to make, `job.todo`.
`Materialize` lists them in the order of the code's loop: migrate, clone (and fetch),
link, prune, and per worktree add, upstream and handle; then the receipts of all
components, then the fingerprint. Two steps put another in front of the list: a
migration that has renamed the store (`CutOff`: the worktrees that name it by its old
path are cut off) the `git worktree repair`, and an add the update of the new
worktree's submodules. Neither answer is looked at, and a kill before either leaves it
undone for good, since the next run finds nothing to rename and nothing to add. Each
step is an action with the code's skip, success and failure; a failure is
`materialize_abort`, which leaves only the fingerprint to write. `Teardown` inspects a
component and, when nothing is unsaved or by force, appends the removal of its
worktrees, a prune and the deletion of the directory (`Condemn`). The inspection asks
git; where git fails, in a tree that is cut off or in none, it reads nothing unsaved
(`InspectBlind` is the step that looked at work without seeing it). `Crash` may fall
before any step, and inside a worktree add, where git can leave a directory with
nothing in it.

git is external: it refuses a branch that is checked out or registered elsewhere,
`-B` resets a branch, a clone brings every branch, `worktree remove` touches only
what is a worktree of that store. Between commands the operator dirties a tree,
commits (and perhaps pushes), moves a pin, or removes a worktree by hand. One
command runs at a time; lines for another operating system are not in the instances,
nor are recipes with two of a name, which the code refuses (`recipe_problems`).

`plain` is history: nothing was forced, no single branch was named, no worktree was
removed by hand and no inspection was blind. `receipt` and `fingerprint` are read by
no guard, and a finished command matters only for what it claimed, so `Seen` leaves
the rest out of the states TLC tells apart.

### 2.4 CloneSetup and the code

A clone is its submodules (`bare`, initialized, or `gutted` behind git's back), its
worktrees (`absent`, `there`, or a `hollow` directory that is no worktree), the
provider's pin and built binary, what stands in each hooks directory, the skill
links, the re-deriver and the fingerprint. `bootstrap` walks `SEQUENCE`, and each
step has the code's two halves: `read_step` asks the gate whether the step is owed,
and the step's action makes it with every outcome it may have (some submodules, some
worktrees in recipe order, a build that is only reported as owed, hooks that fail on
some directory), until `VerifySetup` gives the verdict. The hooks are copied file by
file over what is there: a copy that fails (`Finished`) or at which the run is killed
(`CutShort`, in the order of the directories) leaves the file as it was or `Torn`. A
script counts as there once git would run it, whole or torn, since the gate looks at no
more of it. `Kill` falls between any two steps too, or amid the worktrees,
and the commands bootstrap stands in for, damage behind the tool's back, teardown,
builds and re-pins come at any time.

`gitlink` is the file beside a component's store that leads git there from an emptied
worktree; without it git finds the host's hooks (`git_hooks_dir`).

The two readers are operators with the code's own blind spots: `verify_setup` (eight
kinds of gap) and `env_check` (worktree paths are directories, a submodule is what git
says, an unreadable hook binary is no delta). `seen` is the clone as it was when the
fingerprint was written and `boot.calm` says that a run was not disturbed; both are
history.

### 2.5 DreamAudit, UserMemory, McpServer and the code

`UserMemory` has one process per server and per dream command. A write is an entry
and then the index, each by temporary and rename (`Open`, `Fill`, `RenameEntry`,
`RenameIndex`); the index is read (`upsert_index`) after the entry stands. The
temporary's name depends on the file, so two servers meet there as in `RecordStore`.
`MEMORY` is an ordinary slug for `entry_path`, so it is one here. The index is how
many lines name each slug; the line of an entry is read back by its first bracket
(`ReadsAs`), so one whose title holds a link counts for the entry linked, and a write
replaces the first line that reads as its own (`Upserted`). The tier marker is
rewritten in place (`OpenMarker`, then `stamp_if_observed` or `Retire`), after a
look at it that may be stale by then. An audit reads marker, index and entries in
that order; what it finds is `run_audit` of `DreamAudit`, with the detectors over
what each entry links, cites, denies and names. `here` tells a command on the
machine with the store from one in another clone of the project.

`McpServer` has the serve loop a message at a time. A tool call starts a job of
`UserMemory`; a verb that lacks the project's name asks the client, and from then on
`Elicited` reads the pipe and drops what is not for it, as the code does. Client and
server each number their requests upwards, the client from 0 and the server from 1. `told`,
`kept`, `stamped`, `retired`, `unanswered` and `turn` are history: a retirement counts as
one that must stand when no other process had looked at the marker and not yet written
it, and a stamp likewise.

### 2.6 TaskGraph and the code

A milestone README is its sequence of headings, a heading what the code reads of it:
anchor, verify, inputs, dependencies given or implied by the task before, whether it
is an audit band and whether it stands in the build sequence. `parse_tasks`,
`task_graph_problems` (the cycle check peels ready tasks off as the code's loop
does), `task_verdict`, `task_gate` and the frontier are operators over it. Recording
is one action, a re-derivation two for each task (`run_recheck`, then
`append_task_receipt`, which hashes the inputs as they are then), so edits fall in
between. A digest is the contents in the order the inputs are listed, without their
names: the receipt names them beside it and no check reads that. `vouched` and `raced`
are history.

### 2.7 Obligations, Release and the code

`release` is one action per file it writes, in the code's order: gates (which read
the obligations of the worktree), manifest, lock, generated files, staging, build.
Each may fail where the code exits, a staging may fail after extraction, and a build
reverts it (`restore`). What the command prints is `paper`, the steps the operator
then takes in their order: commit, tag, re-pin, the two receipts. A version is a
triple and `next_version` is the code's arithmetic, the 0.x case included. A build is
the tuple of what it reads, so two builds are equal when their trees are. A component
is one with an artifact, a tool that ends at its tag, or one whose release is waived
by a cited decision; `BuildRecorded` says whether the recipe has a `build` command, for
which a release has a default and `--verify-build` none. The forge may publish other
bytes than the operator's. Rechecks of receipts are taken to pass.

`loose` names the parts of the worktree (sources, generated files, cargo configuration)
that have a file git does not track: an edit or the regeneration may add one. The
printed commit is `git commit -am`, so such a file is built and is in no commit
(`Committed`); work committed by hand takes them along or not. The cargo configuration is
how often it replaces the sources by the bundle's (`config`) and whether the operator's
own part is in it (`flags`), which a build reads. A write of it may fail or be cut short
(`Slip`): in the staging, which nothing undoes since the guard is armed only after it,
and in `restore`, whose errors are not looked at. `proved`, `raced`, `apart`, `kills`,
`slips` and `edits` are history or bounds.

### 2.8 HostFolder and the code

One folder that is empty or holds notes, is named for an agentic host or holds a
software manifest. A command is the list of files it will write and git steps it will
take; `seed` skips what exists except the stamp, `git_add` stages what was
scaffolded, `git_commit` takes the index. `remap` goes over the operator's own files,
the notes and the README and MEMORY.md he may have filled (`is_target` keeps it from the
rest), as `require_clean_git` let it begin with them, applying the dictionary's rules one
after the other to every line outside a fence the linter ignores. A write may tear the
file, and then the command ends, or goes on where onboarding ignores the error. A text is
a pair of lines, or the tool's seed, in which no rule finds anything; `archive` is every
text any commit held.

## 3. The runs

| Run | Specification | Bounds | Shows |
|---|---|---|---|
| `goal_any` | `Spec` | 2 milestones, 2 worktrees, logs to 3 (+ the verb running) | `TypeOK`, `LedgerIsLegal`, `ReceiptFirst`, `DebtCarried`, `RecordAgrees`, `RepairConverges` |
| `goal_orderly` | `OrderlyFair` | 2 milestones, 1 worktree, logs to 4 | `ClaimAgrees`, `ImplementsRecord`, `FirstAcceptanceClosesGoal` |
| `record_serial` | `Spec` | 1 session, 3 entries, 1 receipt, both dispositions | `TypeOK`, `FilesWhole`, `ReportedKept`, `NewLayoutStays`, `ImplementsApplied` |
| `record_overlap` | `Spec` | 2 sessions, 3 entries, no receipts | `NeverSwept` |
| `where_any` | `Spec` | 1 component with a canonical worktree, a tip and a stored line; 2 commits; 1 edit | `TypeOK`, `DoneMeansRealized`, `WorkKept` |
| `where_pair` | `Spec` | 2 components, 3 worktrees, 1 commit, 1 edit | `ReceiptMeansRealized` |
| `where_lost` | `Spec` | 1 component, 1 commit, 1 edit | counterexample, see 3.2 |
| `clone` | `Spec` | 2 components, 3 worktrees, 1 submodule, 2 versions, 2 edits | `GapsAreOwed`, `FreshIsQuiet`, `NothingUnreported`, `SecondRunChangesNothing` |
| `user` | `Spec` (fair) | 2 servers, 2 dream commands, 2 slugs and the index's own, 2 drafts, 2 calls | `ToldHolds`, `ReportedIsListed`, `RetirementStands`, `DanglingJudged`, `RepliesAreReplies`, `TurnsAnswered` |
| `tasks` | `Spec` | 3 tasks in 2 milestones, 2 inputs, 2 edits, 3 receipts | `FrontierMoves`, `GateStands`, `FreshMeansVouched` |
| `release` | `Spec` | 2 crates, 2 obligations, 1 release after a first tag, 1 kill, failed write or edit, 2 receipts | `TagIsCoherent`, `PinReproduces`, `BumpsOnce`, `OnlyTheBump`, `TagIsProved`, `CleanMeansPublished` |
| `folder` | `Spec` | 1 room, 2 notes (one ignored by git), 1 rule, 3 edits or cuts | `NothingLost` |

Why the bounds are enough. Goal: the guards compare the goal with one milestone,
so two milestones give every case (the goal's own, and another); three receipts
reach a closed, abandoned or accepted milestone with a second one open, four
reach a second closure. Two worktrees give a claim that is stale because the goal
moved elsewhere. Record: the ledger's second entry waits for its third, so that an
applied entry lies beyond a gap in every instance where the record is consistent: the
case advance must not walk over. A single session is one command at a time, since a
session starts its next command when the last has returned; two sessions give each way
two rewrites can cross, and a third adds no new relation between a handle and a name.
Every starting layout an earlier release could leave is an initial state.

Where room: the three kinds of worktree in one component are every branch of the
code's three loops over worktrees (a line without a store is a canonical worktree
that comes later); two commits tell a moved pin from the old one; one edit is the
work that may be lost, followed by any number of commands, failures and kills.
Components share nothing but the order of the loop, which the second run covers
with two.

Clone: bootstrap itself is not bounded, so a fresh clone may be bootstrapped, fail and
be killed any number of times; two edits give a change made before a run and another
in it, or a build and then the damage. The submodule offers the skill a component
offers too, so that a link has two sources of different rank. A clone starts fresh or
complete.

User: every client request and dream command counts as a call, and two of them, beside
the first `initialize`, are two writes that cross, a stamp that crosses a retirement
(or an audit, or another retirement), a write and the listing that should show it, a
verb whose question a pipelined request runs into. One client pipelines, the other is
patient. The slug `MEMORY` is among those written because the code lets it be. One
client's entry has a title that links the other's; every slug of the instance is whole
to its reader (`Stem`), which is the theorems' to vary.

Tasks: three tasks depend on one another within a milestone and across, either way,
both ways (a cycle) or not at all, and one task's command is one the re-derivation
refuses to run. Two edits re-word a task (its inputs among the rest: in another order, or
fewer, of files that have equal contents at the start) and change an input, or change
an input back and forth around a re-derivation; three receipts are one for each task
or a record, a second one and a re-derivation.

Release: the first tag is there from the start, so the one that follows it is compared
with it; failures inside `release` are not bounded, so it is repeated at will with any
class. The one trouble is a kill, an edit or a new file anywhere, or a write of the
configuration that fails; every start is tried with the configuration tracked and not.
With two tags and two receipts the forge's other bytes, a stale receipt and a re-pin
meet the check, and no release after a publication does: that one is the theorem's
(4.2). A crate that inherits the
workspace's version and one that does not are the two cases of the lock.

Folder: a torn write, a kill and each of the operator's acts count against the same
three; commands do not. Three allow a note to be written, committed and then torn.

`MaxEdits`, `MaxCalls`, `MaxTroubles` and the like bound the operator, the clients and
what is cut short, and no command. `MaxLedger`, `MaxSerial`, `MaxLog`, `MaxTags` and
`MaxVouched` bound only the start of a command, never a write that is under way
(`MaxReceipts` bounds one-step appends). Deadlock is not checked: with the log full and
nobody editing, a system is at rest, as it is whenever no one types a command.

In both record runs a temporary that no running command holds open is identified
with none (`Standing`): `Open` truncates it before anything reads it, and only a
command that has opened it renames it. `record_overlap` also leaves out of a state
what nothing in it reads again (`SeenApplied`): the text of a command that has written
it, whether a text is whole, and which of the sessions runs which command.

### 3.1 Fairness

The `Spec` of most modules has none, nor has `OrderlySpec`: their properties are safety.
`OrderlyFair` has three conditions, and the first-acceptance property needs each:

- weak fairness of `Write`: a started verb runs on to its exit unless killed;
- strong fairness of `AppendReceipt`: a verb that is started over and over is
  not killed before its first write every single time;
- strong fairness of the acceptance of the pending goal: the operator runs the
  command the tool prints until it is taken.

`McpServer`'s `Spec` has weak fairness of each server's `serve` and of each process'
`Step`: the operating system schedules a process that can run, and every step of the
code is bounded. It also has weak fairness of the client's `Reply`: that a client
answers what it is asked is an assumption about the client, without which the code
waits for ever (it has no timeout). `TurnsAnswered` does not assume that the
connection lasts: one that is killed or closed has nothing unanswered.

### 3.2 Findings

`where_lost`: `software --teardown --item name@branch` looks for unsaved work in that
branch's worktree and deletes the whole component (`main.rs:6138`), against the comment
at `main.rs:6086-6088`.

Behaviour met while modelling that has no run of its own, by part. The properties above
are stated so that they hold where the code can hold them; each exception named in
them is one of these.

Goal:

- after `set`, `complete`, `accept`, with nothing cut short, `goal show` reports a torn
  closure and asks for a repair: the check compares the marker with `complete` only
  (`goal.rs:888`, against the comment at 884-887), and `accept` has replaced it. The
  repair then puts the `complete` marker back over the acceptance;
- a milestone that was accepted once and is closed again cannot be accepted again
  (`goal.rs:1086`, against 23-24): it is pending for ever and only `abandon` frees the
  slot;
- `abandon` with no follow-up table exits after its receipt; `repair` then marks
  the README abandoned and no OWED row is ever written;
- accepting an earlier milestone while another is active ends the active goal, and
  an explicit `complete` of another milestone displaces it when no sidecar exists;
- a torn closure is no longer found once a later closure is in the log;
- a directory without a readable README passes `target_defect`.

Record files:

- `migrate-receipts` appends old receipts after newer ones (`main.rs:10829`), and the
  last stanza of a phase is no longer the newest (against 10430-10431); killed after its
  first write and run again it appends them twice;
- two sessions that record at once lose a receipt that was reported as recorded
  (`append_receipt` is read, modify and rename; the comment at 10459 says append-only);
- `upgrade --advance` drops the disclosed reason of an inapplicable entry it absorbs
  (`main.rs:8614`), so the recheck runs a verify that cannot pass on this host (against
  8532-8535);
- two overlapping upgrades can leave an applied set with a missing prerequisite,
  which every later `upgrade` refuses and no verb repairs.

Where room:

- a kill between clone and fetch leaves a store without tracking refs for good: the
  store exists, so nothing fetches again, no branch gets an upstream, and teardown
  takes every commit for unpushed;
- a component realized by a run that then failed never gets a receipt, since the
  run that finishes the job made nothing of it (the comment at `main.rs:5899`
  defines it so);
- a kill between the rename of an old store and `git worktree repair`
  (`main.rs:5922`, 5926), or a repair that fails, leaves the worktrees' links pointing
  nowhere for good: no later run repairs them. git fails there, a git that fails
  reads as nothing unsaved (6070-6083), and an unforced teardown destroys the work;
- submodules are fetched once, by the run that adds the worktree, and the answer is not
  looked at (5808): one that was killed or failed there leaves them out for good;
- a tree at a worktree's path is kept whatever it is, so an emptied worktree, which
  `--verify-setup` reports with materialize as its remedy, stays as it is;
- `-B` resets a branch whose worktree was removed by hand, unpushed commits
  included;
- `--item name@branch` of a stored line realizes it inside the host tree, and the
  next full materialize aborts on it.

Clone:

- the gate reads the provider's binary in the worktree only (`setup.rs:263`), the
  orchestrator and the installer in the worktree or at the host's root
  (`bootstrap.rs:209`): with a binary at the root only, bootstrap reports a gap, says
  nothing is owed, and running it again never converges;
- a stale or truncated dispatch script reads as complete, since the gate compares only
  the binary and asks of the script that it can be executed (`setup.rs:183`), and a copy
  that was cut short leaves such a script (`main.rs:4739`); the next install refreshes it;
- a hollow worktree and a gutted submodule are never repaired by the remedy their gap
  names; a skill linked to a submodule while the component's tree is hollow is a
  conflict once the tree is back;
- a narrowed materialize records a narrowed fingerprint, which the next `env --check`
  reports as moves that never happened; after a teardown of what was left out it
  reports nothing. Teardown leaves the fingerprint as it was.

Memory and MCP:

- a stamp decided before a retirement and written after it undoes the retirement (the
  comment at `dream.rs` 911-916 says a retired marker is never stamped over); a
  retirement killed after the truncation reads as never stamped;
- two servers that write at once lose a line of the index; a kill between entry and
  index leaves an entry no list shows; writing the slug `MEMORY` replaces the index;
  an entry whose first line holds a link, or whose slug has a closing bracket, is
  listed as another, and reported written (`render_index`, `parse_index`);
- memory written through the server never stamps the tier, so another clone calls it
  never initialized;
- requests a client pipelines during an elicitation are dropped and never answered.

Tasks:

- recording a task never asks whether its dependencies are discharged; a second
  heading with an anchor already taken is not reported;
- a re-derivation hashes the inputs after the run, so an edit in between is vouched
  for; on inputs it cannot hash it writes a receipt without a digest and says the
  digest was refreshed; `--record --record-digests` never runs the verify;
- inputs exchanged for other files of the same contents are fresh: the digest has no
  names (`main.rs:8036-8048`) and the names in the receipt are not compared.

Release:

- killed while the bundle is staged, `release` leaves the source replacement in
  `.cargo/config.toml`; the next run takes that for the text to restore and the printed
  `commit -am` carries it;
- a staging whose write of the configuration fails is left as it is, since the guard
  that would revert it is armed after the staging (`main.rs:5079`, `11537-11543`); a
  restoring that fails goes unnoticed (`5103-5111`) and the printed commit carries it.
  `OnlyTheBump` is about runs without either;
- the build and the hash are of the worktree, the printed `git commit -am`
  (`main.rs:11578`) is of what git tracks, and no gate asks for a clean tree: with a new
  source or generated file that nobody added, the pin does not reproduce.
  `PinReproduces` is about releases where git tracks all that was built, and
  `TagIsCoherent` counts a generated file that is in no commit as silent;
- a recipe with no `build` is released with `cargo build --release` (`main.rs:11549`)
  and is a drift to `--verify-build` (`5279-5283`) for that alone;
- a component that was never tagged is bumped again, from its bumped manifest, by each
  rerun after a failure;
- one publish receipt stands for all platforms; a rung whose bound was raised is not
  stale, nor is anything when the digest ledger is empty;
- `receipt --record` accepts a done for a phase without a recheck, which the gate then
  refuses; the migrated skip of a release does not ask whether the phase may be
  skipped, and its citation is not resolved again later;
- a tool's gates read the worktree and its release tags HEAD, so what is not
  committed is gated and not tagged; the receipt command printed for a tool
  (`main.rs:11440`) lacks the `--authorization` without which `receipt --record` refuses
  (`10914-10919`), so nothing is recorded until the operator adds one.

Folder:

- `git status --porcelain` does not list ignored files, so an ignored note is
  rewritten with no commit behind it; a note edited after the clean check is
  overwritten;
- rules cascade, and an apply that was killed, committed and repeated applies them
  twice to the files it had reached;
- `scaffold` and the forced verbs rewrite `.host` on an upgraded host and with it the
  applied ids that are not committed;
- a torn LEXICON, README or MEMORY counts as existing, and a room whose keepfile was
  not written never ships;
- an adopt in place that was killed after the rooms takes another route when it is run
  again, next to the half-made host;
- the scaffold commit takes whatever the operator had staged;
- `adopt --at` compares a path that does not exist yet without normalizing it, so a
  `..` may put the new host inside its source; two agents that ask for the next number
  at once get the same one.

## 4. The theorems

Each theorem states a property some run checks; the run shows it on its instance, the
theorem for every value of the constants that meets the assumptions below.

| Theorem | Property | For every |
|---|---|---|
| `GoalProofs!TypeCorrect` | `TypeOK` | number of milestones and worktrees, set of repository shapes, length of the log |
| `GoalProofs!LegalLedger` | `LedgerIsLegal` | " |
| `GoalProofs!MarkerHasReceipt` | `ReceiptFirst` | " |
| `GoalProofs!DebtIsCarried` | `DebtCarried` | " |
| `GoalProofs!RecordsAgree` | `RecordAgrees` | " |
| `GoalProofs!OneRepairIsEnough` | `RepairConverges` | " |
| `GoalProofs!ClaimsAgree` | `ClaimAgrees` | " (the property itself speaks of one worktree) |
| `GoalProofs!LogImplementsRecord` | `ImplementsRecord` (of `OrderlySpec`) | " |
| `RecordProofs!NothingSwept` | `NeverSwept` | number of sessions and entries, prerequisites, phases |
| `RecordProofs!RecordsTyped` | `TypeOK` | " |
| `RecordProofs!WholeAlone` | `FilesWhole` | entries, prerequisites, phases; one session |
| `RecordProofs!ReportedAlone` | `ReportedKept` | " |
| `RecordProofs!LayoutAlone` | `NewLayoutStays` | " |
| `RecordProofs!RecordIsAppliedSet` | `ImplementsApplied` | " |
| `WhereProofs!WhereTyped` | `TypeOK` | recipe, worktrees of each component and their kinds, commits |
| `WhereProofs!DoneIsRealized` | `DoneMeansRealized` | " |
| `WhereProofs!ReceiptIsEarned` | `ReceiptMeansRealized` | " |
| `WhereProofs!NoWorkIsDestroyed` | `WorkKept` | " |
| `CloneProofs!NothingLeftToMake` | `GapsAreOwed` | recipe, submodules, skills, binaries, edits |
| `CloneProofs!VerdictIsQuiet` | `FreshIsQuiet` | " |
| `CloneProofs!ReadersMissNothing` | `NothingUnreported` | " |
| `CloneProofs!SecondRunIsIdle` | `SecondRunChangesNothing` | " |
| `UserProofs!ToldIsTrue` | `ToldHolds` | number of servers, dream commands, entries, drafts and calls |
| `UserProofs!ReportedStaysListed` | `ReportedIsListed` | " |
| `UserProofs!RetirementKept` | `RetirementStands` | " |
| `UserProofs!LinksJudged` | `DanglingJudged` | " |
| `UserProofs!OnlyRepliesAreTaken` | `RepliesAreReplies` | " |
| `TaskProofs!WorkGoesOn` | `FrontierMoves` | milestones, headings, tasks, inputs, edits |
| `TaskProofs!CompleteOwesNothing` | `GateStands` | " |
| `TaskProofs!FreshWasVouched` | `FreshMeansVouched` | " |
| `ReleaseProofs!VersionMovesOnce` | `BumpsOnce` | first version, crates, obligations, tags, receipts, cuts and edits |
| `ReleaseProofs!TagsAreCoherent` | `TagIsCoherent` | " |
| `ReleaseProofs!RebuildIsTheArtifact` | `PinReproduces` | " |
| `ReleaseProofs!NothingStagedStays` | `OnlyTheBump` | " |
| `ReleaseProofs!TagsAreProved` | `TagIsProved` | " |
| `ReleaseProofs!CleanIsPublished` | `CleanMeansPublished` | " |
| `FolderProofs!NothingIsLost` | `NothingLost` | rooms, notes, rules, operator's acts and cuts |

The bounds on logs, edits, calls and troubles are constants like the others, so the
theorems hold however large they are.

### 4.1 Assumptions

All are named and declared by the modules, and TLC evaluates them in the runs:
`NoTargetAssumption`, `GoalAssumption` (finitely many worktrees, at least one),
`RecordAssumption` (the ledger's prerequisites are entries of it), `RecipeAssumption`
(what `recipe_problems` lets through; no worktree is two components', and a
component's first is its canonical one), `CloneAssumption` (the same of the clone's
recipe; a revision is none of the marks for nothing), `AuditAssumption`,
`MemoryAssumption` (a server is no dream command), `ServerAssumption`,
`TaskAssumption` (finitely many milestones; a verify line is one the parser can
yield), `ObligationAssumption`, `ReleaseAssumption`, `ManifestAssumption` (the phase
manifest passes `manifest_check`) and `FolderAssumption` (finitely many files, none of
them git's; no room has the name of another scaffolded file). Four theorems of
`RecordProofs` have the hypothesis `OneAtATime`, that any two sessions are the same
one: it is the setting of the run `record_serial`, and with two sessions what they say
is false (section 3.2).

### 4.2 Arguments

*Goal.* `LedgerIsLegal` is about receipts already written, and `ReceiptFirst` about
markers already written; neither is inductive, because what is about to be written was
decided some steps earlier. `IInv` adds what a running verb carries with it: while the
receipt is due, it answers the goal the log folds to now (no other verb appends in
between) and an acceptance has its closure; once it is not due, it is in the log; and
a repair's marker is that of a receipt of the log. The fold is a recursive function
over positions, so the proofs rest on two lemmas: the fold of `Append(l, r)` is one
application of the arm, and the fold of a prefix does not depend on what follows.
`JInv` adds which surface is behind the log at each point of a verb's writes: the row
of the follow-up table (`Indebted`), the marker (`Marked`), `GOAL.md` and the sidecar
(`Surfaced`, `Claimed`), each equal to what the log says but for the writes still on
the running verb's list. `RepairDoes` is about the running repair: it puts back the
marker of the log's last closure, and there is only one last closure to be found torn.

*Goal refinement.* The abstract goal is the fold, the abstract closed and accepted
sets are the milestones with such a receipt. Only `AppendReceipt` changes any of
them, and it must be an abstract step or a stutter (an `unpark` of an active goal).
The invariant `OInv` adds to `IInv` that under `OrderlyNext` a due `complete` or
`accept` is also about the goal of the log.

*Record.* `NeverSwept` must survive everything an overlap can do, so the invariant
`Accounted` speaks of no file being right, only of nothing appearing from nowhere:
every applied line and every baseline, in every file, every temporary, every text a
session has worked out and every rewrite a session has yet to make, is accounted for
by `asked`, and so is what the revision stands for, which a stamp that lost its
baseline falls back to. `asked` never shrinks, so each of these facts survives any
interleaving; a lost update only loses lines, and a piece or a mixture of accounted
texts shows nothing that neither of them did (`CutKnown`, `MixedKnown`). One command
at a time, `Alone` adds the opposite: the temporary at a rename is the text that was
worked out from the file as it still is (`Hand`), one being filled is a beginning of
it, and the rewrites still to make are one of the shapes a command has, read against
the files as they now stand (`Fits`): making the next one keeps what was said, moves
the abstract set by one step or not at all, and leaves a shape again.

*Where room.* `DoneMeansRealized` is about the end of a list of steps, so the
invariant is about the list: `Order` says what must come before what in `job.todo`
(a migration before a clone, a worktree after its store, receipts last and only where
no step failed), `Progress` that whatever materialize was asked for is there or has its
step still on the list, `Standing` that a worktree stands on a store. `InPlace` says
that work in a linked worktree is where its line puts it, so that the inspection sees
it, and `Condemned` that a component whose removal is on the list has none that git
would show (`NoneSeen`). Work in a tree that is cut off is not protected by the code
and `WorkKept` does not claim it. The list is
flattened from a sequence of sequences; the lemmas about where a step stands in it are
proved by induction over a set of naturals, from the library's minimum of a
well-founded order.

*Clone.* `Progress` says what an undisturbed run has made by the step it is at, and
the point of each proof is that a later step does not unmake it: linking reads sources
that only earlier steps make, hooks move no worktree. `Settled` (a run that began
complete and was left alone is in a complete clone) is what makes the second run idle:
with no gap, only the hooks step does anything, and what it installs is what is there.
For the two readers, `Told` says that a fingerprint's binary hashes count some of
the directories as they were when it was written; with the gate silent every directory
holds the provider's one binary, the hash counts all of them, and by counting so did
the directories then: the hash tells no directory, and need not.

*Memory, marker and server.* `StoreInv` has who owns a temporary, a slug or the list
while it works on it, and what it may leave there at each step; `told` and `kept` are
forgotten by whoever else begins, so the proof that a step of one process disturbs no
claim of another is about ownership only, and about `UpsertedLines`: a line, whatever it
reads as, takes none of another name's off. `Latched` says that while a reported
retirement stands no process is between a look at the marker and its write. `Numbered`
says that the ids of client and server both only grow and that what waits for an answer
waits for a number it gave itself. `Read` says that an audit about to read the entries
has in hand every entry it was bound to list.

*Tasks.* The other two rest on `Receipted`: every receipt has a voucher of its key and
disposition and, unless an edit raced, what a re-derivation saw is what still stands
when it hashes. `FrontierMoves` is about a recursive function over sets, the peeling of
`task_graph_problems`: it needs no invariant but the type of the documents
(`Documents`), and the lemmas that the recursion has a solution and that a set of tasks
each waiting for another of it is never worn away (by the well-foundedness of the
subsets of a finite set). The undischarged tasks, one for each key, would be such a set
if none were ready, and would have been reported as a cycle.

*Release.* `Bumped` carries the version a running release works out through manifest,
lock, generated files and paper, one `next_version` from its last tag; `Coherent`,
`Reproducible` and `Unstaged` say of every commit, tag and paper what the properties
say of tags, with the exceptions that `raced`, `apart`, `kills` and `slips` record (what
was edited, not all committed, killed or not written); `Vouched` ties what is
proved to the sources, `Witnessed` the forge and the publish receipt to the pin.

*Folder.* `Archived` says that the history holds what the last commit holds, `Ahead`
that every file a running remap has still to come to is one it may write over
(`Held`: in the history, absent, torn, ignored by git, or edited since the command
began) and that it comes to each but once: the look of `require_clean_git` is some
steps old by then.

### 4.3 Left to TLC

Liveness: `FirstAcceptanceClosesGoal` (goal) and `TurnsAnswered` (MCP server). Their
proofs need `ENABLED`. Every safety invariant and action property of a passing run is
proved. The counterexample of `where_lost` is TLC's. What the theorems do not say is
that the instances are interesting; the runs show that, each property being broken by a
plausible change of the code.

## 5. Plan

The parts of the system with state of their own are modelled, and their safety is
proved. What is left:

1. an abstract specification of the Where room (a component is realized or torn down,
   whole) and of the clone (a set of gaps that only closes), each with its refinement;
2. the receipt gate's own functions against a reference definition;
3. lemmas on `remap`'s cascade and on `next_version` (what each change class leaves).

Composition: materialize, the task verbs and `receipt --record` append through
`RecordStore`'s `append_receipt`; where only the presence of a receipt matters the
other modules keep a set or a function of receipts, as `GoalLifecycle` does.

## 6. Not modelled

- prose, reconcile, entrance, references, the lint of test and proof presence with its
  discharge warnings, the registers' `next`, `validate` and `version`, `classify` and
  `artifact_delta` are functions of text that change nothing; `book` renders.
- `software --check`: pins, handles, gitdir links, skill links, the image lock and the CI
  lanes compare digests and file contents and change nothing; `--lock` writes one file.
- Of the clone: the image digest and the path of the repository in the fingerprint, an
  unreadable skills directory, builds for several platforms, two providers, the
  `.gitignore` upkeep.
- Of onboarding: where the host lands when adopt makes it elsewhere.
- `goal install`, `propose` and `show` print or write generated text only.
- YAML and TOML parsing, git, cargo, container engines, provers and the forge are
  external and appear, where needed, as the outcomes they may have.
