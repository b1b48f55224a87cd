---------------------------- MODULE ReleaseProofs -----------------------------
(***************************************************************************)
(* A component's releases, for any number of tags, of killed commands, of  *)
(* edits and of receipts: the version moves once, the tag, the artifact,   *)
(* the proofs and the publication speak of one tree, and nothing staged is *)
(* left behind.                                                            *)
(***************************************************************************)
EXTENDS ReleaseProperties, FiniteSetTheorems, WellFoundedInduction, TLAPS

-----------------------------------------------------------------------------
(* What the variables hold. *)

Version == Nat \X Nat \X Nat
Locks == [Crates -> Version]
Sourced == Source \cup {Gone}
Spoken == Version \cup {NoVersion}
Commit == [source : Sourced, manifest : Version, lock : Locks, derived : Spoken, config : Nat,
           flags : BOOLEAN]
Hash == {NoHash, OtherBytes} \cup (Sourced \X Version \X Locks \X Spoken \X BOOLEAN)
Busy == {"gates", "bump", "lock", "regen", "stage", "build"}
Job == [at : Busy \cup {"idle", "digests"}, class : Class, new : Version, backup : Nat,
        tracked : SUBSET Id]
Step == {"commit", "tag", "pin", "receipt", "publish"}
Paper == [owed : SUBSET Step, version : Version, hash : Hash, tracked : SUBSET Id]
Tag == [version : Version, commit : Commit, tracked : SUBSET Id, raced : BOOLEAN]
Recipe == [pin : SUBSET Commit, artifact : Hash, apart : BOOLEAN, kind : Kind]
PhaseName == {"release"} \cup {p.name : p \in Phases}
Recorded == [phase : PhaseName, disposition : {"done", "skip"}, evidence : Hash,
             revision : SUBSET Commit, authorized : BOOLEAN]
Asset == [commit : Commit, hash : Hash]

OblTyped == src \in Sourced /\ ids \subseteq Id /\ DOMAIN disp \subseteq Id /\ DOMAIN ledger \subseteq Id
TreeTyped ==
    /\ manifest \in Version /\ lock \in Locks /\ derived \in Version
    /\ config \in Nat /\ flags \in BOOLEAN /\ vendor \in BOOLEAN
ForgeTyped ==
    /\ head \in Commit /\ tags \in Seq(Tag) /\ tags # << >>
    /\ recipe \in Recipe /\ asset \subseteq Asset
CommandTyped ==
    /\ job \in Job /\ paper \in Paper /\ log \in Seq(Recorded)
    /\ raced \in BOOLEAN /\ apart \in BOOLEAN
Typed == OblTyped /\ TreeTyped /\ ForgeTyped /\ CommandTyped

-----------------------------------------------------------------------------
(* The inductive invariants.  While a command of a release runs no step of *)
(* an earlier one is owed.                                                 *)

Free == job.at \notin Busy
Last == tags[Len(tags)].version
OneChange(a, b) == \E class \in Class : b = next_version(a, class)

\* What is bumped, printed and tagged is one change from the last tag.
Bumped ==
    /\ paper.owed # {} => Free
    /\ job.at \in Busy \ {"gates"} => is_artifact_bearing /\ OneChange(Last, job.new)
    /\ job.at \in {"lock", "regen", "stage", "build"} => manifest = job.new
    /\ is_artifact_bearing => manifest = Last \/ OneChange(Last, manifest)
    /\ "tag" \in paper.owed =>
          OneChange(Last, paper.version) /\ (is_artifact_bearing => manifest = paper.version)
    /\ \A i \in 1 .. Len(tags) - 1 : OneChange(tags[i].version, tags[i + 1].version)

\* A tree all of whose files speak of a version.
Speaks(t, v) == t.manifest = v /\ t.derived \in {v, NoVersion} /\ t.lock = LockAt(v)
Coherent ==
    /\ \A c \in Crates \ Inherits : lock[c] = First
    /\ job.at \in {"regen", "stage", "build"} => lock = LockAt(job.new)
    /\ job.at \in {"stage", "build"} => derived = job.new
    /\ is_artifact_bearing =>
          /\ "commit" \in paper.owed => Speaks(Tree, paper.version)
          /\ "tag" \in paper.owed /\ "commit" \notin paper.owed => Speaks(head, paper.version)
          /\ \A i \in DOMAIN tags : Speaks(tags[i].commit, tags[i].version)

\* What is to be pinned is what the build built, if nobody edited it, git tracks all
\* of it and what was staged was put back.
Builds(t, hash) == CurrentLock(t) /\ hash = Build(t)
Reproducible ==
    /\ "pin" \in paper.owed /\ ~raced /\ ~apart =>
          IF "commit" \in paper.owed THEN Builds(Tree, paper.hash) ELSE Builds(head, paper.hash)
    /\ ~recipe.apart /\ recipe.artifact # NoHash => \A c \in recipe.pin : Builds(c, recipe.artifact)

\* Nothing is staged but for the build, short of a kill or a write that failed.
Unstaged ==
    /\ kills \in Nat /\ slips \in Nat
    /\ kills + slips = 0 =>
        /\ job.at # "build" => config = 0
        /\ job.at = "build" => job.backup = 0
        /\ head.config = 0
        /\ \A i \in DOMAIN tags : tags[i].commit.config = 0

\* The ledger's digests are of sources that were proved, if nobody edited them.
ProvedOn(i, source) == \E p \in proved : p.id = i /\ p.source = source
Tagged ==
    \A t \in DOMAIN tags : ~tags[t].raced =>
        \A i \in tags[t].tracked : ProvedOn(i, tags[t].commit.source)
Vouched ==
    /\ ~raced =>
          /\ \A i \in DOMAIN ledger : ProvedOn(i, ledger[i])
          /\ job.at = "digests" => \A i \in Rungs : ProvedOn(i, src)
          /\ job.at \in Busy \ {"gates"} => \A i \in job.tracked : ProvedOn(i, src)
          /\ "tag" \in paper.owed => \A i \in paper.tracked : ProvedOn(i, src)
    /\ Tagged

\* A receipt that names a revision names what was published for it.
Witnessed ==
    \A i \in DOMAIN log : log[i].disposition = "done" =>
        \/ log[i].revision = {}
        \/ \E a \in asset : log[i].revision = {a.commit} /\ log[i].evidence = a.hash

-----------------------------------------------------------------------------
(* Types. *)

\* What the assumptions say of the values to start from.
LEMMA Constants ==
    /\ First \in Version /\ First \in Nat \X Nat \X Nat /\ Inherits \subseteq Crates
    /\ Sources \subseteq Sourced /\ \A d \in Derived : d \subseteq Id
BY ReleaseAssumption DEF Version, Sourced

\* No command, and the one that a command starts from.
LEMMA IdleTyped ==
    /\ Idle \in Job /\ Idle.at = "idle" /\ NoPaper \in Paper /\ NoPaper.owed = {}
    /\ \A at \in Busy \cup {"idle", "digests"} :
          [Idle EXCEPT !.at = at] \in Job /\ [Idle EXCEPT !.at = at].at = at
    /\ \A at \in Busy \cup {"idle", "digests"}, class \in Class :
          /\ [Idle EXCEPT !.at = at, !.class = class] \in Job
          /\ [Idle EXCEPT !.at = at, !.class = class].at = at
BY Constants DEF Idle, Job, NoPaper, Paper, Busy, Class, Hash

\* A lock at a version, and the lock that set_lock_version writes.
LEMMA LockTyped ==
    ASSUME NEW v \in Version
    PROVE  LockAt(v) \in Locks /\ (lock \in Locks => set_crates(v) \in Locks)
BY Constants DEF LockAt, set_crates, Locks

\* The next version is a version.
LEMMA VersionTyped ==
    ASSUME NEW v \in Version, NEW class \in Class
    PROVE  next_version(v, class) \in Version
<1>1. v[1] \in Nat /\ v[2] \in Nat /\ v[3] \in Nat
  BY DEF Version
<1> QED BY <1>1 DEF next_version, Class, Version

\* A commit is the worktree but for what git does not track.
LEMMA CommittedIs ==
    ASSUME NEW left
    PROVE  /\ Committed(left).source \in {src, Gone} /\ Committed(left).config \in {0, config}
           /\ Committed(left).manifest = manifest /\ Committed(left).lock = lock
           /\ Committed(left).derived \in {derived, NoVersion}
           /\ left = {} => Committed(left) = Tree
BY DEF Committed, Tree

\* What the worktree holds, and what a commit takes of it.
LEMMA TreeIs ==
    ASSUME OblTyped, TreeTyped
    PROVE  Tree \in Commit /\ \A left : Committed(left) \in Commit
<1>1. Tree \in Commit
  BY DEF OblTyped, TreeTyped, Tree, Commit, Spoken
<1>2. ASSUME NEW left
      PROVE  Committed(left) \in Commit
  BY DEF OblTyped, TreeTyped, Committed, Commit, Spoken, Sourced
<1> QED BY <1>1, <1>2

\* Where git tracks everything a commit takes it all; it never takes another version.
LEMMA CommittedSpeaks ==
    ASSUME TreeTyped, NEW v, Speaks(Tree, v), NEW left
    PROVE  Speaks(Committed(left), v)
BY CommittedIs DEF Speaks, Tree

\* What a commit builds is a hash.
LEMMA BuildTyped ==
    ASSUME NEW t \in Commit
    PROVE  Build(t) \in Hash
BY DEF Commit, Build, Hash

\* There is a last tag, and current_version is its version.
LEMMA LastTyped ==
    ASSUME ForgeTyped
    PROVE  /\ Len(tags) \in 1 .. Len(tags) /\ DOMAIN tags = 1 .. Len(tags)
           /\ tags[Len(tags)] \in Tag /\ Last \in Version /\ current_version = Last
<1>1. Len(tags) \in 1 .. Len(tags) /\ DOMAIN tags = 1 .. Len(tags)
  BY DEF ForgeTyped
<1>2. tags[Len(tags)] \in Tag
  BY <1>1 DEF ForgeTyped
<1> QED BY <1>1, <1>2 DEF ForgeTyped, Tag, Last, current_version

\* A tag more.
LEMMA TagAppended ==
    ASSUME ForgeTyped, NEW t \in Tag, tags' = Append(tags, t)
    PROVE  /\ tags' \in Seq(Tag) /\ tags' # << >> /\ Len(tags') = Len(tags) + 1
           /\ DOMAIN tags' = 1 .. (Len(tags) + 1) /\ tags'[Len(tags) + 1] = t
           /\ \A i \in 1 .. Len(tags) : tags'[i] = tags[i]
BY DEF ForgeTyped

\* A command that goes on keeps what it has found out.
LEMMA GotoTyped ==
    ASSUME job \in Job, NEW at \in Busy \cup {"idle", "digests"}, Goto(at)
    PROVE  /\ job' \in Job /\ job'.at = at /\ job'.new = job.new /\ job'.backup = job.backup
           /\ job'.tracked = job.tracked
BY DEF Goto, Job

\* What the gates let pass: the next version, and the rungs the discharge has checked.
LEMMA VersionedTyped ==
    ASSUME Typed
    PROVE  /\ Versioned \in Job
           /\ Versioned.new = next_version(Last, job.class) /\ job.class \in Class
           /\ Versioned.tracked = WithInputs \cap DOMAIN ledger
           /\ \A at \in Busy \cup {"idle", "digests"} :
                 LET j == [Versioned EXCEPT !.at = at, !.class = "fix"]
                 IN  /\ j \in Job /\ j.at = at /\ j.new = Versioned.new
                     /\ j.tracked = Versioned.tracked
<1>1. job \in Job /\ job.class \in Class /\ ForgeTyped /\ DOMAIN ledger \subseteq Id
  BY DEF Typed, CommandTyped, OblTyped, Job
<1> DEFINE v == next_version(current_version, job.class)
           t == WithInputs \cap DOMAIN ledger
<1>2. v \in Version /\ v = next_version(Last, job.class)
  BY <1>1, LastTyped, VersionTyped
<1>3. t \in SUBSET Id
  BY <1>1
<1>4. Versioned = [job EXCEPT !.new = v, !.tracked = t]
  BY DEF Versioned
<1> HIDE DEF v, t
<1>5. Versioned \in Job /\ Versioned.new = v /\ Versioned.tracked = t
  BY <1>1, <1>2, <1>3, <1>4 DEF Job
<1>6. "fix" \in Class
  BY DEF Class
<1>7. \A at \in Busy \cup {"idle", "digests"} :
         LET j == [Versioned EXCEPT !.at = at, !.class = "fix"]
         IN  j \in Job /\ j.at = at /\ j.new = Versioned.new /\ j.tracked = Versioned.tracked
  BY <1>5, <1>6 DEF Job
<1> QED BY <1>1, <1>2, <1>5, <1>7 DEF t

\* The steps that a release prints.
LEMMA PrintedTyped ==
    ASSUME NEW j \in Job, NEW steps \in SUBSET Step, NEW hash \in Hash, Printed(j, steps, hash)
    PROVE  /\ paper' \in Paper /\ paper'.owed = steps /\ paper'.version = j.new
           /\ paper'.hash = hash /\ paper'.tracked = j.tracked
BY DEF Printed, Paper, Job

\* The operator crosses out one step, nothing else.
LEMMA DoneTyped ==
    ASSUME paper \in Paper, NEW step, Done(step)
    PROVE  /\ paper' \in Paper /\ paper'.owed = paper.owed \ {step} /\ paper'.version = paper.version
           /\ paper'.hash = paper.hash /\ paper'.tracked = paper.tracked
BY DEF Done, Paper

\* A receipt more.
LEMMA RecordTyped ==
    ASSUME log \in Seq(Recorded), NEW r \in Recorded, append_receipt(r)
    PROVE  /\ log' \in Seq(Recorded) /\ DOMAIN log' = 1 .. (Len(log) + 1)
           /\ DOMAIN log = 1 .. Len(log) /\ log'[Len(log) + 1] = r
           /\ \A i \in DOMAIN log : log'[i] = log[i]
BY DEF append_receipt

\* The receipt that is recorded.
LEMMA ReceiptTyped ==
    ASSUME NEW phase \in PhaseName, NEW disposition \in {"done", "skip"},
           NEW evidence \in Hash, NEW revision \in SUBSET Commit, NEW authorized \in BOOLEAN
    PROVE  LET r == Receipt(phase, disposition, evidence, revision, authorized)
           IN  /\ r \in Recorded /\ r.disposition = disposition
               /\ r.evidence = evidence /\ r.revision = revision
BY DEF Receipt, Recorded

\* A configuration that is cut off.
LEMMA SlipTyped ==
    ASSUME TreeTyped, Slip
    PROVE  config' \in Nat /\ flags' \in BOOLEAN
<1>1. config \in Nat /\ flags \in BOOLEAN
  BY DEF TreeTyped
<1>2. config' \in {0, config, 1} /\ flags' \in {FALSE, flags}
  BY DEF Slip
<1>3. config' \in Nat
  BY <1>1, <1>2
<1>4. flags' \in BOOLEAN
  BY <1>1, <1>2
<1> QED BY <1>3, <1>4

\* The command of a release, step by step.
LEMMA RunTyped ==
    ASSUME Typed, Run
    PROVE  Typed'
<1>1. job \in Job /\ paper \in Paper /\ manifest \in Version /\ job.new \in Version
      /\ job.backup \in Nat /\ config \in Nat /\ log \in Seq(Recorded) /\ apart \in BOOLEAN
      /\ flags \in BOOLEAN /\ vendor \in BOOLEAN
  BY DEF Typed, CommandTyped, TreeTyped, Job
<1>2. ASSUME UNCHANGED <<oblVars, tree, forge, log, raced>>, apart' \in BOOLEAN,
             job' \in Job, paper' \in Paper
      PROVE  Typed'
  BY <1>2 DEF oblVars, tree, forge, Typed, OblTyped, TreeTyped, ForgeTyped, CommandTyped
<1>3. ASSUME UNCHANGED <<oblVars, forge, log, raced, apart, paper>>, job' \in Job, TreeTyped'
      PROVE  Typed'
  BY <1>3 DEF oblVars, forge, Typed, OblTyped, ForgeTyped, CommandTyped
<1>4. ASSUME NEW class \in Class, release(class)
      PROVE  Typed'
  <2>1. job' \in Job /\ paper' \in Paper
    BY <1>4, IdleTyped DEF release, Busy
  <2> QED BY <1>2, <1>4, <2>1 DEF release, counts
<1>5. CASE Gates
  <2>1. CASE job' = Idle /\ paper' = paper
    BY <1>1, <1>2, <1>5, <2>1, IdleTyped DEF Gates, counts
  <2>2. CASE job' = [Versioned EXCEPT !.at = "bump", !.class = "fix"] /\ paper' = paper
    <3>1. job' \in Job
      BY <2>2, VersionedTyped DEF Busy
    <3> QED BY <1>1, <1>2, <1>5, <2>2, <3>1 DEF Gates, counts
  <2>3. CASE job' = Idle /\ Printed(Versioned, {"tag", "receipt"}, NoHash)
    <3>1. paper' \in Paper
      BY <2>3, VersionedTyped, PrintedTyped DEF Step, Hash
    <3> QED BY <1>1, <1>2, <1>5, <2>3, <3>1, IdleTyped DEF Gates, counts
  <2> QED BY <1>5, <2>1, <2>2, <2>3 DEF Gates, Exit
<1>6. CASE bump
  <2>1. job' \in Job
    BY <1>1, <1>6, IdleTyped, GotoTyped DEF bump, Exit, Busy
  <2>2. TreeTyped'
    BY <1>1, <1>6 DEF bump, set_cargo_version, Typed, TreeTyped
  <2> QED BY <1>3, <1>6, <2>1, <2>2 DEF bump, counts
<1>7. CASE set_lock_version
  <2>1. job' \in Job
    BY <1>1, <1>7, IdleTyped, GotoTyped DEF set_lock_version, Exit, Busy
  <2>2. lock' \in Locks
    BY <1>1, <1>7, LockTyped DEF set_lock_version, Typed, TreeTyped
  <2>3. TreeTyped'
    BY <1>7, <2>2 DEF set_lock_version, Typed, TreeTyped
  <2> QED BY <1>3, <1>7, <2>1, <2>3 DEF set_lock_version, counts
<1>8. CASE run_regen
  <2>1. job' \in Job
    BY <1>1, <1>8, IdleTyped, GotoTyped DEF run_regen, Exit, Busy
  <2>2. TreeTyped'
    BY <1>8 DEF run_regen, Generated, Typed, TreeTyped
  <2> QED BY <1>3, <1>8, <2>1, <2>2 DEF run_regen, counts
<1>9. CASE stage_deps_bundle
  <2>1. Staged \in Job
    BY <1>1 DEF Staged, Job, Busy
  <2>2. job' \in Job
    BY <1>9, <2>1, IdleTyped DEF stage_deps_bundle, Exit
  <2>3. vendor' \in BOOLEAN /\ config' \in Nat /\ flags' \in BOOLEAN
    <3>1. CASE UNCHANGED <<config, flags>> /\ vendor' \in {vendor, TRUE}
      BY <1>1, <3>1
    <3>2. CASE vendor' = TRUE /\ Slip
      BY <1>1, <3>2, SlipTyped DEF Typed
    <3>3. CASE vendor' = TRUE /\ config' = merge_vendor_config(config) /\ UNCHANGED flags
      BY <1>1, <3>3 DEF merge_vendor_config
    <3> QED BY <1>9, <3>1, <3>2, <3>3 DEF stage_deps_bundle
  <2>4. TreeTyped'
    BY <1>9, <2>3 DEF stage_deps_bundle, Typed, TreeTyped
  <2> QED BY <1>3, <1>9, <2>2, <2>4 DEF stage_deps_bundle, counts
<1>10. CASE run_build_in_container
  <2>1. job' \in Job
    BY <1>10, IdleTyped DEF run_build_in_container, Exit
  <2>2. TreeTyped' /\ apart' \in BOOLEAN
    <3>1. restore(TRUE) \/ restore(FALSE)
      BY <1>10 DEF run_build_in_container
    <3>2. vendor' \in BOOLEAN /\ config' \in Nat /\ flags' \in BOOLEAN /\ apart' \in BOOLEAN
      <4>1. CASE Slip /\ vendor' \in {vendor, FALSE} /\ apart' = TRUE
        BY <1>1, <4>1, SlipTyped DEF Typed
      <4>2. CASE vendor' = FALSE /\ config' = job.backup /\ UNCHANGED <<flags, slips, apart>>
        BY <1>1, <4>2
      <4> QED BY <3>1, <4>1, <4>2 DEF restore
    <3> QED BY <1>10, <3>2 DEF run_build_in_container, Typed, TreeTyped
  <2>3. paper' \in Paper
    <3>1. Built \in Hash
      BY TreeIs, BuildTyped DEF Built, Typed
    <3>2. CASE Printed(job, {"commit", "tag", "pin", "receipt", "publish"}, Built)
      BY <1>1, <3>1, <3>2, PrintedTyped DEF Step
    <3> QED BY <1>1, <1>10, <3>2 DEF run_build_in_container
  <2> QED BY <1>10, <2>1, <2>2, <2>3 DEF run_build_in_container, oblVars, forge, counts, Typed,
                                         OblTyped, ForgeTyped, CommandTyped
<1>11. CASE Kill
  BY <1>1, <1>2, <1>11, IdleTyped DEF Kill, Exit
<1> QED BY <1>4, <1>5, <1>6, <1>7, <1>8, <1>9, <1>10, <1>11 DEF Run

\* What the operator, the forge and the discharge do.
LEMMA OthersTyped ==
    ASSUME Typed, Obligation \/ Operator \/ Environment
    PROVE  Typed'
<1>1. job \in Job /\ paper \in Paper /\ head \in Commit /\ log \in Seq(Recorded) /\ raced \in BOOLEAN
      /\ recipe \in Recipe /\ ForgeTyped /\ apart \in BOOLEAN /\ \A left : Committed(left) \in Commit
  BY TreeIs DEF Typed, CommandTyped, ForgeTyped
<1>2. ASSUME UNCHANGED <<src, ids, disp, ledger, tree, forge, log, raced, apart>>, job' \in Job, paper' \in Paper
      PROVE  Typed'
  BY <1>2 DEF tree, forge, Typed, OblTyped, TreeTyped, ForgeTyped, CommandTyped
<1>3. CASE rederive
  <2>1. job' \in Job
    <3>1. PICK at \in {"idle", "digests"} : job' = [Idle EXCEPT !.at = at]
      BY <1>3 DEF rederive
    <3> QED BY <3>1, IdleTyped
  <2> QED BY <1>1, <1>2, <1>3, <2>1 DEF rederive, counts
<1>4. CASE RecordDigests
  <2>1. DOMAIN ledger' \subseteq Id
    BY <1>4 DEF RecordDigests, record_digests, Rungs, Typed, OblTyped
  <2> QED BY <1>4, <2>1, IdleTyped DEF RecordDigests, Exit, tree, forge, counts, Typed,
                                       OblTyped, TreeTyped, ForgeTyped, CommandTyped
<1>5. CASE commit
  BY <1>1, <1>5, DoneTyped DEF commit, oblVars, tree, counts, Typed, OblTyped, TreeTyped,
                               ForgeTyped, CommandTyped
<1>6. CASE tag
  <2> DEFINE t == [version |-> paper.version, commit |-> head, tracked |-> paper.tracked,
                   raced |-> raced \/ head.source # src]
  <2>1. t \in Tag
    BY <1>1 DEF Tag, Paper
  <2>2. tags' = Append(tags, t)
    BY <1>6 DEF tag
  <2> HIDE DEF t
  <2>3. tags' \in Seq(Tag) /\ tags' # << >>
    BY <1>1, <2>1, <2>2, TagAppended
  <2> QED BY <1>1, <1>6, <2>3, DoneTyped DEF tag, oblVars, tree, counts, Typed, OblTyped, TreeTyped,
                                           ForgeTyped, CommandTyped
<1>7. CASE repin
  <2>1. recipe' \in Recipe
    BY <1>1, <1>7 DEF repin, Recipe, Paper
  <2> QED BY <1>1, <1>7, <2>1, DoneTyped DEF repin, oblVars, tree, counts, Typed, OblTyped,
                                           TreeTyped, ForgeTyped, CommandTyped
<1>8. ASSUME UNCHANGED <<oblVars, tree, forge, job, counts>>, log' \in Seq(Recorded), paper' \in Paper
      PROVE  Typed'
  BY <1>8 DEF oblVars, tree, forge, counts, Typed, OblTyped, TreeTyped, ForgeTyped, CommandTyped
<1>9. CASE record_release
  <2>1. log' \in Seq(Recorded)
    <3>1. PICK authorized \in BOOLEAN : append_receipt(Receipt("release", "done", paper.hash, {}, authorized))
      BY <1>9 DEF record_release, receipt_record, is_artifact_bearing
    <3>2. paper.hash \in Hash /\ {} \in SUBSET Commit
      BY <1>1 DEF Paper
    <3>3. Receipt("release", "done", paper.hash, {}, authorized) \in Recorded
      BY <3>2, ReceiptTyped DEF Hash, PhaseName
    <3> QED BY <1>1, <3>1, <3>3, RecordTyped
  <2> QED BY <1>1, <1>8, <1>9, <2>1, DoneTyped DEF record_release
<1>10. CASE record_publish
  <2>1. PICK a \in Published(head) : receipt_record("publish", "done", a.hash, {head}, FALSE)
    BY <1>10 DEF record_publish
  <2>2. a.hash \in Hash
    BY <1>1 DEF Published, ForgeTyped, Asset
  <2>3. log' \in Seq(Recorded)
    <3>1. append_receipt(Receipt("publish", "done", a.hash, {head}, FALSE))
      BY <2>1 DEF receipt_record
    <3>2. "publish" \in PhaseName
      BY <2>1 DEF receipt_record, PhaseName
    <3> DEFINE revision == {head}
    <3>4. revision \in SUBSET Commit
      BY <1>1
    <3> HIDE DEF revision
    <3>5. Receipt("publish", "done", a.hash, revision, FALSE) \in Recorded
      BY <2>2, <3>2, <3>4, ReceiptTyped
    <3>3. Receipt("publish", "done", a.hash, {head}, FALSE) \in Recorded
      BY <3>5 DEF revision
    <3> QED BY <1>1, <3>1, <3>3, RecordTyped
  <2> QED BY <1>1, <1>8, <1>10, <2>3, DoneTyped DEF record_publish
<1>11. CASE release_record_skip
  <2>1. log' \in Seq(Recorded)
    <3>1. append_receipt(Receipt("release", "skip", NoHash, {}, FALSE))
      BY <1>11 DEF release_record_skip
    <3>2. Receipt("release", "skip", NoHash, {}, FALSE) \in Recorded
      BY ReceiptTyped DEF Hash, PhaseName
    <3> QED BY <1>1, <3>1, <3>2, RecordTyped
  <2> QED BY <1>1, <1>8, <1>11, <2>1 DEF release_record_skip
<1>12. CASE record_other
  <2>1. PICK p \in Phases, d \in {"done", "skip"} : receipt_record(p.name, d, NoHash, {}, FALSE)
    BY <1>12 DEF record_other
  <2>2. p.name \in PhaseName
    BY DEF PhaseName
  <2>3. log' \in Seq(Recorded)
    <3>1. append_receipt(Receipt(p.name, d, NoHash, {}, FALSE))
      BY <2>1 DEF receipt_record
    <3>2. Receipt(p.name, d, NoHash, {}, FALSE) \in Recorded
      BY <2>2, ReceiptTyped DEF Hash
    <3> QED BY <1>1, <3>1, <3>2, RecordTyped
  <2> QED BY <1>1, <1>8, <1>12, <2>3 DEF record_other
<1>13. CASE Upload
  <2>1. PICK i \in DOMAIN tags : \E h \in {Build(tags[i].commit), OtherBytes} :
           asset' = asset \cup {[commit |-> tags[i].commit, hash |-> h]}
    BY <1>13 DEF Upload
  <2>2. tags[i].commit \in Commit
    <3>1. tags[i] \in Tag
      BY <1>1 DEF ForgeTyped
    <3> QED BY <3>1 DEF Tag
  <2>3. Build(tags[i].commit) \in Hash /\ OtherBytes \in Hash
    BY <2>2, BuildTyped DEF Hash
  <2>4. asset' \subseteq Asset
    BY <1>1, <2>1, <2>2, <2>3 DEF ForgeTyped, Asset
  <2> QED BY <1>13, <2>4 DEF Upload, oblVars, tree, counts, Typed, OblTyped, TreeTyped,
                             ForgeTyped, CommandTyped
<1>14. ASSUME Edited, OblTyped'
       PROVE  Typed'
  BY <1>1, <1>14 DEF Edited, tree, forge, Typed, TreeTyped, ForgeTyped, CommandTyped
<1>15. CASE EditSource \/ EditSpec
  BY <1>14, <1>15 DEF EditSource, EditSpec, Typed, OblTyped, Sourced
<1>16. CASE EditManifest
  BY <1>14, <1>16 DEF EditManifest, Typed, OblTyped
<1>17. CASE CommitWork
  <2>1. head' \in Commit
    BY <1>1, <1>17 DEF CommitWork
  <2>2. [recipe EXCEPT !.pin = {head'}, !.apart = TRUE] \in Recipe
    BY <1>1, <2>1 DEF Recipe
  <2>3. recipe' \in Recipe
    BY <1>1, <1>17, <2>2 DEF CommitWork
  <2> QED BY <1>17, <2>1, <2>3 DEF CommitWork, oblVars, tree, counts, Typed, OblTyped, TreeTyped,
                             ForgeTyped, CommandTyped
<1> QED
  BY <1>3, <1>4, <1>5, <1>6, <1>7, <1>9, <1>10, <1>11, <1>12, <1>13, <1>15, <1>16, <1>17
  DEF Obligation, Operator, Environment

\* Where nothing happens nothing changes its type.
LEMMA StutterTyped == Typed /\ UNCHANGED vars => Typed'
BY DEF vars, oblVars, tree, forge, counts, Typed, OblTyped, TreeTyped, ForgeTyped, CommandTyped

\* Whatever is released, killed, edited or recorded, the variables hold what they should.
LEMMA TypedInv == Spec => []Typed
<1>1. Init => Typed
  <2> SUFFICES ASSUME Init
               PROVE  Typed
    OBVIOUS
  <2>1. OblTyped
    BY Constants DEF Init, OblTyped
  <2>2. TreeTyped
    BY Constants, LockTyped DEF Init, TreeTyped
  <2>3. head \in Commit /\ job \in Job /\ paper \in Paper
    BY <2>1, <2>2, TreeIs, IdleTyped DEF Init
  <2> DEFINE t == [version |-> First, commit |-> head, tracked |-> {}, raced |-> FALSE]
  <2>4. t \in Tag /\ tags = <<t>>
    BY <2>3, Constants DEF Init, Tag
  <2> HIDE DEF t
  <2>5. tags \in Seq(Tag) /\ tags # << >>
    BY <2>4
  <2>6. recipe \in Recipe
    BY <2>3 DEF Init, Recipe, Hash
  <2>7. ForgeTyped
    BY <2>3, <2>5, <2>6 DEF Init, ForgeTyped
  <2>8. log \in Seq(Recorded)
    <3>1. << >> \in Seq(Recorded)
      OBVIOUS
    <3> QED BY <3>1 DEF Init
  <2>9. raced \in BOOLEAN /\ apart \in BOOLEAN
    BY DEF Init
  <2> QED BY <2>1, <2>2, <2>3, <2>7, <2>8, <2>9 DEF Typed, CommandTyped
<1>2. Typed /\ [Next]_vars => Typed'
  BY RunTyped, OthersTyped, StutterTyped DEF Next
<1> QED BY <1>1, <1>2, PTL DEF Spec

-----------------------------------------------------------------------------
(* What the steps of the command do, field by field. *)

Starts == job.at = "idle" /\ job'.at = "gates" /\ paper'.owed = {} /\ UNCHANGED <<tree, kills, slips>>
\* It is over before the build; what failed leaves its partial work.
Stops ==
    /\ job'.at = "idle" /\ paper' = paper /\ apart' = apart
    /\ UNCHANGED <<manifest, lock>>
    /\ derived' = derived \/ (job.at = "regen" /\ derived' = manifest)
    /\ UNCHANGED <<config, flags>> \/ (job.at = "stage" /\ slips' = slips + 1)
    /\ slips' \in {slips, slips + 1}
    /\ (kills' = kills /\ job.at # "build") \/ kills' = kills + 1
\* The gates let it pass: with what they found.
Passed(j) == /\ j.new = next_version(Last, job.class) /\ job.class \in Class
             /\ j.tracked = WithInputs \cap DOMAIN ledger
PassesOn ==
    /\ job.at = "gates" /\ job'.at = "bump" /\ Passed(job')
    /\ is_artifact_bearing /\ ~discharge_problems /\ UNCHANGED <<tree, paper, kills, slips>>
TagsOnly ==
    /\ job.at = "gates" /\ job'.at = "idle" /\ paper'.owed = {"tag", "receipt"}
    /\ Passed([new |-> paper'.version, tracked |-> paper'.tracked])
    /\ ~is_artifact_bearing /\ ~discharge_problems /\ UNCHANGED <<tree, kills, slips>>
\* It goes on from one place to the next.
Goes(from, to) == /\ job.at = from /\ job'.at = to /\ job'.new = job.new /\ job'.tracked = job.tracked
                  /\ paper' = paper /\ kills' = kills /\ slips' = slips
Bumps == Goes("bump", "lock") /\ manifest' = job.new /\ UNCHANGED <<lock, derived, config>>
Syncs == Goes("lock", "regen") /\ lock' = set_crates(job.new) /\ UNCHANGED <<manifest, derived, config>>
Regens == Goes("regen", "stage") /\ derived' = manifest /\ UNCHANGED <<manifest, lock, config>>
Stages == Goes("stage", "build") /\ job'.backup = config /\ UNCHANGED <<manifest, lock, derived>>
\* The build is over, and what was staged put back, or not.
Restores ==
    /\ job.at = "build" /\ job'.at = "idle" /\ UNCHANGED <<manifest, lock, derived, kills>>
    /\ \/ config' = job.backup /\ UNCHANGED <<flags, slips, apart>>
       \/ slips' = slips + 1 /\ apart' = TRUE
Succeeds ==
    /\ Restores /\ CurrentLock(Tree) /\ paper'.owed = Step /\ paper'.hash = Build(Tree)
    /\ paper'.version = job.new /\ paper'.tracked = job.tracked

\* Every step of the command is one of these, and touches neither the forge nor a receipt.
LEMMA RunDoes ==
    ASSUME Typed, Run
    PROVE  /\ UNCHANGED <<oblVars, forge, log, raced>>
           /\ \/ Starts \/ Stops \/ PassesOn \/ TagsOnly \/ Bumps \/ Syncs \/ Regens \/ Stages
              \/ (Restores /\ paper' = paper)
              \/ Succeeds
<1>1. job \in Job /\ paper \in Paper /\ job.new \in Version /\ kills' \in {kills, kills + 1}
  BY DEF Typed, CommandTyped, Job, Run, release, Gates, bump, set_lock_version, run_regen,
         stage_deps_bundle, run_build_in_container, Kill, counts
<1>2. UNCHANGED <<oblVars, forge, log, raced>>
  BY DEF Run, release, Gates, bump, set_lock_version, run_regen, stage_deps_bundle,
         run_build_in_container, Kill, counts, tree
<1> SUFFICES \/ Starts \/ Stops \/ PassesOn \/ TagsOnly \/ Bumps \/ Syncs \/ Regens \/ Stages
             \/ (Restores /\ paper' = paper)
             \/ Succeeds
  BY <1>2
<1>3. ASSUME NEW class \in Class, release(class)
      PROVE  Starts
  <2>1. job.at = "idle" /\ job'.at = "gates"
    BY <1>3, IdleTyped DEF release, Busy
  <2> QED BY <1>3, <2>1, IdleTyped DEF release, Starts, counts
<1>4. CASE Gates
  <2>1. CASE job' = Idle /\ paper' = paper
    BY <1>4, <2>1, IdleTyped DEF Gates, Stops, tree, counts
  <2>2. CASE job' = [Versioned EXCEPT !.at = "bump", !.class = "fix"] /\ paper' = paper
             /\ is_artifact_bearing /\ ~discharge_problems
    <3>1. job'.at = "bump" /\ Passed(job')
      BY <2>2, VersionedTyped DEF Busy, Passed
    <3> QED BY <1>4, <2>2, <3>1 DEF Gates, PassesOn, counts
  <2>3. CASE job' = Idle /\ Printed(Versioned, {"tag", "receipt"}, NoHash)
             /\ ~is_artifact_bearing /\ ~discharge_problems
    <3>1. paper'.owed = {"tag", "receipt"} /\ paper'.version = Versioned.new
          /\ paper'.tracked = Versioned.tracked
      BY <2>3, VersionedTyped, PrintedTyped DEF Step, Hash
    <3>2. Passed([new |-> paper'.version, tracked |-> paper'.tracked])
      BY <3>1, VersionedTyped DEF Passed
    <3> QED BY <1>4, <2>3, <3>1, <3>2, IdleTyped DEF Gates, TagsOnly, counts
  <2> QED BY <1>4, <2>1, <2>2, <2>3 DEF Gates, Exit
<1>5. CASE bump
  <2>1. CASE Exit /\ UNCHANGED manifest
    BY <1>5, <2>1, IdleTyped DEF bump, Exit, Stops, counts
  <2>2. CASE Goto("lock") /\ set_cargo_version(job.new)
    BY <1>1, <1>5, <2>2, GotoTyped DEF bump, set_cargo_version, Bumps, Goes, counts, Busy
  <2> QED BY <1>5, <2>1, <2>2 DEF bump
<1>6. CASE set_lock_version
  <2>1. CASE Exit /\ UNCHANGED lock
    BY <1>6, <2>1, IdleTyped DEF set_lock_version, Exit, Stops, counts
  <2>2. CASE Goto("regen") /\ lock' = set_crates(job.new)
    BY <1>1, <1>6, <2>2, GotoTyped DEF set_lock_version, Syncs, Goes, counts, Busy
  <2> QED BY <1>6, <2>1, <2>2 DEF set_lock_version
<1>7. CASE run_regen
  <2>1. CASE Exit /\ derived' \in {derived, Generated}
    BY <1>7, <2>1, IdleTyped DEF run_regen, Generated, Exit, Stops, counts
  <2>2. CASE Goto("stage") /\ derived' = Generated
    BY <1>1, <1>7, <2>2, GotoTyped DEF run_regen, Generated, Regens, Goes, counts, Busy
  <2> QED BY <1>7, <2>1, <2>2 DEF run_regen
<1>8. CASE stage_deps_bundle
  <2>1. CASE Exit /\ (UNCHANGED <<config, flags, slips>> \/ Slip)
    BY <1>8, <2>1, IdleTyped DEF stage_deps_bundle, Exit, Slip, Stops, counts
  <2>2. CASE job' = Staged /\ UNCHANGED slips
    <3>1. job'.at = "build" /\ job'.backup = config /\ job'.new = job.new /\ job'.tracked = job.tracked
      BY <1>1, <2>2 DEF Staged, Job
    <3> QED BY <1>8, <2>2, <3>1 DEF stage_deps_bundle, Stages, Goes
  <2> QED BY <1>8, <2>1, <2>2 DEF stage_deps_bundle
<1>9. CASE run_build_in_container
  <2>1. Restores
    <3>1. restore(TRUE) \/ restore(FALSE)
      BY <1>9 DEF run_build_in_container
    <3> QED BY <1>9, <3>1, IdleTyped DEF run_build_in_container, restore, Slip, Restores, Exit
  <2>2. CASE UNCHANGED paper
    BY <2>1, <2>2
  <2>3. CASE CurrentLock(Tree) /\ Printed(job, {"commit", "tag", "pin", "receipt", "publish"}, Built)
    <3>1. Built \in Hash /\ Built = Build(Tree)
      BY TreeIs, BuildTyped DEF Built, Typed
    <3>2. paper'.owed = Step /\ paper'.hash = Build(Tree) /\ paper'.version = job.new
          /\ paper'.tracked = job.tracked
      BY <1>1, <2>3, <3>1, PrintedTyped DEF Step
    <3> QED BY <2>1, <2>3, <3>2 DEF Succeeds
  <2> QED BY <1>9, <2>2, <2>3 DEF run_build_in_container
<1>10. CASE Kill
  BY <1>10, IdleTyped DEF Kill, Exit, Stops, tree
<1> QED BY <1>2, <1>3, <1>4, <1>5, <1>6, <1>7, <1>8, <1>9, <1>10 DEF Run

\* What none of the others does: nothing of theirs writes the version, and no
\* command of theirs goes on with a release.
LEMMA OthersDo ==
    ASSUME Typed, Obligation \/ Operator \/ Environment
    PROVE  /\ UNCHANGED <<tree, kills, slips>> /\ recipe'.kind = recipe.kind
           /\ job' = job \/ (Free /\ job'.at \in {"idle", "digests"})
           /\ paper'.owed \subseteq paper.owed /\ paper'.version = paper.version
           /\ paper'.hash = paper.hash /\ paper'.tracked = paper.tracked
           /\ tags' = tags \/ tag
           /\ head' = head \/ commit \/ CommitWork
           /\ recipe' = recipe \/ repin \/ CommitWork
           /\ apart' = apart \/ commit
<1>1. job \in Job /\ paper \in Paper /\ recipe \in Recipe
  BY DEF Typed, CommandTyped, ForgeTyped
<1>2. UNCHANGED <<tree, kills, slips>>
  BY DEF Obligation, Operator, Environment, rederive, RecordDigests, commit, tag, repin, record_release,
         record_publish, release_record_skip, record_other, Upload, EditSource, EditSpec, EditManifest,
         Edited, CommitWork, counts
<1>3. recipe'.kind = recipe.kind
  <2>1. CASE repin
    BY <1>1, <2>1 DEF repin, Recipe
  <2>2. CASE CommitWork
    BY <1>1, <2>2 DEF CommitWork, Recipe
  <2> QED BY <2>1, <2>2 DEF Obligation, Operator, Environment, rederive, RecordDigests, commit, tag,
         record_release, record_publish, release_record_skip, record_other, Upload, EditSource, EditSpec,
         EditManifest, Edited, forge
<1>4. job' = job \/ (Free /\ job'.at \in {"idle", "digests"})
  <2>1. CASE rederive
    <3>1. PICK at \in {"idle", "digests"} : job' = [Idle EXCEPT !.at = at]
      BY <2>1 DEF rederive
    <3>2. job'.at \in {"idle", "digests"}
      BY <3>1, IdleTyped
    <3> QED BY <2>1, <3>2, IdleTyped DEF rederive, Free, Busy
  <2>2. CASE RecordDigests
    BY <2>2, IdleTyped DEF RecordDigests, Exit, Free, Busy
  <2> QED BY <2>1, <2>2 DEF Obligation, Operator, Environment, commit, tag, repin, record_release,
         record_publish, release_record_skip, record_other, Upload, EditSource, EditSpec, EditManifest,
         Edited, CommitWork
<1>5. \/ paper' = paper \/ \E step \in Step : Done(step)
  BY DEF Obligation, Operator, Environment, rederive, RecordDigests, commit, tag, repin, record_release,
         record_publish, release_record_skip, record_other, Upload, EditSource, EditSpec, EditManifest,
         Edited, CommitWork, counts, Step
<1>6. /\ paper'.owed \subseteq paper.owed /\ paper'.version = paper.version
      /\ paper'.hash = paper.hash /\ paper'.tracked = paper.tracked
  BY <1>1, <1>5, DoneTyped
<1>7. tags' = tags \/ tag
  BY DEF Obligation, Operator, Environment, rederive, RecordDigests, commit, repin, record_release,
         record_publish, release_record_skip, record_other, Upload, EditSource, EditSpec, EditManifest,
         Edited, CommitWork, forge
<1>8. head' = head \/ commit \/ CommitWork
  BY DEF Obligation, Operator, Environment, rederive, RecordDigests, tag, repin, record_release,
         record_publish, release_record_skip, record_other, Upload, EditSource, EditSpec, EditManifest,
         Edited, forge
<1>9. recipe' = recipe \/ repin \/ CommitWork
  BY DEF Obligation, Operator, Environment, rederive, RecordDigests, commit, tag, record_release,
         record_publish, release_record_skip, record_other, Upload, EditSource, EditSpec, EditManifest,
         Edited, forge
<1>10. apart' = apart \/ commit
  BY DEF Obligation, Operator, Environment, rederive, RecordDigests, tag, repin, record_release,
         record_publish, release_record_skip, record_other, Upload, EditSource, EditSpec, EditManifest,
         Edited, CommitWork, counts
<1> QED BY <1>2, <1>3, <1>4, <1>6, <1>7, <1>8, <1>9, <1>10

-----------------------------------------------------------------------------
(* The version moves once. *)

\* A step of the command keeps what is bumped one change from the last tag.
LEMMA RunBumped ==
    ASSUME Typed, Bumped, Run
    PROVE  Bumped'
<1>1. tags' = tags /\ recipe' = recipe /\ Last' = Last
  BY RunDoes DEF forge, Last
<1>2. ASSUME NEW a, NEW class \in Class
      PROVE  OneChange(a, next_version(a, class))
  BY DEF OneChange
<1>3. CASE Starts \/ Stops
  BY <1>1, <1>3 DEF Bumped, Starts, Stops, Busy, Free, tree, is_artifact_bearing
<1>4. CASE PassesOn
  BY <1>1, <1>2, <1>4 DEF Bumped, PassesOn, Passed, Busy, Free, tree, is_artifact_bearing
<1>5. CASE TagsOnly
  BY <1>1, <1>2, <1>5 DEF Bumped, TagsOnly, Passed, Busy, Free, tree, is_artifact_bearing
<1>6. CASE Bumps \/ Syncs \/ Regens \/ Stages
  BY <1>1, <1>6 DEF Bumped, Bumps, Syncs, Regens, Stages, Goes, Busy, Free, is_artifact_bearing
<1>7. CASE Restores /\ paper' = paper
  BY <1>1, <1>7 DEF Bumped, Restores, Busy, Free, is_artifact_bearing
<1>8. CASE Succeeds
  BY <1>1, <1>8 DEF Bumped, Succeeds, Restores, Busy, Free, is_artifact_bearing
<1> QED BY RunDoes, <1>3, <1>4, <1>5, <1>6, <1>7, <1>8

\* A step of the others does; the operator's tag is what was printed.
LEMMA OthersBumped ==
    ASSUME Typed, Bumped, Obligation \/ Operator \/ Environment
    PROVE  Bumped'
<1>1. manifest' = manifest /\ recipe'.kind = recipe.kind
      /\ (job' = job \/ (Free /\ job'.at \in {"idle", "digests"}))
      /\ paper'.owed \subseteq paper.owed /\ paper'.version = paper.version
  BY OthersDo DEF tree
<1>2. CASE tags' = tags
  <2>1. Last' = Last
    BY <1>2 DEF Last
  <2> QED BY <1>1, <1>2, <2>1 DEF Bumped, Free, Busy, is_artifact_bearing
<1>3. CASE tag
  <2>1. paper \in Paper /\ ForgeTyped /\ head \in Commit /\ raced \in BOOLEAN
    BY DEF Typed, CommandTyped, ForgeTyped
  <2> DEFINE t == [version |-> paper.version, commit |-> head, tracked |-> paper.tracked,
                   raced |-> raced \/ head.source # src]
  <2>2. t \in Tag /\ t.version = paper.version /\ tags' = Append(tags, t)
    BY <1>3, <2>1 DEF tag, Tag, Paper
  <2> HIDE DEF t
  <2>3. /\ Len(tags') = Len(tags) + 1 /\ tags'[Len(tags) + 1].version = paper.version
        /\ \A i \in 1 .. Len(tags) : tags'[i] = tags[i]
        /\ Last' = paper.version /\ Len(tags) \in 1 .. Len(tags)
    BY <2>1, <2>2, TagAppended, LastTyped DEF Last
  <2>4. "tag" \in paper.owed /\ "tag" \notin paper'.owed /\ job' = job /\ job.at = "idle"
    BY <1>3, <2>1, DoneTyped, IdleTyped DEF tag, Owed
  <2>5. OneChange(Last, paper.version) /\ (is_artifact_bearing => manifest = paper.version)
    BY <2>4 DEF Bumped
  <2>6. \A i \in 1 .. Len(tags') - 1 : OneChange(tags'[i].version, tags'[i + 1].version)
    <3> SUFFICES ASSUME NEW i \in 1 .. Len(tags)
                 PROVE  OneChange(tags'[i].version, tags'[i + 1].version)
      BY <2>3
    <3>1. CASE i = Len(tags)
      BY <2>3, <2>5, <3>1 DEF Last
    <3>2. CASE i # Len(tags)
      <4>1. i \in 1 .. Len(tags) - 1 /\ i + 1 \in 1 .. Len(tags)
        BY <2>3, <3>2
      <4> QED BY <2>3, <4>1 DEF Bumped
    <3> QED BY <3>1, <3>2
  <2> QED BY <1>1, <2>3, <2>4, <2>5, <2>6 DEF Bumped, Free, Busy, is_artifact_bearing
<1> QED BY OthersDo, <1>2, <1>3

\* Through every release, kill and edit, what is bumped, printed and tagged is one change on.
LEMMA BumpedInv == Spec => []Bumped
<1>1. Init => Bumped
  <2> SUFFICES ASSUME Init
               PROVE  Bumped
    OBVIOUS
  <2>1. job.at = "idle" /\ paper.owed = {} /\ manifest = Last /\ Len(tags) = 1
    BY IdleTyped DEF Init, Last
  <2> QED BY <2>1 DEF Bumped, Busy, Free
<1>2. Typed /\ Bumped /\ [Next]_vars => Bumped'
  <2> SUFFICES ASSUME Typed, Bumped, [Next]_vars
               PROVE  Bumped'
    OBVIOUS
  <2>1. CASE UNCHANGED vars
    <3>1. tags' = tags /\ Last' = Last
      BY <2>1 DEF vars, forge, Last
    <3> QED BY <2>1, <3>1 DEF vars, tree, forge, Bumped, Free, is_artifact_bearing
  <2> QED BY <2>1, RunBumped, OthersBumped DEF Next
<1> QED BY <1>1, <1>2, TypedInv, PTL DEF Spec

\* However often releases of a component fail, are killed or are repeated, and
\* whatever is edited meanwhile, its version moves by one change per tag.
THEOREM VersionMovesOnce == Spec => []BumpsOnce
<1>1. Typed /\ Bumped => BumpsOnce
  BY LastTyped DEF Typed, Bumped, BumpsOnce, Last, OneChange
<1> QED BY <1>1, TypedInv, BumpedInv, PTL

-----------------------------------------------------------------------------
(* The tag is coherent. *)

\* A worktree that speaks of a version.
LEMMA TreeSpeaks ==
    ASSUME NEW v
    PROVE  Speaks(Tree, v) <=> manifest = v /\ derived \in {v, NoVersion} /\ lock = LockAt(v)
BY DEF Speaks, Tree

\* The crates that do not move stay at the first version.
LEMMA SetCratesIs ==
    ASSUME Coherent, NEW v
    PROVE  set_crates(v) = LockAt(v) /\ \A c \in Crates \ Inherits : LockAt(v)[c] = First
<1>1. \A c \in Crates \ Inherits : lock[c] = First
  BY DEF Coherent
<1> QED BY <1>1 DEF set_crates, LockAt, inherits_workspace_version

\* A step of the command keeps the files together, one after the other.
LEMMA RunCoherent ==
    ASSUME Typed, Bumped, Coherent, Run
    PROVE  Coherent'
<1>1. tags' = tags /\ recipe' = recipe /\ head' = head
  BY RunDoes DEF forge
<1>2. job.at \in Busy => paper.owed = {}
  BY DEF Bumped, Free
<1>3. CASE Starts
  BY <1>1, <1>3 DEF Coherent, Starts, tree, is_artifact_bearing
<1>4. CASE Stops
  <2>1. derived' = derived \/ job.at \in Busy
    BY <1>4 DEF Stops, Busy
  <2>2. "commit" \in paper.owed => Speaks(Tree, paper.version)' \/ ~is_artifact_bearing
    BY <1>2, <1>4, <2>1 DEF Coherent, Speaks, Tree, Stops
  <2> QED BY <1>1, <1>4, <2>2 DEF Coherent, Stops, is_artifact_bearing
<1>5. CASE PassesOn \/ TagsOnly
  BY <1>1, <1>2, <1>5 DEF Coherent, PassesOn, TagsOnly, tree, is_artifact_bearing, Busy
<1>6. CASE Bumps
  BY <1>1, <1>2, <1>6 DEF Coherent, Bumps, Goes, is_artifact_bearing, Busy
<1>7. CASE Syncs
  <2>1. lock' = LockAt(job.new) /\ \A c \in Crates \ Inherits : lock'[c] = First
    BY <1>7, SetCratesIs DEF Syncs
  <2> QED BY <1>1, <1>2, <1>7, <2>1 DEF Coherent, Syncs, Goes, is_artifact_bearing, Busy
<1>8. CASE Regens
  BY <1>1, <1>2, <1>8 DEF Coherent, Bumped, Regens, Goes, is_artifact_bearing, Busy
<1>9. CASE Stages
  BY <1>1, <1>2, <1>9 DEF Coherent, Stages, Goes, is_artifact_bearing, Busy
<1>10. CASE Restores /\ paper' = paper
  BY <1>1, <1>2, <1>10 DEF Coherent, Restores, is_artifact_bearing, Busy
<1>11. CASE Succeeds
  <2>1. manifest = job.new /\ derived = job.new /\ lock = LockAt(job.new)
    BY <1>11 DEF Bumped, Coherent, Succeeds, Restores
  <2>2. Speaks(Tree, paper.version)'
    BY <1>11, <2>1 DEF Speaks, Tree, Succeeds, Restores
  <2>3. "commit" \in paper'.owed
    BY <1>11 DEF Succeeds, Step
  <2> QED BY <1>1, <1>11, <2>2, <2>3 DEF Coherent, Succeeds, Restores, is_artifact_bearing
<1> QED BY RunDoes, <1>3, <1>4, <1>5, <1>6, <1>7, <1>8, <1>9, <1>10, <1>11

\* What is committed is what the release left, what is tagged what was committed.
LEMMA OthersCoherent ==
    ASSUME Typed, Bumped, Coherent, Obligation \/ Operator \/ Environment
    PROVE  Coherent'
<1>1. paper \in Paper /\ ForgeTyped /\ head \in Commit /\ raced \in BOOLEAN
  BY DEF Typed, CommandTyped, ForgeTyped
<1>2. UNCHANGED <<manifest, lock, derived>> /\ recipe'.kind = recipe.kind
      /\ (job' = job \/ (Free /\ job'.at \in {"idle", "digests"}))
      /\ paper'.owed \subseteq paper.owed /\ paper'.version = paper.version
  BY OthersDo DEF tree
<1>3. Speaks(Tree, paper.version)' <=> Speaks(Tree, paper.version)
  BY <1>2 DEF Speaks, Tree
<1>4. CASE tags' = tags /\ head' = head /\ ("commit" \in paper.owed => "commit" \in paper'.owed)
  BY <1>2, <1>3, <1>4 DEF Coherent, is_artifact_bearing
<1>5. CASE commit
  <2>1. "commit" \in paper.owed /\ "commit" \notin paper'.owed /\ head' = Committed(loose) /\ tags' = tags
    BY <1>1, <1>5, DoneTyped DEF commit, Owed
  <2>2. is_artifact_bearing => Speaks(head', paper.version)
    BY <2>1, CommittedSpeaks DEF Coherent, Typed
  <2> QED BY <1>2, <2>1, <2>2 DEF Coherent, is_artifact_bearing
<1>6. CASE CommitWork
  <2>1. paper' = paper /\ paper.owed = {} /\ tags' = tags
    BY <1>6 DEF CommitWork
  <2> QED BY <1>2, <2>1 DEF Coherent, is_artifact_bearing
<1>7. CASE tag
  <2> DEFINE t == [version |-> paper.version, commit |-> head, tracked |-> paper.tracked,
                   raced |-> raced \/ head.source # src]
  <2>1. t \in Tag /\ t.version = paper.version /\ t.commit = head /\ tags' = Append(tags, t)
    BY <1>1, <1>7 DEF tag, Tag, Paper
  <2> HIDE DEF t
  <2>2. /\ DOMAIN tags' = 1 .. (Len(tags) + 1) /\ DOMAIN tags = 1 .. Len(tags)
        /\ tags'[Len(tags) + 1].version = paper.version /\ tags'[Len(tags) + 1].commit = head
        /\ \A i \in 1 .. Len(tags) : tags'[i] = tags[i]
    BY <1>1, <2>1, TagAppended, LastTyped
  <2>3. "tag" \in paper.owed /\ "commit" \notin paper.owed /\ "tag" \notin paper'.owed /\ head' = head
    BY <1>1, <1>7, DoneTyped DEF tag, Owed
  <2>4. is_artifact_bearing => Speaks(head, paper.version)
    BY <2>3 DEF Coherent
  <2>5. is_artifact_bearing =>
           \A i \in DOMAIN tags' : Speaks(tags'[i].commit, tags'[i].version)
    <3> SUFFICES ASSUME is_artifact_bearing, NEW i \in 1 .. (Len(tags) + 1)
                 PROVE  Speaks(tags'[i].commit, tags'[i].version)
      BY <2>2
    <3>1. CASE i = Len(tags) + 1
      BY <2>2, <2>4, <3>1
    <3>2. CASE i # Len(tags) + 1
      <4>1. i \in 1 .. Len(tags)
        BY <1>1, <3>2 DEF ForgeTyped
      <4>2. tags'[i] = tags[i] /\ i \in DOMAIN tags
        BY <2>2, <4>1
      <4> QED BY <4>2 DEF Coherent
    <3> QED BY <3>1, <3>2
  <2> QED BY <1>2, <2>3, <2>5 DEF Coherent, is_artifact_bearing
<1>8. commit \/ "commit" \notin paper.owed \/ "commit" \in paper'.owed
  <2>1. CASE paper' = paper
    BY <2>1
  <2>2. CASE tag \/ repin \/ record_release \/ record_publish
    BY <1>1, <2>2, DoneTyped DEF tag, repin, record_release, record_publish, Owed
  <2> QED BY <2>1, <2>2 DEF Obligation, Operator, Environment, rederive, RecordDigests,
             release_record_skip, record_other, Upload, EditSource, EditSpec, EditManifest, Edited, CommitWork
<1> QED BY OthersDo, <1>4, <1>5, <1>6, <1>7, <1>8

\* Through every release, kill and edit, what is to be tagged is coherent.
LEMMA CoherentInv == Spec => []Coherent
<1>1. Init => Coherent
  <2> SUFFICES ASSUME Init
               PROVE  Coherent
    OBVIOUS
  <2>1. job.at = "idle" /\ paper.owed = {}
    BY IdleTyped DEF Init
  <2>2. lock = LockAt(First) /\ \A c \in Crates \ Inherits : lock[c] = First
    BY DEF Init, LockAt, inherits_workspace_version
  <2>3. Speaks(head, First)
    <3>1. Speaks(Tree, First) /\ head = Committed(loose)
      BY <2>2, TreeSpeaks DEF Init
    <3>2. TreeTyped
      BY Constants, LockTyped DEF Init, TreeTyped
    <3> QED BY <3>1, <3>2, CommittedSpeaks
  <2>4. \A i \in DOMAIN tags : tags[i].commit = head /\ tags[i].version = First
    BY DEF Init
  <2> QED BY <2>1, <2>2, <2>3, <2>4 DEF Coherent
<1>2. Typed /\ Bumped /\ Coherent /\ [Next]_vars => Coherent'
  <2> SUFFICES ASSUME Typed, Bumped, Coherent, [Next]_vars
               PROVE  Coherent'
    OBVIOUS
  <2>1. CASE UNCHANGED vars
    <3>1. UNCHANGED <<manifest, lock, derived, job, paper, head, tags, recipe>>
      BY <2>1 DEF vars, tree, forge
    <3>2. Speaks(Tree, paper.version)' <=> Speaks(Tree, paper.version)
      BY <3>1 DEF Speaks, Tree
    <3> QED BY <3>1, <3>2 DEF Coherent, is_artifact_bearing
  <2> QED BY <2>1, RunCoherent, OthersCoherent DEF Next
<1> QED BY <1>1, <1>2, TypedInv, BumpedInv, PTL DEF Spec

\* Whatever runs were killed, failed or repeated before it, the commit that an
\* artifact's tag names has the tag's version in its manifest, in its lock and in
\* what is generated and git tracks.
THEOREM TagsAreCoherent == Spec => []TagIsCoherent
<1>1. Coherent => TagIsCoherent
  BY DEF Coherent, TagIsCoherent, Speaks
<1> QED BY <1>1, CoherentInv, PTL

-----------------------------------------------------------------------------
(* The pin reproduces. *)

\* The sources change by an edit only, which spoils what is under way.
LEMMA EditsDo ==
    ASSUME Typed, Obligation \/ Operator \/ Environment
    PROVE  \/ UNCHANGED <<src, raced>>
           \/ /\ raced' = (raced \/ job # Idle \/ paper.owed # {})
              /\ UNCHANGED <<ledger, proved, forge, log, job, paper, apart>>
BY DEF Obligation, Operator, Environment, rederive, RecordDigests, commit, tag, repin, record_release,
       record_publish, release_record_skip, record_other, Upload, EditSource, EditSpec, EditManifest,
       Edited, CommitWork, counts, oblVars, forge

\* A step of the command keeps what is to be pinned what the build built.
LEMMA RunReproducible ==
    ASSUME Typed, Bumped, Reproducible, Run
    PROVE  Reproducible'
<1>1. recipe' = recipe /\ head' = head /\ raced' = raced /\ src' = src
  BY RunDoes DEF forge, oblVars
<1>2. job.at \in Busy => paper.owed = {}
  BY DEF Bumped, Free
<1>3. CASE "pin" \notin paper'.owed
  BY <1>1, <1>3 DEF Reproducible
<1>4. CASE Stops /\ job.at \notin Busy
  <2>1. UNCHANGED <<src, manifest, lock, derived, flags, paper, apart>>
    BY <1>1, <1>4 DEF Stops, Busy
  <2>2. Builds(Tree, paper.hash)' <=> Builds(Tree, paper.hash)
    BY <2>1 DEF Builds, Tree, CurrentLock, Build
  <2> QED BY <1>1, <2>1, <2>2 DEF Reproducible
<1>5. CASE Succeeds
  <2>1. UNCHANGED <<src, manifest, lock, derived>> /\ Builds(Tree, paper'.hash)
        /\ (apart' \/ UNCHANGED flags)
    BY <1>1, <1>5 DEF Succeeds, Restores, Builds
  <2>2. ~apart' => Builds(Tree, paper.hash)'
    BY <2>1 DEF Builds, Tree, CurrentLock, Build
  <2>3. "commit" \in paper'.owed
    BY <1>5 DEF Succeeds, Step
  <2> QED BY <1>1, <2>2, <2>3 DEF Reproducible
<1>6. \/ "pin" \notin paper'.owed \/ (Stops /\ job.at \notin Busy) \/ Succeeds
  <2>1. CASE Stops /\ job.at \in Busy
    BY <1>2, <2>1 DEF Stops
  <2>2. CASE Starts \/ PassesOn \/ TagsOnly
    BY <1>2, <2>2 DEF Starts, PassesOn, TagsOnly, Busy
  <2>3. CASE Bumps \/ Syncs \/ Regens \/ Stages
    BY <1>2, <2>3 DEF Bumps, Syncs, Regens, Stages, Goes, Busy
  <2>4. CASE Restores /\ paper' = paper
    BY <1>2, <2>4 DEF Restores, Busy
  <2> QED BY RunDoes, <2>1, <2>2, <2>3, <2>4
<1> QED BY <1>3, <1>4, <1>5, <1>6

\* So does a step of the others: what is pinned is what was committed.
LEMMA OthersReproducible ==
    ASSUME Typed, Reproducible, Obligation \/ Operator \/ Environment
    PROVE  Reproducible'
<1>1. paper \in Paper /\ recipe \in Recipe /\ raced \in BOOLEAN /\ apart \in BOOLEAN /\ flags \in BOOLEAN
  BY DEF Typed, CommandTyped, ForgeTyped, TreeTyped
<1>2. UNCHANGED <<manifest, lock, derived, flags>> /\ paper'.owed \subseteq paper.owed /\ paper'.hash = paper.hash
  BY OthersDo DEF tree
<1>3. ASSUME src' = src
      PROVE  Builds(Tree, paper.hash)' <=> Builds(Tree, paper.hash)
  BY <1>2, <1>3 DEF Builds, Tree, CurrentLock, Build
<1>4. CASE UNCHANGED <<src, raced, apart, head, recipe>> /\ ("commit" \in paper.owed => "commit" \in paper'.owed)
  BY <1>2, <1>3, <1>4 DEF Reproducible
<1>5. CASE raced' = (raced \/ job # Idle \/ paper.owed # {}) /\ UNCHANGED <<forge, paper, apart>>
  BY <1>1, <1>5 DEF Reproducible, forge
<1>6. CASE commit
  <2>1. "commit" \in paper.owed /\ "commit" \notin paper'.owed /\ head' = Committed(loose)
        /\ UNCHANGED <<src, raced, recipe>> /\ apart' = (apart \/ loose # {})
    BY <1>1, <1>6, DoneTyped DEF commit, Owed, oblVars
  <2>2. ~apart' => ~apart /\ head' = Tree
    BY <1>1, <2>1, CommittedIs
  <2> QED BY <1>2, <2>1, <2>2 DEF Reproducible
<1>7. CASE repin
  <2>1. "pin" \in paper.owed /\ "commit" \notin paper.owed /\ "pin" \notin paper'.owed /\ head' = head
    BY <1>1, <1>7, DoneTyped DEF repin, Owed
  <2>2. recipe'.pin = {head} /\ recipe'.artifact = paper.hash /\ recipe'.apart = (raced \/ apart)
    BY <1>1, <1>7 DEF repin, Recipe
  <2>3. UNCHANGED <<raced, apart>>
    BY <1>7 DEF repin, counts
  <2> QED BY <1>1, <2>1, <2>2, <2>3 DEF Reproducible
<1>8. CASE CommitWork
  <2>1. paper' = paper /\ paper.owed = {}
    BY <1>8 DEF CommitWork
  <2>2. recipe' = recipe \/ recipe'.apart = TRUE
    BY <1>1, <1>8 DEF CommitWork, Recipe
  <2> QED BY <2>1, <2>2 DEF Reproducible
<1>9. commit \/ "commit" \notin paper.owed \/ "commit" \in paper'.owed
  <2>1. CASE paper' = paper
    BY <2>1
  <2>2. CASE tag \/ repin \/ record_release \/ record_publish
    BY <1>1, <2>2, DoneTyped DEF tag, repin, record_release, record_publish, Owed
  <2> QED BY <2>1, <2>2 DEF Obligation, Operator, Environment, rederive, RecordDigests,
             release_record_skip, record_other, Upload, EditSource, EditSpec, EditManifest, Edited, CommitWork
<1> QED BY OthersDo, EditsDo, <1>4, <1>5, <1>6, <1>7, <1>8, <1>9 DEF forge

\* Through every release, kill and edit, what is to be pinned is what the build built.
LEMMA ReproducibleInv == Spec => []Reproducible
<1>1. Init => Reproducible
  <2> SUFFICES ASSUME Init
               PROVE  Reproducible
    OBVIOUS
  <2>1. paper.owed = {} /\ recipe.artifact = NoHash
    BY IdleTyped DEF Init
  <2> QED BY <2>1 DEF Reproducible
<1>2. Typed /\ Bumped /\ Reproducible /\ [Next]_vars => Reproducible'
  <2> SUFFICES ASSUME Typed, Bumped, Reproducible, [Next]_vars
               PROVE  Reproducible'
    OBVIOUS
  <2>1. CASE UNCHANGED vars
    <3>1. UNCHANGED <<src, manifest, lock, derived, flags, paper, head, recipe, raced, apart>>
      BY <2>1 DEF vars, oblVars, tree, forge, counts
    <3>2. Builds(Tree, paper.hash)' <=> Builds(Tree, paper.hash)
      BY <3>1 DEF Builds, Tree, CurrentLock, Build
    <3> QED BY <3>1, <3>2 DEF Reproducible
  <2> QED BY <2>1, RunReproducible, OthersReproducible DEF Next
<1> QED BY <1>1, <1>2, TypedInv, BumpedInv, PTL DEF Spec

\* The hash a release records for its pin is the one a rebuild of the pinned commit
\* gets, where the recipe records how to build it, unless somebody edited the
\* component under the release, git did not track all that was built, or the staging
\* could not be put back.
THEOREM RebuildIsTheArtifact == Spec => []PinReproduces
<1>1. Reproducible => PinReproduces
  BY DEF Reproducible, PinReproduces, software_verify_build, artifact_reproduces, Builds
<1> QED BY <1>1, ReproducibleInv, PTL

-----------------------------------------------------------------------------
(* Nothing staged is left behind. *)

\* A step of the command: what is staged is there for the build, and kept aside to be put back.
LEMMA RunUnstaged ==
    ASSUME Typed, Unstaged, Run
    PROVE  Unstaged'
<1>1. tags' = tags /\ head' = head /\ kills \in Nat /\ slips \in Nat
  BY RunDoes DEF forge, Unstaged
<1>2. CASE Starts \/ PassesOn \/ TagsOnly
  BY <1>1, <1>2 DEF Unstaged, Starts, PassesOn, TagsOnly, tree
<1>3. CASE Stops
  BY <1>1, <1>3 DEF Unstaged, Stops
<1>4. CASE Bumps \/ Syncs \/ Regens
  BY <1>1, <1>4 DEF Unstaged, Bumps, Syncs, Regens, Goes
<1>5. CASE Stages
  BY <1>1, <1>5 DEF Unstaged, Stages, Goes
<1>6. CASE Restores
  BY <1>1, <1>6 DEF Unstaged, Restores
<1> QED BY RunDoes, <1>2, <1>3, <1>4, <1>5, <1>6 DEF Succeeds

\* A step of the others: nobody commits while a build stands staged.
LEMMA OthersUnstaged ==
    ASSUME Typed, Bumped, Unstaged, Obligation \/ Operator \/ Environment
    PROVE  Unstaged'
<1>1. kills' = kills /\ slips' = slips /\ config' = config /\ (job' = job \/ (Free /\ job'.at \in {"idle", "digests"}))
  BY OthersDo DEF tree
<1>2. job.at = "build" => job' = job
  BY <1>1 DEF Free, Busy
<1>3. head' = head \/ (head'.config \in {0, config} /\ job.at = "idle")
  <2>1. CASE commit
    BY <2>1, IdleTyped, CommittedIs DEF commit, Owed
  <2>2. CASE CommitWork
    BY <2>2, IdleTyped, CommittedIs DEF CommitWork
  <2> QED BY OthersDo, <2>1, <2>2
<1>4. CASE tags' = tags
  BY <1>1, <1>2, <1>3, <1>4 DEF Unstaged
<1>5. CASE tag
  <2>1. paper \in Paper /\ ForgeTyped /\ head \in Commit /\ raced \in BOOLEAN
    BY DEF Typed, CommandTyped, ForgeTyped
  <2> DEFINE t == [version |-> paper.version, commit |-> head, tracked |-> paper.tracked,
                   raced |-> raced \/ head.source # src]
  <2>2. t \in Tag /\ t.commit = head /\ tags' = Append(tags, t)
    BY <1>5, <2>1 DEF tag, Tag, Paper
  <2> HIDE DEF t
  <2>3. \A i \in DOMAIN tags' : tags'[i].commit = head \/ (i \in DOMAIN tags /\ tags'[i] = tags[i])
    BY <2>1, <2>2, TagAppended, LastTyped
  <2> QED BY <1>1, <1>2, <1>3, <2>3 DEF Unstaged
<1> QED BY OthersDo, <1>4, <1>5

\* Short of a kill and of a failed write, nothing is staged outside the build.
LEMMA UnstagedInv == Spec => []Unstaged
<1>1. Init => Unstaged
  <2> SUFFICES ASSUME Init
               PROVE  Unstaged
    OBVIOUS
  <2>1. job.at = "idle" /\ config = 0 /\ kills \in Nat /\ slips \in Nat /\ head = Committed(loose)
    BY IdleTyped DEF Init
  <2>2. \A i \in DOMAIN tags : tags[i].commit = head
    BY DEF Init
  <2>3. head.config = 0
    BY <2>1, CommittedIs
  <2> QED BY <2>1, <2>2, <2>3 DEF Unstaged
<1>2. Typed /\ Bumped /\ Unstaged /\ [Next]_vars => Unstaged'
  <2> SUFFICES ASSUME Typed, Bumped, Unstaged, [Next]_vars
               PROVE  Unstaged'
    OBVIOUS
  <2>1. CASE UNCHANGED vars
    BY <2>1 DEF vars, tree, forge, counts, Unstaged
  <2> QED BY <2>1, RunUnstaged, OthersUnstaged DEF Next
<1> QED BY <1>1, <1>2, TypedInv, BumpedInv, PTL DEF Spec

\* Short of a kill and of a failed write of the configuration, no commit, no tag and
\* no idle tree carries the source replacement that a release stages for its build,
\* whether the build passed or failed.
THEOREM NothingStagedStays == Spec => []OnlyTheBump
<1>1. Unstaged => OnlyTheBump
  BY IdleTyped DEF Unstaged, OnlyTheBump
<1> QED BY <1>1, UnstagedInv, PTL

-----------------------------------------------------------------------------
(* What is tagged is proved. *)

\* What the discharge has checked is on the sources that were proved.
LEMMA TrackedIsProved ==
    ASSUME Vouched, ~raced, ~discharge_problems, NEW i \in WithInputs \cap DOMAIN ledger
    PROVE  ProvedOn(i, src)
<1>1. ledger[i] = src
  BY DEF discharge_problems, staleness_problems
<1>2. ProvedOn(i, ledger[i])
  BY DEF Vouched
<1> QED BY <1>1, <1>2

\* A step of the command carries what the discharge has checked to what it prints.
LEMMA RunVouched ==
    ASSUME Typed, Vouched, Run
    PROVE  Vouched'
<1>1. UNCHANGED <<tags, ledger, src, proved, raced, disp>>
  BY RunDoes DEF forge, oblVars
<1>2. \A i, s : ProvedOn(i, s)' <=> ProvedOn(i, s)
  BY <1>1 DEF ProvedOn
<1>3. Rungs' = Rungs
  BY <1>1 DEF Rungs, parse_rung
<1>4. Tagged'
  BY <1>1, <1>2 DEF Vouched, Tagged
<1>5. SUFFICES ASSUME ~raced
               PROVE  /\ \A i \in DOMAIN ledger : ProvedOn(i, ledger[i])
                      /\ job'.at = "digests" => \A i \in Rungs : ProvedOn(i, src)
                      /\ job'.at \in Busy \ {"gates"} => \A i \in job'.tracked : ProvedOn(i, src)
                      /\ "tag" \in paper'.owed => \A i \in paper'.tracked : ProvedOn(i, src)
  BY <1>1, <1>2, <1>3, <1>4 DEF Vouched, ProvedOn
<1>6. CASE Starts \/ Stops
  BY <1>5, <1>6 DEF Vouched, Starts, Stops, Busy
<1>7. CASE PassesOn
  BY <1>5, <1>7, TrackedIsProved DEF Vouched, PassesOn, Passed
<1>8. CASE TagsOnly
  BY <1>5, <1>8, TrackedIsProved DEF Vouched, TagsOnly, Passed, Busy
<1>9. CASE Bumps \/ Syncs \/ Regens \/ Stages
  BY <1>5, <1>9 DEF Vouched, Bumps, Syncs, Regens, Stages, Goes, Busy
<1>10. CASE Restores /\ paper' = paper
  BY <1>5, <1>10 DEF Vouched, Restores, Busy
<1>11. CASE Succeeds
  BY <1>5, <1>11 DEF Vouched, Succeeds, Restores, Busy
<1> QED BY RunDoes, <1>6, <1>7, <1>8, <1>9, <1>10, <1>11

\* What is proved stays proved.
LEMMA StaysProved ==
    ASSUME Obligation \/ Operator \/ Environment, NEW i, NEW s, ProvedOn(i, s)
    PROVE  ProvedOn(i, s)'
<1>1. proved \subseteq proved'
  BY DEF Obligation, Operator, Environment, rederive, RecordDigests, commit, tag, repin, record_release,
         record_publish, release_record_skip, record_other, Upload, EditSource, EditSpec, EditManifest,
         Edited, CommitWork, oblVars
<1> QED BY <1>1 DEF ProvedOn

\* So does a step of the others: digests are written only of what was just
\* proved, and a tag that stands on other sources than the worktree's counts as raced.
LEMMA OthersVouched ==
    ASSUME Typed, Bumped, Vouched, Obligation \/ Operator \/ Environment
    PROVE  Vouched'
<1>1. paper \in Paper /\ ForgeTyped /\ head \in Commit /\ raced \in BOOLEAN /\ job \in Job
  BY DEF Typed, CommandTyped, ForgeTyped
<1>2. paper'.owed \subseteq paper.owed /\ paper'.tracked = paper.tracked
  BY OthersDo
<1>3. \A i, s : ProvedOn(i, s) => ProvedOn(i, s)'
  BY StaysProved
<1>4. CASE rederive
  <2>1. UNCHANGED <<src, disp, ledger, raced, tags, paper>> /\ Rungs' = Rungs
    BY <1>4 DEF rederive, forge, counts, Rungs, parse_rung
  <2>2. job'.at = "idle" \/ (job'.at = "digests" /\ ~rederive_problems)
    BY <1>4, IdleTyped DEF rederive
  <2>3. ~rederive_problems => \A i \in Rungs : ProvedOn(i, src)'
    <3> SUFFICES ASSUME ~rederive_problems, NEW i \in Rungs
                 PROVE  ProvedOn(i, src)'
      OBVIOUS
    <3>1. [id |-> i, bound |-> disp[i].bound, source |-> src] \in proved'
      BY <1>4 DEF rederive, rederive_problems, Proofs
    <3> QED BY <2>1, <3>1 DEF ProvedOn
  <2> QED BY <1>3, <2>1, <2>2, <2>3 DEF Vouched, Tagged, Busy, ProvedOn
<1>5. CASE RecordDigests
  <2>1. UNCHANGED <<src, raced, tags, paper, proved>> /\ job.at = "digests" /\ job'.at = "idle"
    BY <1>5, IdleTyped DEF RecordDigests, Exit, forge, counts
  <2>2. ledger' = ledger \/ \A i \in DOMAIN ledger' : i \in Rungs /\ ledger'[i] = src
    BY <1>5 DEF RecordDigests, record_digests
  <2> QED BY <2>1, <2>2 DEF Vouched, Tagged, Busy, ProvedOn
<1>6. CASE tag
  <2> DEFINE r == raced \/ head.source # src
             t == [version |-> paper.version, commit |-> head, tracked |-> paper.tracked, raced |-> r]
  <2>1. r \in BOOLEAN /\ (~r => ~raced /\ head.source = src)
    BY <1>1
  <2>2. tags' = Append(tags, t)
    BY <1>6 DEF tag
  <2> HIDE DEF r
  <2>3. t \in Tag /\ t.commit = head /\ t.tracked = paper.tracked /\ t.raced = r
    BY <1>1, <2>1 DEF Tag, Paper
  <2> HIDE DEF t
  <2>4. \A i \in DOMAIN tags' : tags'[i] = t \/ (i \in DOMAIN tags /\ tags'[i] = tags[i])
    BY <1>1, <2>2, <2>3, TagAppended, LastTyped
  <2>5. "tag" \in paper.owed /\ "tag" \notin paper'.owed /\ UNCHANGED <<src, disp, ledger, proved, raced, job>>
    BY <1>1, <1>6, DoneTyped DEF tag, Owed, oblVars, counts
  <2>6. Rungs' = Rungs /\ \A i, s : ProvedOn(i, s)' <=> ProvedOn(i, s)
    BY <2>5 DEF Rungs, parse_rung, ProvedOn
  <2>7. ~t.raced => \A i \in t.tracked : ProvedOn(i, t.commit.source)
    BY <2>1, <2>3, <2>5 DEF Vouched
  <2>8. Tagged'
    BY <2>4, <2>6, <2>7 DEF Vouched, Tagged
  <2> QED BY <2>5, <2>6, <2>8 DEF Vouched, ProvedOn
<1>7. CASE raced' = (raced \/ job # Idle \/ paper.owed # {})
           /\ UNCHANGED <<ledger, proved, forge, log, job, paper>>
  <2>1. \A i, s : ProvedOn(i, s)' <=> ProvedOn(i, s)
    BY <1>7 DEF ProvedOn
  <2>2. ~raced' => ~raced /\ job'.at = "idle" /\ paper'.owed = {}
    BY <1>1, <1>7, IdleTyped
  <2> QED BY <1>7, <2>1, <2>2 DEF Vouched, Tagged, forge, Busy, ProvedOn
<1>8. CASE commit \/ repin \/ record_release \/ record_publish \/ release_record_skip \/ record_other
           \/ Upload \/ CommitWork
  <2>1. UNCHANGED <<src, disp, ledger, proved, raced, job, tags>>
    BY <1>8 DEF commit, repin, record_release, record_publish, release_record_skip, record_other, Upload,
                CommitWork, oblVars, counts, forge
  <2>2. Rungs' = Rungs
    BY <2>1 DEF Rungs, parse_rung
  <2> QED BY <1>2, <2>1, <2>2 DEF Vouched, Tagged, ProvedOn
<1>9. CASE EditSource \/ EditSpec \/ EditManifest
  BY <1>7, <1>9 DEF EditSource, EditSpec, EditManifest, Edited
<1> QED BY <1>4, <1>5, <1>6, <1>8, <1>9 DEF Obligation, Operator, Environment

\* Through every release, kill and edit, the digests are of sources that were proved.
LEMMA VouchedInv == Spec => []Vouched
<1>1. Init => Vouched
  <2> SUFFICES ASSUME Init
               PROVE  Vouched
    OBVIOUS
  <2>1. job.at = "idle" /\ paper.owed = {} /\ DOMAIN ledger = {}
    BY IdleTyped DEF Init
  <2>2. \A i \in DOMAIN tags : tags[i].tracked = {}
    BY DEF Init
  <2> QED BY <2>1, <2>2 DEF Vouched, Tagged, Busy
<1>2. Typed /\ Bumped /\ Vouched /\ [Next]_vars => Vouched'
  <2> SUFFICES ASSUME Typed, Bumped, Vouched, [Next]_vars
               PROVE  Vouched'
    OBVIOUS
  <2>1. CASE UNCHANGED vars
    <3>1. UNCHANGED <<src, disp, ledger, proved, raced, job, paper, tags>>
      BY <2>1 DEF vars, oblVars, forge, counts
    <3>2. Rungs' = Rungs
      BY <3>1 DEF Rungs, parse_rung
    <3> QED BY <3>1, <3>2 DEF Vouched, Tagged, ProvedOn
  <2> QED BY <2>1, RunVouched, OthersVouched DEF Next
<1> QED BY <1>1, <1>2, TypedInv, BumpedInv, PTL DEF Spec

\* What a tag releases as proved was proved on the sources that the tag carries,
\* whatever was edited, re-proved and recorded between two releases.
THEOREM TagsAreProved == Spec => []TagIsProved
<1>1. Vouched => TagIsProved
  BY DEF Vouched, Tagged, TagIsProved, ProvedOn
<1> QED BY <1>1, VouchedInv, PTL

-----------------------------------------------------------------------------
(* A clean check means published. *)

\* A receipt more, which names no revision or what is published for it.
LEMMA WitnessedGrows ==
    ASSUME Typed, Witnessed, asset' = asset, NEW phase \in PhaseName, NEW disposition \in {"done", "skip"},
           NEW evidence \in Hash, NEW revision \in SUBSET Commit, NEW authorized \in BOOLEAN,
           append_receipt(Receipt(phase, disposition, evidence, revision, authorized)),
           revision = {} \/ \E a \in asset : revision = {a.commit} /\ evidence = a.hash
    PROVE  Witnessed'
<1> DEFINE r == Receipt(phase, disposition, evidence, revision, authorized)
<1>1. log \in Seq(Recorded) /\ append_receipt(r)
  BY DEF Typed, CommandTyped
<1>2. r \in Recorded /\ r.revision = revision /\ r.evidence = evidence
  BY ReceiptTyped
<1> HIDE DEF r
<1>3. \A i \in DOMAIN log' : log'[i] = r \/ (i \in DOMAIN log /\ log'[i] = log[i])
  BY <1>1, <1>2, RecordTyped
<1> QED BY <1>2, <1>3 DEF Witnessed

\* Each of the four ways to record a receipt names no revision, or what is published for it.
LEMMA StepWitnessed ==
    ASSUME Typed, Witnessed, [Next]_vars
    PROVE  Witnessed'
<1>1. head \in Commit /\ paper.hash \in Hash /\ NoHash \in Hash /\ asset \subseteq Asset
      /\ "release" \in PhaseName /\ {} \in SUBSET Commit
  BY DEF Typed, CommandTyped, ForgeTyped, Paper, PhaseName, Hash
<1>2. CASE log' = log /\ asset \subseteq asset'
  BY <1>2 DEF Witnessed
<1>3. CASE record_release
  <2>1. PICK authorized \in BOOLEAN :
           append_receipt(Receipt("release", "done", paper.hash, {}, authorized)) /\ asset' = asset
    BY <1>3 DEF record_release, receipt_record, forge, is_artifact_bearing
  <2> QED BY <1>1, <2>1, WitnessedGrows
<1>4. CASE release_record_skip
  <2>1. append_receipt(Receipt("release", "skip", NoHash, {}, FALSE)) /\ asset' = asset
    BY <1>4 DEF release_record_skip, forge
  <2> QED BY <1>1, <2>1, WitnessedGrows
<1>5. CASE record_other
  <2>1. PICK p \in Phases, d \in {"done", "skip"} : receipt_record(p.name, d, NoHash, {}, FALSE)
    BY <1>5 DEF record_other
  <2>2. append_receipt(Receipt(p.name, d, NoHash, {}, FALSE)) /\ asset' = asset
    BY <1>5, <2>1 DEF record_other, receipt_record, forge
  <2>3. p.name \in PhaseName
    BY DEF PhaseName
  <2> QED BY <1>1, <2>2, <2>3, WitnessedGrows
<1>6. CASE record_publish
  <2>1. PICK a \in Published(head) : receipt_record("publish", "done", a.hash, {head}, FALSE)
    BY <1>6 DEF record_publish
  <2> DEFINE c == {head}
  <2>2. append_receipt(Receipt("publish", "done", a.hash, c, FALSE)) /\ asset' = asset
    BY <1>6, <2>1 DEF record_publish, receipt_record, forge
  <2>3. c \in SUBSET Commit /\ "publish" \in PhaseName /\ a.hash \in Hash /\ a \in asset /\ c = {a.commit}
    BY <1>1, <2>1 DEF receipt_record, PhaseName, Published, Asset
  <2> HIDE DEF c
  <2> QED BY <2>2, <2>3, WitnessedGrows
<1>7. CASE Run
  BY <1>2, <1>7, RunDoes DEF forge
<1>8. CASE UNCHANGED vars
  BY <1>2, <1>8 DEF vars, forge
<1>9. CASE Upload
  BY <1>2, <1>9 DEF Upload
<1> QED
  BY <1>2, <1>3, <1>4, <1>5, <1>6, <1>7, <1>8, <1>9
  DEF Next, Obligation, Operator, Environment, rederive, RecordDigests, commit, tag, repin, EditSource,
      EditSpec, EditManifest, Edited, CommitWork, forge

\* Every receipt of the log that names a revision names what was published for it.
LEMMA WitnessedInv == Spec => []Witnessed
<1>1. Init => Witnessed
  BY DEF Init, Witnessed
<1>2. Typed /\ Witnessed /\ [Next]_vars => Witnessed'
  BY StepWitnessed
<1> QED BY <1>1, <1>2, TypedInv, PTL DEF Spec

\* A nonempty set of a list's places has a last one.
LEMMA LastPlace ==
    ASSUME NEW n \in Nat, NEW I \in SUBSET (1 .. n), I # {}
    PROVE  \E i \in I : \A j \in I : j <= i
<1> DEFINE From(i) == i .. n
           T == {From(i) : i \in I}
<1>1. IsFiniteSet(1 .. n)
  BY FS_Interval
<1>2. IsWellFoundedOn(StrictSubsetOrdering(1 .. n), SUBSET (1 .. n))
  BY <1>1, FS_StrictSubsetOrderingWellFounded, FS_FiniteSubsetsOfFinite
<1>3. T \subseteq SUBSET (1 .. n) /\ T # {}
  <2>1. \A i \in I : From(i) \subseteq 1 .. n
    OBVIOUS
  <2>2. PICK i \in I : TRUE
    OBVIOUS
  <2>3. From(i) \in T
    OBVIOUS
  <2> HIDE DEF From
  <2> QED BY <2>1, <2>3
<1>4. PICK L \in T : \A K \in T : <<K, L>> \notin StrictSubsetOrdering(1 .. n)
  <2> HIDE DEF T
  <2> QED BY <1>2, <1>3, WFMin
<1>5. PICK i \in I : L = From(i)
  OBVIOUS
<1>6. ASSUME NEW j \in I, ~(j <= i)
      PROVE  FALSE
  <2>1. From(j) \subseteq L /\ From(j) # L
    BY <1>5, <1>6
  <2>2. <<From(j), L>> \in StrictSubsetOrdering(1 .. n)
    BY <1>3, <2>1 DEF StrictSubsetOrdering
  <2> QED BY <1>4, <2>2
<1> QED BY <1>6

\* The last receipt of a phase is one of the log.
LEMMA LatestIsLogged ==
    ASSUME log \in Seq(Recorded), NEW phase, latest_receipt(phase).disposition # "none"
    PROVE  \E i \in DOMAIN log : latest_receipt(phase) = log[i]
<1> DEFINE at == {i \in DOMAIN log : log[i].phase = phase}
<1>1. at # {}
  BY DEF latest_receipt
<1>2. \E i \in at : \A j \in at : j <= i
  <2>1. Len(log) \in Nat /\ at \in SUBSET (1 .. Len(log))
    OBVIOUS
  <2> HIDE DEF at
  <2> QED BY <1>1, <2>1, LastPlace
<1> QED BY <1>1, <1>2 DEF latest_receipt

\* Where software --check is clean and a publication is on record, the forge has
\* the recorded artifact for the pinned commit, whatever was re-pinned, released
\* or published before.
THEOREM CleanIsPublished == Spec => []CleanMeansPublished
<1>1. Typed /\ Witnessed => CleanMeansPublished
  <2> SUFFICES ASSUME Typed, Witnessed, software_check, recipe.artifact # NoHash,
                      latest_receipt("publish").disposition = "done"
               PROVE  [commit |-> head, hash |-> recipe.artifact] \in asset
    BY DEF CleanMeansPublished
  <2> DEFINE r == latest_receipt("publish")
  <2>1. r.revision = {head} /\ r.evidence = recipe.artifact
    BY DEF software_check, publish_problems, at_pin
  <2>2. PICK i \in DOMAIN log : r = log[i]
    BY LatestIsLogged DEF Typed, CommandTyped
  <2>3. PICK a \in asset : r.revision = {a.commit} /\ r.evidence = a.hash
    BY <2>1, <2>2 DEF Witnessed
  <2>4. a = [commit |-> head, hash |-> recipe.artifact]
    BY <2>1, <2>3 DEF Typed, ForgeTyped, Asset
  <2> QED BY <2>3, <2>4
<1> QED BY <1>1, TypedInv, WitnessedInv, PTL
=============================================================================
