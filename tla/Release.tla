------------------------------ MODULE Release -------------------------------
(***************************************************************************)
(* One component's release (src/src/main.rs, `release`, `receipt` and the  *)
(* provenance part of `software --check`).  The command gates, bumps the   *)
(* manifest, the lock and what is generated from them, builds in the       *)
(* recorded toolchain and prints steps; the operator commits, tags, pins   *)
(* and records by those steps.  The command may be killed anywhere, and    *)
(* the operator may edit the component at any time.                        *)
(***************************************************************************)
EXTENDS Obligations

CONSTANTS
    First,          \* the version the manifest starts from
    Sources, Derived, Declared, \* the sources, obligations and bounds to start from
    Phases,         \* the phases of the lifecycle manifest
    Crates, Inherits, \* the workspace's crates, those at the workspace's version
    BuildRecorded,  \* the recipe records the command that builds the artifact
    Untracked,      \* what of it git may not track to start with
    MaxTroubles,    \* bound: the commands killed, the writes failed and the edits
    MaxTags,        \* bound: the tags
    MaxReceipts     \* bound: the receipts

Class == {"breaking", "feature", "fix"}
component == "component"
NoHash == << >>
OtherBytes == <<"other">>
NoVersion == <<"none">>
Part == {"source", "derived", "config"}

ASSUME ReleaseAssumption ==
    /\ First \in Nat \X Nat \X Nat /\ Inherits \subseteq Crates
    /\ Sources \subseteq Source /\ Derived \subseteq SUBSET Id /\ Declared \subseteq Bound /\ Untracked \subseteq SUBSET Part
    /\ BuildRecorded \in BOOLEAN
    /\ MaxTroubles \in Nat /\ MaxTags \in Nat /\ MaxReceipts \in Nat

VARIABLES
    manifest,   \* the version in Cargo.toml
    lock,       \* the version of each of its crates in Cargo.lock
    derived,    \* the version its generated files speak of
    config,     \* how often .cargo/config.toml replaces the sources by the bundle's
    flags,      \* the operator's own part of .cargo/config.toml is in it
    vendor,     \* the bundle's sources are in the worktree
    loose,      \* the parts of the worktree with a file that git does not track
    head,       \* the commit the worktree stands on
    tags,       \* the release tags, oldest first
    recipe,     \* .host-software: the component's pin, recorded artifact and kind
    log,        \* the receipts
    asset,      \* what the forge has published for a commit
    job,        \* the command that is running
    paper,      \* the steps the last release printed
    raced,      \* history: the component was edited while a command ran or steps were owed
    apart,      \* history: the last release may not have committed all that it built
    kills,      \* how many commands were killed
    slips,      \* how many writes of the configuration failed, or were cut short
    edits       \* how many edits there were, files newly generated among them

tree == <<manifest, lock, derived, config, flags, vendor>>
forge == <<head, tags, recipe, asset>>
counts == <<raced, apart, kills, slips, edits>>
vars == <<oblVars, tree, loose, forge, log, job, paper, counts>>

Troubled == kills + slips + edits < MaxTroubles

-----------------------------------------------------------------------------
(* Versions. *)

next_version(v, class) ==
    CASE class = "fix" -> <<v[1], v[2], v[3] + 1>>
      [] class = "feature" \/ v[1] = 0 -> <<v[1], v[2] + 1, 0>>
      [] OTHER -> <<v[1] + 1, 0, 0>>

\* Faulty variant: the version is read back from the manifest.
VersionFromManifest == manifest

\* The nearest release tag; a component never tagged starts from its manifest.
cargo_version == manifest
current_version == IF tags = << >> THEN cargo_version ELSE tags[Len(tags)].version

\* The members that inherit the workspace's version move with it, no other does.
inherits_workspace_version(c) == c \in Inherits
LockAt(v) == [c \in Crates |-> IF inherits_workspace_version(c) THEN v ELSE First]
set_crates(v) == [c \in Crates |-> IF inherits_workspace_version(c) THEN v ELSE lock[c]]

-----------------------------------------------------------------------------
(* Receipts and the gate over them. *)

Phase == [name : STRING, order : Nat, requires : SUBSET STRING,
          conditional_on : {"Where", "none"}, skippable : BOOLEAN, recheck : BOOLEAN]
validate_receipt_record(p, disposition) ==
    disposition = "done" \/ (disposition = "skip" /\ p.skippable)

latest_receipt(phase) ==
    LET at == {i \in DOMAIN log : log[i].phase = phase}
    IN  IF at = {} THEN [disposition |-> "none"]
        ELSE log[CHOOSE i \in at : \A j \in at : j <= i]

\* What manifest --check asks of the phases themselves.
manifest_check ==
    \A p, q \in Phases :
        /\ p.order # 0
        /\ p # q => p.order # q.order /\ p.name # q.name
        /\ p.requires \subseteq {r.name : r \in Phases}
        /\ q.name \in p.requires => q.order < p.order
ASSUME ManifestAssumption == Phases \subseteq Phase /\ manifest_check

applies(p) == p.conditional_on = "Where" => recipe.pin # {}
gate_line(p) ==
    LET r == latest_receipt(p.name)
    IN  \/ ~applies(p)
        \/ r.disposition = "done" /\ p.recheck
        \/ r.disposition = "skip" /\ p.skippable

receipt_gate_problems == \E p \in Phases : ~gate_line(p)

owes_authorization(r) == r.phase = "release" /\ r.disposition = "done"
release_authorization_problems ==
    \E i \in DOMAIN log : owes_authorization(log[i]) /\ ~log[i].authorized

Receipt(phase, disposition, evidence, revision, authorized) ==
    [phase |-> phase, disposition |-> disposition, evidence |-> evidence,
     revision |-> revision, authorized |-> authorized]
append_receipt(r) == Len(log) < MaxReceipts /\ log' = Append(log, r)

\* Of a phase the manifest declares; a release that was done names what authorized it.
receipt_record(phase, disposition, evidence, revision, authorized) ==
    /\ \E p \in Phases : p.name = phase /\ validate_receipt_record(p, disposition)
    /\ (phase = "release" /\ disposition = "done") => authorized
    /\ append_receipt(Receipt(phase, disposition, evidence, revision, authorized))

-----------------------------------------------------------------------------
(* Builds and the provenance check.  Two builds of one tree in the recorded *)
(* toolchain are the same bytes.                                           *)

Tree == [source |-> src, manifest |-> manifest, lock |-> lock,
         derived |-> derived, config |-> config, flags |-> flags]
\* A file that git does not track is in no commit.
Committed(left) ==
    LET kept(part, value, none) == IF part \in left THEN none ELSE value
    IN  [source |-> kept("source", src, Gone), manifest |-> manifest, lock |-> lock,
         derived |-> kept("derived", derived, NoVersion),
         config |-> kept("config", config, 0), flags |-> kept("config", flags, FALSE)]
CurrentLock(t) == \A c \in Inherits : t.lock[c] = t.manifest
\* Where no command to build it is recorded a release has a default.
Build(t) == <<t.source, t.manifest, t.lock, t.derived, t.flags>>
artifact_reproduces(hash, c) == CurrentLock(c) /\ hash = Build(c)

Kind == {"artifact", "tool", "exempt"}
repro_exempt_cite == recipe.kind = "exempt"

\* The pin is checked out anew and built by the recorded command; none is a drift.
software_verify_build ==
    \A c \in recipe.pin : recipe.artifact # NoHash =>
        \/ repro_exempt_cite
        \/ BuildRecorded /\ artifact_reproduces(recipe.artifact, c)

\* Faulty variant: a receipt of any revision counts.
AtAnyPin(r) == TRUE
at_pin(r) == r.revision = {head}

publish_problems ==
    LET r == latest_receipt("publish")
    IN  recipe.artifact # NoHash /\ r.disposition # "none"
        /\ (~at_pin(r) \/ r.evidence # recipe.artifact)
AtRecordedPin == recipe.pin = {head}
software_check ==
    /\ AtRecordedPin
    /\ ~publish_problems
    /\ ~release_authorization_problems
    /\ ~receipt_gate_problems

-----------------------------------------------------------------------------
(* release *)

Idle == [at |-> "idle", class |-> "fix", new |-> First, backup |-> 0, tracked |-> {}]
is_artifact_bearing == recipe.kind = "artifact"
NoPaper == [owed |-> {}, version |-> First, hash |-> NoHash, tracked |-> {}]
Goto(step) == job' = [job EXCEPT !.at = step]
Exit == job' = Idle

\* It is authorized, or it does not start; only the last run's steps are followed.
release(class) ==
    /\ job = Idle /\ ~repro_exempt_cite
    /\ Len(tags) < MaxTags
    /\ job' = [Idle EXCEPT !.at = "gates", !.class = class]
    /\ paper' = NoPaper /\ apart' = FALSE
    /\ UNCHANGED <<oblVars, tree, loose, forge, log, raced, kills, slips, edits>>

\* The verify sweep and the clippy bar answer as the tree happens to be; either blocks.
run_verify == BOOLEAN
run_clippy_bar == BOOLEAN

\* The new version, and the rungs on the ledger that the discharge has checked.
Versioned == [job EXCEPT !.new = next_version(current_version, job.class),
                         !.tracked = WithInputs \cap DOMAIN ledger]
Printed(j, steps, hash) ==
    paper' = [owed |-> steps, version |-> j.new, hash |-> hash, tracked |-> j.tracked]

\* For a tool, which has nothing to build, all that is left is the tag.
Gates ==
    /\ job.at = "gates"
    /\ \E verify \in run_verify, clippy \in run_clippy_bar :
       IF ~verify \/ ~clippy \/ discharge_problems THEN Exit /\ UNCHANGED paper
       ELSE IF is_artifact_bearing
            THEN job' = [Versioned EXCEPT !.at = "bump", !.class = "fix"] /\ UNCHANGED paper
            ELSE Exit /\ Printed(Versioned, {"tag", "receipt"}, NoHash)
    /\ UNCHANGED <<oblVars, tree, loose, forge, log, counts>>

set_cargo_version(v) == manifest' = v
\* With no toolchain or container runtime nothing is touched.
bump ==
    /\ job.at = "bump"
    /\ \/ Exit /\ UNCHANGED manifest
       \/ Goto("lock") /\ set_cargo_version(job.new)
    /\ UNCHANGED <<oblVars, lock, derived, config, flags, vendor, loose, forge, log, paper, counts>>

set_lock_version ==
    /\ job.at = "lock"
    /\ \/ Exit /\ UNCHANGED lock
       \/ Goto("regen") /\ lock' = set_crates(job.new)
    /\ UNCHANGED <<oblVars, manifest, derived, config, flags, vendor, loose, forge, log, paper, counts>>

\* Faulty variant: what was generated for a bump is not generated again.
GeneratedOnce == IF derived = current_version THEN manifest ELSE derived
Generated == manifest

\* The command reads the bumped manifest, and may write a file git does not know;
\* when it fails its partial work stays.
run_regen ==
    /\ job.at = "regen"
    /\ \/ Exit /\ derived' \in {derived, Generated}
       \/ Goto("stage") /\ derived' = Generated
    /\ \/ UNCHANGED <<loose, edits>>
       \/ Troubled /\ edits' = edits + 1 /\ loose' = loose \cup {"derived"}
    /\ UNCHANGED <<oblVars, manifest, lock, config, flags, vendor, forge, log, paper, raced, apart, kills, slips>>

\* What the snippet defines replaces what the file holds: once, however often merged.
merge_vendor_config(sections) == 1

\* What the tree's configuration was is kept, to be put back after the build.
Staged == [job EXCEPT !.at = "build", !.backup = config]

\* A write of the configuration that fails, or is cut short, leaves it cut off anywhere,
\* the operator's part first.
Slip ==
    /\ Troubled /\ slips' = slips + 1
    /\ config' \in {0, config, 1} /\ flags' \in {FALSE, flags}
    /\ flags' = flags \/ config' = 0

\* Extracted, then merged; a failure leaves what was extracted, and is not undone.
stage_deps_bundle ==
    /\ job.at = "stage"
    /\ \/ Exit /\ vendor' \in {vendor, TRUE} /\ UNCHANGED <<config, flags, slips>>
       \/ Exit /\ vendor' = TRUE /\ Slip
       \/ /\ job' = Staged
          /\ vendor' = TRUE /\ config' = merge_vendor_config(config) /\ UNCHANGED <<flags, slips>>
    /\ UNCHANGED <<oblVars, manifest, lock, derived, loose, forge, log, paper, raced, apart, kills, edits>>

\* Faulty variant: a build that fails keeps what was staged.
restore_built(built) ==
    /\ IF built THEN vendor' = FALSE /\ config' = job.backup ELSE UNCHANGED <<vendor, config>>
    /\ UNCHANGED <<flags, slips, apart>>

\* What it removes or writes may fail, which is not looked at.
restore(built) ==
    \/ vendor' = FALSE /\ config' = job.backup /\ UNCHANGED <<flags, slips, apart>>
    \/ vendor' \in {vendor, FALSE} /\ Slip /\ apart' = TRUE

\* Faulty variant: what is generated is refreshed after the build.
BuiltBeforeRegen == Build([Tree EXCEPT !.derived = current_version])
Built == Build(Tree)

\* The build is locked and may fail; whatever it does, the staging is reverted.
run_build_in_container ==
    /\ job.at = "build"
    /\ \/ restore(FALSE) /\ UNCHANGED paper
       \/ /\ CurrentLock(Tree) /\ config <= 1
          /\ restore(TRUE)
          /\ Printed(job, {"commit", "tag", "pin", "receipt", "publish"}, Built)
    /\ Exit
    /\ UNCHANGED <<oblVars, manifest, lock, derived, loose, forge, log, raced, kills, edits>>

\* Nothing is undone.
Kill ==
    /\ job # Idle
    /\ Troubled /\ kills' = kills + 1
    /\ Exit
    /\ UNCHANGED <<oblVars, tree, loose, forge, log, paper, raced, apart, slips, edits>>

-----------------------------------------------------------------------------
(* obligations --rederive --record-digests *)

rederive ==
    /\ job = Idle
    /\ job' = [Idle EXCEPT !.at = IF rederive_problems THEN "idle" ELSE "digests"]
    /\ proved' = proved \cup Proofs({i \in Rungs : run_host_prove(i)})
    /\ UNCHANGED <<ids, disp, src, ledger, tree, loose, forge, log, paper, counts>>
RecordDigests ==
    /\ job.at = "digests"
    /\ Exit
    /\ ledger' = IF src = Gone /\ WithInputs # {} THEN ledger ELSE record_digests(Rungs)
    /\ UNCHANGED <<ids, disp, src, proved, tree, loose, forge, log, paper, counts>>

-----------------------------------------------------------------------------
(* The operator and the forge. *)

Owed(step, before) == job = Idle /\ step \in paper.owed /\ paper.owed \cap before = {}
Done(step) == paper' = [paper EXCEPT !.owed = @ \ {step}]

\* The printed line commits what git tracks.
commit ==
    /\ Owed("commit", {}) /\ Done("commit")
    /\ head' = Committed(loose) /\ apart' = (apart \/ loose # {})
    /\ UNCHANGED <<oblVars, tree, loose, tags, recipe, asset, log, job, raced, kills, slips, edits>>
tag ==
    /\ Owed("tag", {"commit"}) /\ Done("tag")
    /\ tags' = Append(tags, [version |-> paper.version, commit |-> head,
                             tracked |-> paper.tracked, raced |-> raced \/ head.source # src])
    /\ UNCHANGED <<oblVars, tree, loose, head, recipe, asset, log, job, counts>>
repin ==
    /\ Owed("pin", {"commit", "tag"}) /\ Done("pin")
    /\ recipe' = [recipe EXCEPT !.pin = {head}, !.artifact = paper.hash, !.apart = raced \/ apart]
    /\ UNCHANGED <<oblVars, tree, loose, head, tags, asset, log, job, counts>>
\* The line printed for a tool names no authorization, and is refused until one is added.
record_release ==
    /\ Owed("receipt", {"commit", "tag", "pin"}) /\ Done("receipt")
    /\ \E authorized \in {is_artifact_bearing, TRUE} :
          receipt_record("release", "done", paper.hash, {}, authorized)
    /\ UNCHANGED <<oblVars, tree, loose, forge, job, counts>>

\* The forge builds the tagged commit by a lane of its own, perhaps other bytes.
Published(c) == {a \in asset : a.commit = c}
Upload ==
    \E i \in DOMAIN tags :
        LET c == tags[i].commit
        IN  /\ Published(c) = {}
            /\ asset' \in {asset \cup {[commit |-> c, hash |-> h]} : h \in {Build(c), OtherBytes}}
            /\ UNCHANGED <<oblVars, tree, loose, head, tags, recipe, log, job, paper, counts>>
record_publish ==
    /\ Owed("publish", {"commit", "tag", "pin", "receipt"}) /\ Done("publish")
    /\ \E a \in Published(head) :
          receipt_record("publish", "done", a.hash, {head}, FALSE)
    /\ UNCHANGED <<oblVars, tree, loose, forge, job, counts>>

\* For what cannot be reproduced a decision is cited in place of the release.
release_record_skip ==
    /\ job = Idle /\ repro_exempt_cite
    /\ append_receipt(Receipt("release", "skip", NoHash, {}, FALSE))
    /\ UNCHANGED <<oblVars, tree, loose, forge, job, paper, counts>>

\* Any other record, which names no revision.
record_other ==
    /\ job = Idle
    /\ \E p \in Phases, d \in {"done", "skip"} :
          (p.name \in {"release", "publish"} => d = "skip") /\ receipt_record(p.name, d, NoHash, {}, FALSE)
    /\ UNCHANGED <<oblVars, tree, loose, forge, job, paper, counts>>

Edited ==
    /\ Troubled /\ edits' = edits + 1
    /\ raced' = (raced \/ job # Idle \/ paper.owed # {})
    /\ UNCHANGED <<tree, forge, log, job, paper, apart, kills, slips>>
\* In a file that git tracks, or in a new one.
EditSource ==
    /\ Edited
    /\ src' \in (Source \cup {Gone}) \ {src}
    /\ loose' \in {loose, loose \cup {"source"}}
    /\ UNCHANGED <<ids, disp, ledger, proved>>
EditSpec ==
    /\ Edited
    /\ ids' = Id
    /\ UNCHANGED <<disp, src, ledger, proved, loose>>
EditManifest ==
    /\ Edited
    /\ \E i \in Id, d \in Disposition :
          disp' = [j \in DOMAIN disp \cup {i} |-> IF j = i THEN d ELSE disp[j]]
    /\ UNCHANGED <<ids, src, ledger, proved, loose>>

\* Work between two releases is committed, new files with it or not, and the pin moved, by hand.
CommitWork ==
    /\ job = Idle /\ paper.owed = {}
    /\ src # head.source /\ loose' \in {loose, {}} /\ head' = Committed(loose')
    /\ recipe' \in {recipe, [recipe EXCEPT !.pin = {head'}, !.apart = TRUE]}
    /\ UNCHANGED <<oblVars, tree, tags, asset, log, job, paper, counts>>

Init ==
    /\ src \in Sources /\ ids \in Derived
    /\ disp \in [ids -> {Rung(b, TRUE) : b \in Declared}]
    /\ ledger = [j \in {} |-> src] /\ proved = {}
    /\ manifest = First /\ lock = LockAt(First) /\ derived = First
    /\ config = 0 /\ flags = TRUE /\ vendor = FALSE
    /\ loose \in Untracked /\ head = Committed(loose)
    /\ tags = << [version |-> First, commit |-> head, tracked |-> {}, raced |-> FALSE] >>
    /\ recipe \in [pin : {{head}}, artifact : {NoHash}, apart : {FALSE}, kind : Kind]
    /\ log = << >> /\ asset = {}
    /\ job = Idle /\ paper = NoPaper
    /\ raced = FALSE /\ apart = FALSE /\ kills = 0 /\ slips = 0 /\ edits = 0

Run == \/ \E class \in Class : release(class)
       \/ Gates \/ bump \/ set_lock_version \/ run_regen
       \/ stage_deps_bundle \/ run_build_in_container \/ Kill
Obligation == rederive \/ RecordDigests
Operator == commit \/ tag \/ repin \/ record_release \/ record_publish \/ record_other \/ release_record_skip
Environment == Upload \/ EditSource \/ EditSpec \/ EditManifest \/ CommitWork

Next == Run \/ Obligation \/ Operator \/ Environment
Spec == Init /\ [][Next]_vars
=============================================================================
