----------------------------- MODULE CloneSetup ------------------------------
(***************************************************************************)
(* A clone being set up (src/src/bootstrap.rs), the gate that says whether *)
(* it is complete (src/src/setup.rs), the fingerprint that says what moved *)
(* (src/src/envhash.rs) and the hooks between them (`software              *)
(* --install-hooks`).  bootstrap reads each step against the tree just     *)
(* before it makes it; a step may fail, the run may be killed, and the     *)
(* operator works in the clone at any time.                                *)
(***************************************************************************)
EXTENDS Naturals, FiniteSets, SequencesExt

CONSTANTS
    Recipe,     \* the components, in the order of `.host-software`
    Trees,      \* each component's declared worktrees, the canonical one first
    Provider,   \* the component that declares the hooks and records their binary
    Submodule,  \* the submodules `.gitmodules` declares
    Offers,     \* the skills a component's canonical tree or a submodule offers
    Declares,   \* the components whose obligations declare a rung
    Deriver,    \* the component that carries the re-deriver
    Version,    \* the revisions of the provider, and the binaries built from them
    Torn,       \* what a copy that was cut short leaves of a file
    MaxEdits    \* bound: the operator's changes and commands

Component == Range(Recipe)
Worktree == UNION {Range(Trees[c]) : c \in Component}
Canonical(c) == Trees[c][1]
Skill == UNION {Offers[s] : s \in DOMAIN Offers}
Host == "the host repository"
Surface == {Host} \cup Component
None == 0

ASSUME CloneAssumption ==
    /\ Recipe \in Seq(Component) /\ IsInjective(Recipe)
    /\ Trees \in [Component -> Seq(Worktree)] /\ \A c \in Component : Trees[c] # << >>
    /\ {Provider, Deriver} \subseteq Component
    /\ DOMAIN Offers = Component \cup Submodule /\ Component \cap Submodule = {}
    /\ Declares \subseteq Component
    /\ Version # {} /\ Version \subseteq Nat \ {None} /\ MaxEdits \in Nat
    /\ Torn \in Nat \ {None} /\ Torn \notin Version

VARIABLES
    sub,        \* each submodule: "bare", "init", or "gutted" behind git's back
    tree,       \* each worktree: "absent", "there", or a "hollow" directory
    gitlink,    \* the components whose directory has its gitdir link to the store
    source,     \* the provider's pinned revision
    atPin,      \* its canonical tree stands there
    built,      \* its binary: in the worktree, and at the host's root
    hooks,      \* of each hooks directory: a script that git runs, and the binary in it
    link,       \* each skill's link: none, to a source, or something foreign
    driver,     \* the re-deriver runs here
    envhash,    \* what `.host-envhash` records, if anything
    seen,       \* history: the clone as it was when that was written
    boot,       \* the running bootstrap, or how the last one ended
    edits       \* how often the operator has changed something or run a command

clone == <<sub, tree, gitlink, source, atPin, built, hooks, link, driver>>
records == <<envhash, seen>>
vars == <<clone, records, boot, edits>>

-----------------------------------------------------------------------------
(* Reading the clone. *)

is_dir(w) == tree[w] # "absent"
is_git_worktree(w) == tree[w] = "there"
submodule_status(s) == sub[s] # "bare"      \* what git says
populated(s) == submodule_status(s) /\ sub[s] # "gutted"

\* What offers a skill here; a component's tree comes before a submodule.
Offering(s) == IF s \in Submodule THEN populated(s) ELSE is_git_worktree(Canonical(s))
Sources(skill) == {s \in DOMAIN Offers : skill \in Offers[s] /\ Offering(s)}
skill_sources == {skill \in Skill : Sources(skill) # {}}
Foremost(sources) ==
    LET own == {i \in DOMAIN Recipe : Recipe[i] \in sources}
    IN  IF own # {} THEN Recipe[Min(own)] ELSE CHOOSE s \in sources : TRUE
Best(skill) == Foremost(Sources(skill))
Dangling(skill) == link[skill] \in DOMAIN Offers /\ link[skill] \notin Sources(skill)

\* git shares one hooks directory across the worktrees of a store; from an emptied
\* worktree the component's gitdir link leads to it, and without one git finds the host's.
git_hooks_dir(c) ==
    IF \E w \in Range(Trees[c]) : is_git_worktree(w) \/ (is_dir(w) /\ c \in gitlink)
    THEN c ELSE Host
hook_targets == {Host} \cup {git_hooks_dir(c) : c \in Component}

\* A script is looked at for its executable bit only: one that is torn will do.
Gated(s) == hooks[s].script /\ hooks[s].bin # None
gate_asset == IF built.tree # None THEN built.tree ELSE built.root
hook_binary_current(s) == hooks[s].bin = None \/ gate_asset = None \/ hooks[s].bin = gate_asset

rung_declared == \E c \in Declares : is_git_worktree(Canonical(c))
rederiver_worktree == is_dir(Canonical(Deriver))
rederiver_owed == rung_declared /\ ~driver /\ rederiver_worktree

-----------------------------------------------------------------------------
(* The completeness gate: what the recipe asks of this host and is not there. *)

Gap(kind, target) == [kind |-> kind, target |-> target]
setup_requirements ==
    {Gap("submodule", s) : s \in {s \in Submodule : ~populated(s)}}
    \cup {Gap("worktree", w) : w \in {w \in Worktree : ~is_git_worktree(w)}}
    \cup (IF built.tree = None THEN {Gap("artifact", Provider)} ELSE {})
    \cup {Gap("skill", k) : k \in {k \in skill_sources : link[k] # Best(k)}}
    \cup {Gap("hook", s) : s \in {s \in hook_targets : ~Gated(s)} \cup {w \in Worktree : ~is_dir(w)}}
    \cup {Gap("binary", s) : s \in {s \in hook_targets : ~hook_binary_current(s)}}
    \cup (IF rung_declared /\ ~driver THEN {Gap("driver", Deriver)} ELSE {})
verify_setup == setup_requirements = {}
unmet(kinds) == \E g \in setup_requirements : g.kind \in kinds

artifact_owed == is_dir(Canonical(Provider)) /\ built.tree = None /\ built.root = None

-----------------------------------------------------------------------------
(* The fingerprint.  A component's selection sees its own worktrees and      *)
(* hooks, and the binary's name only when it is the provider's.              *)

worktree_paths(comps) == {w \in UNION {Range(Trees[c]) : c \in comps} : is_dir(w)}
submodule_state == [s \in Submodule |-> submodule_status(s)]

\* The hashes are sorted: which directory holds which binary is not told.
hook_binary_hash(comps) ==
    IF Provider \notin comps THEN {}
    ELSE LET dirs == (comps \cup {Host}) \cap hook_targets
         IN  {of \in (Version \cup {Torn}) \X (1 .. Cardinality(Surface)) :
                 Cardinality({s \in dirs : hooks[s].bin = of[1]}) = of[2]}

envhash_dimensions(comps) ==
    [worktree_paths |-> worktree_paths(comps), hook_binary |-> hook_binary_hash(comps),
     submodule_init |-> submodule_state]
Unreadable == {}
envhash_text(dims) == << dims >>
parse_envhash == envhash[1]

\* What cannot be read now never moved.
envhash_delta ==
    LET now == envhash_dimensions(Component)
    IN  {d \in DOMAIN now : now[d] # parse_envhash[d] /\ (d = "hook_binary" => now[d] # Unreadable)}
env_check == envhash # << >> /\ envhash_delta = {}

\* What is really there.
Present ==
    [trees |-> {w \in Worktree : tree[w] = "there"}, subs |-> {s \in Submodule : populated(s)},
     bins |-> [s \in Surface |-> hooks[s].bin]]

\* It is written last, from what the command has made.
write_envhash(comps) == envhash' = envhash_text(envhash_dimensions(comps)') /\ seen' = Present'

-----------------------------------------------------------------------------
(* bootstrap: each step is read against the tree as it then stands. *)

\* Faulty variant: the skills are linked before their sources are there.
LinksFirst == <<"submodules", "skills", "materialize", "build", "hooks", "rederiver", "verify">>

SEQUENCE == <<"submodules", "materialize", "skills", "build", "hooks", "rederiver", "verify">>

NoRun == [at |-> 0, calm |-> FALSE, complete |-> FALSE, code |-> "none"]
Idle == boot.at = 0
At(kind) == ~Idle /\ SEQUENCE[boot.at] = kind
Continue(well) == boot' = [boot EXCEPT !.at = @ + 1, !.calm = @ /\ well]
ExitWith(code) == boot' = [boot EXCEPT !.at = 0, !.code = code]

bootstrap ==
    /\ Idle
    /\ boot' = [at |-> 1, calm |-> TRUE, complete |-> verify_setup, code |-> "none"]
    /\ UNCHANGED <<clone, records, edits>>

satisfied(kind) ==
    CASE kind = "submodules" -> ~unmet({"submodule"})
      [] kind = "materialize" -> ~unmet({"worktree"})
      [] kind = "skills" -> ~unmet({"skill"})
      [] kind = "build" -> ~unmet({"artifact"})
      [] kind = "rederiver" -> ~unmet({"driver"})
      [] OTHER -> FALSE
read_step ==
    /\ ~Idle /\ satisfied(SEQUENCE[boot.at])
    /\ Continue(TRUE)
    /\ UNCHANGED <<clone, records, edits>>
Owes(kind) == At(kind) /\ ~satisfied(kind)

\* git holds a gutted submodule for initialized and leaves it.
InitSubmodules ==
    /\ Owes("submodules")
    /\ \E some \in SUBSET {s \in Submodule : sub[s] = "bare"}, ok \in BOOLEAN :
          /\ sub' = [s \in Submodule |-> IF s \in some \/ (ok /\ sub[s] = "bare") THEN "init" ELSE sub[s]]
          /\ IF ok THEN some = {} /\ Continue(TRUE) ELSE ExitWith("failed")
    /\ UNCHANGED <<tree, gitlink, source, atPin, built, hooks, link, driver, records, edits>>

\* The components are gone through in the recipe's order: each has its gitdir link written
\* where it is missing, then its absent worktrees added at their pins, with nothing built
\* in them.  An abort leaves the rest.
Upto(n) == {Recipe[i] : i \in 1 .. n}
Absent(comps) == {w \in UNION {Range(Trees[c]) : c \in comps} : tree[w] = "absent"}
Added(comps, n, some) ==
    /\ Absent(comps \cap Upto(n - 1)) \subseteq some /\ some \subseteq Absent(comps \cap Upto(n))
    /\ gitlink' = gitlink \cup (comps \cap Upto(n))
    /\ tree' = [w \in Worktree |-> IF w \in some THEN "there" ELSE tree[w]]
    /\ atPin' = (atPin \/ Canonical(Provider) \in some)
    /\ UNCHANGED <<sub, source, built, hooks, link, driver>>

\* To the end, or to an abort: the fingerprint is refreshed either way.
Materialize ==
    /\ Owes("materialize")
    /\ \E n \in 0 .. Len(Recipe), some \in SUBSET Absent(Component) :
          /\ Added(Component, n, some)
          /\ IF n = Len(Recipe) /\ some = Absent(Component)
             THEN Continue(TRUE) ELSE ExitWith("failed")
    /\ write_envhash(Component)
    /\ UNCHANGED edits

\* What dangles or is no longer offered is pruned; what stands in the way is kept.
Pruned(skill) ==
    IF link[skill] \in DOMAIN Offers /\ (Dangling(skill) \/ skill \notin skill_sources)
    THEN "none" ELSE link[skill]
link_skills ==
    /\ Owes("skills")
    /\ \E some \in SUBSET skill_sources :
          /\ \A k \in some : Pruned(k) = "none"
          /\ link' = [k \in Skill |-> IF k \in some THEN Best(k) ELSE Pruned(k)]
          /\ IF \A k \in skill_sources : link'[k] = Best(k) THEN Continue(TRUE) ELSE ExitWith("failed")
    /\ UNCHANGED <<sub, tree, gitlink, source, atPin, built, hooks, driver, records, edits>>

\* Building is left to the operator: the step says what is owed, if anything.
BuildArtifact == Owes("build") /\ Continue(TRUE) /\ UNCHANGED <<clone, records, edits>>

\* Faulty variant: the binary at the host's root goes before the one in the worktree.
RootFirst == IF built.root # None THEN built.root ELSE built.tree
Installed == gate_asset

\* The script, then the binary, into every directory, the host's first.  A copy truncates
\* what it writes over: one that fails or is cut short leaves the file as it was, or torn.
Outcome == [script : {"kept", "there"}, bin : {"kept", "made", "torn"}]
Well == [script |-> "there", bin |-> "made"]
Kept == [script |-> "kept", bin |-> "kept"]
ProviderReady == is_git_worktree(Canonical(Provider)) /\ atPin /\ Installed # None
Targets == IF ProviderReady THEN hook_targets ELSE {}
AllWell(how) == \A s \in DOMAIN how : how[s] = Well

\* To the end: the copies that fail do so alike.  Cut short: there is one it was at.
Finished == {[s \in Targets |-> IF s \in failed THEN how ELSE Well] :
                 failed \in SUBSET Targets, how \in Outcome}
InOrder == << Host >> \o Recipe
CutShort ==
    {[s \in Targets |-> IF \E i \in 1 .. n - 1 : s = InOrder[i] THEN Well
                        ELSE IF s = InOrder[n] THEN how ELSE Kept] :
        n \in DOMAIN InOrder, how \in Outcome}

Copied(s, how) ==
    [script |-> hooks[s].script \/ how.script = "there",
     bin |-> CASE how.bin = "kept" -> hooks[s].bin
               [] how.bin = "made" -> Installed
               [] how.bin = "torn" -> Torn]
install_hooks(how) ==
    /\ hooks' = [s \in Surface |-> IF s \in DOMAIN how THEN Copied(s, how[s]) ELSE hooks[s]]
    /\ UNCHANGED <<sub, tree, gitlink, source, atPin, built, link, driver>>

\* Faulty variant: bootstrap leaves the fingerprint to the command it stands in for.
LeftToTheCommand == UNCHANGED records
Refreshed == write_envhash(Component)

InstallHooks ==
    /\ Owes("hooks")
    /\ \E how \in Finished : install_hooks(how) /\ Continue(AllWell(how))
    /\ Refreshed
    /\ UNCHANGED edits
InstallRederiver ==
    /\ Owes("rederiver")
    /\ driver' \in {FALSE, rederiver_owed /\ is_git_worktree(Canonical(Deriver))}
    /\ Continue(driver' \/ ~rederiver_owed)
    /\ UNCHANGED <<sub, tree, gitlink, source, atPin, built, hooks, link, records, edits>>
VerifySetup ==
    /\ At("verify")
    /\ ExitWith(IF verify_setup THEN "complete" ELSE "incomplete")
    /\ UNCHANGED <<clone, records, edits>>

\* Killed between two steps, with some worktrees added, or in the midst of the copies,
\* and nothing recorded.
Killed == boot' = [boot EXCEPT !.at = 0, !.calm = FALSE, !.code = "killed"]
Kill ==
    /\ ~Idle /\ Killed
    /\ IF Owes("hooks") THEN \E how \in CutShort : install_hooks(how)
       ELSE \E n \in 0 .. (IF Owes("materialize") THEN Len(Recipe) ELSE 0) :
               \E some \in SUBSET Absent(Upto(n)) : Added(Component, n, some)
    /\ UNCHANGED <<records, edits>>

-----------------------------------------------------------------------------
(* The commands bootstrap does without. *)

Edit == edits < MaxEdits /\ edits' = edits + 1
Apart == boot' = [boot EXCEPT !.calm = FALSE]
software_materialize ==
    /\ Edit /\ Apart
    /\ \E comps \in {Component} \cup {{c} : c \in Component} :
        \E n \in 0 .. Len(Recipe), some \in SUBSET Absent(comps) :
            Added(comps, n, some) /\ write_envhash(comps)
software_install_hooks ==
    /\ Edit /\ Apart
    /\ \E how \in Finished : install_hooks(how)
    /\ write_envhash(Component)

\* The store goes with its worktrees and its hooks; the fingerprint is left.
TornDown(c) == Range(Trees[c])
software_teardown(c) ==
    /\ Apart
    /\ tree' = [w \in Worktree |-> IF w \in TornDown(c) THEN "absent" ELSE tree[w]]
    /\ hooks' = [hooks EXCEPT ![c] = [script |-> FALSE, bin |-> None]]
    /\ built' = IF c = Provider THEN [built EXCEPT !.tree = None] ELSE built
    /\ gitlink' = gitlink \ {c}
    /\ UNCHANGED <<sub, source, atPin, link, driver, records>>

-----------------------------------------------------------------------------
(* The operator. *)

Damage ==
    /\ Edit /\ Apart
    /\ \/ \E s \in Submodule, to \in {"bare", "gutted"} :
             /\ sub[s] = "init" /\ sub' = [sub EXCEPT ![s] = to]
             /\ UNCHANGED <<tree, gitlink, built, hooks, link, driver>>
       \/ \E w \in Worktree :
             /\ is_git_worktree(w) /\ tree' = [tree EXCEPT ![w] = "hollow"]
             /\ built' = IF w = Canonical(Provider) THEN [built EXCEPT !.tree = None] ELSE built
             /\ UNCHANGED <<sub, gitlink, hooks, link, driver>>
       \/ \E c \in gitlink :
             gitlink' = gitlink \ {c} /\ UNCHANGED <<sub, tree, built, hooks, link, driver>>
       \/ \E s \in hook_targets, bin \in {None, Torn} :
             /\ hooks' = [hooks EXCEPT ![s].bin = bin]
             /\ UNCHANGED <<sub, tree, gitlink, built, link, driver>>
       \/ \E k \in Skill, to \in {"none", "foreign"} :
             link' = [link EXCEPT ![k] = to] /\ UNCHANGED <<sub, tree, gitlink, built, hooks, driver>>
       \/ driver' = FALSE /\ UNCHANGED <<sub, tree, gitlink, built, hooks, link>>
    /\ UNCHANGED <<source, atPin, records>>
Teardown == Edit /\ \E c \in Component : software_teardown(c)
Build ==
    /\ Edit /\ Apart
    /\ \/ is_git_worktree(Canonical(Provider)) /\ built' = [built EXCEPT !.tree = source]
       \/ built' = [built EXCEPT !.root = source]
    /\ UNCHANGED <<sub, tree, gitlink, source, atPin, hooks, link, driver, records>>

\* The provider's pin moves, its worktree with it or not.
Repin ==
    /\ Edit /\ Apart
    /\ source' \in Version \ {source} /\ atPin' \in BOOLEAN
    /\ UNCHANGED <<sub, tree, gitlink, built, hooks, link, driver, records>>

FreshClone ==
    /\ sub = [s \in Submodule |-> "bare"] /\ tree = [w \in Worktree |-> "absent"] /\ gitlink = {}
    /\ atPin = FALSE /\ built = [tree |-> None, root |-> None]
    /\ hooks = [s \in Surface |-> [script |-> FALSE, bin |-> None]]
    /\ link = [k \in Skill |-> "none"] /\ driver = FALSE

\* A clone that is complete: what is built is the pinned revision.
SetUp ==
    /\ sub = [s \in Submodule |-> "init"] /\ tree = [w \in Worktree |-> "there"] /\ gitlink = Component
    /\ atPin = TRUE /\ built = [tree |-> source, root |-> None]
    /\ hooks = [s \in Surface |-> [script |-> TRUE, bin |-> source]]
    /\ link = [k \in Skill |-> Best(k)] /\ driver = TRUE

Init ==
    /\ source = CHOOSE v \in Version : TRUE
    /\ FreshClone \/ SetUp
    /\ envhash = << >> /\ seen = Present
    /\ boot = NoRun /\ edits = 0

Next ==
    \/ bootstrap \/ read_step \/ InitSubmodules \/ Materialize \/ link_skills
    \/ BuildArtifact \/ InstallHooks \/ InstallRederiver \/ VerifySetup \/ Kill
    \/ software_materialize \/ software_install_hooks
    \/ Damage \/ Teardown \/ Build \/ Repin
Spec == Init /\ [][Next]_vars
=============================================================================
