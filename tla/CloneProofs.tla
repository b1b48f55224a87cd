----------------------------- MODULE CloneProofs -----------------------------
(***************************************************************************)
(* The safety of bootstrap and of the two readers of a clone, for every    *)
(* recipe, every set of submodules, skills and binaries, with failures and *)
(* kills at every step and the operator at work at any time.               *)
(***************************************************************************)
EXTENDS CloneProperties, FiniteSetTheorems, WellFoundedInduction, TLAPS

(* The clone and the running bootstrap. *)

Built == Version \cup {None}
Binary == Built \cup {Torn}
Code == {"none", "failed", "killed", "complete", "incomplete"}

CloneTyped ==
    /\ sub \in [Submodule -> {"bare", "init", "gutted"}]
    /\ tree \in [Worktree -> {"absent", "there", "hollow"}]
    /\ gitlink \subseteq Component
    /\ source \in Version /\ atPin \in BOOLEAN /\ driver \in BOOLEAN
    /\ built \in [tree : Built, root : Built]
    /\ hooks \in [Surface -> [script : BOOLEAN, bin : Binary]]
BootTyped ==
    /\ boot \in [at : 0 .. 7, calm : BOOLEAN, complete : BOOLEAN, code : Code]
    /\ boot.at # 0 => boot.code = "none"

\* What a record of the binaries says is so of what was there.
Says(hash, present) ==
    \A v \in Version : \A n : <<v, n>> \in hash =>
        \E D \in SUBSET Surface : Cardinality({s \in D : present.bins[s] = v}) = n

\* The fingerprint says nothing of the binaries that was not so when it was written.
Told ==
    /\ seen.trees \subseteq Worktree /\ seen.subs \subseteq Submodule
    /\ seen.bins \in [Surface -> Binary]
    /\ envhash # << >> => Says(parse_envhash.hook_binary, seen)

\* What each step of bootstrap leaves behind when it was made or found made.
SubsMade == \A s \in Submodule : submodule_status(s)
TreesMade == \A w \in Worktree : is_dir(w)
LinksMade == \A k \in skill_sources : link[k] = Best(k)
Ready == is_git_worktree(Canonical(Provider)) /\ atPin /\ gate_asset # None
HooksMade == Ready => \A s \in hook_targets : Gated(s) /\ hooks[s].bin = gate_asset
DriverMade == rung_declared /\ ~driver => ~rederiver_worktree
Recorded == envhash = << envhash_dimensions(Component) >>

\* An undisturbed run is past its n-th step.
Passed(n) == boot.calm /\ (boot.at > n \/ (Idle /\ boot.code \in {"complete", "incomplete"}))
Progress ==
    /\ Passed(1) => SubsMade
    /\ Passed(2) => TreesMade
    /\ Passed(3) => LinksMade
    /\ Passed(5) => HooksMade /\ Recorded
    /\ Passed(6) => DriverMade

\* An undisturbed run that began complete is in a clone that is.
Settled == boot.calm /\ boot.complete => verify_setup

IInv == CloneTyped /\ BootTyped /\ Told /\ Progress /\ Settled

\* The step of SecondRunChangesNothing.
Untouched == boot'.calm /\ boot'.complete => Present' = Present /\ UNCHANGED <<sub, tree, link, driver>>

-----------------------------------------------------------------------------
(* What the gate asks. *)

Whole ==
    /\ \A s \in Submodule : populated(s)
    /\ \A w \in Worktree : is_git_worktree(w)
    /\ built.tree # None
    /\ LinksMade
    /\ \A s \in hook_targets : Gated(s) /\ hook_binary_current(s)
    /\ ~rung_declared \/ driver

\* The gaps, by kind.
LEMMA GapsAre ==
    \A g : g \in setup_requirements <=>
        \/ \E s \in Submodule : ~populated(s) /\ g = Gap("submodule", s)
        \/ \E w \in Worktree : ~is_git_worktree(w) /\ g = Gap("worktree", w)
        \/ built.tree = None /\ g = Gap("artifact", Provider)
        \/ \E k \in skill_sources : link[k] # Best(k) /\ g = Gap("skill", k)
        \/ \E s \in hook_targets : ~Gated(s) /\ g = Gap("hook", s)
        \/ \E w \in Worktree : ~is_dir(w) /\ g = Gap("hook", w)
        \/ \E s \in hook_targets : ~hook_binary_current(s) /\ g = Gap("binary", s)
        \/ rung_declared /\ ~driver /\ g = Gap("driver", Deriver)
BY DEF setup_requirements

\* The gate is silent where nothing is missing.
LEMMA GateIsWhole == verify_setup <=> Whole
<1>1. verify_setup <=> \A g : g \notin setup_requirements
  BY DEF verify_setup
<1>2. \A w : is_git_worktree(w) => is_dir(w)
  BY DEF is_git_worktree, is_dir
<1>3. ASSUME Whole PROVE verify_setup
  BY <1>1, <1>2, <1>3, GapsAre DEF Whole, LinksMade
<1>4. ASSUME verify_setup PROVE Whole
  <2>1. \A s \in Submodule : populated(s)
    BY <1>1, <1>4, GapsAre
  <2>2. \A w \in Worktree : is_git_worktree(w)
    BY <1>1, <1>4, GapsAre
  <2>3. built.tree # None /\ (~rung_declared \/ driver)
    BY <1>1, <1>4, GapsAre
  <2>4. LinksMade
    BY <1>1, <1>4, GapsAre DEF LinksMade
  <2>5. \A s \in hook_targets : Gated(s) /\ hook_binary_current(s)
    BY <1>1, <1>4, GapsAre
  <2> QED BY <2>1, <2>2, <2>3, <2>4, <2>5 DEF Whole
<1> QED BY <1>3, <1>4

\* A step that is satisfied has nothing of its kind to make.
LEMMA SatisfiedIsMade ==
    /\ satisfied("submodules") => SubsMade
    /\ satisfied("materialize") => TreesMade
    /\ satisfied("skills") => LinksMade
    /\ satisfied("rederiver") => DriverMade
    /\ ~satisfied("rederiver") => rung_declared /\ ~driver
    /\ ~satisfied("hooks") /\ ~satisfied("verify")
<1>1. /\ \A kind, target : Gap(kind, target) \in setup_requirements => unmet({kind})
      /\ \A kind, target : Gap(kind, target).kind = kind
  BY DEF unmet, Gap
<1>2. ASSUME satisfied("submodules") PROVE SubsMade
  <2>1. ~unmet({"submodule"})
    BY <1>2 DEF satisfied
  <2>2. \A s \in Submodule : populated(s)
    BY <1>1, <2>1, GapsAre
  <2> QED BY <2>2 DEF SubsMade, populated
<1>3. ASSUME satisfied("materialize") PROVE TreesMade
  <2>1. ~unmet({"worktree"})
    BY <1>3 DEF satisfied
  <2>2. \A w \in Worktree : is_git_worktree(w)
    BY <1>1, <2>1, GapsAre
  <2> QED BY <2>2 DEF TreesMade, is_git_worktree, is_dir
<1>4. ASSUME satisfied("skills") PROVE LinksMade
  <2>1. ~unmet({"skill"})
    BY <1>4 DEF satisfied
  <2> QED BY <1>1, <2>1, GapsAre DEF LinksMade
<1>5. satisfied("rederiver") <=> ~(rung_declared /\ ~driver)
  <2>1. satisfied("rederiver") <=> ~unmet({"driver"})
    BY DEF satisfied
  <2>2. unmet({"driver"}) <=> rung_declared /\ ~driver
    <3>1. ASSUME rung_declared, ~driver PROVE unmet({"driver"})
      BY <1>1, <3>1, GapsAre
    <3>2. ASSUME unmet({"driver"}) PROVE rung_declared /\ ~driver
      <4>1. PICK g \in setup_requirements : g.kind = "driver"
        BY <3>2 DEF unmet
      <4> QED BY <1>1, <4>1, GapsAre
    <3> QED BY <3>1, <3>2
  <2> QED BY <2>1, <2>2
<1>6. ~satisfied("hooks") /\ ~satisfied("verify")
  BY DEF satisfied
<1> QED BY <1>2, <1>3, <1>4, <1>5, <1>6 DEF DriverMade

\* In a complete clone nothing is owed but the hooks, which are installed every time.
LEMMA NothingOwed ==
    ASSUME Settled, boot.calm, boot.complete,
           NEW kind \in {"submodules", "materialize", "skills", "build", "rederiver"}
    PROVE  ~Owes(kind)
<1>1. setup_requirements = {}
  BY DEF Settled, verify_setup
<1>2. \A kinds : ~unmet(kinds)
  BY <1>1 DEF unmet
<1>3. satisfied(kind)
  BY <1>2 DEF satisfied
<1> QED BY <1>3 DEF Owes

-----------------------------------------------------------------------------
(* What is the same where its sources are. *)

\* The skills offered, and by what, depend on submodules and worktrees alone.
LEMMA SameOffers ==
    ASSUME UNCHANGED <<sub, tree>>
    PROVE  /\ \A k : Sources(k)' = Sources(k) /\ Best(k)' = Best(k)
           /\ skill_sources' = skill_sources
           /\ \A s : populated(s)' <=> populated(s)
           /\ \A w : (is_git_worktree(w)' <=> is_git_worktree(w)) /\ (is_dir(w)' <=> is_dir(w))
<1>1. \A s : populated(s)' <=> populated(s)
  BY DEF populated, submodule_status
<1>2. \A w : (is_git_worktree(w)' <=> is_git_worktree(w)) /\ (is_dir(w)' <=> is_dir(w))
  BY DEF is_git_worktree, is_dir
<1>3. \A s : Offering(s)' <=> Offering(s)
  BY <1>1, <1>2 DEF Offering, Canonical
<1>4. \A k : Sources(k)' = Sources(k)
  BY <1>3 DEF Sources
<1>5. skill_sources' = skill_sources
  BY <1>4 DEF skill_sources
<1> QED BY <1>1, <1>2, <1>4, <1>5 DEF Best

\* The hooks directories depend on the worktrees and the gitdir links alone.
LEMMA SameTargets ==
    ASSUME UNCHANGED <<tree, gitlink>>
    PROVE  /\ hook_targets' = hook_targets
           /\ rung_declared' <=> rung_declared
           /\ rederiver_worktree' <=> rederiver_worktree
           /\ \A comps : worktree_paths(comps)' = worktree_paths(comps)
<1>1. \A w : (is_git_worktree(w)' <=> is_git_worktree(w)) /\ (is_dir(w)' <=> is_dir(w))
  BY DEF is_git_worktree, is_dir
<1>2. \A c : git_hooks_dir(c)' = git_hooks_dir(c)
  BY <1>1 DEF git_hooks_dir
<1>3. hook_targets' = hook_targets
  BY <1>2 DEF hook_targets
<1> QED BY <1>1, <1>3 DEF rung_declared, rederiver_worktree, worktree_paths, Canonical

\* The fingerprint's dimensions depend on submodules, worktrees and hooks.
LEMMA SameDimensions ==
    ASSUME UNCHANGED <<sub, tree, gitlink, hooks>>, NEW comps
    PROVE  envhash_dimensions(comps)' = envhash_dimensions(comps)
<1>1. submodule_state' = submodule_state
  BY DEF submodule_state, submodule_status
<1>2. worktree_paths(comps)' = worktree_paths(comps) /\ hook_targets' = hook_targets
  BY SameTargets
<1>3. hook_binary_hash(comps)' = hook_binary_hash(comps)
  BY <1>2 DEF hook_binary_hash
<1> QED BY <1>1, <1>2, <1>3 DEF envhash_dimensions

\* Where nothing of the clone changed, what was made is made still.
LEMMA SameMade ==
    ASSUME UNCHANGED <<clone, envhash>>
    PROVE  /\ (SubsMade' <=> SubsMade) /\ (TreesMade' <=> TreesMade)
           /\ LinksMade' <=> LinksMade
           /\ HooksMade' <=> HooksMade
           /\ DriverMade' <=> DriverMade
           /\ Recorded' <=> Recorded
           /\ Whole' <=> Whole
<1>1. UNCHANGED <<sub, tree, gitlink, source, atPin, built, hooks, link, driver>>
  BY DEF clone
<1>2. (SubsMade' <=> SubsMade) /\ (TreesMade' <=> TreesMade)
  BY <1>1, SameOffers DEF SubsMade, TreesMade, submodule_status
<1>3. LinksMade' <=> LinksMade
  BY <1>1, SameOffers DEF LinksMade
<1>4. gate_asset' = gate_asset
  BY <1>1 DEF gate_asset
<1>5. \A s : (Gated(s)' <=> Gated(s)) /\ (hook_binary_current(s)' <=> hook_binary_current(s))
  BY <1>1, <1>4 DEF Gated, hook_binary_current
<1>6. HooksMade' <=> HooksMade
  BY <1>1, <1>4, <1>5, SameOffers, SameTargets DEF HooksMade, Ready, Canonical
<1>7. DriverMade' <=> DriverMade
  BY <1>1, SameTargets DEF DriverMade
<1>8. Recorded' <=> Recorded
  BY <1>1, SameDimensions DEF Recorded
<1>9. Whole' <=> Whole
  BY <1>1, <1>3, <1>5, SameOffers, SameTargets DEF Whole
<1> QED BY <1>2, <1>3, <1>6, <1>7, <1>8, <1>9

\* And the gate says the same.
LEMMA GateIsWholeNext == (verify_setup <=> Whole)'
<1>1. verify_setup <=> Whole
  BY GateIsWhole
<1> QED BY <1>1, PTL

\* The fingerprint counts what is in the hooks directories it looks at.
LEMMA HashSays == \A comps : Says(hook_binary_hash(comps), Present)
<1> SUFFICES ASSUME NEW comps, NEW v \in Version, NEW n, <<v, n>> \in hook_binary_hash(comps)
             PROVE  \E D \in SUBSET Surface : Cardinality({s \in D : Present.bins[s] = v}) = n
  BY DEF Says
<1> DEFINE D == ((comps \cup {Host}) \cap hook_targets) \cap Surface
<1>1. hook_targets \subseteq Surface
  BY DEF hook_targets, git_hooks_dir, Surface
<1>2. D = (comps \cup {Host}) \cap hook_targets
  BY <1>1
<1>3. Cardinality({s \in D : hooks[s].bin = v}) = n
  <2>1. Provider \in comps
    BY DEF hook_binary_hash
  <2> HIDE DEF D
  <2> QED BY <1>2, <2>1 DEF hook_binary_hash
<1>4. {s \in D : Present.bins[s] = v} = {s \in D : hooks[s].bin = v}
  BY DEF Present
<1> HIDE DEF D
<1>5. D \in SUBSET Surface
  BY DEF D
<1> QED BY <1>3, <1>4, <1>5

\* So too of what is there after a step.
LEMMA HashSaysNext == (\A comps : Says(hook_binary_hash(comps), Present))'
<1>1. \A comps : Says(hook_binary_hash(comps), Present)
  BY HashSays
<1> QED BY <1>1, PTL

\* What is there is of the recipe.
LEMMA PresentIs ==
    CloneTyped => /\ Present.trees \subseteq Worktree /\ Present.subs \subseteq Submodule
                  /\ Present.bins \in [Surface -> Binary]
BY DEF Present, CloneTyped

\* So too after a step.
LEMMA PresentIsNext ==
    (CloneTyped => /\ Present.trees \subseteq Worktree /\ Present.subs \subseteq Submodule
                   /\ Present.bins \in [Surface -> Binary])'
<1>1. CloneTyped => /\ Present.trees \subseteq Worktree /\ Present.subs \subseteq Submodule
                    /\ Present.bins \in [Surface -> Binary]
  BY PresentIs
<1> QED BY <1>1, PTL

\* A fingerprint that is written tells what is there.
LEMMA WriteTells ==
    ASSUME NEW comps, write_envhash(comps), CloneTyped'
    PROVE  Told'
<1>1. envhash' = << envhash_dimensions(comps)' >> /\ seen' = Present'
  BY DEF write_envhash, envhash_text
<1>2. parse_envhash' = envhash_dimensions(comps)'
  BY <1>1 DEF parse_envhash
<1>3. parse_envhash'.hook_binary = hook_binary_hash(comps)'
  BY <1>2 DEF envhash_dimensions
<1>4. Says(hook_binary_hash(comps), Present)'
  BY HashSaysNext
<1>5. /\ Present'.trees \subseteq Worktree /\ Present'.subs \subseteq Submodule
      /\ Present'.bins \in [Surface -> Binary]
  BY PresentIsNext
<1>6. Says(parse_envhash'.hook_binary, Present')
  BY <1>3, <1>4 DEF Says
<1>7. Says(parse_envhash'.hook_binary, seen')
  BY <1>1, <1>6
<1> QED BY <1>1, <1>5, <1>7 DEF Told, Says

\* What is recorded is told as before where no record is written.
LEMMA SameTold ==
    ASSUME Told, UNCHANGED records
    PROVE  Told'
<1>1. UNCHANGED <<envhash, seen>>
  BY DEF records
<1>2. parse_envhash' = parse_envhash
  BY <1>1 DEF parse_envhash
<1>3. /\ seen'.trees \subseteq Worktree /\ seen'.subs \subseteq Submodule
      /\ seen'.bins \in [Surface -> Binary]
  BY <1>1 DEF Told
<1>4. envhash' # << >> => Says(parse_envhash'.hook_binary, seen')
  BY <1>1, <1>2 DEF Told
<1> QED BY <1>3, <1>4 DEF Told, Says

\* What is there depends on submodules, worktrees and hooks.
LEMMA SamePresent ==
    ASSUME UNCHANGED <<sub, tree, hooks>>
    PROVE  Present' = Present
BY DEF Present, populated, submodule_status

-----------------------------------------------------------------------------
(* The running bootstrap. *)

\* Where the run is, by the step it is at.
LEMMA AtIs ==
    ASSUME BootTyped
    PROVE  /\ At("submodules") <=> boot.at = 1
           /\ At("materialize") <=> boot.at = 2
           /\ At("skills") <=> boot.at = 3
           /\ At("build") <=> boot.at = 4
           /\ At("hooks") <=> boot.at = 5
           /\ At("rederiver") <=> boot.at = 6
           /\ At("verify") <=> boot.at = 7
<1>1. boot.at \in 0 .. 7
  BY DEF BootTyped
<1>2. boot.at \in {0, 1, 2, 3, 4, 5, 6, 7}
  BY <1>1
<1> QED BY <1>2 DEF At, Idle, SEQUENCE

\* A step that is done, well or not, is one more that is past.
LEMMA Onward ==
    ASSUME BootTyped, ~Idle, boot.at # 7, NEW well \in BOOLEAN, Continue(well)
    PROVE  /\ BootTyped' /\ boot'.at = boot.at + 1 /\ boot'.complete = boot.complete
           /\ boot'.calm => boot.calm /\ well
           /\ \A n \in 1 .. 6 : Passed(n)' => Passed(n) \/ boot.at = n
<1>1. boot.at \in 1 .. 6 /\ boot.code = "none"
  BY DEF BootTyped, Idle
<1>2. boot' = [at |-> boot.at + 1, calm |-> boot.calm /\ well,
               complete |-> boot.complete, code |-> boot.code]
  BY DEF BootTyped, Continue
<1>3. boot'.at = boot.at + 1 /\ boot'.complete = boot.complete /\ boot'.code = "none"
  BY <1>1, <1>2
<1>4. boot'.calm => boot.calm /\ well
  BY <1>2
<1>5. boot' \in [at : 0 .. 7, calm : BOOLEAN, complete : BOOLEAN, code : Code]
  <2>1. boot.at + 1 \in 0 .. 7 /\ (boot.calm /\ well) \in BOOLEAN
        /\ boot.complete \in BOOLEAN /\ boot.code \in Code
    BY <1>1 DEF BootTyped
  <2> QED BY <1>2, <2>1
<1>6. BootTyped'
  BY <1>3, <1>5 DEF BootTyped
<1>7. ASSUME NEW n \in 1 .. 6, Passed(n)' PROVE Passed(n) \/ boot.at = n
  <2>1. boot'.calm /\ boot'.at > n
    BY <1>1, <1>3, <1>7 DEF Passed, Idle
  <2> QED BY <1>1, <1>3, <1>4, <2>1 DEF Passed
<1> QED BY <1>3, <1>4, <1>6, <1>7

\* A run that ends short of its verdict is past nothing.
LEMMA Ended ==
    ASSUME BootTyped, NEW code \in Code, ExitWith(code)
    PROVE  /\ BootTyped' /\ boot'.at = 0 /\ boot'.code = code
           /\ boot'.calm = boot.calm /\ boot'.complete = boot.complete
           /\ code \notin {"complete", "incomplete"} => \A n \in 1 .. 6 : ~Passed(n)'
<1>1. boot' = [at |-> 0, calm |-> boot.calm, complete |-> boot.complete, code |-> code]
  BY DEF BootTyped, ExitWith
<1>2. boot'.at = 0 /\ boot'.code = code /\ boot'.calm = boot.calm /\ boot'.complete = boot.complete
  BY <1>1
<1>3. boot' \in [at : 0 .. 7, calm : BOOLEAN, complete : BOOLEAN, code : Code]
  BY <1>1 DEF BootTyped
<1>4. BootTyped'
  BY <1>2, <1>3 DEF BootTyped
<1> QED BY <1>2, <1>4 DEF Passed

\* What is done beside the run is told to it: it is past nothing and owes nothing.
LEMMA Disturbed ==
    ASSUME BootTyped, Apart
    PROVE  BootTyped' /\ Progress' /\ Settled' /\ Untouched
<1>1. boot' = [at |-> boot.at, calm |-> FALSE, complete |-> boot.complete, code |-> boot.code]
  BY DEF BootTyped, Apart
<1>2. boot'.at = boot.at /\ ~boot'.calm /\ boot'.code = boot.code
  BY <1>1
<1>3. boot' \in [at : 0 .. 7, calm : BOOLEAN, complete : BOOLEAN, code : Code]
  BY <1>1 DEF BootTyped
<1>4. BootTyped'
  BY <1>2, <1>3 DEF BootTyped
<1> QED BY <1>2, <1>4 DEF Progress, Passed, Settled, Untouched

-----------------------------------------------------------------------------
(* The steps of bootstrap that leave the clone alone. *)

\* The clone is typed, told and untouched where nothing of it changed.
LEMMA Standing ==
    ASSUME IInv, UNCHANGED <<clone, records>>
    PROVE  /\ CloneTyped' /\ Told' /\ Untouched
           /\ UNCHANGED <<clone, envhash>>
<1>1. UNCHANGED <<sub, tree, gitlink, source, atPin, built, hooks, link, driver>> /\ envhash' = envhash
  BY DEF clone, records
<1>2. CloneTyped'
  BY <1>1 DEF IInv, CloneTyped
<1>3. Told'
  BY SameTold DEF IInv
<1>4. Untouched
  BY <1>1, SamePresent DEF Untouched
<1> QED BY <1>1, <1>2, <1>3, <1>4

\* A run begins past nothing, and complete where the gate is silent.
LEMMA BootstrapKeeps ==
    ASSUME IInv, bootstrap
    PROVE  IInv' /\ Untouched
<1>1. CloneTyped' /\ Told' /\ Untouched /\ UNCHANGED <<clone, envhash>>
  BY Standing DEF bootstrap
<1>2. boot' = [at |-> 1, calm |-> TRUE, complete |-> verify_setup, code |-> "none"]
  BY DEF bootstrap
<1>3. boot'.at = 1 /\ boot'.complete = verify_setup /\ boot'.code = "none"
  BY <1>2
<1>4. BootTyped'
  <2>1. verify_setup \in BOOLEAN
    BY DEF verify_setup
  <2>2. boot' \in [at : 0 .. 7, calm : BOOLEAN, complete : BOOLEAN, code : Code]
    BY <1>2, <2>1 DEF Code
  <2> QED BY <1>3, <2>2 DEF BootTyped
<1>5. Progress'
  BY <1>3 DEF Progress, Passed, Idle
<1>6. Settled'
  BY <1>1, <1>3, SameMade, GateIsWhole, GateIsWholeNext DEF Settled
<1> QED BY <1>1, <1>4, <1>5, <1>6 DEF IInv

\* What an undisturbed run had made it has still, and its clone is as complete.
LEMMA StandingOn ==
    ASSUME IInv, UNCHANGED <<clone, records>>, BootTyped',
           boot'.calm => boot.calm, boot'.complete = boot.complete,
           \A n \in 1 .. 6 : Passed(n)' =>
               \/ Passed(n)
               \/ n \in {1, 2, 3, 4, 6} /\ (n = 1 => SubsMade) /\ (n = 2 => TreesMade)
                     /\ (n = 3 => LinksMade) /\ (n = 6 => DriverMade)
    PROVE  IInv' /\ Untouched
<1>1. CloneTyped' /\ Told' /\ Untouched /\ UNCHANGED <<clone, envhash>>
  BY Standing
<1>2. /\ Passed(1)' => SubsMade
      /\ Passed(2)' => TreesMade
      /\ Passed(3)' => LinksMade
      /\ Passed(5)' => HooksMade /\ Recorded
      /\ Passed(6)' => DriverMade
  BY DEF IInv, Progress
<1>3. Progress'
  BY <1>1, <1>2, SameMade DEF Progress
<1>4. Settled'
  BY <1>1, SameMade, GateIsWhole, GateIsWholeNext DEF IInv, Settled
<1> QED BY <1>1, <1>3, <1>4 DEF IInv

\* A step found made.
LEMMA ReadKeeps ==
    ASSUME IInv, read_step
    PROVE  IInv' /\ Untouched
<1>1. BootTyped /\ boot.at \in 1 .. 7 /\ ~Idle
  BY DEF IInv, BootTyped, read_step, Idle
<1>2. satisfied(SEQUENCE[boot.at]) /\ Continue(TRUE) /\ UNCHANGED <<clone, records>>
  BY DEF read_step
<1>3. /\ boot.at = 1 => SubsMade
      /\ boot.at = 2 => TreesMade
      /\ boot.at = 3 => LinksMade
      /\ boot.at = 6 => DriverMade
      /\ boot.at \notin {5, 7}
  BY <1>2, SatisfiedIsMade DEF SEQUENCE
<1>4. /\ BootTyped' /\ boot'.complete = boot.complete /\ (boot'.calm => boot.calm)
      /\ \A n \in 1 .. 6 : Passed(n)' => Passed(n) \/ boot.at = n
  BY <1>1, <1>2, <1>3, Onward
<1>5. \A n \in 1 .. 6 : Passed(n)' =>
               \/ Passed(n)
               \/ n \in {1, 2, 3, 4, 6} /\ (n = 1 => SubsMade) /\ (n = 2 => TreesMade)
                     /\ (n = 3 => LinksMade) /\ (n = 6 => DriverMade)
  BY <1>3, <1>4
<1> QED BY <1>2, <1>4, <1>5, StandingOn

\* The build is left to the operator.
LEMMA BuildArtifactKeeps ==
    ASSUME IInv, BuildArtifact
    PROVE  IInv' /\ Untouched
<1>1. BootTyped /\ boot.at = 4 /\ ~Idle
  BY AtIs DEF IInv, BuildArtifact, Owes, At
<1>2. Continue(TRUE) /\ UNCHANGED <<clone, records>>
  BY DEF BuildArtifact
<1>0. boot.at # 7
  BY <1>1
<1>3. /\ BootTyped' /\ boot'.complete = boot.complete /\ (boot'.calm => boot.calm)
      /\ \A n \in 1 .. 6 : Passed(n)' => Passed(n) \/ boot.at = n
  BY <1>0, <1>1, <1>2, Onward
<1>4. \A n \in 1 .. 6 : Passed(n)' =>
               \/ Passed(n)
               \/ n \in {1, 2, 3, 4, 6} /\ (n = 1 => SubsMade) /\ (n = 2 => TreesMade)
                     /\ (n = 3 => LinksMade) /\ (n = 6 => DriverMade)
  BY <1>1, <1>3
<1> QED BY <1>2, <1>3, <1>4, StandingOn

\* The verdict of a run that went through all of its steps.
LEMMA VerifySetupKeeps ==
    ASSUME IInv, VerifySetup
    PROVE  IInv' /\ Untouched
<1>1. BootTyped /\ boot.at = 7
  BY AtIs DEF IInv, VerifySetup
<1>2. PICK code \in Code : ExitWith(code)
  BY DEF VerifySetup, Code
<1>3. BootTyped' /\ boot'.calm = boot.calm /\ boot'.complete = boot.complete
  BY <1>1, <1>2, Ended
<1>4. \A n \in 1 .. 6 : Passed(n)' => Passed(n)
  BY <1>1, <1>3 DEF Passed
<1>5. UNCHANGED <<clone, records>>
  BY DEF VerifySetup
<1>6. \A n \in 1 .. 6 : Passed(n)' =>
               \/ Passed(n)
               \/ n \in {1, 2, 3, 4, 6} /\ (n = 1 => SubsMade) /\ (n = 2 => TreesMade)
                     /\ (n = 3 => LinksMade) /\ (n = 6 => DriverMade)
  BY <1>4
<1> QED BY <1>3, <1>5, <1>6, StandingOn

-----------------------------------------------------------------------------
(* The steps of bootstrap that change the clone. *)

\* Submodules are initialized, all that can be or some before a failure.
LEMMA InitSubmodulesKeeps ==
    ASSUME IInv, InitSubmodules
    PROVE  IInv' /\ Untouched
<1>1. BootTyped /\ boot.at = 1 /\ ~Idle /\ boot.at # 7
  BY AtIs DEF IInv, InitSubmodules, Owes, At
<1>2. ~(boot.calm /\ boot.complete)
  BY NothingOwed DEF IInv, InitSubmodules
<1>3. PICK some \in SUBSET {s \in Submodule : sub[s] = "bare"}, ok \in BOOLEAN :
          /\ sub' = [s \in Submodule |-> IF s \in some \/ (ok /\ sub[s] = "bare") THEN "init" ELSE sub[s]]
          /\ IF ok THEN some = {} /\ Continue(TRUE) ELSE ExitWith("failed")
  BY DEF InitSubmodules
<1>4. UNCHANGED <<tree, gitlink, source, atPin, built, hooks, link, driver, records>>
  BY DEF InitSubmodules
<1>5. CloneTyped'
  <2>1. sub' \in [Submodule -> {"bare", "init", "gutted"}]
    BY <1>3 DEF IInv, CloneTyped
  <2> QED BY <1>4, <2>1 DEF IInv, CloneTyped
<1>6. Told'
  BY <1>4, SameTold DEF IInv
<1>7. CASE ok
  <2>1. Continue(TRUE)
    BY <1>3, <1>7
  <2>0. /\ BootTyped' /\ boot'.at = boot.at + 1 /\ boot'.complete = boot.complete
        /\ boot'.calm => boot.calm
    BY <1>1, <2>1, Onward
  <2>2. BootTyped' /\ boot'.at = 2 /\ boot'.complete = boot.complete /\ (boot'.calm => boot.calm)
    BY <1>1, <2>0
  <2>3. SubsMade'
    <3>1. \A s \in Submodule : sub'[s] # "bare"
      BY <1>3, <1>7
    <3> QED BY <3>1 DEF SubsMade, submodule_status
  <2>4. Progress'
    BY <2>2, <2>3 DEF Progress, Passed, Idle
  <2> QED BY <1>2, <1>5, <1>6, <2>2, <2>4 DEF IInv, Settled, Untouched
<1>8. CASE ~ok
  <2>1. ExitWith("failed")
    BY <1>3, <1>8
  <2>2. /\ BootTyped' /\ boot'.calm = boot.calm /\ boot'.complete = boot.complete
        /\ \A n \in 1 .. 6 : ~Passed(n)'
    BY <1>1, <2>1, Ended DEF Code
  <2>3. Progress'
    BY <2>2 DEF Progress
  <2> QED BY <1>2, <1>5, <1>6, <2>2, <2>3 DEF IInv, Settled, Untouched
<1> QED BY <1>7, <1>8

\* Worktrees are added to those that were there.
LEMMA AddedTyped ==
    ASSUME CloneTyped, NEW comps \in SUBSET Component, NEW n, NEW some, Added(comps, n, some)
    PROVE  CloneTyped' /\ UNCHANGED <<sub, source, built, hooks, link, driver>>
<1>1. UNCHANGED <<sub, source, built, hooks, link, driver>>
  BY DEF Added
<1>2. tree' \in [Worktree -> {"absent", "there", "hollow"}]
  BY DEF Added, CloneTyped
<1>3. atPin' \in BOOLEAN
  BY DEF Added, CloneTyped
<1>4. gitlink' \subseteq Component
  BY DEF Added, CloneTyped
<1> QED BY <1>1, <1>2, <1>3, <1>4 DEF CloneTyped

\* Every worktree is some component's.
LEMMA AbsentAre == Absent(Component) = {w \in Worktree : tree[w] = "absent"}
BY DEF Absent, Worktree

\* Worktrees are added, all that are absent or some before an abort.
LEMMA MaterializeKeeps ==
    ASSUME IInv, Materialize
    PROVE  IInv' /\ Untouched
<1>1. BootTyped /\ boot.at = 2 /\ ~Idle /\ boot.at # 7
  BY AtIs DEF IInv, Materialize, Owes, At
<1>2. ~(boot.calm /\ boot.complete)
  BY NothingOwed DEF IInv, Materialize
<1>3. PICK n \in 0 .. Len(Recipe), some \in SUBSET Absent(Component) :
          /\ Added(Component, n, some)
          /\ IF n = Len(Recipe) /\ some = Absent(Component)
             THEN Continue(TRUE) ELSE ExitWith("failed")
  BY DEF Materialize
<1>4. CloneTyped' /\ sub' = sub
  BY <1>3, AddedTyped DEF IInv
<1>5. Told'
  BY <1>4, WriteTells DEF Materialize
<1>6. CASE n = Len(Recipe) /\ some = Absent(Component)
  <2>1. Continue(TRUE)
    BY <1>3, <1>6
  <2>0. /\ BootTyped' /\ boot'.at = boot.at + 1 /\ boot'.complete = boot.complete
        /\ boot'.calm => boot.calm
    BY <1>1, <2>1, Onward
  <2>2. BootTyped' /\ boot'.at = 3 /\ boot'.complete = boot.complete /\ (boot'.calm => boot.calm)
    BY <1>1, <2>0
  <2>3. Passed(1)' => SubsMade'
    <3>1. Passed(1)' => Passed(1)
      BY <1>1, <2>2 DEF Passed, Idle
    <3> QED BY <1>4, <3>1 DEF IInv, Progress, SubsMade, submodule_status
  <2>4. TreesMade'
    <3>1. \A w \in Worktree : tree'[w] # "absent"
      BY <1>3, <1>6, AbsentAre DEF Added
    <3> QED BY <3>1 DEF TreesMade, is_dir
  <2>5. Progress'
    BY <2>2, <2>3, <2>4 DEF Progress, Passed, Idle
  <2> QED BY <1>2, <1>4, <1>5, <2>2, <2>5 DEF IInv, Settled, Untouched
<1>7. CASE ~(n = Len(Recipe) /\ some = Absent(Component))
  <2>1. ExitWith("failed")
    BY <1>3, <1>7
  <2>2. /\ BootTyped' /\ boot'.calm = boot.calm /\ boot'.complete = boot.complete
        /\ \A s \in 1 .. 6 : ~Passed(s)'
    BY <1>1, <2>1, Ended DEF Code
  <2>3. Progress'
    BY <2>2 DEF Progress
  <2> QED BY <1>2, <1>4, <1>5, <2>2, <2>3 DEF IInv, Settled, Untouched
<1> QED BY <1>6, <1>7

\* Skills are linked; what stands in the way of one fails the step.
LEMMA LinkSkillsKeeps ==
    ASSUME IInv, link_skills
    PROVE  IInv' /\ Untouched
<1>1. BootTyped /\ boot.at = 3 /\ ~Idle /\ boot.at # 7
  BY AtIs DEF IInv, link_skills, Owes, At
<1>2. ~(boot.calm /\ boot.complete)
  BY NothingOwed DEF IInv, link_skills
<1>3. UNCHANGED <<sub, tree, gitlink, source, atPin, built, hooks, driver, records>>
  BY DEF link_skills
<1>4. \/ Continue(TRUE) /\ \A k \in skill_sources : link'[k] = Best(k)
      \/ ExitWith("failed")
  BY DEF link_skills
<1>5. CloneTyped'
  BY <1>3 DEF IInv, CloneTyped
<1>6. Told'
  BY <1>3, SameTold DEF IInv
<1>7. CASE Continue(TRUE) /\ \A k \in skill_sources : link'[k] = Best(k)
  <2>0. /\ BootTyped' /\ boot'.at = boot.at + 1 /\ boot'.complete = boot.complete
        /\ boot'.calm => boot.calm
    BY <1>1, <1>7, Onward
  <2>1. BootTyped' /\ boot'.at = 4 /\ boot'.complete = boot.complete /\ (boot'.calm => boot.calm)
    BY <1>1, <2>0
  <2>2. LinksMade'
    BY <1>3, <1>7, SameOffers DEF LinksMade
  <2>3. (Passed(1)' => SubsMade') /\ (Passed(2)' => TreesMade')
    <3>1. (Passed(1)' => Passed(1)) /\ (Passed(2)' => Passed(2))
      BY <1>1, <2>1 DEF Passed, Idle
    <3>2. (SubsMade => SubsMade') /\ (TreesMade => TreesMade')
      BY <1>3 DEF SubsMade, TreesMade, submodule_status, is_dir
    <3> QED BY <3>1, <3>2 DEF IInv, Progress
  <2>4. Progress'
    BY <2>1, <2>2, <2>3 DEF Progress, Passed, Idle
  <2> QED BY <1>2, <1>5, <1>6, <2>1, <2>4 DEF IInv, Settled, Untouched
<1>8. CASE ExitWith("failed")
  <2>1. /\ BootTyped' /\ boot'.calm = boot.calm /\ boot'.complete = boot.complete
        /\ \A n \in 1 .. 6 : ~Passed(n)'
    BY <1>1, <1>8, Ended DEF Code
  <2>2. Progress'
    BY <2>1 DEF Progress
  <2> QED BY <1>2, <1>5, <1>6, <2>1, <2>2 DEF IInv, Settled, Untouched
<1> QED BY <1>4, <1>7, <1>8

\* What an install comes to, in the end or cut short, is said of some hooks directories,
\* and there is none where the provider is not ready.
LEMMA OutcomesAre ==
    ASSUME NEW how \in Finished \cup CutShort
    PROVE  how \in [Targets -> Outcome]
<1>1. Well \in Outcome /\ Kept \in Outcome
  BY DEF Well, Kept, Outcome
<1>2. CASE how \in Finished
  BY <1>1, <1>2 DEF Finished
<1>3. CASE how \in CutShort
  BY <1>1, <1>3 DEF CutShort
<1> QED BY <1>2, <1>3

\* An installation leaves the hooks typed, and nothing else changed.
LEMMA InstalledTyped ==
    ASSUME CloneTyped, NEW how \in Finished \cup CutShort, install_hooks(how)
    PROVE  CloneTyped' /\ UNCHANGED <<sub, tree, gitlink, source, atPin, built, link, driver>>
<1>1. UNCHANGED <<sub, tree, gitlink, source, atPin, built, link, driver>>
  BY DEF install_hooks
<1>2. Installed \in Binary /\ Torn \in Binary
  <2>1. built.tree \in Built /\ built.root \in Built
    BY DEF CloneTyped
  <2> QED BY <2>1 DEF Installed, gate_asset, Binary
<1>3. \A s \in Surface : hooks[s].script \in BOOLEAN /\ hooks[s].bin \in Binary
  BY DEF CloneTyped
<1>4. how \in [Targets -> Outcome]
  BY OutcomesAre
<1>5. ASSUME NEW s \in Surface, NEW h \in Outcome
      PROVE  Copied(s, h) \in [script : BOOLEAN, bin : Binary]
  <2>1. h.bin \in {"kept", "made", "torn"}
    BY <1>5 DEF Outcome
  <2> DEFINE bin == CASE h.bin = "kept" -> hooks[s].bin
                      [] h.bin = "made" -> Installed
                      [] h.bin = "torn" -> Torn
  <2>2. bin \in Binary
    BY <1>2, <1>3, <2>1
  <2>3. (hooks[s].script \/ h.script = "there") \in BOOLEAN
    BY <1>3
  <2>4. Copied(s, h) = [script |-> hooks[s].script \/ h.script = "there", bin |-> bin]
    BY DEF Copied
  <2> HIDE DEF bin
  <2> QED BY <2>2, <2>3, <2>4
<1>6. hooks' \in [Surface -> [script : BOOLEAN, bin : Binary]]
  <2>1. hooks' = [s \in Surface |-> IF s \in DOMAIN how THEN Copied(s, how[s]) ELSE hooks[s]]
    BY DEF install_hooks
  <2>2. \A s \in Surface : hooks[s] \in [script : BOOLEAN, bin : Binary]
    BY DEF CloneTyped
  <2>3. \A s \in Surface : s \in DOMAIN how => how[s] \in Outcome
    BY <1>4
  <2> QED BY <1>5, <2>1, <2>2, <2>3
<1> QED BY <1>1, <1>6 DEF CloneTyped

\* Where the provider is ready, every hooks directory gets its script and the binary;
\* elsewhere none is touched.
LEMMA InstalledMade ==
    ASSUME CloneTyped, NEW how \in Finished, AllWell(how), install_hooks(how)
    PROVE  /\ Ready => \A s \in Surface : s \in hook_targets =>
                           hooks'[s].script /\ hooks'[s].bin = gate_asset
           /\ \A s \in Surface : ~Ready \/ s \notin hook_targets => hooks'[s] = hooks[s]
<1>1. Ready <=> ProviderReady
  BY DEF Ready, ProviderReady, Installed
<1>2. DOMAIN how = Targets
  BY OutcomesAre
<1>3. hooks' = [s \in Surface |-> IF s \in DOMAIN how THEN Copied(s, how[s]) ELSE hooks[s]]
  BY DEF install_hooks
<1>4. ASSUME NEW s \in Surface, s \in Targets
      PROVE  hooks'[s].script /\ hooks'[s].bin = gate_asset
  <2>1. how[s] = Well
    BY <1>2, <1>4 DEF AllWell
  <2>2. how[s].script = "there" /\ how[s].bin = "made"
    BY <2>1 DEF Well
  <2>3. hooks'[s] = Copied(s, how[s])
    BY <1>2, <1>3, <1>4
  <2>4. Copied(s, how[s]).script /\ Copied(s, how[s]).bin = Installed
    BY <2>2 DEF Copied
  <2> QED BY <2>3, <2>4 DEF Installed
<1>5. \A s \in Surface : s \notin Targets => hooks'[s] = hooks[s]
  BY <1>2, <1>3
<1> QED BY <1>1, <1>4, <1>5 DEF Targets

\* The hooks directories are the surface's.
LEMMA TargetsAre == hook_targets \subseteq Surface
BY DEF hook_targets, git_hooks_dir, Surface

\* The hooks are installed, and the fingerprint refreshed; a copy may fail.
LEMMA InstallHooksKeeps ==
    ASSUME IInv, InstallHooks
    PROVE  IInv' /\ Untouched
<1>1. BootTyped /\ CloneTyped /\ boot.at = 5 /\ ~Idle
  BY AtIs DEF IInv, InstallHooks, Owes, At
<1>2. PICK how \in Finished : install_hooks(how) /\ Continue(AllWell(how))
  BY DEF InstallHooks
<1>3. CloneTyped' /\ UNCHANGED <<sub, tree, gitlink, source, atPin, built, link, driver>>
  BY <1>1, <1>2, InstalledTyped
<1>4. write_envhash(Component)
  BY DEF InstallHooks, Refreshed
<1>5. Told'
  BY <1>3, <1>4, WriteTells
<1>6. /\ BootTyped' /\ boot'.at = boot.at + 1 /\ boot'.complete = boot.complete
      /\ boot'.calm => boot.calm /\ AllWell(how)
  <2>1. boot.at # 7 /\ AllWell(how) \in BOOLEAN
    BY <1>1 DEF AllWell
  <2> QED BY <1>1, <1>2, <2>1, Onward
<1>7. boot'.at = 6 /\ boot'.at > 0
  BY <1>1, <1>6
<1>8. UNCHANGED gate_asset
  BY <1>3 DEF gate_asset
<1>9. hook_targets' = hook_targets /\ (Ready' <=> Ready)
  <2>1. is_git_worktree(Canonical(Provider))' <=> is_git_worktree(Canonical(Provider))
    BY <1>3 DEF is_git_worktree, Canonical
  <2> QED BY <1>3, <1>8, <2>1, SameTargets DEF Ready
<1>10. ASSUME AllWell(how)
       PROVE  HooksMade'
  <2>1. install_hooks(how)
    BY <1>2
  <2>2. SUFFICES ASSUME Ready, NEW s \in hook_targets
                 PROVE  Gated(s)' /\ hooks'[s].bin = gate_asset'
    BY <1>9 DEF HooksMade
  <2>3. hooks'[s].script /\ hooks'[s].bin = gate_asset
    BY <1>1, <1>10, <2>1, <2>2, InstalledMade, TargetsAre
  <2>4. gate_asset # None
    BY <2>2 DEF Ready
  <2> QED BY <1>8, <2>3, <2>4 DEF Gated
<1>11. Recorded'
  <2>1. envhash' = envhash_text(envhash_dimensions(Component)')
    BY <1>4 DEF write_envhash
  <2> QED BY <2>1 DEF Recorded, envhash_text, Component
<1>12. /\ Passed(1)' => SubsMade'
       /\ Passed(2)' => TreesMade'
       /\ Passed(3)' => LinksMade'
  <2>1. (Passed(1)' => Passed(1)) /\ (Passed(2)' => Passed(2)) /\ (Passed(3)' => Passed(3))
    BY <1>1, <1>6, <1>7 DEF Passed, Idle
  <2>2. (SubsMade => SubsMade') /\ (TreesMade => TreesMade')
    BY <1>3 DEF SubsMade, TreesMade, submodule_status, is_dir
  <2>3. LinksMade => LinksMade'
    BY <1>3, SameOffers DEF LinksMade
  <2> QED BY <2>1, <2>2, <2>3 DEF IInv, Progress
<1>13. Progress'
  <2>1. ~Passed(6)' /\ (Passed(5)' => AllWell(how))
    BY <1>6, <1>7 DEF Passed, Idle
  <2> QED BY <1>10, <1>11, <1>12, <2>1 DEF Progress
<1>14. ASSUME boot'.calm, boot'.complete
       PROVE  Whole' /\ Present' = Present
  <2>1. install_hooks(how) /\ AllWell(how)
    BY <1>2, <1>6, <1>14
  <2>2. Whole
    BY <1>6, <1>14, GateIsWhole DEF IInv, Settled
  <2>3. gate_asset # None
    BY <2>2 DEF Whole, gate_asset
  <2>4. \A s \in hook_targets : hooks[s].bin = gate_asset
    BY <2>2, <2>3 DEF Whole, Gated, hook_binary_current
  <2>5. \A s \in Surface : hooks'[s].bin = hooks[s].bin
    BY <1>1, <2>1, <2>4, InstalledMade
  <2>6. \A s \in hook_targets : Gated(s)'
    <3>1. \A s \in hook_targets : hooks'[s].script \/ hooks'[s] = hooks[s]
      BY <1>1, <2>1, InstalledMade, TargetsAre
    <3>2. \A s \in hook_targets : hooks'[s].script
      BY <2>2, <3>1 DEF Whole, Gated
    <3> QED BY <1>9, <2>3, <2>4, <2>5, <3>2, TargetsAre DEF Gated
  <2>7. \A s \in hook_targets : hook_binary_current(s)'
    BY <1>8, <2>4, <2>5, TargetsAre DEF hook_binary_current
  <2>8. LinksMade'
    BY <1>3, <2>2, SameOffers DEF LinksMade, Whole
  <2>9. Whole'
    BY <1>3, <1>9, <2>2, <2>6, <2>7, <2>8, SameOffers, SameTargets DEF Whole
  <2>10. Present' = Present
    BY <1>3, <2>5, SameOffers DEF Present
  <2> QED BY <2>9, <2>10
<1>15. Settled'
  BY <1>14, GateIsWholeNext DEF Settled
<1>16. Untouched
  BY <1>3, <1>14 DEF Untouched
<1> QED BY <1>3, <1>5, <1>6, <1>13, <1>15, <1>16 DEF IInv

\* The re-deriver is installed where its component carries it.
LEMMA InstallRederiverKeeps ==
    ASSUME IInv, InstallRederiver
    PROVE  IInv' /\ Untouched
<1>1. BootTyped /\ CloneTyped /\ boot.at = 6 /\ ~Idle
  BY AtIs DEF IInv, InstallRederiver, Owes, At
<1>2. ~(boot.calm /\ boot.complete)
  BY NothingOwed DEF IInv, InstallRederiver
<1>3. /\ driver' \in {FALSE, rederiver_owed /\ is_git_worktree(Canonical(Deriver))}
      /\ Continue(driver' \/ ~rederiver_owed)
      /\ UNCHANGED <<sub, tree, gitlink, source, atPin, built, hooks, link, records>>
  BY DEF InstallRederiver
<1>4. driver' \in BOOLEAN
  BY <1>3
<1>5. CloneTyped'
  BY <1>1, <1>3, <1>4 DEF CloneTyped
<1>6. Told'
  BY <1>3, SameTold DEF IInv
<1>7. /\ BootTyped' /\ boot'.at = boot.at + 1 /\ boot'.complete = boot.complete
      /\ boot'.calm => boot.calm /\ (driver' \/ ~rederiver_owed)
  <2>1. boot.at # 7
    BY <1>1
  <2>2. (driver' \/ ~rederiver_owed) \in BOOLEAN
    BY <1>4
  <2> QED BY <1>1, <1>3, <2>1, <2>2, Onward
<1>8. boot'.at = 7
  BY <1>1, <1>7
<1>9. /\ (Passed(1)' => Passed(1)) /\ (Passed(2)' => Passed(2))
      /\ (Passed(3)' => Passed(3)) /\ (Passed(5)' => Passed(5))
  BY <1>1, <1>7, <1>8 DEF Passed, Idle
<1>10. Passed(6)' => DriverMade'
  <2>1. rung_declared /\ ~driver
    BY SatisfiedIsMade DEF InstallRederiver, Owes
  <2>2. (rung_declared' <=> rung_declared) /\ (rederiver_worktree' <=> rederiver_worktree)
    BY <1>3, SameTargets
  <2>3. Passed(6)' => driver' \/ ~rederiver_owed
    BY <1>7 DEF Passed
  <2> QED BY <2>1, <2>2, <2>3 DEF DriverMade, rederiver_owed
<1>11. (SubsMade => SubsMade') /\ (TreesMade => TreesMade') /\ (LinksMade => LinksMade')
  <2>1. (SubsMade => SubsMade') /\ (TreesMade => TreesMade')
    BY <1>3 DEF SubsMade, TreesMade, submodule_status, is_dir
  <2>2. LinksMade => LinksMade'
    BY <1>3, SameOffers DEF LinksMade
  <2> QED BY <2>1, <2>2
<1>12. (HooksMade => HooksMade') /\ (Recorded => Recorded')
  <2>1. gate_asset' = gate_asset /\ hook_targets' = hook_targets
    BY <1>3, SameTargets DEF gate_asset
  <2>2. Ready' <=> Ready
    BY <1>3, <2>1, SameOffers DEF Ready, Canonical
  <2>3. HooksMade => HooksMade'
    BY <1>3, <2>1, <2>2 DEF HooksMade, Gated
  <2>4. Recorded => Recorded'
    BY <1>3, SameDimensions DEF Recorded, records
  <2> QED BY <2>3, <2>4
<1>13. Progress'
  BY <1>9, <1>10, <1>11, <1>12 DEF IInv, Progress
<1> QED BY <1>2, <1>5, <1>6, <1>7, <1>13 DEF IInv, Settled, Untouched

\* A run that is killed is past nothing, and owes nothing.
LEMMA KillKeeps ==
    ASSUME IInv, Kill
    PROVE  IInv' /\ Untouched
<1>1. BootTyped /\ CloneTyped
  BY DEF IInv
<1>2. Killed /\ UNCHANGED records
  BY DEF Kill, records
<1>3. \/ \E how \in CutShort : install_hooks(how)
      \/ \E n, some : Added(Component, n, some)
  BY DEF Kill
<1>4. CloneTyped'
  BY <1>1, <1>3, AddedTyped, InstalledTyped
<1>5. Told'
  BY <1>2, SameTold DEF IInv
<1>6. boot' = [at |-> 0, calm |-> FALSE, complete |-> boot.complete, code |-> "killed"]
  BY <1>1, <1>2 DEF BootTyped, Killed
<1>7. BootTyped' /\ ~boot'.calm
  <2>1. boot'.at = 0 /\ ~boot'.calm
    BY <1>6
  <2>2. boot' \in [at : 0 .. 7, calm : BOOLEAN, complete : BOOLEAN, code : Code]
    BY <1>1, <1>6 DEF BootTyped, Code
  <2> QED BY <2>1, <2>2 DEF BootTyped
<1> QED BY <1>4, <1>5, <1>7 DEF IInv, Progress, Passed, Settled, Untouched

-----------------------------------------------------------------------------
(* The commands and the operator beside it. *)

\* Worktrees added, and a fingerprint written for a selection.
LEMMA MaterializeBesideKeeps ==
    ASSUME IInv, software_materialize
    PROVE  IInv' /\ Untouched
<1>1. PICK comps \in SUBSET Component : \E n, some : Added(comps, n, some) /\ write_envhash(comps)
  BY DEF software_materialize
<1>2. CloneTyped'
  BY <1>1, AddedTyped DEF IInv
<1>3. Told'
  BY <1>1, <1>2, WriteTells
<1> QED BY <1>2, <1>3, Disturbed DEF IInv, software_materialize

\* The hooks installed, and the fingerprint written.
LEMMA InstallBesideKeeps ==
    ASSUME IInv, software_install_hooks
    PROVE  IInv' /\ Untouched
<1>1. PICK how \in Finished : install_hooks(how)
  BY DEF software_install_hooks
<1>2. CloneTyped'
  BY <1>1, InstalledTyped DEF IInv
<1>3. Told'
  BY <1>2, WriteTells DEF software_install_hooks
<1> QED BY <1>2, <1>3, Disturbed DEF IInv, software_install_hooks

\* A component is torn down, with its worktrees, its hooks and what was built there.
LEMMA TeardownKeeps ==
    ASSUME IInv, Teardown
    PROVE  IInv' /\ Untouched
<1>1. PICK c \in Component : software_teardown(c)
  BY DEF Teardown
<1>2. CloneTyped
  BY DEF IInv
<1>3. tree' \in [Worktree -> {"absent", "there", "hollow"}]
  BY <1>1, <1>2 DEF software_teardown, CloneTyped
<1>4. built' \in [tree : Built, root : Built]
  <2>1. [built EXCEPT !.tree = None] = [tree |-> None, root |-> built.root]
    BY <1>2 DEF CloneTyped
  <2>2. [built EXCEPT !.tree = None] \in [tree : Built, root : Built]
    BY <1>2, <2>1 DEF CloneTyped, Built
  <2> QED BY <1>1, <1>2, <2>2 DEF software_teardown, CloneTyped
<1>5. hooks' \in [Surface -> [script : BOOLEAN, bin : Binary]]
  <2>1. [script |-> FALSE, bin |-> None] \in [script : BOOLEAN, bin : Binary]
    BY DEF Binary, Built
  <2>2. hooks' = [hooks EXCEPT ![c] = [script |-> FALSE, bin |-> None]]
    BY <1>1 DEF software_teardown
  <2> QED BY <1>2, <2>1, <2>2 DEF CloneTyped
<1>6. UNCHANGED <<sub, source, atPin, link, driver, records>>
  BY <1>1 DEF software_teardown
<1>7. CloneTyped'
  <2>1. gitlink' \subseteq Component
    BY <1>1, <1>2 DEF software_teardown, CloneTyped
  <2> QED BY <1>2, <1>3, <1>4, <1>5, <1>6, <2>1 DEF CloneTyped
<1>8. Told'
  BY <1>6, SameTold DEF IInv
<1> QED BY <1>1, <1>7, <1>8, Disturbed DEF IInv, software_teardown

\* The provider is built, in its worktree or at the host's root.
LEMMA BuildKeeps ==
    ASSUME IInv, Build
    PROVE  IInv' /\ Untouched
<1>1. CloneTyped
  BY DEF IInv
<1>2. built' \in [tree : Built, root : Built]
  <2>1. source \in Built
    BY <1>1 DEF CloneTyped, Built
  <2>2. [built EXCEPT !.tree = source] = [tree |-> source, root |-> built.root]
    BY <1>1 DEF CloneTyped
  <2>3. [built EXCEPT !.root = source] = [tree |-> built.tree, root |-> source]
    BY <1>1 DEF CloneTyped
  <2> QED BY <1>1, <2>1, <2>2, <2>3 DEF CloneTyped, Build
<1>3. UNCHANGED <<sub, tree, gitlink, source, atPin, hooks, link, driver, records>>
  BY DEF Build
<1>4. CloneTyped'
  BY <1>1, <1>2, <1>3 DEF CloneTyped
<1>5. Told'
  BY <1>3, SameTold DEF IInv
<1> QED BY <1>4, <1>5, Disturbed DEF IInv, Build

\* The provider's pin moves.
LEMMA RepinKeeps ==
    ASSUME IInv, Repin
    PROVE  IInv' /\ Untouched
<1>1. UNCHANGED <<sub, tree, built, hooks, link, driver, records>>
  BY DEF Repin
<1>2. CloneTyped'
  BY <1>1 DEF IInv, CloneTyped, Repin
<1>3. Told'
  BY <1>1, SameTold DEF IInv
<1> QED BY <1>2, <1>3, Disturbed DEF IInv, Repin

\* The operator empties, removes or replaces something.
LEMMA DamageKeeps ==
    ASSUME IInv, Damage
    PROVE  IInv' /\ Untouched
<1>1. CloneTyped
  BY DEF IInv
<1>2. UNCHANGED <<source, atPin, records>>
  BY DEF Damage
<1>3. sub' \in [Submodule -> {"bare", "init", "gutted"}]
  <2>1. \/ \E s \in Submodule, to \in {"bare", "gutted"} : sub' = [sub EXCEPT ![s] = to]
        \/ sub' = sub
    BY DEF Damage
  <2> QED BY <1>1, <2>1 DEF CloneTyped
<1>4. tree' \in [Worktree -> {"absent", "there", "hollow"}]
  <2>1. \/ \E w \in Worktree : tree' = [tree EXCEPT ![w] = "hollow"]
        \/ tree' = tree
    BY DEF Damage
  <2> QED BY <1>1, <2>1 DEF CloneTyped
<1>5. built' \in [tree : Built, root : Built]
  <2>1. built' = [built EXCEPT !.tree = None] \/ built' = built
    BY DEF Damage
  <2>2. [built EXCEPT !.tree = None] = [tree |-> None, root |-> built.root]
    BY <1>1 DEF CloneTyped
  <2>3. [built EXCEPT !.tree = None] \in [tree : Built, root : Built]
    BY <1>1, <2>2 DEF CloneTyped, Built
  <2> QED BY <1>1, <2>1, <2>3 DEF CloneTyped
<1>6. hooks' \in [Surface -> [script : BOOLEAN, bin : Binary]]
  <2>1. \/ \E s \in hook_targets, bin \in Binary : hooks' = [hooks EXCEPT ![s].bin = bin]
        \/ hooks' = hooks
    BY DEF Damage, Binary, Built
  <2>2. ASSUME NEW s \in hook_targets, NEW bin \in Binary, hooks' = [hooks EXCEPT ![s].bin = bin]
        PROVE  hooks' \in [Surface -> [script : BOOLEAN, bin : Binary]]
    <3>1. s \in Surface /\ hooks[s] \in [script : BOOLEAN, bin : Binary]
      BY <1>1, TargetsAre DEF CloneTyped
    <3>2. [hooks[s] EXCEPT !.bin = bin] = [script |-> hooks[s].script, bin |-> bin]
      BY <3>1
    <3>3. [hooks[s] EXCEPT !.bin = bin] \in [script : BOOLEAN, bin : Binary]
      BY <3>1, <3>2
    <3>4. hooks' = [hooks EXCEPT ![s] = [hooks[s] EXCEPT !.bin = bin]]
      BY <2>2
    <3> HIDE DEF Binary
    <3> QED BY <1>1, <3>1, <3>3, <3>4 DEF CloneTyped
  <2> QED BY <1>1, <2>1, <2>2 DEF CloneTyped
<1>7. driver' \in BOOLEAN
  BY <1>1 DEF CloneTyped, Damage
<1>8. CloneTyped'
  <2>1. gitlink' \subseteq Component
    BY <1>1 DEF Damage, CloneTyped
  <2> QED BY <1>1, <1>2, <1>3, <1>4, <1>5, <1>6, <1>7, <2>1 DEF CloneTyped
<1>9. Told'
  BY <1>2, SameTold DEF IInv
<1> QED BY <1>8, <1>9, Disturbed DEF IInv, Damage

-----------------------------------------------------------------------------
(* The invariant. *)

LEMMA InitHolds == Init => IInv
<1> SUFFICES ASSUME Init PROVE IInv
  OBVIOUS
<1>1. source \in Version /\ source \in Built /\ None \in Built
      /\ source \in Binary /\ None \in Binary
  BY CloneAssumption DEF Init, Binary, Built
<1>2. CloneTyped
  <2>1. CASE FreshClone
    <3>1. built \in [tree : Built, root : Built]
      BY <1>1, <2>1 DEF FreshClone
    <3>2. hooks \in [Surface -> [script : BOOLEAN, bin : Binary]]
      BY <1>1, <2>1 DEF FreshClone
    <3> QED BY <1>1, <2>1, <3>1, <3>2 DEF FreshClone, CloneTyped
  <2>2. CASE SetUp
    <3>1. built \in [tree : Built, root : Built]
      BY <1>1, <2>2 DEF SetUp
    <3>2. hooks \in [Surface -> [script : BOOLEAN, bin : Binary]]
      BY <1>1, <2>2 DEF SetUp
    <3> QED BY <1>1, <2>2, <3>1, <3>2 DEF SetUp, CloneTyped
  <2> QED BY <2>1, <2>2 DEF Init
<1>3. boot = [at |-> 0, calm |-> FALSE, complete |-> FALSE, code |-> "none"]
  BY DEF Init, NoRun
<1>4. boot.at = 0 /\ ~boot.calm
  BY <1>3
<1>5. BootTyped
  <2>1. boot \in [at : 0 .. 7, calm : BOOLEAN, complete : BOOLEAN, code : Code]
    BY <1>3 DEF Code
  <2> QED BY <1>4, <2>1 DEF BootTyped
<1>6. Told
  BY <1>2, PresentIs DEF Init, Told
<1> QED BY <1>2, <1>4, <1>5, <1>6 DEF IInv, Progress, Passed, Settled

LEMMA NextHolds == IInv /\ [Next]_vars => IInv' /\ Untouched
<1> SUFFICES ASSUME IInv, [Next]_vars PROVE IInv' /\ Untouched
  OBVIOUS
<1>1. CASE UNCHANGED vars
  <2>1. UNCHANGED <<clone, records>> /\ boot' = boot
    BY <1>1 DEF vars
  <2>2. BootTyped' /\ (boot'.calm => boot.calm) /\ boot'.complete = boot.complete
    BY <2>1 DEF IInv, BootTyped
  <2>3. \A n \in 1 .. 6 : Passed(n)' => Passed(n)
    BY <2>1 DEF Passed, Idle
  <2>4. \A n \in 1 .. 6 : Passed(n)' =>
               \/ Passed(n)
               \/ n \in {1, 2, 3, 4, 6} /\ (n = 1 => SubsMade) /\ (n = 2 => TreesMade)
                     /\ (n = 3 => LinksMade) /\ (n = 6 => DriverMade)
    BY <2>3
  <2> QED BY <2>1, <2>2, <2>4, StandingOn
<1> QED BY <1>1, BootstrapKeeps, ReadKeeps, InitSubmodulesKeeps, MaterializeKeeps, LinkSkillsKeeps,
           BuildArtifactKeeps, InstallHooksKeeps, InstallRederiverKeeps, VerifySetupKeeps, KillKeeps,
           MaterializeBesideKeeps, InstallBesideKeeps, DamageKeeps, TeardownKeeps, BuildKeeps, RepinKeeps
        DEF Next

LEMMA Invariance == Spec => []IInv
<1>1. IInv /\ [Next]_vars => IInv'
  BY NextHolds
<1> QED BY InitHolds, <1>1, PTL DEF Spec

-----------------------------------------------------------------------------
(* What it comes to. *)

\* An undisturbed run that reached its verdict is past every step.
LEMMA JudgedMade ==
    ASSUME IInv, Judged
    PROVE  SubsMade /\ TreesMade /\ LinksMade /\ HooksMade /\ Recorded /\ DriverMade
BY DEF IInv, Progress, Passed, Judged

\* What running bootstrap again could close, by kind.
LEMMA OwedIs ==
    ASSUME NEW target
    PROVE  /\ OwedElsewhere(Gap("artifact", target)) <=>
                  artifact_owed \/ built.root # None \/ ~is_dir(Canonical(Provider))
           /\ OwedElsewhere(Gap("hook", target)) <=>
                  ~is_git_worktree(Canonical(Provider)) \/ ~atPin \/ gate_asset = None
           /\ OwedElsewhere(Gap("binary", target)) <=>
                  ~is_git_worktree(Canonical(Provider)) \/ ~atPin \/ gate_asset = None
           /\ OwedElsewhere(Gap("worktree", target)) <=> tree[target] = "hollow"
           /\ OwedElsewhere(Gap("submodule", target)) <=> sub[target] = "gutted"
           /\ OwedElsewhere(Gap("driver", target)) <=> ~rederiver_worktree
<1>1. \A kind : Gap(kind, target).kind = kind /\ Gap(kind, target).target = target
  BY DEF Gap
<1>2. OwedElsewhere(Gap("artifact", target)) <=>
                  artifact_owed \/ built.root # None \/ ~is_dir(Canonical(Provider))
  BY <1>1 DEF OwedElsewhere
<1>3. OwedElsewhere(Gap("hook", target)) <=>
                  ~is_git_worktree(Canonical(Provider)) \/ ~atPin \/ gate_asset = None
  BY <1>1 DEF OwedElsewhere
<1>4. OwedElsewhere(Gap("binary", target)) <=>
                  ~is_git_worktree(Canonical(Provider)) \/ ~atPin \/ gate_asset = None
  BY <1>1 DEF OwedElsewhere
<1>5. OwedElsewhere(Gap("worktree", target)) <=> tree[target] = "hollow"
  BY <1>1 DEF OwedElsewhere
<1>6. OwedElsewhere(Gap("submodule", target)) <=> sub[target] = "gutted"
  BY <1>1 DEF OwedElsewhere
<1>7. OwedElsewhere(Gap("driver", target)) <=> ~rederiver_worktree
  BY <1>1 DEF OwedElsewhere
<1> QED BY <1>2, <1>3, <1>4, <1>5, <1>6, <1>7

LEMMA GapsHold == IInv => GapsAreOwed
<1> SUFFICES ASSUME IInv, Judged, NEW g \in setup_requirements
             PROVE  OwedElsewhere(g)
  BY DEF GapsAreOwed
<1>1. SubsMade /\ TreesMade /\ LinksMade /\ HooksMade /\ DriverMade
  BY JudgedMade
<1>2. CASE \E s \in Submodule : ~populated(s) /\ g = Gap("submodule", s)
  BY <1>1, <1>2, OwedIs DEF SubsMade, populated
<1>3. CASE \E w \in Worktree : ~is_git_worktree(w) /\ g = Gap("worktree", w)
  <2>1. PICK w \in Worktree : ~is_git_worktree(w) /\ g = Gap("worktree", w)
    BY <1>3
  <2>2. tree[w] = "hollow"
    BY <1>1, <2>1 DEF TreesMade, is_dir, is_git_worktree, IInv, CloneTyped
  <2> QED BY <2>1, <2>2, OwedIs
<1>4. CASE built.tree = None /\ g = Gap("artifact", Provider)
  BY <1>4, OwedIs DEF artifact_owed
<1>5. ~\E k \in skill_sources : link[k] # Best(k) /\ g = Gap("skill", k)
  BY <1>1 DEF LinksMade
<1>6. CASE \E s \in hook_targets : ~Gated(s) /\ g = Gap("hook", s)
  BY <1>1, <1>6, OwedIs DEF HooksMade, Ready
<1>7. ~\E w \in Worktree : ~is_dir(w) /\ g = Gap("hook", w)
  BY <1>1 DEF TreesMade
<1>8. CASE \E s \in hook_targets : ~hook_binary_current(s) /\ g = Gap("binary", s)
  BY <1>1, <1>8, OwedIs DEF HooksMade, Ready, hook_binary_current
<1>9. CASE rung_declared /\ ~driver /\ g = Gap("driver", Deriver)
  BY <1>1, <1>9, OwedIs DEF DriverMade
<1> QED BY <1>2, <1>3, <1>4, <1>5, <1>6, <1>7, <1>8, <1>9, GapsAre

LEMMA QuietHolds == IInv => FreshIsQuiet
<1> SUFFICES ASSUME IInv, Judged PROVE env_check
  BY DEF FreshIsQuiet
<1>1. envhash = << envhash_dimensions(Component) >>
  BY JudgedMade DEF Recorded
<1>2. parse_envhash = envhash_dimensions(Component)
  BY <1>1 DEF parse_envhash
<1>3. envhash_delta = {}
  BY <1>2 DEF envhash_delta
<1>4. envhash # << >>
  BY <1>1
<1> QED BY <1>3, <1>4 DEF env_check

\* A non-empty set of numbers has a least one.
LEMMA LeastIn ==
    ASSUME NEW S \in SUBSET Nat, S # {}
    PROVE  Min(S) \in S
<1>1. IsWellFoundedOn(OpToRel(<, Nat), Nat)
  BY NatLessThanWellFounded
<1>2. PICK x \in S : \A y \in S : <<y, x>> \notin OpToRel(<, Nat)
  BY <1>1, WFMin
<1>3. \A y \in S : x <= y
  <2> TAKE y \in S
  <2>1. x \in Nat /\ y \in Nat
    OBVIOUS
  <2>2. ~(y < x)
    BY <1>2, <2>1 DEF OpToRel
  <2> QED BY <2>1, <2>2
<1> QED BY <1>2, <1>3 DEF Min

\* A skill that is offered is linked to something that offers it.
LEMMA BestOffers ==
    ASSUME NEW k, Sources(k) # {}
    PROVE  Best(k) \in Sources(k)
<1> DEFINE own == {i \in DOMAIN Recipe : Recipe[i] \in Sources(k)}
<1>1. CASE own # {}
  <2>1. own \in SUBSET Nat
    BY CloneAssumption
  <2>2. Min(own) \in own
    <3> HIDE DEF own
    <3> QED BY <1>1, <2>1, LeastIn
  <2>3. Best(k) = Recipe[Min(own)]
    BY <1>1 DEF Best, Foremost
  <2> QED BY <2>2, <2>3
<1>2. CASE own = {}
  <2>1. Best(k) = CHOOSE s \in Sources(k) : TRUE
    BY <1>2 DEF Best, Foremost
  <2> QED BY <2>1
<1> QED BY <1>1, <1>2

\* A component's canonical worktree is one of its own.
LEMMA CanonicalIs ==
    ASSUME NEW c \in Component
    PROVE  Canonical(c) \in Range(Trees[c]) /\ Canonical(c) \in Worktree
<1>1. Trees[c] \in Seq(Worktree) /\ Trees[c] # << >>
  BY CloneAssumption
<1>2. 1 \in DOMAIN Trees[c]
  BY <1>1
<1>3. Canonical(c) \in Range(Trees[c])
  BY <1>2 DEF Canonical, Range
<1> QED BY <1>3 DEF Worktree

\* There are as many hooks directories as the recipe has components, and the host's.
LEMMA SurfaceIsFinite == IsFiniteSet(Surface) /\ Cardinality(Surface) \in Nat \ {0}
<1>1. Recipe \in Surjection(1 .. Len(Recipe), Component)
  <2>1. Recipe \in Seq(Component)
    BY CloneAssumption
  <2>2. Recipe \in [1 .. Len(Recipe) -> Component] /\ Len(Recipe) \in Nat
    BY <2>1
  <2>3. \A c \in Component : \E i \in 1 .. Len(Recipe) : Recipe[i] = c
    BY <2>2 DEF Component, Range
  <2> QED BY <2>2, <2>3 DEF Surjection
<1>2. IsFiniteSet(1 .. Len(Recipe))
  <2>1. Len(Recipe) \in Int
    BY CloneAssumption
  <2> QED BY <2>1, FS_Interval
<1>3. IsFiniteSet(Component)
  BY <1>1, <1>2, FS_Surjection
<1>4. IsFiniteSet(Surface)
  <2>1. Surface = Component \cup {Host}
    BY DEF Surface
  <2> QED BY <1>3, <2>1, FS_AddElement
<1>5. Surface # {}
  BY DEF Surface
<1> QED BY <1>4, <1>5, FS_CardinalityType, FS_EmptySet

\* Where nothing is missing, every hooks directory is its component's own.
LEMMA WholeTargets ==
    ASSUME Whole
    PROVE  hook_targets = Surface
<1>1. ASSUME NEW c \in Component PROVE git_hooks_dir(c) = c
  <2>1. is_git_worktree(Canonical(c))
    BY CanonicalIs DEF Whole
  <2> QED BY <2>1, CanonicalIs DEF git_hooks_dir
<1> QED BY <1>1 DEF hook_targets, Surface

\* And a fingerprint that finds nothing moved was written with the same binaries there.
LEMMA SameBinaries ==
    ASSUME CloneTyped, Told, Whole, env_check, NEW s \in Surface
    PROVE  seen.bins[s] = Present.bins[s]
<1>1. hook_targets = Surface
  BY WholeTargets
<1>2. gate_asset \in Version
  <2>1. built.tree \in Built /\ built.tree # None
    BY DEF CloneTyped, Whole
  <2> QED BY <2>1 DEF gate_asset, Built
<1>3. \A t \in Surface : hooks[t].bin = gate_asset
  BY <1>1, <1>2, CloneAssumption DEF Whole, Gated, hook_binary_current
<1>4. <<gate_asset, Cardinality(Surface)>> \in hook_binary_hash(Component)
  <2> DEFINE dirs == (Component \cup {Host}) \cap hook_targets
  <2>1. dirs = Surface
    BY <1>1 DEF Surface
  <2>2. Cardinality(Surface) \in 1 .. Cardinality(Surface)
    BY SurfaceIsFinite
  <2>3. {t \in dirs : hooks[t].bin = gate_asset} = Surface
    <3> HIDE DEF dirs
    <3> QED BY <1>3, <2>1
  <2>4. hook_binary_hash(Component) =
           {of \in (Version \cup {Torn}) \X (1 .. Cardinality(Surface)) :
               Cardinality({t \in dirs : hooks[t].bin = of[1]}) = of[2]}
    BY CloneAssumption DEF hook_binary_hash
  <2> HIDE DEF dirs
  <2> QED BY <1>2, <2>2, <2>3, <2>4
<1>5. parse_envhash.hook_binary = hook_binary_hash(Component)
  <2> DEFINE now == envhash_dimensions(Component)
  <2>1. now.hook_binary = hook_binary_hash(Component) /\ "hook_binary" \in DOMAIN now
    BY DEF envhash_dimensions
  <2>2. now.hook_binary # Unreadable
    BY <1>4, <2>1 DEF Unreadable
  <2>3. \A d \in DOMAIN now :
           ~(now[d] # parse_envhash[d] /\ (d = "hook_binary" => now[d] # Unreadable))
    BY DEF env_check, envhash_delta
  <2> HIDE DEF now
  <2> QED BY <2>1, <2>2, <2>3
<1>6. Says(hook_binary_hash(Component), seen)
  BY <1>5 DEF Told, env_check
<1>7. PICK D \in SUBSET Surface :
          Cardinality({t \in D : seen.bins[t] = gate_asset}) = Cardinality(Surface)
  BY <1>2, <1>4, <1>6 DEF Says
<1>8. {t \in D : seen.bins[t] = gate_asset} = Surface
  BY <1>7, SurfaceIsFinite, FS_Subset
<1>9. Present.bins[s] = gate_asset
  BY <1>3 DEF Present
<1> QED BY <1>8, <1>9

LEMMA ReportHolds == IInv => NothingUnreported
<1> SUFFICES ASSUME IInv, verify_setup, env_check
             PROVE  /\ seen.trees \subseteq Present.trees /\ seen.subs \subseteq Present.subs
                    /\ \A s \in Surface : seen.bins[s] # None => Present.bins[s] = seen.bins[s]
  BY DEF NothingUnreported
<1>1. Whole
  BY GateIsWhole
<1>2. Present.trees = Worktree /\ Present.subs = Submodule
  BY <1>1 DEF Whole, Present, is_git_worktree
<1>3. seen.trees \subseteq Worktree /\ seen.subs \subseteq Submodule
  BY DEF IInv, Told
<1>4. ASSUME NEW s \in Surface
      PROVE  Present.bins[s] = seen.bins[s]
  BY <1>1, SameBinaries DEF IInv
<1> QED BY <1>1, <1>2, <1>3, <1>4

-----------------------------------------------------------------------------
(* The theorems. *)

\* One undisturbed run makes all that bootstrap can make: the gap that stays is one that
\* no step of it closes, whatever state it began from.
THEOREM NothingLeftToMake == Spec => []GapsAreOwed
BY Invariance, GapsHold, PTL

\* A run that reached its verdict undisturbed left a fingerprint that finds nothing moved.
THEOREM VerdictIsQuiet == Spec => []FreshIsQuiet
BY Invariance, QuietHolds, PTL

\* Where the gate and the fingerprint are both silent, nothing that was there when the
\* fingerprint was written is gone or changed.
THEOREM ReadersMissNothing == Spec => []NothingUnreported
BY Invariance, ReportHolds, PTL

\* A second run over a complete clone, neither killed nor disturbed, changes nothing in it.
THEOREM SecondRunIsIdle == Spec => SecondRunChangesNothing
<1>1. IInv /\ [Next]_vars =>
        [boot'.calm /\ boot'.complete => (Present' = Present /\ UNCHANGED <<sub, tree, link, driver>>)]_vars
  BY NextHolds DEF Untouched
<1> QED BY Invariance, <1>1, PTL DEF Spec, SecondRunChangesNothing
=============================================================================
