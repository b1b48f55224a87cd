------------------------------ MODULE WhereRoom ------------------------------
(***************************************************************************)
(* The Where room (src/src/main.rs, software --materialize and --teardown, *)
(* and the worktree paths src/src/envhash.rs records).  Each component of  *)
(* the recipe has a bare store and worktrees on branches of it.  A command *)
(* walks its selection a step at a time, every step one change of the disk *)
(* made through git or the file system; a step may fail and the process    *)
(* may be killed between two.  The recipe's set of worktrees is fixed, its *)
(* pins move; between commands the operator works in the trees.            *)
(***************************************************************************)
EXTENDS Naturals, SequencesExt

CONSTANTS
    Recipe,     \* the components, in the order of `.host-software`
    Trees,      \* each component's worktrees: canonical, tips, then lines
    Kind,       \* of a worktree: "canonical", "tip", "line" or "stored"
    Commit,     \* the commits that exist on the origins
    NoCommit,   \* no commit: a branch that does not exist
    Mine,       \* a commit that exists on this machine only
    MaxEdits    \* bound: the operator's changes between commands

Component == Range(Recipe)
Worktree == UNION {Range(Trees[c]) : c \in Component}
Home(w) == CHOOSE c \in Component : w \in Range(Trees[c])
Canonical(c) == Trees[c][1]

\* A recipe that names a component twice is refused by every command.
recipe_problems == ~IsInjective(Recipe)

ASSUME RecipeAssumption ==
    /\ Recipe \in Seq(Component) /\ ~recipe_problems
    /\ Trees \in [Component -> Seq(Worktree)]
    /\ \A c \in Component :
          /\ IsInjective(Trees[c]) /\ Trees[c] # << >>
          /\ \A i \in DOMAIN Trees[c] : Kind[Trees[c][i]] = "canonical" <=> i = 1
    /\ \A c, d \in Component : Range(Trees[c]) \cap Range(Trees[d]) # {} => c = d
    /\ NoCommit \notin Commit /\ Mine \notin Commit /\ NoCommit # Mine
    /\ MaxEdits \in Nat

VARIABLES
    pin,        \* the pin the recipe records for each worktree
    remote,     \* each branch on its origin
    store,      \* the parts of each component's store that exist
    branch,     \* each worktree's branch in its store
    tree,       \* what stands of each worktree
    handle,     \* the stored worktrees with a link in the host tree
    receipt,    \* the components with a materialize receipt
    fingerprint,\* the worktree paths `.host-envhash` records
    job,        \* the running command, or the last one
    edits,      \* how often the operator has changed something
    plain       \* history: nothing was forced, named, removed by hand or not seen

disk == <<store, branch, tree, handle>>
records == <<receipt, fingerprint>>
world == <<pin, remote, edits, plain>>
vars == <<disk, records, world, job>>

-----------------------------------------------------------------------------
(* Stores and worktrees. *)

\* `.git` as a bare directory, `.bare`, the gitdir link beside it, and the
\* remote-tracking refs a fetch makes.
Part == {"old", "bare", "link", "tracking"}

\* "lost": registered in the store, the directory is gone.  "hollow": the
\* directory is there and is not a worktree.
Place == {"nowhere", "lost", "hollow", "inside", "outside"}

NoBranch == [head |-> NoCommit, upstream |-> FALSE]

\* "linked": its own link finds the store.  "filled": its submodules came with it.
NoTree == [place |-> "nowhere", dirty |-> FALSE, linked |-> TRUE, filled |-> FALSE]
IsWorktree(w) == tree[w].place \in {"inside", "outside"}

\* Faulty variant: every worktree but the canonical one goes to a store.
AllButCanonical(w) == IF Kind[w] = "canonical" THEN "inside" ELSE "outside"

\* A `worktree =` line may keep its tree in a store outside the host tree.
line_target(w) == IF Kind[w] = "stored" THEN "outside" ELSE "inside"
PinOf(w) == IF Kind[w] = "tip" THEN pin[Canonical(Home(w))] ELSE pin[w]

\* path.exists(): a handle shows what its store holds.
Exists(w, at) ==
    \/ tree[w].place = at
    \/ tree[w].place = "hollow" /\ at = line_target(w)
    \/ at = "inside" /\ w \in handle /\ tree[w].place \in {"outside", "hollow"}

\* Something is under software/<name>.
component_exists(c) ==
    \/ store[c] # {}
    \/ \E w \in Range(Trees[c]) :
          w \in handle \/ Exists(w, "inside")

\* `git log --branches --not --remotes` prints something: with no tracking
\* refs, every commit counts as unpushed.
unpushed(c) ==
    \E w \in Range(Trees[c]) :
        branch[w].head = Mine \/ ("tracking" \notin store[c] /\ branch[w].head # NoCommit)

\* What git says inside a directory that is not a worktree is about the store it
\* finds above it, or about whatever other repository it is in, if any.  In one whose
\* link finds no store git fails, and a git that fails has nothing unsaved to report.
worktree_unsaved(w) ==
    IF tree[w].place = "hollow"
    THEN IF line_target(w) = "inside" /\ {"old", "link"} \cap store[Home(w)] # {}
         THEN {unpushed(Home(w))} ELSE BOOLEAN
    ELSE {tree[w].linked /\ (tree[w].dirty \/ unpushed(Home(w)))}

-----------------------------------------------------------------------------
(* A command: its selection, and the steps still to make. *)

\* --item <name> selects one component; --item <name>@<branch> narrows it to one
\* branch, treated as its canonical one: in the tree, reset to its pin.
All == "every worktree"
Selection ==
    {[comps |-> Recipe, only |-> All]}
    \cup {[comps |-> << c >>, only |-> All] : c \in Component}
    \cup {[comps |-> << Home(w) >>, only |-> w] : w \in Worktree}
Named(sel) == sel.only # All
TreesOf(c, sel) == IF Named(sel) THEN << sel.only >> ELSE Trees[c]
Asked(sel) == UNION {Range(TreesOf(c, sel)) : c \in Range(sel.comps)}
Target(w, sel) == IF Named(sel) THEN "inside" ELSE line_target(w)

Step(do, c) == [do |-> do, comp |-> c]
TreeStep(do, w) == [do |-> do, comp |-> Home(w), tree |-> w]

\* Faulty variant: a store is cloned and never linked.
StoreStepsUnlinked(c) == << Step("migrate", c), Step("clone", c), Step("prune", c) >>

StoreSteps(c) ==
    << Step("migrate", c), Step("clone", c), Step("link", c), Step("prune", c) >>
TreeSteps(w, sel) ==
    << TreeStep("add", w), TreeStep("upstream", w) >>
    \o IF Target(w, sel) = "outside" THEN << TreeStep("handle", w) >> ELSE << >>

Each(seq, Op(_)) == FlattenSeq([i \in DOMAIN seq |-> Op(seq[i])])

ComponentSteps(c, sel) ==
    StoreSteps(c) \o Each(TreesOf(c, sel), LAMBDA w : TreeSteps(w, sel))

\* Faulty variant: a component's receipt follows its own worktrees.
ReceiptInTheLoop(sel) ==
    Each(sel.comps, LAMBDA c : ComponentSteps(c, sel) \o << Step("receipt", c) >>)
    \o << [do |-> "fingerprint"] >>

\* The receipts are buffered to the end of the loop.
Materialize(sel) ==
    Each(sel.comps, LAMBDA c : ComponentSteps(c, sel))
    \o Each(sel.comps, LAMBDA c : << Step("receipt", c) >>)
    \o << [do |-> "fingerprint"] >>
Teardown(sel) == Each(sel.comps, LAMBDA c : << Step("inspect", c) >>)
Condemn(c, sel) ==
    Each(TreesOf(c, sel), LAMBDA w : << TreeStep("remove", w) >>)
    \o << Step("prune", c), Step("delete", c) >>

NoSelection == [comps |-> << >>, only |-> All]
NoJob == [verb |-> "none", sel |-> NoSelection, force |-> FALSE, todo |-> << >>,
          made |-> {}, blind |-> FALSE, result |-> "none"]
Idle == job.todo = << >>

Steps(verb, sel) == IF verb = "materialize" THEN Materialize(sel) ELSE Teardown(sel)
Start(verb, sel, force) ==
    /\ Idle
    /\ job' = [verb |-> verb, sel |-> sel, force |-> force, todo |-> Steps(verb, sel),
               made |-> {}, blind |-> FALSE, result |-> "done"]
    /\ plain' = (plain /\ ~force /\ ~Named(sel))
    /\ UNCHANGED <<disk, records, pin, remote, edits>>

software_materialize(sel) == Start("materialize", sel, FALSE)
software_teardown(sel, force) == Start("teardown", sel, force)

Doing(do) == ~Idle /\ Head(job.todo).do = do
Proceed == job' = [job EXCEPT !.todo = Tail(@)]
Made(c) == job' = [job EXCEPT !.todo = Tail(@), !.made = @ \cup {c}]
Refuse == job' = [job EXCEPT !.todo = Tail(@), !.result = "refused"]

\* An abort refreshes the fingerprint and leaves no receipt.
materialize_abort ==
    /\ job' = [job EXCEPT !.todo = << [do |-> "fingerprint"] >>, !.result = "aborted"]
    /\ UNCHANGED <<disk, records, world>>

Skip == Proceed /\ UNCHANGED <<disk, records, world>>

-----------------------------------------------------------------------------
(* The steps of materialize. *)

\* The worktrees of a component name their store by its path.
CutOff(c) ==
    [w \in Worktree |->
        IF Home(w) = c /\ IsWorktree(w) THEN [tree[w] EXCEPT !.linked = FALSE] ELSE tree[w]]

\* The old layout's `.git` directory becomes `.bare`, unless both exist; only the run
\* that has renamed it goes on to mend the worktrees' links.
MigrateStore ==
    /\ Doing("migrate")
    /\ LET c == Head(job.todo).comp
       IN  \/ "old" \notin store[c] /\ Skip
           \/ /\ "old" \in store[c] /\ "bare" \notin store[c]
              /\ store' = [store EXCEPT ![c] = (@ \ {"old"}) \cup {"bare"}]
              /\ tree' = CutOff(c)
              /\ job' = [job EXCEPT !.todo = << Step("repair", c) >> \o Tail(@)]
              /\ UNCHANGED <<branch, handle, records, world>>
           \/ "old" \in store[c] /\ materialize_abort

\* git worktree repair, whose answer is not looked at.
RepairLinks ==
    /\ Doing("repair")
    /\ \/ tree' = [w \in Worktree |->
                      IF Home(w) = Head(job.todo).comp /\ IsWorktree(w)
                      THEN [tree[w] EXCEPT !.linked = TRUE] ELSE tree[w]]
       \/ UNCHANGED tree
    /\ Proceed
    /\ UNCHANGED <<store, branch, handle, records, world>>

\* A clone brings every branch of the origin; the fetch that makes its
\* tracking refs comes after, and only of a fresh clone.
Clone ==
    /\ Doing("clone")
    /\ LET c == Head(job.todo).comp
       IN  \/ "bare" \in store[c] /\ Skip
           \/ /\ "bare" \notin store[c]
              /\ store' = [store EXCEPT ![c] = @ \cup {"bare"}]
              /\ branch' = [w \in Worktree |->
                              IF Home(w) = c THEN [NoBranch EXCEPT !.head = remote[w]]
                              ELSE branch[w]]
              /\ job' = [job EXCEPT !.todo = << Step("fetch", c) >> \o Tail(@),
                                    !.made = @ \cup {c}]
              /\ UNCHANGED <<tree, handle, records, world>>
           \/ "bare" \notin store[c] /\ materialize_abort

\* What becomes of the fetch is not looked at.
Fetch ==
    /\ Doing("fetch")
    /\ \/ store' = [store EXCEPT ![Head(job.todo).comp] = @ \cup {"tracking"}]
       \/ UNCHANGED store
    /\ Proceed
    /\ UNCHANGED <<branch, tree, handle, records, world>>

\* Unconditional, so that a component without its link heals.
Link ==
    /\ Doing("link")
    /\ \/ /\ store' = [store EXCEPT ![Head(job.todo).comp] = @ \cup {"link"}]
          /\ Proceed
          /\ UNCHANGED <<branch, tree, handle, records, world>>
       \/ "link" \notin store[Head(job.todo).comp] /\ materialize_abort

\* The registrations whose directory is gone.
Prune ==
    /\ Doing("prune")
    /\ LET c == Head(job.todo).comp
       IN  tree' = IF "bare" \notin store[c] THEN tree
                   ELSE [w \in Worktree |->
                           IF Home(w) = c /\ tree[w].place = "lost" THEN NoTree ELSE tree[w]]
    /\ Proceed
    /\ UNCHANGED <<store, branch, handle, records, world>>

\* -B makes the branch or resets it to the pin; a tip keeps the branch it has.
HeadAfterAdd(w) ==
    IF Kind[w] = "tip" /\ ~Named(job.sel) /\ branch[w].head # NoCommit
    THEN branch[w].head ELSE PinOf(w)

\* What is at the path already is kept as it is, whatever it is; git refuses a branch
\* that another directory has checked out, or that it still has a registration for.
add_worktree ==
    /\ Doing("add")
    /\ LET w == Head(job.todo).tree
           at == Target(w, job.sel)
       IN  \/ Exists(w, at) /\ Skip
           \/ /\ ~Exists(w, at)
              /\ tree[w].place = "nowhere"
              /\ at = "inside" => w \notin handle
              /\ tree' = [tree EXCEPT ![w] = [NoTree EXCEPT !.place = at]]
              /\ branch' = [branch EXCEPT ![w].head = HeadAfterAdd(w)]
              /\ job' = [job EXCEPT !.todo = << TreeStep("submodules", w) >> \o Tail(@),
                                    !.made = @ \cup {Home(w)}]
              /\ UNCHANGED <<store, handle, records, world>>
           \/ ~Exists(w, at) /\ materialize_abort

\* The submodules of a worktree just added; whether they came is not looked at, and a
\* worktree that stands is not asked about them again.
FillSubmodules ==
    /\ Doing("submodules")
    /\ \/ tree' = [tree EXCEPT ![Head(job.todo).tree].filled = TRUE]
       \/ UNCHANGED tree
    /\ Proceed
    /\ UNCHANGED <<store, branch, handle, records, world>>

\* Only for a branch whose tracking ref exists; on the skip path too.
ensure_upstream ==
    /\ Doing("upstream")
    /\ LET w == Head(job.todo).tree
           owed == /\ "tracking" \in store[Home(w)]
                   /\ remote[w] # NoCommit
                   /\ ~branch[w].upstream
       IN  \/ ~owed /\ Skip
           \/ /\ owed
              /\ branch' = [branch EXCEPT ![w].upstream = TRUE]
              /\ Proceed
              /\ UNCHANGED <<store, tree, handle, records, world>>
           \/ owed /\ materialize_abort

MakeHandle ==
    /\ Doing("handle")
    /\ LET w == Head(job.todo).tree
           free == w \notin handle /\ tree[w].place # "inside"
       IN  \/ ~free /\ Skip
           \/ /\ free
              /\ handle' = handle \cup {w}
              /\ Made(Home(w))
              /\ UNCHANGED <<store, branch, tree, records, world>>
           \/ free /\ materialize_abort

\* One for each component this run made something of; a receipt that cannot be
\* written is not a failure of the run.
append_materialize_receipt ==
    /\ Doing("receipt")
    /\ LET c == Head(job.todo).comp
       IN  \/ receipt' = IF c \in job.made THEN receipt \cup {c} ELSE receipt
           \/ UNCHANGED receipt
    /\ Proceed
    /\ UNCHANGED <<disk, fingerprint, world>>

worktree_paths == {w \in Asked(job.sel) : Exists(w, "inside")}
write_envhash ==
    /\ Doing("fingerprint")
    /\ \/ fingerprint' = worktree_paths
       \/ UNCHANGED fingerprint
    /\ Proceed
    /\ UNCHANGED <<disk, receipt, world>>

-----------------------------------------------------------------------------
(* The steps of teardown. *)

\* Faulty variant: only the canonical worktree is looked at.
FirstTreeOnly(trees) == {trees[1]}

LookedAt(trees) == Range(trees)

\* The worktrees of the selection that stand are looked at, and the component
\* is condemned when none has unsaved work, or by force.
StandingTrees(c) == {w \in LookedAt(TreesOf(c, job.sel)) : Exists(w, Target(w, job.sel))}
Inspect ==
    /\ Doing("inspect")
    /\ LET c == Head(job.todo).comp
           clear == \A w \in StandingTrees(c) : FALSE \in worktree_unsaved(w)
           unsafe == \E w \in StandingTrees(c) : TRUE \in worktree_unsaved(w)
       IN  \/ ~component_exists(c) /\ Proceed
           \/ /\ component_exists(c)
              /\ job.force \/ clear
              /\ job' = [job EXCEPT !.todo = Condemn(c, job.sel) \o Tail(@)]
           \/ component_exists(c) /\ ~job.force /\ unsafe /\ Refuse
    /\ UNCHANGED <<disk, records, world>>

\* The same with a git that cannot be run, or refuses to look ("blind" is history): what
\* might have stopped the teardown is not seen.
InspectBlind ==
    /\ Doing("inspect")
    /\ LET c == Head(job.todo).comp
       IN  /\ component_exists(c) /\ ~job.force /\ StandingTrees(c) # {}
           /\ job' = [job EXCEPT !.todo = Condemn(c, job.sel) \o Tail(@), !.blind = TRUE]
    /\ plain' = FALSE
    /\ UNCHANGED <<disk, records, pin, remote, edits>>

\* git removes only what is a worktree of the store, by its own link too, and its
\* answer is not looked at.
RemoveTree ==
    /\ Doing("remove")
    /\ LET w == Head(job.todo).tree
       IN  \/ /\ IsWorktree(w) /\ tree[w].linked
              /\ Exists(w, Target(w, job.sel))
              /\ "bare" \in store[Home(w)]
              /\ tree' = [tree EXCEPT ![w] = NoTree]
           \/ UNCHANGED tree
    /\ Proceed
    /\ UNCHANGED <<store, branch, handle, records, world>>

\* Everything under software/<name> goes; a tree in an outside store is left
\* with nothing it belongs to.
Delete ==
    /\ Doing("delete")
    /\ LET c == Head(job.todo).comp
           Left(w) == IF line_target(w) = "outside" /\ Exists(w, "outside")
                      THEN [tree[w] EXCEPT !.place = "hollow"] ELSE NoTree
       IN  \/ /\ store' = [store EXCEPT ![c] = {}]
              /\ branch' = [w \in Worktree |-> IF Home(w) = c THEN NoBranch ELSE branch[w]]
              /\ tree' = [w \in Worktree |-> IF Home(w) = c THEN Left(w) ELSE tree[w]]
              /\ handle' = {w \in handle : Home(w) # c}
              /\ Proceed
           \/ Refuse /\ UNCHANGED disk
    /\ UNCHANGED <<records, world>>

\* Killed between two steps; git, killed in a worktree add, may leave the
\* directory and no worktree in it.
Crash ==
    /\ ~Idle
    /\ job' = NoJob
    /\ \/ UNCHANGED tree
       \/ /\ Doing("add")
          /\ LET w == Head(job.todo).tree
             IN  /\ tree[w].place = "nowhere" /\ Target(w, job.sel) = line_target(w)
                 /\ ~Exists(w, line_target(w))
                 /\ tree' = [tree EXCEPT ![w].place = "hollow"]
    /\ UNCHANGED <<store, branch, handle, records, world>>

-----------------------------------------------------------------------------
(* The operator, between commands. *)

Edit ==
    /\ Idle
    /\ edits < MaxEdits
    /\ edits' = edits + 1
    /\ job' = NoJob
    /\ UNCHANGED <<records, store, handle>>

Change(w) ==
    /\ Edit
    /\ IsWorktree(w)
    /\ tree' = [tree EXCEPT ![w].dirty = TRUE]
    /\ UNCHANGED <<branch, pin, remote, plain>>

\* Committed, and kept here or pushed to the branch's origin.
CommitWork(w, c) ==
    /\ Edit
    /\ IsWorktree(w) /\ tree[w].linked
    /\ tree' = [tree EXCEPT ![w].dirty = FALSE]
    /\ branch' = [branch EXCEPT ![w].head = c]
    /\ remote' = IF c = Mine THEN remote ELSE [remote EXCEPT ![w] = c]
    /\ UNCHANGED <<pin, plain>>

Repin(w, c) ==
    /\ Edit
    /\ pin[w] # c
    /\ pin' = [pin EXCEPT ![w] = c]
    /\ UNCHANGED <<tree, branch, remote, plain>>

\* By hand: git worktree remove, rm -r, or everything in the directory.
RemoveByHand(w, place) ==
    /\ Edit
    /\ IsWorktree(w) /\ ~tree[w].dirty
    /\ place = "hollow" => tree[w].place = line_target(w)
    /\ tree' = [tree EXCEPT ![w].place = place]
    /\ plain' = FALSE
    /\ UNCHANGED <<branch, pin, remote>>

-----------------------------------------------------------------------------
(* A component is absent, or as an earlier release materialized it: its    *)
(* canonical worktree on a bare store named `.git`.  The origin has the    *)
(* canonical branch, and perhaps the others.                               *)
Init ==
    /\ \E c \in Commit :
          /\ pin = [w \in Worktree |-> c]
          /\ remote \in [Worktree -> {c, NoCommit}]
    /\ \A w \in Worktree : Kind[w] = "canonical" => remote[w] # NoCommit
    /\ \E legacy \in SUBSET Component :
          /\ store = [c \in Component |-> IF c \in legacy THEN {"old", "tracking"} ELSE {}]
          /\ LET stands(w) == Kind[w] = "canonical" /\ Home(w) \in legacy
             IN  /\ tree = [w \in Worktree |->
                              IF stands(w) THEN [NoTree EXCEPT !.place = "inside"] ELSE NoTree]
                 /\ branch = [w \in Worktree |->
                              IF stands(w) THEN [NoBranch EXCEPT !.head = pin[w]] ELSE NoBranch]
    /\ handle = {}
    /\ receipt = {}
    /\ fingerprint = {}
    /\ job = NoJob
    /\ edits = 0
    /\ plain = TRUE

Command ==
    \E sel \in Selection :
        software_materialize(sel) \/ \E force \in BOOLEAN : software_teardown(sel, force)

MaterializeStep ==
    \/ MigrateStore \/ RepairLinks \/ Clone \/ Fetch \/ Link \/ add_worktree
    \/ FillSubmodules \/ ensure_upstream \/ MakeHandle \/ append_materialize_receipt \/ write_envhash
TeardownStep == Inspect \/ InspectBlind \/ RemoveTree \/ Delete

Operator ==
    \E w \in Worktree :
        \/ Change(w)
        \/ \E c \in (Commit \cup {Mine}) \ {branch[w].head} : CommitWork(w, c)
        \/ \E c \in Commit : Repin(w, c)
        \/ \E place \in {"nowhere", "lost", "hollow"} : RemoveByHand(w, place)

Next == Command \/ MaterializeStep \/ Prune \/ TeardownStep \/ Crash \/ Operator
Spec == Init /\ [][Next]_vars
=============================================================================
