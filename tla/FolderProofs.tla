----------------------------- MODULE FolderProofs -----------------------------
(***************************************************************************)
(* The operator's files, for any number of them, of rooms, of rules and of *)
(* interruptions: no command takes a text away that no commit holds.       *)
(***************************************************************************)
EXTENDS FolderProperties, FiniteSetTheorems, TLAPS

-----------------------------------------------------------------------------
(* The inductive invariant. *)

Step == File \cup GIT
Typed == job \in Seq(Step) /\ DOMAIN work = File

\* The history holds what the last commit holds.
Archived == \A f \in File : head[f] # Absent => <<f, head[f]>> \in archive

\* A text that a command may write over.
Held(f) == work[f] \in {Absent, Torn} \/ <<f, work[f]>> \in archive \/ f \in edited \cup Ignored

\* The files a remap has still to come to are held, and it comes to each but once.
Ahead ==
    command = "remap" =>
        /\ \A f \in File, i \in DOMAIN job : job[i] = f => Held(f)
        /\ \A i, j \in DOMAIN job : job[i] = job[j] => i = j

\* No step is there twice.
OnceEach == \A i, j \in DOMAIN job : job[i] = job[j] => i = j

Kept == Typed /\ Archived /\ Ahead

-----------------------------------------------------------------------------
(* The steps of a command. *)

\* A finite set as a sequence: its elements, each once.
LEMMA EachOnce ==
    ASSUME NEW S, IsFiniteSet(S)
    PROVE  /\ SetToSeq(S) \in Seq(S)
           /\ \A i, j \in DOMAIN SetToSeq(S) : SetToSeq(S)[i] = SetToSeq(S)[j] => i = j
<1> DEFINE n == Cardinality(S)
<1>1. n \in Nat /\ ExistsBijection(1 .. n, S)
  BY FS_CardinalityType
<1>2. \E f \in [1 .. n -> S] : IsInjective(f)
  BY <1>1 DEF ExistsBijection, Bijection, Injection
<1>3. SetToSeq(S) \in [1 .. n -> S] /\ IsInjective(SetToSeq(S))
  BY <1>2 DEF SetToSeq
<1>4. SetToSeq(S) \in Seq(S)
  BY <1>1, <1>3
<1> QED BY <1>3, <1>4 DEF IsInjective

\* Onboarding's steps are files and git steps.
LEMMA OnboardingSteps ==
    ASSUME NEW no_git \in BOOLEAN
    PROVE  /\ scaffold_rooms_stamp \in Seq(Step)
           /\ create_project \o finalize_onboarding(no_git) \in Seq(Step)
           /\ scaffold_rooms_stamp \o <<"MEMORY.md">> \o finalize_onboarding(no_git) \in Seq(Step)
<1> DEFINE Others == Step
<1>1. ROOMS \subseteq Others /\ {STAMP, "LEXICON", "README.md", "MEMORY.md"} \subseteq Others
      /\ GIT \subseteq Others
  BY FolderAssumption DEF SCAFFOLD, File, Step
<1>2. SetToSeq(ROOMS) \in Seq(Others)
  <2>1. IsFiniteSet(ROOMS)
    BY FolderAssumption, FS_Subset DEF File, SCAFFOLD
  <2>2. SetToSeq(ROOMS) \in Seq(ROOMS)
    BY <2>1, EachOnce
  <2> QED BY <1>1, <2>2
<1>3. <<STAMP, "LEXICON">> \in Seq(Others) /\ <<"README.md", "MEMORY.md">> \in Seq(Others)
      /\ <<"MEMORY.md">> \in Seq(Others)
  BY <1>1
<1> HIDE DEF Others
<1>4. finalize_onboarding(no_git) \in Seq(Others)
  <2>1. << >> \in Seq(Others)
    OBVIOUS
  <2>2. "git add" \in Others /\ "git commit" \in Others /\ "remote" \in Others
    BY <1>1 DEF GIT
  <2> DEFINE a == "git add"
             c == "git commit"
             r == "remote"
  <2>3. a \in Others /\ c \in Others /\ r \in Others
    BY <2>2
  <2> HIDE DEF a, c, r
  <2>4. <<a, c, r>> \in Seq(Others)
    BY <2>3
  <2>5. <<"git add", "git commit", "remote">> \in Seq(Others)
    BY <2>4 DEF a, c, r
  <2> QED BY <2>1, <2>5 DEF finalize_onboarding
<1>5. scaffold_rooms_stamp \in Seq(Others)
  BY <1>2, <1>3 DEF scaffold_rooms_stamp
<1>6. create_project \in Seq(Others)
  BY <1>3, <1>5 DEF create_project
<1>7. create_project \o finalize_onboarding(no_git) \in Seq(Others)
  BY <1>4, <1>6
<1>8. scaffold_rooms_stamp \o <<"MEMORY.md">> \o finalize_onboarding(no_git) \in Seq(Others)
  BY <1>3, <1>4, <1>5
<1> QED BY <1>5, <1>7, <1>8 DEF Others

\* What the next step leaves to do.
LEMMA TailIs ==
    ASSUME job \in Seq(Step), job # << >>
    PROVE  /\ Tail(job) \in Seq(Step) /\ Tail(job) # job
           /\ 1 \in DOMAIN job /\ Head(job) = job[1]
           /\ \A i \in DOMAIN Tail(job) : i + 1 \in DOMAIN job /\ Tail(job)[i] = job[i + 1] /\ i + 1 # 1
<1>1. Len(job) \in Nat \ {0} /\ Tail(job) \in Seq(Step) /\ Len(Tail(job)) = Len(job) - 1
  OBVIOUS
<1>2. ASSUME Tail(job) = job
      PROVE  FALSE
  <2>1. Len(job) = Len(job) - 1
    BY <1>1, <1>2
  <2> QED BY <1>1, <2>1
<1>3. DOMAIN Tail(job) = 1 .. Len(job) - 1 /\ DOMAIN job = 1 .. Len(job)
  BY <1>1
<1>4. 1 \in DOMAIN job /\ Head(job) = job[1]
  BY <1>1, <1>3
<1>5. ASSUME NEW i \in DOMAIN Tail(job)
      PROVE  i + 1 \in DOMAIN job /\ i + 1 # 1 /\ Tail(job)[i] = job[i + 1]
  BY <1>1, <1>3
<1> QED BY <1>1, <1>2, <1>4, <1>5

-----------------------------------------------------------------------------
(* The invariant is inductive. *)

\* A command that goes on, or is over, has no more notes to come to than before.
LEMMA GoesOn ==
    ASSUME job \in Seq(Step), job # << >>, job' \in {Tail(job), << >>}
    PROVE  /\ job' \in Seq(Step) /\ job' # job
           /\ \A i \in DOMAIN job' : \E k \in DOMAIN job : k # 1 /\ job'[i] = job[k]
           /\ OnceEach => \A i, j \in DOMAIN job' : job'[i] = job'[j] => i = j
<1>2. CASE job' = << >>
  BY <1>2
<1>3. CASE job' = Tail(job)
  <2>1. OnceEach => \A i, j \in DOMAIN job' : job'[i] = job'[j] => i + 1 = j + 1
    BY <1>3, TailIs DEF OnceEach
  <2>2. DOMAIN job' \subseteq Int
    BY <1>3, TailIs
  <2>3. \A i, j \in DOMAIN job' : i + 1 = j + 1 => i = j
    BY <2>2
  <2> QED BY <1>3, <2>1, <2>3, TailIs
<1> QED BY <1>2, <1>3

\* Onboarding begins, and has no file to rename.
LEMMA Begins ==
    ASSUME Kept, NEW steps \in Seq(Step), Run("onboarding", steps)
    PROVE  Kept'
BY DEF Run, git, Kept, Typed, Archived, Ahead

\* Remap begins, on a clean tree: what it has to come to is held.
LEMMA RemapBegins ==
    ASSUME Kept, remap_apply
    PROVE  Kept'
<1>1. Targets \subseteq File /\ \A f \in Targets : work[f] # Absent /\ f \in Own
  BY DEF Targets, collect_files, is_target, exists
<1>2. IsFiniteSet(Targets)
  BY <1>1, FolderAssumption, FS_Subset
<1>3. job' \in Seq(Targets) /\ \A i, j \in DOMAIN job' : job'[i] = job'[j] => i = j
  BY <1>2, EachOnce DEF remap_apply, Run
<1>4. job' \in Seq(Step) /\ \A i \in DOMAIN job' : job'[i] \in Targets
  BY <1>1, <1>3 DEF Step
<1>5. \A f \in Targets : <<f, work[f]>> \in archive \/ f \in Ignored
  <2> SUFFICES ASSUME NEW f \in Targets, f \notin Ignored
               PROVE  <<f, work[f]>> \in archive
    OBVIOUS
  <2>1. f \in File /\ f \notin ROOMS
    BY <1>1, FolderAssumption DEF File, SCAFFOLD, Own, STAMP
  <2>2. work[f] = head[f]
    BY <2>1 DEF remap_apply, require_clean_git
  <2> QED BY <1>1, <2>1, <2>2 DEF Kept, Archived
<1> QED BY <1>3, <1>4, <1>5 DEF remap_apply, Run, git, Kept, Typed, Archived, Ahead, Held

\* One file is written, in its turn.
LEMMA Writes ==
    ASSUME Kept, NEW f \in File, Due(f), NEW text, Write(f, text) \/ (Done /\ UNCHANGED work),
           UNCHANGED <<head, archive, edited, command>>
    PROVE  Kept' /\ \A g \in File : g # f => work'[g] = work[g]
<1>1. job # << >> /\ job \in Seq(Step) /\ Head(job) = f /\ DOMAIN work = File
  BY DEF Due, Idle, Kept, Typed
<1>2. job' \in {Tail(job), << >>}
  BY DEF Write, Done
<1>3. DOMAIN work' = File /\ \A g \in File : g # f => work'[g] = work[g]
  BY <1>1 DEF Write
<1>4. command = "remap" => \A k \in DOMAIN job : k # 1 => job[k] # f
  BY <1>1, TailIs DEF Kept, Ahead
<1>5. ASSUME command = "remap", NEW g \in File, NEW i \in DOMAIN job', job'[i] = g
      PROVE  Held(g)'
  <2>1. PICK k \in DOMAIN job : k # 1 /\ job[k] = g
    BY <1>1, <1>2, <1>5, GoesOn
  <2>2. Held(g) /\ work'[g] = work[g]
    BY <1>3, <1>4, <1>5, <2>1 DEF Kept, Ahead
  <2> QED BY <2>2 DEF Held
<1>6. Ahead'
  <2>1. OnceEach => \A i, j \in DOMAIN job' : job'[i] = job'[j] => i = j
    BY <1>1, <1>2, GoesOn
  <2> QED BY <1>5, <2>1 DEF Kept, Ahead, OnceEach
<1> QED BY <1>1, <1>2, <1>3, <1>6, GoesOn DEF Kept, Typed, Archived

\* An edit while a command runs is the operator's own loss.
LEMMA Edits ==
    ASSUME Kept, NEW f, NEW text, Edit(f, text)
    PROVE  Kept'
<1>1. DOMAIN work' = File /\ \A g \in File : g # f => work'[g] = work[g]
  BY DEF Edit, Kept, Typed
<1>2. UNCHANGED <<job, command, head, archive>> /\ (edited' = edited \/ edited' = edited \cup {f})
      /\ (job # << >> => edited' = edited \cup {f})
  BY DEF Edit, git, Idle
<1>3. ASSUME command = "remap", NEW g \in File, NEW i \in DOMAIN job', job'[i] = g
      PROVE  Held(g)'
  <2>1. Held(g) /\ edited' = edited \cup {f}
    BY <1>2, <1>3 DEF Kept, Ahead
  <2>2. CASE g = f
    BY <2>1, <2>2 DEF Held
  <2>3. CASE g # f
    <3>1. work'[g] = work[g]
      BY <1>1, <2>3
    <3> QED BY <1>2, <2>1, <3>1 DEF Held
  <2> QED BY <2>2, <2>3
<1> QED BY <1>1, <1>2, <1>3 DEF Kept, Typed, Archived, Ahead

\* A commit, whatever it takes, adds to the history.
LEMMA Commits ==
    ASSUME Kept, NEW staged, Committed(staged) \/ UNCHANGED <<head, archive>>, UNCHANGED <<work, command, edited>>,
           job' = job \/ (job # << >> /\ job' \in {Tail(job), << >>})
    PROVE  Kept'
<1>1. archive \subseteq archive' /\ Archived'
  BY DEF Committed, Kept, Archived
<1>2. /\ job' \in Seq(Step)
      /\ \A i \in DOMAIN job' : \E k \in DOMAIN job : job'[i] = job[k]
      /\ OnceEach => \A i, j \in DOMAIN job' : job'[i] = job'[j] => i = j
  BY GoesOn DEF Kept, Typed, OnceEach
<1>3. ASSUME command = "remap", NEW g \in File, NEW i \in DOMAIN job', job'[i] = g
      PROVE  Held(g)'
  <2>1. Held(g)
    BY <1>2, <1>3 DEF Kept, Ahead
  <2> QED BY <1>1, <2>1 DEF Held
<1> QED BY <1>1, <1>2, <1>3 DEF Kept, Typed, Ahead, OnceEach

\* What every step keeps.
LEMMA StepKept ==
    ASSUME Kept, [Next]_vars
    PROVE  Kept'
<1>1. CASE scaffold \/ \E force, no_git \in BOOLEAN : init(force, no_git) \/ adopt(force, no_git)
  BY <1>1, OnboardingSteps, Begins DEF scaffold, init, adopt
<1>2. CASE remap_apply
  BY <1>2, RemapBegins
<1>3. CASE seed
  <2>1. PICK f \in SCAFFOLD : Due(f) /\ (Write(f, Seed) \/ (Done /\ UNCHANGED work))
    BY <1>3 DEF seed
  <2> QED BY <1>3, <2>1, Writes DEF seed, git, File
<1>4. CASE remap
  <2>1. PICK f \in Own : Due(f) /\ (Write(f, apply_text(work[f])) \/ (Done /\ UNCHANGED work))
    BY <1>4 DEF remap
  <2>2. f \in File
    BY DEF Own, File, SCAFFOLD
  <2> QED BY <1>4, <2>1, <2>2, Writes DEF remap, git
<1>5. CASE git_add \/ git_commit \/ github_create_push \/ Kill \/ Stage \/ CommitAll
  BY <1>5, Commits DEF git_add, git_commit, github_create_push, Kill, Stage, CommitAll, Due, Done, Exit,
                       Idle, git
<1>6. CASE WriteOwn \/ Restore
  BY <1>6, Edits DEF WriteOwn, Restore
<1>7. CASE UNCHANGED vars
  BY <1>7 DEF vars, git, Kept, Typed, Archived, Ahead, Held
<1> QED BY <1>1, <1>2, <1>3, <1>4, <1>5, <1>6, <1>7 DEF Next

\* Through every command, failure, kill and change of the operator's.
LEMMA KeptInv == Spec => []Kept
<1>1. Init => Kept
  <2> SUFFICES ASSUME Init
               PROVE  Kept
    OBVIOUS
  <2>1. job \in Seq(Step) /\ DOMAIN job = {}
    <3>1. << >> \in Seq(Step)
      OBVIOUS
    <3> QED BY <3>1 DEF Init
  <2> QED BY <2>1 DEF Init, Kept, Typed, Archived, Ahead
<1>2. Kept /\ [Next]_vars => Kept'
  BY StepKept
<1> QED BY <1>1, <1>2, PTL DEF Spec

\* However often scaffold, init, adopt and remap are run, fail half-way or are killed,
\* and whatever the operator had staged, edited or left untracked, a step of theirs
\* takes no text of his away that the history does not hold, but for a note that git
\* ignores and for one he changed meanwhile.
THEOREM NothingIsLost == Spec => NothingLost
<1> DEFINE Spares == \A f \in File \ {STAMP} : work'[f] # work[f] =>
                        \/ work[f] \in {Absent, Torn} \/ <<f, work[f]>> \in archive
                        \/ f \in edited \cup Ignored
<1>1. ASSUME Kept, [Next]_vars, job' # job
      PROVE  Spares
  <2>1. CASE work' = work
    BY <2>1
  <2>2. CASE seed /\ work' # work
    <3>1. PICK f \in SCAFFOLD : Due(f) /\ Write(f, Seed) /\ (f = STAMP \/ work[f] = Absent)
      BY <2>2 DEF seed, exists
    <3>2. \A g \in File : g # f => work'[g] = work[g]
      BY <2>2, <3>1, <1>1, Writes DEF seed, git, File
    <3> QED BY <3>1, <3>2
  <2>3. CASE remap
    <3>1. PICK f \in Own : Due(f) /\ (Write(f, apply_text(work[f])) \/ (Done /\ UNCHANGED work))
      BY <2>3 DEF remap
    <3>4. f \in File
      BY DEF Own, File, SCAFFOLD
    <3>2. \A g \in File : g # f => work'[g] = work[g]
      BY <2>3, <3>1, <3>4, <1>1, Writes DEF remap, git
    <3>3. Held(f)
      BY <1>1, <2>3, <3>1, <3>4, TailIs DEF remap, Due, Idle, Kept, Typed, Ahead
    <3> QED BY <3>2, <3>3 DEF Held
  <2> QED BY <1>1, <2>1, <2>2, <2>3 DEF Next, scaffold, init, adopt, remap_apply, Run, git_add, git_commit,
        github_create_push, Kill, WriteOwn, Restore, Edit, Stage, CommitAll, vars
<1>2. Kept /\ [Next]_vars => [job' # job => Spares]_vars
  BY <1>1
<1> QED BY <1>2, KeptInv, PTL DEF Spec, NothingLost
=============================================================================
