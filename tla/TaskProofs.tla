----------------------------- MODULE TaskProofs -----------------------------
(***************************************************************************)
(* The task graph, for any number of milestones, headings, tasks, inputs   *)
(* and decisions: a graph the checks pass can always go on, and what the   *)
(* gate takes for done or fresh was vouched for.                           *)
(***************************************************************************)
EXTENDS TaskProperties, FiniteSetTheorems, WellFoundedInduction, TLAPS

-----------------------------------------------------------------------------
(* The documents stay lists of headings, whatever is edited. *)

Documents == doc \in [Plan -> Seq(HeadingLine)]

\* An edited heading is a heading.
LEMMA RewordStep ==
    ASSUME Documents, NEW p \in Plan, NEW i \in DOMAIN doc[p], Reword(p, i)
    PROVE  Documents'
<1> DEFINE line == doc[p][i]
<1>1. line \in HeadingLine /\ doc[p] \in Seq(HeadingLine)
  BY DEF Documents
<1>2. ASSUME NEW h \in HeadingLine, doc' = [doc EXCEPT ![p][i] = h]
      PROVE  Documents'
  <2>1. [doc[p] EXCEPT ![i] = h] \in Seq(HeadingLine)
    BY <1>1
  <2> QED BY <2>1, <1>2 DEF Documents
<1>3. \A v \in VerifyLine : [line EXCEPT !.verify = v] \in HeadingLine
  BY <1>1 DEF HeadingLine
<1>4. \A l \in Seq(Input) : [line EXCEPT !.inputs = l] \in HeadingLine
  BY <1>1 DEF HeadingLine
<1>5. \A a \in Anchor \cup {NoAnchor} : [line EXCEPT !.anchor = a] \in HeadingLine
  BY <1>1 DEF HeadingLine
<1>6. [line EXCEPT !.band = ~@] \in HeadingLine /\ [line EXCEPT !.in_build_seq = ~@] \in HeadingLine
  BY <1>1 DEF HeadingLine
<1> QED BY <1>2, <1>3, <1>4, <1>5, <1>6, TaskAssumption DEF Reword, EditHeading

LEMMA DocumentsInv == Spec => []Documents
<1>1. Init => Documents
  BY TaskAssumption DEF Init, Documents
<1>2. ASSUME Documents, [Next]_vars
      PROVE  Documents'
  <2>1. CASE Record
    <3>1. ASSUME NEW t \in Named, NEW digests \in BOOLEAN, record_done(t, digests)
          PROVE  UNCHANGED doc
      BY <3>1 DEF record_done
    <3>2. ASSUME NEW t \in Named, NEW d \in Decision, record_skip(t, d)
          PROVE  UNCHANGED doc
      BY <3>2 DEF record_skip
    <3> QED BY <2>1, <3>1, <3>2, <1>2 DEF Record, Documents
  <2>2. CASE Rederive
    <3>1. tasks_rederive => UNCHANGED doc
      BY DEF tasks_rederive
    <3>2. run_recheck \/ Stop => UNCHANGED doc
      BY DEF run_recheck, Stop
    <3>3. append_task_receipt => UNCHANGED doc
      BY DEF append_task_receipt
    <3> QED BY <2>2, <3>1, <3>2, <3>3, <1>2 DEF Rederive, Documents
  <2>3. CASE Operator
    <3>1. ASSUME NEW p \in Plan, NEW i \in DOMAIN doc[p], Reword(p, i)
          PROVE  Documents'
      BY <3>1, <1>2, RewordStep
    <3>2. ASSUME NEW p \in Plan, SetStatus(p)
          PROVE  Documents'
      BY <3>2, <1>2 DEF SetStatus, Documents
    <3>3. ASSUME NEW i \in Input, EditInput(i)
          PROVE  Documents'
      BY <3>3, <1>2 DEF EditInput, Documents
    <3>4. ASSUME NEW d \in Decision, RemoveDecision(d)
          PROVE  Documents'
      BY <3>4, <1>2 DEF RemoveDecision, Documents
    <3> QED BY <2>3, <3>1, <3>2, <3>3, <3>4 DEF Operator
  <2>4. CASE UNCHANGED vars
    BY <1>2, <2>4 DEF vars, Documents
  <2> QED BY <1>2, <2>1, <2>2, <2>3, <2>4 DEF Next
<1> QED BY <1>1, <1>2, PTL DEF Spec

-----------------------------------------------------------------------------
(* Every receipt was vouched for. *)

\* Some voucher is the receipt's own: of its key and disposition, for a done of
\* its verify and files, and, unless an edit raced, of what its digest was taken of.
Vouchsafed(k) ==
    receipt[k] # NoReceipt =>
        \E v \in vouched :
            /\ v.key = k
            /\ v.disposition = receipt[k].disposition
            /\ receipt[k].disposition \in {"done", "skip"}
            /\ receipt[k].disposition = "done" =>
                  /\ v.verify = receipt[k].verify /\ v.inputs = receipt[k].inputs
                  /\ receipt[k].digest # NoDigest /\ ~raced => v.saw = receipt[k].digest

\* What a re-derivation saw when the command ran is what stands when it hashes.
SawWhatStands ==
    /\ job = [at |-> job.at, todo |-> job.todo, saw |-> job.saw]
    /\ job.at = "append" /\ ~raced => job.saw = Contents(Head(job.todo).inputs)

Receipted ==
    /\ receipt = [k \in Key |-> receipt[k]]
    /\ \A k \in Key : Vouchsafed(k)
    /\ SawWhatStands

\* A receipt written with its voucher leaves every receipt vouched for.
LEMMA StanzaStep ==
    ASSUME Receipted, NEW key, NEW r, Stanza(key, r), vouched \subseteq vouched', raced' = raced,
           NEW v \in vouched', v.key = key, v.disposition = r.disposition,
           r.disposition \in {"done", "skip"},
           r.disposition = "done" =>
              /\ v.verify = r.verify /\ v.inputs = r.inputs
              /\ r.digest # NoDigest /\ ~raced => v.saw = r.digest
    PROVE  receipt' = [k \in Key |-> receipt'[k]] /\ \A k \in Key : Vouchsafed(k)'
<1>1. receipt' = [receipt EXCEPT ![key] = r]
  BY DEF Stanza
<1>2. receipt' = [k \in Key |-> receipt'[k]]
      /\ \A k \in Key : receipt'[k] = IF k = key THEN r ELSE receipt[k]
  BY <1>1 DEF Receipted
<1>3. ASSUME NEW k \in Key
      PROVE  Vouchsafed(k)'
  <2>1. CASE k = key
    BY <1>2, <2>1 DEF Vouchsafed
  <2>2. CASE k # key
    BY <1>2, <2>2 DEF Vouchsafed, Receipted
  <2> QED BY <2>1, <2>2
<1> QED BY <1>2, <1>3

\* And a step that writes none leaves them as they were.
LEMMA NoStanzaStep ==
    ASSUME Receipted, UNCHANGED <<receipt, vouched>>, raced => raced'
    PROVE  receipt' = [k \in Key |-> receipt'[k]] /\ \A k \in Key : Vouchsafed(k)'
BY DEF Receipted, Vouchsafed

LEMMA ReceiptedInv == Spec => []Receipted
<1>1. Init => Receipted
  BY DEF Init, Receipted, Vouchsafed, SawWhatStands, Idle
<1>2. ASSUME Receipted, [Next]_vars
      PROVE  Receipted'
  <2> USE <1>2
  <2>1. ASSUME NEW t \in Named, NEW digests \in BOOLEAN, record_done(t, digests)
        PROVE  Receipted'
    <3> DEFINE v == [key |-> t.key, disposition |-> "done", verify |-> t.verify,
                     inputs |-> t.inputs, saw |-> Contents(t.inputs)]
               r == [disposition |-> "done", verify |-> t.verify, inputs |-> t.inputs, reason |-> "none",
                     digest |-> IF digests /\ t.inputs # << >> /\ t.verify[1] = "command"
                                THEN input_digest(t.inputs) ELSE NoDigest]
    <3>1. v \in vouched' /\ vouched \subseteq vouched' /\ Stanza(t.key, r)
      BY <2>1 DEF record_done, Vouch
    <3>2. r.digest # NoDigest => v.saw = r.digest
      BY DEF Contents, input_digest
    <3>3. UNCHANGED <<job, raced, content>>
      BY <2>1 DEF record_done
    <3>4. receipt' = [k \in Key |-> receipt'[k]] /\ \A k \in Key : Vouchsafed(k)'
      BY <3>1, <3>2, <3>3, StanzaStep
    <3> QED BY <3>3, <3>4 DEF Receipted, SawWhatStands, Contents
  <2>2. ASSUME NEW t \in Named, NEW d \in Decision, record_skip(t, d)
        PROVE  Receipted'
    <3> DEFINE v == [key |-> t.key, disposition |-> "skip", verify |-> t.verify,
                     inputs |-> t.inputs, saw |-> << >>]
               r == [NoReceipt EXCEPT !.disposition = "skip", !.reason = d]
    <3>1. v \in vouched' /\ vouched \subseteq vouched' /\ Stanza(t.key, r) /\ r.disposition = "skip"
      BY <2>2 DEF record_skip, Vouch, NoReceipt
    <3>2. UNCHANGED <<job, raced, content>>
      BY <2>2 DEF record_skip
    <3> HIDE DEF r
    <3>3. receipt' = [k \in Key |-> receipt'[k]] /\ \A k \in Key : Vouchsafed(k)'
      BY <3>1, <3>2, StanzaStep
    <3> QED BY <3>2, <3>3 DEF Receipted, SawWhatStands, Contents
  <2>3. CASE tasks_rederive
    BY <2>3, NoStanzaStep DEF tasks_rederive, Receipted, SawWhatStands
  <2>4. CASE run_recheck
    <3>1. CASE job' = Onward
      BY <2>4, <3>1, NoStanzaStep DEF run_recheck, Receipted, SawWhatStands, Onward, Idle
    <3>2. CASE job' = [job EXCEPT !.at = "append", !.saw = Contents(Head(job.todo).inputs)]
      <4>1. job' = [at |-> "append", todo |-> job.todo, saw |-> Contents(Head(job.todo).inputs)]
        BY <3>2 DEF Receipted, SawWhatStands
      <4>2. SawWhatStands'
        BY <2>4, <4>1 DEF run_recheck, SawWhatStands, Contents
      <4> QED BY <2>4, <4>2, NoStanzaStep DEF run_recheck, Receipted
    <3> QED BY <2>4, <3>1, <3>2 DEF run_recheck
  <2>5. CASE append_task_receipt
    <3> DEFINE t == Head(job.todo)
               v == [key |-> t.key, disposition |-> "done", verify |-> t.verify,
                     inputs |-> t.inputs, saw |-> job.saw]
               r == [disposition |-> "done", verify |-> t.verify, inputs |-> t.inputs, reason |-> "none",
                     digest |-> IF t.inputs # << >> /\ Hashable(t.inputs)
                                THEN input_digest(t.inputs) ELSE NoDigest]
    <3>1. v \in vouched' /\ vouched \subseteq vouched' /\ Stanza(t.key, r)
      BY <2>5 DEF append_task_receipt, Vouch
    <3>2. r.digest # NoDigest /\ ~raced => v.saw = r.digest
      BY <2>5 DEF append_task_receipt, Receipted, SawWhatStands, Contents, input_digest
    <3>3. raced' = raced /\ SawWhatStands'
      BY <2>5 DEF append_task_receipt, SawWhatStands, Onward, Idle
    <3>4. receipt' = [k \in Key |-> receipt'[k]] /\ \A k \in Key : Vouchsafed(k)'
      BY <3>1, <3>2, <3>3, StanzaStep
    <3> QED BY <3>3, <3>4 DEF Receipted
  <2>6. CASE Stop
    BY <2>6, NoStanzaStep DEF Stop, Receipted, SawWhatStands, Idle
  <2>7. CASE Operator
    <3>1. UNCHANGED <<receipt, vouched, job>> /\ (raced => raced') /\ (~raced' => ~raced)
          /\ (content' = content \/ (~raced' => job = Idle))
      BY <2>7 DEF Operator, Reword, EditHeading, SetStatus, EditInput, RemoveDecision, Edit
    <3>2. SawWhatStands'
      BY <3>1 DEF Receipted, SawWhatStands, Contents, Idle
    <3> QED BY <3>1, <3>2, NoStanzaStep DEF Receipted
  <2>8. CASE UNCHANGED vars
    BY <2>8, NoStanzaStep DEF vars, Receipted, SawWhatStands, Contents
  <2> QED BY <2>1, <2>2, <2>3, <2>4, <2>5, <2>6, <2>7, <2>8 DEF Next, Record, Rederive
<1> QED BY <1>1, <1>2, PTL DEF Spec

\* A parsed task has a key, and stands where its heading does.
LEMMA TaskAt ==
    ASSUME Documents, NEW t \in parse_tasks
    PROVE  /\ t.at \in Places /\ t.key = KeyAt(t.at) /\ t.key \in Key
           /\ t.at[1] \in Plan /\ t.at[2] \in DOMAIN doc[t.at[1]] /\ t.key[1] = t.at[1]
<1>1. t.at \in Places /\ t.key = KeyAt(t.at)
  BY DEF parse_tasks
<1>2. \E p \in Plan : \E i \in DOMAIN doc[p] : t.at = <<p, i>> /\ IsTask(doc[p][i])
  BY <1>1 DEF Places
<1> PICK p \in Plan : \E i \in DOMAIN doc[p] : t.at = <<p, i>> /\ IsTask(doc[p][i])
  BY <1>2
<1>3. PICK i \in DOMAIN doc[p] : t.at = <<p, i>> /\ IsTask(doc[p][i])
  OBVIOUS
<1>4. doc[p][i] \in HeadingLine
  BY DEF Documents
<1>5. t.at[1] = p /\ t.at[2] = i /\ t.key = <<p, doc[p][i].anchor>>
  BY <1>1, <1>3 DEF KeyAt
<1>6. doc[p][i].anchor \in Anchor
  BY <1>3, <1>4 DEF HeadingLine, IsTask
<1> QED BY <1>1, <1>5, <1>6 DEF Key

\* A milestone that is complete under a clean gate owes nothing (GateStands).
THEOREM CompleteOwesNothing == Spec => []GateStands
<1>1. Documents /\ Receipted => GateStands
  <2> SUFFICES ASSUME Documents, Receipted, task_check_clean,
                      NEW t \in parse_tasks, t.key[1] \in complete
               PROVE  \E v \in vouched : v.key = t.key
                                         /\ (v.disposition = "skip" \/ v.verify = t.verify)
    BY DEF GateStands
  <2>1. t.key \in Key
    BY TaskAt
  <2>2. receipt[t.key] # NoReceipt /\ task_verdict(t, receipt[t.key])
    BY DEF task_check_clean, task_gate
  <2>3. Vouchsafed(t.key)
    BY <2>1 DEF Receipted
  <2> QED BY <2>2, <2>3 DEF Vouchsafed, task_verdict, done_verdict, SameVerify
<1> QED BY <1>1, DocumentsInv, ReceiptedInv, PTL

\* What the gate takes for fresh was vouched for on the contents its inputs have,
\* and on these files if the receipt names them (FreshMeansVouched).
THEOREM FreshWasVouched == Spec => []FreshMeansVouched
<1>1. Documents /\ Receipted => FreshMeansVouched
  <2> SUFFICES ASSUME Documents, Receipted, task_check_clean, ~raced,
                      NEW t \in parse_tasks,
                      receipt[t.key].disposition = "done" /\ t.verify[1] = "command",
                      t.inputs # << >> /\ receipt[t.key].digest # NoDigest
               PROVE  \E v \in vouched :
                          /\ v.key = t.key /\ v.verify = t.verify
                          /\ v.saw = Contents(t.inputs)
                          /\ receipt[t.key].inputs = t.inputs => v.inputs = t.inputs
    BY DEF FreshMeansVouched
  <2>1. t.key \in Key
    BY TaskAt
  <2>2. receipt[t.key] # NoReceipt
    BY DEF NoReceipt
  <2>3. done_verdict(t, receipt[t.key])
    BY <2>2 DEF task_check_clean, task_gate, task_verdict
  <2>4. Contents(t.inputs) = receipt[t.key].digest /\ t.verify = receipt[t.key].verify
    BY <2>3 DEF done_verdict, SameVerify, Contents, input_digest
  <2>5. Vouchsafed(t.key)
    BY <2>1 DEF Receipted
  <2> QED BY <2>2, <2>4, <2>5 DEF Vouchsafed
<1> QED BY <1>1, DocumentsInv, ReceiptedInv, PTL

-----------------------------------------------------------------------------
(* A graph that has no residue can be worked through.  What no round removes *)
(* is the largest set of tasks each of which waits for another of the set.   *)

\* No round removes a task of a set that is stuck.
LEMMA StuckIsNeverReady ==
    ASSUME NEW left, NEW S \in SUBSET left, Ready(S) = {}
    PROVE  S \subseteq left \ Ready(left)
BY DEF Ready

\* The rounds' recursion has a solution, so Residue is one: the union of the
\* stuck sets solves it, whatever the tasks.
LEMMA ResidueRounds ==
    ASSUME NEW left \in SUBSET parse_tasks
    PROVE  Residue[left] = IF Ready(left) = {} THEN left ELSE Residue[left \ Ready(left)]
<1> DEFINE F(f) == [x \in SUBSET parse_tasks |->
                      LET ready == Ready(x) IN IF ready = {} THEN x ELSE f[x \ ready]]
           G == [x \in SUBSET parse_tasks |-> UNION {S \in SUBSET x : Ready(S) = {}}]
<1>1. ASSUME NEW x \in SUBSET parse_tasks
      PROVE  G[x] = IF Ready(x) = {} THEN x ELSE G[x \ Ready(x)]
  <2>1. CASE Ready(x) = {}
    BY <2>1
  <2>2. CASE Ready(x) # {}
    <3>1. {S \in SUBSET x : Ready(S) = {}} = {S \in SUBSET (x \ Ready(x)) : Ready(S) = {}}
      BY StuckIsNeverReady
    <3>2. x \ Ready(x) \in SUBSET parse_tasks
      OBVIOUS
    <3> QED BY <2>2, <3>1, <3>2
  <2> QED BY <2>1, <2>2
<1>2. G = F(G)
  BY <1>1
<1> HIDE DEF G
<1>3. Residue = CHOOSE f : f = F(f)
  BY DEF Residue
<1>4. Residue = F(Residue)
  BY <1>2, <1>3
<1> QED BY <1>4

\* Of finitely many tasks, a stuck set is never worn away.
LEMMA StuckStays ==
    ASSUME NEW R \in SUBSET parse_tasks, IsFiniteSet(R), NEW S \in SUBSET R, Ready(S) = {}
    PROVE  S \subseteq Residue[R]
<1> DEFINE Worn == {L \in SUBSET R : S \subseteq L /\ ~(S \subseteq Residue[L])}
<1>1. IsWellFoundedOn(StrictSubsetOrdering(R), SUBSET R)
  BY FS_StrictSubsetOrderingWellFounded, FS_FiniteSubsetsOfFinite
<1>2. SUFFICES ASSUME Worn # {}
               PROVE  FALSE
  OBVIOUS
<1>3. PICK L \in Worn : \A K \in Worn : <<K, L>> \notin StrictSubsetOrdering(R)
  <2> HIDE DEF Worn
  <2>1. Worn \subseteq SUBSET R
    BY DEF Worn
  <2> QED BY <1>1, <1>2, <2>1, WFMin
<1>4. Residue[L] = IF Ready(L) = {} THEN L ELSE Residue[L \ Ready(L)]
  BY ResidueRounds
<1>5. Ready(L) # {}
  BY <1>4
<1>6. S \subseteq L \ Ready(L) /\ L \ Ready(L) \in SUBSET R
  BY StuckIsNeverReady
<1>7. L \ Ready(L) \in Worn
  BY <1>4, <1>5, <1>6
<1>8. L \ Ready(L) # L
  BY <1>5 DEF Ready
<1> QED BY <1>3, <1>7, <1>8 DEF StrictSubsetOrdering

\* A function's values on a finite set are finitely many.
LEMMA FiniteImage ==
    ASSUME NEW S, IsFiniteSet(S), NEW f, f = [x \in S |-> f[x]]
    PROVE  IsFiniteSet({f[x] : x \in S})
<1>1. f \in Surjection(S, {f[x] : x \in S})
  BY DEF Surjection
<1> QED BY <1>1, FS_Surjection

\* Milestones are finitely many and so are their headings: so are the tasks.
LEMMA FiniteTasks ==
    ASSUME Documents
    PROVE  IsFiniteSet(parse_tasks)
<1> DEFINE Row(p) == {<<p, i>> : i \in {i \in DOMAIN doc[p] : IsTask(doc[p][i])}}
           rows == [p \in Plan |-> Row(p)]
<1>1. ASSUME NEW p \in Plan
      PROVE  IsFiniteSet(Row(p))
  <2> DEFINE I == {i \in DOMAIN doc[p] : IsTask(doc[p][i])}
             f == [i \in I |-> <<p, i>>]
  <2>1. doc[p] \in Seq(HeadingLine)
    BY DEF Documents
  <2>2. Len(doc[p]) \in Nat /\ DOMAIN doc[p] = 1 .. Len(doc[p])
    BY <2>1
  <2>3. IsFiniteSet(I)
    <3> HIDE DEF I
    <3>1. IsFiniteSet(1 .. Len(doc[p]))
      BY <2>2, FS_Interval
    <3>2. I \in SUBSET (1 .. Len(doc[p]))
      BY <2>2 DEF I
    <3> QED BY <3>1, <3>2, FS_Subset
  <2>4. IsFiniteSet({f[i] : i \in I})
    BY <2>3, FiniteImage
  <2>5. Row(p) = {f[i] : i \in I}
    OBVIOUS
  <2> QED BY <2>4, <2>5
<1>2. IsFiniteSet({rows[p] : p \in Plan})
  <2> HIDE DEF Row
  <2> QED BY FiniteImage, TaskAssumption
<1>3. Places = UNION {rows[p] : p \in Plan}
  BY DEF Places
<1>4. IsFiniteSet(Places)
  <2> HIDE DEF Row
  <2>1. \A T \in {rows[p] : p \in Plan} : IsFiniteSet(T)
    BY <1>1
  <2> HIDE DEF rows
  <2> QED BY <1>2, <1>3, <2>1, FS_UNION
<1> DEFINE g == [at \in Places |->
                  [at |-> at, key |-> KeyAt(at), depends |-> parse_depends(at),
                   verify |-> doc[at[1]][at[2]].verify, inputs |-> doc[at[1]][at[2]].inputs]]
<1>5. IsFiniteSet({g[at] : at \in Places})
  BY <1>4, FiniteImage
<1>6. parse_tasks = {g[at] : at \in Places}
  BY DEF parse_tasks
<1> QED BY <1>5, <1>6

\* A nonempty set of a list's places has a last one.
LEMMA LastPlace ==
    ASSUME NEW n \in Nat, NEW I \in SUBSET (1 .. n), I # {}
    PROVE  \E i \in I : \A j \in I : j <= i
<1> DEFINE From(i) == i .. n
           T == {From(i) : i \in I}
<1>1. IsFiniteSet(1 .. n)
  BY FS_Interval
<1>2. IsWellFoundedOn(StrictSubsetOrdering(1 .. n), SUBSET (1 .. n))
  BY <1>1, FS_StrictSubsetOrderingWellFounded, FS_FiniteSubsetsOfFinite
<1>3. T \subseteq SUBSET (1 .. n) /\ T # {}
  <2>1. \A i \in I : From(i) \subseteq 1 .. n
    OBVIOUS
  <2>2. PICK i \in I : TRUE
    OBVIOUS
  <2>3. From(i) \in T
    OBVIOUS
  <2> HIDE DEF From
  <2> QED BY <2>1, <2>3
<1>4. PICK L \in T : \A K \in T : <<K, L>> \notin StrictSubsetOrdering(1 .. n)
  <2> HIDE DEF T
  <2> QED BY <1>2, <1>3, WFMin
<1>5. PICK i \in I : L = From(i)
  OBVIOUS
<1>6. ASSUME NEW j \in I, ~(j <= i)
      PROVE  FALSE
  <2>1. From(j) \subseteq L /\ From(j) # L
    BY <1>5, <1>6
  <2>2. <<From(j), L>> \in StrictSubsetOrdering(1 .. n)
    BY <1>3, <2>1 DEF StrictSubsetOrdering
  <2> QED BY <1>4, <2>2
<1> QED BY <1>6

\* Whichever of a key's headings are dropped, one of each key remains.
LEMMA EveryKeyRemains ==
    ASSUME Documents, NEW k \in Keys
    PROVE  \E t \in remaining(parse_tasks) : t.key = k
<1>1. PICK u \in parse_tasks : u.key = k
  BY DEF Keys
<1> DEFINE p == k[1]
           Same == {t \in parse_tasks : t.key = k}
           I == {t.at[2] : t \in Same}
<1>2. \A t \in Same : t.at[1] = p /\ p \in Plan /\ t.at[2] \in DOMAIN doc[p]
  BY TaskAt
<1>3. doc[p] \in Seq(HeadingLine)
  BY <1>1, <1>2 DEF Documents
<1>4. Len(doc[p]) \in Nat /\ DOMAIN doc[p] = 1 .. Len(doc[p])
  BY <1>3
<1>5. I \in SUBSET (1 .. Len(doc[p])) /\ I # {}
  BY <1>1, <1>2, <1>4
<1>6. PICK i \in I : \A j \in I : j <= i
  <2> HIDE DEF I
  <2> QED BY <1>4, <1>5, LastPlace
<1>7. PICK t \in Same : t.at[2] = i
  OBVIOUS
<1>8. \A v \in parse_tasks : v.key = t.key => v.at[2] <= t.at[2]
  BY <1>6, <1>7
<1> QED BY <1>8 DEF remaining

\* As long as a task is undischarged and the structure has no problem, some task
\* has every dependency discharged (FrontierMoves).
THEOREM WorkGoesOn == Spec => []FrontierMoves
<1>1. Documents => FrontierMoves
  <2> SUFFICES ASSUME Documents, ~task_structure_problems, ~(Keys \subseteq discharged)
               PROVE  frontier # {}
    BY DEF FrontierMoves
  <2> DEFINE R == remaining(parse_tasks)
             S == {t \in R : t.key \notin discharged}
  <2>1. Residue[R] = {} /\ \A t \in parse_tasks : t.depends \subseteq Keys
    BY DEF task_structure_problems, task_graph_problems, Keys
  <2>2. R \in SUBSET parse_tasks
    BY DEF remaining
  <2>3. \A k \in Keys \ discharged : \E t \in S : t.key = k
    BY EveryKeyRemains
  <2>4. IsFiniteSet(R)
    BY <2>2, FiniteTasks, FS_Subset
  <2>5. Ready(S) # {}
    <3> HIDE DEF R
    <3>1. S \in SUBSET R /\ S # {}
      BY <2>3
    <3> HIDE DEF S
    <3> QED BY <2>1, <2>2, <2>4, <3>1, StuckStays
  <2>6. PICK t \in S : t.depends \cap {u.key : u \in S} = {}
    BY <2>5 DEF Ready
  <2>7. t \in parse_tasks /\ t.key \notin discharged
    BY <2>2, <2>6
  <2>8. t.depends \subseteq discharged
    BY <2>1, <2>3, <2>6, <2>7
  <2> QED BY <2>7, <2>8 DEF frontier
<1> QED BY <1>1, DocumentsInv, PTL
=============================================================================
