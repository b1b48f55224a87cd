----------------------------- MODULE TaskGraph ------------------------------
(***************************************************************************)
(* The receipted task graph (src/src/main.rs, `tasks`).  A task is a       *)
(* heading under a milestone's build sequence; its key is the milestone    *)
(* and its anchor, so a receipt hangs on the anchor and outlives every     *)
(* edit of the plan.  The operator edits plans, inputs and decisions at    *)
(* any time; a re-derivation runs each task's command and then fingerprints *)
(* its inputs, one task after the other.                                   *)
(***************************************************************************)
EXTENDS Integers, Sequences, FiniteSets

CONSTANTS
    Plan,           \* the milestones, each a README under plan/
    Anchor,         \* the anchors a heading may end with
    Command,        \* the shell commands a task may be verified by
    Unsafe,         \* those among them that would run the gate again
    Decision,       \* the decisions a verify or a skip may cite
    Input,          \* the files a task may declare as inputs
    Prose,          \* the task references in the documents' prose
    Plans,          \* the plans to start from
    Complete,       \* the milestones that are complete at the start
    Verify,         \* the ways of verifying that headings come to have
    Lists,          \* the lists of inputs that headings come to have
    MaxEdits,       \* bound: the edits of plans, inputs and decisions
    MaxVouched      \* bound: the different receipts written

NoAnchor == "no anchor"
Key == Plan \X Anchor
Mechanical(c) == <<"command", c>>
Attested(c) == <<"attested", c>>
NoVerify == <<"none", "none">>
operator == "operator"
VerifyLine == {Mechanical(c) : c \in Command} \cup {NoVerify}
              \cup {Attested(c) : c \in Decision \cup {operator}}

\* A heading of a milestone's README, as it is read.
HeadingLine ==
    [anchor : Anchor \cup {NoAnchor}, verify : VerifyLine, inputs : Seq(Input),
     explicit : BOOLEAN, depends : SUBSET Key, band : BOOLEAN, in_build_seq : BOOLEAN]

ASSUME TaskAssumption ==
    /\ IsFiniteSet(Plan) /\ Plans \subseteq [Plan -> Seq(HeadingLine)]
    /\ Verify \subseteq VerifyLine
    /\ Lists \subseteq Seq(Input)
    /\ Unsafe \subseteq Command
    /\ Prose \subseteq Key
    /\ MaxEdits \in Nat /\ MaxVouched \in Nat

VARIABLES
    doc,        \* each milestone's headings, in order
    complete,   \* the milestones whose Status says so
    content,    \* each input's content; -1: it is not there
    call,       \* the decisions that are in their room
    receipt,    \* the last receipt of each key
    job,        \* the re-derivation under way
    vouched,    \* history: which key was vouched for, how, and on what inputs,
                \*   with what in them
    raced,      \* history: an edit came into the middle of a re-derivation
    edits       \* how many edits there were

vars == <<doc, complete, content, call, receipt, job, vouched, raced, edits>>

-----------------------------------------------------------------------------
(* The documents.  A heading may be a band, lack its anchor, or stand      *)
(* outside the build sequence; it says what it depends on, or does not.    *)

IsTask(h) == h.in_build_seq /\ ~h.band /\ h.anchor # NoAnchor
heading_problem(h) ==
    \/ h.in_build_seq /\ ~h.band /\ h.anchor = NoAnchor
    \/ ~h.in_build_seq /\ h.anchor # NoAnchor

Places == UNION {{<<p, i>> : i \in {i \in DOMAIN doc[p] : IsTask(doc[p][i])}} : p \in Plan}
KeyAt(at) == <<at[1], doc[at[1]][at[2]].anchor>>

\* A heading that says nothing depends on the task before it in its milestone.
parse_depends(at) ==
    LET p == at[1]  h == doc[p][at[2]]
        earlier == {i \in 1 .. (at[2] - 1) : IsTask(doc[p][i])}
    IN  IF h.explicit THEN h.depends
        ELSE {KeyAt(<<p, i>>) : i \in {i \in earlier : \A j \in earlier : j <= i}}

parse_tasks ==
    {[at |-> at, key |-> KeyAt(at), depends |-> parse_depends(at),
      verify |-> doc[at[1]][at[2]].verify, inputs |-> doc[at[1]][at[2]].inputs] : at \in Places}
Keys == {t.key : t \in parse_tasks}

\* Of two headings with one anchor the later one's dependencies are kept.
remaining(tasks) == {t \in tasks : \A u \in tasks : u.key = t.key => u.at[2] <= t.at[2]}

\* Tasks whose dependencies are all gone are removed, round by round.
\* Faulty variant: a task waits for its own milestone's tasks only.
ReadyInMilestone(left) ==
    {t \in left : t.depends \cap {u.key : u \in {u \in left : u.at[1] = t.at[1]}} = {}}

Ready(left) == {t \in left : t.depends \cap {u.key : u \in left} = {}}
Residue[left \in SUBSET parse_tasks] ==
    LET ready == Ready(left)
    IN  IF ready = {} THEN left ELSE Residue[left \ ready]

task_graph_problems ==
    LET tasks == parse_tasks  keys == {t.key : t \in tasks}
    IN  \/ \E t \in tasks : ~(t.depends \subseteq keys)
        \/ Residue[remaining(tasks)] # {}
task_reference_problems == ~(Prose \subseteq Keys)
task_structure_problems ==
    \/ \E p \in Plan : \E i \in DOMAIN doc[p] : heading_problem(doc[p][i])
    \/ task_graph_problems
    \/ task_reference_problems

-----------------------------------------------------------------------------
(* Receipts and the gate.  A receipt's digest is the contents it was taken *)
(* of, one after the other and without their names; NoDigest when none was *)
(* recorded.  The names are written beside it, and read by nobody.         *)

NoDigest == << >>
NoReceipt == [disposition |-> "none", verify |-> NoVerify, inputs |-> << >>,
              digest |-> NoDigest, reason |-> "none"]

\* Receipts are only appended, and the last of a key is the one that counts.
Stanza(key, r) == receipt' = [receipt EXCEPT ![key] = r]

\* What is there to see of a task's inputs (for the history).
Contents(inputs) == [n \in DOMAIN inputs |-> content[inputs[n]]]

\* Faulty variant: only the first of the inputs is hashed.
DigestOfOne(inputs) == << content[Head(inputs)] >>

input_digest(inputs) == [n \in DOMAIN inputs |-> content[inputs[n]]]
Hashable(inputs) == \A n \in DOMAIN inputs : content[inputs[n]] # -1
cited_decision_exists(c) == c \in call

\* Faulty variant: a done is a done, whatever verify the task has come to have.
AnyVerify(t, r) == t.verify # NoVerify

SameVerify(t, r) == t.verify # NoVerify /\ r.verify = t.verify
done_verdict(t, r) ==
    /\ SameVerify(t, r)
    /\ t.verify[1] = "attested" =>
          t.verify[2] = operator \/ cited_decision_exists(t.verify[2])
    /\ (t.verify[1] = "command" /\ t.inputs # << >> /\ r.digest # NoDigest) =>
          Hashable(t.inputs) /\ input_digest(t.inputs) = r.digest

task_verdict(t, r) ==
    \/ r.disposition = "done" /\ done_verdict(t, r)
    \/ r.disposition = "skip" /\ cited_decision_exists(r.reason)

task_gate ==
    /\ \A t \in parse_tasks :
          IF receipt[t.key] = NoReceipt THEN t.key[1] \notin complete
          ELSE task_verdict(t, receipt[t.key])
    /\ {k \in Key : receipt[k] # NoReceipt} \subseteq Keys

\* What tasks --check exits 0 on.
task_check_clean == ~task_structure_problems /\ task_gate

discharged == {k \in Keys : receipt[k].disposition \in {"done", "skip"}}
frontier ==
    LET done == discharged
    IN  {t \in parse_tasks : t.key \notin done /\ t.depends \subseteq done}

-----------------------------------------------------------------------------
(* The commands. *)

Idle == [at |-> "idle", todo |-> << >>, saw |-> << >>]
Vouch(t, disposition, saw) ==
    /\ vouched' = vouched \cup
          {[key |-> t.key, disposition |-> disposition, verify |-> t.verify,
            inputs |-> t.inputs, saw |-> saw]}
    /\ Cardinality(vouched') <= MaxVouched

\* A key names the first task that has it.
Named == LET tasks == parse_tasks
         IN  {t \in tasks : \A u \in tasks : u.key = t.key => t.at[2] <= u.at[2]}

\* Nothing is asked of the tasks it depends on.
record_done(t, record_digests) ==
    LET digests == record_digests /\ t.inputs # << >> /\ t.verify[1] = "command"
    IN  /\ t.verify # NoVerify
        /\ digests => Hashable(t.inputs)
        /\ Stanza(t.key,
              [disposition |-> "done", verify |-> t.verify, inputs |-> t.inputs, reason |-> "none",
               digest |-> IF digests THEN input_digest(t.inputs) ELSE NoDigest])
        /\ Vouch(t, "done", Contents(t.inputs))
        /\ UNCHANGED <<doc, complete, content, call, job, raced, edits>>

record_skip(t, reason) ==
    /\ cited_decision_exists(reason)
    /\ Stanza(t.key, [NoReceipt EXCEPT !.disposition = "skip", !.reason = reason])
    /\ Vouch(t, "skip", << >>)
    /\ UNCHANGED <<doc, complete, content, call, job, raced, edits>>

verify_command_is_safe(c) == c \notin Unsafe

\* The tasks and receipts are read once; those to re-derive are the mechanical
\* dones, in the documents' order.
ToRederive == {t \in parse_tasks : receipt[t.key].disposition = "done"
                                   /\ t.verify[1] = "command"
                                   /\ verify_command_is_safe(t.verify[2])}
InOrder(seq) == \A i, j \in DOMAIN seq :
    (i < j /\ seq[i].at[1] = seq[j].at[1]) => seq[i].at[2] < seq[j].at[2]
tasks_rederive ==
    /\ job = Idle /\ ToRederive # {}
    /\ \E todo \in [1 .. Cardinality(ToRederive) -> ToRederive] :
          /\ {todo[i] : i \in DOMAIN todo} = ToRederive /\ InOrder(todo)
          /\ job' = [at |-> "run", todo |-> todo, saw |-> << >>]
    /\ UNCHANGED <<doc, complete, content, call, receipt, vouched, raced, edits>>

Onward == IF Len(job.todo) = 1 THEN Idle
          ELSE [at |-> "run", todo |-> Tail(job.todo), saw |-> << >>]

\* The command runs on the inputs as they are, and may fail.
run_recheck ==
    /\ job.at = "run"
    /\ job' \in {Onward, [job EXCEPT !.at = "append", !.saw = Contents(Head(job.todo).inputs)]}
    /\ UNCHANGED <<doc, complete, content, call, receipt, vouched, raced, edits>>

\* The digest is taken after; inputs that cannot be hashed are passed over.
append_task_receipt ==
    /\ job.at = "append"
    /\ LET t == Head(job.todo)
       IN  /\ Stanza(t.key,
                 [disposition |-> "done", verify |-> t.verify, inputs |-> t.inputs, reason |-> "none",
                  digest |-> IF t.inputs # << >> /\ Hashable(t.inputs)
                             THEN input_digest(t.inputs) ELSE NoDigest])
           /\ Vouch(t, "done", job.saw)
    /\ job' = Onward
    /\ UNCHANGED <<doc, complete, content, call, raced, edits>>

\* Killed, or the receipts cannot be written.
Stop ==
    /\ job # Idle
    /\ job' = Idle
    /\ UNCHANGED <<doc, complete, content, call, receipt, vouched, raced, edits>>

-----------------------------------------------------------------------------
(* The operator. *)

Edit == edits < MaxEdits /\ edits' = edits + 1 /\ raced' = (raced \/ job # Idle)
EditHeading(p, i, h) ==
    /\ Edit
    /\ doc' = [doc EXCEPT ![p][i] = h]
    /\ UNCHANGED <<complete, content, call, receipt, job, vouched>>
Reword(p, i) ==
    LET h == doc[p][i]
    IN  \/ \E v \in Verify : EditHeading(p, i, [h EXCEPT !.verify = v])
        \/ \E l \in Lists : EditHeading(p, i, [h EXCEPT !.inputs = l])
        \/ \E a \in Anchor \cup {NoAnchor} : EditHeading(p, i, [h EXCEPT !.anchor = a])
        \/ EditHeading(p, i, [h EXCEPT !.band = ~@])
        \/ EditHeading(p, i, [h EXCEPT !.in_build_seq = ~@])
SetStatus(p) ==
    /\ Edit
    /\ complete' = IF p \in complete THEN complete \ {p} ELSE complete \cup {p}
    /\ UNCHANGED <<doc, content, call, receipt, job, vouched>>
EditInput(i) ==
    /\ Edit
    /\ content' \in {[content EXCEPT ![i] = c] : c \in {-1, content[i] + 1}}
    /\ UNCHANGED <<doc, complete, call, receipt, job, vouched>>
RemoveDecision(d) ==
    /\ Edit
    /\ call' = call \ {d}
    /\ UNCHANGED <<doc, complete, content, receipt, job, vouched>>

Init ==
    /\ doc \in Plans
    /\ complete = Complete
    /\ content = [i \in Input |-> 0]
    /\ call = Decision
    /\ receipt = [k \in Key |-> NoReceipt]
    /\ job = Idle
    /\ vouched = {}
    /\ raced = FALSE
    /\ edits = 0

Record ==
    \E t \in Named :
        (\E digests \in BOOLEAN : record_done(t, digests)) \/ (\E d \in Decision : record_skip(t, d))
Rederive == tasks_rederive \/ run_recheck \/ append_task_receipt \/ Stop
Operator ==
    \/ \E p \in Plan : (\E i \in DOMAIN doc[p] : Reword(p, i)) \/ SetStatus(p)
    \/ \E i \in Input : EditInput(i)
    \/ \E d \in Decision : RemoveDecision(d)

Next == Record \/ Rederive \/ Operator
Spec == Init /\ [][Next]_vars
=============================================================================
