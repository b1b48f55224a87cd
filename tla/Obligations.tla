---------------------------- MODULE Obligations -----------------------------
(***************************************************************************)
(* The obligations a component's specification derives, their dispositions *)
(* and the ledger of digests (src/src/main.rs, `obligations`).  Dispositions *)
(* and ledger are the component's files; the proofs run in `host-prove`.   *)
(***************************************************************************)
EXTENDS Integers, Sequences, FiniteSets

CONSTANTS
    Id,         \* the obligations the specification may derive
    Source,     \* what the component's sources may hold
    Bound,      \* the bounds a rung may declare
    Provable    \* <<bound, source>>: the prover passes at that bound

Gone == -1
Test == [kind |-> "test"]
Waived == [kind |-> "waived"]
Rung(b, inputs) == [kind |-> "rung", bound |-> b, inputs |-> inputs]
Disposition == {Test, Waived} \cup {Rung(b, i) : b \in Bound, i \in BOOLEAN}

ASSUME ObligationAssumption ==
    /\ Bound \subseteq Nat /\ Source \subseteq Nat
    /\ Provable \subseteq Bound \X Source

VARIABLES
    ids,        \* what `allium plan` derives from the specification
    disp,       \* the manifest: a disposition for some obligations
    src,        \* the sources, which every rung with inputs reads
    ledger,     \* the digest on record for some obligations
    proved      \* history: which obligation was proved, at what bound and on what

oblVars == <<ids, disp, src, ledger, proved>>

-----------------------------------------------------------------------------
parse_rung(i) == disp[i].kind = "rung"
Rungs == {i \in DOMAIN disp : parse_rung(i)}
WithInputs == {i \in Rungs : disp[i].inputs}

obligation_gaps == ids # DOMAIN disp

\* Faulty variant: an input that cannot be hashed is a note.
StaleWhenHashed == \E i \in WithInputs \cap DOMAIN ledger : src # Gone /\ ledger[i] # src

\* A rung with no entry is a note; with no ledger at all nothing is compared.
staleness_problems ==
    \E i \in WithInputs \cap DOMAIN ledger : src = Gone \/ ledger[i] # src

\* An empty derivation is an error, which blocks as a problem does.
discharge_problems == ids = {} \/ obligation_gaps \/ staleness_problems

\* The verdict's bound must reach the declared one.
verdict_discharges(b, declared) == b >= declared

\* The prover passes or not; when it does it says at which bound.
run_host_prove(i) ==
    \E b \in Bound : <<b, src>> \in Provable /\ verdict_discharges(b, disp[i].bound)
rederive_problems == \E i \in Rungs : ~run_host_prove(i)

\* The ledger is written anew.
record_digests(r) == [i \in {i \in r : disp[i].inputs} |-> src]

Proofs(r) == {[id |-> i, bound |-> disp[i].bound, source |-> src] : i \in r}
=============================================================================
