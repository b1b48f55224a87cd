--------------------------- MODULE CloneProperties ---------------------------
(***************************************************************************)
(* What a bootstrap is worth, and what the readers of a clone see between  *)
(* them: the completeness gate and the fingerprint.                        *)
(***************************************************************************)
EXTENDS CloneSetup

\* The verdict of a run that no command failed and nobody disturbed.
Judged == Idle /\ boot.calm /\ boot.code \in {"complete", "incomplete"}

\* What no step of bootstrap can make: a binary nobody built, or built at the host's
\* root where this gate does not look and the orchestrator does; hooks from a provider
\* that is hollow, moved off its pin or not built, a directory or a submodule emptied
\* behind git's back, a re-deriver no component here carries.
OwedElsewhere(g) ==
    CASE g.kind = "artifact" -> artifact_owed \/ built.root # None \/ ~is_dir(Canonical(Provider))
      [] g.kind \in {"hook", "binary"} ->
            ~is_git_worktree(Canonical(Provider)) \/ ~atPin \/ gate_asset = None
      [] g.kind = "worktree" -> tree[g.target] = "hollow"
      [] g.kind = "submodule" -> sub[g.target] = "gutted"
      [] g.kind = "driver" -> ~rederiver_worktree
      [] OTHER -> FALSE

\* One run of bootstrap makes everything it can make, from any state a killed or
\* failed run, another command or the operator left: no gap stays that running it
\* again would close (the order of SEQUENCE; read_step before each step).
GapsAreOwed == Judged => \A g \in setup_requirements : OwedElsewhere(g)

\* A run that reached its verdict undisturbed leaves no drift: env --check finds the
\* clone as it was recorded (the refresh after install_hooks).
FreshIsQuiet == Judged => env_check

\* Where the completeness gate and the fingerprint are both silent, nothing that was in
\* the clone when the fingerprint was written is gone or changed, though both are blind
\* to part of it, it may have been written for a selection of the components, and copies
\* may have been cut short before and after (setup_requirements, envhash_delta).
NothingUnreported ==
    verify_setup /\ env_check =>
        /\ seen.trees \subseteq Present.trees /\ seen.subs \subseteq Present.subs
        /\ \A s \in Surface : seen.bins[s] # None => Present.bins[s] = seen.bins[s]

\* "A second run over a complete tree changes nothing": no step of a bootstrap that began
\* complete and is neither disturbed nor killed touches what the gate reads (every step a
\* no-op when its precondition holds; the hooks are copied every time, so that a kill in
\* the midst of it may leave a complete clone with a torn one).
SecondRunChangesNothing ==
    [][boot'.calm /\ boot'.complete => (Present' = Present /\ UNCHANGED <<sub, tree, link, driver>>)]_vars

=============================================================================
