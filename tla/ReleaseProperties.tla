------------------------- MODULE ReleaseProperties --------------------------
(***************************************************************************)
(* What a release is worth: that its tag, its artifact, its proofs and its *)
(* receipts speak of one and the same tree.                                *)
(***************************************************************************)
EXTENDS Release

\* The tag of an artifact never names a version that the manifest, the lock or the
\* generated files of its commit disown, whatever runs were killed, failed or repeated with
\* another class of change before it (run_release's bump, lock and regen steps).  A
\* generated file that git does not track is in no commit and speaks of no version.
TagIsCoherent ==
    is_artifact_bearing => \A i \in DOMAIN tags :
        LET t == tags[i]
        IN  /\ t.commit.manifest = t.version /\ t.commit.derived \in {t.version, NoVersion}
            /\ t.commit.lock = LockAt(t.version)

\* The artifact hash a release records is what the pinned commit builds, so that
\* the rebuild of software --verify-build reproduces it (the build's place after the
\* bump, the lock and the regeneration, and before the staging is reverted).  Not so
\* where the tree was edited under the release or the pin moved by hand, where what
\* was built was never added to git, which `git commit -am` leaves out, where the
\* staging could not be put back, and for a recipe that records no command to build.
PinReproduces == (~recipe.apart /\ BuildRecorded) => software_verify_build

\* However often a release fails, is killed or is repeated, an artifact's manifest is
\* at most one change away from its last tag, and every tag, of a tool's too, one
\* change from the one before (current_version, next_version).
BumpsOnce ==
    LET one == {<<1, 0, 0>>, <<0, 1, 0>>, <<0, 0, 1>>}
        OneChange(a, b) == \E class \in Class : b = next_version(a, class)
    IN  /\ is_artifact_bearing /\ tags # << >> =>
              LET last == tags[Len(tags)].version
              IN  manifest = last \/ OneChange(last, manifest)
        /\ \A i \in 1 .. Len(tags) - 1 : OneChange(tags[i].version, tags[i + 1].version)

\* As long as no run was killed and no write of the configuration failed, no commit
\* carries the staged bundle's source replacement, nor is it left in the tree once the
\* run is over, failed or not (StagedDepsGuard::restore on every way out of run_release).
OnlyTheBump ==
    kills + slips = 0 =>
        /\ head.config = 0
        /\ \A i \in DOMAIN tags : tags[i].commit.config = 0
        /\ job = Idle => config = 0

\* A rung on the ledger of a released component was proved on the very sources
\* the tag carries, unless they were edited while a command ran or steps were owed,
\* or what is tagged is not what stands in the worktree
\* (--record-digests only after a clean --rederive; the discharge step of release).
TagIsProved ==
    \A i \in DOMAIN tags : ~tags[i].raced =>
        \A o \in tags[i].tracked :
            \E p \in proved : p.id = o /\ p.source = tags[i].commit.source

\* Where the check is clean and a publish receipt was ever recorded, what the
\* forge published for the commit that is pinned is the recorded artifact
\* (provenance_problems_owed against re-pins, later releases and lanes that
\* build other bytes).
CleanMeansPublished ==
    (software_check /\ recipe.artifact # NoHash
        /\ latest_receipt("publish").disposition = "done") =>
            [commit |-> head, hash |-> recipe.artifact] \in asset
=============================================================================
