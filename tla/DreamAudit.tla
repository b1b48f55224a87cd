----------------------------- MODULE DreamAudit -----------------------------
(***************************************************************************)
(* The dream audit (src/src/dream.rs) as a function of what it reads: the  *)
(* tier marker, whether the per-user store is on this machine, the entries *)
(* the store lists and the sections of the repository's MEMORY.md.  A body *)
(* is the references, terms and signals the detectors look for in it.      *)
(***************************************************************************)
EXTENDS Integers, Sequences

CONSTANTS
    Repo,           \* the sections of the repository's own MEMORY.md
    Resolvable,     \* the records that are in the project's rooms
    Superseded,     \* those whose Status line says superseded
    History         \* what git log says of MEMORY.md: clean, edited or none

ASSUME AuditAssumption ==
    /\ Superseded \subseteq Resolvable
    /\ History \in {"clean", "edited", "none"}

\* What the audit reports: which entry of which store, what kind of finding,
\* what it is about and how sure it is.
\* The repository's log is only ever appended to.
route_for(store) == IF store = "repo" THEN "append" ELSE "edit"
Finding(e, store, kind, about, confidence) ==
    [entry |-> e.slug, store |-> store, kind |-> kind, about |-> about,
     confidence |-> confidence, route |-> route_for(store)]

applies(kind, store) ==
    \/ store = "repo" /\ kind \in {"dangling-link", "room-touching", "append-only-violation"}
    \/ store = "per-user" /\ kind # "append-only-violation"

Links(e) == {e.links[i] : i \in DOMAIN e.links}
\* The first of a body's references, if any.
Firsts(refs) == IF refs = << >> THEN {} ELSE {Head(refs)}

detect_superseded_unlinked(e, store) ==
    {Finding(e, store, "superseded-but-unlinked", t, "confirmed") :
        t \in e.superseded_by \ Links(e)}

\* Faulty variant: a machine without the store takes the tier for unused.
PresentTier(tier, present) == IF present THEN "prompt" ELSE "confirmed"

\* A link that resolves nowhere is broken for certain only where the tier is
\* out of use: retired, or never stamped and no store here.
link_confidence(tier, present) ==
    IF tier = "retired" \/ (tier = "absent" /\ ~present) THEN "confirmed" ELSE "prompt"

\* A body's first link that resolves nowhere, if any.
FirstUnknown(links, known) ==
    {links[i] : i \in {i \in DOMAIN links :
        links[i] \notin known /\ \A j \in 1 .. (i - 1) : links[j] \in known}}

detect_dangling_link(e, store, known, tier, present) ==
    {Finding(e, store, "dangling-link", t, link_confidence(tier, present)) :
        t \in FirstUnknown(e.links, known)}

resolve_record_status(ref) ==
    CASE ref \in Superseded -> "superseded"
      [] ref \in Resolvable \ Superseded -> "current"
      [] OTHER -> "none"

\* Only a body's first citation is looked at; a current record is no finding.
detect_room_touching(e, store) ==
    {Finding(e, store, "room-touching", r,
             IF resolve_record_status(r) = "superseded" THEN "confirmed" ELSE "prompt") :
        r \in {r \in Firsts(e.cites) : resolve_record_status(r) # "current"}}

detect_description_body_drift(e, store) ==
    {Finding(e, store, "description-body-drift", t, "confirmed") :
        t \in e.denies \cap e.terms}

detect_stale_state_over_lore(e, store) ==
    IF e.type = "state" /\ e.done /\ e.lore
    THEN {Finding(e, store, "stale-state-over-lore", e.slug, "confirmed")} ELSE {}

key_terms(e) == e.terms
\* An entry that shares a term, with no link either way, is enough.
detect_workaround_vs_plan(e, all) ==
    {Finding(e, "per-user", "workaround-vs-plan", e.slug, "confirmed") :
        o \in {o \in all : /\ e.type = "workaround" /\ o.type = "fact"
                           /\ o.slug # e.slug
                           /\ key_terms(e) \cap key_terms(o) # {}
                           /\ o.slug \notin Links(e) /\ e.slug \notin Links(o)}}
detect_cross(entries) == UNION {detect_workaround_vs_plan(e, entries) : e \in entries}

detect(e, store, known, tier, present) ==
    {f \in UNION {detect_superseded_unlinked(e, store),
                  detect_dangling_link(e, store, known, tier, present),
                  detect_room_touching(e, store),
                  detect_description_body_drift(e, store),
                  detect_stale_state_over_lore(e, store)} : applies(f.kind, store)}

detect_append_only_violations ==
    {Finding(e, "repo", "append-only-violation", e.slug, "confirmed") :
        e \in {e \in Repo : History = "edited" /\ e.edited}}

marker_contradiction(tier, present) ==
    IF present /\ tier = "retired"
    THEN {Finding([slug |-> "tier-marker"], "repo", "marker-contradiction",
                  "tier-marker", "confirmed")} ELSE {}

\* entries: what the store's list read, each under its own slug.
run_audit(tier, present, entries) ==
    LET known == {e.slug : e \in entries} \cup {e.slug : e \in Repo}
    IN  UNION ({marker_contradiction(tier, present), detect_append_only_violations}
               \cup {detect(e, "per-user", known, tier, present) : e \in entries}
               \cup {detect_cross(entries)}
               \cup {detect(e, "repo", known, tier, present) : e \in Repo})
=============================================================================
