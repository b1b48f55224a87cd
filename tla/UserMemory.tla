----------------------------- MODULE UserMemory -----------------------------
(***************************************************************************)
(* The per-user memory store (src/src/memory.rs) and the dream audit over  *)
(* it (src/src/dream.rs).  The store is a directory of entry files and an  *)
(* index, each replaced through a temporary of a fixed name; a write is an *)
(* entry and then the index, a deletion the same in that order.  Any       *)
(* number of servers and of dream commands work on it with no lock, and    *)
(* each may be killed between two steps.  Beside the project stands the    *)
(* tier marker, rewritten in place.                                        *)
(***************************************************************************)
EXTENDS Integers, DreamAudit

CONSTANTS
    Server,         \* the MCP servers at work on one project's store
    Dream,          \* the dream commands an operator may have running
    Slug,           \* the entry slugs; INDEX may be one of them
    Draft,          \* the texts an entry may be written with
    TitleLinks,     \* what the links in the first line of each of them name
    Stem,           \* a slug up to its first closing bracket, all of most slugs
    Body            \* what each of them says, as the audit's detectors see it

INDEX == "MEMORY"       \* index_path is entry_path of this slug
Proc == Server \cup Dream
Name == Slug \cup {INDEX}

ASSUME MemoryAssumption == Server \cap Dream = {}

VARIABLES
    file,       \* what each file of the store holds
    tmp,        \* what stands under each file's temporary name
    marker,     \* the tier marker's text
    job,        \* what each process is doing
    look,       \* what each audit has read so far
    told,       \* history: what was last reported of each slug
    kept,       \* history: the slugs reported written that a list must show
    stamped,    \* history: a stamp was reported and nobody has rewritten it
    retired     \* history: a retirement was reported and not taken back

storeVars == <<file, tmp, told, kept>>
markerVars == <<marker, stamped, retired>>
memoryVars == <<storeVars, markerVars, job, look>>

-----------------------------------------------------------------------------
(* Files.  An index is the lines that name each slug, how many of them:    *)
(* a line that names nothing of the store is never looked at.              *)

Text(kind, draft, lines) == [kind |-> kind, draft |-> draft, lines |-> lines]
NoLines == [n \in Name |-> 0]
Nothing == Text("none", {}, NoLines)
Torn == Text("torn", {}, NoLines)
entry_text(draft) == Text("entry", {draft}, NoLines)
render_index(lines) == Text("index", {}, lines)

initialized == file[INDEX] # Nothing
\* Anything else the index's file may hold has no index line.
parse_index(text) == IF text.kind = "index" THEN text.lines ELSE NoLines
read_index == parse_index(file[INDEX])
Listed(lines) == {n \in Name : lines[n] > 0}
readable(slug) == file[slug].kind = "entry"
list == {slug \in Listed(read_index) : slug \in Slug /\ readable(slug)}
read(slug) ==
    LET body == Body[CHOOSE d \in file[slug].draft : TRUE]
    IN  [f \in DOMAIN body \cup {"slug"} |-> IF f = "slug" THEN slug ELSE body[f]]

\* What the line of an entry in the index is read back as.  Its title is the
\* first line of the entry, and a link there comes before the line's own; the
\* name ends at the first closing bracket.
ReadsAs(slug, draft) ==
    {n \in Name : n = IF TitleLinks[draft] = << >> THEN Stem[slug] ELSE Head(TitleLinks[draft])}

\* The line of a slug replaces the first that reads as its own, or comes on top.
Upserted(lines, slug, reads) ==
    [n \in Name |->
        (IF n = slug /\ lines[n] > 0 THEN lines[n] - 1 ELSE lines[n])
            + (IF n \in reads THEN 1 ELSE 0)]

-----------------------------------------------------------------------------
(* Processes.  A job is the operation, the slug it is about, the file it   *)
(* is replacing and the text for it, what its line in the index will read  *)
(* as, and how far it is.  solo: no other process worked on that slug      *)
(* meanwhile; alone: none wrote the store.                                 *)

Idle == [do |-> "none", at |-> "idle", slug |-> INDEX, name |-> INDEX,
         text |-> Nothing, reads |-> {}, solo |-> TRUE, alone |-> TRUE]
Busy(p) == job[p].do # "none"
At(p, at) == job[p].at = at
Move(p, at) == job' = [job EXCEPT ![p].at = at]
Writers == {p \in Proc : job[p].do \in {"write", "delete"}}

\* A store operation starts.  Nothing is promised of its slug until it ends,
\* nor of any listing while it overlaps another or aims at the index itself.
Begin(p, do, slug, text, reads, at) ==
    /\ ~Busy(p)
    /\ job' = [q \in Proc |->
          IF q = p
          THEN [do |-> do, at |-> at, slug |-> slug, name |-> slug, text |-> text, reads |-> reads,
                solo |-> \A w \in Writers : job[w].slug # slug, alone |-> Writers = {}]
          ELSE IF q \in Writers
               THEN [job[q] EXCEPT !.alone = FALSE, !.solo = @ /\ job[q].slug # slug]
               ELSE job[q]]
    /\ told' = [told EXCEPT ![slug] = "unsure"]
    /\ kept' = IF Writers # {} \/ slug = INDEX THEN {} ELSE kept \ {slug}
    /\ UNCHANGED <<file, tmp, markerVars, look>>

write(p, slug, draft) ==
    Begin(p, "write", slug, entry_text(draft), ReadsAs(slug, draft), "open")
delete(p, slug) == Begin(p, "delete", slug, Nothing, {}, "remove")

\* The operation has succeeded, and its caller is told so.  A list must show
\* the entry if its line reads as its own.
Succeed(p) ==
    LET j == job[p]
        done == IF j.do = "write" THEN "written" ELSE "deleted"
    IN  /\ told' = [told EXCEPT ![j.slug] = IF j.solo THEN done ELSE "unsure"]
        /\ kept' = IF j.do = "write" /\ j.alone /\ j.slug # INDEX /\ j.slug \in j.reads
                   THEN kept \cup {j.slug} ELSE kept

\* Create the temporary, fill it and rename it: one process' handle on it may
\* by then be a handle on the file another has renamed it to, or on nothing.
Open(p) ==
    /\ At(p, "open")
    /\ tmp' = [tmp EXCEPT ![job[p].name] = Torn]
    /\ Move(p, "fill")
    /\ UNCHANGED <<file, told, kept, markerVars, look>>

Filled(old, text) == IF old \in {Torn, text} THEN {text} ELSE {text, Torn}
Fill(p) ==
    /\ \/ /\ At(p, "fill")
          /\ \E c \in Filled(tmp[job[p].name], job[p].text) :
                tmp' = [tmp EXCEPT ![job[p].name] = c]
          /\ UNCHANGED file
       \/ /\ At(p, "fill over")
          /\ \E c \in Filled(file[job[p].name], job[p].text) :
                file' = [file EXCEPT ![job[p].name] = c]
          /\ UNCHANGED tmp
       \/ /\ At(p, "fill nothing")
          /\ UNCHANGED <<file, tmp>>
    /\ Move(p, "rename")
    /\ UNCHANGED <<told, kept, markerVars, look>>

Renamed(name, j) ==
    IF j.name # name THEN j
    ELSE CASE j.at = "fill"      -> [j EXCEPT !.at = "fill over"]
           [] j.at = "fill over" -> [j EXCEPT !.at = "fill nothing"]
           [] OTHER              -> j

\* The temporary becomes the file; after the entry comes the index.
Rename(p, next) ==
    LET name == job[p].name
    IN  /\ At(p, "rename") /\ tmp[name] # Nothing
        /\ file' = [file EXCEPT ![name] = tmp[name]]
        /\ tmp' = [tmp EXCEPT ![name] = Nothing]
        /\ job' = [q \in Proc |-> IF q = p THEN next ELSE Renamed(name, job[q])]
RenameEntry(p) ==
    /\ job[p].do = "write" /\ job[p].text.kind = "entry"
    /\ Rename(p, [job[p] EXCEPT !.at = "index"])
    /\ UNCHANGED <<told, kept, markerVars, look>>
RenameIndex(p) ==
    /\ job[p].text.kind = "index"
    /\ Rename(p, Idle)
    /\ Succeed(p)
    /\ UNCHANGED <<markerVars, look>>

\* Faulty variant: a deletion only takes the entry off the index.
UnlistOnly(p) ==
    /\ At(p, "remove")
    /\ Move(p, "index")
    /\ UNCHANGED <<file, tmp, told, kept, markerVars, look>>

remove_file(p) ==
    /\ At(p, "remove")
    /\ file' = [file EXCEPT ![job[p].slug] = Nothing]
    /\ Move(p, "index")
    /\ UNCHANGED <<tmp, told, kept, markerVars, look>>

\* Faulty variant: the index is written anew.
UpsertFresh(p) ==
    /\ At(p, "index") /\ job[p].do = "write"
    /\ job' = [job EXCEPT ![p].name = INDEX, ![p].at = "open",
                          ![p].text = render_index(Upserted(NoLines, job[p].slug, job[p].reads))]
    /\ UNCHANGED <<file, tmp, told, kept, markerVars, look>>

\* The new index is made from what the index holds now; a deletion of a slug
\* it does not list leaves it alone.
upsert_index(p) ==
    /\ At(p, "index") /\ job[p].do = "write"
    /\ job' = [job EXCEPT ![p].name = INDEX, ![p].at = "open",
                          ![p].text = render_index(Upserted(read_index, job[p].slug, job[p].reads))]
    /\ UNCHANGED <<file, tmp, told, kept, markerVars, look>>
remove_from_index(p) ==
    /\ At(p, "index") /\ job[p].do = "delete"
    /\ IF read_index[job[p].slug] > 0
       THEN /\ job' = [job EXCEPT ![p].name = INDEX, ![p].at = "open",
                                  ![p].text = render_index([read_index EXCEPT ![job[p].slug] = 0])]
            /\ UNCHANGED <<told, kept>>
       ELSE job' = [job EXCEPT ![p] = Idle] /\ Succeed(p)
    /\ UNCHANGED <<file, tmp, markerVars, look>>

\* The file system refuses a step, or another process has taken the temporary:
\* the operation ends there and its caller is told of the error.
Fail(p) ==
    /\ \/ job[p].at \in {"open", "fill", "fill over", "fill nothing", "remove"}
       \/ At(p, "rename") /\ tmp[job[p].name] = Nothing
    /\ job' = [job EXCEPT ![p] = Idle]
    /\ UNCHANGED <<storeVars, markerVars, look>>

StoreStep(p) ==
    \/ Open(p) \/ Fill(p) \/ RenameEntry(p) \/ RenameIndex(p)
    \/ remove_file(p) \/ upsert_index(p) \/ remove_from_index(p)
    \/ Fail(p)

-----------------------------------------------------------------------------
(* The tier marker and the dream commands.  here: the command runs on the  *)
(* machine that has the store, and not in another clone of the project.    *)

\* A marker that is absent, empty or cut short reads as absent.
read_tier_marker == IF marker \in {"stamped", "retired"} THEN marker ELSE "absent"

Unread(here) == [here |-> here, tier |-> "absent", stamped |-> FALSE,
                      present |-> FALSE, lines |-> {}, kept |-> {}]
Launch(p, do, at, here) ==
    /\ ~Busy(p)
    /\ job' = [job EXCEPT ![p].do = do, ![p].at = at]
    /\ look' = [look EXCEPT ![p] = Unread(here)]
    /\ UNCHANGED <<storeVars, markerVars>>

run_dream(p, here) == Launch(p, "dream", "look", here)
retire_marker(p) == Launch(p, "retire", "look", FALSE)
memory_consolidate(p) == Launch(p, "consolidate", "marker", TRUE)

\* Faulty variant: any marker but a stamped one is stamped over.
StampDueUnlessStamped(here) == read_tier_marker # "stamped" /\ here /\ initialized

\* Only an absent marker is stamped, and only beside an initialized store.
StampDue(here) == read_tier_marker = "absent" /\ here /\ initialized

Look(p) ==
    /\ At(p, "look")
    /\ CASE job[p].do = "dream" ->
              Move(p, IF StampDue(look[p].here) THEN "stamp" ELSE "marker")
         [] job[p].do = "retire" ->
              job' = [job EXCEPT ![p] =
                        IF read_tier_marker = "stamped" THEN [@ EXCEPT !.at = "stamp"] ELSE Idle]
    /\ UNCHANGED <<storeVars, markerVars, look>>

\* The marker is rewritten in place: emptied, and then filled.
OpenMarker(p) ==
    /\ At(p, "stamp")
    /\ marker' = "empty"
    /\ stamped' = FALSE
    /\ Move(p, "mark")
    /\ UNCHANGED <<storeVars, retired, look>>

Elsewhere(p, ats) == \E q \in Proc \ {p} : job[q].at \in ats
stamp_if_observed(p) ==
    /\ At(p, "mark") /\ job[p].do = "dream"
    /\ marker' \in {"stamped", marker} \ {"empty"}
    /\ stamped' = (marker \in {"empty", "stamped"} /\ ~Elsewhere(p, {"mark"}))
    /\ Move(p, "marker")
    /\ UNCHANGED <<storeVars, retired, look>>
Retire(p) ==
    /\ At(p, "mark") /\ job[p].do = "retire"
    /\ marker' \in {"retired", marker} \ {"empty"}
    /\ stamped' = FALSE
    /\ retired' = (marker \in {"empty", "retired"} /\ ~Elsewhere(p, {"stamp", "mark"}))
    /\ job' = [job EXCEPT ![p] = Idle]
    /\ UNCHANGED <<storeVars, look>>

\* A stamp that cannot be written is passed over; a retirement is refused.
MarkerFails(p) ==
    /\ job[p].at \in {"stamp", "mark"}
    /\ IF job[p].do = "dream" THEN Move(p, "marker") ELSE job' = [job EXCEPT ![p] = Idle]
    /\ UNCHANGED <<storeVars, markerVars, look>>

\* The audit reads the marker, then the index, then the entries it lists.
ReadMarker(p) ==
    /\ At(p, "marker")
    /\ look' = [look EXCEPT ![p].tier = read_tier_marker, ![p].stamped = stamped]
    /\ Move(p, "store")
    /\ UNCHANGED <<storeVars, markerVars>>
ReadIndex(p) ==
    /\ At(p, "store")
    /\ look' = [look EXCEPT
          ![p].present = look[p].here /\ initialized,
          ![p].lines = IF look[p].here THEN Listed(read_index) ELSE {},
          ![p].kept = IF look[p].here THEN kept ELSE {}]
    /\ Move(p, "entries")
    /\ UNCHANGED <<storeVars, markerVars>>
Findings(p) ==
    run_audit(look[p].tier, look[p].present,
              {read(s) : s \in {s \in look[p].lines : readable(s)}})
Audit(p) ==
    /\ At(p, "entries")
    /\ job' = [job EXCEPT ![p] = Idle]
    /\ look' = [look EXCEPT ![p] = Unread(FALSE)]
    /\ UNCHANGED <<storeVars, markerVars>>

DreamStep(p) ==
    \/ Look(p) \/ OpenMarker(p) \/ stamp_if_observed(p) \/ Retire(p) \/ MarkerFails(p)
    \/ ReadMarker(p) \/ ReadIndex(p) \/ Audit(p)

\* The operator takes a retirement back by removing the marker.
RemoveMarker ==
    /\ marker = "retired"
    /\ marker' = "none" /\ stamped' = FALSE /\ retired' = FALSE
    /\ UNCHANGED <<storeVars, job, look>>

Crash(p) ==
    /\ Busy(p)
    /\ job' = [job EXCEPT ![p] = Idle]
    /\ look' = [look EXCEPT ![p] = Unread(FALSE)]
    /\ UNCHANGED <<storeVars, markerVars>>

\* No store yet; or one in use, that lists its entry, with the marker stamped or
\* not.
MemoryInit ==
    /\ \/ /\ file = [n \in Name |-> Nothing] /\ marker = "none"
          /\ told = [s \in Slug |-> "nothing"] /\ kept = {}
       \/ \E s \in Slug \ {INDEX}, d \in Draft :
             /\ s \in ReadsAs(s, d)
             /\ file = [n \in Name |-> IF n = s THEN entry_text(d)
                                      ELSE IF n = INDEX
                                      THEN render_index(Upserted(NoLines, s, ReadsAs(s, d)))
                                      ELSE Nothing]
             /\ marker \in {"none", "stamped"}
             /\ told = [n \in Slug |-> IF n = s THEN "written" ELSE "nothing"]
             /\ kept = {s}
    /\ tmp = [n \in Name |-> Nothing]
    /\ job = [p \in Proc |-> Idle]
    /\ look = [p \in Proc |-> Unread(FALSE)]
    /\ stamped = (marker = "stamped")
    /\ retired = FALSE
=============================================================================
