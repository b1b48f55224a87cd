----------------------------- MODULE UserProofs -----------------------------
(***************************************************************************)
(* The memory store, the tier marker and the servers, for any number of    *)
(* servers, commands, entries and requests: what was reported of an entry  *)
(* holds, a reported write is listed, a retirement stands, no link is      *)
(* misjudged and no request is taken for a reply.                          *)
(***************************************************************************)
EXTENDS UserProperties, TLAPS

-----------------------------------------------------------------------------
(* What the variables hold, and what a process is doing where it is. *)

Content == [kind : {"none", "torn", "entry", "index"}, draft : SUBSET Draft, lines : [Name -> Nat]]
Replacing == {"open", "fill", "fill over", "fill nothing", "rename"}
Job == [do : {"none", "write", "delete", "dream", "retire", "consolidate"},
        at : Replacing \cup {"idle", "remove", "index", "look", "stamp", "mark",
                             "marker", "store", "entries"},
        slug : Name, name : Name, text : Content, reads : SUBSET Name,
        solo : BOOLEAN, alone : BOOLEAN]
View == [here : BOOLEAN, tier : {"absent", "stamped", "retired"}, stamped : BOOLEAN,
         present : BOOLEAN, lines : SUBSET Name, kept : SUBSET Slug]

\* An entry is replaced under its slug, and after it the index.
Shape(j) ==
    \/ j.do = "none" /\ j.at = "idle"
    \/ j.do = "dream" /\ j.at \in {"look", "stamp", "mark", "marker", "store", "entries"}
    \/ j.do = "retire" /\ j.at \in {"look", "stamp", "mark"}
    \/ j.do = "consolidate" /\ j.at \in {"marker", "store", "entries"}
    \/ /\ j.do = "write" /\ j.at \in Replacing \cup {"index"}
       /\ j.slug \in Slug /\ j.name = j.slug /\ j.text.kind = "entry"
    \/ /\ j.do = "delete" /\ j.at \in {"remove", "index"}
       /\ j.slug \in Slug /\ j.name = j.slug /\ j.text = Nothing
    \/ /\ j.do \in {"write", "delete"} /\ j.at \in Replacing
       /\ j.slug \in Slug /\ j.name = INDEX /\ j.text.kind = "index"

StoreTyped ==
    /\ file \in [Name -> Content] /\ tmp \in [Name -> Content]
    /\ told \in [Slug -> {"nothing", "unsure", "written", "deleted"}]
    /\ kept \in SUBSET Slug
JobsTyped == job \in [Proc -> Job] /\ \A p \in Proc : Shape(job[p])
MarkerTyped ==
    /\ marker \in {"none", "empty", "stamped", "retired"}
    /\ stamped \in BOOLEAN /\ retired \in BOOLEAN
LooksTyped == look \in [Proc -> View]
Typed == StoreTyped /\ JobsTyped /\ MarkerTyped /\ LooksTyped

\* What a step of the servers does to the memory.
MemoryStep ==
    \/ \E p \in Server, s \in Slug, d \in Draft : write(p, s, d)
    \/ \E p \in Server, s \in Slug : delete(p, s)
    \/ \E p \in Proc, here \in BOOLEAN : run_dream(p, here)
    \/ \E p \in Proc : retire_marker(p) \/ memory_consolidate(p)
    \/ \E p \in Proc : StoreStep(p) \/ DreamStep(p) \/ Crash(p)
    \/ RemoveMarker
    \/ UNCHANGED memoryVars

\* What the texts are.
LEMMA ContentTyped ==
    /\ Nothing \in Content /\ Torn \in Content
    /\ \A d \in Draft : entry_text(d) \in Content /\ entry_text(d).kind = "entry"
    /\ \A l \in [Name -> Nat] : render_index(l) \in Content /\ render_index(l).kind = "index"
                                /\ render_index(l).lines = l
    /\ Nothing.kind = "none" /\ Torn.kind = "torn"
<1>1. NoLines \in [Name -> Nat]
  BY DEF NoLines
<1> QED BY <1>1 DEF Nothing, Torn, entry_text, render_index, Text, Content

\* The index has so many lines for each name.
LEMMA ReadIndexTyped == StoreTyped => read_index \in [Name -> Nat]
BY DEF StoreTyped, Content, read_index, parse_index, Name, NoLines

\* The line of an entry lists it if it reads as its own, and takes none of the
\* others off.
LEMMA UpsertedLines ==
    ASSUME NEW lines \in [Name -> Nat], NEW slug, NEW reads
    PROVE  /\ Upserted(lines, slug, reads) \in [Name -> Nat]
           /\ \A n \in Name : n \in reads => n \in Listed(Upserted(lines, slug, reads))
           /\ \A n \in Name \ {slug} :
                 n \in Listed(lines) => n \in Listed(Upserted(lines, slug, reads))
<1> DEFINE less(n) == IF n = slug /\ lines[n] > 0 THEN lines[n] - 1 ELSE lines[n]
           more(n) == IF n \in reads THEN 1 ELSE 0
<1>1. \A n \in Name : /\ less(n) \in Nat /\ more(n) \in Nat
                      /\ less(n) + more(n) \in Nat
                      /\ n \in reads => less(n) + more(n) > 0
                      /\ n # slug /\ lines[n] > 0 => less(n) + more(n) > 0
  OBVIOUS
<1>2. Upserted(lines, slug, reads) = [n \in Name |-> less(n) + more(n)]
  BY DEF Upserted
<1> HIDE DEF less, more
<1> QED BY <1>1, <1>2 DEF Listed

\* A process that does nothing is one.
LEMMA IdleTyped == Idle \in Job /\ Shape(Idle)
BY ContentTyped DEF Idle, Job, Name, Shape

\* The processes of a store operation stay where they may be.
LEMMA BeginTyped ==
    ASSUME Typed, NEW p \in Proc, NEW slug \in Slug, NEW draft \in Content,
           NEW do, NEW at, NEW reads \in SUBSET Name, Begin(p, do, slug, draft, reads, at),
           \/ do = "write" /\ at = "open" /\ draft.kind = "entry"
           \/ do = "delete" /\ at = "remove" /\ draft = Nothing
    PROVE  Typed'
<1>1. slug \in Name
  BY DEF Name
<1>2. JobsTyped'
  <2> SUFFICES ASSUME NEW q \in Proc
               PROVE  job'[q] \in Job /\ Shape(job'[q])
    BY DEF Begin, JobsTyped
  <2>1. CASE q = p
    BY <1>1, <2>1 DEF Begin, Job, Shape, Replacing
  <2>2. CASE q # p /\ q \in Writers
    <3>1. job'[q] = [job[q] EXCEPT !.alone = FALSE, !.solo = @ /\ job[q].slug # slug]
      BY <2>2 DEF Begin
    <3>2. job[q] \in Job /\ Shape(job[q])
      BY DEF Typed, JobsTyped
    <3>3. (job[q].solo /\ job[q].slug # slug) \in BOOLEAN
      OBVIOUS
    <3> QED BY <3>1, <3>2, <3>3 DEF Job, Shape
  <2>3. CASE q # p /\ q \notin Writers
    BY <2>3 DEF Begin, Typed, JobsTyped
  <2> QED BY <2>1, <2>2, <2>3
<1>3. StoreTyped'
  BY DEF Begin, Typed, StoreTyped
<1> QED BY <1>2, <1>3 DEF Begin, Typed, MarkerTyped, LooksTyped, markerVars

\* What Rename does to the processes, whichever comes next.
LEMMA RenameTyped ==
    ASSUME JobsTyped, NEW p \in Proc, NEW next, Rename(p, next), next \in Job, Shape(next)
    PROVE  JobsTyped'
<1> SUFFICES ASSUME NEW q \in Proc
             PROVE  job'[q] \in Job /\ Shape(job'[q])
  BY DEF Rename, JobsTyped
<1>1. CASE q = p
  BY <1>1 DEF Rename
<1>2. CASE q # p
  <2>1. job'[q] = Renamed(job[p].name, job[q])
    BY <1>2 DEF Rename
  <2>2. job[q] \in Job /\ Shape(job[q])
    BY DEF JobsTyped
  <2>3. CASE job[q].name # job[p].name \/ job[q].at \notin {"fill", "fill over"}
    BY <2>1, <2>2, <2>3 DEF Renamed
  <2>4. CASE job[q].name = job[p].name /\ job[q].at = "fill"
    <3>1. job'[q] = [job[q] EXCEPT !.at = "fill over"]
      BY <2>1, <2>4 DEF Renamed
    <3> QED BY <2>2, <2>4, <3>1 DEF Job, Shape, Replacing
  <2>5. CASE job[q].name = job[p].name /\ job[q].at = "fill over"
    <3>1. job'[q] = [job[q] EXCEPT !.at = "fill nothing"]
      BY <2>1, <2>5 DEF Renamed
    <3> QED BY <2>2, <2>5, <3>1 DEF Job, Shape, Replacing
  <2> QED BY <2>3, <2>4, <2>5
<1> QED BY <1>1, <1>2

\* What is reported of an operation is of the store's types.
LEMMA SucceedTyped ==
    ASSUME StoreTyped, NEW p \in Proc, job[p].slug \in Slug, Succeed(p)
    PROVE  told' \in [Slug -> {"nothing", "unsure", "written", "deleted"}] /\ kept' \in SUBSET Slug
BY DEF StoreTyped, Succeed

\* Every step of a store operation keeps the types.
LEMMA StoreStepTyped ==
    ASSUME Typed, NEW p \in Proc, StoreStep(p)
    PROVE  Typed'
<1>1. job[p] \in Job /\ Shape(job[p]) /\ job \in [Proc -> Job]
  BY DEF Typed, JobsTyped
<1>2. job[p].name \in Name /\ job[p].text \in Content /\ job[p].slug \in Name
  BY <1>1 DEF Job
<1>3. ASSUME NEW j \in Job, Shape(j), job' = [job EXCEPT ![p] = j]
      PROVE  JobsTyped'
  BY <1>3 DEF Typed, JobsTyped
<1>4. ASSUME UNCHANGED <<markerVars, look>>
      PROVE  MarkerTyped' /\ LooksTyped'
  BY <1>4 DEF Typed, MarkerTyped, LooksTyped, markerVars
<1>5. CASE Open(p)
  <2>1. [job[p] EXCEPT !.at = "fill"] \in Job /\ Shape([job[p] EXCEPT !.at = "fill"])
    BY <1>1, <1>5 DEF Job, Shape, Replacing, Open, At
  <2>2. JobsTyped'
    BY <1>3, <1>5, <2>1 DEF Open, Move
  <2>3. StoreTyped'
    BY <1>2, <1>5, ContentTyped DEF Open, Typed, StoreTyped
  <2> QED BY <1>4, <1>5, <2>2, <2>3 DEF Open, Typed
<1>6. CASE Fill(p)
  <2>1. [job[p] EXCEPT !.at = "rename"] \in Job /\ Shape([job[p] EXCEPT !.at = "rename"])
    BY <1>1, <1>6 DEF Job, Shape, Replacing, Fill, At
  <2>2. JobsTyped'
    BY <1>3, <1>6, <2>1 DEF Fill, Move
  <2>3. \A old : Filled(old, job[p].text) \subseteq Content
    BY <1>2, ContentTyped DEF Filled
  <2>4. StoreTyped'
    <3>1. CASE At(p, "fill")
      BY <1>2, <1>6, <2>3, <3>1 DEF Fill, At, Typed, StoreTyped
    <3>2. CASE At(p, "fill over")
      BY <1>2, <1>6, <2>3, <3>2 DEF Fill, At, Typed, StoreTyped
    <3>3. CASE At(p, "fill nothing")
      BY <1>6, <3>3 DEF Fill, At, Typed, StoreTyped
    <3> QED BY <1>6, <3>1, <3>2, <3>3 DEF Fill
  <2> QED BY <1>4, <1>6, <2>2, <2>4 DEF Fill, Typed
<1>7. CASE RenameEntry(p)
  <2>1. [job[p] EXCEPT !.at = "index"] \in Job /\ Shape([job[p] EXCEPT !.at = "index"])
    BY <1>1, <1>7 DEF Job, Shape, RenameEntry
  <2>2. JobsTyped'
    BY <1>7, <2>1, RenameTyped DEF RenameEntry, Typed
  <2>3. StoreTyped'
    BY <1>2, <1>7, ContentTyped DEF RenameEntry, Rename, Typed, StoreTyped
  <2> QED BY <1>4, <1>7, <2>2, <2>3 DEF RenameEntry, Typed
<1>8. CASE RenameIndex(p)
  <2>1. job[p].slug \in Slug
    BY <1>1, <1>8, ContentTyped DEF RenameIndex, Rename, At, Shape, Replacing
  <2>2. JobsTyped'
    BY <1>8, IdleTyped, RenameTyped DEF RenameIndex, Typed
  <2>3. file' \in [Name -> Content] /\ tmp' \in [Name -> Content]
    BY <1>2, <1>8, ContentTyped DEF RenameIndex, Rename, Typed, StoreTyped
  <2>4. StoreTyped'
    BY <1>8, <2>1, <2>3, SucceedTyped DEF RenameIndex, Typed, StoreTyped
  <2> QED BY <1>4, <1>8, <2>2, <2>4 DEF RenameIndex, Typed
<1>9. CASE remove_file(p)
  <2>1. [job[p] EXCEPT !.at = "index"] \in Job /\ Shape([job[p] EXCEPT !.at = "index"])
    BY <1>1, <1>9 DEF Job, Shape, Replacing, remove_file, At
  <2>2. JobsTyped'
    BY <1>3, <1>9, <2>1 DEF remove_file, Move
  <2>3. StoreTyped'
    BY <1>2, <1>9, ContentTyped DEF remove_file, Typed, StoreTyped
  <2> QED BY <1>4, <1>9, <2>2, <2>3 DEF remove_file, Typed
<1> DEFINE Indexed(lines) == [job[p] EXCEPT !.name = INDEX, !.at = "open", !.text = render_index(lines)]
<1>10. ASSUME NEW lines \in [Name -> Nat], At(p, "index")
       PROVE  Indexed(lines) \in Job /\ Shape(Indexed(lines))
  <2>1. render_index(lines) \in Content /\ render_index(lines).kind = "index"
    BY ContentTyped
  <2>2. job[p].do \in {"write", "delete"} /\ job[p].slug \in Slug
    BY <1>1, <1>10 DEF At, Shape, Replacing
  <2> QED BY <1>1, <2>1, <2>2 DEF Job, Shape, Replacing, Name
<1>11. CASE upsert_index(p)
  <2>1. job[p].slug \in Slug
    BY <1>1, <1>11 DEF upsert_index, At, Shape, Replacing
  <2> DEFINE lines == Upserted(read_index, job[p].slug, job[p].reads)
  <2>2. lines \in [Name -> Nat]
    BY ReadIndexTyped, UpsertedLines DEF Typed
  <2>3. job' = [job EXCEPT ![p] = Indexed(lines)]
    BY <1>1, <1>11 DEF upsert_index
  <2> HIDE DEF lines
  <2>4. JobsTyped'
    BY <1>3, <1>10, <1>11, <2>2, <2>3 DEF upsert_index
  <2> QED BY <1>4, <1>11, <2>4 DEF upsert_index, Typed, StoreTyped
<1>12. CASE remove_from_index(p)
  <2>1. job[p].slug \in Slug
    BY <1>1, <1>12 DEF remove_from_index, At, Shape, Replacing
  <2> DEFINE lines == [read_index EXCEPT ![job[p].slug] = 0]
  <2>2. lines \in [Name -> Nat]
    BY ReadIndexTyped DEF Typed
  <2>3. CASE read_index[job[p].slug] > 0
    <3>1. job' = [job EXCEPT ![p] = Indexed(lines)]
      BY <1>1, <1>12, <2>3 DEF remove_from_index
    <3> HIDE DEF lines
    <3>2. JobsTyped'
      BY <1>3, <1>10, <1>12, <2>2, <3>1 DEF remove_from_index
    <3> QED BY <1>4, <1>12, <2>3, <3>2 DEF remove_from_index, Typed, StoreTyped
  <2>4. CASE ~(read_index[job[p].slug] > 0)
    <3>1. JobsTyped'
      BY <1>3, <1>12, <2>4, IdleTyped DEF remove_from_index
    <3>2. StoreTyped'
      BY <1>12, <2>1, <2>4, SucceedTyped DEF remove_from_index, Typed, StoreTyped
    <3> QED BY <1>4, <1>12, <3>1, <3>2 DEF remove_from_index, Typed
  <2> QED BY <2>3, <2>4
<1>13. CASE Fail(p)
  BY <1>3, <1>4, <1>13, IdleTyped DEF Fail, Typed, StoreTyped, storeVars
<1> QED BY <1>5, <1>6, <1>7, <1>8, <1>9, <1>11, <1>12, <1>13 DEF StoreStep

\* So does every step of a dream command or of an audit,
LEMMA DreamStepTyped ==
    ASSUME Typed, NEW p \in Proc, DreamStep(p)
    PROVE  Typed'
<1>1. job[p] \in Job /\ Shape(job[p]) /\ job \in [Proc -> Job]
  BY DEF Typed, JobsTyped
<1>2. ASSUME NEW j \in Job, Shape(j), job' = [job EXCEPT ![p] = j]
      PROVE  JobsTyped'
  BY <1>2 DEF Typed, JobsTyped
<1>3. look[p] \in View /\ look \in [Proc -> View]
  BY DEF Typed, LooksTyped
<1>4. ASSUME storeVars' = storeVars
      PROVE  StoreTyped'
  BY <1>4 DEF Typed, StoreTyped, storeVars
<1>5. CASE Look(p)
  <2>1. job[p].do \in {"dream", "retire"}
    BY <1>1, <1>5 DEF Look, At, Shape, Replacing
  <2>2. \E j \in {[job[p] EXCEPT !.at = "stamp"], [job[p] EXCEPT !.at = "marker"], Idle} :
           job' = [job EXCEPT ![p] = j] /\ (job[p].do = "retire" => j.at # "marker")
    BY <1>1, <1>5, <2>1 DEF Look, Move, Idle, Job
  <2>3. \A j \in {[job[p] EXCEPT !.at = "stamp"], [job[p] EXCEPT !.at = "marker"], Idle} : j \in Job
    BY <1>1, IdleTyped DEF Job
  <2>4. \A j \in {[job[p] EXCEPT !.at = "stamp"], [job[p] EXCEPT !.at = "marker"], Idle} :
           (job[p].do = "retire" => j.at # "marker") => Shape(j)
    BY <1>1, <2>1, IdleTyped DEF Job, Shape
  <2>5. JobsTyped'
    BY <1>2, <2>2, <2>3, <2>4
  <2> QED BY <1>4, <1>5, <2>5 DEF Look, Typed, MarkerTyped, LooksTyped, markerVars
<1>6. CASE OpenMarker(p)
  <2>1. [job[p] EXCEPT !.at = "mark"] \in Job /\ Shape([job[p] EXCEPT !.at = "mark"])
    BY <1>1, <1>6 DEF Job, Shape, Replacing, OpenMarker, At
  <2>2. JobsTyped'
    BY <1>2, <1>6, <2>1 DEF OpenMarker, Move
  <2> QED BY <1>4, <1>6, <2>2 DEF OpenMarker, Typed, MarkerTyped, LooksTyped
<1>7. CASE stamp_if_observed(p)
  <2>1. [job[p] EXCEPT !.at = "marker"] \in Job /\ Shape([job[p] EXCEPT !.at = "marker"])
    BY <1>1, <1>7 DEF Job, Shape, Replacing, stamp_if_observed, At
  <2>2. JobsTyped'
    BY <1>2, <1>7, <2>1 DEF stamp_if_observed, Move
  <2>3. MarkerTyped'
    <3>1. stamped' \in BOOLEAN /\ retired' \in BOOLEAN
      BY <1>7 DEF stamp_if_observed, Typed, MarkerTyped
    <3>2. marker' \in {"none", "empty", "stamped", "retired"}
      BY <1>7 DEF stamp_if_observed, Typed, MarkerTyped
    <3> QED BY <3>1, <3>2 DEF MarkerTyped
  <2> QED BY <1>4, <1>7, <2>2, <2>3 DEF stamp_if_observed, Typed, LooksTyped
<1>8. CASE Retire(p)
  <2>1. JobsTyped'
    BY <1>2, <1>8, IdleTyped DEF Retire
  <2>2. MarkerTyped'
    <3>1. stamped' \in BOOLEAN /\ retired' \in BOOLEAN
      BY <1>8 DEF Retire
    <3>2. marker' \in {"none", "empty", "stamped", "retired"}
      BY <1>8 DEF Retire, Typed, MarkerTyped
    <3> QED BY <3>1, <3>2 DEF MarkerTyped
  <2> QED BY <1>4, <1>8, <2>1, <2>2 DEF Retire, Typed, LooksTyped
<1>9. CASE MarkerFails(p)
  <2>1. CASE job[p].do = "dream"
    <3>1. [job[p] EXCEPT !.at = "marker"] \in Job /\ Shape([job[p] EXCEPT !.at = "marker"])
      BY <1>1, <2>1 DEF Job, Shape
    <3>2. JobsTyped'
      BY <1>2, <1>9, <2>1, <3>1 DEF MarkerFails, Move
    <3> QED BY <1>4, <1>9, <3>2 DEF MarkerFails, Typed, MarkerTyped, LooksTyped, markerVars
  <2>2. CASE job[p].do # "dream"
    <3>1. JobsTyped'
      BY <1>2, <1>9, <2>2, IdleTyped DEF MarkerFails
    <3> QED BY <1>4, <1>9, <3>1 DEF MarkerFails, Typed, MarkerTyped, LooksTyped, markerVars
  <2> QED BY <2>1, <2>2
<1>10. CASE ReadMarker(p)
  <2>1. [job[p] EXCEPT !.at = "store"] \in Job /\ Shape([job[p] EXCEPT !.at = "store"])
    BY <1>1, <1>10 DEF Job, Shape, Replacing, ReadMarker, At
  <2>2. JobsTyped'
    BY <1>2, <1>10, <2>1 DEF ReadMarker, Move
  <2>3. read_tier_marker \in {"absent", "stamped", "retired"} /\ stamped \in BOOLEAN
    BY DEF read_tier_marker, Typed, MarkerTyped
  <2>4. [look[p] EXCEPT !.tier = read_tier_marker, !.stamped = stamped] \in View
    BY <1>3, <2>3 DEF View
  <2>5. LooksTyped'
    BY <1>3, <1>10, <2>4 DEF ReadMarker, LooksTyped
  <2> QED BY <1>4, <1>10, <2>2, <2>5 DEF ReadMarker, Typed, MarkerTyped, markerVars
<1>11. CASE ReadIndex(p)
  <2>1. [job[p] EXCEPT !.at = "entries"] \in Job /\ Shape([job[p] EXCEPT !.at = "entries"])
    BY <1>1, <1>11 DEF Job, Shape, Replacing, ReadIndex, At
  <2>2. JobsTyped'
    BY <1>2, <1>11, <2>1 DEF ReadIndex, Move
  <2> DEFINE h == look[p].here /\ initialized
             ls == IF look[p].here THEN Listed(read_index) ELSE {}
             ks == IF look[p].here THEN kept ELSE {}
  <2>3. h \in BOOLEAN /\ ls \in SUBSET Name /\ ks \in SUBSET Slug
    BY DEF Typed, StoreTyped, Listed
  <2>4. look' = [look EXCEPT ![p] = [look[p] EXCEPT !.present = h, !.lines = ls, !.kept = ks]]
    BY <1>3, <1>11 DEF ReadIndex
  <2> HIDE DEF h, ls, ks
  <2>5. [look[p] EXCEPT !.present = h, !.lines = ls, !.kept = ks] \in View
    BY <1>3, <2>3 DEF View
  <2>6. LooksTyped'
    BY <1>3, <2>4, <2>5 DEF LooksTyped
  <2> QED BY <1>4, <1>11, <2>2, <2>6 DEF ReadIndex, Typed, MarkerTyped, markerVars
<1>12. CASE Audit(p)
  <2>1. JobsTyped'
    BY <1>2, <1>12, IdleTyped DEF Audit
  <2>2. LooksTyped'
    BY <1>3, <1>12 DEF Audit, LooksTyped, Unread, View
  <2> QED BY <1>4, <1>12, <2>1, <2>2 DEF Audit, Typed, MarkerTyped, markerVars
<1> QED BY <1>5, <1>6, <1>7, <1>8, <1>9, <1>10, <1>11, <1>12 DEF DreamStep

\* the start of one,
LEMMA LaunchTyped ==
    ASSUME Typed, NEW p \in Proc, NEW do, NEW at, NEW here \in BOOLEAN, Launch(p, do, at, here),
           \/ do \in {"dream", "retire"} /\ at = "look"
           \/ do = "consolidate" /\ at = "marker"
    PROVE  Typed'
<1>1. job[p] \in Job /\ job \in [Proc -> Job]
  BY DEF Typed, JobsTyped
<1> DEFINE j == [job[p] EXCEPT !.do = do, !.at = at]
<1>2. j \in Job /\ Shape(j)
  BY <1>1 DEF Job, Shape
<1>3. job' = [job EXCEPT ![p] = j]
  BY <1>1 DEF Launch
<1> HIDE DEF j
<1>4. JobsTyped'
  BY <1>2, <1>3 DEF Typed, JobsTyped
<1>5. LooksTyped'
  BY DEF Launch, Typed, LooksTyped, Unread, View
<1> QED BY <1>4, <1>5 DEF Launch, Typed, StoreTyped, MarkerTyped, storeVars, markerVars

\* and whatever the memory's processes do.
LEMMA MemoryStepTyped ==
    ASSUME Typed, MemoryStep
    PROVE  Typed'
<1>1. ASSUME NEW p \in Server, NEW s \in Slug, NEW d \in Draft, write(p, s, d)
      PROVE  Typed'
  BY <1>1, BeginTyped, ContentTyped DEF write, Proc, ReadsAs
<1>2. ASSUME NEW p \in Server, NEW s \in Slug, delete(p, s)
      PROVE  Typed'
  BY <1>2, BeginTyped, ContentTyped DEF delete, Proc
<1>3. ASSUME NEW p \in Proc, NEW here \in BOOLEAN,
             run_dream(p, here) \/ retire_marker(p) \/ memory_consolidate(p)
      PROVE  Typed'
  BY <1>3, LaunchTyped DEF run_dream, retire_marker, memory_consolidate
<1>4. ASSUME NEW p \in Proc, Crash(p)
      PROVE  Typed'
  <2>1. JobsTyped'
    BY <1>4, IdleTyped DEF Crash, Typed, JobsTyped
  <2>2. LooksTyped'
    BY <1>4 DEF Crash, Typed, LooksTyped, Unread, View
  <2> QED BY <1>4, <2>1, <2>2 DEF Crash, Typed, StoreTyped, MarkerTyped, storeVars, markerVars
<1>5. CASE RemoveMarker
  BY <1>5 DEF RemoveMarker, Typed, StoreTyped, MarkerTyped, JobsTyped, LooksTyped, storeVars
<1>6. CASE UNCHANGED memoryVars
  BY <1>6 DEF memoryVars, Typed, StoreTyped, MarkerTyped, JobsTyped, LooksTyped, storeVars, markerVars
<1> QED
  BY <1>1, <1>2, <1>3, <1>4, <1>5, <1>6, StoreStepTyped, DreamStepTyped DEF MemoryStep

\* The memory starts well typed.
LEMMA MemoryInitTyped == MemoryInit => Typed
<1> SUFFICES ASSUME MemoryInit
             PROVE  Typed
  OBVIOUS
<1>1. JobsTyped
  BY IdleTyped DEF MemoryInit, JobsTyped
<1>2. StoreTyped
  <2>1. CASE file = [n \in Name |-> Nothing] /\ told = [s \in Slug |-> "nothing"] /\ kept = {}
    BY <2>1, ContentTyped DEF MemoryInit, StoreTyped
  <2>2. ASSUME NEW s \in Slug \ {INDEX}, NEW d \in Draft,
               file = [n \in Name |-> IF n = s THEN entry_text(d)
                                      ELSE IF n = INDEX
                                      THEN render_index(Upserted(NoLines, s, ReadsAs(s, d)))
                                      ELSE Nothing],
               told = [n \in Slug |-> IF n = s THEN "written" ELSE "nothing"], kept = {s}
        PROVE  StoreTyped
    <3> DEFINE lines == Upserted(NoLines, s, ReadsAs(s, d))
    <3>1. lines \in [Name -> Nat]
      BY UpsertedLines DEF NoLines
    <3>2. entry_text(d) \in Content /\ render_index(lines) \in Content
      BY <3>1, ContentTyped
    <3> HIDE DEF lines
    <3>3. file = [n \in Name |-> IF n = s THEN entry_text(d)
                                ELSE IF n = INDEX THEN render_index(lines) ELSE Nothing]
      BY <2>2 DEF lines
    <3> QED BY <2>2, <3>2, <3>3, ContentTyped DEF MemoryInit, StoreTyped
  <2> QED BY <2>1, <2>2 DEF MemoryInit
<1>3. MarkerTyped
  BY DEF MemoryInit, MarkerTyped
<1>4. LooksTyped
  BY DEF MemoryInit, LooksTyped, Unread, View
<1> QED BY <1>1, <1>2, <1>3, <1>4 DEF Typed

-----------------------------------------------------------------------------
(* The connections. *)

Msg == {m \in [id : Int, kind : {"initialize", "ping", "consolidate", "verb", "write", "delete",
                                 "notification", "reply"},
               slug : Name, draft : Draft \cup {"none"}] :
           /\ m.kind = "write" => m.slug \in Slug /\ m.draft \in Draft
           /\ m.kind = "delete" => m.slug \in Slug}
Conn == [pipe : Seq(Msg), open : BOOLEAN, last : Int, unanswered : SUBSET Int,
         turn : Int, owed : SUBSET Int, mistaken : BOOLEAN]
Srv == [up : BOOLEAN, elicits : BOOLEAN, next_id : Int,
        at : {"read", "tool", "verb", "elicit"}, call : Int, eid : Int]
ServersTyped == chan \in [Server -> Conn] /\ srv \in [Server -> Srv]

\* What is sent is a message; what is read was one.
LEMMA MessageTyped ==
    /\ \A id \in Int, tool \in Tool : Message(id, tool.kind, tool.slug, tool.draft) \in Msg
    /\ Message(-1, "notification", INDEX, "none") \in Msg
    /\ \A id \in Int : Message(id, "reply", INDEX, "none") \in Msg
<1>1. ASSUME NEW id \in Int, NEW tool \in Tool
      PROVE  Message(id, tool.kind, tool.slug, tool.draft) \in Msg
  <2>1. CASE tool \in [kind : {"initialize", "ping", "consolidate", "verb"}, slug : {INDEX}, draft : {"none"}]
    BY <2>1 DEF Message, Msg, Name
  <2>2. CASE tool \in [kind : {"write"}, slug : Slug, draft : Draft]
    BY <2>2 DEF Message, Msg, Name
  <2>3. CASE tool \in [kind : {"delete"}, slug : Slug, draft : {"none"}]
    BY <2>3 DEF Message, Msg, Name
  <2> QED BY <2>1, <2>2, <2>3 DEF Tool
<1>2. Message(-1, "notification", INDEX, "none") \in Msg
  BY DEF Message, Msg, Name
<1>3. ASSUME NEW id \in Int
      PROVE  Message(id, "reply", INDEX, "none") \in Msg
  BY <1>3 DEF Message, Msg, Name
<1> QED BY <1>1, <1>2, <1>3

\* A server that is down or fresh, and a connection that is closed or new.
LEMMA EndsTyped == Down \in Srv /\ Fresh \in Srv /\ Closed \in Conn /\ Opened \in Conn
<1>1. Down \in Srv
  BY DEF Down, Srv
<1>2. Fresh \in Srv
  BY <1>1 DEF Fresh, Srv
<1>3. << >> \in Seq(Msg)
  OBVIOUS
<1>4. Closed \in Conn
  BY <1>3 DEF Closed, Conn
<1>5. Opened \in Conn
  BY <1>4 DEF Opened, Conn
<1> QED BY <1>1, <1>2, <1>4, <1>5

\* Sending,
LEMMA AppendTyped ==
    ASSUME NEW c \in Conn, NEW m \in Msg
    PROVE  Append(c.pipe, m) \in Seq(Msg)
<1>1. c.pipe \in Seq(Msg)
  BY DEF Conn
<1> QED BY <1>1

\* reading
LEMMA ReadTyped ==
    ASSUME ServersTyped, NEW s \in Server, chan[s].pipe # << >>
    PROVE  /\ read_message(s) \in Msg /\ Rest(s) \in Conn /\ Rest(s).pipe = Tail(chan[s].pipe)
           /\ Rest(s).last = chan[s].last /\ Rest(s).mistaken = chan[s].mistaken
<1>1. chan[s] \in Conn
  BY DEF ServersTyped
<1>2. chan[s].pipe \in Seq(Msg)
  BY <1>1 DEF Conn
<1>3. Head(chan[s].pipe) \in Msg /\ Tail(chan[s].pipe) \in Seq(Msg)
  BY <1>2
<1> QED BY <1>1, <1>3 DEF read_message, Rest, Conn

\* and answering keep a connection one.
LEMMA AnsweredTyped ==
    ASSUME NEW c \in Conn, NEW id
    PROVE  Answered(c, id) \in Conn /\ Answered(c, id).pipe = c.pipe
           /\ Answered(c, id).last = c.last /\ Answered(c, id).mistaken = c.mistaken
BY DEF Answered, Conn

\* A step of the servers, their clients and the commands, connection by connection.
LEMMA ServersStepTyped ==
    ASSUME ServersTyped, [Next]_vars
    PROVE  ServersTyped'
<1>1. ASSUME NEW s \in Server, NEW c \in Conn, NEW v \in Srv,
             chan' = [chan EXCEPT ![s] = c] \/ chan' = chan,
             srv' = [srv EXCEPT ![s] = v] \/ srv' = srv
      PROVE  ServersTyped'
  BY <1>1 DEF ServersTyped
<1>2. Down \in Srv /\ Fresh \in Srv /\ Closed \in Conn /\ Opened \in Conn
  BY EndsTyped
<1>3. ASSUME NEW s \in Server
      PROVE  chan[s] \in Conn /\ srv[s] \in Srv
  BY DEF ServersTyped
<1>4. chan \in [Server -> Conn] /\ srv \in [Server -> Srv]
  BY DEF ServersTyped
<1>5. ASSUME NEW s \in Server, NEW tool \in Tool, Send(s, tool)
      PROVE  ServersTyped'
  <2> DEFINE id == chan[s].last + 1
             m == Message(id, tool.kind, tool.slug, tool.draft)
             c == [chan[s] EXCEPT !.pipe = Append(@, m), !.last = id, !.unanswered = @ \cup {id},
                                  !.turn = IF chan[s].unanswered = {} THEN id ELSE @]
  <2>1. id \in Int /\ m \in Msg
    BY <1>3, MessageTyped DEF Conn
  <2>2. chan' = [chan EXCEPT ![s] = c] /\ srv' = srv
    BY <1>5 DEF Send
  <2> HIDE DEF id, m
  <2> DEFINE turn == IF chan[s].unanswered = {} THEN id ELSE chan[s].turn
  <2>3. Append(chan[s].pipe, m) \in Seq(Msg) /\ chan[s].unanswered \cup {id} \in SUBSET Int
        /\ turn \in Int
    BY <1>3, <2>1, AppendTyped DEF Conn
  <2>4. c = [chan[s] EXCEPT !.pipe = Append(chan[s].pipe, m), !.last = id,
                            !.unanswered = chan[s].unanswered \cup {id}, !.turn = turn]
    BY <1>3 DEF Conn
  <2> HIDE DEF c, turn
  <2>5. c \in Conn
    BY <1>3, <2>1, <2>3, <2>4 DEF Conn
  <2> QED BY <1>1, <1>3, <2>2, <2>5
<1>6. ASSUME NEW s \in Server, NEW m \in Msg, NEW owed \in SUBSET Int,
             chan' = [chan EXCEPT ![s].pipe = Append(@, m), ![s].owed = owed]
                \/ chan' = [chan EXCEPT ![s].pipe = Append(@, m)],
             srv' = srv
      PROVE  ServersTyped'
  <2> DEFINE c == [chan[s] EXCEPT !.pipe = Append(@, m), !.owed = owed]
             d == [chan[s] EXCEPT !.pipe = Append(@, m)]
  <2>1. Append(chan[s].pipe, m) \in Seq(Msg)
    BY <1>3, AppendTyped
  <2>3. c \in Conn /\ d \in Conn
    BY <1>3, <2>1 DEF Conn
  <2>2. chan' = [chan EXCEPT ![s] = c] \/ chan' = [chan EXCEPT ![s] = d]
    BY <1>4, <1>6
  <2> HIDE DEF c, d
  <2> QED BY <1>1, <1>3, <1>6, <2>2, <2>3
<1>7. ASSUME NEW s \in Server, Notify(s)
      PROVE  ServersTyped'
  BY <1>6, <1>7, MessageTyped DEF Notify
<1>8. ASSUME NEW s \in Server, NEW id \in chan[s].owed, Reply(s, id)
      PROVE  ServersTyped'
  <2>1. chan[s].owed \ {id} \in SUBSET Int /\ id \in Int
    BY <1>3 DEF Conn
  <2>2. Message(id, "reply", INDEX, "none") \in Msg
    BY <2>1, MessageTyped
  <2>3. chan' = [chan EXCEPT ![s].pipe = Append(@, Message(id, "reply", INDEX, "none")),
                             ![s].owed = chan[s].owed \ {id}]
    BY <1>4, <1>8 DEF Reply
  <2> QED BY <1>6, <1>8, <2>1, <2>2, <2>3 DEF Reply
<1>9. ASSUME NEW s \in Server, Close(s)
      PROVE  ServersTyped'
  <2>1. [chan[s] EXCEPT !.open = FALSE] \in Conn
    BY <1>3 DEF Conn
  <2>2. chan' = [chan EXCEPT ![s] = [chan[s] EXCEPT !.open = FALSE]]
    BY <1>4, <1>9 DEF Close
  <2> QED BY <1>1, <1>3, <1>9, <2>1, <2>2 DEF Close
<1>10. ASSUME NEW s \in Server, serve(s)
       PROVE  ServersTyped'
  <2>1. CASE Answer(s)
    <3> DEFINE v == [srv[s] EXCEPT !.elicits = @ \/ read_message(s).kind = "initialize"]
               c == Answered(Rest(s), read_message(s).id)
    <3>1. v \in Srv
      BY <1>3 DEF Srv
    <3>2. c \in Conn
      BY <2>1, ReadTyped, AnsweredTyped DEF Answer, ReadsAt
    <3>3. chan' = [chan EXCEPT ![s] = c] /\ srv' = [srv EXCEPT ![s] = v]
      BY <1>4, <2>1 DEF Answer
    <3> HIDE DEF v, c
    <3> QED BY <1>1, <3>1, <3>2, <3>3
  <2>2. CASE Ignore(s)
    BY <1>1, <1>3, <2>2, ReadTyped DEF Ignore, ReadsAt
  <2>3. CASE handle_tool_call(s)
    <3> DEFINE v == [srv[s] EXCEPT !.at = IF read_message(s).kind = "verb" THEN "verb" ELSE "tool",
                                   !.call = read_message(s).id]
    <3>1. read_message(s) \in Msg /\ Rest(s) \in Conn
      BY <2>3, ReadTyped DEF handle_tool_call, ReadsAt
    <3>2. v \in Srv
      BY <1>3, <3>1 DEF Srv, Msg
    <3>3. chan' = [chan EXCEPT ![s] = Rest(s)] /\ srv' = [srv EXCEPT ![s] = v]
      BY <1>4, <2>3 DEF handle_tool_call
    <3> HIDE DEF v
    <3> QED BY <1>1, <3>1, <3>2, <3>3
  <2>4. CASE ToolDone(s) \/ VerbDone(s)
    <3> DEFINE v == [srv[s] EXCEPT !.at = "read"]
               c == Answered(chan[s], srv[s].call)
    <3>1. v \in Srv
      BY <1>3 DEF Srv
    <3>2. c \in Conn
      BY <1>3, AnsweredTyped
    <3>3. chan' = [chan EXCEPT ![s] = c] /\ srv' = [srv EXCEPT ![s] = v]
      BY <1>4, <2>4 DEF ToolDone, VerbDone
    <3> HIDE DEF v, c
    <3> QED BY <1>1, <3>1, <3>2, <3>3
  <2>5. CASE elicitation_request(s)
    <3> DEFINE v == [srv[s] EXCEPT !.at = "elicit", !.eid = srv[s].next_id, !.next_id = @ + 1]
               c == [chan[s] EXCEPT !.owed = @ \cup {srv[s].next_id}]
    <3>1. v \in Srv
      <4>1. \A n \in Int : [srv[s] EXCEPT !.at = "elicit", !.eid = n, !.next_id = n + 1] \in Srv
        <5>1. \A n \in Int : n + 1 \in Int
          OBVIOUS
        <5> QED BY <1>3, <5>1 DEF Srv
      <4>2. srv[s].next_id \in Int
        BY <1>3 DEF Srv
      <4> QED BY <1>3, <4>1, <4>2 DEF Srv
    <3>3. c \in Conn
      <4>1. srv[s].next_id \in Int
        BY <1>3 DEF Srv
      <4> QED BY <1>3, <4>1 DEF Conn
    <3>2. chan' = [chan EXCEPT ![s] = c] /\ srv' = [srv EXCEPT ![s] = v]
      BY <1>4, <2>5 DEF elicitation_request
    <3> HIDE DEF v, c
    <3> QED BY <1>1, <3>1, <3>2, <3>3
  <2>6. CASE Elicited(s)
    <3> DEFINE msg == read_message(s)
               v == [srv[s] EXCEPT !.at = "read"]
               a == Answered(Rest(s), srv[s].call)
               c == [a EXCEPT !.mistaken = @ \/ ~IsReply(msg)]
    <3>1. Rest(s) \in Conn
      BY <2>6, ReadTyped DEF Elicited, ReadsAt
    <3>2. a \in Conn
      BY <3>1, AnsweredTyped
    <3>3. CASE IsFor(s, msg)
      <4>1. chan' = [chan EXCEPT ![s] = c] /\ srv' = [srv EXCEPT ![s] = v]
        BY <1>4, <2>6, <3>3 DEF Elicited
      <4> HIDE DEF a
      <4>2. c \in Conn /\ v \in Srv
        BY <1>3, <3>2 DEF Conn, Srv
      <4> HIDE DEF v, c
      <4> QED BY <1>1, <4>1, <4>2
    <3>4. CASE ~IsFor(s, msg)
      BY <1>1, <1>3, <2>6, <3>1, <3>4 DEF Elicited
    <3> QED BY <3>3, <3>4
  <2>7. CASE EndOfInput(s)
    <3> DEFINE v == [srv[s] EXCEPT !.at = "read"]
               c == Answered(chan[s], srv[s].call)
    <3>1. v \in Srv
      BY <1>3 DEF Srv
    <3>2. c \in Conn
      BY <1>3, AnsweredTyped
    <3>3. \/ chan' = [chan EXCEPT ![s] = c] /\ srv' = [srv EXCEPT ![s] = v]
          \/ chan' = [chan EXCEPT ![s] = Closed] /\ srv' = [srv EXCEPT ![s] = Down]
      BY <1>4, <2>7 DEF EndOfInput
    <3> HIDE DEF v, c
    <3> QED BY <1>1, <1>2, <3>1, <3>2, <3>3
  <2> QED BY <1>10, <2>1, <2>2, <2>3, <2>4, <2>5, <2>6, <2>7 DEF serve
<1>11. ASSUME NEW s \in Server, Killed(s)
       PROVE  ServersTyped'
  BY <1>1, <1>2, <1>11 DEF Killed
<1>12. ASSUME UNCHANGED <<srv, chan>>
       PROVE  ServersTyped'
  BY <1>12 DEF ServersTyped
<1>13. \A s \in Server : Asks[s] \subseteq Tool
  BY ServerAssumption
<1> QED
  BY <1>5, <1>7, <1>8, <1>9, <1>10, <1>11, <1>12, <1>13 DEF Next, Command, Step, vars

\* The memory is changed by the operations its processes are given and by nothing else.
LEMMA NextMemoryStep ==
    ASSUME ServersTyped, [Next]_vars
    PROVE  MemoryStep
<1>1. ASSUME NEW s \in Server, handle_tool_call(s)
      PROVE  MemoryStep
  <2>1. read_message(s) \in Msg
    BY <1>1, ReadTyped DEF handle_tool_call, ReadsAt
  <2>2. read_message(s).kind = "write" => read_message(s).slug \in Slug /\ read_message(s).draft \in Draft
    BY <2>1 DEF Msg
  <2>3. read_message(s).kind = "delete" => read_message(s).slug \in Slug
    BY <2>1 DEF Msg
  <2> QED BY <1>1, <2>2, <2>3 DEF handle_tool_call, MemoryStep, Proc
<1>2. ASSUME NEW s \in Server, serve(s), ~handle_tool_call(s)
      PROVE  MemoryStep
  BY <1>2 DEF serve, Answer, Ignore, ToolDone, VerbDone, elicitation_request, Elicited, EndOfInput, MemoryStep
<1>3. ASSUME NEW s \in Server, Killed(s)
      PROVE  MemoryStep
  BY <1>3 DEF Killed, MemoryStep, Proc
<1>4. ASSUME NEW s \in Server,
             (\E tool \in Asks[s] : Send(s, tool)) \/ Notify(s) \/ Close(s)
                \/ (\E id \in chan[s].owed : Reply(s, id))
      PROVE  MemoryStep
  BY <1>4 DEF Send, Notify, Close, Reply, MemoryStep
<1>5. ASSUME NEW d \in Dream, Command(d) \/ Crash(d)
      PROVE  MemoryStep
  BY <1>5 DEF Command, MemoryStep, Proc
<1>6. ASSUME NEW p \in Proc, Step(p)
      PROVE  MemoryStep
  BY <1>6 DEF Step, MemoryStep
<1>7. CASE RemoveMarker \/ UNCHANGED vars
  BY <1>7 DEF MemoryStep, vars
<1> QED BY <1>1, <1>2, <1>3, <1>4, <1>5, <1>6, <1>7 DEF Next

\* The types hold throughout.
LEMMA TypedInv == Spec => [](Typed /\ ServersTyped)
<1>1. Init => Typed /\ ServersTyped
  <2>1. Fresh \in Srv /\ Opened \in Conn
    BY EndsTyped
  <2> QED BY <2>1, MemoryInitTyped DEF Init, ServersTyped
<1>2. Typed /\ ServersTyped /\ [Next]_vars => Typed' /\ ServersTyped'
  BY ServersStepTyped, NextMemoryStep, MemoryStepTyped
<1> QED BY <1>1, <1>2, PTL DEF Spec

-----------------------------------------------------------------------------
(* The tier marker. *)

\* A reported retirement stands and nobody is about to write the marker; a
\* reported stamp stands and nobody is in the middle of writing it; what an
\* audit took for a standing stamp it read as one.
Latched ==
    /\ retired => marker = "retired" /\ \A p \in Proc : job[p].at \notin {"stamp", "mark"}
    /\ stamped => marker = "stamped" /\ \A p \in Proc : job[p].at # "mark"
    /\ \A p \in Proc : look[p].stamped => look[p].tier = "stamped"

\* A step that leaves marker and audits alone, and starts no writing of the marker.
LEMMA LatchedElsewhere ==
    ASSUME Latched, UNCHANGED <<markerVars, look>>,
           \A q \in Proc : job'[q].at \in {"stamp", "mark"} => job'[q].at = job[q].at
    PROVE  Latched'
BY DEF Latched, markerVars

\* A process that moves does nothing else.
LEMMA MovePlaces ==
    ASSUME JobsTyped, NEW p \in Proc, NEW at, Move(p, at)
    PROVE  job'[p] = [job[p] EXCEPT !.at = at] /\ job'[p].at = at
           /\ \A q \in Proc : q # p => job'[q] = job[q]
BY DEF JobsTyped, Move, Job

\* One that turns to the index keeps its operation.
LEMMA IndexPlaces ==
    ASSUME JobsTyped, NEW p \in Proc, NEW lines,
           job' = [job EXCEPT ![p].name = INDEX, ![p].at = "open", ![p].text = render_index(lines)]
    PROVE  /\ job'[p] = [job[p] EXCEPT !.name = INDEX, !.at = "open", !.text = render_index(lines)]
           /\ job'[p].at = "open" /\ job'[p].name = INDEX /\ job'[p].text = render_index(lines)
           /\ job'[p].do = job[p].do /\ job'[p].slug = job[p].slug /\ job'[p].reads = job[p].reads
           /\ job'[p].solo = job[p].solo /\ job'[p].alone = job[p].alone
           /\ \A q \in Proc : q # p => job'[q] = job[q]
<1>1. job \in [Proc -> Job] /\ job[p] \in Job
  BY DEF JobsTyped
<1>2. job'[p] = [job[p] EXCEPT !.name = INDEX, !.at = "open", !.text = render_index(lines)]
  BY <1>1
<1> QED BY <1>1, <1>2 DEF Job

\* A rename only moves the handles on the temporary it takes.
LEMMA RenamedPlaces ==
    ASSUME NEW name, NEW j \in Job
    PROVE  Renamed(name, j).at \in {j.at, "fill over", "fill nothing"}
<1>1. [j EXCEPT !.at = "fill over"].at = "fill over" /\ [j EXCEPT !.at = "fill nothing"].at = "fill nothing"
  BY DEF Job
<1> QED BY <1>1 DEF Renamed

\* A step of the store brings nobody to the marker.
LEMMA StoreStepPlaces ==
    ASSUME Typed, NEW p \in Proc, StoreStep(p), NEW q \in Proc
    PROVE  job'[q].at = job[q].at \/ job'[q].at \in Replacing \cup {"index", "idle"}
<1>1. job \in [Proc -> Job] /\ job[q] \in Job /\ job[p] \in Job
  BY DEF Typed, JobsTyped
<1>2. CASE Open(p) \/ Fill(p) \/ remove_file(p)
  <2>1. PICK at \in {"fill", "rename", "index"} : Move(p, at)
    BY <1>2 DEF Open, Fill, remove_file
  <2>2. job'[p].at = at /\ (q # p => job'[q] = job[q])
    BY <2>1, MovePlaces DEF Typed
  <2>3. at \in Replacing \cup {"index", "idle"}
    BY DEF Replacing
  <2> QED BY <2>2, <2>3
<1>3. CASE RenameEntry(p) \/ RenameIndex(p)
  <2>1. CASE q = p
    <3>1. job'[p] = [job[p] EXCEPT !.at = "index"] \/ job'[p] = Idle
      BY <1>3 DEF RenameEntry, RenameIndex, Rename
    <3> QED BY <1>1, <2>1, <3>1 DEF Idle, Job
  <2>2. CASE q # p
    <3>1. job'[q] = Renamed(job[p].name, job[q])
      BY <1>3, <2>2 DEF RenameEntry, RenameIndex, Rename
    <3>2. Renamed(job[p].name, job[q]).at \in {job[q].at, "fill over", "fill nothing"}
      BY <1>1, RenamedPlaces
    <3> QED BY <3>1, <3>2 DEF Replacing
  <2> QED BY <2>1, <2>2
<1>4. CASE upsert_index(p) \/ remove_from_index(p)
  <2>1. (\E lines : job' = [job EXCEPT ![p].name = INDEX, ![p].at = "open", ![p].text = render_index(lines)])
        \/ job' = [job EXCEPT ![p] = Idle]
    BY <1>4 DEF upsert_index, remove_from_index
  <2>2. ASSUME NEW lines,
               job' = [job EXCEPT ![p].name = INDEX, ![p].at = "open", ![p].text = render_index(lines)]
        PROVE  job'[q].at \in {job[q].at, "open"}
    <3>1. job'[p].at = "open" /\ (q # p => job'[q] = job[q])
      BY <2>2, IndexPlaces DEF Typed
    <3> QED BY <3>1
  <2>3. job' = [job EXCEPT ![p] = Idle] => job'[q].at \in {job[q].at, "idle"}
    BY <1>1 DEF Idle
  <2> QED BY <2>1, <2>2, <2>3 DEF Replacing
<1>5. CASE Fail(p)
  BY <1>1, <1>5 DEF Fail, Idle
<1> QED BY <1>2, <1>3, <1>4, <1>5 DEF StoreStep

\* Every step keeps what was reported of the marker.
LEMMA LatchedStep ==
    ASSUME Typed, Latched, MemoryStep
    PROVE  Latched'
<1>1. job \in [Proc -> Job] /\ look \in [Proc -> View]
  BY DEF Typed, JobsTyped, LooksTyped
<1>2. ASSUME NEW p \in Proc, NEW do, NEW slug, NEW draft, NEW reads, NEW at, at \in {"open", "remove"},
             Begin(p, do, slug, draft, reads, at)
      PROVE  Latched'
  <2>1. \A q \in Proc : job'[q].at = job[q].at \/ job'[q].at = at
    BY <1>1, <1>2 DEF Begin, Job
  <2> QED BY <1>2, <2>1, LatchedElsewhere DEF Begin
<1>3. ASSUME NEW p \in Proc, NEW do, NEW at, at \in {"look", "marker"},
             job' = [job EXCEPT ![p].do = do, ![p].at = at],
             \A q \in Proc : look'[q] = look[q] \/ ~look'[q].stamped, UNCHANGED markerVars
      PROVE  Latched'
  <2>1. \A q \in Proc : job'[q].at = job[q].at \/ job'[q].at = at
    BY <1>1, <1>3 DEF Job
  <2> QED BY <1>3, <2>1 DEF Latched, markerVars
<1>4. ASSUME NEW p \in Proc, StoreStep(p)
      PROVE  Latched'
  <2>1. UNCHANGED <<markerVars, look>>
    BY <1>4 DEF StoreStep, Open, Fill, RenameEntry, RenameIndex, remove_file, upsert_index,
                remove_from_index, Fail
  <2> QED BY <1>4, <2>1, StoreStepPlaces, LatchedElsewhere DEF Replacing
<1>5. ASSUME NEW p \in Proc, Look(p)
      PROVE  Latched'
  <2>1. job[p].do \in {"dream", "retire"}
    BY <1>5 DEF Typed, JobsTyped, Shape, Look, At, Replacing
  <2>2. \E at \in {"stamp", "marker"} :
           (Move(p, at) /\ (at = "stamp" => read_tier_marker # "retired"))
              \/ job' = [job EXCEPT ![p] = Idle]
    <3>1. CASE job[p].do = "dream"
      BY <1>5, <3>1 DEF Look, StampDue
    <3>2. CASE job[p].do = "retire"
      <4>1. \/ job' = [job EXCEPT ![p].at = "stamp"] /\ read_tier_marker = "stamped"
            \/ job' = [job EXCEPT ![p] = Idle]
        BY <1>1, <1>5, <3>2 DEF Look
      <4> QED BY <4>1 DEF Move
    <3> QED BY <2>1, <3>1, <3>2
  <2>3. ASSUME NEW at \in {"stamp", "marker"}, Move(p, at), at = "stamp" => read_tier_marker # "retired"
        PROVE  /\ \A q \in Proc : q # p => job'[q] = job[q]
               /\ job'[p].at # "mark" /\ (job'[p].at = "stamp" => read_tier_marker # "retired")
    <3>1. job'[p].at = at /\ \A q \in Proc : q # p => job'[q] = job[q]
      BY <2>3, MovePlaces DEF Typed
    <3> QED BY <2>3, <3>1
  <2>4. /\ \A q \in Proc : q # p => job'[q] = job[q]
        /\ job'[p].at # "mark" /\ (job'[p].at = "stamp" => read_tier_marker # "retired")
    BY <1>1, <2>2, <2>3 DEF Idle
  <2>5. UNCHANGED <<markerVars, look>>
    BY <1>5 DEF Look
  <2> QED BY <2>4, <2>5 DEF Latched, markerVars, read_tier_marker
<1>6. ASSUME NEW p \in Proc, OpenMarker(p)
      PROVE  Latched'
  <2>1. ~retired /\ retired' = retired /\ ~stamped' /\ look' = look
    BY <1>6 DEF OpenMarker, Latched, At
  <2> QED BY <2>1 DEF Latched
<1>7. ASSUME NEW p \in Proc, stamp_if_observed(p)
      PROVE  Latched'
  <2>1. ~retired /\ retired' = retired /\ look' = look
    BY <1>7 DEF stamp_if_observed, Latched, At
  <2>2. stamped' => marker' = "stamped" /\ \A q \in Proc : job'[q].at # "mark"
    BY <1>1, <1>7 DEF stamp_if_observed, Elsewhere, Move, Job
  <2> QED BY <2>1, <2>2 DEF Latched
<1>8. ASSUME NEW p \in Proc, Retire(p)
      PROVE  Latched'
  <2>1. ~stamped' /\ look' = look
    BY <1>8 DEF Retire
  <2>2. retired' => marker' = "retired" /\ \A q \in Proc : job'[q].at \notin {"stamp", "mark"}
    BY <1>1, <1>8 DEF Retire, Elsewhere, Idle
  <2> QED BY <2>1, <2>2 DEF Latched
<1>9. ASSUME NEW p \in Proc, MarkerFails(p) \/ Audit(p) \/ ReadIndex(p) \/ Crash(p)
      PROVE  Latched'
  <2>1. \A q \in Proc : job'[q].at \in {"stamp", "mark"} => job'[q].at = job[q].at
    <3>1. (\E at \in {"marker", "entries"} : Move(p, at)) \/ job' = [job EXCEPT ![p] = Idle]
      BY <1>9 DEF MarkerFails, Audit, ReadIndex, Crash
    <3>2. ASSUME NEW at \in {"marker", "entries"}, Move(p, at), NEW q \in Proc
          PROVE  job'[q].at \in {"stamp", "mark"} => job'[q].at = job[q].at
      <4>1. job'[p].at = at /\ (q # p => job'[q] = job[q])
        BY <3>2, MovePlaces DEF Typed
      <4> QED BY <4>1
    <3>3. job' = [job EXCEPT ![p] = Idle] =>
             \A q \in Proc : job'[q].at \in {"stamp", "mark"} => job'[q].at = job[q].at
      BY <1>1 DEF Idle
    <3> QED BY <3>1, <3>2, <3>3
  <2>2. \A q \in Proc : look'[q].stamped => look'[q].tier = "stamped"
    <3>1. \A l \in View : \A a, b, c : [l EXCEPT !.present = a, !.lines = b, !.kept = c].stamped = l.stamped
             /\ [l EXCEPT !.present = a, !.lines = b, !.kept = c].tier = l.tier
      BY DEF View
    <3>2. CASE MarkerFails(p)
      BY <3>2 DEF MarkerFails, Latched
    <3>3. CASE Audit(p) \/ Crash(p)
      BY <1>1, <3>3 DEF Audit, Crash, Unread, Latched
    <3>4. CASE ReadIndex(p)
      <4>1. \E a, b, c : look' = [look EXCEPT ![p] = [look[p] EXCEPT !.present = a, !.lines = b, !.kept = c]]
        BY <1>1, <3>4 DEF ReadIndex
      <4> QED BY <1>1, <3>1, <4>1 DEF Latched
    <3> QED BY <1>9, <3>2, <3>3, <3>4
  <2>3. UNCHANGED markerVars
    BY <1>9 DEF MarkerFails, Audit, ReadIndex, Crash
  <2> QED BY <2>1, <2>2, <2>3 DEF Latched, markerVars
<1>10. ASSUME NEW p \in Proc, ReadMarker(p)
       PROVE  Latched'
  <2>1. \A q \in Proc : job'[q].at = job[q].at \/ job'[q].at = "store"
    BY <1>1, <1>10 DEF ReadMarker, Move, Job
  <2>2. \A q \in Proc : look'[q].stamped => look'[q].tier = "stamped"
    BY <1>1, <1>10 DEF ReadMarker, View, Latched, read_tier_marker
  <2> QED BY <1>10, <2>1, <2>2 DEF Latched, markerVars, ReadMarker
<1>11. CASE RemoveMarker
  <2>1. ~stamped' /\ ~retired' /\ look' = look
    BY <1>11 DEF RemoveMarker
  <2> QED BY <2>1 DEF Latched
<1>12. CASE UNCHANGED memoryVars
  <2>1. job' = job /\ look' = look /\ marker' = marker /\ stamped' = stamped /\ retired' = retired
    BY <1>12 DEF memoryVars, markerVars
  <2> QED BY <2>1 DEF Latched
<1>13. ASSUME NEW p \in Proc, NEW s \in Slug, (\E d \in Draft : write(p, s, d)) \/ delete(p, s)
       PROVE  Latched'
  <2>1. ASSUME NEW d \in Draft, write(p, s, d)
        PROVE  Latched'
    <3>1. Begin(p, "write", s, entry_text(d), ReadsAs(s, d), "open")
      BY <2>1 DEF write
    <3> QED BY <1>2, <3>1
  <2>2. ASSUME delete(p, s)
        PROVE  Latched'
    <3>1. Begin(p, "delete", s, Nothing, {}, "remove")
      BY <2>2 DEF delete
    <3> QED BY <1>2, <3>1
  <2> QED BY <1>13, <2>1, <2>2
<1>14. ASSUME NEW p \in Proc, NEW here \in BOOLEAN,
              run_dream(p, here) \/ retire_marker(p) \/ memory_consolidate(p)
       PROVE  Latched'
  <2>1. \A h \in BOOLEAN : ~Unread(h).stamped
    BY DEF Unread
  <2>2. \A q \in Proc : look'[q] = look[q] \/ ~look'[q].stamped
    BY <1>1, <1>14, <2>1 DEF run_dream, retire_marker, memory_consolidate, Launch
  <2>3. \E do : \E at \in {"look", "marker"} : job' = [job EXCEPT ![p].do = do, ![p].at = at]
    BY <1>14 DEF run_dream, retire_marker, memory_consolidate, Launch
  <2>4. UNCHANGED markerVars
    BY <1>14 DEF run_dream, retire_marker, memory_consolidate, Launch
  <2> QED BY <1>3, <2>2, <2>3, <2>4
<1>15. ASSUME NEW p \in Proc, DreamStep(p)
       PROVE  Latched'
  BY <1>5, <1>6, <1>7, <1>8, <1>9, <1>10, <1>15 DEF DreamStep
<1> QED BY <1>4, <1>9, <1>11, <1>12, <1>13, <1>14, <1>15 DEF MemoryStep, Proc

\* It holds throughout.
LEMMA LatchedInv == Spec => []Latched
<1>1. Init => Latched
  <2> SUFFICES ASSUME Init
               PROVE  Latched
    OBVIOUS
  <2>1. \A p \in Proc : job[p].at = "idle" /\ ~look[p].stamped
    BY DEF Init, MemoryInit, Idle, Unread
  <2>2. ~retired /\ (stamped => marker = "stamped")
    BY DEF Init, MemoryInit
  <2> QED BY <2>1, <2>2 DEF Latched
<1>2. Typed /\ ServersTyped /\ Latched /\ [Next]_vars => Latched'
  BY NextMemoryStep, LatchedStep
<1> QED BY <1>1, <1>2, TypedInv, PTL DEF Spec

\* A retirement that was reported stays, whatever dreams run and however many
\* (RetirementStands).
THEOREM RetirementKept == Spec => []RetirementStands
<1>1. Latched => RetirementStands
  BY DEF Latched, RetirementStands
<1> QED BY <1>1, LatchedInv, PTL

-----------------------------------------------------------------------------
(* The numbers of the questions and of the requests.                       *)

IsRequest(m) == m.kind \notin {"reply", "notification"}

\* The client's requests come in the order of their numbers.
Ordered(c) ==
    /\ ~c.mistaken /\ c.last >= -1
    /\ \A i \in DOMAIN c.pipe :
          /\ IsRequest(c.pipe[i]) => 0 <= c.pipe[i].id /\ c.pipe[i].id <= c.last
          /\ c.pipe[i].kind = "initialize" => c.pipe[i].id = 0
          /\ c.pipe[i].kind = "notification" => c.pipe[i].id = -1
    /\ \A i, j \in DOMAIN c.pipe :
          i < j /\ IsRequest(c.pipe[i]) /\ IsRequest(c.pipe[j]) => c.pipe[i].id < c.pipe[j].id

\* No request still to be read has a number below n.
From(c, n) ==
    /\ c.last + 1 >= n
    /\ \A i \in DOMAIN c.pipe : IsRequest(c.pipe[i]) => c.pipe[i].id >= n

\* The next question's number is one that no request to come will bear: each
\* question is asked for a request, and the client's numbers go up with them.
Ahead(c, v) ==
    /\ v.at = "elicit" => v.elicits /\ 1 <= v.eid /\ v.eid < v.next_id
    /\ v.next_id >= 1
    /\ ~v.elicits => v.next_id = 1
    /\ v.elicits => From(c, v.next_id) /\ (v.at = "verb" => From(c, v.next_id + 1))

Numbered == \A s \in Server : Ordered(chan[s]) /\ Ahead(chan[s], srv[s])

\* Reading takes the oldest message, and leaves numbers above it.
LEMMA ReadNumbers ==
    ASSUME NEW c \in Conn, c.pipe # << >>, Ordered(c), NEW d \in Conn, d.pipe = Tail(c.pipe),
           d.last = c.last, ~d.mistaken
    PROVE  /\ Ordered(d)
           /\ \A n \in Int : From(c, n) => From(d, n)
           /\ IsRequest(Head(c.pipe)) => From(d, Head(c.pipe).id + 1)
           /\ \A n \in Int : From(c, n) /\ IsRequest(Head(c.pipe)) => Head(c.pipe).id >= n
           /\ Head(c.pipe).kind = "initialize" => Head(c.pipe).id = 0
           /\ Head(c.pipe).kind = "notification" => Head(c.pipe).id = -1
<1>1. c.pipe \in Seq(Msg) /\ d.pipe \in Seq(Msg) /\ c.last \in Int
  BY DEF Conn
<1>2. 1 \in DOMAIN c.pipe /\ Head(c.pipe) = c.pipe[1]
      /\ \A i \in DOMAIN d.pipe : i \in Nat /\ i >= 1 /\ i + 1 \in DOMAIN c.pipe /\ d.pipe[i] = c.pipe[i + 1]
  BY <1>1
<1>3. \A i \in DOMAIN c.pipe : c.pipe[i] \in Msg /\ c.pipe[i].id \in Int
  BY <1>1 DEF Msg
<1>4. Ordered(d)
  <2>1. \A i \in DOMAIN d.pipe :
          /\ IsRequest(d.pipe[i]) => 0 <= d.pipe[i].id /\ d.pipe[i].id <= d.last
          /\ d.pipe[i].kind = "initialize" => d.pipe[i].id = 0
          /\ d.pipe[i].kind = "notification" => d.pipe[i].id = -1
    BY <1>2 DEF Ordered
  <2>2. \A i, j \in DOMAIN d.pipe :
          i < j /\ IsRequest(d.pipe[i]) /\ IsRequest(d.pipe[j]) => d.pipe[i].id < d.pipe[j].id
    BY <1>2 DEF Ordered
  <2> QED BY <2>1, <2>2 DEF Ordered
<1>5. IsRequest(Head(c.pipe)) => From(d, Head(c.pipe).id + 1)
  <2> SUFFICES ASSUME IsRequest(Head(c.pipe))
               PROVE  From(d, Head(c.pipe).id + 1)
    OBVIOUS
  <2>1. Head(c.pipe).id <= c.last
    BY <1>2 DEF Ordered
  <2>2. \A i \in DOMAIN d.pipe : IsRequest(d.pipe[i]) => d.pipe[i].id > Head(c.pipe).id
    BY <1>2, <1>3 DEF Ordered
  <2>3. \A i \in DOMAIN d.pipe : d.pipe[i].id \in Int
    BY <1>2, <1>3
  <2> QED BY <1>1, <1>2, <1>3, <2>1, <2>2, <2>3 DEF From
<1> QED BY <1>2, <1>4, <1>5 DEF Ordered, From

\* Sending adds a message whose number is the next, or no request's.
LEMMA SentNumbers ==
    ASSUME NEW c \in Conn, Ordered(c), NEW m \in Msg, NEW d \in Conn, d.pipe = Append(c.pipe, m),
           ~d.mistaken,
           \/ IsRequest(m) /\ m.id = c.last + 1 /\ d.last = m.id /\ (m.kind = "initialize" => m.id = 0)
           \/ m.kind = "reply" /\ d.last = c.last
           \/ m.kind = "notification" /\ m.id = -1 /\ d.last = c.last
    PROVE  Ordered(d) /\ \A n \in Int : From(c, n) => From(d, n)
<1>1. c.pipe \in Seq(Msg) /\ d.pipe \in Seq(Msg) /\ c.last \in Int /\ d.last \in Int /\ m.id \in Int
  BY DEF Conn, Msg
<1> DEFINE n == Len(c.pipe) + 1
<1>2. n \in Nat /\ DOMAIN c.pipe = 1 .. (n - 1) /\ DOMAIN d.pipe = 1 .. n /\ d.pipe[n] = m
      /\ \A i \in 1 .. (n - 1) : d.pipe[i] = c.pipe[i]
  BY <1>1
<1>3. \A i \in DOMAIN c.pipe : c.pipe[i].id \in Int
  BY <1>1 DEF Msg
<1> HIDE DEF n
<1>4. c.last <= d.last /\ (IsRequest(m) => d.last = m.id /\ m.id > c.last /\ m.id >= 0)
      /\ (m.kind = "initialize" => m.id = 0) /\ (m.kind = "notification" => m.id = -1)
  BY <1>1 DEF Ordered, IsRequest
<1>5. \A i \in 1 .. (n - 1) :
          /\ IsRequest(c.pipe[i]) => 0 <= c.pipe[i].id /\ c.pipe[i].id <= c.last
          /\ c.pipe[i].kind = "initialize" => c.pipe[i].id = 0
          /\ c.pipe[i].kind = "notification" => c.pipe[i].id = -1
  BY <1>2 DEF Ordered
<1>6. \A i \in 1 .. n : i = n \/ i \in 1 .. (n - 1)
  BY <1>2
<1>7. \A i \in DOMAIN d.pipe :
          /\ IsRequest(d.pipe[i]) => 0 <= d.pipe[i].id /\ d.pipe[i].id <= d.last
          /\ d.pipe[i].kind = "initialize" => d.pipe[i].id = 0
          /\ d.pipe[i].kind = "notification" => d.pipe[i].id = -1
  BY <1>1, <1>2, <1>3, <1>4, <1>5, <1>6
<1>8. \A i, j \in DOMAIN d.pipe :
          i < j /\ IsRequest(d.pipe[i]) /\ IsRequest(d.pipe[j]) => d.pipe[i].id < d.pipe[j].id
  <2> SUFFICES ASSUME NEW i \in 1 .. n, NEW j \in 1 .. n, i < j,
                      IsRequest(d.pipe[i]), IsRequest(d.pipe[j])
               PROVE  d.pipe[i].id < d.pipe[j].id
    BY <1>2
  <2>1. i \in 1 .. (n - 1) /\ d.pipe[i] = c.pipe[i]
    BY <1>2
  <2>2. CASE j = n
    BY <1>1, <1>2, <1>3, <1>4, <1>5, <2>1, <2>2
  <2>3. CASE j # n
    BY <1>2, <1>6, <2>1, <2>3 DEF Ordered
  <2> QED BY <2>2, <2>3
<1>9. ASSUME NEW k \in Int, From(c, k)
      PROVE  From(d, k)
  <2>1. \A i \in 1 .. (n - 1) : IsRequest(c.pipe[i]) => c.pipe[i].id >= k
    BY <1>2, <1>9 DEF From
  <2>2. IsRequest(m) => m.id >= k
    BY <1>1, <1>9 DEF From, IsRequest
  <2>3. d.last + 1 >= k
    BY <1>1, <1>4, <1>9 DEF From
  <2> QED BY <1>2, <1>6, <2>1, <2>2, <2>3 DEF From
<1>10. d.last >= -1
  BY <1>1, <1>4 DEF Ordered
<1>11. Ordered(d)
  BY <1>7, <1>8, <1>10 DEF Ordered
<1> QED BY <1>9, <1>11

\* What is from a number on is from a lower one on.
LEMMA FromBelow ==
    ASSUME NEW d \in Conn, NEW n \in Int, NEW k \in Int, From(d, n), k <= n
    PROVE  From(d, k)
<1>1. d.last \in Int /\ d.pipe \in Seq(Msg)
  BY DEF Conn
<1>2. \A i \in DOMAIN d.pipe : d.pipe[i].id \in Int
  BY <1>1 DEF Msg
<1> QED BY <1>1, <1>2 DEF From

\* Every step keeps the numbers in order and ahead of the questions'.
LEMMA NumberedStep ==
    ASSUME ServersTyped, Numbered, [Next]_vars
    PROVE  Numbered'
<1>1. chan \in [Server -> Conn] /\ srv \in [Server -> Srv]
      /\ chan' \in [Server -> Conn] /\ srv' \in [Server -> Srv]
  BY ServersStepTyped DEF ServersTyped
<1>3. ASSUME NEW s \in Server
      PROVE  /\ chan[s] \in Conn /\ srv[s] \in Srv /\ Ordered(chan[s]) /\ Ahead(chan[s], srv[s])
             /\ srv[s].next_id \in Int /\ srv[s].eid \in Int
             /\ chan'[s] \in Conn /\ srv'[s] \in Srv
  BY <1>1 DEF Numbered, Srv
<1>4. Ordered(Closed) /\ Ahead(Closed, Down)
  BY DEF Closed, Down, Ordered, Ahead
\* A connection that something was sent on.
<1>5. ASSUME NEW s \in Server, Ordered(chan'[s]), \A n \in Int : From(chan[s], n) => From(chan'[s], n),
             srv' = srv, \A t \in Server \ {s} : chan'[t] = chan[t]
      PROVE  Numbered'
  <2>1. Ahead(chan'[s], srv[s])
    BY <1>3, <1>5 DEF Ahead
  <2> QED BY <1>5, <2>1 DEF Numbered
<1>6. ASSUME NEW s \in Server, NEW tool \in Tool, Send(s, tool)
      PROVE  Numbered'
  <2> DEFINE m == Message(chan[s].last + 1, tool.kind, tool.slug, tool.draft)
  <2>1. chan'[s] \in Conn /\ chan'[s].pipe = Append(chan[s].pipe, m) /\ chan'[s].last = chan[s].last + 1
        /\ chan'[s].mistaken = chan[s].mistaken
    BY <1>1, <1>3, <1>6 DEF Send, Conn
  <2>2. chan[s].last + 1 \in Int
    BY <1>3 DEF Conn
  <2>3. m \in Msg
    BY <2>2, MessageTyped
  <2>4. m.id = chan[s].last + 1 /\ (m.kind = "initialize" => m.id = 0) /\ IsRequest(m)
    BY <1>6 DEF Send, Message, IsRequest, Tool
  <2>5. ~chan'[s].mistaken
    BY <1>3, <2>1 DEF Ordered
  <2> HIDE DEF m
  <2>6. Ordered(chan'[s]) /\ \A n \in Int : From(chan[s], n) => From(chan'[s], n)
    BY <1>3, <2>1, <2>3, <2>4, <2>5, SentNumbers
  <2> QED BY <1>1, <1>5, <1>6, <2>6 DEF Send
<1>7. ASSUME NEW s \in Server, Notify(s) \/ \E id \in chan[s].owed : Reply(s, id)
      PROVE  Numbered'
  <2> DEFINE Sent(m) == /\ chan'[s].pipe = Append(chan[s].pipe, m)
                        /\ m.kind = "reply" \/ (m.kind = "notification" /\ m.id = -1)
  <2> HIDE DEF Sent
  <2>1. \E m \in Msg : Sent(m)
    <3>1. ASSUME Notify(s)
          PROVE  \E m \in Msg : Sent(m)
      <4> DEFINE note == Message(-1, "notification", INDEX, "none")
      <4>1. note \in Msg /\ note.kind = "notification" /\ note.id = -1
        BY MessageTyped DEF Message
      <4>2. chan'[s].pipe = Append(chan[s].pipe, note)
        BY <1>1, <1>3, <3>1 DEF Notify, Conn
      <4> HIDE DEF note
      <4>3. Sent(note)
        BY <4>1, <4>2 DEF Sent
      <4> QED BY <4>1, <4>3
    <3>2. ASSUME NEW id \in chan[s].owed, Reply(s, id)
          PROVE  \E m \in Msg : Sent(m)
      <4> DEFINE reply == Message(id, "reply", INDEX, "none")
      <4>1. id \in Int
        BY <1>3 DEF Conn
      <4>2. reply \in Msg /\ reply.kind = "reply"
        BY <4>1, MessageTyped DEF Message
      <4>3. chan'[s].pipe = Append(chan[s].pipe, reply)
        BY <1>1, <1>3, <3>2 DEF Reply, Conn
      <4> HIDE DEF reply
      <4>4. reply.kind = "reply"
        BY <4>2
      <4>5. Sent(reply)
        BY <4>3, <4>4 DEF Sent
      <4> QED BY <4>2, <4>5
    <3> QED BY <1>7, <3>1, <3>2
  <2>2. chan'[s].last = chan[s].last /\ chan'[s].mistaken = chan[s].mistaken
    <3>1. CASE Notify(s)
      BY <1>1, <1>3, <3>1 DEF Notify, Conn
    <3>2. ASSUME NEW id \in chan[s].owed, Reply(s, id)
          PROVE  chan'[s].last = chan[s].last /\ chan'[s].mistaken = chan[s].mistaken
      BY <1>1, <1>3, <3>2 DEF Reply, Conn
    <3> QED BY <1>7, <3>1, <3>2
  <2>3. ~chan'[s].mistaken
    BY <1>3, <2>2 DEF Ordered
  <2>4. Ordered(chan'[s]) /\ \A n \in Int : From(chan[s], n) => From(chan'[s], n)
    <3>1. PICK m \in Msg : Sent(m)
      BY <2>1
    <3> QED BY <1>3, <2>2, <2>3, <3>1, SentNumbers DEF Sent
  <2>5. srv' = srv /\ \A t \in Server \ {s} : chan'[t] = chan[t]
    BY <1>1, <1>7 DEF Notify, Reply
  <2> QED BY <1>5, <2>4, <2>5
<1>8. ASSUME NEW s \in Server, chan'[s].pipe = chan[s].pipe, chan'[s].last = chan[s].last,
             chan'[s].mistaken = chan[s].mistaken, Ahead(chan[s], srv'[s]),
             \A t \in Server \ {s} : chan'[t] = chan[t] /\ srv'[t] = srv[t]
      PROVE  Numbered'
  <2>1. Ordered(chan'[s]) /\ Ahead(chan'[s], srv'[s])
    BY <1>3, <1>8 DEF Ordered, Ahead, From
  <2> QED BY <1>8, <2>1 DEF Numbered
<1>9. ASSUME NEW s \in Server, Close(s)
      PROVE  Numbered'
  BY <1>1, <1>3, <1>8, <1>9 DEF Close, Conn
\* A message that was read.
<1>10. ASSUME NEW s \in Server, chan[s].pipe # << >>, chan'[s].pipe = Tail(chan[s].pipe),
              chan'[s].last = chan[s].last, chan'[s].mistaken = chan[s].mistaken
       PROVE  /\ Ordered(chan'[s])
              /\ \A n \in Int : From(chan[s], n) => From(chan'[s], n)
              /\ IsRequest(read_message(s)) => From(chan'[s], read_message(s).id + 1)
              /\ \A n \in Int : From(chan[s], n) /\ IsRequest(read_message(s)) => read_message(s).id >= n
              /\ read_message(s).kind = "initialize" => read_message(s).id = 0
              /\ read_message(s).kind = "notification" => read_message(s).id = -1
  <2>1. ~chan'[s].mistaken
    BY <1>3, <1>10 DEF Ordered
  <2> QED BY <1>3, <1>10, <2>1, ReadNumbers DEF read_message
<1>11. ASSUME NEW s \in Server, serve(s)
       PROVE  Numbered'
  <2>1. \A t \in Server \ {s} : chan'[t] = chan[t] /\ srv'[t] = srv[t]
    BY <1>1, <1>11 DEF serve, Answer, Ignore, handle_tool_call, ToolDone, VerbDone,
                       elicitation_request, Elicited, EndOfInput
  <2>2. ASSUME Ordered(chan'[s]), Ahead(chan'[s], srv'[s])
        PROVE  Numbered'
    BY <2>1, <2>2 DEF Numbered
  <2>3. CASE Answer(s)
    <3>1. chan[s].pipe # << >> /\ chan'[s].pipe = Tail(chan[s].pipe)
          /\ chan'[s].last = chan[s].last /\ chan'[s].mistaken = chan[s].mistaken
      BY <1>1, <1>3, <2>3 DEF Answer, ReadsAt, Answered, Rest, Conn
    <3>2. srv'[s].at = srv[s].at /\ srv'[s].next_id = srv[s].next_id /\ srv'[s].eid = srv[s].eid
          /\ srv[s].at = "read"
          /\ (srv'[s].elicits => srv[s].elicits \/ read_message(s).kind = "initialize")
          /\ (srv[s].elicits => srv'[s].elicits)
      BY <1>1, <1>3, <2>3 DEF Answer, ReadsAt, Srv
    <3>3. read_message(s).kind = "initialize" => From(chan'[s], 1)
      BY <1>10, <3>1 DEF IsRequest
    <3>4. Ahead(chan'[s], srv'[s])
      BY <1>3, <1>10, <3>1, <3>2, <3>3 DEF Ahead
    <3> QED BY <1>10, <2>2, <3>1, <3>4
  <2>4. CASE Ignore(s)
    <3>1. chan[s].pipe # << >> /\ chan'[s].pipe = Tail(chan[s].pipe)
          /\ chan'[s].last = chan[s].last /\ chan'[s].mistaken = chan[s].mistaken /\ srv'[s] = srv[s]
      BY <1>1, <1>3, <2>4 DEF Ignore, ReadsAt, Rest, Conn
    <3>2. Ahead(chan'[s], srv'[s])
      BY <1>3, <1>10, <3>1 DEF Ahead
    <3> QED BY <1>10, <2>2, <3>1, <3>2
  <2>5. CASE handle_tool_call(s)
    <3>1. chan[s].pipe # << >> /\ chan'[s].pipe = Tail(chan[s].pipe)
          /\ chan'[s].last = chan[s].last /\ chan'[s].mistaken = chan[s].mistaken
      BY <1>1, <1>3, <2>5 DEF handle_tool_call, ReadsAt, Rest, Conn
    <3>2. srv'[s].at # "elicit" /\ srv'[s].next_id = srv[s].next_id /\ srv'[s].eid = srv[s].eid
          /\ srv'[s].elicits = srv[s].elicits
      BY <1>1, <1>3, <2>5 DEF handle_tool_call, Srv
    <3>3. IsRequest(read_message(s))
      BY <2>5 DEF handle_tool_call, IsRequest
    <3>4. read_message(s).id \in Int
      BY <1>1, <3>1, ReadTyped DEF ServersTyped, Msg
    <3>5. srv[s].elicits => From(chan'[s], srv[s].next_id) /\ read_message(s).id >= srv[s].next_id
      BY <1>3, <1>10, <3>1, <3>3 DEF Ahead
    <3>7. srv[s].elicits => From(chan'[s], srv[s].next_id + 1)
      <4>1. From(chan'[s], read_message(s).id + 1)
        BY <1>10, <3>1, <3>3
      <4> QED BY <1>3, <3>4, <3>5, <4>1, FromBelow
    <3>8. Ahead(chan'[s], srv'[s])
      BY <1>3, <3>2, <3>5, <3>7 DEF Ahead
    <3> QED BY <1>10, <2>2, <3>1, <3>8
  <2>6. CASE ToolDone(s) \/ VerbDone(s)
    <3>1. chan'[s].pipe = chan[s].pipe /\ chan'[s].last = chan[s].last
          /\ chan'[s].mistaken = chan[s].mistaken
      BY <1>1, <1>3, <2>6 DEF ToolDone, VerbDone, Answered, Conn
    <3>2. srv'[s].at = "read" /\ srv'[s].next_id = srv[s].next_id /\ srv'[s].elicits = srv[s].elicits
      BY <1>1, <1>3, <2>6 DEF ToolDone, VerbDone, Srv
    <3>3. Ahead(chan[s], srv'[s])
      BY <1>3, <3>2 DEF Ahead
    <3> QED BY <1>8, <2>1, <3>1, <3>3
  <2>7. CASE elicitation_request(s)
    <3>1. chan'[s].pipe = chan[s].pipe /\ chan'[s].last = chan[s].last
          /\ chan'[s].mistaken = chan[s].mistaken
      BY <1>1, <1>3, <2>7 DEF elicitation_request, Conn
    <3>2. srv'[s].at = "elicit" /\ srv'[s].eid = srv[s].next_id /\ srv'[s].next_id = srv[s].next_id + 1
          /\ srv[s].elicits /\ srv'[s].elicits /\ srv[s].at = "verb"
      BY <1>1, <1>3, <2>7 DEF elicitation_request, Srv
    <3>3. Ahead(chan[s], srv'[s])
      BY <1>3, <3>2 DEF Ahead
    <3> QED BY <1>8, <2>1, <3>1, <3>3
  <2>8. CASE Elicited(s)
    <3>1. srv[s].at = "elicit" /\ chan[s].pipe # << >>
      BY <2>8 DEF Elicited, ReadsAt
    <3> DEFINE a == Answered(Rest(s), srv[s].call)
               c == [a EXCEPT !.mistaken = @ \/ ~IsReply(read_message(s))]
    <3>7. Rest(s) \in Conn /\ a \in Conn /\ a.pipe = Tail(chan[s].pipe) /\ a.last = chan[s].last
          /\ a.mistaken = chan[s].mistaken
      BY <1>3, <3>1, ReadTyped, AnsweredTyped
    <3>8. chan'[s] = (IF IsFor(s, read_message(s)) THEN c ELSE Rest(s))
      BY <1>1, <2>8 DEF Elicited
    <3> HIDE DEF a
    <3>2. chan'[s].pipe = Tail(chan[s].pipe) /\ chan'[s].last = chan[s].last
      <4>1. c.pipe = a.pipe /\ c.last = a.last
        BY <3>7 DEF Conn
      <4> QED BY <3>1, <3>7, <3>8, <4>1, ReadTyped
    <3>3. IsFor(s, read_message(s)) => IsReply(read_message(s))
      <4>1. ~chan[s].mistaken /\ Rest(s) \in Conn /\ Rest(s).pipe = Tail(chan[s].pipe)
            /\ Rest(s).last = chan[s].last /\ Rest(s).mistaken = chan[s].mistaken
        BY <1>3, <3>1, ReadTyped DEF Ordered
      <4>2. /\ \A n \in Int : From(chan[s], n) /\ IsRequest(read_message(s)) => read_message(s).id >= n
            /\ read_message(s).kind = "notification" => read_message(s).id = -1
        BY <1>3, <3>1, <4>1, ReadNumbers DEF read_message
      <4>3. From(chan[s], srv[s].next_id) /\ 1 <= srv[s].eid /\ srv[s].eid < srv[s].next_id
        BY <1>3, <3>1 DEF Ahead
      <4> QED BY <1>3, <4>2, <4>3 DEF IsFor, IsReply, IsRequest
    <3>4. chan'[s].mistaken = chan[s].mistaken
      <4>1. CASE IsFor(s, read_message(s))
        <5>1. IsReply(read_message(s))
          BY <3>3, <4>1
        <5>2. c.mistaken = a.mistaken
          BY <3>7, <5>1 DEF Conn
        <5> QED BY <3>7, <3>8, <4>1, <5>2
      <4>2. CASE ~IsFor(s, read_message(s))
        BY <3>1, <3>8, <4>2, ReadTyped
      <4> QED BY <4>1, <4>2
    <3>5. srv'[s] = srv[s] \/ (srv'[s].at = "read" /\ srv'[s].next_id = srv[s].next_id
                                /\ srv'[s].elicits = srv[s].elicits)
      BY <1>1, <1>3, <2>8 DEF Elicited, Srv
    <3>6. Ahead(chan'[s], srv'[s])
      BY <1>3, <1>10, <3>1, <3>2, <3>4, <3>5 DEF Ahead
    <3> QED BY <1>10, <2>2, <3>1, <3>2, <3>4, <3>6
  <2>9. CASE EndOfInput(s)
    <3>1. CASE srv[s].at = "read"
      <4>1. srv'[s] = Down /\ chan'[s] = Closed
        BY <1>1, <2>9, <3>1 DEF EndOfInput
      <4> QED BY <1>4, <2>2, <4>1
    <3>2. CASE srv[s].at # "read"
      <4>1. chan'[s].pipe = chan[s].pipe /\ chan'[s].last = chan[s].last
            /\ chan'[s].mistaken = chan[s].mistaken
        BY <1>1, <1>3, <2>9, <3>2 DEF EndOfInput, Answered, Conn
      <4>2. srv'[s].at = "read" /\ srv'[s].next_id = srv[s].next_id /\ srv'[s].elicits = srv[s].elicits
        BY <1>1, <1>3, <2>9, <3>2 DEF EndOfInput, Srv
      <4>3. Ahead(chan[s], srv'[s])
        BY <1>3, <4>2 DEF Ahead
      <4> QED BY <1>8, <2>1, <4>1, <4>3
    <3> QED BY <3>1, <3>2
  <2> QED BY <1>11, <2>3, <2>4, <2>5, <2>6, <2>7, <2>8, <2>9 DEF serve
<1>12. ASSUME NEW s \in Server, Killed(s)
       PROVE  Numbered'
  <2>1. chan' = [chan EXCEPT ![s] = Closed] /\ srv' = [srv EXCEPT ![s] = Down]
    BY <1>12 DEF Killed
  <2>2. Closed \in Conn /\ Down \in Srv
    BY EndsTyped
  <2>3. ASSUME NEW t \in Server
        PROVE  Ordered(chan'[t]) /\ Ahead(chan'[t], srv'[t])
    <3>1. CASE t = s
      <4>1. chan'[t] = Closed /\ srv'[t] = Down
        BY <1>1, <2>1, <3>1
      <4> QED BY <1>4, <4>1
    <3>2. CASE t # s
      <4>1. chan'[t] = chan[t] /\ srv'[t] = srv[t]
        BY <1>1, <2>1, <3>2
      <4> QED BY <1>3, <4>1
    <3> QED BY <3>1, <3>2
  <2> QED BY <2>3 DEF Numbered
<1>13. ASSUME UNCHANGED <<srv, chan>>
       PROVE  Numbered'
  BY <1>13 DEF Numbered
<1>14. \A s \in Server : Asks[s] \subseteq Tool
  BY ServerAssumption
<1>15. ASSUME NEW s \in Server,
              \/ (\E tool \in Asks[s] : Send(s, tool)) \/ Notify(s) \/ Close(s)
              \/ (\E id \in chan[s].owed : Reply(s, id))
              \/ serve(s) \/ Killed(s)
       PROVE  Numbered'
  BY <1>6, <1>7, <1>9, <1>11, <1>12, <1>14, <1>15
<1>16. CASE \/ \E d \in Dream : Command(d) \/ (Crash(d) /\ UNCHANGED <<srv, chan, calls>>)
            \/ \E p \in Proc : Step(p)
            \/ RemoveMarker /\ UNCHANGED <<srv, chan, calls>>
            \/ UNCHANGED vars
  <2>1. UNCHANGED <<srv, chan>>
    BY <1>16 DEF Command, Step, vars
  <2> QED BY <1>13, <2>1
<1> QED BY <1>15, <1>16 DEF Next

\* What ends a wait for the project's name is a reply, for any number of requests
\* and questions (RepliesAreReplies).
THEOREM OnlyRepliesAreTaken == Spec => []RepliesAreReplies
<1>1. Init => Numbered
  <2>1. Ordered(Opened) /\ Ahead(Opened, Fresh)
    BY DEF Opened, Closed, Fresh, Down, Ordered, Ahead
  <2> QED BY <2>1 DEF Init, Numbered
<1>2. ServersTyped /\ Numbered /\ [Next]_vars => Numbered'
  BY NumberedStep
<1>3. Numbered => RepliesAreReplies
  BY DEF Numbered, Ordered, RepliesAreReplies
<1> QED BY <1>1, <1>2, <1>3, TypedInv, PTL DEF Spec

-----------------------------------------------------------------------------
(* The entries and the list. *)

Indexing(j) == j.at = "index" \/ j.name = INDEX
\* A replacement that nobody else is in the middle of.
Undisturbed(j, t) ==
    /\ j.at \notin {"fill over", "fill nothing"}
    /\ j.at = "fill" => t = Torn
    /\ j.at = "rename" => t = j.text

\* Nobody works on a slug something is promised of; a process that has its slug
\* to itself finds its own temporary, and its entry as it left it.
EntriesOwned ==
    /\ \A s \in Slug \ {INDEX} :
          /\ told[s] = "written" => readable(s)
          /\ told[s] = "deleted" => ~readable(s)
          /\ told[s] \in {"written", "deleted"} => \A p \in Writers : job[p].slug # s
    /\ \A p \in Writers : job[p].solo =>
          /\ \A q \in Writers \ {p} : job[q].slug # job[p].slug
          /\ job[p].slug # INDEX =>
                /\ job[p].name = job[p].slug => Undisturbed(job[p], tmp[job[p].slug])
                /\ Indexing(job[p]) => (readable(job[p].slug) <=> job[p].do = "write")

\* A write of an entry whose line reads as its own.
Lists(j) == j.do = "write" /\ j.slug \in j.reads

\* A process that is alone finds its own temporary of the index, and the list
\* it made holds every entry a list must show.
ListKept ==
    /\ kept \subseteq list \ {INDEX}
    /\ kept # {} => \A p \in Writers : job[p].alone /\ job[p].slug \notin kept \cup {INDEX}
    /\ \A p \in Writers : job[p].alone =>
          /\ Writers = {p} /\ job[p].solo
          /\ job[p].slug # INDEX /\ job[p].name = INDEX =>
                /\ Undisturbed(job[p], tmp[INDEX])
                /\ kept \subseteq Listed(job[p].text.lines)
                /\ Lists(job[p]) => job[p].slug \in Listed(job[p].text.lines)
StoreInv == EntriesOwned /\ ListKept

\* What a step of p leaves of what the others work on.
Keeps(p) ==
    /\ \A n \in Name \ {job[p].slug, INDEX} : file'[n] = file[n] /\ tmp'[n] = tmp[n]
    /\ \A q \in Proc \ {p} :
          /\ job'[q].do = job[q].do /\ job'[q].slug = job[q].slug /\ job'[q].name = job[q].name
          /\ job'[q].text = job[q].text /\ job'[q].solo = job[q].solo /\ job'[q].alone = job[q].alone
          /\ job'[q].reads = job[q].reads
          /\ job[q].name \notin {job[p].slug, INDEX} => job'[q].at = job[q].at
\* p is at the same operation still, or no longer at any.
Goes(p) ==
    /\ job'[p].do = job[p].do /\ job'[p].slug = job[p].slug /\ job'[p].reads = job[p].reads
    /\ job'[p].solo = job[p].solo /\ job'[p].alone = job[p].alone
Ends(p) == job'[p].do = "none"

\* The other processes' entries are as they were.
LEMMA OthersEntries ==
    ASSUME Typed, EntriesOwned, NEW p \in Writers, Keeps(p), NEW q \in Writers \ {p},
           job[q].solo, job[q].slug # INDEX
    PROVE  /\ job'[q].name = job'[q].slug => Undisturbed(job'[q], tmp'[job'[q].slug])
           /\ Indexing(job'[q]) => (file'[job'[q].slug].kind = "entry" <=> job'[q].do = "write")
<1>1. q \in Proc /\ p \in Proc /\ job[q] \in Job /\ job[q].slug \in Name
  BY DEF Writers, Typed, JobsTyped, Job
<1>2. job[p].slug # job[q].slug
  BY DEF EntriesOwned
<1>3. file'[job[q].slug] = file[job[q].slug] /\ tmp'[job[q].slug] = tmp[job[q].slug]
  BY <1>1, <1>2 DEF Keeps
<1>4. /\ job'[q].do = job[q].do /\ job'[q].slug = job[q].slug /\ job'[q].name = job[q].name
      /\ job'[q].text = job[q].text
      /\ job[q].name \notin {job[p].slug, INDEX} => job'[q].at = job[q].at
  BY <1>1 DEF Keeps
<1>5. /\ job[q].name = job[q].slug => Undisturbed(job[q], tmp[job[q].slug])
      /\ Indexing(job[q]) => (readable(job[q].slug) <=> job[q].do = "write")
  BY DEF EntriesOwned
<1>6. ASSUME job'[q].name = job'[q].slug
      PROVE  Undisturbed(job'[q], tmp'[job'[q].slug])
  BY <1>2, <1>3, <1>4, <1>5, <1>6 DEF Undisturbed
<1>7. ASSUME Indexing(job'[q])
      PROVE  file'[job'[q].slug].kind = "entry" <=> job'[q].do = "write"
  <2>1. CASE job[q].name = INDEX
    BY <1>3, <1>4, <1>5, <2>1 DEF Indexing, readable
  <2>2. CASE job[q].name # INDEX
    <3>1. job[q].name = job[q].slug \/ job[q].at = "index"
      BY <1>1, <1>4, <1>7, <2>2 DEF Typed, JobsTyped, Shape, Writers, Indexing, Replacing
    <3>2. job[q].name # job[p].slug => job[q].at = "index"
      BY <1>4, <1>7, <2>2 DEF Indexing
    <3>3. job[q].at = "index"
      BY <1>2, <3>1, <3>2
    <3> QED BY <1>3, <1>4, <1>5, <3>3 DEF Indexing, readable
  <2> QED BY <2>1, <2>2
<1> QED BY <1>6, <1>7

\* A step within an operation disturbs no entry but its own.
LEMMA EntriesGoOn ==
    ASSUME Typed, EntriesOwned, NEW p \in Writers, Keeps(p), Goes(p), told' = told,
           job[p].solo /\ job[p].slug # INDEX =>
              /\ job'[p].name = job[p].slug => Undisturbed(job'[p], tmp'[job[p].slug])
              /\ Indexing(job'[p]) => (file'[job[p].slug].kind = "entry" <=> job[p].do = "write")
    PROVE  EntriesOwned'
<1>1. p \in Proc /\ \A q \in Proc : /\ job'[q].do = job[q].do /\ job'[q].slug = job[q].slug
                                    /\ job'[q].reads = job[q].reads
                                    /\ job'[q].solo = job[q].solo
  BY DEF Keeps, Goes, Writers
<1>2. Writers' = Writers
  BY <1>1 DEF Writers
<1>3. ASSUME NEW s \in Slug \ {INDEX}
      PROVE  /\ told'[s] = "written" => readable(s)'
             /\ told'[s] = "deleted" => ~readable(s)'
             /\ told'[s] \in {"written", "deleted"} => \A q \in Writers : job'[q].slug # s
  <2>1. CASE told[s] \in {"written", "deleted"}
    <3>1. s \in Name \ {job[p].slug, INDEX} /\ \A q \in Writers : job[q].slug # s
      BY <2>1 DEF EntriesOwned, Name
    <3>2. readable(s)' <=> readable(s)
      BY <3>1 DEF Keeps, readable
    <3> QED BY <1>1, <3>1, <3>2 DEF EntriesOwned, Writers
  <2>2. CASE told[s] \notin {"written", "deleted"}
    BY <2>2
  <2> QED BY <2>1, <2>2
<1>4. ASSUME NEW q \in Writers, job'[q].solo
      PROVE  /\ \A r \in Writers \ {q} : job'[r].slug # job'[q].slug
             /\ job'[q].slug # INDEX =>
                   /\ job'[q].name = job'[q].slug => Undisturbed(job'[q], tmp'[job'[q].slug])
                   /\ Indexing(job'[q]) => (file'[job'[q].slug].kind = "entry" <=> job'[q].do = "write")
  <2>1. job[q].solo /\ q \in Proc
    BY <1>1, <1>4 DEF Writers
  <2>2. \A r \in Writers \ {q} : job'[r].slug # job'[q].slug
    BY <1>1, <2>1 DEF EntriesOwned, Writers
  <2>3. CASE q = p
    BY <1>1, <2>1, <2>2, <2>3
  <2>4. CASE q # p
    <3>1. q \in Writers \ {p} /\ job'[q].slug = job[q].slug
      BY <1>1, <2>1, <2>4
    <3>2. job'[q].slug # INDEX =>
            /\ job'[q].name = job'[q].slug => Undisturbed(job'[q], tmp'[job'[q].slug])
            /\ Indexing(job'[q]) => (file'[job'[q].slug].kind = "entry" <=> job'[q].do = "write")
      BY <2>1, <3>1, OthersEntries
    <3> QED BY <2>2, <3>2
  <2> QED BY <2>3, <2>4
<1> QED BY <1>2, <1>3, <1>4 DEF EntriesOwned, readable

\* The end of an operation: what is reported of its slug is what it left there.
LEMMA EntriesEnd ==
    ASSUME Typed, EntriesOwned, NEW p \in Writers, Keeps(p), Ends(p),
           \A s \in Slug \ {job[p].slug} : told'[s] = told[s],
           job[p].slug # INDEX => file'[job[p].slug] = file[job[p].slug],
           \/ told' = told
           \/ /\ Indexing(job[p])
              /\ told'[job[p].slug] =
                    IF job[p].solo THEN IF job[p].do = "write" THEN "written" ELSE "deleted"
                    ELSE "unsure"
    PROVE  EntriesOwned'
<1>1. p \in Proc /\ \A q \in Proc \ {p} : /\ job'[q].do = job[q].do /\ job'[q].slug = job[q].slug
                                          /\ job'[q].solo = job[q].solo
  BY DEF Keeps, Writers
<1>2. Writers' = Writers \ {p}
  BY <1>1 DEF Writers, Ends
<1>3. ASSUME NEW s \in Slug \ {INDEX}
      PROVE  /\ told'[s] = "written" => readable(s)'
             /\ told'[s] = "deleted" => ~readable(s)'
             /\ told'[s] \in {"written", "deleted"} => \A q \in Writers \ {p} : job'[q].slug # s
  <2>0. \A q \in Writers \ {p} : job'[q].slug = job[q].slug
    BY <1>1 DEF Writers
  <2>1. CASE s # job[p].slug
    <3>1. told'[s] = told[s] /\ file'[s] = file[s]
      BY <2>1 DEF Keeps, Name
    <3> QED BY <2>0, <3>1 DEF EntriesOwned, readable
  <2>2. CASE s = job[p].slug
    <3>1. told[s] \notin {"written", "deleted"}
      BY <2>2 DEF EntriesOwned
    <3>2. readable(s)' <=> readable(s)
      BY <2>2 DEF readable
    <3>3. CASE told' = told
      BY <3>1, <3>3
    <3>4. CASE told' # told
      <4>1. job[p].solo => \A q \in Writers \ {p} : job[q].slug # s
        BY <2>2 DEF EntriesOwned
      <4>2. job[p].solo => (readable(s) <=> job[p].do = "write")
        BY <2>2, <3>4 DEF EntriesOwned
      <4> QED BY <2>0, <2>2, <3>2, <3>4, <4>1, <4>2
    <3> QED BY <3>3, <3>4
  <2> QED BY <2>1, <2>2
<1>4. ASSUME NEW q \in Writers \ {p}, job'[q].solo
      PROVE  /\ \A r \in (Writers \ {p}) \ {q} : job'[r].slug # job'[q].slug
             /\ job'[q].slug # INDEX =>
                   /\ job'[q].name = job'[q].slug => Undisturbed(job'[q], tmp'[job'[q].slug])
                   /\ Indexing(job'[q]) => (file'[job'[q].slug].kind = "entry" <=> job'[q].do = "write")
  <2>1. job[q].solo /\ q \in Proc /\ job'[q].slug = job[q].slug
    BY <1>1, <1>4 DEF Writers
  <2>2. \A r \in (Writers \ {p}) \ {q} : job'[r].slug # job'[q].slug
    BY <1>1, <2>1 DEF EntriesOwned, Writers
  <2>3. job'[q].slug # INDEX =>
          /\ job'[q].name = job'[q].slug => Undisturbed(job'[q], tmp'[job'[q].slug])
          /\ Indexing(job'[q]) => (file'[job'[q].slug].kind = "entry" <=> job'[q].do = "write")
    BY <2>1, OthersEntries
  <2> QED BY <2>2, <2>3
<1> QED BY <1>2, <1>3, <1>4 DEF EntriesOwned, readable

\* A step within an operation takes nothing off the list that must be on it.
LEMMA ListGoesOn ==
    ASSUME Typed, ListKept, NEW p \in Writers, Keeps(p), Goes(p), kept' = kept,
           kept # {} => kept \subseteq Listed(read_index'),
           job[p].alone /\ job[p].slug # INDEX /\ job'[p].name = INDEX =>
              /\ Undisturbed(job'[p], tmp'[INDEX])
              /\ kept \subseteq Listed(job'[p].text.lines)
              /\ Lists(job[p]) => job[p].slug \in Listed(job'[p].text.lines)
    PROVE  ListKept'
<1>1. p \in Proc /\ \A q \in Proc : /\ job'[q].do = job[q].do /\ job'[q].slug = job[q].slug
                                    /\ job'[q].reads = job[q].reads
                                    /\ job'[q].solo = job[q].solo /\ job'[q].alone = job[q].alone
  BY DEF Keeps, Goes, Writers
<1>2. Writers' = Writers /\ Writers \subseteq Proc
  BY <1>1 DEF Writers
<1>3. kept # {} => \A q \in Writers : job'[q].alone /\ job'[q].slug \notin kept \cup {INDEX}
  BY <1>1, <1>2 DEF ListKept
<1>4. ASSUME NEW k \in kept
      PROVE  k \in list' /\ k # INDEX
  <2>1. k \in Slug /\ k # INDEX /\ file[k].kind = "entry" /\ k # job[p].slug
    BY DEF ListKept, list, readable
  <2>2. file'[k] = file[k]
    BY <2>1 DEF Keeps, Name
  <2> QED BY <2>1, <2>2 DEF list, readable
<1>5. ASSUME NEW q \in Writers, job'[q].alone
      PROVE  /\ Writers = {q} /\ job'[q].solo
             /\ job'[q].slug # INDEX /\ job'[q].name = INDEX =>
                   /\ Undisturbed(job'[q], tmp'[INDEX])
                   /\ kept \subseteq Listed(job'[q].text.lines)
                   /\ Lists(job'[q]) => job'[q].slug \in Listed(job'[q].text.lines)
  <2>1. Writers = {q} /\ job[q].solo /\ job[q].alone
    BY <1>1, <1>2, <1>5 DEF ListKept
  <2>2. q = p
    BY <2>1
  <2> QED BY <1>1, <2>1, <2>2 DEF Lists
<1> QED BY <1>2, <1>3, <1>4, <1>5 DEF ListKept

\* So does the end of one, which lists what it wrote if it wrote it alone.
LEMMA ListEnds ==
    ASSUME Typed, ListKept, NEW p \in Writers, Keeps(p), Ends(p),
           kept # {} => kept \subseteq Listed(read_index'),
           \/ kept' = kept
           \/ /\ job[p].alone /\ job[p].slug \in Slug \ {INDEX} /\ kept' = kept \cup {job[p].slug}
              /\ job[p].slug \in Listed(read_index') /\ file'[job[p].slug].kind = "entry"
    PROVE  ListKept'
<1>1. p \in Proc /\ \A q \in Proc \ {p} : job'[q].do = job[q].do /\ job'[q].alone = job[q].alone
  BY DEF Keeps, Writers
<1>2. Writers' = Writers \ {p} /\ Writers \subseteq Proc
  BY <1>1 DEF Writers, Ends
<1>3. kept' # {} => Writers' = {}
  <2>1. kept' # {} => job[p].alone
    BY DEF ListKept
  <2> QED BY <1>2, <2>1 DEF ListKept
<1>4. ASSUME NEW k \in kept
      PROVE  k \in list' /\ k # INDEX
  <2>1. k \in Slug /\ k # INDEX /\ file[k].kind = "entry" /\ k # job[p].slug
    BY DEF ListKept, list, readable
  <2>2. file'[k] = file[k]
    BY <2>1 DEF Keeps, Name
  <2> QED BY <2>1, <2>2 DEF list, readable
<1>5. kept' \subseteq list' \ {INDEX}
  BY <1>4 DEF list, readable
<1>6. ASSUME NEW q \in Writers \ {p}
      PROVE  ~job'[q].alone
  BY <1>1, <1>2 DEF ListKept
<1> QED BY <1>2, <1>3, <1>5, <1>6 DEF ListKept

\* A new operation finds the store as the others left it.
LEMMA BeginOwned ==
    ASSUME Typed, StoreInv, NEW p \in Proc, NEW slug \in Slug, NEW draft, NEW do, NEW reads, NEW at,
           Begin(p, do, slug, draft, reads, at), do \in {"write", "delete"}, at \in {"open", "remove"}
    PROVE  StoreInv'
<1>1. p \notin Writers /\ job \in [Proc -> Job]
  BY DEF Begin, Busy, Writers, Typed, JobsTyped
<1>2. job'[p] = [do |-> do, at |-> at, slug |-> slug, name |-> slug, text |-> draft, reads |-> reads,
                 solo |-> \A w \in Writers : job[w].slug # slug, alone |-> Writers = {}]
  BY DEF Begin
<1>3. /\ job'[p].do = do /\ job'[p].at = at /\ job'[p].slug = slug /\ job'[p].name = slug
      /\ job'[p].solo <=> \A w \in Writers : job[w].slug # slug
      /\ job'[p].alone <=> Writers = {}
  <2> DEFINE first == \A w \in Writers : job[w].slug # slug
             only == Writers = {}
  <2>1. job'[p] = [do |-> do, at |-> at, slug |-> slug, name |-> slug, text |-> draft, reads |-> reads,
                   solo |-> first, alone |-> only]
    BY <1>2
  <2> HIDE DEF first, only
  <2>2. /\ job'[p].do = do /\ job'[p].at = at /\ job'[p].slug = slug /\ job'[p].name = slug
        /\ job'[p].solo = first /\ job'[p].alone = only
    BY <2>1
  <2> QED BY <2>2 DEF first, only
<1>4. ASSUME NEW q \in Writers
      PROVE  /\ job'[q].do = job[q].do /\ job'[q].at = job[q].at /\ job'[q].slug = job[q].slug
             /\ job'[q].name = job[q].name /\ job'[q].text = job[q].text
             /\ job'[q].solo <=> job[q].solo /\ job[q].slug # slug
             /\ ~job'[q].alone
  <2>1. q \in Proc /\ q # p /\ job[q] \in Job
    BY <1>1 DEF Writers
  <2>2. job'[q] = [job[q] EXCEPT !.alone = FALSE, !.solo = @ /\ job[q].slug # slug]
    BY <2>1 DEF Begin
  <2> QED BY <2>1, <2>2 DEF Job
<1>5. Writers' = Writers \cup {p}
  <2>1. \A q \in Proc \ (Writers \cup {p}) : job'[q] = job[q]
    BY DEF Begin
  <2> QED BY <1>3, <1>4, <2>1 DEF Writers
<1>6. file' = file /\ tmp' = tmp /\ told' = [told EXCEPT ![slug] = "unsure"]
      /\ kept' = IF Writers # {} \/ slug = INDEX THEN {} ELSE kept \ {slug}
  BY DEF Begin
<1>7. EntriesOwned'
  <2>1. ASSUME NEW s \in Slug \ {INDEX}
        PROVE  /\ told'[s] = "written" => readable(s)'
               /\ told'[s] = "deleted" => ~readable(s)'
               /\ told'[s] \in {"written", "deleted"} => \A q \in Writers \cup {p} : job'[q].slug # s
    <3>1. told'[s] = IF s = slug THEN "unsure" ELSE told[s]
      BY <1>6 DEF Typed, StoreTyped
    <3> QED BY <1>3, <1>4, <1>6, <3>1 DEF StoreInv, EntriesOwned, readable
  <2>2. ASSUME NEW q \in Writers, job'[q].solo
        PROVE  /\ \A r \in (Writers \cup {p}) \ {q} : job'[r].slug # job'[q].slug
               /\ job'[q].slug # INDEX =>
                     /\ job'[q].name = job'[q].slug => Undisturbed(job'[q], tmp'[job'[q].slug])
                     /\ Indexing(job'[q]) =>
                           (file'[job'[q].slug].kind = "entry" <=> job'[q].do = "write")
    <3>1. job[q].solo /\ job[q].slug # slug
      BY <1>4, <2>2
    <3>2. \A r \in (Writers \cup {p}) \ {q} : job'[r].slug # job'[q].slug
      BY <1>3, <1>4, <3>1 DEF StoreInv, EntriesOwned
    <3>3. job[q].slug # INDEX =>
             /\ job[q].name = job[q].slug => Undisturbed(job[q], tmp[job[q].slug])
             /\ Indexing(job[q]) => (readable(job[q].slug) <=> job[q].do = "write")
      BY <3>1 DEF StoreInv, EntriesOwned
    <3> QED BY <1>4, <1>6, <3>2, <3>3 DEF Undisturbed, Indexing, readable
  <2>3. job'[p].solo => \A r \in Writers : job'[r].slug # job'[p].slug
    BY <1>3, <1>4
  <2>4. job'[p].slug # INDEX => Undisturbed(job'[p], tmp'[job'[p].slug]) /\ ~Indexing(job'[p])
    BY <1>3 DEF Undisturbed, Indexing
  <2> QED BY <1>5, <2>1, <2>2, <2>3, <2>4 DEF EntriesOwned, readable
<1>8. ListKept'
  <2>1. CASE Writers = {} /\ slug # INDEX
    <3>1. kept' = kept \ {slug} /\ Writers' = {p}
      BY <1>5, <1>6, <2>1
    <3>2. list' = list
      BY <1>6 DEF list, read_index, readable
    <3>3. job'[p].solo /\ job'[p].name # INDEX
      BY <1>3, <2>1
    <3> QED BY <1>3, <2>1, <3>1, <3>2, <3>3 DEF StoreInv, ListKept
  <2>2. CASE Writers # {} \/ slug = INDEX
    <3>1. kept' = {}
      BY <1>6, <2>2
    <3>2. ASSUME NEW q \in Writers', job'[q].alone
          PROVE  Writers' = {q} /\ job'[q].solo /\ job'[q].slug = INDEX
      BY <1>3, <1>4, <1>5, <2>2, <3>2
    <3> QED BY <3>1, <3>2 DEF ListKept
  <2> QED BY <2>1, <2>2
<1> QED BY <1>7, <1>8 DEF StoreInv

\* A rename leaves the others their operations.
LEMMA RenamedFields ==
    ASSUME NEW name, NEW j \in Job
    PROVE  LET r == Renamed(name, j)
           IN  /\ r.do = j.do /\ r.slug = j.slug /\ r.name = j.name /\ r.text = j.text
               /\ r.reads = j.reads
               /\ r.solo = j.solo /\ r.alone = j.alone
               /\ j.name # name => r = j
<1>1. ASSUME NEW at
      PROVE  LET r == [j EXCEPT !.at = at]
             IN  /\ r.do = j.do /\ r.slug = j.slug /\ r.name = j.name /\ r.text = j.text
                 /\ r.reads = j.reads
                 /\ r.solo = j.solo /\ r.alone = j.alone
  BY DEF Job
<1> QED BY <1>1 DEF Renamed

\* Where a process of the store may be, and what it replaces there.
LEMMA WriterPlaces ==
    ASSUME Typed, NEW p \in Proc, StoreStep(p)
    PROVE  /\ p \in Writers /\ job[p].slug \in Slug /\ job[p].name \in {job[p].slug, INDEX}
           /\ job[p].text.kind = "entry" => job[p].do = "write" /\ job[p].name = job[p].slug
           /\ job[p].text.kind = "index" => job[p].name = INDEX
           /\ job[p].at \in {"remove", "index"} => job[p].name = job[p].slug
           /\ job[p].at = "remove" => job[p].do = "delete"
           /\ job[p].at = "rename" => job[p].text.kind \in {"entry", "index"}
<1>1. Shape(job[p])
  BY DEF Typed, JobsTyped
<1>2. job[p].at \in Replacing \cup {"remove", "index"}
  BY DEF StoreStep, Open, Fill, RenameEntry, RenameIndex, Rename, remove_file, upsert_index,
         remove_from_index, Fail, At, Replacing
<1> QED BY <1>1, <1>2, ContentTyped DEF Shape, Replacing, Writers

\* Every step of a store operation keeps what the others count on.
LEMMA StoreStepOwned ==
    ASSUME Typed, StoreInv, NEW p \in Proc, StoreStep(p)
    PROVE  StoreInv'
<1>1. /\ job \in [Proc -> Job] /\ job[p] \in Job /\ file \in [Name -> Content] /\ tmp \in [Name -> Content]
      /\ INDEX \in Name /\ Slug \subseteq Name
  BY DEF Typed, JobsTyped, StoreTyped, Name
<1>2. /\ p \in Writers /\ job[p].slug \in Slug /\ job[p].name \in {job[p].slug, INDEX}
      /\ job[p].text.kind = "entry" => job[p].do = "write" /\ job[p].name = job[p].slug
      /\ job[p].text.kind = "index" => job[p].name = INDEX
      /\ job[p].at \in {"remove", "index"} => job[p].name = job[p].slug
      /\ job[p].at = "remove" => job[p].do = "delete"
  BY WriterPlaces
<1>3. ASSUME NEW at, Move(p, at)
      PROVE  /\ Goes(p) /\ job'[p].at = at /\ job'[p].name = job[p].name /\ job'[p].text = job[p].text
             /\ \A q \in Proc \ {p} : job'[q] = job[q]
  <2>1. job'[p] = [job[p] EXCEPT !.at = at] /\ \A q \in Proc : q # p => job'[q] = job[q]
    BY <1>3, MovePlaces DEF Typed
  <2> QED BY <1>1, <2>1 DEF Goes, Job
<1>4. ASSUME \A q \in Proc \ {p} : job'[q] = job[q],
             \A n \in Name \ {job[p].slug, INDEX} : file'[n] = file[n] /\ tmp'[n] = tmp[n]
      PROVE  Keeps(p)
  BY <1>4 DEF Keeps
\* What p may count on.
<1>5. job[p].solo /\ job[p].slug # INDEX =>
         /\ job[p].name = job[p].slug => Undisturbed(job[p], tmp[job[p].slug])
         /\ Indexing(job[p]) => (readable(job[p].slug) <=> job[p].do = "write")
  BY <1>2 DEF StoreInv, EntriesOwned
<1>6. /\ kept \subseteq Listed(read_index)
      /\ kept # {} => job[p].alone /\ job[p].slug \notin kept \cup {INDEX}
  BY <1>2 DEF StoreInv, ListKept, list
<1>7. job[p].alone /\ job[p].slug # INDEX /\ job[p].name = INDEX =>
         /\ Undisturbed(job[p], tmp[INDEX]) /\ kept \subseteq Listed(job[p].text.lines)
         /\ Lists(job[p]) => job[p].slug \in Listed(job[p].text.lines)
  BY <1>2 DEF StoreInv, ListKept
<1>8. job[p].alone => job[p].solo
  BY <1>2 DEF StoreInv, ListKept
<1>9. Typed /\ EntriesOwned /\ ListKept
  BY DEF StoreInv
<1>10. CASE Open(p)
  <2>1. Move(p, "fill") /\ file' = file /\ tmp' = [tmp EXCEPT ![job[p].name] = Torn]
        /\ told' = told /\ kept' = kept
    BY <1>10 DEF Open
  <2>2. Keeps(p)
    BY <1>1, <1>2, <1>3, <1>4, <2>1
  <2>3. /\ Goes(p) /\ job'[p].at = "fill" /\ job'[p].name = job[p].name /\ job'[p].text = job[p].text
        /\ tmp'[job[p].name] = Torn
    BY <1>1, <1>2, <1>3, <2>1
  <2>4. Undisturbed(job'[p], tmp'[job[p].name])
    BY <2>3 DEF Undisturbed
  <2>5. EntriesOwned'
    <3>1. Indexing(job'[p]) => Indexing(job[p])
      BY <2>3 DEF Indexing
    <3>2. file'[job[p].slug].kind = "entry" <=> readable(job[p].slug)
      BY <2>1 DEF readable
    <3> QED BY <1>2, <1>5, <1>9, <2>1, <2>2, <2>3, <2>4, <3>1, <3>2, EntriesGoOn
  <2>6. ListKept'
    <3>1. read_index' = read_index
      BY <2>1 DEF read_index
    <3> QED BY <1>2, <1>6, <1>7, <1>9, <2>1, <2>2, <2>3, <2>4, <3>1, ListGoesOn
  <2> QED BY <2>5, <2>6 DEF StoreInv
<1>11. CASE Fill(p)
  <2>1. /\ Move(p, "rename") /\ told' = told /\ kept' = kept
        /\ \/ /\ job[p].at = "fill" /\ file' = file
              /\ \E c \in Filled(tmp[job[p].name], job[p].text) : tmp' = [tmp EXCEPT ![job[p].name] = c]
           \/ /\ job[p].at = "fill over" /\ tmp' = tmp
              /\ \E c \in Filled(file[job[p].name], job[p].text) : file' = [file EXCEPT ![job[p].name] = c]
           \/ job[p].at = "fill nothing" /\ file' = file /\ tmp' = tmp
    BY <1>11 DEF Fill, At
  <2>2. Keeps(p)
    BY <1>1, <1>2, <1>3, <1>4, <2>1
  <2>3. Goes(p) /\ job'[p].at = "rename" /\ job'[p].name = job[p].name /\ job'[p].text = job[p].text
    BY <1>3, <2>1
  <2>4. Undisturbed(job[p], tmp[job[p].name]) =>
           Undisturbed(job'[p], tmp'[job[p].name]) /\ file' = file
    <3>1. SUFFICES ASSUME Undisturbed(job[p], tmp[job[p].name])
                   PROVE  Undisturbed(job'[p], tmp'[job[p].name]) /\ file' = file
      OBVIOUS
    <3>2. job[p].at = "fill" /\ tmp[job[p].name] = Torn /\ file' = file
      BY <2>1, <3>1 DEF Undisturbed
    <3>3. tmp'[job[p].name] = job[p].text
      BY <1>1, <1>2, <2>1, <3>2 DEF Filled
    <3> QED BY <2>3, <3>2, <3>3 DEF Undisturbed
  <2>5. EntriesOwned'
    <3>1. Indexing(job'[p]) => Indexing(job[p]) /\ job[p].name = INDEX
      BY <1>2, <2>1, <2>3 DEF Indexing
    <3>2. job[p].slug # INDEX /\ job[p].name = INDEX => file'[job[p].slug] = file[job[p].slug]
      BY <1>1, <1>2, <2>1
    <3> QED BY <1>2, <1>5, <1>9, <2>1, <2>2, <2>3, <2>4, <3>1, <3>2, EntriesGoOn DEF readable
  <2>6. ListKept'
    <3>1. kept # {} => file'[INDEX] = file[INDEX]
      <4>1. CASE job[p].name = INDEX
        BY <1>6, <1>7, <2>4, <4>1
      <4>2. CASE job[p].name # INDEX
        BY <1>1, <2>1, <4>2
      <4> QED BY <4>1, <4>2
    <3>2. kept # {} => kept \subseteq Listed(read_index')
      BY <1>6, <3>1 DEF read_index
    <3> QED BY <1>2, <1>7, <1>9, <2>1, <2>2, <2>3, <2>4, <3>2, ListGoesOn
  <2> QED BY <2>5, <2>6 DEF StoreInv
\* What a rename leaves of the others.
<1>12. ASSUME NEW next, Rename(p, next)
       PROVE  /\ Keeps(p) /\ job'[p] = next /\ job[p].at = "rename"
              /\ file'[job[p].name] = tmp[job[p].name]
              /\ \A n \in Name : n # job[p].name => file'[n] = file[n]
  <2>1. /\ job'[p] = next /\ \A q \in Proc \ {p} : job'[q] = Renamed(job[p].name, job[q])
        /\ file' = [file EXCEPT ![job[p].name] = tmp[job[p].name]]
        /\ tmp' = [tmp EXCEPT ![job[p].name] = Nothing] /\ job[p].at = "rename"
    BY <1>12 DEF Rename, At
  <2>2. ASSUME NEW q \in Proc \ {p}
        PROVE  /\ job'[q].do = job[q].do /\ job'[q].slug = job[q].slug /\ job'[q].name = job[q].name
               /\ job'[q].text = job[q].text /\ job'[q].solo = job[q].solo /\ job'[q].alone = job[q].alone
               /\ job'[q].reads = job[q].reads
               /\ job[q].name # job[p].name => job'[q] = job[q]
    BY <1>1, <2>1, RenamedFields
  <2>3. Keeps(p)
    BY <1>1, <1>2, <2>1, <2>2 DEF Keeps
  <2> QED BY <1>1, <1>2, <2>1, <2>3
<1>13. CASE RenameEntry(p)
  <2>1. /\ job[p].text.kind = "entry" /\ job[p].name = job[p].slug /\ job[p].do = "write"
        /\ Rename(p, [job[p] EXCEPT !.at = "index"]) /\ told' = told /\ kept' = kept
    BY <1>2, <1>13 DEF RenameEntry
  <2>2. /\ Keeps(p) /\ job'[p] = [job[p] EXCEPT !.at = "index"] /\ job[p].at = "rename"
        /\ file'[job[p].slug] = tmp[job[p].slug]
        /\ \A n \in Name : n # job[p].slug => file'[n] = file[n]
    BY <1>12, <2>1
  <2>3. Goes(p) /\ job'[p].at = "index" /\ job'[p].name = job[p].slug
    BY <1>1, <2>1, <2>2 DEF Goes, Job
  <2>4. EntriesOwned'
    <3>1. Undisturbed(job'[p], tmp'[job[p].slug])
      BY <2>3 DEF Undisturbed
    <3>2. job[p].solo /\ job[p].slug # INDEX => file'[job[p].slug].kind = "entry"
      BY <1>5, <2>1, <2>2 DEF Undisturbed
    <3> QED BY <1>2, <1>9, <2>1, <2>2, <2>3, <3>1, <3>2, EntriesGoOn
  <2>5. ListKept'
    <3>1. kept # {} => file'[INDEX] = file[INDEX]
      BY <1>1, <1>6, <2>2
    <3>2. kept # {} => kept \subseteq Listed(read_index')
      BY <1>6, <3>1 DEF read_index
    <3> QED BY <1>2, <1>9, <2>1, <2>2, <2>3, <3>2, ListGoesOn
  <2> QED BY <2>4, <2>5 DEF StoreInv
<1>14. CASE RenameIndex(p)
  <2>1. job[p].text.kind = "index" /\ job[p].name = INDEX /\ Rename(p, Idle) /\ Succeed(p)
    BY <1>2, <1>14 DEF RenameIndex
  <2>2. /\ Keeps(p) /\ job'[p] = Idle /\ job[p].at = "rename" /\ file'[INDEX] = tmp[INDEX]
        /\ \A n \in Name : n # INDEX => file'[n] = file[n]
    BY <1>12, <2>1
  <2>3. Ends(p)
    BY <2>2 DEF Ends, Idle
  <2>4. Indexing(job[p])
    BY <2>1 DEF Indexing
  <2>5. /\ told' = [told EXCEPT ![job[p].slug] =
              IF job[p].solo THEN IF job[p].do = "write" THEN "written" ELSE "deleted" ELSE "unsure"]
        /\ kept' = IF Lists(job[p]) /\ job[p].alone /\ job[p].slug # INDEX
                   THEN kept \cup {job[p].slug} ELSE kept
    BY <2>1 DEF Succeed, Lists
  <2>6. EntriesOwned'
    <3>1. job[p].slug # INDEX => file'[job[p].slug] = file[job[p].slug]
      BY <1>1, <1>2, <2>2
    <3>2. /\ \A s \in Slug \ {job[p].slug} : told'[s] = told[s]
          /\ told'[job[p].slug] =
               IF job[p].solo THEN IF job[p].do = "write" THEN "written" ELSE "deleted" ELSE "unsure"
      BY <1>2, <2>5 DEF Typed, StoreTyped
    <3> QED BY <1>2, <1>9, <2>2, <2>3, <2>4, <3>1, <3>2, EntriesEnd
  <2>7. ListKept'
    <3>1. job[p].alone /\ job[p].slug # INDEX => read_index' = job[p].text.lines
      BY <1>7, <2>1, <2>2 DEF Undisturbed, read_index, parse_index
    <3>2. kept # {} => kept \subseteq Listed(read_index')
      BY <1>6, <1>7, <2>1, <3>1
    <3>3. CASE Lists(job[p]) /\ job[p].alone /\ job[p].slug # INDEX
      <4>1. job[p].slug \in Listed(read_index') /\ kept' = kept \cup {job[p].slug}
        BY <1>7, <2>1, <2>5, <3>1, <3>3
      <4>2. file'[job[p].slug].kind = "entry"
        BY <1>1, <1>2, <1>5, <1>8, <2>2, <2>4, <3>3 DEF readable, Lists
      <4> QED BY <1>2, <1>9, <2>2, <2>3, <3>2, <3>3, <4>1, <4>2, ListEnds
    <3>4. CASE ~(Lists(job[p]) /\ job[p].alone /\ job[p].slug # INDEX)
      <4>1. kept' = kept
        BY <2>5, <3>4
      <4> QED BY <1>2, <1>9, <2>2, <2>3, <3>2, <4>1, ListEnds
    <3> QED BY <3>3, <3>4
  <2> QED BY <2>6, <2>7 DEF StoreInv
<1>15. CASE remove_file(p)
  <2>1. /\ job[p].at = "remove" /\ job[p].name = job[p].slug /\ job[p].do = "delete"
        /\ file' = [file EXCEPT ![job[p].slug] = Nothing] /\ Move(p, "index")
        /\ tmp' = tmp /\ told' = told /\ kept' = kept
    BY <1>2, <1>15 DEF remove_file, At
  <2>2. Keeps(p)
    BY <1>1, <1>2, <1>3, <1>4, <2>1
  <2>3. Goes(p) /\ job'[p].at = "index" /\ job'[p].name = job[p].slug
    BY <1>3, <2>1
  <2>4. EntriesOwned'
    <3>1. Undisturbed(job'[p], tmp'[job[p].slug])
      BY <2>3 DEF Undisturbed
    <3>2. file'[job[p].slug].kind # "entry"
      BY <1>1, <1>2, <2>1, ContentTyped
    <3> QED BY <1>2, <1>9, <2>1, <2>2, <2>3, <3>1, <3>2, EntriesGoOn
  <2>5. ListKept'
    <3>1. kept # {} => kept \subseteq Listed(read_index')
      BY <1>1, <1>6, <2>1 DEF read_index
    <3> QED BY <1>2, <1>6, <1>9, <2>1, <2>2, <2>3, <3>1, ListGoesOn
  <2> QED BY <2>4, <2>5 DEF StoreInv
\* The index is to be made anew.
<1>16. ASSUME NEW lines, job[p].at = "index", file' = file, tmp' = tmp, told' = told, kept' = kept,
              job' = [job EXCEPT ![p].name = INDEX, ![p].at = "open", ![p].text = render_index(lines)],
              Lists(job[p]) => job[p].slug \in Listed(lines),
              job[p].slug \notin kept => kept \subseteq Listed(lines)
       PROVE  StoreInv'
  <2>1. /\ job'[p].at = "open" /\ job'[p].name = INDEX /\ job'[p].text = render_index(lines)
        /\ job'[p].do = job[p].do /\ job'[p].slug = job[p].slug /\ job'[p].reads = job[p].reads
        /\ job'[p].solo = job[p].solo /\ job'[p].alone = job[p].alone
        /\ \A q \in Proc : q # p => job'[q] = job[q]
    BY <1>16, IndexPlaces DEF Typed
  <2>2. Goes(p) /\ Keeps(p)
    BY <1>4, <1>16, <2>1 DEF Goes
  <2>3. job'[p].text.lines = lines
    BY <2>1 DEF render_index, Text
  <2>4. \A t : Undisturbed(job'[p], t)
    BY <2>1 DEF Undisturbed
  <2>5. EntriesOwned'
    <3>1. Indexing(job[p])
      BY <1>16 DEF Indexing
    <3>2. file'[job[p].slug].kind = "entry" <=> readable(job[p].slug)
      BY <1>16 DEF readable
    <3> QED BY <1>2, <1>5, <1>9, <1>16, <2>2, <2>4, <3>1, <3>2, EntriesGoOn
  <2>6. ListKept'
    <3>1. kept \subseteq Listed(read_index')
      BY <1>6, <1>16 DEF read_index
    <3>2. kept \subseteq Listed(lines)
      BY <1>6, <1>16
    <3> QED BY <1>2, <1>9, <1>16, <2>2, <2>3, <2>4, <3>1, <3>2, ListGoesOn
  <2> QED BY <2>5, <2>6 DEF StoreInv
<1>17. CASE upsert_index(p)
  <2>1. /\ job[p].at = "index" /\ file' = file /\ tmp' = tmp /\ told' = told /\ kept' = kept
        /\ job' = [job EXCEPT ![p].name = INDEX, ![p].at = "open",
                              ![p].text = render_index(Upserted(read_index, job[p].slug, job[p].reads))]
    BY <1>17 DEF upsert_index, At
  <2> DEFINE lines == Upserted(read_index, job[p].slug, job[p].reads)
  <2>2. Lists(job[p]) => job[p].slug \in Listed(lines)
    BY <1>1, <1>2, ReadIndexTyped, UpsertedLines DEF Lists, Typed
  <2>4. kept \subseteq Listed(lines)
    <3>1. kept \subseteq Name \ {job[p].slug}
      BY <1>1, <1>6 DEF Typed, StoreTyped
    <3> QED BY <1>6, <3>1, ReadIndexTyped, UpsertedLines DEF Typed
  <2>3. job' = [job EXCEPT ![p].name = INDEX, ![p].at = "open", ![p].text = render_index(lines)]
    BY <2>1
  <2> HIDE DEF lines
  <2> QED BY <1>16, <2>1, <2>2, <2>3, <2>4
<1>18. CASE remove_from_index(p)
  <2>1. job[p].at = "index" /\ job[p].do = "delete" /\ file' = file /\ tmp' = tmp
    BY <1>18 DEF remove_from_index, At
  <2>2. CASE read_index[job[p].slug] > 0
    <3>1. /\ told' = told /\ kept' = kept
          /\ job' = [job EXCEPT ![p].name = INDEX, ![p].at = "open",
                                ![p].text = render_index([read_index EXCEPT ![job[p].slug] = 0])]
      BY <1>18, <2>2 DEF remove_from_index
    <3> DEFINE lines == [read_index EXCEPT ![job[p].slug] = 0]
    <3>2. job[p].slug \notin kept => kept \subseteq Listed(lines)
      BY <1>6, ReadIndexTyped DEF Typed, Listed
    <3>3. job' = [job EXCEPT ![p].name = INDEX, ![p].at = "open", ![p].text = render_index(lines)]
      BY <3>1
    <3> HIDE DEF lines
    <3> QED BY <1>16, <2>1, <3>1, <3>2, <3>3 DEF Lists
  <2>3. CASE ~(read_index[job[p].slug] > 0)
    <3>1. job' = [job EXCEPT ![p] = Idle] /\ Succeed(p)
      BY <1>18, <2>3 DEF remove_from_index
    <3>2. Keeps(p) /\ Ends(p)
      BY <1>1, <1>4, <2>1, <3>1 DEF Ends, Idle
    <3>3. Indexing(job[p])
      BY <2>1 DEF Indexing
    <3>4. /\ told' = [told EXCEPT ![job[p].slug] =
                IF job[p].solo THEN IF job[p].do = "write" THEN "written" ELSE "deleted" ELSE "unsure"]
          /\ kept' = kept
      BY <2>1, <3>1 DEF Succeed
    <3>5. /\ \A s \in Slug \ {job[p].slug} : told'[s] = told[s]
          /\ told'[job[p].slug] =
               IF job[p].solo THEN IF job[p].do = "write" THEN "written" ELSE "deleted" ELSE "unsure"
      BY <1>2, <3>4 DEF Typed, StoreTyped
    <3>6. EntriesOwned'
      BY <1>2, <1>9, <2>1, <3>2, <3>3, <3>5, EntriesEnd
    <3>7. kept \subseteq Listed(read_index')
      BY <1>6, <2>1 DEF read_index
    <3>8. ListKept'
      BY <1>2, <1>9, <3>2, <3>4, <3>7, ListEnds
    <3> QED BY <3>6, <3>8 DEF StoreInv
  <2> QED BY <2>2, <2>3
<1>19. ASSUME job' = [job EXCEPT ![p] = Idle], UNCHANGED storeVars
       PROVE  StoreInv'
  <2>1. file' = file /\ tmp' = tmp /\ told' = told /\ kept' = kept
    BY <1>19 DEF storeVars
  <2>2. Keeps(p) /\ Ends(p)
    BY <1>1, <1>4, <1>19, <2>1 DEF Ends, Idle
  <2>3. EntriesOwned'
    BY <1>2, <1>9, <2>1, <2>2, EntriesEnd
  <2>4. kept \subseteq Listed(read_index')
    BY <1>6, <2>1 DEF read_index
  <2>5. ListKept'
    BY <1>2, <1>9, <2>1, <2>2, <2>4, ListEnds
  <2> QED BY <2>3, <2>5 DEF StoreInv
<1>20. CASE Fail(p)
  BY <1>19, <1>20 DEF Fail
<1> QED BY <1>10, <1>11, <1>13, <1>14, <1>15, <1>17, <1>18, <1>20 DEF StoreStep

\* The audits write nothing in the store, and a killed process leaves its slug to nobody.
LEMMA OwnedElsewhere ==
    ASSUME Typed, StoreInv, UNCHANGED storeVars,
           \A q \in Proc : \/ job'[q] = job[q]
                           \/ q \notin Writers /\ job'[q].do \notin {"write", "delete"}
    PROVE  StoreInv'
<1>1. Writers' = Writers /\ \A q \in Writers : job'[q] = job[q]
  BY DEF Writers
<1>2. file' = file /\ tmp' = tmp /\ told' = told /\ kept' = kept
  BY DEF storeVars
<1>3. EntriesOwned'
  BY <1>1, <1>2 DEF StoreInv, EntriesOwned, readable
<1>4. list' = list
  BY <1>2 DEF list, read_index, readable
<1>5. ListKept'
  BY <1>1, <1>2, <1>4 DEF StoreInv, ListKept
<1> QED BY <1>3, <1>5 DEF StoreInv

\* So does a kill, wherever it strikes,
LEMMA CrashOwned ==
    ASSUME Typed, StoreInv, NEW p \in Proc, Crash(p)
    PROVE  StoreInv'
<1>1. job \in [Proc -> Job] /\ job' = [job EXCEPT ![p] = Idle] /\ UNCHANGED storeVars
  BY DEF Typed, JobsTyped, Crash
<1>2. file' = file /\ tmp' = tmp /\ told' = told /\ kept' = kept
  BY <1>1 DEF storeVars
<1>3. CASE p \in Writers
  <2>1. Keeps(p) /\ Ends(p)
    BY <1>1, <1>2 DEF Keeps, Ends, Idle
  <2>2. EntriesOwned'
    BY <1>2, <1>3, <2>1, EntriesEnd DEF StoreInv
  <2>3. kept \subseteq Listed(read_index')
    BY <1>2 DEF StoreInv, ListKept, list, read_index
  <2>4. ListKept'
    BY <1>2, <1>3, <2>1, <2>3, ListEnds DEF StoreInv
  <2> QED BY <2>2, <2>4 DEF StoreInv
<1>4. CASE p \notin Writers
  BY <1>1, <1>4, OwnedElsewhere DEF Idle
<1> QED BY <1>3, <1>4

\* a step of an audit
LEMMA DreamStepOwned ==
    ASSUME Typed, StoreInv, NEW p \in Proc, DreamStep(p)
    PROVE  StoreInv'
<1>1. job \in [Proc -> Job] /\ job[p] \in Job /\ Shape(job[p])
  BY DEF Typed, JobsTyped
<1>2. UNCHANGED storeVars
  BY DEF DreamStep, Look, OpenMarker, stamp_if_observed, Retire, MarkerFails, ReadMarker,
         ReadIndex, Audit
<1>3. job[p].at \in {"look", "stamp", "mark", "marker", "store", "entries"}
  BY DEF DreamStep, Look, OpenMarker, stamp_if_observed, Retire, MarkerFails, ReadMarker,
         ReadIndex, Audit, At
<1>4. job[p].do \notin {"write", "delete"}
  BY <1>1, <1>3 DEF Shape, Replacing
<1>5. (\E at : Move(p, at)) \/ job' = [job EXCEPT ![p] = Idle]
  <2>1. CASE Look(p)
    <3>1. job[p].do \in {"dream", "retire"}
      BY <1>1, <2>1 DEF Look, At, Shape, Replacing
    <3>2. CASE job[p].do = "dream"
      BY <2>1, <3>2 DEF Look
    <3>3. CASE job[p].do = "retire"
      <4>1. job' = [job EXCEPT ![p].at = "stamp"] \/ job' = [job EXCEPT ![p] = Idle]
        BY <1>1, <2>1, <3>3 DEF Look
      <4> QED BY <4>1 DEF Move
    <3> QED BY <3>1, <3>2, <3>3
  <2>2. CASE ~Look(p)
    BY <2>2 DEF DreamStep, OpenMarker, stamp_if_observed, Retire, MarkerFails, ReadMarker,
                ReadIndex, Audit
  <2> QED BY <2>1, <2>2
<1>6. job'[p].do \notin {"write", "delete"} /\ \A q \in Proc \ {p} : job'[q] = job[q]
  <2>1. ASSUME NEW at, Move(p, at)
        PROVE  job'[p].do = job[p].do /\ \A q \in Proc \ {p} : job'[q] = job[q]
    <3>1. job'[p] = [job[p] EXCEPT !.at = at] /\ \A q \in Proc : q # p => job'[q] = job[q]
      BY <2>1, MovePlaces DEF Typed
    <3> QED BY <1>1, <3>1 DEF Job
  <2>2. ASSUME job' = [job EXCEPT ![p] = Idle]
        PROVE  job'[p].do = "none" /\ \A q \in Proc \ {p} : job'[q] = job[q]
    BY <1>1, <2>2 DEF Idle
  <2> QED BY <1>4, <1>5, <2>1, <2>2
<1>7. \A q \in Proc : job'[q] = job[q] \/ (q \notin Writers /\ job'[q].do \notin {"write", "delete"})
  BY <1>4, <1>6 DEF Writers
<1> QED BY <1>2, <1>7, OwnedElsewhere

\* and the start of one.
LEMMA LaunchOwned ==
    ASSUME Typed, StoreInv, NEW p \in Proc, NEW do, NEW at, NEW here, Launch(p, do, at, here),
           do \notin {"write", "delete"}
    PROVE  StoreInv'
<1>1. job \in [Proc -> Job] /\ job[p] \in Job /\ p \notin Writers
  BY DEF Typed, JobsTyped, Launch, Busy, Writers
<1>2. job'[p] = [job[p] EXCEPT !.do = do, !.at = at] /\ \A q \in Proc \ {p} : job'[q] = job[q]
  BY <1>1 DEF Launch
<1>3. job'[p].do = do
  BY <1>1, <1>2 DEF Job
<1>4. \A q \in Proc : job'[q] = job[q] \/ (q \notin Writers /\ job'[q].do \notin {"write", "delete"})
  BY <1>1, <1>2, <1>3
<1> QED BY <1>4, OwnedElsewhere DEF Launch

\* Entries and list are kept throughout.
LEMMA StoreInvariant == Spec => []StoreInv
<1>1. Init => StoreInv
  <2> SUFFICES ASSUME Init
               PROVE  StoreInv
    OBVIOUS
  <2>1. Writers = {}
    BY DEF Init, MemoryInit, Writers, Idle
  <2>2. CASE file = [n \in Name |-> Nothing] /\ told = [s \in Slug |-> "nothing"] /\ kept = {}
    BY <2>1, <2>2 DEF StoreInv, EntriesOwned, ListKept
  <2>3. ASSUME NEW s \in Slug \ {INDEX}, NEW d \in Draft,
               file = [n \in Name |-> IF n = s THEN entry_text(d)
                                      ELSE IF n = INDEX
                                      THEN render_index(Upserted(NoLines, s, ReadsAs(s, d)))
                                      ELSE Nothing],
               told = [n \in Slug |-> IF n = s THEN "written" ELSE "nothing"], kept = {s},
               s \in ReadsAs(s, d)
        PROVE  StoreInv
    <3> DEFINE lines == Upserted(NoLines, s, ReadsAs(s, d))
    <3>1. file[s] = entry_text(d) /\ file[INDEX] = render_index(lines)
      BY <2>3 DEF Name
    <3>5. s \in Listed(lines)
      BY <2>3, UpsertedLines DEF NoLines, Name
    <3> HIDE DEF lines
    <3>2. readable(s) /\ s \in Listed(read_index)
      BY <3>1, <3>5 DEF readable, read_index, parse_index, entry_text, render_index, Text
    <3>3. EntriesOwned
      BY <2>1, <2>3, <3>2 DEF EntriesOwned
    <3>4. ListKept
      BY <2>1, <2>3, <3>2 DEF ListKept, list
    <3> QED BY <3>3, <3>4 DEF StoreInv
  <2> QED BY <2>2, <2>3 DEF Init, MemoryInit
<1>2. Typed /\ ServersTyped /\ StoreInv /\ [Next]_vars => StoreInv'
  <2> SUFFICES ASSUME Typed, StoreInv, MemoryStep
               PROVE  StoreInv'
    BY NextMemoryStep
  <2>1. ASSUME NEW p \in Proc, NEW s \in Slug, NEW d \in Draft, write(p, s, d)
        PROVE  StoreInv'
    <3>1. Begin(p, "write", s, entry_text(d), ReadsAs(s, d), "open")
      BY <2>1 DEF write
    <3> QED BY <3>1, BeginOwned
  <2>2. ASSUME NEW p \in Proc, NEW s \in Slug, delete(p, s)
        PROVE  StoreInv'
    <3>1. Begin(p, "delete", s, Nothing, {}, "remove")
      BY <2>2 DEF delete
    <3> QED BY <3>1, BeginOwned
  <2>3. ASSUME NEW p \in Proc, NEW here \in BOOLEAN,
               run_dream(p, here) \/ retire_marker(p) \/ memory_consolidate(p)
        PROVE  StoreInv'
    <3>1. PICK do \in {"dream", "retire", "consolidate"}, at \in {"look", "marker"},
               h \in BOOLEAN : Launch(p, do, at, h)
      BY <2>3 DEF run_dream, retire_marker, memory_consolidate
    <3> QED BY <3>1, LaunchOwned
  <2>4. CASE RemoveMarker \/ UNCHANGED memoryVars
    <3>1. UNCHANGED <<storeVars, job>>
      BY <2>4 DEF RemoveMarker, memoryVars
    <3> QED BY <3>1, OwnedElsewhere
  <2> QED
    BY <2>1, <2>2, <2>3, <2>4, StoreStepOwned, DreamStepOwned, CrashOwned DEF MemoryStep, Proc
<1> QED BY <1>1, <1>2, TypedInv, PTL DEF Spec

\* What was reported of an entry holds, for any number of servers at work on any
\* number of entries and wherever each of them dies (ToldHolds).
THEOREM ToldIsTrue == Spec => []ToldHolds
<1>1. StoreInv => ToldHolds
  BY DEF StoreInv, EntriesOwned, ToldHolds, list
<1> QED BY <1>1, StoreInvariant, PTL

\* A write that was reported is listed until something else is promised of it
\* (ReportedIsListed).
THEOREM ReportedStaysListed == Spec => []ReportedIsListed
<1>1. StoreInv => ReportedIsListed
  BY DEF StoreInv, ListKept, ReportedIsListed
<1> QED BY <1>1, StoreInvariant, PTL

-----------------------------------------------------------------------------
(* The audit. *)

\* An audit about to read the entries was bound to list every entry it must know.
Read == \A p \in Proc : At(p, "entries") => look[p].kept \subseteq look[p].lines

\* Whatever the bodies say, only a link that the audit does not know is dangling,
\* and it is broken for certain only where the tier is not in use.
LEMMA OnlyUnknownDangle ==
    ASSUME NEW tier, NEW present, NEW entries, NEW f \in run_audit(tier, present, entries),
           f.kind = "dangling-link"
    PROVE  /\ f.confidence = "confirmed" => tier # "stamped"
           /\ \A e \in entries : f.about # e.slug
<1> DEFINE known == {e.slug : e \in entries} \cup {e.slug : e \in Repo}
<1>1. \/ f \in marker_contradiction(tier, present) \/ f \in detect_append_only_violations
      \/ f \in detect_cross(entries)
      \/ \E store \in {"per-user", "repo"}, e \in entries \cup Repo :
            f \in detect(e, store, known, tier, present)
  BY DEF run_audit
<1>2. \A e, store, about, kind, confidence :
         /\ Finding(e, store, kind, about, confidence).kind = kind
         /\ Finding(e, store, kind, about, confidence).about = about
         /\ Finding(e, store, kind, about, confidence).confidence = confidence
  BY DEF Finding
<1>3. f \notin marker_contradiction(tier, present) /\ f \notin detect_append_only_violations
      /\ f \notin detect_cross(entries)
  BY <1>2 DEF marker_contradiction, detect_append_only_violations, detect_cross,
              detect_workaround_vs_plan
<1>4. PICK store \in {"per-user", "repo"}, e \in entries \cup Repo :
         f \in detect(e, store, known, tier, present)
  BY <1>1, <1>3
<1> HIDE DEF known
<1>5. f \in detect_dangling_link(e, store, known, tier, present)
  <2>1. f \notin detect_superseded_unlinked(e, store) /\ f \notin detect_room_touching(e, store)
        /\ f \notin detect_description_body_drift(e, store)
        /\ f \notin detect_stale_state_over_lore(e, store)
    BY <1>2 DEF detect_superseded_unlinked, detect_room_touching, detect_description_body_drift,
                detect_stale_state_over_lore
  <2> QED BY <1>4, <2>1 DEF detect
<1>6. PICK t \in FirstUnknown(e.links, known) :
         f = Finding(e, store, "dangling-link", t, link_confidence(tier, present))
  BY <1>5 DEF detect_dangling_link
<1>7. t \notin known
  BY DEF FirstUnknown
<1>8. f.about = t /\ f.confidence = link_confidence(tier, present)
  BY <1>2, <1>6
<1>9. \A d \in entries : f.about # d.slug
  BY <1>7, <1>8 DEF known
<1>10. f.confidence = "confirmed" => tier # "stamped"
  BY <1>8 DEF link_confidence
<1> QED BY <1>9, <1>10

\* Every step keeps what the audits read.
LEMMA ReadStep ==
    ASSUME Typed, StoreInv, Read, MemoryStep
    PROVE  Read'
<1>1. job \in [Proc -> Job] /\ look \in [Proc -> View]
  BY DEF Typed, JobsTyped, LooksTyped
<1>2. ASSUME look' = look, \A q \in Proc : job'[q].at = "entries" => job'[q].at = job[q].at
      PROVE  Read'
  BY <1>2 DEF Read, At
<1>3. ASSUME NEW p \in Proc, NEW do, NEW slug, NEW draft, NEW reads, NEW at, at \in {"open", "remove"},
             Begin(p, do, slug, draft, reads, at)
      PROVE  Read'
  <2>1. \A q \in Proc : job'[q].at = job[q].at \/ job'[q].at = at
    BY <1>1, <1>3 DEF Begin, Job
  <2> QED BY <1>2, <1>3, <2>1 DEF Begin
<1>4. ASSUME NEW p \in Proc, NEW s \in Slug, (\E d \in Draft : write(p, s, d)) \/ delete(p, s)
      PROVE  Read'
  <2>1. ASSUME NEW d \in Draft, write(p, s, d)
        PROVE  Read'
    <3>1. Begin(p, "write", s, entry_text(d), ReadsAs(s, d), "open")
      BY <2>1 DEF write
    <3> QED BY <1>3, <3>1
  <2>2. ASSUME delete(p, s)
        PROVE  Read'
    <3>1. Begin(p, "delete", s, Nothing, {}, "remove")
      BY <2>2 DEF delete
    <3> QED BY <1>3, <3>1
  <2> QED BY <1>4, <2>1, <2>2
<1>5. ASSUME NEW p \in Proc, NEW here \in BOOLEAN,
             run_dream(p, here) \/ retire_marker(p) \/ memory_consolidate(p)
      PROVE  Read'
  <2>1. PICK do \in {"dream", "retire", "consolidate"}, at \in {"look", "marker"},
             h \in BOOLEAN : Launch(p, do, at, h)
    BY <1>5 DEF run_dream, retire_marker, memory_consolidate
  <2>2. job' = [job EXCEPT ![p] = [job[p] EXCEPT !.do = do, !.at = at]]
    BY <1>1, <2>1 DEF Launch
  <2>3. job'[p].at = at /\ \A q \in Proc \ {p} : job'[q] = job[q]
    BY <1>1, <2>2 DEF Job
  <2>4. \A q \in Proc \ {p} : look'[q] = look[q]
    BY <1>1, <2>1 DEF Launch
  <2> QED BY <2>3, <2>4 DEF Read, At
<1>6. ASSUME NEW p \in Proc, StoreStep(p)
      PROVE  Read'
  <2>1. look' = look
    BY <1>6 DEF StoreStep, Open, Fill, RenameEntry, RenameIndex, remove_file, upsert_index,
                remove_from_index, Fail
  <2>2. \A q \in Proc : job'[q].at = job[q].at \/ job'[q].at \in Replacing \cup {"index", "idle"}
    BY <1>6, StoreStepPlaces
  <2> QED BY <1>2, <2>1, <2>2 DEF Replacing
<1>7. ASSUME NEW p \in Proc, NEW at, at # "entries", Move(p, at),
             \A q \in Proc \ {p} : look'[q] = look[q]
      PROVE  Read'
  <2>1. job'[p].at = at /\ \A q \in Proc : q # p => job'[q] = job[q]
    BY <1>7, MovePlaces DEF Typed
  <2> QED BY <1>7, <2>1 DEF Read, At
<1>8. ASSUME NEW p \in Proc, job' = [job EXCEPT ![p] = Idle],
             \A q \in Proc \ {p} : look'[q] = look[q]
      PROVE  Read'
  <2>1. job'[p].at = "idle" /\ \A q \in Proc \ {p} : job'[q] = job[q]
    BY <1>1, <1>8 DEF Idle
  <2> QED BY <1>8, <2>1 DEF Read, At
<1>9. ASSUME NEW p \in Proc, ReadIndex(p)
      PROVE  Read'
  <2> DEFINE present == look[p].here /\ initialized
             lines == IF look[p].here THEN Listed(read_index) ELSE {}
             known == IF look[p].here THEN kept ELSE {}
  <2>1. look' = [look EXCEPT ![p] = [look[p] EXCEPT !.present = present, !.lines = lines, !.kept = known]]
    BY <1>1, <1>9 DEF ReadIndex
  <2>2. known \subseteq lines
    BY DEF StoreInv, ListKept, list
  <2>3. Move(p, "entries")
    BY <1>9 DEF ReadIndex
  <2> HIDE DEF present, lines, known
  <2>4. look'[p].kept = known /\ look'[p].lines = lines /\ \A q \in Proc \ {p} : look'[q] = look[q]
    BY <1>1, <2>1 DEF View
  <2>5. \A q \in Proc : q # p => job'[q] = job[q]
    BY <2>3, MovePlaces DEF Typed
  <2> QED BY <2>2, <2>4, <2>5 DEF Read, At
<1>10. ASSUME NEW p \in Proc, DreamStep(p)
       PROVE  Read'
  <2>1. CASE Look(p)
    <3>1. job[p].do \in {"dream", "retire"} /\ look' = look
      BY <2>1 DEF Typed, JobsTyped, Shape, Look, At, Replacing
    <3>2. CASE job[p].do = "dream"
      BY <1>7, <2>1, <3>1, <3>2 DEF Look
    <3>3. CASE job[p].do = "retire"
      <4>1. job' = [job EXCEPT ![p].at = "stamp"] \/ job' = [job EXCEPT ![p] = Idle]
        BY <1>1, <2>1, <3>3 DEF Look
      <4> QED BY <1>7, <1>8, <3>1, <4>1 DEF Move
    <3> QED BY <3>1, <3>2, <3>3
  <2>2. CASE OpenMarker(p) \/ stamp_if_observed(p)
    BY <1>7, <2>2 DEF OpenMarker, stamp_if_observed
  <2>3. CASE Retire(p)
    BY <1>8, <2>3 DEF Retire
  <2>4. CASE MarkerFails(p)
    BY <1>7, <1>8, <2>4 DEF MarkerFails
  <2>5. CASE ReadMarker(p)
    <3>1. \A q \in Proc \ {p} : look'[q] = look[q]
      BY <1>1, <2>5 DEF ReadMarker
    <3> QED BY <1>7, <2>5, <3>1 DEF ReadMarker
  <2>6. CASE Audit(p)
    <3>1. \A q \in Proc \ {p} : look'[q] = look[q]
      BY <1>1, <2>6 DEF Audit
    <3> QED BY <1>8, <2>6, <3>1 DEF Audit
  <2> QED BY <1>9, <1>10, <2>1, <2>2, <2>3, <2>4, <2>5, <2>6 DEF DreamStep
<1>11. ASSUME NEW p \in Proc, Crash(p)
       PROVE  Read'
  <2>1. \A q \in Proc \ {p} : look'[q] = look[q]
    BY <1>1, <1>11 DEF Crash
  <2> QED BY <1>8, <1>11, <2>1 DEF Crash
<1>12. CASE RemoveMarker \/ UNCHANGED memoryVars
  <2>1. job' = job /\ look' = look
    BY <1>12 DEF RemoveMarker, memoryVars
  <2> QED BY <1>2, <2>1
<1> QED BY <1>4, <1>5, <1>6, <1>10, <1>11, <1>12 DEF MemoryStep, Proc

\* No audit calls a link broken for certain where the tier's stamp stands, nor
\* reports one to an entry it was bound to list, whatever the bodies say
\* (DanglingJudged).
THEOREM LinksJudged == Spec => []DanglingJudged
<1>1. Init => Read
  BY DEF Init, MemoryInit, Idle, Read, At
<1>2. Typed /\ ServersTyped /\ StoreInv /\ Read /\ [Next]_vars => Read'
  BY NextMemoryStep, ReadStep
<1>3. Latched /\ StoreInv /\ Read => DanglingJudged
  <2> SUFFICES ASSUME Latched, StoreInv, Read, NEW p \in Proc, At(p, "entries"),
                      NEW f \in Findings(p), f.kind = "dangling-link"
               PROVE  /\ f.confidence = "confirmed" => ~look[p].stamped
                      /\ f.about \notin look[p].kept \cap kept
    BY DEF DanglingJudged
  <2> DEFINE entries == {read(s) : s \in {s \in look[p].lines : readable(s)}}
  <2>1. /\ f.confidence = "confirmed" => look[p].tier # "stamped"
        /\ \A e \in entries : f.about # e.slug
    BY OnlyUnknownDangle DEF Findings
  <2>2. \A s : read(s).slug = s
    BY DEF read
  <2>3. ASSUME NEW s \in look[p].kept \cap kept
        PROVE  f.about # s
    <3>1. s \in look[p].lines /\ readable(s)
      BY DEF Read, StoreInv, ListKept, list
    <3>2. read(s) \in entries
      BY <3>1
    <3> QED BY <2>1, <2>2, <3>2
  <2> QED BY <2>1, <2>3 DEF Latched
<1> QED BY <1>1, <1>2, <1>3, TypedInv, LatchedInv, StoreInvariant, PTL DEF Spec
=============================================================================
