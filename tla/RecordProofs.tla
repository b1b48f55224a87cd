---------------------------- MODULE RecordProofs ----------------------------
(***************************************************************************)
(* However many sessions overlap and wherever they die, no entry is        *)
(* applied that was neither applied at first nor recorded by a command     *)
(* that looked at its prerequisites.  Files are lost and mixed on the way; *)
(* the invariant (Accounted) says that every text there is, in a file,     *)
(* under a temporary's name or in a command's hands, and every piece and   *)
(* mixture of such texts, speaks only of asked entries.  While commands run one at a time, wherever they die, the      *)
(* files stay whole, keep what was reported and implement the applied set; *)
(* that invariant (Alone) says how what a command has still to rewrite     *)
(* fits the files.                                                         *)
(***************************************************************************)
EXTENDS RecordRefinement, WellFoundedInduction, TLAPS

\* A text that, as what file f holds, makes only the entries of A applied.
Known(A, f, c) ==
    /\ c \in Content
    /\ \A a \in c.applied : a.entry \in A
    /\ f = "host" => \A e \in Entry : e <= c.baseline => e \in A

\* A rewrite that keeps a known text known.
Sound(A, w) ==
    /\ w.edit \in {"put", "receipt", "line", "advance", "absorb"}
    /\ w.edit = "put" => w.file \in File /\ Known(A, w.file, w.text)
    /\ w.edit = "receipt" => w.file \in File /\ w.receipt \in Receipt
    /\ w.edit = "line" => w.file = "applied" /\ w.line \in Line /\ w.line.entry \in A
    /\ w.edit = "advance" => /\ w.file = "host" /\ w.upto \in Entry
                             /\ \A e \in Entry : e <= w.upto => e \in A
    /\ w.edit = "absorb" => w.file = "receipts"

IsSeq(q) == \E S : q \in Seq(S)

\* A list of sound rewrites, no longer than most.
AllSound(A, todo, most) ==
    /\ IsSeq(todo) /\ Len(todo) <= most
    /\ \A i \in 1 .. Len(todo) : Sound(A, todo[i])

JobSound(A, j) ==
    /\ j = [todo |-> j.todo, at |-> j.at, file |-> j.file, text |-> j.text, says |-> j.says]
    /\ AllSound(A, j.todo, 3)
    /\ j # Idle => j.todo # << >>
    /\ j.at \in {"read", "open", "fill", "fill over", "fill nothing", "rename"}
    /\ j.file \in File /\ j.text \in Content
    /\ j.at # "read" => Known(A, j.file, j.text)
    /\ j.says \subseteq Receipt \cup Line

\* What a stamp with only its revision makes applied.
Rooted(A) == \A e \in Entry : e <= Revision => e \in A

Accounted ==
    /\ Rooted(asked)
    /\ serial \in Nat /\ asked \subseteq Entry /\ told \subseteq Receipt \cup Line
    /\ file = [f \in File |-> file[f]]
    /\ \A f \in File : Known(asked, f, file[f])
    /\ tmp = [f \in File |-> tmp[f]]
    /\ \A f \in File : tmp[f] = Absent \/ Known(asked, f, tmp[f])
    /\ job = [s \in Session |-> job[s]]
    /\ \A s \in Session : JobSound(asked, job[s])

-----------------------------------------------------------------------------
(* Receipt logs. *)

\* Induction over the naturals, for a set.
LEMMA Induct ==
    ASSUME NEW S, 0 \in S, \A n \in Nat : n \in S => n + 1 \in S
    PROVE  Nat \subseteq S
<1> DEFINE T == Nat \ S
<1>1. SUFFICES ASSUME T # {}
               PROVE  FALSE
  OBVIOUS
<1>2. IsWellFoundedOn(OpToRel(<, Nat), Nat)
  BY NatLessThanWellFounded
<1>3. PICK m \in T : \A k \in T : <<k, m>> \notin OpToRel(<, Nat)
  <2> T \subseteq Nat
    OBVIOUS
  <2> HIDE DEF T
  <2> QED BY <1>1, <1>2, WFMin
<1>4. m \in Nat /\ m # 0 /\ m - 1 \in Nat /\ m - 1 < m
  OBVIOUS
<1>5. << m - 1, m >> \in OpToRel(<, Nat)
  BY <1>4 DEF OpToRel
<1>6. m - 1 \in S
  BY <1>3, <1>4, <1>5
<1> QED BY <1>4, <1>6

\* One step of the selection: what is kept of the first i receipts.
Keeps(log, P, g, i) ==
    IF i = 0 THEN << >>
    ELSE IF log[i].phase \in P THEN Append(g[i - 1], log[i]) ELSE g[i - 1]

\* The recursion of only has a solution.
LEMMA OnlyStep ==
    ASSUME NEW log, NEW P, NEW n \in Nat
    PROVE  \E g : g = [i \in 0 .. n |-> Keeps(log, P, g, i)]
<1> DEFINE S == {k \in Nat : \E g : g = [i \in 0 .. k |-> Keeps(log, P, g, i)]}
<1>1. 0 \in S
  <2> DEFINE g == [i \in 0 .. 0 |-> << >>]
  <2>1. g = [i \in 0 .. 0 |-> Keeps(log, P, g, i)]
    BY DEF Keeps
  <2> HIDE DEF g
  <2>2. \E h : h = [i \in 0 .. 0 |-> Keeps(log, P, h, i)]
    BY <2>1
  <2> QED BY <2>2
<1>2. ASSUME NEW k \in Nat, k \in S
      PROVE  k + 1 \in S
  <2>1. PICK g : g = [i \in 0 .. k |-> Keeps(log, P, g, i)]
    BY <1>2
  <2> DEFINE h == [i \in 0 .. k + 1 |-> IF i = k + 1 THEN Keeps(log, P, g, i) ELSE g[i]]
  <2>2. \A i \in 0 .. k : h[i] = g[i]
    OBVIOUS
  <2>3. ASSUME NEW i \in 0 .. k + 1
        PROVE h[i] = Keeps(log, P, h, i)
    <3>1. h[i] = Keeps(log, P, g, i)
      <4>1. CASE i = k + 1
        BY <4>1
      <4>2. CASE i # k + 1
        <5>1. i \in 0 .. k
          BY <4>2
        <5>2. g[i] = Keeps(log, P, g, i)
          BY <2>1, <5>1
        <5> QED BY <2>2, <5>1, <5>2
      <4> QED BY <4>1, <4>2
    <3>2. i # 0 => h[i - 1] = g[i - 1]
      BY <2>2
    <3> HIDE DEF h
    <3>3. Keeps(log, P, g, i) = Keeps(log, P, h, i)
      BY <3>2 DEF Keeps
    <3> QED BY <3>1, <3>3
  <2>4. h = [i \in 0 .. k + 1 |-> Keeps(log, P, h, i)]
    <3>1. h = [i \in 0 .. k + 1 |-> h[i]]
      OBVIOUS
    <3> HIDE DEF h
    <3> QED BY <2>3, <3>1
  <2> HIDE DEF h
  <2>5. \E f : f = [i \in 0 .. k + 1 |-> Keeps(log, P, f, i)]
    BY <2>4
  <2> QED BY <2>5
<1>3. n \in S
  <2> HIDE DEF S
  <2> QED BY <1>1, <1>2, Induct
<1> QED BY <1>3

\* A sequence with one more element.
LEMMA AppendRange ==
    ASSUME NEW R, NEW q \in Seq(R), NEW r \in R
    PROVE  Range(Append(q, r)) = Range(q) \cup {r}
<1>1. /\ Len(Append(q, r)) = Len(q) + 1 /\ DOMAIN Append(q, r) = 1 .. Len(q) + 1
      /\ DOMAIN q = 1 .. Len(q) /\ Len(q) \in Nat
  OBVIOUS
<1>2. \A i \in 1 .. Len(q) : Append(q, r)[i] = q[i]
  OBVIOUS
<1>3. Append(q, r)[Len(q) + 1] = r
  OBVIOUS
<1> QED BY <1>1, <1>2, <1>3 DEF Range

\* only keeps just the receipts of the phases it is given.
LEMMA OnlySome ==
    ASSUME NEW R, NEW log \in Seq(R), NEW P
    PROVE  /\ only(log, P) \in Seq(R)
           /\ Range(only(log, P)) = {r \in Range(log) : r.phase \in P}
<1> DEFINE kept == CHOOSE g : g = [i \in 0 .. Len(log) |-> Keeps(log, P, g, i)]
<1>1. only(log, P) = kept[Len(log)]
  BY DEF only, Keeps
<1>2. kept = [i \in 0 .. Len(log) |-> Keeps(log, P, kept, i)]
  <2>0. Len(log) \in Nat
    OBVIOUS
  <2>1. \E g : g = [i \in 0 .. Len(log) |-> Keeps(log, P, g, i)]
    BY <2>0, OnlyStep
  <2> QED BY <2>1
<1> HIDE DEF kept
<1> DEFINE Before(i) == {log[k] : k \in {k \in 1 .. i : log[k].phase \in P}}
           S == {i \in Nat : i <= Len(log) => /\ kept[i] \in Seq(R)
                                              /\ Range(kept[i]) = Before(i)}
<1>3. 0 \in S
  <2>1. kept[0] = << >>
    BY <1>2 DEF Keeps
  <2>2. << >> \in Seq(R) /\ Range(<< >>) = {}
    BY DEF Range
  <2>3. Before(0) = {}
    OBVIOUS
  <2> HIDE DEF Before
  <2> QED BY <2>1, <2>2, <2>3
<1>4. ASSUME NEW i \in Nat, i \in S, i + 1 <= Len(log)
      PROVE  kept[i + 1] \in Seq(R) /\ Range(kept[i + 1]) = Before(i + 1)
  <2>1. kept[i] \in Seq(R) /\ Range(kept[i]) = Before(i)
    BY <1>4
  <2>0. i + 1 \in 0 .. Len(log) /\ i + 1 # 0 /\ (i + 1) - 1 = i
    BY <1>4
  <2> DEFINE m == i + 1
  <2>8. kept[m] = Keeps(log, P, kept, m)
    BY <1>2, <2>0
  <2>2. kept[m] = IF log[m].phase \in P THEN Append(kept[i], log[m]) ELSE kept[i]
    BY <2>0, <2>8 DEF Keeps
  <2>3. log[i + 1] \in R
    BY <1>4
  <2>4. Range(Append(kept[i], log[i + 1])) = Range(kept[i]) \cup {log[i + 1]}
    BY <2>1, <2>3, AppendRange
  <2>5. Before(i + 1) = IF log[i + 1].phase \in P THEN Before(i) \cup {log[i + 1]} ELSE Before(i)
    BY <1>4
  <2> QED BY <2>1, <2>2, <2>3, <2>4, <2>5
<1>5. Len(log) \in S
  <2>1. ASSUME NEW i \in Nat, i \in S PROVE i + 1 \in S
    <3>1. CASE i + 1 <= Len(log)
      <4> HIDE DEF Before
      <4>1. kept[i + 1] \in Seq(R) /\ Range(kept[i + 1]) = Before(i + 1)
        BY <1>4, <2>1, <3>1
      <4> QED BY <4>1
    <3>2. CASE ~(i + 1 <= Len(log))
      <4> HIDE DEF Before
      <4> QED BY <3>2
    <3> QED BY <3>1, <3>2
  <2> HIDE DEF S
  <2> QED BY <1>3, <2>1, Induct
<1>6. Range(kept[Len(log)]) = Before(Len(log)) /\ kept[Len(log)] \in Seq(R)
  BY <1>5
<1>7. Before(Len(log)) = {r \in Range(log) : r.phase \in P}
  BY DEF Range
<1> QED BY <1>1, <1>6, <1>7

-----------------------------------------------------------------------------
\* What is known stays known when more is asked for.
LEMMA KnownGrows ==
    ASSUME NEW A, NEW B, A \subseteq B, NEW f, NEW c, Known(A, f, c)
    PROVE  Known(B, f, c)
BY DEF Known

\* So does what is sound.
LEMMA SoundGrows ==
    ASSUME NEW A, NEW B, A \subseteq B, NEW w, Sound(A, w)
    PROVE  Sound(B, w)
BY KnownGrows DEF Sound

\* And what a command has in hand.
LEMMA JobGrows ==
    ASSUME NEW A, NEW B, A \subseteq B, NEW j, JobSound(A, j)
    PROVE  JobSound(B, j)
BY KnownGrows, SoundGrows DEF JobSound, AllSound

\* An idle session has nothing in hand.
LEMMA IdleSound == ASSUME NEW A PROVE JobSound(A, Idle)
<1>1. << >> \in Seq({}) /\ Len(<< >>) = 0 /\ << >> \in Seq(Receipt)
  OBVIOUS
<1>2. Blank \in Content
  BY <1>1, RecordAssumption DEF Blank, Content, Nothing
<1>3. Idle = [todo |-> << >>, at |-> "read", file |-> "host", text |-> Blank, says |-> {}]
  BY DEF Idle, Command
<1>4. AllSound(A, << >>, 3)
  BY <1>1 DEF AllSound, IsSeq
<1> QED BY <1>1, <1>2, <1>3, <1>4 DEF JobSound, File

\* A part of a log is a log.
LEMMA PartOfLog ==
    ASSUME NEW R, NEW log \in Seq(R), NEW m \in 1 .. Len(log) + 1, NEW n \in 0 .. Len(log)
    PROVE  SubSeq(log, m, n) \in Seq(R)
OBVIOUS

\* What a piece of a stamp shows of a baseline is at most that baseline.
LEMMA ShowsLess ==
    ASSUME NEW b \in -2 .. LastEntry, NEW c \in Shows(b)
    PROVE  c \in -2 .. LastEntry /\ \A e \in Entry : e <= c => e <= b
BY RecordAssumption DEF Shows, Nothing, Entry

\* A beginning of a known text is known.
LEMMA CutKnown ==
    ASSUME NEW A, NEW f, NEW text, Known(A, f, text), NEW c \in Cuts(text)
    PROVE  Known(A, f, c)
<1>1. /\ text.baseline \in Nothing .. LastEntry /\ text.applied \subseteq Line
      /\ text.log \in Seq(Receipt)
  BY DEF Known, Content
<1>2. /\ c = [whole |-> c.whole, baseline |-> c.baseline, applied |-> c.applied, log |-> c.log]
      /\ c.whole = FALSE /\ c.baseline \in Shows(text.baseline)
      /\ c.applied \subseteq text.applied
      /\ \E n \in 0 .. Len(text.log) : c.log = SubSeq(text.log, 1, n)
  BY DEF Cuts
<1>3. c.log \in Seq(Receipt)
  <2>1. Len(text.log) \in Nat /\ 1 \in 1 .. Len(text.log) + 1
    BY <1>1
  <2> QED BY <1>1, <1>2, <2>1, PartOfLog
<1>4. c.baseline \in Nothing .. LastEntry
  BY <1>1, <1>2, RecordAssumption DEF Shows, Nothing, Entry
<1>5. c \in Content
  BY <1>1, <1>2, <1>3, <1>4 DEF Content
<1>6. \A e \in Entry : e <= c.baseline => e <= text.baseline
  BY <1>1, <1>2, ShowsLess DEF Nothing
<1> QED BY <1>2, <1>5, <1>6 DEF Known

\* So is a known text with the tail of another, or of a temporary gone meanwhile.
LEMMA MixedKnown ==
    ASSUME NEW A, NEW f, NEW text, Known(A, f, text), NEW old, Known(A, f, old) \/ old = Absent,
           NEW c \in Mixed(text, old)
    PROVE  Known(A, f, c)
<1>1. /\ text.baseline \in Nothing .. LastEntry /\ text.applied \subseteq Line
      /\ text.log \in Seq(Receipt)
      /\ \A a \in text.applied : a.entry \in A
  BY DEF Known, Content
<1>2. /\ old.baseline \in -2 .. LastEntry /\ old.applied \subseteq Line
      /\ old.log \in Seq(Receipt)
      /\ \A a \in old.applied : a.entry \in A
      /\ f = "host" => \A e \in Entry : e <= old.baseline => e \in A
  <2>1. CASE Known(A, f, old)
    BY <2>1 DEF Known, Content, Nothing
  <2>2. CASE old = Absent
    <3>1. << >> \in Seq(Receipt)
      OBVIOUS
    <3>2. old.baseline = -2 /\ old.applied = {} /\ old.log = << >>
      BY <2>2 DEF Absent, Blank
    <3> QED BY <3>1, <3>2, RecordAssumption DEF Entry
  <2> QED BY <2>1, <2>2
<1>3. /\ c = [whole |-> c.whole, baseline |-> c.baseline, applied |-> c.applied, log |-> c.log]
      /\ c.whole = FALSE
      /\ c.baseline = text.baseline
         \/ (c.baseline \in Shows(old.baseline) /\ text.baseline <= c.baseline)
      /\ \E tail \in SUBSET old.applied : c.applied = text.applied \cup tail
      /\ \E n \in 1 .. Len(old.log) + 1 : c.log = text.log \o SubSeq(old.log, n, Len(old.log))
  <2> DEFINE Bases == IF text.baseline > 0 THEN {text.baseline}
                      ELSE {b \in {text.baseline} \cup Shows(old.baseline) : text.baseline <= b}
             Lines == {text.applied \cup tail : tail \in SUBSET old.applied}
             Logs == {text.log \o SubSeq(old.log, n, Len(old.log)) : n \in 1 .. Len(old.log) + 1}
  <2>1. Mixed(text, old) = [whole : {FALSE}, baseline : Bases, applied : Lines, log : Logs]
    BY DEF Mixed
  <2>2. \A b \in Bases : b = text.baseline \/ (b \in Shows(old.baseline) /\ text.baseline <= b)
    OBVIOUS
  <2>3. /\ \A l \in Lines : \E tail \in SUBSET old.applied : l = text.applied \cup tail
        /\ \A g \in Logs : \E n \in 1 .. Len(old.log) + 1 :
              g = text.log \o SubSeq(old.log, n, Len(old.log))
    OBVIOUS
  <2> HIDE DEF Bases, Lines, Logs
  <2>4. c \in [whole : {FALSE}, baseline : Bases, applied : Lines, log : Logs]
    BY <2>1
  <2>5. c = [whole |-> c.whole, baseline |-> c.baseline, applied |-> c.applied, log |-> c.log]
    BY <2>4
  <2>6. c.whole = FALSE /\ c.baseline \in Bases /\ c.applied \in Lines /\ c.log \in Logs
    BY <2>4
  <2> QED BY <2>2, <2>3, <2>5, <2>6
<1>4. c.log \in Seq(Receipt)
  <2>1. Len(old.log) \in Nat /\ Len(old.log) \in 0 .. Len(old.log)
    BY <1>2
  <2>2. PICK n \in 1 .. Len(old.log) + 1 : c.log = text.log \o SubSeq(old.log, n, Len(old.log))
    BY <1>3
  <2> DEFINE part == SubSeq(old.log, n, Len(old.log))
  <2>3. part \in Seq(Receipt)
    BY <1>2, <2>1, PartOfLog
  <2> HIDE DEF part
  <2>4. text.log \o part \in Seq(Receipt)
    BY <1>1, <2>3
  <2> QED BY <2>2, <2>4 DEF part
<1>5. /\ c.baseline \in Nothing .. LastEntry
      /\ \A e \in Entry : e <= c.baseline => e <= text.baseline \/ e <= old.baseline
  <2>1. CASE c.baseline = text.baseline
    BY <1>1, <2>1
  <2>2. CASE c.baseline \in Shows(old.baseline) /\ text.baseline <= c.baseline
    <3>1. /\ c.baseline \in -2 .. LastEntry
          /\ \A e \in Entry : e <= c.baseline => e <= old.baseline
      BY <1>2, <2>2, ShowsLess
    <3> QED BY <1>1, <2>2, <3>1 DEF Nothing
  <2> QED BY <1>3, <2>1, <2>2
<1>6. c.applied \subseteq Line /\ \A a \in c.applied : a.entry \in A
  BY <1>1, <1>2, <1>3
<1>7. c \in Content
  BY <1>3, <1>4, <1>5, <1>6 DEF Content
<1>8. f = "host" => \A e \in Entry : e <= c.baseline => e \in A
  BY <1>2, <1>5 DEF Known
<1> QED BY <1>6, <1>7, <1>8 DEF Known

\* An accounted project has only asked entries applied.
LEMMA AccountedSwept == Accounted => NeverSwept
<1> SUFFICES ASSUME Accounted, NEW e \in Applied PROVE e \in asked
  BY DEF NeverSwept
<1>1. Known(asked, "host", file["host"]) /\ Known(asked, "receipts", file["receipts"])
  BY DEF Accounted, File
<1>2. CASE e \in read_applied_ids
  BY <1>1, <1>2 DEF read_applied_ids, read_applied_lines, Known
<1>3. CASE e \in Entry /\ e <= baseline_of(file["host"])
  BY <1>1, <1>3 DEF Known, Accounted, Rooted, baseline_of
<1> QED BY <1>2, <1>3 DEF Applied, entry_applied

\* A known text with another log is known.
LEMMA LogKnown ==
    ASSUME NEW A, NEW f, NEW c, Known(A, f, c), NEW log \in Seq(Receipt)
    PROVE  Known(A, f, [c EXCEPT !.log = log])
BY DEF Known, Content

\* So is one with other lines, if they too are about entries of A.
LEMMA LinesKnown ==
    ASSUME NEW A, NEW f, NEW c, Known(A, f, c),
           NEW lines \in SUBSET Line, \A a \in lines : a.entry \in A
    PROVE  Known(A, f, [c EXCEPT !.applied = lines])
BY DEF Known, Content

\* A sound rewrite of a known text is known.
LEMMA EditKnown ==
    ASSUME NEW A, NEW f, NEW old, Known(A, f, old), NEW w, Sound(A, w),
           w.edit = "put" => w.file = f
    PROVE  Known(A, f, Rewritten(w, old))
<1>1. CASE w.edit = "put"
  BY <1>1 DEF Sound, Rewritten
<1>2. CASE w.edit = "receipt"
  <2>1. Rewritten(w, old) = [old EXCEPT !.log = Append(@, w.receipt)]
    BY <1>2 DEF Rewritten
  <2>2. w.receipt \in Receipt
    BY <1>2 DEF Sound
  <2>3. Append(old.log, w.receipt) \in Seq(Receipt)
    BY <2>2 DEF Known, Content
  <2>4. Rewritten(w, old) = [old EXCEPT !.log = Append(old.log, w.receipt)]
    BY <2>1 DEF Known, Content
  <2> DEFINE log == Append(old.log, w.receipt)
  <2> HIDE DEF log
  <2>5. Known(A, f, [old EXCEPT !.log = log])
    BY <2>3, LogKnown DEF log
  <2> QED BY <2>4, <2>5 DEF log
<1>3. CASE w.edit = "line"
  <2>1. Rewritten(w, old) = [old EXCEPT !.applied = @ \cup {w.line}]
    BY <1>3 DEF Rewritten
  <2>2. w.line \in Line /\ w.line.entry \in A
    BY <1>3 DEF Sound
  <2> QED BY <2>1, <2>2 DEF Known, Content
<1>4. CASE w.edit = "advance"
  <2>1. Rewritten(w, old) = [old EXCEPT !.baseline = w.upto,
                                        !.applied = remove_applied_lines(@, w.ids)]
    BY <1>4 DEF Rewritten
  <2>2. w.upto \in Entry /\ \A e \in Entry : e <= w.upto => e \in A
    BY <1>4 DEF Sound
  <2>3. w.upto \in Nothing .. LastEntry
    BY <2>2, RecordAssumption DEF Entry, Nothing
  <2>4. Rewritten(w, old) \in Content /\ Rewritten(w, old).baseline = w.upto
        /\ Rewritten(w, old).applied \subseteq old.applied
    BY <2>1, <2>3 DEF Known, Content, remove_applied_lines
  <2> QED BY <2>2, <2>4 DEF Known
<1>5. CASE w.edit = "absorb"
  <2>1. Rewritten(w, old) = [old EXCEPT !.applied = remove_applied_lines(@, w.ids)]
    BY <1>5 DEF Rewritten
  <2> QED BY <2>1 DEF Known, Content, remove_applied_lines
<1> QED BY <1>1, <1>2, <1>3, <1>4, <1>5 DEF Sound

\* A sound rewrite is for a file, and of an accounted file is known.
LEMMA RewrittenKnown ==
    ASSUME Accounted, NEW w, Sound(asked, w)
    PROVE  FileOf(w) \in File /\ Known(asked, FileOf(w), Rewritten(w, file[FileOf(w)]))
<1>1. FileOf(w) \in File
  BY DEF Sound, FileOf, applied_file, File
<1>2. Known(asked, FileOf(w), file[FileOf(w)])
  BY <1>1 DEF Accounted
<1>3. w.edit = "put" => w.file = FileOf(w)
  BY DEF Sound, FileOf, File
<1> QED BY <1>1, <1>2, <1>3, EditKnown

-----------------------------------------------------------------------------
(* The invariant across each action. *)

\* What a step must leave: the files and temporaries known, every session sound.
\* A start hands a session sound rewrites, and may ask for an entry.
LEMMA BeginStep ==
    ASSUME Accounted, NEW s \in Session, NEW todo, NEW says, Begin(s, todo, says),
           asked \subseteq asked', asked' \subseteq Entry, serial' \in Nat,
           AllSound(asked', todo, 3), says \subseteq Receipt \cup Line
    PROVE  Accounted'
<1>1. job' = [job EXCEPT ![s] = Command(todo, says)]
      /\ UNCHANGED <<file, tmp, told>>
  BY DEF Begin
<1>2. /\ told' \subseteq Receipt \cup Line
      /\ file' = [f \in File |-> file'[f]]
      /\ \A f \in File : Known(asked', f, file'[f])
      /\ tmp' = [f \in File |-> tmp'[f]]
      /\ \A f \in File : tmp'[f] = Absent \/ Known(asked', f, tmp'[f])
  BY <1>1, KnownGrows DEF Accounted
<1> DEFINE new == Command(todo, says)
<1>3. JobSound(asked', new)
  <2>1. new = [todo |-> todo, at |-> "read", file |-> "host", text |-> Blank, says |-> says]
    BY DEF Command
  <2>2. Idle.file \in File /\ Idle.text \in Content /\ Idle.file = "host" /\ Idle.text = Blank
    BY IdleSound DEF JobSound, Idle, Command
  <2>3. todo # << >>
    BY DEF Begin
  <2> HIDE DEF new
  <2> QED BY <2>1, <2>2, <2>3 DEF JobSound
<1>4. \A x \in Session : JobSound(asked', job[x])
  BY JobGrows DEF Accounted
<1>5. job = [x \in Session |-> job[x]]
  BY DEF Accounted
<1> HIDE DEF new
<1>6. job' = [x \in Session |-> job'[x]] /\ \A x \in Session : job'[x] \in {job[x], new}
  BY <1>1, <1>5 DEF new
<1>7. \A x \in Session : JobSound(asked', job'[x])
  BY <1>3, <1>4, <1>6
<1>8. Rooted(asked')
  BY DEF Accounted, Rooted
<1> QED BY <1>2, <1>6, <1>7, <1>8 DEF Accounted

\* Lists of sound rewrites: none, one, and one list after another.
LEMMA NoneSound == ASSUME NEW A PROVE AllSound(A, << >>, 1)
<1>1. << >> \in Seq({}) /\ Len(<< >>) = 0
  OBVIOUS
<1> QED BY <1>1 DEF AllSound, IsSeq

\* One.
LEMMA OneSound == ASSUME NEW A, NEW w, Sound(A, w) PROVE AllSound(A, << w >>, 1)
<1>1. << w >> \in Seq({w}) /\ Len(<< w >>) = 1 /\ << w >>[1] = w
  OBVIOUS
<1>2. IsSeq(<< w >>)
  BY <1>1 DEF IsSeq
<1> QED BY <1>1, <1>2 DEF AllSound

\* Two.
LEMMA TwoSound ==
    ASSUME NEW A, NEW v, NEW w, Sound(A, v), Sound(A, w)
    PROVE  AllSound(A, << v, w >>, 2)
<1>1. << v, w >> \in Seq({v, w}) /\ Len(<< v, w >>) = 2
      /\ << v, w >>[1] = v /\ << v, w >>[2] = w
  OBVIOUS
<1>2. IsSeq(<< v, w >>)
  BY <1>1 DEF IsSeq
<1> QED BY <1>1, <1>2 DEF AllSound

\* One list after another.
LEMMA ConcatSound ==
    ASSUME NEW A, NEW p, NEW q, NEW m \in Nat, NEW n \in Nat,
           AllSound(A, p, m), AllSound(A, q, n)
    PROVE  AllSound(A, p \o q, m + n)
<1>1. PICK S : p \in Seq(S)
  BY DEF AllSound, IsSeq
<1>2. PICK T : q \in Seq(T)
  BY DEF AllSound, IsSeq
<1>3. p \in Seq(S \cup T) /\ q \in Seq(S \cup T)
  BY <1>1, <1>2
<1>4. /\ p \o q \in Seq(S \cup T)
      /\ Len(p \o q) = Len(p) + Len(q)
      /\ \A i \in 1 .. Len(p \o q) :
            (p \o q)[i] = IF i <= Len(p) THEN p[i] ELSE q[i - Len(p)]
  BY <1>3
<1>5. \A i \in 1 .. Len(p \o q) : Sound(A, (p \o q)[i])
  <2> SUFFICES ASSUME NEW i \in 1 .. Len(p \o q) PROVE Sound(A, (p \o q)[i])
    OBVIOUS
  <2>1. CASE i <= Len(p)
    <3>1. i \in 1 .. Len(p)
      BY <1>1, <1>4, <2>1
    <3> QED BY <1>4, <2>1, <3>1 DEF AllSound
  <2>2. CASE ~(i <= Len(p))
    <3>1. i - Len(p) \in 1 .. Len(q)
      BY <1>1, <1>2, <1>4, <2>2
    <3> QED BY <1>4, <2>2, <3>1 DEF AllSound
  <2> QED BY <2>1, <2>2
<1>6. Len(p \o q) <= m + n
  <2>1. Len(p) \in Nat /\ Len(q) \in Nat /\ Len(p) <= m /\ Len(q) <= n
    BY <1>1, <1>2 DEF AllSound
  <2> QED BY <1>4, <2>1
<1> QED BY <1>4, <1>5, <1>6 DEF AllSound, IsSeq

\* The legacy stamp's migration is a sound list.
LEMMA MigrationSound ==
    ASSUME Accounted
    PROVE  AllSound(asked, StampMigration, 1)
<1> DEFINE stamp == file["host"]
           new == [stamp EXCEPT !.baseline = Revision]
<1>1. Known(asked, "host", stamp)
  BY DEF Accounted, File
<1>2. CASE stamp.baseline = 0
  <2>1. Revision \in Nothing .. LastEntry
    BY RecordAssumption DEF Entry, Nothing
  <2> HIDE DEF stamp
  <2>3. new \in Content /\ new.applied = stamp.applied /\ new.baseline = Revision
    BY <1>1, <2>1 DEF Known, Content
  <2> HIDE DEF new
  <2>6. Known(asked, "host", new)
    BY <1>1, <2>3 DEF Known, Accounted, Rooted
  <2>7. Sound(asked, Put("host", new))
    BY <2>6 DEF Sound, Put, File
  <2> QED BY <1>2, <2>7, OneSound DEF StampMigration, stamp, new
<1>3. CASE stamp.baseline # 0
  BY <1>3, NoneSound DEF StampMigration
<1> QED BY <1>2, <1>3

\* Recording a receipt starts a sound command.
LEMMA ReceiptStep ==
    ASSUME Accounted, NEW s \in Session, NEW phase \in Phase, receipt_record(s, phase)
    PROVE  Accounted'
<1> DEFINE r == [phase |-> phase, serial |-> serial + 1]
<1>1. Begin(s, << AddReceipt(r) >>, {r}) /\ UNCHANGED asked
  BY DEF receipt_record
<1>2. serial' \in Nat /\ r \in Receipt
  BY DEF receipt_record, Receipt, Accounted
<1>3. asked' \subseteq Entry
  BY <1>1 DEF Accounted
<1> HIDE DEF r
<1>4. Sound(asked', AddReceipt(r))
  BY <1>2 DEF Sound, AddReceipt, HomeOf, File
<1>5. AllSound(asked', << AddReceipt(r) >>, 3)
  BY <1>4, OneSound DEF AllSound
<1> QED BY <1>1, <1>2, <1>3, <1>5, BeginStep

\* So does any upgrade command that gets as far as the stamp's migration.
LEMMA ListStep ==
    ASSUME Accounted, NEW s \in Session, upgrade_list(s)
    PROVE  Accounted'
<1>1. Begin(s, StampMigration, {}) /\ asked' = asked
  BY DEF upgrade_list
<1>2. AllSound(asked', StampMigration, 3)
  BY <1>1, MigrationSound DEF AllSound
<1>3. asked' \subseteq Entry /\ serial' \in Nat
  BY DEF upgrade_list, Accounted
<1> QED BY <1>1, <1>2, <1>3, BeginStep

\* So does recording an entry, which is asked for from then on.
LEMMA RecordStep ==
    ASSUME Accounted, NEW s \in Session, NEW e \in Entry, NEW via \in Via,
           upgrade_record(s, e, via)
    PROVE  Accounted'
<1> DEFINE a == [entry |-> e, via |-> via]
           todo == StampMigration \o << AddLine(a) >>
<1>1. /\ Begin(s, todo, {a})
      /\ asked' = asked \cup {e}
  BY DEF upgrade_record
<1>2. a \in Line /\ a.entry = e
  BY RecordAssumption DEF Line
<1>3. AllSound(asked', << AddLine(a) >>, 1)
  <2> HIDE DEF a
  <2>1. Sound(asked', AddLine(a))
    BY <1>1, <1>2 DEF Sound, AddLine
  <2> QED BY <2>1, OneSound
<1>4. AllSound(asked', StampMigration, 1)
  BY <1>1, MigrationSound, SoundGrows DEF AllSound
<1>5. AllSound(asked', todo, 3)
  <2>1. AllSound(asked', todo, 1 + 1)
    BY <1>3, <1>4, ConcatSound
  <2> HIDE DEF todo
  <2>2. PICK S : todo \in Seq(S)
    BY <2>1 DEF AllSound, IsSeq
  <2> QED BY <2>1, <2>2 DEF AllSound
<1>6. asked' \subseteq Entry /\ serial' \in Nat
  BY DEF upgrade_record, Accounted
<1> HIDE DEF todo, a
<1> QED BY <1>1, <1>2, <1>5, <1>6, BeginStep

\* So does an advance: it goes over entries that are applied, hence asked.
LEMMA AdvanceStep ==
    ASSUME Accounted, NEW s \in Session, upgrade_advance(s)
    PROVE  Accounted'
<1>1. PICK p \in Entry :
        LET absorbed == {e \in read_applied_ids : e <= p}
        IN  /\ Furthest(p)
            /\ Begin(s, StampMigration \o << Advance(p, absorbed), Absorb(absorbed) >>, {})
  BY DEF upgrade_advance
<1> DEFINE ids == {e \in read_applied_ids : e <= p}
           adv == Advance(p, ids)
           abs == Absorb(ids)
<1>2. Begin(s, StampMigration \o << adv, abs >>, {}) /\ asked' = asked
  BY <1>1 DEF upgrade_advance
<1>3. \A e \in Entry : e <= p => e \in asked
  BY <1>1, AccountedSwept DEF Furthest, NeverSwept
<1> HIDE DEF ids
<1>4. Sound(asked, adv) /\ Sound(asked, abs)
  BY <1>3 DEF Sound, Advance, Absorb, File
<1> HIDE DEF adv, abs
<1>6. AllSound(asked, << adv, abs >>, 2)
  BY <1>4, TwoSound
<1>7. AllSound(asked', StampMigration \o << adv, abs >>, 3)
  <2>1. AllSound(asked', StampMigration \o << adv, abs >>, 1 + 2)
    BY <1>2, <1>6, MigrationSound, ConcatSound
  <2> QED BY <2>1
<1>8. asked' \subseteq Entry /\ serial' \in Nat
  BY DEF upgrade_advance, Accounted
<1> QED BY <1>2, <1>7, <1>8, BeginStep

\* So does a migration: what moves between the files is on record already.
LEMMA MigrateStep ==
    ASSUME Accounted, NEW s \in Session, migrate_receipts(s)
    PROVE  Accounted'
<1> DEFINE log == file["receipts"].log
           operational == only(log, Phase \ Methodology)
           methodology == only(log, Methodology)
           newL == [file["lifecycle"] EXCEPT !.log = @ \o operational]
           newR == [whole |-> TRUE, baseline |-> 0,
                    applied |-> read_applied_lines, log |-> methodology]
           newH == [file["host"] EXCEPT !.applied = {}]
           text == [lifecycle |-> newL, receipts |-> newR, host |-> newH]
           todo == [i \in 1 .. 3 |-> Put(MigrationOrder[i], text[MigrationOrder[i]])]
<1>1. Begin(s, todo, {}) /\ asked' = asked
  BY DEF migrate_receipts
<1>2. \A f \in File : Known(asked, f, file[f])
  BY DEF Accounted
<1>0. log \in Seq(Receipt) /\ operational \in Seq(Receipt) /\ methodology \in Seq(Receipt)
  <2>1. log \in Seq(Receipt)
    BY <1>2 DEF Known, Content, File
  <2> HIDE DEF log
  <2> QED BY <2>1, OnlySome
<1>3. Known(asked, "lifecycle", newL)
  <2>1. Known(asked, "lifecycle", file["lifecycle"])
    BY <1>2 DEF File
  <2>2. file["lifecycle"].log \o operational \in Seq(Receipt)
    BY <2>1, <1>0 DEF Known, Content
  <2>3. newL = [file["lifecycle"] EXCEPT !.log = file["lifecycle"].log \o operational]
    BY <2>1 DEF Known, Content
  <2> HIDE DEF newL, operational
  <2> QED BY <2>1, <2>2, <2>3, LogKnown
<1>4. Known(asked, "receipts", newR)
  <2>1. \A a \in read_applied_lines : a \in Line /\ a.entry \in asked
    BY <1>2 DEF read_applied_lines, Known, Content, File
  <2>2. newR \in Content
    <3> HIDE DEF methodology
    <3> QED BY <1>0, <2>1, RecordAssumption DEF Content, Nothing
  <2> QED BY <2>1, <2>2 DEF Known
<1>5. Known(asked, "host", newH)
  <2>1. Known(asked, "host", file["host"])
    BY <1>2 DEF File
  <2> QED BY <2>1, LinesKnown
<1> HIDE DEF newL, newR, newH
<1>6. \A f \in File : Sound(asked, Put(f, text[f]))
  BY <1>3, <1>4, <1>5 DEF Sound, Put, File
<1>7. \A i \in 1 .. 3 : MigrationOrder[i] \in File
  BY DEF MigrationOrder, File
<1>8. AllSound(asked, todo, 3)
  <2> HIDE DEF text
  <2>1. \A i \in 1 .. 3 : Sound(asked, todo[i])
    BY <1>6, <1>7
  <2>2. todo \in Seq({todo[i] : i \in 1 .. 3}) /\ Len(todo) = 3
    OBVIOUS
  <2> HIDE DEF todo
  <2>3. IsSeq(todo)
    BY <2>2 DEF IsSeq
  <2> QED BY <2>1, <2>2, <2>3 DEF AllSound
<1>9. asked' \subseteq Entry /\ serial' \in Nat
  BY DEF migrate_receipts, Accounted
<1> HIDE DEF todo
<1> QED BY <1>1, <1>8, <1>9, BeginStep

\* The tail of a sequence of two or more.
LEMMA TailFacts ==
    ASSUME NEW S, NEW q \in Seq(S), q # << >>, Len(q) # 1
    PROVE  /\ Tail(q) \in Seq(S)
           /\ Tail(q) # << >>
           /\ \A i \in 1 .. Len(Tail(q)) : i + 1 \in 1 .. Len(q) /\ Tail(q)[i] = q[i + 1]
<1>1. Len(q) \in Nat /\ Len(q) # 0
  OBVIOUS
<1>2. Tail(q) \in Seq(S) /\ Len(Tail(q)) = Len(q) - 1
  OBVIOUS
<1>3. Tail(q) # << >>
  <2> DEFINE t == Tail(q)
  <2>1. Len(t) # 0
    BY <1>1, <1>2
  <2> HIDE DEF t
  <2>2. t # << >>
    BY <2>1
  <2> QED BY <2>2 DEF t
<1>4. \A i \in 1 .. Len(Tail(q)) : i + 1 \in 1 .. Len(q) /\ Tail(q)[i] = q[i + 1]
  BY <1>1, <1>2
<1> QED BY <1>2, <1>3, <1>4

\* What is left of a sound command when its first rewrite is made.
LEMMA OnwardSound ==
    ASSUME NEW A, NEW j, JobSound(A, j), j # Idle
    PROVE  JobSound(A, Onward(j))
<1>1. CASE Len(j.todo) = 1
  BY <1>1, IdleSound DEF Onward
<1>2. CASE Len(j.todo) # 1
  <2>1. PICK S : j.todo \in Seq(S)
    BY DEF JobSound, AllSound, IsSeq
  <2>2. j.todo # << >>
    BY DEF JobSound
  <2>3. /\ Tail(j.todo) \in Seq(S)
        /\ Tail(j.todo) # << >>
        /\ \A i \in 1 .. Len(Tail(j.todo)) : i + 1 \in 1 .. Len(j.todo)
                                             /\ Tail(j.todo)[i] = j.todo[i + 1]
    BY <1>2, <2>1, <2>2, TailFacts
  <2>4. AllSound(A, Tail(j.todo), 3)
    <3>1. IsSeq(Tail(j.todo))
      BY <2>3 DEF IsSeq
    <3>2. Len(Tail(j.todo)) <= 3
      <4>1. Len(j.todo) <= 3
        BY DEF JobSound, AllSound
      <4> QED BY <2>1, <2>2, <4>1
    <3>3. \A i \in 1 .. Len(Tail(j.todo)) : Sound(A, Tail(j.todo)[i])
      BY <2>3 DEF JobSound, AllSound
    <3> QED BY <3>1, <3>2, <3>3 DEF AllSound
  <2>5. Onward(j) = [todo |-> Tail(j.todo), at |-> "read", file |-> j.file,
                     text |-> j.text, says |-> j.says]
    BY <1>2 DEF Onward, JobSound
  <2>6. j.file \in File /\ j.text \in Content /\ j.says \subseteq Receipt \cup Line
    BY DEF JobSound
  <2> DEFINE k == Onward(j)
  <2>7. k = [todo |-> k.todo, at |-> k.at, file |-> k.file, text |-> k.text, says |-> k.says]
    BY <2>5
  <2>8. k.todo = Tail(j.todo) /\ k.at = "read" /\ k.file = j.file /\ k.text = j.text
        /\ k.says = j.says
    BY <2>5
  <2> HIDE DEF k
  <2>9. JobSound(A, k)
    BY <2>3, <2>4, <2>6, <2>7, <2>8 DEF JobSound
  <2> QED BY <2>9 DEF k
<1> QED BY <1>1, <1>2

\* A step that puts one session's command in a new sound state, and the files
\* and temporaries in known ones, keeps the project accounted.
LEMMA MoveStep ==
    ASSUME Accounted, NEW s \in Session, NEW new, asked' = asked, serial' = serial,
           told' \subseteq Receipt \cup Line,
           job' = [job EXCEPT ![s] = new], JobSound(asked, new),
           file' = [f \in File |-> file'[f]],
           \A f \in File : Known(asked, f, file'[f]),
           tmp' = [f \in File |-> tmp'[f]],
           \A f \in File : tmp'[f] = Absent \/ Known(asked, f, tmp'[f])
    PROVE  Accounted'
<1>1. job' = [x \in Session |-> job'[x]] /\ \A x \in Session : job'[x] \in {job[x], new}
  BY DEF Accounted
<1>2. \A x \in Session : JobSound(asked', job'[x])
  BY <1>1 DEF Accounted
<1>3. Rooted(asked')
  BY DEF Accounted
<1> QED BY <1>1, <1>2, <1>3 DEF Accounted

\* A step that only ends a command.
LEMMA EndStep ==
    ASSUME Accounted, NEW s \in Session, UNCHANGED <<file, tmp, serial, asked, told>>,
           job' = [job EXCEPT ![s] = Idle]
    PROVE  Accounted'
<1>1. file' = [f \in File |-> file'[f]] /\ tmp' = [f \in File |-> tmp'[f]]
  BY DEF Accounted
<1>2. \A f \in File : Known(asked, f, file'[f]) /\ (tmp'[f] = Absent \/ Known(asked, f, tmp'[f]))
  BY DEF Accounted
<1>3. told' \subseteq Receipt \cup Line
  BY DEF Accounted
<1> QED BY <1>1, <1>2, <1>3, IdleSound, MoveStep

\* What a busy session has in hand.
LEMMA BusyHand ==
    ASSUME Accounted, NEW s \in Session, Busy(s)
    PROVE  /\ JobSound(asked, job[s])
           /\ job[s].todo # << >>
           /\ Sound(asked, Head(job[s].todo))
<1>1. JobSound(asked, job[s]) /\ job[s].todo # << >>
  BY DEF Accounted, Busy, JobSound
<1>2. PICK S : job[s].todo \in Seq(S)
  BY <1>1 DEF JobSound, AllSound, IsSeq
<1>3. Head(job[s].todo) = job[s].todo[1] /\ 1 \in 1 .. Len(job[s].todo)
  BY <1>1, <1>2
<1> QED BY <1>1, <1>3 DEF JobSound, AllSound

\* A command that has read a file and worked out a known text for it.
LEMMA TextRead ==
    ASSUME NEW A, NEW j, JobSound(A, j), j # Idle,
           NEW f \in File, NEW text, Known(A, f, text)
    PROVE  JobSound(A, [j EXCEPT !.at = "open", !.file = f, !.text = text])
<1>1. j = [todo |-> j.todo, at |-> j.at, file |-> j.file, text |-> j.text, says |-> j.says]
  BY DEF JobSound
<1> DEFINE opened == [j EXCEPT !.at = "open"]
           placed == [opened EXCEPT !.file = f]
           read == [placed EXCEPT !.text = text]
<1>2. opened = [todo |-> j.todo, at |-> "open", file |-> j.file, text |-> j.text, says |-> j.says]
  BY <1>1
<1> HIDE DEF opened
<1>3. placed = [todo |-> j.todo, at |-> "open", file |-> f, text |-> j.text, says |-> j.says]
  BY <1>2
<1> HIDE DEF placed
<1>4. read = [todo |-> j.todo, at |-> "open", file |-> f, text |-> text, says |-> j.says]
  BY <1>3
<1> HIDE DEF read
<1>5. JobSound(A, read)
  <2>1. AllSound(A, j.todo, 3) /\ (j # Idle => j.todo # << >>) /\ j.says \subseteq Receipt \cup Line
    BY DEF JobSound
  <2>2. text \in Content
    BY DEF Known
  <2>3. read = [todo |-> read.todo, at |-> read.at, file |-> read.file, text |-> read.text,
                says |-> read.says]
        /\ read.todo = j.todo /\ read.at = "open" /\ read.file = f /\ read.text = text
        /\ read.says = j.says
    BY <1>4
  <2> QED BY <2>1, <2>2, <2>3 DEF JobSound
<1> QED BY <1>5 DEF opened, placed, read

\* Reading a file makes a known text of it.
LEMMA ReadStep ==
    ASSUME Accounted, NEW s \in Session, Read(s)
    PROVE  Accounted'
<1> DEFINE w == Head(job[s].todo)
           f == FileOf(w)
           text == Rewritten(w, file[f])
           j == job[s]
           read == [j EXCEPT !.at = "open", !.file = f, !.text = text]
<1>1. Busy(s) /\ UNCHANGED <<file, tmp, serial, asked>>
  BY DEF Read, At
<1>2. JobSound(asked, j) /\ j # Idle /\ j.todo # << >> /\ Sound(asked, w)
  BY <1>1, BusyHand DEF Busy
<1>3. f \in File /\ Known(asked, f, text)
  BY <1>2, RewrittenKnown
<1>4. job = [x \in Session |-> job[x]]
  BY DEF Accounted
<1>5. job' = [job EXCEPT ![s] = Onward(j)] \/ job' = [job EXCEPT ![s] = read]
  BY <1>4 DEF Read
<1> HIDE DEF f, text, w
<1> HIDE DEF j
<1>6. JobSound(asked, read)
  BY <1>2, <1>3, TextRead
<1>7. JobSound(asked, Onward(j))
  BY <1>2, OnwardSound
<1>0. told' \subseteq Receipt \cup Line
  BY <1>2 DEF Read, Exits, Accounted, JobSound, j
<1>8. file' = [x \in File |-> file'[x]] /\ tmp' = [x \in File |-> tmp'[x]]
  BY <1>1 DEF Accounted
<1>9. \A x \in File : Known(asked, x, file'[x]) /\ (tmp'[x] = Absent \/ Known(asked, x, tmp'[x]))
  BY <1>1 DEF Accounted
<1> HIDE DEF read
<1> QED BY <1>0, <1>1, <1>5, <1>6, <1>7, <1>8, <1>9, MoveStep

\* A command one step on.
LEMMA AtElsewhere ==
    ASSUME NEW j, NEW at,
           j = [todo |-> j.todo, at |-> j.at, file |-> j.file, text |-> j.text, says |-> j.says]
    PROVE  [j EXCEPT !.at = at] =
             [todo |-> j.todo, at |-> at, file |-> j.file, text |-> j.text, says |-> j.says]
OBVIOUS

\* Where a command has got to within a rewrite does not matter.
LEMMA MovedSound ==
    ASSUME NEW A, NEW j, JobSound(A, j), j # Idle, j.at # "read",
           NEW at \in {"read", "open", "fill", "fill over", "fill nothing", "rename"}
    PROVE  JobSound(A, [j EXCEPT !.at = at])
<1>1. j = [todo |-> j.todo, at |-> j.at, file |-> j.file, text |-> j.text, says |-> j.says]
  BY DEF JobSound
<1> DEFINE k == [j EXCEPT !.at = at]
<1>2. k = [todo |-> j.todo, at |-> at, file |-> j.file, text |-> j.text, says |-> j.says]
  BY <1>1, AtElsewhere
<1> HIDE DEF k
<1>3. k = [todo |-> k.todo, at |-> k.at, file |-> k.file, text |-> k.text, says |-> k.says]
      /\ k.todo = j.todo /\ k.at = at /\ k.file = j.file /\ k.text = j.text /\ k.says = j.says
  BY <1>2
<1>4. JobSound(A, k)
  BY <1>3 DEF JobSound
<1> QED BY <1>4 DEF k

\* A session that stands at a step of write_atomic holds a known text.
LEMMA MidWrite ==
    ASSUME Accounted, NEW s \in Session, NEW step, At(s, step), step # "read",
           NEW next \in {"open", "fill", "rename"}, Move(s, next)
    PROVE  /\ job[s].file \in File
           /\ Known(asked, job[s].file, job[s].text)
           /\ JobSound(asked, [job[s] EXCEPT !.at = next])
           /\ job' = [job EXCEPT ![s] = [job[s] EXCEPT !.at = next]]
<1>1. JobSound(asked, job[s]) /\ job[s] # Idle /\ job[s].at # "read"
  BY BusyHand DEF At, Busy
<1>2. job = [x \in Session |-> job[x]]
  BY DEF Accounted
<1>3. JobSound(asked, [job[s] EXCEPT !.at = next])
  BY <1>1, MovedSound
<1>4. job' = [job EXCEPT ![s] = [job[s] EXCEPT !.at = next]]
  BY <1>2 DEF Move
<1> QED BY <1>1, <1>3, <1>4 DEF JobSound

\* Truncating the temporary leaves a beginning of a known text.
LEMMA OpenStep ==
    ASSUME Accounted, NEW s \in Session, Open(s)
    PROVE  Accounted'
<1>1. At(s, "open") /\ Move(s, "fill") /\ UNCHANGED <<file, serial, asked, told>>
      /\ \E c \in Cuts(job[s].text) : tmp' = [tmp EXCEPT ![job[s].file] = c]
  BY DEF Open
<1>2. /\ job[s].file \in File /\ Known(asked, job[s].file, job[s].text)
      /\ JobSound(asked, [job[s] EXCEPT !.at = "fill"])
      /\ job' = [job EXCEPT ![s] = [job[s] EXCEPT !.at = "fill"]]
  BY <1>1, MidWrite
<1>3. file' = [x \in File |-> file'[x]] /\ tmp' = [x \in File |-> tmp'[x]]
  BY <1>1 DEF Accounted
<1>4. \A x \in File : Known(asked, x, file'[x])
  BY <1>1 DEF Accounted
<1>5. \A x \in File : tmp'[x] = Absent \/ Known(asked, x, tmp'[x])
  <2>1. PICK c \in Cuts(job[s].text) : tmp' = [tmp EXCEPT ![job[s].file] = c]
    BY <1>1
  <2>2. Known(asked, job[s].file, c)
    BY <1>2, CutKnown
  <2> QED BY <2>1, <2>2 DEF Accounted
<1>6. told' \subseteq Receipt \cup Line
  BY <1>1 DEF Accounted
<1> QED BY <1>1, <1>2, <1>3, <1>4, <1>5, <1>6, MoveStep

\* What ends up written is the known text in hand, or that with the tail of another.
LEMMA FilledKnown ==
    ASSUME NEW A, NEW f, NEW old, Known(A, f, old) \/ old = Absent,
           NEW text, Known(A, f, text), NEW c \in Filled(old, text)
    PROVE  Known(A, f, c)
BY MixedKnown DEF Filled

\* Writing through the handle keeps temporaries and files known.
LEMMA FillStep ==
    ASSUME Accounted, NEW s \in Session, Fill(s)
    PROVE  Accounted'
<1>1. Move(s, "rename") /\ UNCHANGED <<serial, asked, told>>
  BY DEF Fill
<1>2. PICK step \in {"fill", "fill over", "fill nothing"} : At(s, step)
  BY DEF Fill
<1>3. /\ job[s].file \in File
      /\ Known(asked, job[s].file, job[s].text)
      /\ JobSound(asked, [job[s] EXCEPT !.at = "rename"])
      /\ job' = [job EXCEPT ![s] = [job[s] EXCEPT !.at = "rename"]]
  BY <1>1, <1>2, MidWrite
<1>4. /\ file' = [x \in File |-> file'[x]]
      /\ tmp' = [x \in File |-> tmp'[x]]
      /\ \A x \in File : \/ file'[x] = file[x]
                         \/ x = job[s].file /\ file'[x] \in Filled(file[x], job[s].text)
      /\ \A x \in File : \/ tmp'[x] = tmp[x]
                         \/ x = job[s].file /\ tmp'[x] \in Filled(tmp[x], job[s].text)
  BY DEF Fill, Accounted
<1>5. \A x \in File : Known(asked, x, file'[x])
  BY <1>3, <1>4, FilledKnown DEF Accounted
<1>6. \A x \in File : tmp'[x] = Absent \/ Known(asked, x, tmp'[x])
  BY <1>3, <1>4, FilledKnown DEF Accounted
<1>7. told' \subseteq Receipt \cup Line
  BY <1>1 DEF Accounted
<1> QED BY <1>1, <1>3, <1>4, <1>5, <1>6, <1>7, MoveStep

\* A rename makes a known temporary the file, whoever filled it; the handles
\* of other sessions move, what they are to write does not.
LEMMA RenameStep ==
    ASSUME Accounted, NEW s \in Session, Rename(s)
    PROVE  Accounted'
<1> DEFINE f == job[s].file
<1>1. /\ At(s, "rename")
      /\ tmp[f] # Absent
      /\ file' = [file EXCEPT ![f] = tmp[f]]
      /\ tmp' = [tmp EXCEPT ![f] = Absent]
      /\ job' = [x \in Session |-> IF x = s THEN Onward(job[s]) ELSE Renamed(f, job[x])]
      /\ asked' = asked /\ serial' = serial
  BY DEF Rename
<1>2. JobSound(asked, job[s]) /\ job[s] # Idle /\ job[s].at # "read"
  BY <1>1, BusyHand DEF At, Busy
<1>3. f \in File
  BY <1>2 DEF JobSound
<1>4. \A x \in File : Known(asked, x, file'[x])
  BY <1>1, <1>3 DEF Accounted
<1>5. \A x \in File : tmp'[x] = Absent \/ Known(asked, x, tmp'[x])
  BY <1>1, <1>3 DEF Accounted
<1>6. file' = [x \in File |-> file'[x]] /\ tmp' = [x \in File |-> tmp'[x]]
  BY <1>1 DEF Accounted
<1>7. JobSound(asked, Onward(job[s]))
  BY <1>2, OnwardSound
<1> HIDE DEF f
<1>8. \A x \in Session : JobSound(asked, Renamed(f, job[x]))
  <2> SUFFICES ASSUME NEW x \in Session PROVE JobSound(asked, Renamed(f, job[x]))
    OBVIOUS
  <2>1. JobSound(asked, job[x])
    BY DEF Accounted
  <2>2. Idle.at = "read"
    BY DEF Idle, Command
  <2>3. CASE job[x].at \in {"fill", "fill over"}
    <3> DEFINE j == job[x]
               over == [j EXCEPT !.at = "fill over"]
               nothing == [j EXCEPT !.at = "fill nothing"]
    <3>1. j # Idle /\ j.at # "read"
      BY <2>2, <2>3
    <3>2. Renamed(f, j) \in {j, over, nothing}
      BY <2>3 DEF Renamed
    <3> HIDE DEF j
    <3>3. JobSound(asked, over) /\ JobSound(asked, nothing) /\ JobSound(asked, j)
      BY <2>1, <3>1, MovedSound DEF j
    <3> HIDE DEF over, nothing
    <3>4. JobSound(asked, Renamed(f, j))
      BY <3>2, <3>3
    <3> QED BY <3>4 DEF j
  <2>4. CASE job[x].at \notin {"fill", "fill over"}
    <3>1. Renamed(f, job[x]) = job[x]
      BY <2>4 DEF Renamed
    <3> QED BY <2>1, <3>1
  <2> QED BY <2>3, <2>4
<1>9. job' = [x \in Session |-> job'[x]] /\ \A x \in Session : JobSound(asked', job'[x])
  BY <1>1, <1>7, <1>8
<1>10. told' \subseteq Receipt \cup Line
  BY <1>2 DEF Rename, Exits, Accounted, JobSound
<1>11. Rooted(asked')
  BY <1>1 DEF Accounted
<1> QED BY <1>1, <1>4, <1>5, <1>6, <1>9, <1>10, <1>11 DEF Accounted

\* At first only what is applied is asked.
LEMMA InitAccounted == Init => Accounted
<1> SUFFICES ASSUME Init PROVE Accounted
  OBVIOUS
<1>1. PICK base \in {0} \cup Revision .. LastEntry,
           lines \in SUBSET [entry : Entry, via : {"satisfied"}], log \in LegacyLogs :
        file = [host      |-> [Blank EXCEPT !.baseline = base, !.applied = lines],
                receipts  |-> [Blank EXCEPT !.log = log],
                lifecycle |-> Blank]
        /\ told = {log[i] : i \in DOMAIN log}
  BY DEF Init
<1>2. /\ tmp = [f \in File |-> Absent]
      /\ job = [s \in Session |-> Idle]
      /\ asked = Applied
  BY DEF Init
<1>10. log \in Seq(Receipt)
  <2>1. << >> \in Seq(Receipt)
    OBVIOUS
  <2>2. ASSUME NEW p \in Phase PROVE << [phase |-> p, serial |-> 0] >> \in Seq(Receipt)
    <3> DEFINE r == [phase |-> p, serial |-> 0]
    <3>1. r \in Receipt
      BY DEF Receipt
    <3> HIDE DEF r
    <3>2. << r >> \in Seq(Receipt)
      BY <3>1
    <3> QED BY <3>2 DEF r
  <2> QED BY <2>1, <2>2 DEF LegacyLogs
<1> DEFINE host == [Blank EXCEPT !.baseline = base, !.applied = lines]
           receipts == [Blank EXCEPT !.log = log]
<1>3. host \in Content /\ receipts \in Content /\ Blank \in Content
      /\ host.applied = lines /\ host.baseline = base /\ receipts.applied = {} /\ Blank.applied = {}
  <2>1. lines \in SUBSET Line
    BY RecordAssumption DEF Line
  <2>2. Blank = [whole |-> TRUE, baseline |-> 0, applied |-> {}, log |-> << >>]
        /\ 0 \in Nothing .. LastEntry /\ base \in Nothing .. LastEntry
    BY RecordAssumption DEF Blank, Nothing, Entry
  <2>3. Blank \in Content /\ Blank.applied = {}
    BY <2>2 DEF Content
  <2> DEFINE based == [Blank EXCEPT !.baseline = base]
  <2>4. based \in Content
    BY <2>2, <2>3 DEF Content
  <2>5. host = [based EXCEPT !.applied = lines]
    BY DEF based
  <2> HIDE DEF host
  <2>8. based.baseline = base
    BY <2>3 DEF based, Content
  <2> HIDE DEF based
  <2>6. host \in Content /\ host.applied = lines /\ host.baseline = base
    BY <2>1, <2>4, <2>5, <2>8 DEF Content
  <2>7. receipts \in Content /\ receipts.applied = {}
    BY <1>10, <2>3 DEF Content
  <2> QED BY <2>3, <2>6, <2>7
<1>4. file["host"] = host /\ file["receipts"] = receipts /\ file["lifecycle"] = Blank
      /\ file = [f \in File |-> file[f]]
  BY <1>1 DEF File
<1> HIDE DEF host, receipts
<1>5. Known(asked, "host", host)
  <2>1. \A a \in lines : a.entry \in Applied
    BY <1>3, <1>4 DEF Applied, entry_applied, read_applied_ids, read_applied_lines
  <2>2. \A e \in Entry : e <= host.baseline => e \in Applied
    <3>1. CASE base = 0
      BY <1>3, <3>1, RecordAssumption DEF Entry
    <3>2. CASE base # 0
      BY <1>3, <1>4, <3>2 DEF Applied, entry_applied, baseline_of
    <3> QED BY <3>1, <3>2
  <2> QED BY <1>2, <1>3, <2>1, <2>2 DEF Known
<1>6. \A f \in File : Known(asked, f, file[f])
  BY <1>3, <1>4, <1>5 DEF Known, File
<1>11. Rooted(asked)
  <2>1. Revision <= baseline_of(file["host"])
    BY <1>3, <1>4, RecordAssumption DEF baseline_of, Entry
  <2>2. baseline_of(file["host"]) \in Int
    BY <1>3, <1>4, RecordAssumption DEF baseline_of, Entry
  <2> QED BY <1>2, <2>1, <2>2, RecordAssumption DEF Rooted, Applied, entry_applied, Entry
<1>7. \A s \in Session : JobSound(asked, Idle)
  BY IdleSound
<1>8. serial \in Nat /\ asked \subseteq Entry
  BY DEF Init, Applied
<1>9. told \subseteq Receipt \cup Line
  BY <1>1, <1>10
<1> QED BY <1>2, <1>4, <1>6, <1>7, <1>8, <1>9, <1>11 DEF Accounted

\* Every step of any number of sessions keeps the project accounted.
LEMMA NextAccounted == Accounted /\ [Next]_vars => Accounted'
<1> SUFFICES ASSUME Accounted, [Next]_vars PROVE Accounted'
  OBVIOUS
<1>1. CASE UNCHANGED vars
  BY <1>1 DEF Accounted, Rooted, vars
<1>2. ASSUME NEW s \in Session, Start(s) PROVE Accounted'
  BY <1>2, ReceiptStep, ListStep, RecordStep, AdvanceStep, MigrateStep DEF Start
<1>3. ASSUME NEW s \in Session, Step(s) PROVE Accounted'
  <2>1. CASE RenameFails(s)
    BY <2>1, EndStep DEF RenameFails
  <2> QED BY <1>3, <2>1, ReadStep, OpenStep, FillStep, RenameStep DEF Step
<1>4. ASSUME NEW s \in Session, Crash(s) PROVE Accounted'
  BY <1>4, EndStep DEF Crash
<1> QED BY <1>1, <1>2, <1>3, <1>4 DEF Next

\* However many sessions run upgrade, receipt and migrate commands at once, lose
\* each other's rewrites and die on the way, no entry is applied that was neither
\* applied at first nor recorded by a command that found its prerequisites
\* applied.
THEOREM NothingSwept == Spec => []NeverSwept
<1>1. Spec => []Accounted
  BY InitAccounted, NextAccounted, PTL DEF Spec
<1> QED BY <1>1, AccountedSwept, PTL

-----------------------------------------------------------------------------
(* One command at a time.  What a command has still to rewrite (Fits), read *)
(* against the files as they stand: everything it relies on was true when   *)
(* it started and none of its own rewrites undoes it.                       *)

OneAtATime == \A s, t \in Session : s = t

Logged == Range(file["receipts"].log) \cup Range(file["lifecycle"].log)

\* The legacy stamp is about to be given the baseline its revision stands for.
Stamps(w) ==
    /\ file["host"].baseline = 0
    /\ w = Put("host", [file["host"] EXCEPT !.baseline = Revision])

Receipts(w, says) ==
    /\ w.edit = "receipt" /\ w = AddReceipt(w.receipt)
    /\ w.receipt \in Receipt /\ says = {w.receipt}

\* An entry is about to be recorded, which can be.
Records(w, says) ==
    /\ w.edit = "line" /\ w = AddLine(w.line)
    /\ w.line \in Line /\ says = {w.line}
    /\ w.line.entry \notin Applied
    /\ Depends[w.line.entry] \subseteq Applied

\* The baseline is about to go over applied entries only, and no line above it
\* is about to be dropped.
Advances(v, w) ==
    /\ v.edit = "advance" /\ v = Advance(v.upto, v.ids) /\ w = Absorb(v.ids)
    /\ v.upto \in Entry /\ v.ids = {e \in read_applied_ids : e <= v.upto}
    /\ \A e \in Entry : e <= v.upto => e \in Applied
    /\ baseline_of(file["host"]) <= v.upto

Absorbs(w) ==
    /\ w.edit = "absorb" /\ w = Absorb(w.ids)
    /\ \A e \in w.ids : e <= baseline_of(file["host"])

\* The stamp is about to shed its lines.
Sheds(w) == w = Put("host", [file["host"] EXCEPT !.applied = {}])
Copied == file["host"].applied \subseteq file["receipts"].applied

\* `.host-receipts` is about to take the lines and shed the operational receipts.
Regroups(w) ==
    /\ w.edit = "put" /\ w = Put("receipts", w.text)
    /\ w.text.whole /\ w.text.applied = read_applied_lines
    /\ Range(w.text.log) = {r \in Range(file["receipts"].log) : r.phase \in Methodology}

\* ... which a log holds.
Rehomed(log) ==
    \A r \in Range(file["receipts"].log) : r.phase \in Methodology \/ r \in Range(log)

Rehomes(w) ==
    /\ w.edit = "put" /\ w = Put("lifecycle", w.text)
    /\ w.text.whole /\ Range(file["lifecycle"].log) \subseteq Range(w.text.log)
    /\ Rehomed(w.text.log)

Fits(todo, says) ==
    \/ /\ Len(todo) = 1
       /\ Receipts(todo[1], says) \/ Records(todo[1], says)
    \/ /\ Len(todo) = 1 /\ says = {}
       /\ Stamps(todo[1]) \/ Absorbs(todo[1]) \/ (Copied /\ Sheds(todo[1]))
    \/ Len(todo) = 2 /\ Stamps(todo[1]) /\ Records(todo[2], says)
    \/ /\ Len(todo) = 2 /\ says = {}
       /\ \/ Advances(todo[1], todo[2])
          \/ Rehomed(file["lifecycle"].log) /\ Regroups(todo[1]) /\ Sheds(todo[2])
    \/ /\ Len(todo) = 3 /\ says = {}
       /\ \/ Stamps(todo[1]) /\ Advances(todo[2], todo[3])
          \/ Rehomes(todo[1]) /\ Regroups(todo[2]) /\ Sheds(todo[3])

\* A command under way, and how far it is with the rewrite at its head.
Hand(j) ==
    /\ j.at \in {"read", "open", "fill", "rename"}
    /\ j # Idle => Fits(j.todo, j.says)
    /\ j.at # "read" => /\ j.file = FileOf(j.todo[1])
                        /\ j.text = Rewritten(j.todo[1], file[j.file])
    /\ j.at = "fill" => tmp[j.file] \in Cuts(j.text)
    /\ j.at = "rename" => tmp[j.file] = j.text

Alone == FilesWhole /\ ReportedKept /\ \A s \in Session : Hand(job[s])

\* The rewrite w is made.
Made(w) == file' = [file EXCEPT ![FileOf(w)] = Rewritten(w, file[FileOf(w)])]

\* What making one must keep.
Grown ==
    \/ Applied' = Applied
    \/ \E e \in Entry : /\ e \notin Applied /\ Depends[e] \subseteq Applied
                        /\ Applied' = Applied \cup {e}
Kept ==
    /\ FilesWhole'
    /\ Grown
    /\ Logged \subseteq Logged'
    /\ NewLayout => NewLayout'

SaidHolds(says) ==
    \A c \in says : IF c \in Receipt THEN c \in Logged ELSE c.entry \in Applied

\* However many sessions overlap, files, temporaries and commands hold what they
\* can hold.
LEMMA AccountedTyped == Accounted => TypeOK
<1> SUFFICES ASSUME Accounted PROVE TypeOK
  OBVIOUS
<1>1. file \in [File -> Content]
  BY DEF Accounted, Known
<1>2. \A f \in File : tmp[f] = Absent \/ tmp[f] \in Content
  BY DEF Accounted, Known
<1>3. ASSUME NEW s \in Session
      PROVE  /\ job[s].at \in {"read", "open", "fill", "fill over", "fill nothing", "rename"}
             /\ job[s].file \in File
             /\ job[s].text \in Content
             /\ job[s].says \subseteq Receipt \cup Line
             /\ Len(job[s].todo) <= 3
  <2>1. JobSound(asked, job[s])
    BY DEF Accounted
  <2> QED BY <2>1 DEF JobSound, AllSound
<1>4. serial \in Nat /\ asked \subseteq Entry /\ told \subseteq Receipt \cup Line
  BY DEF Accounted
<1> QED BY <1>1, <1>2, <1>3, <1>4 DEF TypeOK, Content

\* The receipts on record are those of the two logs.
LEMMA ConcatRange ==
    ASSUME NEW R, NEW p \in Seq(R), NEW q \in Seq(R)
    PROVE  Range(p \o q) = Range(p) \cup Range(q)
<1>1. /\ DOMAIN p = 1 .. Len(p) /\ DOMAIN q = 1 .. Len(q)
      /\ Len(p) \in Nat /\ Len(q) \in Nat
      /\ DOMAIN (p \o q) = 1 .. Len(p) + Len(q)
  OBVIOUS
<1>2. \A i \in 1 .. Len(p) : (p \o q)[i] = p[i]
  OBVIOUS
<1>3. \A i \in 1 .. Len(q) : (p \o q)[Len(p) + i] = q[i]
  OBVIOUS
<1>4. \A i \in 1 .. Len(p) + Len(q) : \/ i \in 1 .. Len(p)
                                      \/ i - Len(p) \in 1 .. Len(q) /\ i = Len(p) + (i - Len(p))
  BY <1>1
<1>5. ASSUME NEW x \in Range(p \o q) PROVE x \in Range(p) \cup Range(q)
  <2>1. PICK i \in 1 .. Len(p) + Len(q) : x = (p \o q)[i]
    BY <1>1 DEF Range
  <2>2. CASE i \in 1 .. Len(p)
    BY <1>1, <1>2, <2>1, <2>2 DEF Range
  <2>3. CASE i - Len(p) \in 1 .. Len(q) /\ i = Len(p) + (i - Len(p))
    <3>1. x = q[i - Len(p)]
      BY <1>3, <2>1, <2>3
    <3> QED BY <1>1, <2>3, <3>1 DEF Range
  <2> QED BY <1>4, <2>2, <2>3
<1>6. ASSUME NEW x \in Range(p) PROVE x \in Range(p \o q)
  <2>1. PICK i \in 1 .. Len(p) : x = p[i]
    BY <1>1, <1>6 DEF Range
  <2>2. i \in 1 .. Len(p) + Len(q) /\ x = (p \o q)[i]
    BY <1>1, <1>2, <2>1
  <2> QED BY <1>1, <2>2 DEF Range
<1>7. ASSUME NEW x \in Range(q) PROVE x \in Range(p \o q)
  <2>1. PICK i \in 1 .. Len(q) : x = q[i]
    BY <1>1, <1>7 DEF Range
  <2>2. Len(p) + i \in 1 .. Len(p) + Len(q) /\ x = (p \o q)[Len(p) + i]
    BY <1>1, <1>3, <2>1
  <2> QED BY <1>1, <2>2 DEF Range
<1> QED BY <1>5, <1>6, <1>7

\* What the files hold in an accounted project.
LEMMA FilesTyped ==
    ASSUME Accounted
    PROVE  /\ DOMAIN file = File
           /\ file["host"] \in Content /\ file["receipts"] \in Content
           /\ file["lifecycle"] \in Content
           /\ file["receipts"].log \in Seq(Receipt) /\ file["lifecycle"].log \in Seq(Receipt)
<1>1. \A f \in File : file[f] \in Content
  BY DEF Accounted, Known
<1>2. DOMAIN file = File
  BY DEF Accounted
<1> QED BY <1>1, <1>2 DEF File, Content

\* What is reported is on record just when it is kept.
LEMMA ReportedMeans == ASSUME Accounted PROVE ReportedKept <=> SaidHolds(told)
<1>1. Range(read_all_receipts) = Logged
  BY FilesTyped, ConcatRange DEF read_all_receipts, Logged
<1> QED BY <1>1 DEF ReportedKept, SaidHolds

\* ... and so it is after a step.
LEMMA ReportedMeansNext == (Accounted => (ReportedKept <=> SaidHolds(told)))'
<1>1. Accounted => (ReportedKept <=> SaidHolds(told))
  <2> SUFFICES ASSUME Accounted PROVE ReportedKept <=> SaidHolds(told)
    OBVIOUS
  <2> QED BY ReportedMeans
<1> QED BY <1>1, PTL

\* Making a rewrite changes one file.
LEMMA MadeFiles ==
    ASSUME Accounted, NEW w, Made(w), NEW f \in File, FileOf(w) = f
    PROVE  /\ file'[f] = Rewritten(w, file[f])
           /\ \A g \in File : g # f => file'[g] = file[g]
BY FilesTyped DEF Made

\* The two files with applied lines, and what follows from them.
LEMMA AppliedFrom ==
    ASSUME baseline_of(file["host"])' = baseline_of(file["host"]),
           read_applied_ids' = read_applied_ids
    PROVE  Applied' = Applied
BY DEF Applied

\* The lines of the two files are what is read.
LEMMA IdsFrom ==
    ASSUME read_applied_lines' = read_applied_lines
    PROVE  read_applied_ids' = read_applied_ids
BY DEF read_applied_ids

\* A stamp given its baseline makes the same entries applied.
LEMMA StampsMade ==
    ASSUME Accounted, FilesWhole, NEW w, Stamps(w), Made(w)
    PROVE  /\ Kept
           /\ Applied' = Applied /\ read_applied_ids' = read_applied_ids
           /\ baseline_of(file["host"])' = baseline_of(file["host"])
<1> DEFINE stamp == file["host"]
           new == [stamp EXCEPT !.baseline = Revision]
<1>1. w = Put("host", new) /\ stamp.baseline = 0
  BY DEF Stamps
<1>2. FileOf(w) = "host" /\ Rewritten(w, stamp) = new
  BY <1>1 DEF FileOf, Put, Rewritten
<1>3. file'["host"] = new /\ file'["receipts"] = file["receipts"]
      /\ file'["lifecycle"] = file["lifecycle"]
  BY <1>2, MadeFiles DEF File
<1>4. stamp \in Content /\ stamp.whole
  BY FilesTyped DEF FilesWhole, File
<1>5. new.whole /\ new.applied = stamp.applied /\ new.baseline = Revision
  <2> HIDE DEF stamp
  <2> QED BY <1>4 DEF Content
<1> HIDE DEF new
<1>6. FilesWhole'
  BY <1>3, <1>5 DEF FilesWhole, File
<1>7. baseline_of(file["host"])' = baseline_of(file["host"])
  BY <1>1, <1>3, <1>4, <1>5 DEF baseline_of
<1>8. read_applied_lines' = read_applied_lines
  BY <1>3, <1>5 DEF read_applied_lines
<1>9. Applied' = Applied /\ read_applied_ids' = read_applied_ids
  BY <1>7, <1>8, AppliedFrom, IdsFrom
<1>10. Logged' = Logged /\ (NewLayout => NewLayout')
  BY <1>3, <1>5 DEF Logged, NewLayout
<1> QED BY <1>6, <1>7, <1>9, <1>10 DEF Kept, Grown

\* A receipt more.
LEMMA ReceiptsMade ==
    ASSUME Accounted, FilesWhole, NEW w, NEW says, Receipts(w, says), Made(w)
    PROVE  Kept /\ SaidHolds(says)'
<1>1. PICK r \in Receipt : w = AddReceipt(r) /\ says = {r}
  BY DEF Receipts
<1>2. PICK f \in {"receipts", "lifecycle"} :
        f = HomeOf(r) /\ (f = "receipts" => r.phase \in Methodology)
  BY DEF HomeOf, is_methodology_phase
<1>3. FileOf(w) = f /\ w.edit = "receipt" /\ w.receipt = r
  BY <1>1, <1>2 DEF FileOf, AddReceipt
<1>4. f \in File
  BY <1>2 DEF File
<1>5. file'[f] = [file[f] EXCEPT !.log = Append(@, r)]
      /\ \A g \in File : g # f => file'[g] = file[g]
  BY <1>3, <1>4, MadeFiles DEF Rewritten
<1>6. file[f] \in Content /\ file[f].whole
  BY <1>2, FilesTyped DEF FilesWhole, File
<1>7. file'[f].whole /\ file'[f].applied = file[f].applied /\ file'[f].baseline = file[f].baseline
      /\ file'[f].log = Append(file[f].log, r)
  BY <1>5, <1>6 DEF Content
<1>8. Range(file'[f].log) = Range(file[f].log) \cup {r}
  BY <1>6, <1>7, AppendRange DEF Content
<1>9. FilesWhole'
  BY <1>5, <1>7 DEF FilesWhole
<1>10. file'["host"] = file["host"]
  BY <1>2, <1>5 DEF File
<1>11. file'["receipts"].applied = file["receipts"].applied
  BY <1>2, <1>5, <1>7 DEF File
<1>12. baseline_of(file["host"])' = baseline_of(file["host"])
       /\ read_applied_lines' = read_applied_lines
  BY <1>10, <1>11 DEF baseline_of, read_applied_lines
<1>13. Applied' = Applied
  BY <1>12, AppliedFrom, IdsFrom
<1>14. Logged' = Logged \cup {r}
  BY <1>2, <1>5, <1>8 DEF Logged, File
<1>15. NewLayout => NewLayout'
  <2>1. CASE f = "receipts"
    BY <1>2, <1>8, <1>10, <2>1 DEF NewLayout, is_methodology_phase
  <2>2. CASE f = "lifecycle"
    BY <1>5, <1>10, <2>2 DEF NewLayout, File
  <2> QED BY <1>2, <2>1, <2>2
<1>16. SaidHolds(says)'
  BY <1>1, <1>14 DEF SaidHolds
<1> QED BY <1>9, <1>13, <1>14, <1>15, <1>16 DEF Kept, Grown

\* An applied line is not a receipt.
LEMMA LineNoReceipt == ASSUME NEW a \in Line PROVE a \notin Receipt
<1>1. DOMAIN a = {"entry", "via"}
  BY DEF Line
<1>2. a \in Receipt => DOMAIN a = {"phase", "serial"}
  BY DEF Receipt
<1> QED BY <1>1, <1>2

\* An applied line more, of an entry that may be recorded.
LEMMA RecordsMade ==
    ASSUME Accounted, FilesWhole, NEW w, NEW says, Records(w, says), Made(w)
    PROVE  Kept /\ SaidHolds(says)'
<1>1. PICK a \in Line : w = AddLine(a) /\ says = {a}
                        /\ a.entry \notin Applied /\ Depends[a.entry] \subseteq Applied
  BY DEF Records
<1>2. PICK f \in {"host", "receipts"} :
        f = applied_file /\ (f = "host" => file["host"].applied # {})
  BY DEF applied_file
<1>3. FileOf(w) = f /\ w.edit = "line" /\ w.line = a
  BY <1>1, <1>2 DEF FileOf, AddLine
<1>4. f \in File
  BY <1>2 DEF File
<1>5. file'[f] = [file[f] EXCEPT !.applied = @ \cup {a}]
      /\ \A g \in File : g # f => file'[g] = file[g]
  BY <1>3, <1>4, MadeFiles DEF Rewritten
<1>6. file[f] \in Content /\ file[f].whole
  BY <1>2, FilesTyped DEF FilesWhole, File
<1>7. file'[f].whole /\ file'[f].applied = file[f].applied \cup {a}
      /\ file'[f].baseline = file[f].baseline /\ file'[f].log = file[f].log
  BY <1>5, <1>6 DEF Content
<1>8. FilesWhole'
  BY <1>5, <1>7 DEF FilesWhole
<1>9. file'["host"].whole = file["host"].whole /\ file'["host"].baseline = file["host"].baseline
      /\ \A g \in File : file'[g].log = file[g].log
  BY <1>2, <1>5, <1>6, <1>7 DEF File
<1>10. baseline_of(file["host"])' = baseline_of(file["host"])
  BY <1>9 DEF baseline_of
<1>11. read_applied_lines' = read_applied_lines \cup {a}
  BY <1>2, <1>5, <1>7 DEF read_applied_lines, File
<1>12. read_applied_ids' = read_applied_ids \cup {a.entry}
  BY <1>11 DEF read_applied_ids
<1>13. a.entry \in Entry
  BY DEF Line
<1>14. Applied' = Applied \cup {a.entry}
  BY <1>10, <1>12, <1>13 DEF Applied, entry_applied
<1>15. Grown
  BY <1>1, <1>13, <1>14 DEF Grown
<1>16. Logged' = Logged
  BY <1>9 DEF Logged, File
<1>17. NewLayout => NewLayout'
  BY <1>2, <1>5, <1>9 DEF NewLayout, File
<1>18. SaidHolds(says)'
  BY <1>1, <1>14, LineNoReceipt DEF SaidHolds
<1> QED BY <1>8, <1>15, <1>16, <1>17, <1>18 DEF Kept

\* The baseline goes over applied entries, and the lines it absorbs go with it.
LEMMA AdvancesMade ==
    ASSUME Accounted, FilesWhole, NEW v, NEW w, Advances(v, w), Made(v)
    PROVE  Kept /\ Absorbs(w)'
<1> DEFINE p == v.upto
           ids == v.ids
           stamp == file["host"]
<1>1. /\ v.edit = "advance" /\ v = Advance(p, ids) /\ w = Absorb(ids)
      /\ p \in Entry /\ ids = {e \in read_applied_ids : e <= p}
      /\ \A e \in Entry : e <= p => e \in Applied
      /\ baseline_of(stamp) <= p
  BY DEF Advances
<1>2. FileOf(v) = "host"
  BY <1>1 DEF FileOf, Advance
<1>3. stamp \in Content /\ stamp.whole
  BY FilesTyped DEF FilesWhole, File
<1> DEFINE left == remove_applied_lines(stamp.applied, ids)
<1>4. file'["host"] = [stamp EXCEPT !.baseline = p, !.applied = left]
      /\ file'["receipts"] = file["receipts"] /\ file'["lifecycle"] = file["lifecycle"]
  <2>1. Rewritten(v, stamp) = [stamp EXCEPT !.baseline = p, !.applied = left]
    BY <1>1, <1>3 DEF Rewritten, Content
  <2> QED BY <1>2, <2>1, MadeFiles DEF File
<1> HIDE DEF left, stamp
<1>5. file'["host"].whole /\ file'["host"].baseline = p /\ file'["host"].applied = left
      /\ file'["host"].log = stamp.log
  BY <1>3, <1>4 DEF Content
<1>6. FilesWhole'
  BY <1>4, <1>5 DEF FilesWhole, File
<1>7. baseline_of(file["host"])' = p
  <2>1. p # 0
    BY <1>1, RecordAssumption DEF Entry
  <2> QED BY <1>5, <2>1 DEF baseline_of
<1>8. \A a \in Line : a \in left <=> a \in stamp.applied /\ a.entry \notin ids
  BY <1>3 DEF left, remove_applied_lines, Content
<1>9. left \subseteq stamp.applied
  BY DEF left, remove_applied_lines
<1>10. read_applied_ids' \subseteq read_applied_ids
  BY <1>4, <1>5, <1>9 DEF read_applied_ids, read_applied_lines, stamp
<1>11. \A e \in read_applied_ids : e <= p \/ e \in read_applied_ids'
  <2> SUFFICES ASSUME NEW a \in read_applied_lines, ~(a.entry <= p)
               PROVE  a \in read_applied_lines'
    BY DEF read_applied_ids
  <2>1. a.entry \notin ids
    BY <1>1
  <2>2. a \in left \/ a \in file["receipts"].applied
    BY <2>1 DEF read_applied_lines, left, remove_applied_lines, stamp
  <2> QED BY <1>4, <1>5, <2>2 DEF read_applied_lines
<1>12. Applied' = Applied
  <2>1. ASSUME NEW e \in Entry, entry_applied(e, p, read_applied_ids')
        PROVE  e \in Applied
    BY <1>1, <1>10, <2>1 DEF Applied, entry_applied
  <2>2. ASSUME NEW e \in Applied
        PROVE  entry_applied(e, p, read_applied_ids')
    <3>1. baseline_of(stamp) \in Int /\ e \in Int /\ p \in Int
      BY <1>1, <1>3, RecordAssumption DEF baseline_of, Content, Applied, Entry
    <3>2. e \in read_applied_ids \/ e <= baseline_of(stamp)
      BY <2>2 DEF Applied, entry_applied, stamp
    <3> HIDE DEF p
    <3> QED BY <1>1, <1>11, <3>1, <3>2 DEF entry_applied
  <2>3. Applied \subseteq Entry
    BY DEF Applied
  <2>4. Applied' = {e \in Entry : entry_applied(e, p, read_applied_ids')}
    BY <1>7 DEF Applied
  <2> QED BY <2>1, <2>2, <2>3, <2>4
<1>13. Logged' = Logged /\ (NewLayout => NewLayout')
  BY <1>4, <1>5, <1>9 DEF Logged, NewLayout, stamp
<1>14. Absorbs(w)'
  BY <1>1, <1>7 DEF Absorbs, Absorb
<1> QED BY <1>6, <1>12, <1>13, <1>14 DEF Kept, Grown

\* Lines the baseline covers are dropped.
LEMMA AbsorbsMade ==
    ASSUME Accounted, FilesWhole, NEW w, Absorbs(w), Made(w)
    PROVE  Kept
<1> DEFINE ids == w.ids
           old == file["receipts"]
           left == remove_applied_lines(old.applied, ids)
<1>1. w.edit = "absorb" /\ w = Absorb(ids) /\ \A e \in ids : e <= baseline_of(file["host"])
  BY DEF Absorbs
<1>2. FileOf(w) = "receipts"
  BY <1>1 DEF FileOf, Absorb
<1>3. old \in Content /\ old.whole
  BY FilesTyped DEF FilesWhole, File
<1>4. file'["receipts"] = [old EXCEPT !.applied = left]
      /\ file'["host"] = file["host"] /\ file'["lifecycle"] = file["lifecycle"]
  <2>1. Rewritten(w, old) = [old EXCEPT !.applied = left]
    BY <1>1, <1>3 DEF Rewritten, Content
  <2> QED BY <1>2, <2>1, MadeFiles DEF File
<1> HIDE DEF left, old
<1>5. file'["receipts"].whole /\ file'["receipts"].applied = left
      /\ file'["receipts"].log = old.log
  BY <1>3, <1>4 DEF Content
<1>6. FilesWhole'
  BY <1>4, <1>5 DEF FilesWhole, File
<1>7. baseline_of(file["host"])' = baseline_of(file["host"])
  BY <1>4 DEF baseline_of
<1>8. read_applied_ids' \subseteq read_applied_ids
  BY <1>4, <1>5 DEF read_applied_ids, read_applied_lines, left, remove_applied_lines, old
<1>9. \A e \in read_applied_ids : e <= baseline_of(file["host"]) \/ e \in read_applied_ids'
  <2> SUFFICES ASSUME NEW a \in read_applied_lines, ~(a.entry <= baseline_of(file["host"]))
               PROVE  a \in read_applied_lines'
    BY DEF read_applied_ids
  <2>1. a.entry \notin ids
    BY <1>1
  <2>2. a \in left \/ a \in file["host"].applied
    BY <2>1 DEF read_applied_lines, left, remove_applied_lines, old
  <2> QED BY <1>4, <1>5, <2>2 DEF read_applied_lines
<1>10. Applied' = Applied
  BY <1>7, <1>8, <1>9 DEF Applied, entry_applied
<1>11. Logged' = Logged /\ (NewLayout => NewLayout')
  BY <1>4, <1>5 DEF Logged, NewLayout, old
<1> QED BY <1>6, <1>10, <1>11 DEF Kept, Grown

\* The stamp sheds lines `.host-receipts` has.
LEMMA ShedsMade ==
    ASSUME Accounted, FilesWhole, NEW w, Copied, Sheds(w), Made(w)
    PROVE  Kept
<1> DEFINE stamp == file["host"]
           new == [stamp EXCEPT !.applied = {}]
<1>1. FileOf(w) = "host" /\ Rewritten(w, stamp) = new
  BY DEF Sheds, FileOf, Put, Rewritten
<1>2. file'["host"] = new /\ file'["receipts"] = file["receipts"]
      /\ file'["lifecycle"] = file["lifecycle"]
  BY <1>1, MadeFiles DEF File
<1>3. stamp \in Content /\ stamp.whole
  BY FilesTyped DEF FilesWhole, File
<1>4. new.whole /\ new.applied = {} /\ new.baseline = stamp.baseline
  <2> HIDE DEF stamp
  <2> QED BY <1>3 DEF Content
<1> HIDE DEF new
<1>5. FilesWhole'
  BY <1>2, <1>4 DEF FilesWhole, File
<1>6. baseline_of(file["host"])' = baseline_of(file["host"])
  BY <1>2, <1>3, <1>4 DEF baseline_of
<1>7. read_applied_lines' = read_applied_lines
  BY <1>2, <1>4 DEF read_applied_lines, Copied
<1>8. Applied' = Applied
  BY <1>6, <1>7, AppliedFrom, IdsFrom
<1>9. Logged' = Logged /\ (NewLayout => NewLayout')
  BY <1>2, <1>4 DEF Logged, NewLayout
<1> QED BY <1>5, <1>8, <1>9 DEF Kept, Grown

\* `.host-receipts` takes the stamp's lines and sheds what `.host-lifecycle-receipts`
\* has.
LEMMA RegroupsMade ==
    ASSUME Accounted, FilesWhole, NEW v, NEW w, Rehomed(file["lifecycle"].log),
           Regroups(v), Sheds(w), Made(v)
    PROVE  Kept /\ Copied' /\ Sheds(w)'
<1> DEFINE text == v.text
<1>1. /\ v.edit = "put" /\ v = Put("receipts", text)
      /\ text.whole /\ text.applied = read_applied_lines
      /\ Range(text.log) = {r \in Range(file["receipts"].log) : r.phase \in Methodology}
  BY DEF Regroups
<1>2. FileOf(v) = "receipts" /\ Rewritten(v, file["receipts"]) = text
  BY <1>1 DEF FileOf, Put, Rewritten
<1>3. file'["receipts"] = text /\ file'["host"] = file["host"]
      /\ file'["lifecycle"] = file["lifecycle"]
  BY <1>2, MadeFiles DEF File
<1>4. FilesWhole'
  BY <1>1, <1>3 DEF FilesWhole, File
<1>5. baseline_of(file["host"])' = baseline_of(file["host"])
  BY <1>3 DEF baseline_of
<1>6. read_applied_lines' = read_applied_lines
  BY <1>1, <1>3 DEF read_applied_lines
<1>7. Applied' = Applied
  BY <1>5, <1>6, AppliedFrom, IdsFrom
<1>8. Logged \subseteq Logged'
  BY <1>1, <1>3 DEF Logged, Rehomed
<1>9. NewLayout => NewLayout'
  BY <1>1, <1>3 DEF NewLayout, is_methodology_phase
<1>10. Copied'
  BY <1>1, <1>3 DEF Copied, read_applied_lines
<1>11. Sheds(w)'
  BY <1>3 DEF Sheds
<1> QED BY <1>4, <1>7, <1>8, <1>9, <1>10, <1>11 DEF Kept, Grown

\* `.host-lifecycle-receipts` takes the operational receipts.
LEMMA RehomesMade ==
    ASSUME Accounted, FilesWhole, NEW u, NEW v, NEW w,
           Rehomes(u), Regroups(v), Sheds(w), Made(u)
    PROVE  Kept /\ Rehomed(file["lifecycle"].log)' /\ Regroups(v)' /\ Sheds(w)'
<1> DEFINE text == u.text
<1>1. /\ u.edit = "put" /\ u = Put("lifecycle", text)
      /\ text.whole /\ Range(file["lifecycle"].log) \subseteq Range(text.log)
      /\ Rehomed(text.log)
  BY DEF Rehomes
<1>2. FileOf(u) = "lifecycle" /\ Rewritten(u, file["lifecycle"]) = text
  BY <1>1 DEF FileOf, Put, Rewritten
<1>3. file'["lifecycle"] = text /\ file'["host"] = file["host"]
      /\ file'["receipts"] = file["receipts"]
  BY <1>2, MadeFiles DEF File
<1>4. FilesWhole'
  BY <1>1, <1>3 DEF FilesWhole, File
<1>5. baseline_of(file["host"])' = baseline_of(file["host"])
  BY <1>3 DEF baseline_of
<1>6. read_applied_lines' = read_applied_lines
  BY <1>3 DEF read_applied_lines
<1>7. Applied' = Applied
  BY <1>5, <1>6, AppliedFrom, IdsFrom
<1>8. Logged \subseteq Logged' /\ (NewLayout => NewLayout')
  BY <1>1, <1>3 DEF Logged, NewLayout
<1>9. Rehomed(file["lifecycle"].log)'
  BY <1>1, <1>3 DEF Rehomed
<1>10. Regroups(v)'
  BY <1>3, <1>6 DEF Regroups
<1>11. Sheds(w)'
  BY <1>3 DEF Sheds
<1> QED BY <1>4, <1>7, <1>8, <1>9, <1>10, <1>11 DEF Kept, Grown

\* The tail of a list of rewrites, element by element.
LEMMA TailIs ==
    ASSUME NEW S, NEW todo \in Seq(S), todo # << >>
    PROVE  /\ Len(todo) = 2 => Len(Tail(todo)) = 1 /\ Tail(todo)[1] = todo[2]
           /\ Len(todo) = 3 => /\ Len(Tail(todo)) = 2
                               /\ Tail(todo)[1] = todo[2] /\ Tail(todo)[2] = todo[3]
OBVIOUS

\* Whatever a command has still to rewrite, making the rewrite at its head keeps
\* what must be kept, leaves a list that fits, and puts on record what the
\* command says if it was the last.
LEMMA HeadMade ==
    ASSUME Accounted, FilesWhole, NEW S, NEW todo \in Seq(S), todo # << >>,
           NEW says, Fits(todo, says), Made(todo[1])
    PROVE  /\ Kept
           /\ Len(todo) = 1 => SaidHolds(says)'
           /\ Len(todo) # 1 => Fits(Tail(todo), says)'
<1> PICK rest : rest = Tail(todo)
  OBVIOUS
<1> PICK u, v, w : u = todo[1] /\ v = todo[2] /\ w = todo[3]
  OBVIOUS
<1>1. SUFFICES Kept /\ (Len(todo) = 1 => SaidHolds(says)') /\ (Len(todo) # 1 => Fits(rest, says)')
  OBVIOUS
<1>2. /\ Len(todo) = 2 => Len(rest) = 1 /\ rest[1] = v
      /\ Len(todo) = 3 => Len(rest) = 2 /\ rest[1] = v /\ rest[2] = w
  BY TailIs
<1>3. says = {} => SaidHolds(says)'
  BY DEF SaidHolds
<1>4. CASE Len(todo) = 1 /\ (Receipts(u, says) \/ Records(u, says))
  BY <1>4, ReceiptsMade, RecordsMade
<1>5. CASE Len(todo) = 1 /\ says = {} /\ (Stamps(u) \/ Absorbs(u) \/ (Copied /\ Sheds(u)))
  BY <1>3, <1>5, StampsMade, AbsorbsMade, ShedsMade
<1>6. CASE Len(todo) = 2 /\ Stamps(u) /\ Records(v, says)
  <2>1. Kept /\ Applied' = Applied
    BY <1>6, StampsMade
  <2>2. Records(v, says)'
    BY <1>6, <2>1 DEF Records
  <2>3. Fits(rest, says)'
    BY <1>2, <1>6, <2>2 DEF Fits
  <2> QED BY <1>6, <2>1, <2>3
<1>7. CASE Len(todo) = 2 /\ says = {} /\ Advances(u, v)
  <2>1. Kept /\ Absorbs(v)'
    BY <1>7, AdvancesMade
  <2>2. Fits(rest, says)'
    BY <1>2, <1>7, <2>1 DEF Fits
  <2> QED BY <1>7, <2>1, <2>2
<1>8. CASE Len(todo) = 2 /\ says = {} /\ Rehomed(file["lifecycle"].log) /\ Regroups(u) /\ Sheds(v)
  <2>1. Kept /\ Copied' /\ Sheds(v)'
    BY <1>8, RegroupsMade
  <2>2. Fits(rest, says)'
    BY <1>2, <1>8, <2>1 DEF Fits
  <2> QED BY <1>8, <2>1, <2>2
<1>9. CASE Len(todo) = 3 /\ says = {} /\ Stamps(u) /\ Advances(v, w)
  <2>1. Kept /\ Applied' = Applied /\ read_applied_ids' = read_applied_ids
        /\ baseline_of(file["host"])' = baseline_of(file["host"])
    BY <1>9, StampsMade
  <2>2. Advances(v, w)'
    BY <1>9, <2>1 DEF Advances
  <2>3. Fits(rest, says)'
    BY <1>2, <1>9, <2>2 DEF Fits
  <2> QED BY <1>9, <2>1, <2>3
<1>10. CASE Len(todo) = 3 /\ says = {} /\ Rehomes(u) /\ Regroups(v) /\ Sheds(w)
  <2>1. Kept /\ Rehomed(file["lifecycle"].log)' /\ Regroups(v)' /\ Sheds(w)'
    BY <1>10, RehomesMade
  <2>2. Fits(rest, says)'
    BY <1>2, <1>10, <2>1 DEF Fits
  <2> QED BY <1>10, <2>1, <2>2
<1> QED BY <1>4, <1>5, <1>6, <1>7, <1>8, <1>9, <1>10 DEF Fits

\* A step that leaves the files alone leaves alone what is read from them.
LEMMA FilesStill ==
    ASSUME file' = file, FilesWhole
    PROVE  /\ Kept
           /\ \A says : SaidHolds(says) => SaidHolds(says)'
           /\ \A todo, says : Fits(todo, says) => Fits(todo, says)'
<1>1. read_applied_lines' = read_applied_lines
      /\ baseline_of(file["host"])' = baseline_of(file["host"])
  BY DEF read_applied_lines, baseline_of
<1>2. read_applied_ids' = read_applied_ids /\ Applied' = Applied
  BY <1>1, IdsFrom, AppliedFrom
<1>3. Logged' = Logged /\ (NewLayout => NewLayout') /\ FilesWhole'
  BY DEF Logged, NewLayout, FilesWhole
<1>4. \A says : SaidHolds(says) => SaidHolds(says)'
  BY <1>2, <1>3 DEF SaidHolds
<1>5. /\ \A w, says : Records(w, says) => Records(w, says)'
      /\ \A w, says : Receipts(w, says) => Receipts(w, says)'
  BY <1>2 DEF Records, Receipts
<1>6. /\ \A v, w : Advances(v, w) => Advances(v, w)'
      /\ \A w : Absorbs(w) => Absorbs(w)'
  BY <1>1, <1>2 DEF Advances, Absorbs
<1>7. /\ \A w : Stamps(w) => Stamps(w)'
      /\ \A w : Sheds(w) => Sheds(w)'
      /\ Copied => Copied'
  BY DEF Stamps, Sheds, Copied
<1>8. /\ \A w : Regroups(w) => Regroups(w)'
      /\ \A log : Rehomed(log) => Rehomed(log)'
      /\ Rehomed(file["lifecycle"].log) => Rehomed(file["lifecycle"].log)'
  BY <1>1 DEF Regroups, Rehomed
<1>9. \A w : Rehomes(w) => Rehomes(w)'
  BY <1>8 DEF Rehomes
<1>10. \A todo, says : Fits(todo, says) => Fits(todo, says)'
  BY <1>5, <1>6, <1>7, <1>8, <1>9 DEF Fits
<1> QED BY <1>2, <1>3, <1>4, <1>10 DEF Kept, Grown

\* What was said stays said.
LEMMA SaidStays ==
    ASSUME Kept, NEW says, SaidHolds(says)
    PROVE  SaidHolds(says)'
BY DEF Kept, Grown, SaidHolds

\* What a command has to hand, in an accounted project.
LEMMA InHand ==
    ASSUME Accounted, Alone, NEW s \in Session, Busy(s)
    PROVE  \E S, j : /\ j = job[s] /\ j # Idle /\ j.todo \in Seq(S) /\ j.todo # << >>
                     /\ Head(j.todo) = j.todo[1]
                     /\ Sound(asked, j.todo[1])
                     /\ j.file \in File /\ j.text \in Content
                     /\ Fits(j.todo, j.says)
                     /\ JobSound(asked, j)
<1>1. JobSound(asked, job[s]) /\ job[s].todo # << >> /\ Sound(asked, Head(job[s].todo))
  BY BusyHand
<1>2. PICK S : job[s].todo \in Seq(S)
  BY <1>1 DEF JobSound, AllSound, IsSeq
<1>3. Head(job[s].todo) = job[s].todo[1]
  BY <1>1, <1>2
<1>4. Fits(job[s].todo, job[s].says) /\ job[s] # Idle
  BY DEF Alone, Hand, Busy
<1>5. job[s].file \in File /\ job[s].text \in Content
  BY <1>1 DEF JobSound
<1> QED BY <1>1, <1>2, <1>3, <1>4, <1>5

\* An idle session has nothing in hand.
LEMMA IdleHand == Hand(Idle)'
BY DEF Hand, Idle, Command

\* A step that leaves the files alone, and the session with a command in order.
LEMMA HandsStep ==
    ASSUME OneAtATime, Accounted, Accounted', Alone, NEW s \in Session, UNCHANGED <<file, told>>,
           NEW new, job' = [job EXCEPT ![s] = new], Hand(new)'
    PROVE  Alone' /\ Kept
<1>1. job'[s] = new
  BY DEF Accounted
<1>2. \A x \in Session : job'[x] = new
  BY <1>1 DEF OneAtATime
<1>3. FilesWhole /\ SaidHolds(told)
  BY ReportedMeans DEF Alone
<1>4. Kept /\ SaidHolds(told)'
  BY <1>3, FilesStill
<1>5. FilesWhole' /\ ReportedKept'
  BY <1>4, ReportedMeansNext DEF Kept
<1>6. \A x \in Session : Hand(job[x])'
  <2> SUFFICES ASSUME NEW x \in Session PROVE Hand(job[x])'
    OBVIOUS
  <2>1. job'[x] = new
    BY <1>2
  <2> QED BY <2>1 DEF Hand
<1> QED BY <1>4, <1>5, <1>6 DEF Alone

\* A command that starts relies on what is true.
LEMMA StartHand ==
    ASSUME OneAtATime, Accounted, Accounted', Alone, NEW s \in Session,
           NEW todo, NEW says, Begin(s, todo, says), Fits(todo, says)
    PROVE  Alone' /\ Kept
<1> DEFINE new == Command(todo, says)
<1>1. UNCHANGED <<file, told>> /\ job' = [job EXCEPT ![s] = new]
  BY DEF Begin
<1>2. Fits(todo, says)'
  BY <1>1, FilesStill DEF Alone
<1>3. new.todo = todo /\ new.says = says /\ new.at = "read"
  BY DEF Command
<1> HIDE DEF new
<1>4. Hand(new)'
  BY <1>2, <1>3 DEF Hand
<1> QED BY <1>1, <1>4, HandsStep

\* The stamp's migration, alone or before more.
LEMMA StampFirst ==
    ASSUME Accounted
    PROVE  \/ StampMigration = << >>
           \/ \E w : StampMigration = << w >> /\ Stamps(w)
BY DEF StampMigration, Stamps

\* Lists of one to three.
LEMMA Lists ==
    ASSUME NEW u, NEW v, NEW w
    PROVE  /\ Len(<< u >>) = 1 /\ << u >>[1] = u
           /\ << >> \o << v >> = << v >> /\ << >> \o << v, w >> = << v, w >>
           /\ Len(<< u >> \o << v >>) = 2
           /\ (<< u >> \o << v >>)[1] = u /\ (<< u >> \o << v >>)[2] = v
           /\ Len(<< u >> \o << v, w >>) = 3
           /\ (<< u >> \o << v, w >>)[1] = u /\ (<< u >> \o << v, w >>)[2] = v
           /\ (<< u >> \o << v, w >>)[3] = w
           /\ Len(<< v, w >>) = 2 /\ << v, w >>[1] = v /\ << v, w >>[2] = w
OBVIOUS

\* receipt --record.
LEMMA ReceiptAlone ==
    ASSUME OneAtATime, Accounted, Accounted', Alone, NEW s \in Session,
           NEW phase \in Phase, receipt_record(s, phase)
    PROVE  Alone' /\ Kept
<1> DEFINE r == [phase |-> phase, serial |-> serial + 1]
           w == AddReceipt(r)
           todo == << w >>
           says == {r}
<1>1. Begin(s, todo, says)
  BY DEF receipt_record
<1>2. r \in Receipt
  BY DEF Receipt, Accounted
<1> HIDE DEF r
<1>3. Receipts(w, says)
  BY <1>2 DEF Receipts, AddReceipt
<1> HIDE DEF w
<1>4. Fits(todo, says)
  BY <1>3, Lists DEF Fits
<1> HIDE DEF todo, says
<1> QED BY <1>1, <1>4, StartHand

\* upgrade --next and the like.
LEMMA ListAlone ==
    ASSUME OneAtATime, Accounted, Accounted', Alone, NEW s \in Session, upgrade_list(s)
    PROVE  Alone' /\ Kept
<1> DEFINE todo == StampMigration
           says == {}
<1>1. Begin(s, todo, says) /\ todo # << >>
  BY DEF upgrade_list, Begin
<1>2. PICK w : todo = << w >> /\ Stamps(w)
  BY <1>1, StampFirst
<1>3. Fits(todo, says)
  BY <1>2, Lists DEF Fits
<1> HIDE DEF todo, says
<1> QED BY <1>1, <1>3, StartHand

\* upgrade --record.
LEMMA RecordAlone ==
    ASSUME OneAtATime, Accounted, Accounted', Alone, NEW s \in Session,
           NEW e \in Entry, NEW via \in Via, upgrade_record(s, e, via)
    PROVE  Alone' /\ Kept
<1> DEFINE a == [entry |-> e, via |-> via]
           w == AddLine(a)
           todo == StampMigration \o << w >>
           says == {a}
<1>1. Begin(s, todo, says) /\ e \notin Applied /\ Depends[e] \subseteq Applied
  BY DEF upgrade_record
<1>2. a \in Line /\ a.entry = e
  BY RecordAssumption DEF Line
<1> HIDE DEF a
<1>3. Records(w, says)
  BY <1>1, <1>2 DEF Records, AddLine
<1> HIDE DEF w
<1>4. Fits(todo, says)
  <2>1. CASE StampMigration = << >>
    BY <1>3, <2>1, Lists DEF Fits
  <2>2. ASSUME NEW u, StampMigration = << u >>, Stamps(u)
        PROVE  Fits(todo, says)
    BY <1>3, <2>2, Lists DEF Fits
  <2> QED BY <2>1, <2>2, StampFirst
<1> HIDE DEF todo, says
<1> QED BY <1>1, <1>4, StartHand

\* upgrade --advance.
LEMMA AdvanceAlone ==
    ASSUME OneAtATime, Accounted, Accounted', Alone, NEW s \in Session, upgrade_advance(s)
    PROVE  Alone' /\ Kept
<1>1. PICK p \in Entry :
        LET absorbed == {e \in read_applied_ids : e <= p}
        IN  /\ Furthest(p)
            /\ Begin(s, StampMigration \o << Advance(p, absorbed), Absorb(absorbed) >>, {})
  BY DEF upgrade_advance
<1> DEFINE ids == {e \in read_applied_ids : e <= p}
           v == Advance(p, ids)
           w == Absorb(ids)
           todo == StampMigration \o << v, w >>
           says == {}
<1>2. Begin(s, todo, says) /\ Furthest(p)
  BY <1>1
<1>3. baseline_of(file["host"]) <= p
  <2> DEFINE b == baseline_of(file["host"])
  <2>1. b \in Nothing .. LastEntry /\ b \in Int /\ p \in Int
    BY FilesTyped, RecordAssumption DEF baseline_of, Content, Entry, Nothing
  <2>2. \A e \in Entry : e <= b => e \in Applied
    BY DEF Applied, entry_applied
  <2> HIDE DEF b
  <2>3. SUFFICES ASSUME ~(b <= p) PROVE FALSE
    BY DEF b
  <2>4. p + 1 \in Entry /\ p + 1 <= b
    BY <2>1, <2>3, RecordAssumption DEF Entry, Nothing
  <2> QED BY <1>2, <2>2, <2>4 DEF Furthest
<1>4. Advances(v, w)
  <2>1. v.edit = "advance" /\ v.upto = p /\ v.ids = ids
    BY DEF Advance
  <2>2. \A e \in Entry : e <= p => e \in Applied
    BY <1>2 DEF Furthest
  <2> QED BY <1>3, <2>1, <2>2 DEF Advances
<1> HIDE DEF v, w
<1>5. Fits(todo, says)
  <2>1. CASE StampMigration = << >>
    BY <1>4, <2>1, Lists DEF Fits
  <2>2. ASSUME NEW u, StampMigration = << u >>, Stamps(u)
        PROVE  Fits(todo, says)
    BY <1>4, <2>2, Lists DEF Fits
  <2> QED BY <2>1, <2>2, StampFirst
<1> HIDE DEF todo, says
<1> QED BY <1>2, <1>5, StartHand

\* receipts --migrate.
LEMMA MigrateAlone ==
    ASSUME OneAtATime, Accounted, Accounted', Alone, NEW s \in Session, migrate_receipts(s)
    PROVE  Alone' /\ Kept
<1> DEFINE log == file["receipts"].log
           operational == only(log, Phase \ Methodology)
           methodology == only(log, Methodology)
           newL == [file["lifecycle"] EXCEPT !.log = @ \o operational]
           newR == [whole |-> TRUE, baseline |-> 0,
                    applied |-> read_applied_lines, log |-> methodology]
           newH == [file["host"] EXCEPT !.applied = {}]
           text == [lifecycle |-> newL, receipts |-> newR, host |-> newH]
           todo == [i \in 1 .. 3 |-> Put(MigrationOrder[i], text[MigrationOrder[i]])]
           says == {}
<1>1. Begin(s, todo, says)
  BY DEF migrate_receipts
<1>2. log \in Seq(Receipt) /\ file["lifecycle"].log \in Seq(Receipt)
      /\ file["lifecycle"] \in Content
  BY FilesTyped
<1>3. /\ operational \in Seq(Receipt)
      /\ Range(operational) = {r \in Range(log) : r.phase \in Phase \ Methodology}
      /\ Range(methodology) = {r \in Range(log) : r.phase \in Methodology}
  <2> HIDE DEF log
  <2> QED BY <1>2, OnlySome
<1>4. \A r \in Range(log) : r \in Receipt /\ r.phase \in Phase
  <2> HIDE DEF log
  <2>1. \A r \in Range(log) : r \in Receipt
    BY <1>2 DEF Range
  <2> QED BY <2>1 DEF Receipt
<1> HIDE DEF operational, methodology, log
<1>5. newL.whole /\ newL.log = file["lifecycle"].log \o operational
  BY <1>2 DEF Content, Alone, FilesWhole, File
<1>6. Range(newL.log) = Range(file["lifecycle"].log) \cup Range(operational)
  BY <1>2, <1>3, <1>5, ConcatRange
<1>7. newR.whole /\ newR.applied = read_applied_lines /\ newR.log = methodology
  OBVIOUS
<1> HIDE DEF newL, newR
<1> DEFINE u == Put("lifecycle", newL)
           v == Put("receipts", newR)
           w == Put("host", newH)
<1>8. Rehomes(u)
  <2>1. u.edit = "put" /\ u.text = newL
    BY DEF Put
  <2>2. Rehomed(newL.log)
    BY <1>3, <1>4, <1>6 DEF Rehomed, log
  <2> QED BY <1>5, <1>6, <2>1, <2>2 DEF Rehomes
<1>9. Regroups(v)
  <2>1. v.edit = "put" /\ v.text = newR
    BY DEF Put
  <2> QED BY <1>3, <1>7, <2>1 DEF Regroups, log
<1>10. Sheds(w)
  BY DEF Sheds
<1> HIDE DEF newH
<1>11. Len(todo) = 3 /\ todo[1] = u /\ todo[2] = v /\ todo[3] = w
  <2>1. MigrationOrder[1] = "lifecycle" /\ MigrationOrder[2] = "receipts"
        /\ MigrationOrder[3] = "host"
    BY DEF MigrationOrder
  <2>2. text["lifecycle"] = newL /\ text["receipts"] = newR /\ text["host"] = newH
    OBVIOUS
  <2> HIDE DEF text
  <2>3. Len(todo) = 3
    OBVIOUS
  <2> QED BY <2>1, <2>2, <2>3
<1> HIDE DEF u, v, w, todo
<1>12. Fits(todo, says)
  BY <1>8, <1>9, <1>10, <1>11 DEF Fits
<1> HIDE DEF says
<1> QED BY <1>1, <1>12, StartHand

\* A step that makes the rewrite at the head of the only command.
LEMMA OnwardStep ==
    ASSUME OneAtATime, Accounted, Accounted', Alone, NEW s \in Session, Busy(s),
           Made(job[s].todo[1]), job'[s] = Onward(job[s]), Exits(s)
    PROVE  Alone' /\ Kept
<1>1. PICK S, j : /\ j = job[s] /\ j # Idle /\ j.todo \in Seq(S) /\ j.todo # << >>
                  /\ Fits(j.todo, j.says)
                  /\ JobSound(asked, j)
  BY InHand
<1>2. FilesWhole /\ SaidHolds(told)
  BY ReportedMeans DEF Alone
<1>3. PICK todo, says, w : todo = j.todo /\ says = j.says /\ w = todo[1]
  OBVIOUS
<1>4. Made(w)
  BY <1>1, <1>3
<1>5. /\ Kept
      /\ Len(todo) = 1 => SaidHolds(says)'
      /\ Len(todo) # 1 => Fits(Tail(todo), says)'
  BY <1>1, <1>2, <1>3, <1>4, HeadMade
<1>6. PICK said : said = told
  OBVIOUS
<1>7. SaidHolds(said)'
  BY <1>2, <1>5, <1>6, SaidStays
<1>8. told' = said \/ (Len(todo) = 1 /\ told' = said \cup says)
  BY <1>1, <1>3, <1>6 DEF Exits
<1>9. SaidHolds(told)'
  BY <1>5, <1>7, <1>8 DEF SaidHolds
<1>10. FilesWhole' /\ ReportedKept'
  BY <1>5, <1>9, ReportedMeansNext DEF Kept
<1>11. PICK new : new = Onward(j)
  OBVIOUS
<1>12. Hand(new)'
  <2>1. CASE Len(todo) = 1
    BY <1>3, <1>11, <2>1, IdleHand DEF Onward
  <2>2. CASE Len(todo) # 1
    <3>1. new = [todo |-> Tail(todo), at |-> "read", file |-> j.file, text |-> j.text,
                 says |-> says]
      BY <1>1, <1>3, <1>11, <2>2 DEF Onward, JobSound
    <3>2. new.todo = Tail(todo) /\ new.at = "read" /\ new.says = says
      BY <3>1
    <3> QED BY <1>5, <2>2, <3>2 DEF Hand
  <2> QED BY <2>1, <2>2
<1>13. \A x \in Session : job'[x] = new
  BY <1>1, <1>11 DEF OneAtATime
<1>14. \A x \in Session : Hand(job[x])'
  <2> SUFFICES ASSUME NEW x \in Session PROVE Hand(job[x])'
    OBVIOUS
  <2>1. job'[x] = new
    BY <1>13
  <2> QED BY <1>12, <2>1 DEF Hand
<1> QED BY <1>5, <1>10, <1>14 DEF Alone

\* A file is read and its new text worked out, or there is nothing to absorb.
LEMMA ReadAlone ==
    ASSUME OneAtATime, Accounted, Accounted', Alone, NEW s \in Session, Read(s)
    PROVE  Alone' /\ Kept
<1>1. Busy(s) /\ UNCHANGED <<file, tmp>>
  BY DEF Read, At
<1>2. PICK S, j : /\ j = job[s] /\ j # Idle /\ j.todo \in Seq(S) /\ j.todo # << >>
                  /\ Head(j.todo) = j.todo[1]
                  /\ Fits(j.todo, j.says)
                  /\ Sound(asked, j.todo[1])
                  /\ JobSound(asked, j)
  BY <1>1, InHand
<1>3. PICK w : w = j.todo[1]
  OBVIOUS
<1>4. PICK f : f = FileOf(w)
  OBVIOUS
<1>5. PICK text : text = Rewritten(w, file[f])
  OBVIOUS
<1>6. f \in File /\ Known(asked, f, text)
  BY <1>2, <1>3, <1>4, <1>5, RewrittenKnown
<1>7. job = [x \in Session |-> job[x]]
  BY DEF Accounted
<1> DEFINE read == [j EXCEPT !.at = "open", !.file = f, !.text = text]
<1>8. \/ text = file[f] /\ job'[s] = Onward(j) /\ Exits(s)
      \/ job' = [job EXCEPT ![s] = read] /\ told' = told
  <2>1. \/ text = file[f] /\ job' = [job EXCEPT ![s] = Onward(j)] /\ Exits(s)
        \/ /\ job' = [job EXCEPT ![s].at = "open", ![s].file = f, ![s].text = text]
           /\ told' = told
    BY <1>2, <1>3, <1>4, <1>5, <1>7 DEF Read
  <2> QED BY <1>2, <1>7, <2>1
<1>9. CASE text = file[f] /\ job'[s] = Onward(j) /\ Exits(s)
  <2>1. file' = [file EXCEPT ![f] = text]
    <3>1. file = [x \in File |-> file[x]]
      BY DEF Accounted
    <3> QED BY <1>1, <1>6, <1>9, <3>1
  <2>2. Made(job[s].todo[1])
    BY <1>2, <1>3, <1>4, <1>5, <2>1 DEF Made
  <2> QED BY <1>1, <1>2, <1>9, <2>2, OnwardStep
<1>10. CASE job' = [job EXCEPT ![s] = read] /\ told' = told
  <2>1. j = [todo |-> j.todo, at |-> j.at, file |-> j.file, text |-> j.text, says |-> j.says]
    BY <1>2 DEF JobSound
  <2> DEFINE opened == [j EXCEPT !.at = "open"]
             placed == [opened EXCEPT !.file = f]
             full == [placed EXCEPT !.text = text]
  <2>2. opened = [todo |-> j.todo, at |-> "open", file |-> j.file, text |-> j.text,
                  says |-> j.says]
    BY <2>1
  <2>3. read = full
    OBVIOUS
  <2> HIDE DEF read, opened
  <2>4. placed = [todo |-> j.todo, at |-> "open", file |-> f, text |-> j.text, says |-> j.says]
    BY <2>2
  <2> HIDE DEF placed
  <2>5. full = [todo |-> j.todo, at |-> "open", file |-> f, text |-> text, says |-> j.says]
    BY <2>4
  <2> HIDE DEF full
  <2>6. read.todo = j.todo /\ read.at = "open" /\ read.file = f /\ read.text = text
        /\ read.says = j.says
    BY <2>3, <2>5
  <2>7. FileOf(w)' = f
    BY <1>1, <1>4 DEF FileOf, applied_file
  <2>8. PICK new : new = read
    OBVIOUS
  <2>9. Fits(j.todo, j.says)'
    BY <1>1, <1>2, FilesStill DEF Alone
  <2>10. Hand(new)'
    <3>1. Fits(new.todo, new.says)'
      BY <2>6, <2>8, <2>9
    <3>2. new.at = "open" /\ new.file = f /\ new.text = text /\ new.todo[1] = w
      BY <1>3, <2>6, <2>8
    <3>3. (Rewritten(w, file[f]))' = text
      BY <1>1, <1>5 DEF Rewritten
    <3> QED BY <2>7, <3>1, <3>2, <3>3 DEF Hand
  <2>11. job' = [job EXCEPT ![s] = new] /\ UNCHANGED <<file, told>>
    BY <1>1, <1>10, <2>8
  <2> QED BY <2>10, <2>11, HandsStep
<1> QED BY <1>8, <1>9, <1>10

\* A step on within write_atomic that leaves the files alone.
LEMMA MoveAlone ==
    ASSUME OneAtATime, Accounted, Accounted', Alone, NEW s \in Session, Busy(s),
           job[s].at # "read", UNCHANGED <<file, told>>,
           NEW at \in {"fill", "rename"}, Move(s, at),
           at = "fill" => tmp'[job[s].file] \in Cuts(job[s].text),
           at = "rename" => tmp'[job[s].file] = job[s].text
    PROVE  Alone' /\ Kept
<1>1. PICK S, j : /\ j = job[s] /\ j # Idle
                  /\ Fits(j.todo, j.says)
                  /\ JobSound(asked, j)
  BY InHand
<1>2. job = [x \in Session |-> job[x]]
  BY DEF Accounted
<1>3. PICK new : new = [j EXCEPT !.at = at]
  OBVIOUS
<1>4. job' = [job EXCEPT ![s] = new]
  BY <1>1, <1>2, <1>3 DEF Move
<1>5. new = [todo |-> j.todo, at |-> at, file |-> j.file, text |-> j.text, says |-> j.says]
  BY <1>1, <1>3, AtElsewhere DEF JobSound
<1>6. new.todo = j.todo /\ new.at = at /\ new.file = j.file /\ new.text = j.text
      /\ new.says = j.says
  BY <1>5
<1>7. Fits(new.todo, new.says)'
  <2>1. Fits(j.todo, j.says)'
    BY <1>1, FilesStill DEF Alone
  <2> QED BY <1>6, <2>1
<1>8. PICK w, f : w = j.todo[1] /\ f = j.file
  OBVIOUS
<1>9. f = FileOf(w) /\ j.text = Rewritten(w, file[f])
  BY <1>1, <1>8 DEF Alone, Hand
<1>10. FileOf(w)' = f
  BY <1>9 DEF FileOf, applied_file
<1>11. (Rewritten(w, file[f]))' = j.text
  BY <1>9 DEF Rewritten
<1>12. Hand(new)'
  BY <1>1, <1>6, <1>7, <1>8, <1>10, <1>11 DEF Hand
<1> QED BY <1>4, <1>12, HandsStep

\* The temporary is truncated ...
LEMMA OpenAlone ==
    ASSUME OneAtATime, Accounted, Accounted', Alone, NEW s \in Session, Open(s)
    PROVE  Alone' /\ Kept
<1>1. Busy(s) /\ job[s].at = "open" /\ Move(s, "fill") /\ UNCHANGED <<file, told>>
      /\ \E c \in Cuts(job[s].text) : tmp' = [tmp EXCEPT ![job[s].file] = c]
  BY DEF Open, At
<1>2. job[s].file \in File /\ DOMAIN tmp = File
  BY <1>1, InHand DEF Accounted
<1>3. tmp'[job[s].file] \in Cuts(job[s].text)
  BY <1>1, <1>2
<1> QED BY <1>1, <1>3, MoveAlone

\* A text written on from a beginning of it is that text.
LEMMA CutFilled ==
    ASSUME NEW text, NEW old \in Cuts(text)
    PROVE  Filled(old, text) = {text}
<1>1. old = [whole |-> old.whole, baseline |-> old.baseline, applied |-> old.applied, log |-> old.log]
      /\ old.whole = FALSE
  BY DEF Cuts
<1>2. [old EXCEPT !.whole = FALSE] = old
  BY <1>1
<1> QED BY <1>2 DEF Filled

\* ... filled through the handle ...
LEMMA FillAlone ==
    ASSUME OneAtATime, Accounted, Accounted', Alone, NEW s \in Session, Fill(s)
    PROVE  Alone' /\ Kept
<1>1. Busy(s) /\ job[s].at \in {"fill", "fill over", "fill nothing"}
  BY DEF Fill, At
<1>2. job[s].at = "fill" /\ tmp[job[s].file] \in Cuts(job[s].text)
  BY <1>1 DEF Alone, Hand
<1>3. /\ \E c \in Filled(tmp[job[s].file], job[s].text) : tmp' = [tmp EXCEPT ![job[s].file] = c]
      /\ Move(s, "rename") /\ UNCHANGED <<file, told>>
  BY <1>2 DEF Fill, At
<1>4. Filled(tmp[job[s].file], job[s].text) = {job[s].text}
  BY <1>2, CutFilled
<1>5. job[s].file \in File /\ DOMAIN tmp = File
  BY <1>1, InHand DEF Accounted
<1>6. tmp'[job[s].file] = job[s].text
  BY <1>2, <1>3, <1>4, <1>5
<1> QED BY <1>1, <1>2, <1>3, <1>6, MoveAlone

\* ... and renamed over the file: the rewrite at the head is made.
LEMMA RenameAlone ==
    ASSUME OneAtATime, Accounted, Accounted', Alone, NEW s \in Session, Rename(s)
    PROVE  Alone' /\ Kept
<1>1. Busy(s) /\ job[s].at = "rename" /\ Exits(s)
      /\ file' = [file EXCEPT ![job[s].file] = tmp[job[s].file]]
      /\ job'[s] = Onward(job[s])
  BY DEF Rename, At
<1>2. /\ job[s].file = FileOf(job[s].todo[1])
      /\ tmp[job[s].file] = Rewritten(job[s].todo[1], file[job[s].file])
  BY <1>1 DEF Alone, Hand
<1>3. Made(job[s].todo[1])
  BY <1>1, <1>2 DEF Made
<1> QED BY <1>1, <1>3, OnwardStep

\* A command that is cut short leaves the files as they are.
LEMMA CutShort ==
    ASSUME OneAtATime, Accounted, Accounted', Alone, NEW s \in Session,
           UNCHANGED <<file, told>>, job' = [job EXCEPT ![s] = Idle]
    PROVE  Alone' /\ Kept
<1>1. PICK new : new = Idle
  OBVIOUS
<1>2. Hand(new)'
  BY <1>1, IdleHand
<1> QED BY <1>1, <1>2, HandsStep

\* Every step of one command at a time.
LEMMA NextAlone ==
    ASSUME OneAtATime, Accounted, Alone, [Next]_vars
    PROVE  Alone' /\ Kept
<1>1. Accounted'
  BY NextAccounted
<1>2. CASE UNCHANGED vars
  <2>1. Kept /\ Alone'
    <3>1. file' = file /\ told' = told /\ job' = job /\ tmp' = tmp
      BY <1>2 DEF vars
    <3>2. FilesWhole /\ SaidHolds(told)
      BY ReportedMeans DEF Alone
    <3>3. Kept /\ SaidHolds(told)'
      BY <3>1, <3>2, FilesStill
    <3>4. ReportedKept' /\ FilesWhole'
      BY <1>1, <3>3, ReportedMeansNext DEF Kept
    <3>5. \A s \in Session : Hand(job[s])'
      <4> SUFFICES ASSUME NEW s \in Session PROVE Hand(job[s])'
        OBVIOUS
      <4>1. PICK j : j = job[s]
        OBVIOUS
      <4>2. Hand(j)
        BY <4>1 DEF Alone
      <4>3. PICK w, f : w = j.todo[1] /\ f = j.file
        OBVIOUS
      <4>4. FileOf(w)' = FileOf(w) /\ (Rewritten(w, file[f]))' = Rewritten(w, file[f])
        BY <3>1 DEF FileOf, applied_file, Rewritten
      <4>5. Fits(j.todo, j.says) => Fits(j.todo, j.says)'
        BY <3>1, <3>2, FilesStill
      <4> QED BY <3>1, <4>1, <4>2, <4>3, <4>4, <4>5 DEF Hand
    <3> QED BY <3>3, <3>4, <3>5 DEF Alone
  <2> QED BY <2>1
<1>3. ASSUME NEW s \in Session, Start(s) PROVE Alone' /\ Kept
  BY <1>1, <1>3, ReceiptAlone, ListAlone, RecordAlone, AdvanceAlone, MigrateAlone DEF Start
<1>4. ASSUME NEW s \in Session, Step(s) PROVE Alone' /\ Kept
  <2>1. CASE RenameFails(s)
    BY <1>1, <2>1, CutShort DEF RenameFails
  <2> QED BY <1>1, <1>4, <2>1, ReadAlone, OpenAlone, FillAlone, RenameAlone DEF Step
<1>5. ASSUME NEW s \in Session, Crash(s) PROVE Alone' /\ Kept
  BY <1>1, <1>5, CutShort DEF Crash
<1> QED BY <1>2, <1>3, <1>4, <1>5 DEF Next

\* At first the files are whole, and what they hold is all that was reported.
LEMMA InitAlone == Init => Alone
<1> SUFFICES ASSUME Init PROVE Alone
  OBVIOUS
<1>1. Accounted
  BY InitAccounted
<1>2. PICK base \in {0} \cup Revision .. LastEntry,
           lines \in SUBSET [entry : Entry, via : {"satisfied"}], log \in LegacyLogs :
        /\ file = [host      |-> [Blank EXCEPT !.baseline = base, !.applied = lines],
                   receipts  |-> [Blank EXCEPT !.log = log],
                   lifecycle |-> Blank]
        /\ told = {log[i] : i \in DOMAIN log}
  BY DEF Init
<1>3. FilesWhole
  <2>1. /\ file["host"] = [Blank EXCEPT !.baseline = base, !.applied = lines]
        /\ file["receipts"] = [Blank EXCEPT !.log = log]
        /\ file["lifecycle"] = Blank
    BY <1>2
  <2>2. file["host"].whole /\ file["receipts"].whole /\ file["lifecycle"].whole
    BY <2>1 DEF Blank
  <2> QED BY <2>2 DEF FilesWhole, File
<1>4. file["receipts"].log = log
  BY <1>2 DEF Blank
<1>5. told = Range(log) /\ Range(log) \subseteq Logged
  BY <1>2, <1>4 DEF Range, Logged
<1>6. told \subseteq Receipt
  <2>1. log \in Seq(Receipt)
    BY <1>1, <1>4, FilesTyped
  <2> QED BY <1>2, <2>1
<1>7. SaidHolds(told)
  BY <1>5, <1>6 DEF SaidHolds
<1>8. \A s \in Session : job[s] = Idle
  BY DEF Init
<1>9. Hand(Idle)
  BY DEF Hand, Idle, Command
<1>10. \A s \in Session : Hand(job[s])
  BY <1>8, <1>9
<1> QED BY <1>1, <1>3, <1>7, <1>10, ReportedMeans DEF Alone

-----------------------------------------------------------------------------
(* What holds of every execution. *)

\* However many sessions overlap and die, files, temporaries and commands hold
\* what they can hold (write_atomic, the record verbs).
THEOREM RecordsTyped == Spec => []TypeOK
<1>1. Spec => []Accounted
  BY InitAccounted, NextAccounted, PTL DEF Spec
<1> QED BY <1>1, AccountedTyped, PTL

\* While commands run one at a time the invariant of their rewrites holds.
LEMMA AlwaysAlone == ASSUME OneAtATime PROVE Spec => [](Accounted /\ Alone)
<1>1. Accounted /\ Alone /\ [Next]_vars => (Accounted /\ Alone)'
  BY NextAccounted, NextAlone
<1> QED BY <1>1, InitAccounted, InitAlone, PTL DEF Spec

\* With one command at a time, killed anywhere, no file is ever seen truncated or
\* mixed (write_atomic).
THEOREM WholeAlone == ASSUME OneAtATime PROVE Spec => []FilesWhole
<1>1. Alone => FilesWhole
  BY DEF Alone
<1> QED BY <1>1, AlwaysAlone, PTL

\* ... what a command reported stays on record through every later record,
\* advance, migration and crash (receipt, upgrade, migrate_receipts).
THEOREM ReportedAlone == ASSUME OneAtATime PROVE Spec => []ReportedKept
<1>1. Alone => ReportedKept
  BY DEF Alone
<1> QED BY <1>1, AlwaysAlone, PTL

\* ... once nothing legacy is left in the stamp and in `.host-receipts`, no
\* command puts it back (applied_file, append_receipt).
THEOREM LayoutAlone == ASSUME OneAtATime PROVE Spec => NewLayoutStays
<1>1. Accounted /\ Alone /\ [Next]_vars => [NewLayout => NewLayout']_vars
  BY NextAlone DEF Kept
<1> QED BY <1>1, AlwaysAlone, PTL DEF Spec, NewLayoutStays

\* ... and the record files are the applied set they promise: it grows by one
\* entry whose prerequisites are applied, and never shrinks (upgrade).
THEOREM RecordIsAppliedSet == ASSUME OneAtATime PROVE Spec => ImplementsApplied
<1>1. Init => AppliedRecord!AppliedInit
  BY DEF Init, Consistent, Applied, AppliedRecord!AppliedInit, AppliedRecord!Closed
<1>2. Accounted /\ Alone /\ [Next]_vars => [AppliedRecord!AppliedNext]_Applied
  <2> SUFFICES ASSUME Accounted, Alone, [Next]_vars
               PROVE  [AppliedRecord!AppliedNext]_Applied
    OBVIOUS
  <2>1. Grown
    BY NextAlone DEF Kept
  <2> QED BY <2>1 DEF Grown, AppliedRecord!AppliedNext, AppliedRecord!Apply
<1> QED BY <1>1, <1>2, AlwaysAlone, PTL
        DEF Spec, ImplementsApplied, AppliedRecord!AppliedSpec
=============================================================================
