----------------------------- MODULE WhereProofs -----------------------------
(***************************************************************************)
(* The safety of materialize and teardown for every recipe, every number   *)
(* of components and worktrees and every selection, with failures and      *)
(* kills at every step and the operator at work between two commands.      *)
(***************************************************************************)
EXTENDS WhereProperties, WellFoundedInduction, TLAPS

(* Lists of steps. *)

\* Somewhere in the list; before every b an a; after every a a b.
In(x, t) == \E i \in DOMAIN t : t[i] = x
Before(t, a, b) == \A i \in DOMAIN t : t[i] = b => \E j \in 1 .. (i - 1) : t[j] = a
After(t, a, b) == \A i \in DOMAIN t : t[i] = a => \E j \in DOMAIN t : j > i /\ t[j] = b

\* The elements of two lists one after the other.
LEMMA Cat ==
    ASSUME NEW S, NEW s \in Seq(S), NEW t \in Seq(S)
    PROVE  /\ s \o t \in Seq(S)
           /\ Len(s) \in Nat /\ Len(t) \in Nat
           /\ DOMAIN s = 1 .. Len(s) /\ DOMAIN t = 1 .. Len(t)
           /\ DOMAIN (s \o t) = 1 .. (Len(s) + Len(t))
           /\ \A i \in 1 .. Len(s) : (s \o t)[i] = s[i]
           /\ \A i \in 1 .. Len(t) : (s \o t)[Len(s) + i] = t[i]
OBVIOUS

\* Where an element of two lists one after the other comes from.
LEMMA CatAt ==
    ASSUME NEW S, NEW s \in Seq(S), NEW t \in Seq(S), NEW i \in DOMAIN (s \o t)
    PROVE  \/ i \in DOMAIN s /\ (s \o t)[i] = s[i]
           \/ \E k \in DOMAIN t : i = Len(s) + k /\ (s \o t)[i] = t[k]
<1>1. CASE i <= Len(s)
  BY <1>1, Cat
<1>2. CASE i > Len(s)
  <2>1. i - Len(s) \in DOMAIN t /\ i = Len(s) + (i - Len(s))
    BY <1>2, Cat
  <2> QED BY <2>1, Cat
<1> QED BY <1>1, <1>2, Cat

\* What is in one of them is in both together, and nothing else.
LEMMA InCat ==
    ASSUME NEW S, NEW s \in Seq(S), NEW t \in Seq(S), NEW x
    PROVE  In(x, s \o t) <=> In(x, s) \/ In(x, t)
<1>1. ASSUME In(x, s) PROVE In(x, s \o t)
  <2>1. PICK i \in 1 .. Len(s) : s[i] = x
    BY <1>1, Cat DEF In
  <2>2. i \in DOMAIN (s \o t) /\ (s \o t)[i] = x
    BY <2>1, Cat
  <2> QED BY <2>2 DEF In
<1>2. ASSUME In(x, t) PROVE In(x, s \o t)
  <2>1. PICK i \in 1 .. Len(t) : t[i] = x
    BY <1>2, Cat DEF In
  <2>2. Len(s) + i \in DOMAIN (s \o t) /\ (s \o t)[Len(s) + i] = x
    BY <2>1, Cat
  <2> QED BY <2>2 DEF In
<1>3. ASSUME In(x, s \o t) PROVE In(x, s) \/ In(x, t)
  BY <1>3, CatAt DEF In
<1> QED BY <1>1, <1>2, <1>3

\* An order that each of them keeps is kept.
LEMMA BeforeCat ==
    ASSUME NEW S, NEW s \in Seq(S), NEW t \in Seq(S), NEW a, NEW b,
           Before(s, a, b), Before(t, a, b) \/ In(a, s)
    PROVE  Before(s \o t, a, b)
<1> SUFFICES ASSUME NEW i \in DOMAIN (s \o t), (s \o t)[i] = b
             PROVE  \E j \in 1 .. (i - 1) : (s \o t)[j] = a
  BY DEF Before
<1>1. CASE i \in DOMAIN s /\ (s \o t)[i] = s[i]
  <2>1. PICK j \in 1 .. (i - 1) : s[j] = a
    BY <1>1 DEF Before
  <2>2. j \in 1 .. Len(s)
    BY <1>1, <2>1, Cat
  <2> QED BY <2>1, <2>2, Cat
<1>2. ASSUME NEW k \in DOMAIN t, i = Len(s) + k, (s \o t)[i] = t[k]
      PROVE  \E j \in 1 .. (i - 1) : (s \o t)[j] = a
  <2>1. CASE In(a, s)
    <3>1. PICK j \in 1 .. Len(s) : s[j] = a
      BY <2>1, Cat DEF In
    <3>2. j \in 1 .. (i - 1)
      BY <1>2, <3>1, Cat
    <3> QED BY <3>1, <3>2, Cat
  <2>2. CASE Before(t, a, b)
    <3>1. PICK j \in 1 .. (k - 1) : t[j] = a
      BY <1>2, <2>2 DEF Before
    <3>2. j \in 1 .. Len(t) /\ Len(s) + j \in 1 .. (i - 1)
      BY <1>2, <3>1, Cat
    <3> QED BY <3>1, <3>2, Cat
  <2> QED BY <2>1, <2>2
<1> QED BY <1>1, <1>2, CatAt

\* The same of what follows.
LEMMA AfterCat ==
    ASSUME NEW S, NEW s \in Seq(S), NEW t \in Seq(S), NEW a, NEW b,
           After(s, a, b) \/ In(b, t), After(t, a, b)
    PROVE  After(s \o t, a, b)
<1> SUFFICES ASSUME NEW i \in DOMAIN (s \o t), (s \o t)[i] = a
             PROVE  \E j \in DOMAIN (s \o t) : j > i /\ (s \o t)[j] = b
  BY DEF After
<1>1. CASE i \in DOMAIN s /\ (s \o t)[i] = s[i]
  <2>1. CASE In(b, t)
    <3>1. PICK j \in 1 .. Len(t) : t[j] = b
      BY <2>1, Cat DEF In
    <3>2. Len(s) + j \in DOMAIN (s \o t) /\ Len(s) + j > i
      BY <1>1, <3>1, Cat
    <3> QED BY <3>1, <3>2, Cat
  <2>2. CASE After(s, a, b)
    <3>1. PICK j \in DOMAIN s : j > i /\ s[j] = b
      BY <1>1, <2>2 DEF After
    <3>2. j \in DOMAIN (s \o t)
      BY <3>1, Cat
    <3> QED BY <3>1, <3>2, Cat
  <2> QED BY <2>1, <2>2
<1>2. ASSUME NEW k \in DOMAIN t, i = Len(s) + k, (s \o t)[i] = t[k]
      PROVE  \E j \in DOMAIN (s \o t) : j > i /\ (s \o t)[j] = b
  <2>1. PICK j \in DOMAIN t : j > k /\ t[j] = b
    BY <1>2 DEF After
  <2>2. Len(s) + j \in DOMAIN (s \o t) /\ Len(s) + j > i
    BY <1>2, <2>1, Cat
  <2> QED BY <2>1, <2>2, Cat
<1> QED BY <1>1, <1>2, CatAt

\* The head gone.
LEMMA Tails ==
    ASSUME NEW S, NEW t \in Seq(S), t # << >>
    PROVE  /\ Tail(t) \in Seq(S) /\ Head(t) \in S
           /\ 1 \in DOMAIN t /\ t[1] = Head(t)
           /\ Len(t) \in Nat /\ DOMAIN t = 1 .. Len(t)
           /\ DOMAIN Tail(t) = 1 .. (Len(t) - 1)
           /\ \A i \in 1 .. (Len(t) - 1) : Tail(t)[i] = t[i + 1]
OBVIOUS

\* What is in the list is its head or in its tail.
LEMMA InTail ==
    ASSUME NEW S, NEW t \in Seq(S), t # << >>, NEW x
    PROVE  In(x, t) <=> x = Head(t) \/ In(x, Tail(t))
<1>1. ASSUME In(x, t), x # Head(t) PROVE In(x, Tail(t))
  <2>1. PICK i \in DOMAIN t : t[i] = x
    BY <1>1 DEF In
  <2>2. i - 1 \in DOMAIN Tail(t) /\ Tail(t)[i - 1] = x
    BY <1>1, <2>1, Tails
  <2> QED BY <2>2 DEF In
<1>2. ASSUME In(x, Tail(t)) PROVE In(x, t)
  <2>1. PICK i \in DOMAIN Tail(t) : Tail(t)[i] = x
    BY <1>2 DEF In
  <2>2. i + 1 \in DOMAIN t /\ t[i + 1] = x
    BY <2>1, Tails
  <2> QED BY <2>2 DEF In
<1>3. x = Head(t) => In(x, t)
  BY Tails DEF In
<1> QED BY <1>1, <1>2, <1>3

\* An order outlives the head, unless the head was its first half.
LEMMA BeforeTail ==
    ASSUME NEW S, NEW t \in Seq(S), t # << >>, NEW a, NEW b, Before(t, a, b), a # Head(t)
    PROVE  Before(Tail(t), a, b)
<1> SUFFICES ASSUME NEW i \in DOMAIN Tail(t), Tail(t)[i] = b
             PROVE  \E j \in 1 .. (i - 1) : Tail(t)[j] = a
  BY DEF Before
<1>1. i + 1 \in DOMAIN t /\ t[i + 1] = b /\ i \in 1 .. (Len(t) - 1) /\ Len(t) \in Nat
  BY Tails
<1>2. PICK j \in 1 .. i : t[j] = a
  <2>1. (i + 1) - 1 = i
    BY <1>1
  <2> QED BY <1>1, <2>1 DEF Before
<1>3. j # 1
  BY <1>2, Tails
<1>4. j - 1 \in 1 .. (i - 1) /\ j - 1 \in 1 .. (Len(t) - 1) /\ (j - 1) + 1 = j
  BY <1>1, <1>2, <1>3
<1>5. Tail(t)[j - 1] = a
  BY <1>2, <1>4, Tails
<1> QED BY <1>4, <1>5

\* The head is not preceded by anything.
LEMMA BeforeHead ==
    ASSUME NEW S, NEW t \in Seq(S), t # << >>, NEW a, Before(t, a, Head(t))
    PROVE  FALSE
<1>1. 1 \in DOMAIN t /\ t[1] = Head(t)
  BY Tails
<1>2. PICK j \in 1 .. (1 - 1) : t[j] = a
  BY <1>1 DEF Before
<1> QED BY <1>2

\* What follows outlives the head.
LEMMA AfterTail ==
    ASSUME NEW S, NEW t \in Seq(S), t # << >>, NEW a, NEW b, After(t, a, b)
    PROVE  /\ After(Tail(t), a, b)
           /\ a = Head(t) => In(b, Tail(t))
<1>1. ASSUME NEW i \in DOMAIN Tail(t), Tail(t)[i] = a
      PROVE  \E j \in DOMAIN Tail(t) : j > i /\ Tail(t)[j] = b
  <2>1. i + 1 \in DOMAIN t /\ t[i + 1] = a
    BY <1>1, Tails
  <2>2. PICK j \in DOMAIN t : j > i + 1 /\ t[j] = b
    BY <2>1 DEF After
  <2>3. j - 1 \in DOMAIN Tail(t) /\ j - 1 > i /\ Tail(t)[j - 1] = b
    BY <1>1, <2>2, Tails
  <2> QED BY <2>3
<1>2. ASSUME a = Head(t) PROVE In(b, Tail(t))
  <2>1. 1 \in DOMAIN t /\ t[1] = a
    BY <1>2, Tails
  <2>2. PICK j \in DOMAIN t : j > 1 /\ t[j] = b
    BY <2>1 DEF After
  <2>3. j - 1 \in DOMAIN Tail(t) /\ Tail(t)[j - 1] = b
    BY <2>2, Tails
  <2> QED BY <2>3 DEF In
<1> QED BY <1>1, <1>2 DEF After

-----------------------------------------------------------------------------
(* Lists of lists. *)

\* Induction over the naturals, for a set.
LEMMA Induct ==
    ASSUME NEW S, 0 \in S, \A n \in Nat : n \in S => n + 1 \in S
    PROVE  Nat \subseteq S
<1> DEFINE T == Nat \ S
<1>1. SUFFICES ASSUME T # {} PROVE FALSE
  OBVIOUS
<1>2. IsWellFoundedOn(OpToRel(<, Nat), Nat)
  BY NatLessThanWellFounded
<1>3. PICK m \in T : \A k \in T : <<k, m>> \notin OpToRel(<, Nat)
  <2> T \subseteq Nat
    OBVIOUS
  <2> HIDE DEF T
  <2> QED BY <1>1, <1>2, WFMin
<1>4. m \in Nat /\ m # 0 /\ m - 1 \in Nat /\ m - 1 < m
  OBVIOUS
<1>5. << m - 1, m >> \in OpToRel(<, Nat)
  BY <1>4 DEF OpToRel
<1>6. m - 1 \in S
  BY <1>3, <1>4, <1>5
<1> QED BY <1>4, <1>6

\* One step of FlattenSeq.
Flat(q, g, i) == IF i = 1 THEN q[i] ELSE g[i - 1] \o q[i]

\* The recursion of FlattenSeq has a solution.
LEMMA FlatSome ==
    ASSUME NEW q, NEW n \in Nat
    PROVE  \E g : g = [i \in 1 .. n |-> Flat(q, g, i)]
<1> DEFINE S == {k \in Nat : \E g : g = [i \in 1 .. k |-> Flat(q, g, i)]}
<1>1. 0 \in S
  <2> DEFINE g == [i \in 1 .. 0 |-> << >>]
  <2>1. g = [i \in 1 .. 0 |-> Flat(q, g, i)]
    OBVIOUS
  <2> HIDE DEF g
  <2>2. \E h : h = [i \in 1 .. 0 |-> Flat(q, h, i)]
    BY <2>1
  <2> QED BY <2>2
<1>2. ASSUME NEW k \in Nat, k \in S
      PROVE  k + 1 \in S
  <2>1. PICK g : g = [i \in 1 .. k |-> Flat(q, g, i)]
    BY <1>2
  <2> DEFINE h == [i \in 1 .. k + 1 |-> IF i = k + 1 THEN Flat(q, g, i) ELSE g[i]]
  <2>2. \A i \in 1 .. k : h[i] = g[i]
    OBVIOUS
  <2>3. ASSUME NEW i \in 1 .. k + 1
        PROVE  h[i] = Flat(q, h, i)
    <3>1. h[i] = Flat(q, g, i)
      <4>1. CASE i = k + 1
        BY <4>1
      <4>2. CASE i # k + 1
        <5>1. i \in 1 .. k
          BY <4>2
        <5>2. g[i] = Flat(q, g, i)
          BY <2>1, <5>1
        <5> QED BY <2>2, <5>1, <5>2
      <4> QED BY <4>1, <4>2
    <3>2. i # 1 => h[i - 1] = g[i - 1]
      <4>1. i # 1 => i - 1 \in 1 .. k
        OBVIOUS
      <4> HIDE DEF h
      <4> QED BY <2>2, <4>1
    <3> HIDE DEF h
    <3>3. Flat(q, g, i) = Flat(q, h, i)
      BY <3>2 DEF Flat
    <3> QED BY <3>1, <3>3
  <2>4. h = [i \in 1 .. k + 1 |-> Flat(q, h, i)]
    <3>1. h = [i \in 1 .. k + 1 |-> h[i]]
      OBVIOUS
    <3> HIDE DEF h
    <3> QED BY <2>3, <3>1
  <2> HIDE DEF h
  <2>5. \E f : f = [i \in 1 .. k + 1 |-> Flat(q, f, i)]
    BY <2>4
  <2> QED BY <2>5
<1>3. n \in S
  <2> HIDE DEF S
  <2> QED BY <1>1, <1>2, Induct
<1> QED BY <1>3

\* What the first k lists of q make of t.
Made_of(S, q, k, t) ==
    /\ t \in Seq(S)
    /\ \A x : In(x, t) <=> \E i \in 1 .. k : In(x, q[i])
    /\ \A a, b : (\A i \in 1 .. k : Before(q[i], a, b)) => Before(t, a, b)
    /\ \A a, b : (\A i \in 1 .. k : After(q[i], a, b)) => After(t, a, b)

\* Lists one after the other hold what each of them holds, in the order each has.
LEMMA Flattened ==
    ASSUME NEW S, NEW q, q \in Seq(Seq(S))
    PROVE  Made_of(S, q, Len(q), FlattenSeq(q))
<1>1. Len(q) \in Nat /\ DOMAIN q = 1 .. Len(q) /\ \A i \in 1 .. Len(q) : q[i] \in Seq(S)
  OBVIOUS
<1>2. CASE Len(q) = 0
  <2>1. FlattenSeq(q) = << >>
    BY <1>2 DEF FlattenSeq
  <2>2. << >> \in Seq(S) /\ DOMAIN << >> = {}
    OBVIOUS
  <2> QED BY <1>2, <2>1, <2>2 DEF Made_of, In, Before, After
<1>3. CASE Len(q) # 0
  <2> DEFINE flat == CHOOSE g : g = [i \in 1 .. Len(q) |-> Flat(q, g, i)]
  <2>1. FlattenSeq(q) = flat[Len(q)]
    BY <1>3 DEF FlattenSeq, Flat
  <2>2. flat = [i \in 1 .. Len(q) |-> Flat(q, flat, i)]
    <3>1. \E g : g = [i \in 1 .. Len(q) |-> Flat(q, g, i)]
      BY <1>1, FlatSome
    <3> QED BY <3>1
  <2> HIDE DEF flat
  <2> DEFINE T == {k \in Nat : k + 1 <= Len(q) => Made_of(S, q, k + 1, flat[k + 1])}
  <2>3. 0 \in T
    <3>1. 1 \in 1 .. Len(q)
      BY <1>1, <1>3
    <3>2. flat[1] = q[1] /\ q[1] \in Seq(S)
      BY <1>1, <2>2, <3>1 DEF Flat
    <3>3. \A i : i \in 1 .. 1 <=> i = 1
      OBVIOUS
    <3>4. Made_of(S, q, 1, flat[1])
      BY <3>2, <3>3 DEF Made_of
    <3>5. 0 + 1 = 1
      OBVIOUS
    <3> QED BY <3>4, <3>5
  <2>4. ASSUME NEW k \in Nat, k \in T PROVE k + 1 \in T
    <3> SUFFICES ASSUME (k + 1) + 1 <= Len(q)
                 PROVE  Made_of(S, q, (k + 1) + 1, flat[(k + 1) + 1])
      OBVIOUS
    <3> DEFINE n == k + 1
               t == flat[n]
               last == q[n + 1]
    <3>1. /\ n \in Nat /\ n >= 1 /\ n + 1 \in 1 .. Len(q) /\ n \in 1 .. Len(q)
          /\ n + 1 # 1 /\ (n + 1) - 1 = n
      BY <1>1
    <3>2. Made_of(S, q, n, t)
      BY <2>4, <3>1
    <3> HIDE DEF n
    <3>3. flat[n + 1] = t \o last
      BY <2>2, <3>1 DEF Flat
    <3>4. last \in Seq(S) /\ t \in Seq(S)
      BY <1>1, <3>1, <3>2 DEF Made_of
    <3>5. \A i : i \in 1 .. (n + 1) <=> i \in 1 .. n \/ i = n + 1
      BY <3>1
    <3> HIDE DEF t
    <3>6. \A x : In(x, t \o last) <=> \E i \in 1 .. (n + 1) : In(x, q[i])
      BY <3>2, <3>4, <3>5, InCat DEF Made_of
    <3>7. \A a, b : (\A i \in 1 .. (n + 1) : Before(q[i], a, b)) => Before(t \o last, a, b)
      BY <3>2, <3>4, <3>5, BeforeCat DEF Made_of
    <3>8. \A a, b : (\A i \in 1 .. (n + 1) : After(q[i], a, b)) => After(t \o last, a, b)
      BY <3>2, <3>4, <3>5, AfterCat DEF Made_of
    <3>9. t \o last \in Seq(S)
      BY <3>4
    <3>10. Made_of(S, q, n + 1, flat[n + 1])
      BY <3>3, <3>6, <3>7, <3>8, <3>9 DEF Made_of
    <3> QED BY <3>10 DEF n
  <2>5. Len(q) - 1 \in Nat /\ (Len(q) - 1) + 1 = Len(q)
    BY <1>1, <1>3
  <2>6. Len(q) - 1 \in T
    <3> HIDE DEF T
    <3> QED BY <2>3, <2>4, <2>5, Induct
  <2>7. Made_of(S, q, Len(q), flat[Len(q)])
    BY <1>1, <2>5, <2>6
  <2> QED BY <2>1, <2>7
<1> QED BY <1>2, <1>3

-----------------------------------------------------------------------------
(* What a command has to do. *)

StoreDo == {"migrate", "repair", "clone", "fetch", "link", "prune", "receipt", "inspect", "delete"}
AnyStep ==
    {Step(do, c) : do \in StoreDo, c \in Component}
    \cup {TreeStep(do, w) : do \in {"add", "submodules", "upstream", "remove"}, w \in Worktree}
    \cup {TreeStep("handle", w) : w \in {w \in Worktree : Kind[w] = "stored"}}
    \cup {[do |-> "fingerprint"]}

\* The component of a worktree.
LEMMA HomeIs ==
    /\ \A c \in Component : \A w \in Range(Trees[c]) : w \in Worktree /\ Home(w) = c
    /\ \A w \in Worktree : Home(w) \in Component /\ w \in Range(Trees[Home(w)])
<1>1. ASSUME NEW c \in Component, NEW w \in Range(Trees[c])
      PROVE  w \in Worktree /\ Home(w) = c
  <2>1. \A d \in Component : w \in Range(Trees[d]) => d = c
    BY RecipeAssumption
  <2> QED BY <2>1 DEF Home, Worktree
<1>2. ASSUME NEW w \in Worktree
      PROVE  Home(w) \in Component /\ w \in Range(Trees[Home(w)])
  <2>1. \E c \in Component : w \in Range(Trees[c])
    BY DEF Worktree
  <2> QED BY <2>1 DEF Home
<1> QED BY <1>1, <1>2

\* The components of a selection, and the worktrees of each.
LEMMA Selected ==
    ASSUME NEW sel \in Selection
    PROVE  /\ sel.comps \in Seq(Component)
           /\ DOMAIN sel.comps = 1 .. Len(sel.comps) /\ Len(sel.comps) \in Nat
           /\ \A c \in Range(sel.comps) :
                 /\ c \in Component
                 /\ TreesOf(c, sel) \in Seq(Worktree)
                 /\ \A w \in Range(TreesOf(c, sel)) : Home(w) = c /\ w \in Asked(sel)
           /\ \A w \in Asked(sel) :
                 /\ w \in Worktree
                 /\ Home(w) \in Range(sel.comps)
                 /\ w \in Range(TreesOf(Home(w), sel))
           /\ ~Named(sel) => \A c : TreesOf(c, sel) = Trees[c]
<1>1. sel.comps \in Seq(Component)
  <2>1. CASE sel = [comps |-> Recipe, only |-> All]
    BY <2>1, RecipeAssumption
  <2>2. ASSUME NEW c \in Component, sel = [comps |-> << c >>, only |-> All]
        PROVE  sel.comps \in Seq(Component)
    BY <2>2
  <2>3. ASSUME NEW w \in Worktree, sel = [comps |-> << Home(w) >>, only |-> w]
        PROVE  sel.comps \in Seq(Component)
    BY <2>3, HomeIs
  <2> QED BY <2>1, <2>2, <2>3 DEF Selection
<1>2. ASSUME NEW c \in Range(sel.comps)
      PROVE  c \in Component
  BY <1>1, <1>2 DEF Range
<1>3. CASE ~Named(sel)
  <2>1. \A c : TreesOf(c, sel) = Trees[c]
    BY <1>3 DEF TreesOf
  <2>2. ASSUME NEW c \in Range(sel.comps)
        PROVE  /\ TreesOf(c, sel) \in Seq(Worktree)
               /\ \A w \in Range(TreesOf(c, sel)) : Home(w) = c /\ w \in Asked(sel)
    BY <1>2, <2>1, RecipeAssumption, HomeIs DEF Asked
  <2>3. ASSUME NEW w \in Asked(sel)
        PROVE  /\ w \in Worktree /\ Home(w) \in Range(sel.comps)
               /\ w \in Range(TreesOf(Home(w), sel))
    <3>1. PICK c \in Range(sel.comps) : w \in Range(TreesOf(c, sel))
      BY DEF Asked
    <3>2. w \in Range(Trees[c]) /\ c \in Component
      BY <1>2, <2>1, <3>1
    <3> QED BY <3>1, <3>2, HomeIs
  <2> QED BY <1>1, <1>2, <1>3, <2>1, <2>2, <2>3
<1>4. CASE Named(sel)
  <2>1. PICK v \in Worktree : sel = [comps |-> << Home(v) >>, only |-> v]
    BY <1>4 DEF Selection, Named
  <2>2. Range(sel.comps) = {Home(v)} /\ \A c : TreesOf(c, sel) = << v >> /\ Range(<< v >>) = {v}
    BY <1>4, <2>1 DEF TreesOf, Range
  <2>3. Asked(sel) = {v}
    BY <2>2 DEF Asked
  <2>4. << v >> \in Seq(Worktree)
    OBVIOUS
  <2>5. \A c \in Range(sel.comps) :
            /\ TreesOf(c, sel) \in Seq(Worktree)
            /\ \A w \in Range(TreesOf(c, sel)) : Home(w) = c /\ w \in Asked(sel)
    BY <2>2, <2>3, <2>4
  <2>6. \A w \in Asked(sel) :
            w \in Worktree /\ Home(w) \in Range(sel.comps) /\ w \in Range(TreesOf(Home(w), sel))
    BY <2>2, <2>3
  <2>7. DOMAIN sel.comps = 1 .. Len(sel.comps) /\ Len(sel.comps) \in Nat
    BY <1>1
  <2> QED BY <1>1, <1>2, <1>4, <2>5, <2>6, <2>7
<1> QED BY <1>3, <1>4

\* A worktree's steps.
LEMMA TreeStepsHold ==
    ASSUME NEW sel, NEW w \in Worktree
    PROVE  /\ TreeSteps(w, sel) \in Seq(AnyStep)
           /\ \A x : In(x, TreeSteps(w, sel)) <=>
                  \/ x \in {TreeStep("add", w), TreeStep("upstream", w)}
                  \/ Target(w, sel) = "outside" /\ x = TreeStep("handle", w)
<1> DEFINE two == << TreeStep("add", w), TreeStep("upstream", w) >>
           more == IF Target(w, sel) = "outside" THEN << TreeStep("handle", w) >> ELSE << >>
<1>1. TreeSteps(w, sel) = two \o more
  BY DEF TreeSteps
<1>2. TreeStep("add", w) \in AnyStep /\ TreeStep("upstream", w) \in AnyStep
  BY DEF AnyStep
<1>3. two \in Seq(AnyStep) /\ \A x : In(x, two) <=> x \in {TreeStep("add", w), TreeStep("upstream", w)}
  <2>1. two \in Seq(AnyStep)
    BY <1>2
  <2>2. DOMAIN two = {1, 2} /\ two[1] = TreeStep("add", w) /\ two[2] = TreeStep("upstream", w)
    OBVIOUS
  <2> HIDE DEF two
  <2> QED BY <2>1, <2>2 DEF In
<1>4. more \in Seq(AnyStep)
      /\ \A x : In(x, more) <=> Target(w, sel) = "outside" /\ x = TreeStep("handle", w)
  <2>1. CASE Target(w, sel) = "outside"
    <3>1. Kind[w] = "stored"
      BY <2>1 DEF Target, line_target
    <3>2. TreeStep("handle", w) \in AnyStep
      BY <3>1 DEF AnyStep
    <3>3. more = << TreeStep("handle", w) >>
      BY <2>1
    <3>4. DOMAIN more = {1} /\ more[1] = TreeStep("handle", w) /\ more \in Seq(AnyStep)
      BY <3>2, <3>3
    <3> HIDE DEF more
    <3> QED BY <2>1, <3>4 DEF In
  <2>2. CASE Target(w, sel) # "outside"
    <3>1. more = << >>
      BY <2>2
    <3>2. DOMAIN more = {} /\ more \in Seq(AnyStep)
      BY <3>1
    <3> HIDE DEF more
    <3> QED BY <2>2, <3>2 DEF In
  <2> QED BY <2>1, <2>2
<1> HIDE DEF two, more
<1> QED BY <1>1, <1>3, <1>4, InCat

\* A component's steps: its store's, then those of its worktrees.
LEMMA ComponentHolds ==
    ASSUME NEW sel \in Selection, NEW c \in Range(sel.comps)
    PROVE  /\ ComponentSteps(c, sel) \in Seq(AnyStep)
           /\ \A x : In(x, ComponentSteps(c, sel)) <=>
                  \/ x \in {Step("migrate", c), Step("clone", c), Step("link", c), Step("prune", c)}
                  \/ \E w \in Range(TreesOf(c, sel)) : In(x, TreeSteps(w, sel))
           /\ Before(ComponentSteps(c, sel), Step("migrate", c), Step("clone", c))
           /\ \A w \in Range(TreesOf(c, sel)) :
                 /\ Before(ComponentSteps(c, sel), Step("clone", c), TreeStep("add", w))
                 /\ After(ComponentSteps(c, sel), Step("clone", c), TreeStep("upstream", w))
<1> DEFINE ws == TreesOf(c, sel)
           q == [i \in DOMAIN ws |-> TreeSteps(ws[i], sel)]
           trees == FlattenSeq(q)
           top == StoreSteps(c)
<1>1. /\ c \in Component /\ ws \in Seq(Worktree)
      /\ \A w \in Range(ws) : Home(w) = c
  BY Selected
<1>2. ComponentSteps(c, sel) = top \o trees
  BY DEF ComponentSteps, Each
<1> HIDE DEF ws
<1>3. DOMAIN ws = 1 .. Len(ws) /\ Len(ws) \in Nat /\ \A i \in 1 .. Len(ws) : ws[i] \in Worktree
  BY <1>1
<1>4. q \in Seq(Seq(AnyStep)) /\ Len(q) = Len(ws) /\ \A i \in 1 .. Len(ws) : q[i] = TreeSteps(ws[i], sel)
  <2>1. \A i \in 1 .. Len(ws) : TreeSteps(ws[i], sel) \in Seq(AnyStep)
    BY <1>3, TreeStepsHold
  <2> QED BY <1>3, <2>1
<1> HIDE DEF q
<1>5. /\ trees \in Seq(AnyStep)
      /\ \A x : In(x, trees) <=> \E i \in 1 .. Len(ws) : In(x, TreeSteps(ws[i], sel))
  BY <1>4, Flattened DEF Made_of
<1>6. \A x : In(x, trees) <=> \E w \in Range(ws) : In(x, TreeSteps(w, sel))
  <2>1. Range(ws) = {ws[i] : i \in 1 .. Len(ws)}
    BY <1>3 DEF Range
  <2> QED BY <1>5, <2>1
<1> HIDE DEF trees
<1>7. /\ top \in Seq(AnyStep) /\ DOMAIN top = 1 .. 4
      /\ top[1] = Step("migrate", c) /\ top[2] = Step("clone", c)
      /\ top[3] = Step("link", c) /\ top[4] = Step("prune", c)
  <2>1. \A do \in StoreDo : Step(do, c) \in AnyStep
    BY <1>1 DEF AnyStep
  <2> QED BY <2>1 DEF StoreSteps, StoreDo
<1>8. \A x : In(x, top) <=>
          x \in {Step("migrate", c), Step("clone", c), Step("link", c), Step("prune", c)}
  <2>1. DOMAIN top = {1, 2, 3, 4}
    BY <1>7
  <2> HIDE DEF top
  <2> QED BY <1>7, <2>1 DEF In
<1> HIDE DEF top
<1>9. \A x : In(x, ComponentSteps(c, sel)) <=>
          \/ x \in {Step("migrate", c), Step("clone", c), Step("link", c), Step("prune", c)}
          \/ \E w \in Range(ws) : In(x, TreeSteps(w, sel))
  BY <1>2, <1>5, <1>6, <1>7, <1>8, InCat
<1>10. \A x : In(x, trees) => x.do \in {"add", "upstream", "handle"}
  <2>1. \A w \in Range(ws) : w \in Worktree
    BY <1>3 DEF Range
  <2> QED BY <1>6, <2>1, TreeStepsHold DEF TreeStep
<1>11. Before(top \o trees, Step("migrate", c), Step("clone", c))
  <2>1. Before(top, Step("migrate", c), Step("clone", c))
    <3>1. \A i \in 1 .. 4 : i = 1 \/ i = 2 \/ i = 3 \/ i = 4
      OBVIOUS
    <3>2. Step("migrate", c) # Step("clone", c) /\ Step("link", c) # Step("clone", c)
          /\ Step("prune", c) # Step("clone", c)
      BY DEF Step
    <3>3. \A i \in DOMAIN top : top[i] = Step("clone", c) => i = 2
      BY <1>7, <3>1, <3>2
    <3>4. 1 \in 1 .. (2 - 1)
      OBVIOUS
    <3> QED BY <1>7, <3>3, <3>4 DEF Before
  <2>2. In(Step("migrate", c), top)
    BY <1>8
  <2> QED BY <1>5, <1>7, <2>1, <2>2, BeforeCat
<1>12. ASSUME NEW w \in Range(ws)
       PROVE  /\ Before(top \o trees, Step("clone", c), TreeStep("add", w))
              /\ After(top \o trees, Step("clone", c), TreeStep("upstream", w))
  <2>1. w \in Worktree
    BY <1>3 DEF Range
  <2>2. Before(top, Step("clone", c), TreeStep("add", w))
    <3>1. ~In(TreeStep("add", w), top)
      BY <1>8 DEF Step, TreeStep
    <3> QED BY <3>1 DEF Before, In
  <2>3. In(Step("clone", c), top)
    BY <1>8
  <2>4. After(trees, Step("clone", c), TreeStep("upstream", w))
    <3>1. ~In(Step("clone", c), trees)
      BY <1>10 DEF Step
    <3> QED BY <3>1 DEF After, In
  <2>5. In(TreeStep("upstream", w), trees)
    BY <1>6, <2>1, TreeStepsHold
  <2> QED BY <1>5, <1>7, <2>2, <2>3, <2>4, <2>5, BeforeCat, AfterCat
<1>13. top \o trees \in Seq(AnyStep)
  BY <1>5, <1>7
<1> QED BY <1>2, <1>9, <1>11, <1>12, <1>13 DEF ws

\* The receipts come last, and the fingerprint with them.
ReceiptsLast(t) ==
    \A i, j \in DOMAIN t :
        t[i].do \in {"receipt", "fingerprint"} /\ i <= j => t[j].do \in {"receipt", "fingerprint"}

MakeDo == {"migrate", "repair", "clone", "fetch", "link", "prune", "add", "submodules",
           "upstream", "handle", "receipt", "fingerprint"}

\* What materialize has to do: every step of every worktree it was asked for, the
\* migration of a store before its clone, the clone before any worktree of it is
\* added and before its branches get their upstreams, and the receipts last.
LEMMA MaterializeHolds ==
    ASSUME NEW sel \in Selection
    PROVE  /\ Materialize(sel) \in Seq(AnyStep)
           /\ \A x : In(x, Materialize(sel)) => x.do \in MakeDo \ {"fetch"}
           /\ \A w \in Asked(sel) :
                 /\ \A do \in {"migrate", "clone", "link"} : In(Step(do, Home(w)), Materialize(sel))
                 /\ \A do \in {"add", "upstream"} : In(TreeStep(do, w), Materialize(sel))
                 /\ Target(w, sel) = "outside" => In(TreeStep("handle", w), Materialize(sel))
                 /\ After(Materialize(sel), Step("clone", Home(w)), TreeStep("upstream", w))
           /\ \A c \in Component : Before(Materialize(sel), Step("migrate", c), Step("clone", c))
           /\ \A w \in Worktree :
                 Before(Materialize(sel), Step("clone", Home(w)), TreeStep("add", w))
           /\ ReceiptsLast(Materialize(sel))
<1> DEFINE cs == sel.comps
           q == [i \in DOMAIN cs |-> ComponentSteps(cs[i], sel)]
           r == [i \in DOMAIN cs |-> << Step("receipt", cs[i]) >>]
           a == FlattenSeq(q)
           b == FlattenSeq(r)
           e == << [do |-> "fingerprint"] >>
<1>1. Materialize(sel) = (a \o b) \o e
  BY DEF Materialize, Each
<1>2. cs \in Seq(Component) /\ DOMAIN cs = 1 .. Len(cs) /\ Len(cs) \in Nat
      /\ \A i \in 1 .. Len(cs) : cs[i] \in Range(cs) /\ cs[i] \in Component
  BY Selected DEF Range
<1>3. q \in Seq(Seq(AnyStep)) /\ Len(q) = Len(cs)
      /\ \A i \in 1 .. Len(cs) : q[i] = ComponentSteps(cs[i], sel)
  <2>1. \A i \in 1 .. Len(cs) : ComponentSteps(cs[i], sel) \in Seq(AnyStep)
    BY <1>2, ComponentHolds
  <2> HIDE DEF cs
  <2> QED BY <1>2, <2>1
<1>4. r \in Seq(Seq(AnyStep)) /\ Len(r) = Len(cs)
      /\ \A i \in 1 .. Len(cs) : r[i] = << Step("receipt", cs[i]) >>
  <2>1. \A i \in 1 .. Len(cs) : << Step("receipt", cs[i]) >> \in Seq(AnyStep)
    <3>1. \A i \in 1 .. Len(cs) : Step("receipt", cs[i]) \in AnyStep
      BY <1>2 DEF AnyStep, StoreDo
    <3> QED BY <3>1
  <2> HIDE DEF cs
  <2> QED BY <1>2, <2>1
<1>5. e \in Seq(AnyStep) /\ DOMAIN e = {1} /\ e[1] = [do |-> "fingerprint"]
  <2>1. [do |-> "fingerprint"] \in AnyStep
    BY DEF AnyStep
  <2> QED BY <2>1
<1>6. Made_of(AnyStep, q, Len(cs), a) /\ Made_of(AnyStep, r, Len(cs), b)
  <2> HIDE DEF q, r, cs
  <2> QED BY <1>3, <1>4, Flattened
<1> HIDE DEF q, r, a, b, e, cs
<1>7. a \in Seq(AnyStep) /\ b \in Seq(AnyStep) /\ a \o b \in Seq(AnyStep)
  BY <1>6 DEF Made_of
<1>8. \A x : In(x, a) <=> \E i \in 1 .. Len(cs) : In(x, ComponentSteps(cs[i], sel))
  BY <1>3, <1>6 DEF Made_of
<1>9. \A x : In(x, b) => x.do = "receipt"
  <2>1. \A x : \A i \in 1 .. Len(cs) : In(x, r[i]) => x.do = "receipt"
    <3> SUFFICES ASSUME NEW x, NEW i \in 1 .. Len(cs), In(x, r[i]) PROVE x.do = "receipt"
      OBVIOUS
    <3>1. r[i] = << Step("receipt", cs[i]) >>
      BY <1>4
    <3>2. DOMAIN r[i] = {1} /\ r[i][1] = Step("receipt", cs[i])
      BY <3>1
    <3>3. x = Step("receipt", cs[i])
      BY <3>2 DEF In
    <3> QED BY <3>3 DEF Step
  <2> QED BY <1>6, <2>1 DEF Made_of
<1>10. \A x : In(x, e) => x.do = "fingerprint"
  BY <1>5 DEF In
<1>11. \A x : In(x, Materialize(sel)) <=> In(x, a) \/ In(x, b) \/ In(x, e)
  <2>1. \A x : In(x, a \o b) <=> In(x, a) \/ In(x, b)
    BY <1>7, InCat
  <2>2. \A x : In(x, (a \o b) \o e) <=> In(x, a \o b) \/ In(x, e)
    BY <1>5, <1>7, InCat
  <2> QED BY <1>1, <2>1, <2>2
<1>12. \A x : In(x, a) => x.do \in {"migrate", "clone", "link", "prune", "add", "upstream", "handle"}
  <2>1. ASSUME NEW x, NEW i \in 1 .. Len(cs), In(x, ComponentSteps(cs[i], sel))
        PROVE  x.do \in {"migrate", "clone", "link", "prune", "add", "upstream", "handle"}
    <3>1. cs[i] \in Range(sel.comps)
      BY <1>2 DEF cs
    <3>2. CASE x \in {Step("migrate", cs[i]), Step("clone", cs[i]), Step("link", cs[i]),
                      Step("prune", cs[i])}
      BY <3>2 DEF Step
    <3>3. ASSUME NEW w \in Range(TreesOf(cs[i], sel)), In(x, TreeSteps(w, sel))
          PROVE  x.do \in {"add", "upstream", "handle"}
      <4>1. w \in Worktree
        BY <3>1, Selected
      <4> QED BY <3>3, <4>1, TreeStepsHold DEF TreeStep
    <3> QED BY <2>1, <3>1, <3>2, <3>3, ComponentHolds
  <2> QED BY <1>8, <2>1
<1>13. \A x : In(x, Materialize(sel)) => x.do \in MakeDo \ {"fetch"}
  BY <1>9, <1>10, <1>11, <1>12 DEF MakeDo
<1>14. ASSUME NEW x, NEW y, x.do \in {"migrate", "clone"}, y.do \in {"clone", "add", "upstream"}
       PROVE  /\ Before(a, x, y) => Before((a \o b) \o e, x, y)
              /\ After(a, x, y) => After((a \o b) \o e, x, y)
  <2>1. ~In(x, b) /\ ~In(x, e) /\ ~In(y, b) /\ ~In(y, e)
    BY <1>9, <1>10, <1>14
  <2>2. Before(b, x, y) /\ Before(e, x, y) /\ After(b, x, y) /\ After(e, x, y)
    BY <2>1 DEF Before, After, In
  <2>3. Before(a, x, y) => Before((a \o b) \o e, x, y)
    BY <1>5, <1>7, <2>2, BeforeCat
  <2>4. After(a, x, y) => After((a \o b) \o e, x, y)
    BY <1>5, <1>7, <2>2, AfterCat
  <2> QED BY <2>3, <2>4
<1>15. ASSUME NEW c, NEW i \in 1 .. Len(cs), In(Step("clone", c), ComponentSteps(cs[i], sel))
       PROVE  cs[i] = c
  <2>1. cs[i] \in Range(sel.comps)
    BY <1>2 DEF cs
  <2>2. ASSUME NEW w \in Range(TreesOf(cs[i], sel)) PROVE ~In(Step("clone", c), TreeSteps(w, sel))
    <3>1. w \in Worktree
      BY <2>1, <2>2, Selected
    <3> QED BY <3>1, TreeStepsHold DEF Step, TreeStep
  <2>3. Step("clone", c) \in {Step("migrate", cs[i]), Step("clone", cs[i]), Step("link", cs[i]),
                              Step("prune", cs[i])}
    BY <1>15, <2>1, <2>2, ComponentHolds
  <2> QED BY <2>3 DEF Step
<1>16. ASSUME NEW c \in Component
       PROVE  Before(Materialize(sel), Step("migrate", c), Step("clone", c))
  <2>1. ASSUME NEW i \in 1 .. Len(cs)
        PROVE  Before(q[i], Step("migrate", c), Step("clone", c))
    <3>1. cs[i] \in Range(sel.comps)
      BY <1>2 DEF cs
    <3>2. CASE In(Step("clone", c), q[i])
      <4>1. cs[i] = c
        BY <1>3, <1>15, <3>2
      <4> QED BY <1>3, <3>1, <4>1, ComponentHolds
    <3>3. CASE ~In(Step("clone", c), q[i])
      BY <3>3 DEF Before, In
    <3> QED BY <3>2, <3>3
  <2>2. Before(a, Step("migrate", c), Step("clone", c))
    BY <1>6, <2>1 DEF Made_of
  <2>3. Step("migrate", c).do = "migrate" /\ Step("clone", c).do = "clone"
    BY DEF Step
  <2> QED BY <1>1, <1>14, <2>2, <2>3
<1>17. ASSUME NEW w \in Worktree
       PROVE  Before(Materialize(sel), Step("clone", Home(w)), TreeStep("add", w))
  <2>1. ASSUME NEW i \in 1 .. Len(cs)
        PROVE  Before(q[i], Step("clone", Home(w)), TreeStep("add", w))
    <3>1. cs[i] \in Range(sel.comps)
      BY <1>2 DEF cs
    <3>2. CASE In(TreeStep("add", w), q[i])
      <4>1. TreeStep("add", w) \notin {Step("migrate", cs[i]), Step("clone", cs[i]),
                                       Step("link", cs[i]), Step("prune", cs[i])}
        BY DEF Step, TreeStep
      <4>2. PICK v \in Range(TreesOf(cs[i], sel)) : In(TreeStep("add", w), TreeSteps(v, sel))
        BY <1>3, <3>1, <3>2, <4>1, ComponentHolds
      <4>3. v \in Worktree /\ Home(v) = cs[i]
        BY <3>1, <4>2, Selected
      <4>4. v = w
        BY <4>2, <4>3, TreeStepsHold DEF TreeStep
      <4> QED BY <1>3, <3>1, <4>2, <4>3, <4>4, ComponentHolds
    <3>3. CASE ~In(TreeStep("add", w), q[i])
      BY <3>3 DEF Before, In
    <3> QED BY <3>2, <3>3
  <2>2. Before(a, Step("clone", Home(w)), TreeStep("add", w))
    BY <1>6, <2>1 DEF Made_of
  <2>3. Step("clone", Home(w)).do = "clone" /\ TreeStep("add", w).do = "add"
    BY DEF Step, TreeStep
  <2> QED BY <1>1, <1>14, <2>2, <2>3
<1>18. ASSUME NEW w \in Asked(sel)
       PROVE  /\ \A do \in {"migrate", "clone", "link"} : In(Step(do, Home(w)), Materialize(sel))
              /\ \A do \in {"add", "upstream"} : In(TreeStep(do, w), Materialize(sel))
              /\ Target(w, sel) = "outside" => In(TreeStep("handle", w), Materialize(sel))
              /\ After(Materialize(sel), Step("clone", Home(w)), TreeStep("upstream", w))
  <2>1. w \in Worktree /\ Home(w) \in Range(sel.comps) /\ w \in Range(TreesOf(Home(w), sel))
    BY Selected
  <2>2. PICK k \in 1 .. Len(cs) : cs[k] = Home(w)
    BY <1>2, <2>1 DEF Range, cs
  <2>3. \A x : In(x, ComponentSteps(Home(w), sel)) => In(x, Materialize(sel))
    BY <1>8, <1>11, <2>2
  <2>4. \A do \in {"migrate", "clone", "link"} : In(Step(do, Home(w)), Materialize(sel))
    BY <2>1, <2>3, ComponentHolds
  <2>5. \A x : In(x, TreeSteps(w, sel)) => In(x, Materialize(sel))
    BY <2>1, <2>3, ComponentHolds
  <2>6. /\ \A do \in {"add", "upstream"} : In(TreeStep(do, w), Materialize(sel))
        /\ Target(w, sel) = "outside" => In(TreeStep("handle", w), Materialize(sel))
    BY <2>1, <2>5, TreeStepsHold
  <2>7. ASSUME NEW i \in 1 .. Len(cs)
        PROVE  After(q[i], Step("clone", Home(w)), TreeStep("upstream", w))
    <3>1. CASE In(Step("clone", Home(w)), q[i])
      <4>1. cs[i] = Home(w)
        BY <1>3, <1>15, <3>1
      <4> QED BY <1>3, <2>1, <4>1, ComponentHolds
    <3>2. CASE ~In(Step("clone", Home(w)), q[i])
      BY <3>2 DEF After, In
    <3> QED BY <3>1, <3>2
  <2>8. After(a, Step("clone", Home(w)), TreeStep("upstream", w))
    BY <1>6, <2>7 DEF Made_of
  <2>9. Step("clone", Home(w)).do = "clone" /\ TreeStep("upstream", w).do = "upstream"
    BY DEF Step, TreeStep
  <2>10. After(Materialize(sel), Step("clone", Home(w)), TreeStep("upstream", w))
    BY <1>1, <1>14, <2>8, <2>9
  <2> QED BY <2>4, <2>6, <2>10
<1>19. ReceiptsLast(Materialize(sel))
  <2> DEFINE late == {"receipt", "fingerprint"}
             m == Materialize(sel)
  <2>1. \A i \in DOMAIN a : a[i].do \notin late
    BY <1>12 DEF In
  <2>2. \A i \in DOMAIN b : b[i].do \in late
    BY <1>9 DEF In
  <2>3. \A i \in DOMAIN e : e[i].do \in late
    BY <1>10 DEF In
  <2>4. \A i \in DOMAIN (a \o b) : (a \o b)[i].do \in late <=> i > Len(a)
    <3> SUFFICES ASSUME NEW i \in DOMAIN (a \o b)
                 PROVE  (a \o b)[i].do \in late <=> i > Len(a)
      OBVIOUS
    <3>1. CASE i \in DOMAIN a /\ (a \o b)[i] = a[i]
      <4>1. ~(i > Len(a))
        BY <1>7, <3>1, Cat
      <4> QED BY <2>1, <3>1, <4>1
    <3>2. ASSUME NEW k \in DOMAIN b, i = Len(a) + k, (a \o b)[i] = b[k]
          PROVE  (a \o b)[i].do \in late /\ i > Len(a)
      <4>1. i > Len(a)
        BY <1>7, <3>2, Cat
      <4> QED BY <2>2, <3>2, <4>1
    <3> QED BY <1>7, <3>1, <3>2, CatAt
  <2>5. \A i \in DOMAIN m : m[i].do \in late <=> i > Len(a)
    <3> SUFFICES ASSUME NEW i \in DOMAIN m PROVE m[i].do \in late <=> i > Len(a)
      OBVIOUS
    <3>1. CASE i \in DOMAIN (a \o b) /\ m[i] = (a \o b)[i]
      BY <2>4, <3>1
    <3>2. ASSUME NEW k \in DOMAIN e, i = Len(a \o b) + k, m[i] = e[k]
          PROVE  m[i].do \in late /\ i > Len(a)
      <4>1. Len(a \o b) = Len(a) + Len(b) /\ Len(a) \in Nat /\ Len(b) \in Nat /\ k = 1
        BY <1>5, <1>7
      <4>2. i > Len(a)
        BY <3>2, <4>1
      <4> QED BY <2>3, <3>2, <4>2
    <3>3. \/ i \in DOMAIN (a \o b) /\ ((a \o b) \o e)[i] = (a \o b)[i]
          \/ \E k \in DOMAIN e : i = Len(a \o b) + k /\ ((a \o b) \o e)[i] = e[k]
      <4>1. i \in DOMAIN ((a \o b) \o e)
        BY <1>1
      <4> DEFINE ab == a \o b
      <4>2. ab \in Seq(AnyStep) /\ i \in DOMAIN (ab \o e)
        BY <1>7, <4>1
      <4> HIDE DEF ab
      <4>3. \/ i \in DOMAIN ab /\ (ab \o e)[i] = ab[i]
            \/ \E k \in DOMAIN e : i = Len(ab) + k /\ (ab \o e)[i] = e[k]
        BY <1>5, <4>2, CatAt
      <4> QED BY <4>3 DEF ab
    <3>4. m = (a \o b) \o e
      BY <1>1
    <3> HIDE DEF m
    <3> QED BY <3>1, <3>2, <3>3, <3>4
  <2>6. m \in Seq(AnyStep) /\ Len(a) \in Nat
    BY <1>1, <1>5, <1>7
  <2> HIDE DEF m
  <2> QED BY <2>5, <2>6 DEF ReceiptsLast, m
<1>20. Materialize(sel) \in Seq(AnyStep)
  BY <1>1, <1>5, <1>7
<1> QED BY <1>13, <1>16, <1>17, <1>18, <1>19, <1>20

\* What teardown has to do at first.
LEMMA TeardownHolds ==
    ASSUME NEW sel \in Selection
    PROVE  /\ Teardown(sel) \in Seq(AnyStep)
           /\ \A x : In(x, Teardown(sel)) => \E c \in Range(sel.comps) : x = Step("inspect", c)
<1> DEFINE cs == sel.comps
           q == [i \in DOMAIN cs |-> << Step("inspect", cs[i]) >>]
<1>1. Teardown(sel) = FlattenSeq(q)
  BY DEF Teardown, Each
<1>2. DOMAIN cs = 1 .. Len(cs) /\ Len(cs) \in Nat
      /\ \A i \in 1 .. Len(cs) : cs[i] \in Range(sel.comps) /\ cs[i] \in Component
  BY Selected DEF Range
<1>3. q \in Seq(Seq(AnyStep)) /\ Len(q) = Len(cs)
      /\ \A i \in 1 .. Len(cs) : q[i] = << Step("inspect", cs[i]) >>
  <2>1. \A i \in 1 .. Len(cs) : << Step("inspect", cs[i]) >> \in Seq(AnyStep)
    <3>1. \A i \in 1 .. Len(cs) : Step("inspect", cs[i]) \in AnyStep
      BY <1>2 DEF AnyStep, StoreDo
    <3> QED BY <3>1
  <2> HIDE DEF cs
  <2> QED BY <1>2, <2>1
<1> HIDE DEF q, cs
<1>4. Made_of(AnyStep, q, Len(cs), FlattenSeq(q))
  BY <1>3, Flattened
<1>5. ASSUME NEW x, NEW i \in 1 .. Len(cs), In(x, q[i])
      PROVE  \E c \in Range(sel.comps) : x = Step("inspect", c)
  <2>1. q[i] = << Step("inspect", cs[i]) >>
    BY <1>3
  <2>2. DOMAIN q[i] = {1} /\ q[i][1] = Step("inspect", cs[i])
    BY <2>1
  <2>3. x = Step("inspect", cs[i])
    BY <1>5, <2>2 DEF In
  <2> QED BY <1>2, <2>3
<1> QED BY <1>1, <1>4, <1>5 DEF Made_of

\* What teardown has to do with a component it condemns.
LEMMA CondemnHolds ==
    ASSUME NEW sel \in Selection, NEW c \in Range(sel.comps)
    PROVE  /\ Condemn(c, sel) \in Seq(AnyStep)
           /\ \A x : In(x, Condemn(c, sel)) => x.do \in {"remove", "prune", "delete"} /\ x.comp = c
<1> DEFINE ws == TreesOf(c, sel)
           q == [i \in DOMAIN ws |-> << TreeStep("remove", ws[i]) >>]
           e == << Step("prune", c), Step("delete", c) >>
<1>1. Condemn(c, sel) = FlattenSeq(q) \o e
  BY DEF Condemn, Each
<1>2. /\ c \in Component /\ DOMAIN ws = 1 .. Len(ws) /\ Len(ws) \in Nat
      /\ \A i \in 1 .. Len(ws) : ws[i] \in Worktree /\ Home(ws[i]) = c
  <2>1. c \in Component /\ ws \in Seq(Worktree) /\ \A w \in Range(ws) : Home(w) = c
    BY Selected
  <2> HIDE DEF ws
  <2> QED BY <2>1 DEF Range
<1>3. q \in Seq(Seq(AnyStep)) /\ Len(q) = Len(ws)
      /\ \A i \in 1 .. Len(ws) : q[i] = << TreeStep("remove", ws[i]) >>
  <2>1. \A i \in 1 .. Len(ws) : << TreeStep("remove", ws[i]) >> \in Seq(AnyStep)
    <3>1. \A i \in 1 .. Len(ws) : TreeStep("remove", ws[i]) \in AnyStep
      BY <1>2 DEF AnyStep
    <3> QED BY <3>1
  <2> HIDE DEF ws
  <2> QED BY <1>2, <2>1
<1> HIDE DEF q, ws
<1>4. Made_of(AnyStep, q, Len(ws), FlattenSeq(q))
  BY <1>3, Flattened
<1>5. ASSUME NEW x, NEW i \in 1 .. Len(ws), In(x, q[i])
      PROVE  x.do = "remove" /\ x.comp = c
  <2>1. q[i] = << TreeStep("remove", ws[i]) >>
    BY <1>3
  <2>2. DOMAIN q[i] = {1} /\ q[i][1] = TreeStep("remove", ws[i])
    BY <2>1
  <2>3. x = TreeStep("remove", ws[i])
    BY <1>5, <2>2 DEF In
  <2> QED BY <1>2, <2>3 DEF TreeStep
<1>6. e \in Seq(AnyStep) /\ \A x : In(x, e) => x.do \in {"prune", "delete"} /\ x.comp = c
  <2>1. Step("prune", c) \in AnyStep /\ Step("delete", c) \in AnyStep
    BY <1>2 DEF AnyStep, StoreDo
  <2>2. e \in Seq(AnyStep) /\ DOMAIN e = {1, 2} /\ e[1] = Step("prune", c) /\ e[2] = Step("delete", c)
    BY <2>1
  <2> HIDE DEF e
  <2> QED BY <2>2 DEF In, Step
<1> HIDE DEF e
<1>7. FlattenSeq(q) \in Seq(AnyStep)
      /\ \A x : In(x, FlattenSeq(q)) => x.do = "remove" /\ x.comp = c
  BY <1>4, <1>5 DEF Made_of
<1>8. FlattenSeq(q) \o e \in Seq(AnyStep)
      /\ \A x : In(x, FlattenSeq(q) \o e) => In(x, FlattenSeq(q)) \/ In(x, e)
  BY <1>6, <1>7, InCat
<1> QED BY <1>1, <1>6, <1>7, <1>8

-----------------------------------------------------------------------------
(* The running command. *)

Verb == {"none", "materialize", "teardown"}
Result == {"none", "done", "aborted", "refused"}
Job == [verb : Verb, sel : Selection \cup {NoSelection}, force : BOOLEAN,
        todo : Seq(AnyStep), made : SUBSET Component, blind : BOOLEAN, result : Result]

MayDo(verb) == IF verb = "materialize" THEN MakeDo ELSE {"inspect", "remove", "prune", "delete"}

\* A command does what its verb does, and teardown looks at what it was asked about.
JobOK ==
    /\ job \in Job
    /\ job.verb = "none" => job.todo = << >>
    /\ job.verb # "none" => job.sel \in Selection
    /\ \A x : In(x, job.todo) =>
          /\ x.do \in MayDo(job.verb)
          /\ x.do = "inspect" => x.comp \in Range(job.sel.comps)

Typed == TypeOK /\ JobOK

\* The step a command is at.
LEMMA AtStep ==
    ASSUME JobOK, NEW do, Doing(do)
    PROVE  /\ job.todo \in Seq(AnyStep) /\ job.todo # << >>
           /\ Tail(job.todo) \in Seq(AnyStep)
           /\ In(Head(job.todo), job.todo)
           /\ do \in MayDo(job.verb) /\ job.sel \in Selection
           /\ do \in StoreDo => \E c \in Component :
                 Head(job.todo) = Step(do, c) /\ Head(job.todo).comp = c
           /\ do \in {"add", "submodules", "upstream", "remove", "handle"} => \E w \in Worktree :
                 /\ Head(job.todo) = TreeStep(do, w)
                 /\ Head(job.todo).tree = w /\ Head(job.todo).comp = Home(w)
                 /\ do = "handle" => Kind[w] = "stored"
<1>1. job.todo \in Seq(AnyStep) /\ job.todo # << >> /\ Head(job.todo).do = do
  BY DEF JobOK, Job, Doing, Idle
<1>2. Head(job.todo) \in AnyStep /\ Tail(job.todo) \in Seq(AnyStep) /\ In(Head(job.todo), job.todo)
  BY <1>1, Tails DEF In
<1>3. do \in MayDo(job.verb) /\ job.sel \in Selection
  BY <1>1, <1>2 DEF JobOK
<1>4. do \in StoreDo => \E c \in Component :
          Head(job.todo) = Step(do, c) /\ Head(job.todo).comp = c
  <2> SUFFICES ASSUME do \in StoreDo
               PROVE  \E c \in Component : Head(job.todo) = Step(do, c)
    BY DEF Step
  <2> DEFINE h == Head(job.todo)
  <2>1. h \in AnyStep /\ h.do = do
    BY <1>1, <1>2
  <2> HIDE DEF h
  <2>2. CASE \E d \in StoreDo, c \in Component : h = Step(d, c)
    <3>1. PICK d \in StoreDo, c \in Component : h = Step(d, c)
      BY <2>2
    <3>2. d = do
      BY <2>1, <3>1 DEF Step
    <3> QED BY <3>1, <3>2 DEF h
  <2>3. CASE \E d \in {"add", "submodules", "upstream", "remove"}, w \in Worktree : h = TreeStep(d, w)
    BY <2>1, <2>3 DEF TreeStep, StoreDo
  <2>4. CASE \E w \in Worktree : h = TreeStep("handle", w)
    BY <2>1, <2>4 DEF TreeStep, StoreDo
  <2>5. CASE h = [do |-> "fingerprint"]
    BY <2>1, <2>5 DEF StoreDo
  <2> QED BY <2>1, <2>2, <2>3, <2>4, <2>5 DEF AnyStep
<1>5. do \in {"add", "submodules", "upstream", "remove", "handle"} => \E w \in Worktree :
          /\ Head(job.todo) = TreeStep(do, w)
          /\ Head(job.todo).tree = w /\ Head(job.todo).comp = Home(w)
          /\ do = "handle" => Kind[w] = "stored"
  <2> DEFINE h == Head(job.todo)
  <2>1. h \in AnyStep /\ h.do = do
    BY <1>1, <1>2
  <2> HIDE DEF h
  <2>2. do \in {"add", "submodules", "upstream", "remove", "handle"} => \E w \in Worktree :
            h = TreeStep(do, w) /\ (do = "handle" => Kind[w] = "stored")
    BY <2>1 DEF AnyStep, Step, TreeStep, StoreDo
  <2> QED BY <2>2 DEF h, TreeStep
<1> QED BY <1>1, <1>2, <1>3, <1>4, <1>5

\* A step made, the command goes on with what was after it.
LEMMA Onward ==
    ASSUME JobOK, ~Idle, Proceed \/ (\E c \in Component : Made(c)) \/ Refuse
    PROVE  /\ JobOK'
           /\ job'.todo = Tail(job.todo)
           /\ job'.verb = job.verb /\ job'.sel = job.sel /\ job'.force = job.force
           /\ Proceed \/ (\E c \in Component : Made(c)) => job'.result = job.result
<1>1. job \in Job /\ job.todo \in Seq(AnyStep) /\ job.todo # << >>
      /\ Tail(job.todo) \in Seq(AnyStep)
  BY Tails DEF JobOK, Job, Idle
<1> DEFINE p == [job EXCEPT !.todo = Tail(@)]
<1>2. p \in Job /\ p.todo = Tail(job.todo) /\ p.verb = job.verb /\ p.sel = job.sel
      /\ p.force = job.force /\ p.result = job.result /\ p.made = job.made
  BY <1>1 DEF Job
<1>3. ASSUME NEW c \in Component, Made(c)
      PROVE  /\ job' \in Job /\ job'.todo = Tail(job.todo) /\ job'.verb = job.verb
             /\ job'.sel = job.sel /\ job'.force = job.force /\ job'.result = job.result
  <2>1. job' = [p EXCEPT !.made = job.made \cup {c}]
    BY <1>1, <1>3 DEF Made, Job
  <2> HIDE DEF p
  <2> QED BY <1>2, <2>1 DEF Job
<1>4. ASSUME Refuse
      PROVE  /\ job' \in Job /\ job'.todo = Tail(job.todo) /\ job'.verb = job.verb
             /\ job'.sel = job.sel /\ job'.force = job.force
  <2>1. job' = [p EXCEPT !.result = "refused"]
    BY <1>1, <1>4 DEF Refuse, Job
  <2> HIDE DEF p
  <2> QED BY <1>2, <2>1 DEF Job, Result
<1>8. Proceed => job' = p
  BY DEF Proceed
<1> HIDE DEF p
<1>9. Proceed \/ (\E c \in Component : Made(c)) => job'.result = job.result
  BY <1>2, <1>3, <1>8
<1>5. CASE Proceed
  <2>1. job' = p
    BY <1>8, <1>5
  <2>2. \A x : In(x, Tail(job.todo)) => In(x, job.todo)
    BY <1>1, InTail
  <2>3. job.todo # << >> => job.verb # "none"
    BY DEF JobOK
  <2> QED BY <1>1, <1>2, <1>9, <2>1, <2>2, <2>3 DEF JobOK
<1>6. CASE Refuse \/ \E c \in Component : Made(c)
  <2>1. /\ job' \in Job /\ job'.todo = Tail(job.todo) /\ job'.verb = job.verb
        /\ job'.sel = job.sel /\ job'.force = job.force
    BY <1>3, <1>4, <1>6
  <2>2. \A x : In(x, Tail(job.todo)) => In(x, job.todo)
    BY <1>1, InTail
  <2>3. job.todo # << >> => job.verb # "none"
    BY DEF JobOK
  <2> QED BY <1>1, <1>9, <2>1, <2>2, <2>3 DEF JobOK
<1> QED BY <1>5, <1>6

-----------------------------------------------------------------------------
(* What is known between two steps of a command. *)

\* A store is migrated before it could be cloned and is there before a worktree is
\* added; receipts come last, and only of a command that has met no failure.
Order ==
    /\ \A c \in Component :
          "old" \in store[c] => Before(job.todo, Step("migrate", c), Step("clone", c))
    /\ \A w \in Worktree :
          "bare" \in store[Home(w)] \/ Before(job.todo, Step("clone", Home(w)), TreeStep("add", w))
    /\ ReceiptsLast(job.todo)
    /\ \A x : In(x, job.todo) /\ x.do = "receipt" => job.result = "done"

\* A worktree stands on a store.
Standing == \A w \in Worktree : IsWorktree(w) => "old" \in store[Home(w)] \/ "bare" \in store[Home(w)]

\* What materialize wants of a worktree, by the step that sees to it.
Want == {"migrate", "clone", "link", "add", "upstream", "handle"}
StepFor(g, w) == IF g \in {"migrate", "clone", "link"} THEN Step(g, Home(w)) ELSE TreeStep(g, w)
Has(g, w) ==
    /\ g = "migrate" => "old" \notin store[Home(w)]
    /\ g = "clone" => "bare" \in store[Home(w)]
    /\ g = "link" => "link" \in store[Home(w)]
    /\ g = "add" => Exists(w, Target(w, job.sel))
    /\ g = "upstream" => ("tracking" \in store[Home(w)] /\ remote[w] # NoCommit => branch[w].upstream)
    /\ g = "handle" => (Target(w, job.sel) = "outside" => w \in handle \/ tree[w].place = "inside")

\* Tracking refs come with a clone and its fetch, and the upstreams after both.
Followed(w) ==
    /\ After(job.todo, Step("clone", Home(w)), TreeStep("upstream", w))
    /\ After(job.todo, Step("fetch", Home(w)), TreeStep("upstream", w))

\* A materialize that has met no failure has, or has still to see to, all it was asked.
Making == job.verb = "materialize" /\ job.result = "done"
Progress ==
    Making => \A w \in Asked(job.sel) :
        /\ \A g \in Want : Has(g, w) \/ In(StepFor(g, w), job.todo)
        /\ Followed(w)

\* With nothing forced, named or removed by hand and no teardown blind: work that git
\* can see is in a worktree that stands where its line puts it, and what teardown has
\* condemned holds none.
Clean(w) == ~tree[w].dirty /\ branch[w].head # Mine
NoneSeen(w) == tree[w].linked => Clean(w)
Plainly == plain /\ job.verb # "none" => ~job.force /\ ~Named(job.sel)
InPlace ==
    plain => \A w \in Worktree :
        /\ IsWorktree(w) => tree[w].place = line_target(w)
        /\ IsWorktree(w) \/ NoneSeen(w)
        /\ tree[w].place # "lost"
Condemned ==
    plain => \A x : In(x, job.todo) /\ x.do \in {"remove", "delete"} =>
        \A w \in Worktree : Home(w) = x.comp => NoneSeen(w)

IInv == Typed /\ Order /\ Standing /\ Progress /\ Plainly /\ InPlace /\ Condemned

\* The step of WorkKept.
KeepsWork ==
    plain' /\ ~Idle => \A w \in Worktree : tree[w].linked =>
        /\ tree[w].dirty => tree'[w].dirty
        /\ branch[w].head = Mine => branch'[w].head = Mine

\* What is last in a list is last in its tail.
LEMMA ReceiptsTail ==
    ASSUME NEW t \in Seq(AnyStep), t # << >>, ReceiptsLast(t)
    PROVE  ReceiptsLast(Tail(t))
<1>1. /\ DOMAIN Tail(t) = 1 .. (Len(t) - 1) /\ Len(t) \in Nat /\ DOMAIN t = 1 .. Len(t)
      /\ \A i \in 1 .. (Len(t) - 1) : Tail(t)[i] = t[i + 1]
  BY Tails
<1>2. ASSUME NEW i \in 1 .. (Len(t) - 1), NEW j \in 1 .. (Len(t) - 1),
             Tail(t)[i].do \in {"receipt", "fingerprint"}, i <= j
      PROVE  Tail(t)[j].do \in {"receipt", "fingerprint"}
  <2>1. i + 1 \in 1 .. Len(t) /\ j + 1 \in 1 .. Len(t) /\ i + 1 <= j + 1
    BY <1>1, <1>2
  <2> QED BY <1>1, <1>2, <2>1 DEF ReceiptsLast
<1> QED BY <1>1, <1>2 DEF ReceiptsLast

\* A step put before a list.
LEMMA Pushed ==
    ASSUME NEW t \in Seq(AnyStep), NEW x \in AnyStep
    PROVE  /\ << x >> \o t \in Seq(AnyStep)
           /\ \A y : In(y, << x >> \o t) <=> y = x \/ In(y, t)
           /\ \A a, b : b # x /\ Before(t, a, b) => Before(<< x >> \o t, a, b)
           /\ \A a, b : (a # x \/ In(b, t)) /\ After(t, a, b) => After(<< x >> \o t, a, b)
           /\ ReceiptsLast(t) /\ x.do \notin {"receipt", "fingerprint"} => ReceiptsLast(<< x >> \o t)
<1> DEFINE s == << x >>
<1>1. s \in Seq(AnyStep) /\ DOMAIN s = {1} /\ s[1] = x /\ Len(s) = 1
  OBVIOUS
<1> HIDE DEF s
<1>2. s \o t \in Seq(AnyStep) /\ \A y : In(y, s \o t) <=> y = x \/ In(y, t)
  <2>1. \A y : In(y, s) <=> y = x
    BY <1>1 DEF In
  <2> QED BY <1>1, <2>1, Cat, InCat
<1>3. ASSUME NEW a, NEW b, b # x, Before(t, a, b)
      PROVE  Before(s \o t, a, b)
  <2>1. Before(s, a, b)
    BY <1>1, <1>3 DEF Before
  <2> QED BY <1>1, <1>3, <2>1, BeforeCat
<1>4. ASSUME NEW a, NEW b, a # x \/ In(b, t), After(t, a, b)
      PROVE  After(s \o t, a, b)
  <2>1. After(s, a, b) \/ In(b, t)
    BY <1>1, <1>4 DEF After
  <2> QED BY <1>1, <1>4, <2>1, AfterCat
<1>5. ASSUME ReceiptsLast(t), x.do \notin {"receipt", "fingerprint"}
      PROVE  ReceiptsLast(s \o t)
  <2>1. /\ DOMAIN (s \o t) = 1 .. (1 + Len(t)) /\ Len(t) \in Nat /\ DOMAIN t = 1 .. Len(t)
        /\ (s \o t)[1] = x /\ \A i \in 1 .. Len(t) : (s \o t)[1 + i] = t[i]
    BY <1>1, Cat
  <2> DEFINE n == s \o t
  <2> HIDE DEF n
  <2>2. ASSUME NEW i \in 1 .. (1 + Len(t)), NEW j \in 1 .. (1 + Len(t)), i <= j,
               n[i].do \in {"receipt", "fingerprint"}
        PROVE  n[j].do \in {"receipt", "fingerprint"}
    <3>1. i # 1
      BY <1>5, <2>1, <2>2 DEF n
    <3>2. i - 1 \in 1 .. Len(t) /\ j - 1 \in 1 .. Len(t) /\ i - 1 <= j - 1
          /\ 1 + (i - 1) = i /\ 1 + (j - 1) = j
      BY <2>1, <2>2, <3>1
    <3>3. n[i] = t[i - 1] /\ n[j] = t[j - 1]
      BY <2>1, <3>2 DEF n
    <3> QED BY <1>5, <2>1, <2>2, <3>2, <3>3 DEF ReceiptsLast
  <2> QED BY <2>1, <2>2 DEF n, ReceiptsLast
<1> QED BY <1>2, <1>3, <1>4, <1>5 DEF s

\* One step off the list, and the order of the others is as it was.
LEMMA OrderTail ==
    ASSUME JobOK, Order, ~Idle, job'.todo = Tail(job.todo), job'.result = job.result,
           \A c \in Component : "old" \in store'[c] =>
               "old" \in store[c] /\ Head(job.todo) # Step("migrate", c),
           \A c \in Component : "bare" \notin store'[c] =>
               "bare" \notin store[c] /\ Head(job.todo) # Step("clone", c)
    PROVE  Order'
<1>1. job.todo \in Seq(AnyStep) /\ job.todo # << >>
  BY DEF JobOK, Job, Idle
<1>2. ASSUME NEW c \in Component, "old" \in store'[c]
      PROVE  Before(job'.todo, Step("migrate", c), Step("clone", c))
  BY <1>1, <1>2, BeforeTail DEF Order
<1>3. ASSUME NEW w \in Worktree, "bare" \notin store'[Home(w)]
      PROVE  Before(job'.todo, Step("clone", Home(w)), TreeStep("add", w))
  <2>1. Home(w) \in Component
    BY HomeIs
  <2>2. Before(job.todo, Step("clone", Home(w)), TreeStep("add", w))
    BY <1>3, <2>1 DEF Order
  <2> QED BY <1>1, <1>3, <2>1, <2>2, BeforeTail
<1>4. ReceiptsLast(job'.todo)
  BY <1>1, ReceiptsTail DEF Order
<1>5. \A x : In(x, job'.todo) /\ x.do = "receipt" => job'.result = "done"
  BY <1>1, InTail DEF Order
<1> QED BY <1>2, <1>3, <1>4, <1>5 DEF Order

\* Nothing but teardown's steps, or the fingerprint alone: there is no order to keep.
LEMMA OrderNone ==
    ASSUME JobOK', job'.verb # "materialize" \/ job'.todo = << [do |-> "fingerprint"] >>
    PROVE  Order'
<1>1. job'.todo \in Seq(AnyStep)
  BY DEF JobOK, Job
<1>2. \A x : In(x, job'.todo) => x.do \in {"inspect", "remove", "prune", "delete", "fingerprint"}
  <2>1. CASE job'.verb # "materialize"
    BY <2>1 DEF JobOK, MayDo
  <2>2. CASE job'.todo = << [do |-> "fingerprint"] >>
    <3>1. DOMAIN job'.todo = {1} /\ job'.todo[1] = [do |-> "fingerprint"]
      BY <2>2
    <3> QED BY <3>1 DEF In
  <2> QED BY <2>1, <2>2
<1>3. \A i \in DOMAIN job'.todo :
          job'.todo[i].do \in {"inspect", "remove", "prune", "delete", "fingerprint"}
  BY <1>2 DEF In
<1>4. \A c \in Component : Before(job'.todo, Step("migrate", c), Step("clone", c))
  BY <1>3 DEF Before, Step
<1>5. \A w \in Worktree : Before(job'.todo, Step("clone", Home(w)), TreeStep("add", w))
  BY <1>3 DEF Before, TreeStep
<1>6. ReceiptsLast(job'.todo)
  <2>1. CASE job'.verb # "materialize"
    <3>1. \A x : In(x, job'.todo) => x.do \in {"inspect", "remove", "prune", "delete"}
      BY <2>1 DEF JobOK, MayDo
    <3> QED BY <3>1 DEF In, ReceiptsLast
  <2>2. CASE job'.todo = << [do |-> "fingerprint"] >>
    <3>1. DOMAIN job'.todo = {1} /\ job'.todo[1] = [do |-> "fingerprint"]
      BY <2>2
    <3> QED BY <3>1 DEF ReceiptsLast
  <2> QED BY <2>1, <2>2
<1>7. \A x : In(x, job'.todo) => x.do # "receipt"
  BY <1>2
<1> QED BY <1>4, <1>5, <1>6, <1>7 DEF Order

\* What materialize has stays had, and what it has still to see to is seen to.
LEMMA ProgressOn ==
    ASSUME JobOK, Progress, ~Idle,
           job'.verb = job.verb, job'.sel = job.sel, job'.result = job.result,
           \A x : In(x, Tail(job.todo)) => In(x, job'.todo),
           Making => \A w \in Asked(job.sel) : \A g \in Want :
               Has(g, w) \/ Head(job.todo) = StepFor(g, w) =>
                   Has(g, w)' \/ In(StepFor(g, w), Tail(job.todo)),
           \A w \in Asked(job.sel) : Followed(w) => Followed(w)'
    PROVE  Progress'
<1> SUFFICES ASSUME Making, NEW w \in Asked(job.sel)
             PROVE  (\A g \in Want : Has(g, w)' \/ In(StepFor(g, w), job'.todo)) /\ Followed(w)'
  BY DEF Progress, Making, Asked, StepFor, Step, TreeStep
<1>1. job.todo \in Seq(AnyStep) /\ job.todo # << >>
  BY DEF JobOK, Job, Idle
<1>2. (\A g \in Want : Has(g, w) \/ In(StepFor(g, w), job.todo)) /\ Followed(w)
  BY DEF Progress
<1>3. ASSUME NEW g \in Want
      PROVE  Has(g, w)' \/ In(StepFor(g, w), job'.todo)
  <2>1. In(StepFor(g, w), job.todo) =>
            Head(job.todo) = StepFor(g, w) \/ In(StepFor(g, w), Tail(job.todo))
    BY <1>1, InTail
  <2> QED BY <1>2, <2>1
<1> QED BY <1>2, <1>3

\* One step off the list, what must follow still follows.
LEMMA FollowedTail ==
    ASSUME JobOK, ~Idle, job'.todo = Tail(job.todo), NEW w, Followed(w)
    PROVE  Followed(w)'
<1>1. job.todo \in Seq(AnyStep) /\ job.todo # << >>
  BY DEF JobOK, Job, Idle
<1>2. /\ After(Tail(job.todo), Step("clone", Home(w)), TreeStep("upstream", w))
      /\ After(Tail(job.todo), Step("fetch", Home(w)), TreeStep("upstream", w))
  BY <1>1, AfterTail DEF Followed
<1> QED BY <1>2 DEF Followed, Step, TreeStep

\* Materialize condemns nothing.
LEMMA NoneCondemned ==
    ASSUME JobOK', job'.verb = "materialize"
    PROVE  Condemned'
BY DEF JobOK, MayDo, MakeDo, Condemned

\* The work of the condemned is not there to be lost, and none comes while a command runs.
LEMMA CondemnedTail ==
    ASSUME JobOK, ~Idle, Condemned, job'.todo = Tail(job.todo), plain' = plain,
           plain => \A w \in Worktree : NoneSeen(w) => NoneSeen(w)'
    PROVE  Condemned'
<1>1. job.todo \in Seq(AnyStep) /\ job.todo # << >>
  BY DEF JobOK, Job, Idle
<1>2. \A x : In(x, job'.todo) => In(x, job.todo)
  BY <1>1, InTail
<1> QED BY <1>2 DEF Condemned

\* A step of materialize's own.
LEMMA Materializing ==
    ASSUME JobOK, NEW do \in MakeDo \ {"prune"}, Doing(do)
    PROVE  ~Idle /\ job.verb = "materialize" /\ job.sel \in Selection
BY AtStep DEF Doing, MayDo, MakeDo

\* An abort leaves everything as it is, and no receipt to write.
LEMMA AbortedHolds ==
    ASSUME IInv, NEW do \in MakeDo \ {"prune"}, Doing(do), materialize_abort
    PROVE  IInv' /\ KeepsWork
<1>1. JobOK /\ ~Idle /\ job.verb = "materialize" /\ job.sel \in Selection
  BY Materializing DEF IInv, Typed
<1>2. UNCHANGED <<disk, records, world>>
  BY DEF materialize_abort
<1> DEFINE t == << [do |-> "fingerprint"] >>
           p == [job EXCEPT !.todo = t]
<1>3. t \in Seq(AnyStep)
  <2>1. [do |-> "fingerprint"] \in AnyStep
    BY DEF AnyStep
  <2> QED BY <2>1
<1> HIDE DEF t
<1>4. p \in Job /\ p.todo = t /\ p.verb = job.verb
      /\ p.sel = job.sel /\ p.force = job.force
  BY <1>1, <1>3 DEF JobOK, Job
<1>5. job' = [p EXCEPT !.result = "aborted"]
  BY <1>1 DEF materialize_abort, JobOK, Job, t
<1> HIDE DEF p
<1>6. /\ job' \in Job /\ job'.todo = << [do |-> "fingerprint"] >> /\ job'.verb = job.verb
      /\ job'.sel = job.sel /\ job'.force = job.force /\ job'.result = "aborted"
  <2>1. /\ job' \in Job /\ job'.todo = t /\ job'.verb = job.verb
        /\ job'.sel = job.sel /\ job'.force = job.force /\ job'.result = "aborted"
    BY <1>4, <1>5 DEF Job, Result
  <2> QED BY <2>1 DEF t
<1>7. JobOK'
  <2>1. DOMAIN job'.todo = {1} /\ job'.todo[1] = [do |-> "fingerprint"]
    BY <1>6
  <2>2. \A x : In(x, job'.todo) => x.do = "fingerprint"
    BY <2>1 DEF In
  <2> QED BY <1>1, <1>6, <2>2 DEF JobOK, MayDo, MakeDo
<1>8. TypeOK'
  BY <1>2, <1>6 DEF IInv, Typed, TypeOK, disk, records, world, Job, Result
<1>9. Order'
  BY <1>6, <1>7, OrderNone
<1>10. Standing' /\ InPlace' /\ KeepsWork
  BY <1>2 DEF IInv, Standing, InPlace, IsWorktree, Clean, NoneSeen, KeepsWork, disk, world
<1>11. Progress' /\ Plainly' /\ Condemned'
  BY <1>1, <1>2, <1>6, <1>7, NoneCondemned DEF IInv, Progress, Making, Plainly, Named, world
<1> QED BY <1>7, <1>8, <1>9, <1>10, <1>11 DEF IInv, Typed

\* The step that sees to a want says so.
LEMMA ForStep ==
    ASSUME NEW g \in Want, NEW w
    PROVE  /\ StepFor(g, w).do = g /\ StepFor(g, w).comp = Home(w)
           /\ g \in {"add", "upstream", "handle"} => StepFor(g, w).tree = w
BY DEF StepFor, Step, TreeStep, Want

\* A step of materialize made, the command goes on.
LEMMA StepHolds ==
    ASSUME IInv, ~Idle, job.verb = "materialize",
           Proceed \/ (\E c \in Component : Made(c)), UNCHANGED world,
           \A c \in Component : "old" \in store'[c] =>
               "old" \in store[c] /\ Head(job.todo) # Step("migrate", c),
           \A c \in Component : "bare" \notin store'[c] =>
               "bare" \notin store[c] /\ Head(job.todo) # Step("clone", c),
           Making => \A w \in Asked(job.sel) : \A g \in Want :
               Has(g, w) \/ Head(job.todo) = StepFor(g, w) =>
                   Has(g, w)' \/ In(StepFor(g, w), Tail(job.todo))
    PROVE  /\ JobOK' /\ Order' /\ Progress' /\ Plainly' /\ Condemned'
           /\ job'.made \subseteq Component /\ job'.result \in Result /\ job'.sel = job.sel
<1>1. JobOK
  BY DEF IInv, Typed
<1>2. /\ JobOK' /\ job'.todo = Tail(job.todo) /\ job'.verb = job.verb /\ job'.sel = job.sel
      /\ job'.force = job.force /\ job'.result = job.result
  BY <1>1, Onward
<1>3. Order'
  BY <1>1, <1>2, OrderTail DEF IInv
<1>4. Progress'
  <2>1. \A w \in Asked(job.sel) : Followed(w) => Followed(w)'
    BY <1>1, <1>2, FollowedTail
  <2> QED BY <1>1, <1>2, <2>1, ProgressOn DEF IInv
<1>5. Plainly' /\ Condemned'
  BY <1>1, <1>2, NoneCondemned DEF IInv, Plainly, Named, world
<1> QED BY <1>2, <1>3, <1>4, <1>5 DEF JobOK, Job

\* A step of materialize made that calls for another of its own.
LEMMA PushHolds ==
    ASSUME IInv, ~Idle, job.verb = "materialize",
           NEW x \in AnyStep, x.do \in {"repair", "submodules"},
           job' \in Job, job'.todo = << x >> \o Tail(job.todo), job'.verb = job.verb,
           job'.sel = job.sel, job'.force = job.force, job'.result = job.result, UNCHANGED world,
           \A c \in Component : "old" \in store'[c] =>
               "old" \in store[c] /\ Head(job.todo) # Step("migrate", c),
           \A c \in Component : "bare" \notin store'[c] =>
               "bare" \notin store[c] /\ Head(job.todo) # Step("clone", c),
           Making => \A w \in Asked(job.sel) : \A g \in Want :
               Has(g, w) \/ Head(job.todo) = StepFor(g, w) =>
                   Has(g, w)' \/ In(StepFor(g, w), Tail(job.todo))
    PROVE  /\ JobOK' /\ Order' /\ Progress' /\ Plainly' /\ Condemned'
           /\ job'.made \subseteq Component /\ job'.result \in Result
<1> DEFINE t == Tail(job.todo)
           n == << x >> \o t
<1>1. /\ JobOK /\ job.todo \in Seq(AnyStep) /\ job.todo # << >> /\ t \in Seq(AnyStep)
      /\ \A y : In(y, t) => In(y, job.todo)
  <2>1. JobOK /\ job.todo \in Seq(AnyStep) /\ job.todo # << >>
    BY DEF IInv, Typed, JobOK, Job, Idle
  <2> QED BY <2>1, Tails, InTail
<1>2. /\ n \in Seq(AnyStep)
      /\ \A y : In(y, n) <=> y = x \/ In(y, t)
      /\ \A a, b : b # x /\ Before(t, a, b) => Before(n, a, b)
      /\ \A a, b : (a # x \/ In(b, t)) /\ After(t, a, b) => After(n, a, b)
      /\ ReceiptsLast(t) => ReceiptsLast(n)
  <2>1. x.do \notin {"receipt", "fingerprint"}
    OBVIOUS
  <2> HIDE DEF t
  <2> QED BY <1>1, <2>1, Pushed
<1>3. job'.todo = n
  OBVIOUS
<1> HIDE DEF t, n
<1>4. JobOK'
  <2>1. ASSUME NEW y, In(y, n)
        PROVE  y.do \in MakeDo /\ y.do # "inspect"
    <3>1. CASE y = x
      BY <3>1 DEF MakeDo
    <3>2. CASE In(y, t)
      BY <1>1, <3>2 DEF JobOK, MayDo, MakeDo
    <3> QED BY <1>2, <2>1, <3>1, <3>2
  <2> QED BY <1>1, <1>3, <2>1 DEF JobOK, MayDo
<1>5. Order'
  <2>1. ASSUME NEW d \in Component, "old" \in store'[d]
        PROVE  Before(n, Step("migrate", d), Step("clone", d))
    <3>1. Before(t, Step("migrate", d), Step("clone", d))
      BY <1>1, <2>1, BeforeTail DEF IInv, Order, t
    <3>2. Step("clone", d) # x
      BY DEF Step
    <3> QED BY <1>2, <3>1, <3>2
  <2>2. ASSUME NEW w \in Worktree, "bare" \notin store'[Home(w)]
        PROVE  Before(n, Step("clone", Home(w)), TreeStep("add", w))
    <3>1. Home(w) \in Component
      BY HomeIs
    <3>2. Before(job.todo, Step("clone", Home(w)), TreeStep("add", w))
      BY <2>2, <3>1 DEF IInv, Order
    <3>3. Before(t, Step("clone", Home(w)), TreeStep("add", w))
      BY <1>1, <2>2, <3>1, <3>2, BeforeTail DEF t
    <3>4. TreeStep("add", w) # x
      BY DEF TreeStep
    <3> QED BY <1>2, <3>3, <3>4
  <2>3. ReceiptsLast(n)
    BY <1>1, <1>2, ReceiptsTail DEF IInv, Order, t
  <2>4. ASSUME NEW y, In(y, n), y.do = "receipt"
        PROVE  job.result = "done"
    <3>1. In(y, job.todo)
      BY <1>1, <1>2, <2>4
    <3> QED BY <2>4, <3>1 DEF IInv, Order
  <2> QED BY <1>3, <2>1, <2>2, <2>3, <2>4 DEF Order
<1>6. Progress'
  <2>1. ASSUME NEW w, Followed(w)
        PROVE  Followed(w)'
    <3>1. /\ After(t, Step("clone", Home(w)), TreeStep("upstream", w))
          /\ After(t, Step("fetch", Home(w)), TreeStep("upstream", w))
      BY <1>1, <2>1, AfterTail DEF Followed, t
    <3>2. Step("clone", Home(w)) # x /\ Step("fetch", Home(w)) # x
      BY DEF Step
    <3>3. /\ After(n, Step("clone", Home(w)), TreeStep("upstream", w))
          /\ After(n, Step("fetch", Home(w)), TreeStep("upstream", w))
      BY <1>2, <3>1, <3>2
    <3> QED BY <1>3, <3>3 DEF Followed, Step, TreeStep
  <2>2. \A y : In(y, Tail(job.todo)) => In(y, job'.todo)
    BY <1>2, <1>3 DEF t
  <2> QED BY <1>1, <2>1, <2>2, ProgressOn DEF IInv
<1>7. Plainly' /\ Condemned'
  BY <1>4, NoneCondemned DEF IInv, Plainly, Named, world
<1> QED BY <1>4, <1>5, <1>6, <1>7 DEF Job

\* The running command's record with another list of steps, and with more made.
LEMMA NewList ==
    ASSUME JobOK, NEW n \in Seq(AnyStep), NEW more \in SUBSET Component,
           job' \in {[job EXCEPT !.todo = n], [job EXCEPT !.todo = n, !.made = @ \cup more]}
    PROVE  /\ job' \in Job /\ job'.todo = n /\ job'.verb = job.verb
           /\ job'.sel = job.sel /\ job'.force = job.force /\ job'.result = job.result
<1> DEFINE p == [job EXCEPT !.todo = n]
<1>1. p \in Job /\ p.todo = n /\ p.verb = job.verb /\ p.sel = job.sel
      /\ p.force = job.force /\ p.result = job.result /\ p.made = job.made
  BY DEF JobOK, Job
<1>2. [job EXCEPT !.todo = n, !.made = @ \cup more] = [p EXCEPT !.made = job.made \cup more]
  BY DEF JobOK, Job
<1>3. job' = p \/ job' = [p EXCEPT !.made = job.made \cup more]
  BY <1>2
<1> HIDE DEF p
<1> QED BY <1>1, <1>3 DEF Job

\* A step that finds its work done already changes nothing.
LEMMA SkipHolds ==
    ASSUME IInv, NEW do \in MakeDo \ {"prune"}, Doing(do), Skip,
           \A c \in Component : "old" \in store[c] => Head(job.todo) # Step("migrate", c),
           \A c \in Component : "bare" \notin store[c] => Head(job.todo) # Step("clone", c),
           \A w \in Asked(job.sel) : \A g \in Want :
               Head(job.todo) = StepFor(g, w) => Has(g, w)
    PROVE  IInv' /\ KeepsWork
<1>1. Proceed /\ UNCHANGED <<disk, records, world>>
  BY DEF Skip
<1>2. ~Idle /\ job.verb = "materialize" /\ job'.sel = job.sel
  <2>1. JobOK /\ ~Idle /\ job.verb = "materialize"
    BY Materializing DEF IInv, Typed
  <2> QED BY <1>1, <2>1, Onward
<1>3. \A w \in Asked(job.sel) : \A g \in Want : Has(g, w) => Has(g, w)'
  BY <1>1, <1>2 DEF Has, Exists, disk, world
<1>4. /\ JobOK' /\ Order' /\ Progress' /\ Plainly' /\ Condemned'
      /\ job'.made \subseteq Component /\ job'.result \in Result
  BY <1>1, <1>2, <1>3, StepHolds DEF disk
<1>5. TypeOK'
  BY <1>1, <1>4 DEF IInv, Typed, TypeOK, disk, records, world, Result
<1>6. Standing' /\ InPlace' /\ KeepsWork
  BY <1>1 DEF IInv, Standing, InPlace, IsWorktree, Clean, NoneSeen, KeepsWork, disk, world
<1> QED BY <1>4, <1>5, <1>6 DEF IInv, Typed

\* A worktree's own component is what its store's steps are about.
LEMMA AtStore ==
    ASSUME JobOK, NEW do \in StoreDo, Doing(do)
    PROVE  \E c \in Component :
              /\ Head(job.todo) = Step(do, c) /\ Head(job.todo).comp = c
              /\ \A w : \A g \in Want : Head(job.todo) = StepFor(g, w) => g = do /\ Home(w) = c
              /\ \A d, e : Head(job.todo) = Step(d, e) => d = do /\ e = c
<1>1. PICK c \in Component : Head(job.todo) = Step(do, c) /\ Head(job.todo).comp = c
  BY AtStep
<1>2. \A w : \A g \in Want : Head(job.todo) = StepFor(g, w) => g = do /\ Home(w) = c
  BY <1>1, ForStep DEF Step
<1> QED BY <1>1, <1>2 DEF Step

\* The old layout is kept whole, or becomes the new one.
LEMMA MigrateHolds == IInv /\ MigrateStore => IInv' /\ KeepsWork
<1> SUFFICES ASSUME IInv, MigrateStore
             PROVE  IInv' /\ KeepsWork
  OBVIOUS
<1> DEFINE do == "migrate"
<1>1. JobOK /\ Doing(do) /\ do \in MakeDo \ {"prune"} /\ do \in StoreDo
  BY DEF IInv, Typed, MigrateStore, MakeDo, StoreDo
<1>2. PICK c \in Component :
          /\ Head(job.todo).comp = c
          /\ \A w : \A g \in Want : Head(job.todo) = StepFor(g, w) => g = do /\ Home(w) = c
          /\ \A d, e : Head(job.todo) = Step(d, e) => d = do /\ e = c
  BY <1>1, AtStore
<1>3. CASE "old" \notin store[c] /\ Skip
  <2>1. \A w : \A g \in Want : Head(job.todo) = StepFor(g, w) => Has(g, w)
    BY <1>2, <1>3 DEF Has
  <2> QED BY <1>1, <1>2, <1>3, <2>1, SkipHolds
<1>4. CASE materialize_abort
  BY <1>1, <1>4, AbortedHolds
<1>5. CASE /\ "old" \in store[c] /\ "bare" \notin store[c]
           /\ store' = [store EXCEPT ![c] = (@ \ {"old"}) \cup {"bare"}]
           /\ tree' = CutOff(c)
           /\ job' = [job EXCEPT !.todo = << Step("repair", c) >> \o Tail(@)]
           /\ UNCHANGED <<branch, handle, records, world>>
  <2> DEFINE n == << Step("repair", c) >> \o Tail(job.todo)
  <2>1. \A d \in Component :
            /\ d # c => store'[d] = store[d]
            /\ "old" \in store'[d] <=> "old" \in store[d] /\ d # c
            /\ "bare" \in store'[d] <=> "bare" \in store[d] \/ d = c
            /\ \A part \in {"link", "tracking"} : part \in store'[d] <=> part \in store[d]
    BY <1>5 DEF IInv, Typed, TypeOK
  <2>2. Step("repair", c) \in AnyStep /\ Step("repair", c).do = "repair" /\ n \in Seq(AnyStep)
    <3>1. Step("repair", c) \in AnyStep
      BY DEF AnyStep, StoreDo
    <3>2. Tail(job.todo) \in Seq(AnyStep)
      BY <1>1, AtStep
    <3> QED BY <3>1, <3>2 DEF Step
  <2>3. /\ job' \in Job /\ job'.todo = n /\ job'.verb = job.verb
        /\ job'.sel = job.sel /\ job'.force = job.force /\ job'.result = job.result
    <3>1. job' = [job EXCEPT !.todo = n]
      BY <1>5
    <3> HIDE DEF n
    <3> QED BY <1>1, <2>2, <3>1, NewList
  <2>4. \A w \in Worktree : /\ tree'[w].place = tree[w].place /\ tree'[w].dirty = tree[w].dirty
                            /\ tree'[w].linked => tree[w].linked
                            /\ ~IsWorktree(w) => tree'[w] = tree[w]
    BY <1>5 DEF CutOff, IInv, Typed, TypeOK
  <2>5. \A w \in Asked(job.sel) : \A g \in Want :
            Has(g, w) \/ Head(job.todo) = StepFor(g, w) => Has(g, w)'
    <3>1. \A w \in Asked(job.sel) : Home(w) \in Component /\ w \in Worktree
      BY <1>1, Materializing, Selected, HomeIs
    <3>2. \A w \in Worktree : Exists(w, Target(w, job.sel))' <=> Exists(w, Target(w, job.sel))
      BY <1>5, <2>3, <2>4 DEF Exists
    <3>3. branch' = branch /\ handle' = handle /\ remote' = remote /\ job'.sel = job.sel
      BY <1>5, <2>3 DEF world
    <3> QED BY <1>2, <2>1, <2>4, <3>1, <3>2, <3>3 DEF Has
  <2>6. /\ JobOK' /\ Order' /\ Progress' /\ Plainly' /\ Condemned'
        /\ job'.made \subseteq Component /\ job'.result \in Result
    <3>1. ~Idle /\ job.verb = "materialize" /\ UNCHANGED world
      BY <1>1, <1>5, Materializing
    <3>2. \A d \in Component : "old" \in store'[d] =>
              "old" \in store[d] /\ Head(job.todo) # Step("migrate", d)
      BY <1>2, <2>1
    <3>3. \A d \in Component : "bare" \notin store'[d] =>
              "bare" \notin store[d] /\ Head(job.todo) # Step("clone", d)
      BY <1>2, <2>1
    <3> QED BY <2>2, <2>3, <2>5, <3>1, <3>2, <3>3, PushHolds
  <2>7. tree' \in [Worktree -> [place : Place, dirty : BOOLEAN, linked : BOOLEAN, filled : BOOLEAN]]
    BY <1>5 DEF CutOff, IInv, Typed, TypeOK
  <2>8. TypeOK'
    BY <1>5, <2>6, <2>7 DEF IInv, Typed, TypeOK, records, world, Result, Part
  <2>9. Standing'
    BY <1>5, <2>1, <2>4, HomeIs DEF IInv, Standing, IsWorktree
  <2>10. InPlace' /\ KeepsWork
    BY <1>5, <2>4 DEF IInv, InPlace, IsWorktree, Clean, NoneSeen, KeepsWork, world
  <2> QED BY <2>6, <2>8, <2>9, <2>10 DEF IInv, Typed
<1> QED BY <1>2, <1>3, <1>4, <1>5 DEF MigrateStore

\* Mended or not, the worktrees are where they were.
LEMMA RepairHolds == IInv /\ RepairLinks => IInv' /\ KeepsWork
<1> SUFFICES ASSUME IInv, RepairLinks
             PROVE  IInv' /\ KeepsWork
  OBVIOUS
<1>1. JobOK /\ Doing("repair") /\ ~Idle /\ job.verb = "materialize" /\ job.sel \in Selection
  BY Materializing DEF IInv, Typed, RepairLinks, MakeDo
<1>2. PICK c \in Component :
          /\ Head(job.todo).comp = c
          /\ \A w : \A g \in Want : Head(job.todo) = StepFor(g, w) => g = "repair" /\ Home(w) = c
          /\ \A d, e : Head(job.todo) = Step(d, e) => d = "repair" /\ e = c
  BY <1>1, AtStore DEF StoreDo
<1>3. Proceed /\ UNCHANGED <<store, branch, handle, records, world>>
  BY DEF RepairLinks
<1>4. \A w \in Worktree : /\ tree'[w].place = tree[w].place /\ tree'[w].dirty = tree[w].dirty
                          /\ ~IsWorktree(w) => tree'[w] = tree[w]
                          /\ tree[w].linked => tree'[w].linked
  <2> DEFINE Mended(w) == [tree[w] EXCEPT !.linked = TRUE]
  <2>1. \A w \in Worktree : /\ Mended(w).place = tree[w].place /\ Mended(w).dirty = tree[w].dirty
                            /\ Mended(w).linked
    BY DEF IInv, Typed, TypeOK
  <2>2. \A w \in Worktree : tree'[w] = tree[w] \/ (IsWorktree(w) /\ tree'[w] = Mended(w))
    BY DEF RepairLinks
  <2> HIDE DEF Mended
  <2> SUFFICES ASSUME NEW w \in Worktree
               PROVE  /\ tree'[w].place = tree[w].place /\ tree'[w].dirty = tree[w].dirty
                      /\ ~IsWorktree(w) => tree'[w] = tree[w]
                      /\ tree[w].linked => tree'[w].linked
    OBVIOUS
  <2>3. CASE tree'[w] = tree[w]
    BY <2>3
  <2>4. CASE IsWorktree(w) /\ tree'[w] = Mended(w)
    BY <2>1, <2>4, Zenon
  <2> QED BY <2>2, <2>3, <2>4
<1>5. tree' \in [Worktree -> [place : Place, dirty : BOOLEAN, linked : BOOLEAN, filled : BOOLEAN]]
  <2> DEFINE T == [place : Place, dirty : BOOLEAN, linked : BOOLEAN, filled : BOOLEAN]
             Mended(w) == [tree[w] EXCEPT !.linked = TRUE]
             f == [w \in Worktree |->
                     IF Home(w) = Head(job.todo).comp /\ IsWorktree(w) THEN Mended(w) ELSE tree[w]]
  <2>1. \A w \in Worktree : tree[w] \in T /\ Mended(w) \in T
    BY DEF IInv, Typed, TypeOK
  <2>2. tree' = f \/ tree' = tree
    BY DEF RepairLinks
  <2>3. tree \in [Worktree -> T]
    BY DEF IInv, Typed, TypeOK
  <2> HIDE DEF T, Mended
  <2>4. f \in [Worktree -> T]
    BY <2>1
  <2> HIDE DEF f
  <2>5. tree' \in [Worktree -> T]
    BY <2>2, <2>3, <2>4
  <2> QED BY <2>5 DEF T
<1>6. job'.sel = job.sel
  BY <1>1, <1>3, Onward
<1>7. \A w \in Asked(job.sel) : \A g \in Want :
          Has(g, w) \/ Head(job.todo) = StepFor(g, w) => Has(g, w)'
  <2>1. \A w \in Asked(job.sel) : w \in Worktree
    BY <1>1, Selected
  <2>2. \A w \in Worktree : Exists(w, Target(w, job.sel))' <=> Exists(w, Target(w, job.sel))
    BY <1>3, <1>4, <1>6 DEF Exists
  <2> QED BY <1>2, <1>3, <1>4, <1>6, <2>1, <2>2 DEF Has, Want, world
<1>8. /\ JobOK' /\ Order' /\ Progress' /\ Plainly' /\ Condemned'
      /\ job'.made \subseteq Component /\ job'.result \in Result
  BY <1>1, <1>2, <1>3, <1>7, StepHolds
<1>9. TypeOK'
  BY <1>3, <1>5, <1>8 DEF IInv, Typed, TypeOK, records, world, Result
<1>10. Standing'
  BY <1>3, <1>4 DEF IInv, Standing, IsWorktree
<1>11. InPlace' /\ KeepsWork
  BY <1>3, <1>4 DEF IInv, InPlace, IsWorktree, Clean, NoneSeen, KeepsWork, world
<1> QED BY <1>8, <1>9, <1>10, <1>11 DEF IInv, Typed

\* A fresh clone brings the branches; its fetch and the upstreams are still to come.
LEMMA CloneHolds == IInv /\ Clone => IInv' /\ KeepsWork
<1> SUFFICES ASSUME IInv, Clone
             PROVE  IInv' /\ KeepsWork
  OBVIOUS
<1> DEFINE do == "clone"
<1>1. JobOK /\ Doing(do) /\ do \in MakeDo \ {"prune"} /\ do \in StoreDo
  BY DEF IInv, Typed, Clone, MakeDo, StoreDo
<1>2. PICK c \in Component :
          /\ Head(job.todo) = Step(do, c) /\ Head(job.todo).comp = c
          /\ \A w : \A g \in Want : Head(job.todo) = StepFor(g, w) => g = do /\ Home(w) = c
          /\ \A d, e : Head(job.todo) = Step(d, e) => d = do /\ e = c
  BY <1>1, AtStore
<1>3. CASE "bare" \in store[c] /\ Skip
  <2>1. \A w : \A g \in Want : Head(job.todo) = StepFor(g, w) => Has(g, w)
    BY <1>2, <1>3 DEF Has
  <2> QED BY <1>1, <1>2, <1>3, <2>1, SkipHolds
<1>4. CASE materialize_abort
  BY <1>1, <1>4, AbortedHolds
<1>5. CASE /\ "bare" \notin store[c]
           /\ store' = [store EXCEPT ![c] = @ \cup {"bare"}]
           /\ branch' = [w \in Worktree |->
                           IF Home(w) = c THEN [NoBranch EXCEPT !.head = remote[w]]
                           ELSE branch[w]]
           /\ job' = [job EXCEPT !.todo = << Step("fetch", c) >> \o Tail(@),
                                 !.made = @ \cup {c}]
           /\ UNCHANGED <<tree, handle, records, world>>
  <2> DEFINE t == Tail(job.todo)
             n == << Step("fetch", c) >> \o t
  <2>1. /\ job.todo \in Seq(AnyStep) /\ job.todo # << >> /\ t \in Seq(AnyStep)
        /\ ~Idle /\ job.verb = "materialize" /\ job.sel \in Selection
    BY <1>1, AtStep, Materializing
  <2>2. \A x : In(x, t) => In(x, job.todo)
    BY <2>1, InTail
  <2>3. /\ n \in Seq(AnyStep)
        /\ \A y : In(y, n) <=> y = Step("fetch", c) \/ In(y, t)
        /\ \A a, b : b # Step("fetch", c) /\ Before(t, a, b) => Before(n, a, b)
        /\ \A a, b : (a # Step("fetch", c) \/ In(b, t)) /\ After(t, a, b) => After(n, a, b)
        /\ ReceiptsLast(t) => ReceiptsLast(n)
    <3> HIDE DEF t
    <3>1. Step("fetch", c) \in AnyStep /\ Step("fetch", c).do = "fetch"
      BY DEF AnyStep, StoreDo, Step
    <3> QED BY <2>1, <3>1, Pushed
  <2> HIDE DEF t, n
  <2>4. /\ job' \in Job /\ job'.todo = n /\ job'.verb = job.verb /\ job'.sel = job.sel
        /\ job'.force = job.force /\ job'.result = job.result
    <3> DEFINE p == [job EXCEPT !.todo = n]
    <3>1. p \in Job /\ p.todo = n /\ p.verb = job.verb /\ p.sel = job.sel
          /\ p.force = job.force /\ p.result = job.result /\ p.made = job.made
      BY <1>1, <2>3 DEF JobOK, Job
    <3>2. job' = [p EXCEPT !.made = job.made \cup {c}]
      BY <1>1, <1>5 DEF JobOK, Job, n, t
    <3> HIDE DEF p
    <3> QED BY <3>1, <3>2 DEF Job
  <2>5. JobOK'
    <3>1. \A x : In(x, n) => x.do \in MakeDo /\ x.do # "inspect"
      BY <1>1, <2>1, <2>2, <2>3 DEF JobOK, MayDo, MakeDo, Step
    <3> QED BY <2>1, <2>4, <3>1 DEF JobOK, MayDo
  <2>6. "old" \notin store[c]
    <3>1. ASSUME "old" \in store[c] PROVE FALSE
      <4>1. Before(job.todo, Step("migrate", c), Head(job.todo))
        BY <1>2, <3>1 DEF IInv, Order
      <4> QED BY <2>1, <4>1, BeforeHead
    <3> QED BY <3>1
  <2>7. \A d \in Component :
            /\ d # c => store'[d] = store[d]
            /\ "bare" \in store'[d] <=> "bare" \in store[d] \/ d = c
            /\ \A part \in {"old", "link", "tracking"} : part \in store'[d] <=> part \in store[d]
    BY <1>5 DEF IInv, Typed, TypeOK
  <2>8. Order'
    <3>1. ASSUME NEW d \in Component, "old" \in store'[d]
          PROVE  Before(n, Step("migrate", d), Step("clone", d))
      <4>1. "old" \in store[d] /\ d # c
        BY <2>6, <2>7, <3>1
      <4>2. Before(t, Step("migrate", d), Step("clone", d))
        BY <1>2, <2>1, <4>1, BeforeTail DEF IInv, Order, t
      <4> QED BY <2>3, <4>2 DEF Step
    <3>2. ASSUME NEW w \in Worktree, "bare" \notin store'[Home(w)]
          PROVE  Before(n, Step("clone", Home(w)), TreeStep("add", w))
      <4>1. "bare" \notin store[Home(w)] /\ Home(w) # c /\ Home(w) \in Component
        BY <2>7, <3>2, HomeIs
      <4>2. Before(t, Step("clone", Home(w)), TreeStep("add", w))
        BY <1>2, <2>1, <4>1, BeforeTail DEF IInv, Order, t
      <4>3. TreeStep("add", w) # Step("fetch", c)
        BY DEF Step, TreeStep
      <4> QED BY <2>3, <4>2, <4>3
    <3>3. ReceiptsLast(n)
      BY <2>1, <2>3, ReceiptsTail DEF IInv, Order, t
    <3>4. \A x : In(x, n) /\ x.do = "receipt" => job.result = "done"
      BY <2>2, <2>3 DEF IInv, Order, Step
    <3> QED BY <2>4, <3>1, <3>2, <3>3, <3>4 DEF Order
  <2>9. Progress'
    <3> SUFFICES ASSUME Making PROVE Progress'
      BY <2>4 DEF Progress, Making
    <3>1. \A w \in Asked(job.sel) : Followed(w)
      BY DEF IInv, Progress
    <3>2. \A w : Followed(w) /\ Home(w) = c => In(TreeStep("upstream", w), t)
      BY <1>2, <2>1, AfterTail DEF Followed, t
    <3>3. ASSUME NEW w \in Asked(job.sel), NEW g \in Want,
                 Has(g, w) \/ Head(job.todo) = StepFor(g, w)
          PROVE  Has(g, w)' \/ In(StepFor(g, w), t)
      <4>1. Home(w) \in Component /\ w \in Worktree
        BY <2>1, Selected, HomeIs
      <4>2. CASE g = "upstream"
        <5>1. CASE Home(w) = c
          BY <3>1, <3>2, <4>2, <5>1 DEF StepFor
        <5>2. CASE Home(w) # c
          <6>1. Has(g, w)
            BY <1>2, <3>3, <4>2
          <6>2. branch'[w] = branch[w] /\ store'[Home(w)] = store[Home(w)]
            BY <1>5, <2>7, <4>1, <5>2
          <6> QED BY <1>5, <4>2, <6>1, <6>2 DEF Has, world
        <5> QED BY <5>1, <5>2
      <4>3. CASE g # "upstream"
        <5>1. Exists(w, Target(w, job.sel))' <=> Exists(w, Target(w, job.sel))
          BY <1>5, <2>4 DEF Exists
        <5> QED BY <1>2, <1>5, <2>4, <2>7, <3>3, <4>1, <4>3, <5>1 DEF Has
      <4> QED BY <4>2, <4>3
    <3>4. ASSUME NEW w \in Asked(job.sel)
          PROVE  Followed(w)'
      <4>1. /\ After(t, Step("clone", Home(w)), TreeStep("upstream", w))
            /\ After(t, Step("fetch", Home(w)), TreeStep("upstream", w))
        BY <2>1, <3>1, AfterTail DEF Followed, t
      <4>2. Step("clone", Home(w)) # Step("fetch", c)
            /\ (Step("fetch", Home(w)) = Step("fetch", c) => Home(w) = c)
        BY DEF Step
      <4>3. /\ After(n, Step("clone", Home(w)), TreeStep("upstream", w))
            /\ After(n, Step("fetch", Home(w)), TreeStep("upstream", w))
        BY <2>3, <3>1, <3>2, <4>1, <4>2
      <4> QED BY <2>4, <4>3 DEF Followed, Step, TreeStep
    <3> QED BY <1>1, <2>1, <2>3, <2>4, <3>3, <3>4, ProgressOn DEF IInv, t
  <2>10. Plainly' /\ Condemned'
    BY <1>5, <2>1, <2>4, <2>5, NoneCondemned DEF IInv, Plainly, Named, world
  <2>11. TypeOK'
    <3>1. \A w \in Worktree : [NoBranch EXCEPT !.head = remote[w]]
              \in [head : Commit \cup {NoCommit, Mine}, upstream : BOOLEAN]
      BY DEF IInv, Typed, TypeOK, NoBranch
    <3>2. branch' \in [Worktree -> [head : Commit \cup {NoCommit, Mine}, upstream : BOOLEAN]]
      BY <1>5, <3>1 DEF IInv, Typed, TypeOK
    <3>3. store' \in [Component -> SUBSET Part]
      BY <1>5 DEF IInv, Typed, TypeOK, Part
    <3> QED BY <1>5, <2>4, <3>2, <3>3 DEF IInv, Typed, TypeOK, records, world, Job, Result
  <2>12. \A w \in Worktree : IsWorktree(w) => Home(w) # c
    BY <1>5, <2>6 DEF IInv, Standing
  <2>13. \A w \in Worktree : Home(w) = c /\ plain => NoneSeen(w)
    BY <2>12 DEF IInv, InPlace
  <2>14. \A w \in Worktree : branch'[w].head \in {branch[w].head, remote[w]}
                             /\ (Home(w) # c => branch'[w] = branch[w])
    BY <1>5 DEF NoBranch
  <2>15. \A w \in Worktree : remote[w] # Mine
    BY RecipeAssumption DEF IInv, Typed, TypeOK
  <2>16. Standing'
    BY <1>5, <2>7, <2>12, HomeIs DEF IInv, Standing, IsWorktree
  <2>17. InPlace' /\ KeepsWork
    BY <1>5, <2>13, <2>14, <2>15 DEF IInv, InPlace, KeepsWork, IsWorktree, Clean, NoneSeen, world
  <2> QED BY <2>5, <2>8, <2>9, <2>10, <2>11, <2>16, <2>17 DEF IInv, Typed
<1> QED BY <1>2, <1>3, <1>4, <1>5 DEF Clone

\* Whether the fetch brings the tracking refs or not, the upstreams come after it.
LEMMA FetchHolds == IInv /\ Fetch => IInv' /\ KeepsWork
<1> SUFFICES ASSUME IInv, Fetch
             PROVE  IInv' /\ KeepsWork
  OBVIOUS
<1>1. JobOK /\ Doing("fetch") /\ ~Idle /\ job.verb = "materialize" /\ job.sel \in Selection
  BY Materializing DEF IInv, Typed, Fetch, MakeDo
<1>2. PICK c \in Component :
          /\ Head(job.todo) = Step("fetch", c) /\ Head(job.todo).comp = c
          /\ \A w : \A g \in Want : Head(job.todo) = StepFor(g, w) => g = "fetch" /\ Home(w) = c
          /\ \A d, e : Head(job.todo) = Step(d, e) => d = "fetch" /\ e = c
  BY <1>1, AtStore DEF StoreDo
<1>3. /\ Proceed /\ UNCHANGED <<branch, tree, handle, records, world>>
      /\ store' = [store EXCEPT ![c] = @ \cup {"tracking"}] \/ store' = store
  BY <1>2 DEF Fetch
<1>4. \A d \in Component :
          /\ d # c => store'[d] = store[d]
          /\ \A part \in {"old", "bare", "link"} : part \in store'[d] <=> part \in store[d]
  BY <1>3 DEF IInv, Typed, TypeOK
<1>5. job'.sel = job.sel /\ job.todo \in Seq(AnyStep) /\ job.todo # << >>
  BY <1>1, <1>3, Onward, AtStep
<1>6. ASSUME NEW w \in Asked(job.sel), NEW g \in Want,
             Has(g, w) \/ Head(job.todo) = StepFor(g, w), Making
      PROVE  Has(g, w)' \/ In(StepFor(g, w), Tail(job.todo))
  <2>1. Home(w) \in Component
    BY <1>1, Selected, HomeIs
  <2>2. Has(g, w)
    BY <1>2, <1>6 DEF Want
  <2>3. CASE g = "upstream" /\ Home(w) = c
    <3>1. Followed(w)
      BY <1>6 DEF IInv, Progress
    <3>2. In(TreeStep("upstream", w), Tail(job.todo))
      BY <1>2, <1>5, <2>3, <3>1, AfterTail DEF Followed
    <3> QED BY <2>3, <3>2 DEF StepFor
  <2>4. CASE g = "upstream" /\ Home(w) # c
    <3>1. store'[Home(w)] = store[Home(w)]
      BY <1>4, <2>1, <2>4
    <3> QED BY <1>3, <2>2, <2>4, <3>1 DEF Has, world
  <2>5. CASE g # "upstream"
    <3>1. Exists(w, Target(w, job.sel))' <=> Exists(w, Target(w, job.sel))
      BY <1>3, <1>5 DEF Exists
    <3> QED BY <1>3, <1>4, <1>5, <2>1, <2>2, <2>5, <3>1 DEF Has
  <2> QED BY <2>3, <2>4, <2>5
<1>7. /\ JobOK' /\ Order' /\ Progress' /\ Plainly' /\ Condemned'
      /\ job'.made \subseteq Component /\ job'.result \in Result
  BY <1>1, <1>2, <1>3, <1>4, <1>6, StepHolds
<1>8. TypeOK'
  BY <1>3, <1>7 DEF IInv, Typed, TypeOK, records, world, Result, Part
<1>9. Standing' /\ InPlace' /\ KeepsWork
  BY <1>3, <1>4, HomeIs DEF IInv, Standing, InPlace, IsWorktree, Clean, NoneSeen, KeepsWork, world
<1> QED BY <1>7, <1>8, <1>9 DEF IInv, Typed

\* The link is made, or it is there.
LEMMA LinkHolds == IInv /\ Link => IInv' /\ KeepsWork
<1> SUFFICES ASSUME IInv, Link
             PROVE  IInv' /\ KeepsWork
  OBVIOUS
<1>1. JobOK /\ Doing("link") /\ ~Idle /\ job.verb = "materialize" /\ job.sel \in Selection
  BY Materializing DEF IInv, Typed, Link, MakeDo
<1>2. PICK c \in Component :
          /\ Head(job.todo) = Step("link", c) /\ Head(job.todo).comp = c
          /\ \A w : \A g \in Want : Head(job.todo) = StepFor(g, w) => g = "link" /\ Home(w) = c
          /\ \A d, e : Head(job.todo) = Step(d, e) => d = "link" /\ e = c
  BY <1>1, AtStore DEF StoreDo
<1>3. CASE materialize_abort
  BY <1>1, <1>3, AbortedHolds DEF MakeDo
<1>4. CASE /\ store' = [store EXCEPT ![c] = @ \cup {"link"}]
           /\ Proceed
           /\ UNCHANGED <<branch, tree, handle, records, world>>
  <2>1. \A d \in Component :
            /\ \A part \in {"old", "bare", "tracking"} : part \in store'[d] <=> part \in store[d]
            /\ "link" \in store'[d] <=> "link" \in store[d] \/ d = c
    BY <1>4 DEF IInv, Typed, TypeOK
  <2>2. job'.sel = job.sel
    BY <1>1, <1>4, Onward
  <2>3. \A w \in Asked(job.sel) : \A g \in Want :
            Has(g, w) \/ Head(job.todo) = StepFor(g, w) => Has(g, w)'
    <3>1. \A w \in Asked(job.sel) : Home(w) \in Component
      BY <1>1, Selected, HomeIs
    <3>2. \A w : Exists(w, Target(w, job.sel))' <=> Exists(w, Target(w, job.sel))
      BY <1>4, <2>2 DEF Exists
    <3> QED BY <1>2, <1>4, <2>1, <2>2, <3>1, <3>2 DEF Has, world
  <2>4. /\ JobOK' /\ Order' /\ Progress' /\ Plainly' /\ Condemned'
        /\ job'.made \subseteq Component /\ job'.result \in Result
    BY <1>1, <1>2, <1>4, <2>1, <2>3, StepHolds
  <2>5. TypeOK'
    BY <1>4, <2>4 DEF IInv, Typed, TypeOK, records, world, Result, Part
  <2>6. Standing' /\ InPlace' /\ KeepsWork
    BY <1>4, <2>1, HomeIs DEF IInv, Standing, InPlace, IsWorktree, Clean, NoneSeen, KeepsWork, world
  <2> QED BY <2>4, <2>5, <2>6 DEF IInv, Typed
<1> QED BY <1>2, <1>3, <1>4 DEF Link

\* A step of teardown made or refused, the command goes on.
LEMMA TearHolds ==
    ASSUME IInv, ~Idle, job.verb # "materialize", Proceed \/ Refuse, UNCHANGED world,
           plain => \A w \in Worktree : NoneSeen(w) => NoneSeen(w)'
    PROVE  /\ JobOK' /\ Order' /\ Progress' /\ Plainly' /\ Condemned'
           /\ job'.made \subseteq Component /\ job'.result \in Result
<1>1. JobOK
  BY DEF IInv, Typed
<1>2. /\ JobOK' /\ job'.todo = Tail(job.todo) /\ job'.verb = job.verb /\ job'.sel = job.sel
      /\ job'.force = job.force
  BY <1>1, Onward
<1>3. Order' /\ Progress'
  BY <1>2, OrderNone DEF Progress, Making
<1>4. Plainly' /\ Condemned'
  BY <1>1, <1>2, CondemnedTail DEF IInv, Plainly, Named, world
<1> QED BY <1>2, <1>3, <1>4 DEF JobOK, Job

\* A registration whose directory is gone hides nothing that was wanted.
LEMMA PruneHolds == IInv /\ Prune => IInv' /\ KeepsWork
<1> SUFFICES ASSUME IInv, Prune
             PROVE  IInv' /\ KeepsWork
  OBVIOUS
<1>1. JobOK /\ Doing("prune") /\ ~Idle /\ job.sel \in Selection
  BY AtStep DEF IInv, Typed, Prune, Doing
<1>2. PICK c \in Component :
          /\ Head(job.todo) = Step("prune", c) /\ Head(job.todo).comp = c
          /\ \A w : \A g \in Want : Head(job.todo) = StepFor(g, w) => g = "prune" /\ Home(w) = c
          /\ \A d, e : Head(job.todo) = Step(d, e) => d = "prune" /\ e = c
  BY <1>1, AtStore DEF StoreDo
<1>3. /\ Proceed /\ UNCHANGED <<store, branch, handle, records, world>>
      /\ \A w \in Worktree : tree'[w] = tree[w] \/ (tree[w].place = "lost" /\ tree'[w] = NoTree)
  BY DEF Prune
<1>4. \A w \in Worktree : tree[w].place # "lost" => tree'[w] = tree[w]
  BY <1>3
<1>5. plain => \A w \in Worktree : tree'[w] = tree[w] /\ (NoneSeen(w) => NoneSeen(w)')
  BY <1>3, <1>4 DEF IInv, InPlace, Clean, NoneSeen
<1>6. tree' \in [Worktree -> [place : Place, dirty : BOOLEAN, linked : BOOLEAN, filled : BOOLEAN]]
  BY DEF Prune, IInv, Typed, TypeOK, NoTree, Place
<1>7. /\ JobOK' /\ Order' /\ Progress' /\ Plainly' /\ Condemned'
      /\ job'.made \subseteq Component /\ job'.result \in Result
  <2>1. CASE job.verb = "materialize"
    <3>1. job'.sel = job.sel
      BY <1>1, <1>3, Onward
    <3>2. \A w \in Worktree : Exists(w, Target(w, job.sel)) => Exists(w, Target(w, job.sel))'
      BY <1>3, <1>4, <3>1 DEF Exists, Target, line_target
    <3>3. \A w \in Asked(job.sel) : \A g \in Want :
              Has(g, w) \/ Head(job.todo) = StepFor(g, w) => Has(g, w)'
      <4>1. \A w \in Asked(job.sel) : w \in Worktree
        BY <1>1, Selected
      <4> QED BY <1>2, <1>3, <1>4, <3>1, <3>2, <4>1 DEF Has, Want, world
    <3> QED BY <1>1, <1>2, <1>3, <2>1, <3>3, StepHolds
  <2>2. CASE job.verb # "materialize"
    BY <1>1, <1>3, <1>5, <2>2, TearHolds
  <2> QED BY <2>1, <2>2
<1>8. TypeOK'
  BY <1>3, <1>6, <1>7 DEF IInv, Typed, TypeOK, records, world, Result
<1>9. Standing'
  BY <1>3 DEF IInv, Standing, IsWorktree, NoTree
<1>10. InPlace' /\ KeepsWork
  BY <1>3, <1>5 DEF IInv, InPlace, IsWorktree, Clean, NoneSeen, KeepsWork, world
<1> QED BY <1>7, <1>8, <1>9, <1>10 DEF IInv, Typed

\* The worktree a step is about.
LEMMA AtTree ==
    ASSUME JobOK, NEW do \in {"add", "submodules", "upstream", "handle", "remove"}, Doing(do)
    PROVE  \E w \in Worktree :
              /\ Head(job.todo) = TreeStep(do, w) /\ Head(job.todo).tree = w
              /\ Head(job.todo).comp = Home(w)
              /\ do = "handle" => Kind[w] = "stored"
              /\ \A v : \A g \in Want : Head(job.todo) = StepFor(g, v) => g = do /\ v = w
              /\ \A c : Head(job.todo) # Step("migrate", c) /\ Head(job.todo) # Step("clone", c)
<1>1. PICK w \in Worktree :
          /\ Head(job.todo) = TreeStep(do, w) /\ Head(job.todo).tree = w
          /\ Head(job.todo).comp = Home(w)
          /\ do = "handle" => Kind[w] = "stored"
  BY AtStep
<1>2. Head(job.todo).do = do
  BY DEF Doing
<1>3. ASSUME NEW v, NEW g \in Want, Head(job.todo) = StepFor(g, v)
      PROVE  g = do /\ v = w
  <2>1. g = do
    BY <1>2, <1>3, ForStep
  <2>2. g \in {"add", "upstream", "handle"}
    BY <2>1 DEF Want
  <2> QED BY <1>1, <1>3, <2>1, <2>2, ForStep
<1>4. \A c : Head(job.todo) # Step("migrate", c) /\ Head(job.todo) # Step("clone", c)
  BY <1>2 DEF Step
<1> QED BY <1>1, <1>3, <1>4

\* A worktree's pin, its own or its component's, is a commit.
LEMMA PinIsCommit ==
    ASSUME TypeOK, NEW w \in Worktree
    PROVE  PinOf(w) \in Commit
<1>1. Home(w) \in Component
  BY HomeIs
<1>2. Trees[Home(w)] \in Seq(Worktree) /\ Trees[Home(w)] # << >>
  BY <1>1, RecipeAssumption
<1>3. Canonical(Home(w)) \in Worktree
  BY <1>2 DEF Canonical
<1> QED BY <1>3 DEF PinOf, TypeOK

\* A worktree is added on a store, where nothing stood.
LEMMA AddHolds == IInv /\ add_worktree => IInv' /\ KeepsWork
<1> SUFFICES ASSUME IInv, add_worktree
             PROVE  IInv' /\ KeepsWork
  OBVIOUS
<1>1. JobOK /\ Doing("add") /\ ~Idle /\ job.verb = "materialize" /\ job.sel \in Selection
  BY Materializing DEF IInv, Typed, add_worktree, MakeDo
<1>2. PICK w \in Worktree :
          /\ Head(job.todo) = TreeStep("add", w) /\ Head(job.todo).tree = w
          /\ \A v : \A g \in Want : Head(job.todo) = StepFor(g, v) => g = "add" /\ v = w
          /\ \A c : Head(job.todo) # Step("migrate", c) /\ Head(job.todo) # Step("clone", c)
  BY <1>1, AtTree
<1> DEFINE at == Target(w, job.sel)
<1>3. CASE Exists(w, at) /\ Skip
  <2>1. \A v : \A g \in Want : Head(job.todo) = StepFor(g, v) => Has(g, v)
    BY <1>2, <1>3 DEF Has
  <2> QED BY <1>1, <1>2, <1>3, <2>1, SkipHolds DEF MakeDo
<1>4. CASE materialize_abort
  BY <1>1, <1>4, AbortedHolds DEF MakeDo
<1>5. CASE /\ tree[w].place = "nowhere"
           /\ tree' = [tree EXCEPT ![w] = [NoTree EXCEPT !.place = at]]
           /\ branch' = [branch EXCEPT ![w].head = HeadAfterAdd(w)]
           /\ job' = [job EXCEPT !.todo = << TreeStep("submodules", w) >> \o Tail(@),
                                 !.made = @ \cup {Home(w)}]
           /\ UNCHANGED <<store, handle, records, world>>
  <2>1. Home(w) \in Component /\ at \in {"inside", "outside"}
    BY HomeIs DEF Target, line_target
  <2> DEFINE x == TreeStep("submodules", w)
             n == << x >> \o Tail(job.todo)
  <2>13. x \in AnyStep /\ x.do = "submodules" /\ n \in Seq(AnyStep)
    <3>1. x \in AnyStep
      BY DEF AnyStep
    <3>2. Tail(job.todo) \in Seq(AnyStep)
      BY <1>1, AtStep
    <3> QED BY <3>1, <3>2 DEF TreeStep
  <2>2. /\ job' \in Job /\ job'.todo = n /\ job'.verb = job.verb
        /\ job'.sel = job.sel /\ job'.force = job.force /\ job'.result = job.result
    <3>1. job' = [job EXCEPT !.todo = n, !.made = @ \cup {Home(w)}]
      BY <1>5
    <3>2. {Home(w)} \in SUBSET Component
      BY <2>1
    <3> HIDE DEF n
    <3> QED BY <1>1, <2>13, <3>1, <3>2, NewList
  <2>3. /\ \A v \in Worktree : v # w => tree'[v] = tree[v] /\ branch'[v] = branch[v]
        /\ tree'[w] = [NoTree EXCEPT !.place = at]
        /\ tree'[w].place = at /\ ~tree'[w].dirty
        /\ branch'[w] = [branch[w] EXCEPT !.head = HeadAfterAdd(w)]
    BY <1>5 DEF IInv, Typed, TypeOK, NoTree
  <2>4. branch'[w].upstream = branch[w].upstream
    BY <2>3 DEF IInv, Typed, TypeOK
  <2>5. \A v \in Asked(job.sel) : \A g \in Want :
            Has(g, v) \/ Head(job.todo) = StepFor(g, v) => Has(g, v)'
    <3>1. \A v \in Asked(job.sel) : v \in Worktree
      BY <1>1, Selected
    <3>2. \A v \in Worktree : v # w /\ Exists(v, Target(v, job.sel)) => Exists(v, Target(v, job.sel))'
      BY <1>5, <2>2, <2>3 DEF Exists
    <3>3. Exists(w, Target(w, job.sel))'
      BY <2>2, <2>3 DEF Exists
    <3>4. ASSUME NEW v \in Worktree, NEW g \in Want, Has(g, v) \/ Head(job.todo) = StepFor(g, v)
          PROVE  Has(g, v)'
      <4>1. g = "add" => Has(g, v)'
        BY <1>2, <3>2, <3>3, <3>4 DEF Has
      <4>2. g # "add" => Has(g, v)
        BY <1>2, <3>4
      <4>3. g \in {"migrate", "clone", "link"} => Has(g, v)'
        BY <1>5, <4>2 DEF Has
      <4>4. g = "upstream" => Has(g, v)'
        BY <1>5, <2>3, <2>4, <4>2 DEF Has, world
      <4>5. g = "handle" => Has(g, v)'
        BY <1>5, <2>2, <2>3, <4>2 DEF Has
      <4> QED BY <4>1, <4>3, <4>4, <4>5 DEF Want
    <3> QED BY <3>1, <3>4
  <2>6. /\ JobOK' /\ Order' /\ Progress' /\ Plainly' /\ Condemned'
        /\ job'.made \subseteq Component /\ job'.result \in Result
    BY <1>1, <1>2, <1>5, <2>2, <2>5, <2>13, PushHolds
  <2>7. TypeOK'
    <3>1. HeadAfterAdd(w) \in Commit \cup {NoCommit, Mine}
      BY PinIsCommit DEF HeadAfterAdd, IInv, Typed, TypeOK
    <3>2. branch' \in [Worktree -> [head : Commit \cup {NoCommit, Mine}, upstream : BOOLEAN]]
      BY <1>5, <3>1 DEF IInv, Typed, TypeOK
    <3>3. tree' \in [Worktree -> [place : Place, dirty : BOOLEAN, linked : BOOLEAN, filled : BOOLEAN]]
      BY <1>5, <2>1 DEF IInv, Typed, TypeOK, Place, NoTree
    <3> QED BY <1>5, <2>6, <3>2, <3>3 DEF IInv, Typed, TypeOK, records, world, Result
  <2>8. "bare" \in store[Home(w)]
    <3>1. ~Before(job.todo, Step("clone", Home(w)), Head(job.todo))
      BY <1>1, AtStep, BeforeHead
    <3> QED BY <1>2, <3>1 DEF IInv, Order
  <2>9. Standing'
    BY <1>5, <2>3, <2>8 DEF IInv, Standing, IsWorktree
  <2>10. plain => at = line_target(w) /\ NoneSeen(w)
    BY <1>1, <1>5 DEF IInv, Plainly, InPlace, IsWorktree, Target, JobOK
  <2>11. InPlace'
    BY <1>5, <2>1, <2>3, <2>10 DEF IInv, InPlace, IsWorktree, Clean, NoneSeen, world
  <2>12. KeepsWork
    BY <1>5, <2>3, <2>10 DEF KeepsWork, Clean, NoneSeen, world
  <2> QED BY <2>6, <2>7, <2>9, <2>11, <2>12 DEF IInv, Typed
<1> QED BY <1>2, <1>3, <1>4, <1>5 DEF add_worktree

\* With its submodules or without, a worktree is where it was.
LEMMA FillHolds == IInv /\ FillSubmodules => IInv' /\ KeepsWork
<1> SUFFICES ASSUME IInv, FillSubmodules
             PROVE  IInv' /\ KeepsWork
  OBVIOUS
<1>1. JobOK /\ Doing("submodules") /\ ~Idle /\ job.verb = "materialize" /\ job.sel \in Selection
  BY Materializing DEF IInv, Typed, FillSubmodules, MakeDo
<1>2. PICK w \in Worktree :
          /\ Head(job.todo).tree = w
          /\ \A v : \A g \in Want : Head(job.todo) = StepFor(g, v) => g = "submodules" /\ v = w
          /\ \A c : Head(job.todo) # Step("migrate", c) /\ Head(job.todo) # Step("clone", c)
  BY <1>1, AtTree
<1>3. /\ Proceed /\ UNCHANGED <<store, branch, handle, records, world>>
      /\ tree' = [tree EXCEPT ![w].filled = TRUE] \/ tree' = tree
  BY <1>2 DEF FillSubmodules
<1>4. \A v \in Worktree : /\ tree'[v].place = tree[v].place /\ tree'[v].dirty = tree[v].dirty
                          /\ tree'[v].linked = tree[v].linked
  BY <1>3 DEF IInv, Typed, TypeOK
<1>5. tree' \in [Worktree -> [place : Place, dirty : BOOLEAN, linked : BOOLEAN, filled : BOOLEAN]]
  BY <1>3 DEF IInv, Typed, TypeOK
<1>6. job'.sel = job.sel
  BY <1>1, <1>3, Onward
<1>7. \A v \in Asked(job.sel) : \A g \in Want :
          Has(g, v) \/ Head(job.todo) = StepFor(g, v) => Has(g, v)'
  <2>1. \A v \in Asked(job.sel) : v \in Worktree
    BY <1>1, Selected
  <2>2. \A v \in Worktree : Exists(v, Target(v, job.sel))' <=> Exists(v, Target(v, job.sel))
    BY <1>3, <1>4, <1>6 DEF Exists
  <2> QED BY <1>2, <1>3, <1>4, <1>6, <2>1, <2>2 DEF Has, Want, world
<1>8. /\ JobOK' /\ Order' /\ Progress' /\ Plainly' /\ Condemned'
      /\ job'.made \subseteq Component /\ job'.result \in Result
  BY <1>1, <1>2, <1>3, <1>7, StepHolds
<1>9. TypeOK'
  BY <1>3, <1>5, <1>8 DEF IInv, Typed, TypeOK, records, world, Result
<1>10. Standing'
  BY <1>3, <1>4 DEF IInv, Standing, IsWorktree
<1>11. InPlace' /\ KeepsWork
  BY <1>3, <1>4 DEF IInv, InPlace, IsWorktree, Clean, NoneSeen, KeepsWork, world
<1> QED BY <1>8, <1>9, <1>10, <1>11 DEF IInv, Typed

\* An upstream is set where it is owed.
LEMMA UpstreamHolds == IInv /\ ensure_upstream => IInv' /\ KeepsWork
<1> SUFFICES ASSUME IInv, ensure_upstream
             PROVE  IInv' /\ KeepsWork
  OBVIOUS
<1>1. JobOK /\ Doing("upstream") /\ ~Idle /\ job.verb = "materialize" /\ job.sel \in Selection
  BY Materializing DEF IInv, Typed, ensure_upstream, MakeDo
<1>2. PICK w \in Worktree :
          /\ Head(job.todo) = TreeStep("upstream", w) /\ Head(job.todo).tree = w
          /\ \A v : \A g \in Want : Head(job.todo) = StepFor(g, v) => g = "upstream" /\ v = w
          /\ \A c : Head(job.todo) # Step("migrate", c) /\ Head(job.todo) # Step("clone", c)
  BY <1>1, AtTree
<1>3. CASE /\ ~("tracking" \in store[Home(w)] /\ remote[w] # NoCommit /\ ~branch[w].upstream)
           /\ Skip
  <2>1. \A v : \A g \in Want : Head(job.todo) = StepFor(g, v) => Has(g, v)
    BY <1>2, <1>3 DEF Has
  <2> QED BY <1>1, <1>2, <1>3, <2>1, SkipHolds DEF MakeDo
<1>4. CASE materialize_abort
  BY <1>1, <1>4, AbortedHolds DEF MakeDo
<1>5. CASE /\ branch' = [branch EXCEPT ![w].upstream = TRUE]
           /\ Proceed
           /\ UNCHANGED <<store, tree, handle, records, world>>
  <2>1. job'.sel = job.sel
    BY <1>1, <1>5, Onward
  <2>2. \A v \in Worktree : /\ branch'[v].head = branch[v].head
                            /\ branch'[v].upstream = (branch[v].upstream \/ v = w)
    BY <1>5 DEF IInv, Typed, TypeOK
  <2>3. \A v \in Asked(job.sel) : \A g \in Want :
            Has(g, v) \/ Head(job.todo) = StepFor(g, v) => Has(g, v)'
    <3>1. \A v \in Asked(job.sel) : v \in Worktree
      BY <1>1, Selected
    <3>2. \A v : Exists(v, Target(v, job.sel))' <=> Exists(v, Target(v, job.sel))
      BY <1>5, <2>1 DEF Exists
    <3>3. ASSUME NEW v \in Worktree, NEW g \in Want, Has(g, v) \/ Head(job.todo) = StepFor(g, v)
          PROVE  Has(g, v)'
      <4>1. CASE g = "upstream"
        <5>1. Has(g, v) \/ v = w
          BY <1>2, <3>3
        <5> QED BY <1>5, <2>2, <4>1, <5>1 DEF Has, world
      <4>2. CASE g # "upstream"
        <5>1. Has(g, v)
          BY <1>2, <3>3, <4>2
        <5> QED BY <1>5, <2>1, <3>2, <4>2, <5>1 DEF Has
      <4> QED BY <4>1, <4>2
    <3> QED BY <3>1, <3>3
  <2>4. /\ JobOK' /\ Order' /\ Progress' /\ Plainly' /\ Condemned'
        /\ job'.made \subseteq Component /\ job'.result \in Result
    BY <1>1, <1>2, <1>5, <2>3, StepHolds
  <2>5. TypeOK'
    BY <1>5, <2>4 DEF IInv, Typed, TypeOK, records, world, Result
  <2>6. Standing' /\ InPlace' /\ KeepsWork
    BY <1>5, <2>2 DEF IInv, Standing, InPlace, IsWorktree, Clean, NoneSeen, KeepsWork, world
  <2> QED BY <2>4, <2>5, <2>6 DEF IInv, Typed
<1> QED BY <1>2, <1>3, <1>4, <1>5 DEF ensure_upstream

\* A handle is made for what is not in the host tree itself.
LEMMA HandleHolds == IInv /\ MakeHandle => IInv' /\ KeepsWork
<1> SUFFICES ASSUME IInv, MakeHandle
             PROVE  IInv' /\ KeepsWork
  OBVIOUS
<1>1. JobOK /\ Doing("handle") /\ ~Idle /\ job.verb = "materialize" /\ job.sel \in Selection
  BY Materializing DEF IInv, Typed, MakeHandle, MakeDo
<1>2. PICK w \in Worktree :
          /\ Head(job.todo) = TreeStep("handle", w) /\ Head(job.todo).tree = w
          /\ Kind[w] = "stored"
          /\ \A v : \A g \in Want : Head(job.todo) = StepFor(g, v) => g = "handle" /\ v = w
          /\ \A c : Head(job.todo) # Step("migrate", c) /\ Head(job.todo) # Step("clone", c)
  BY <1>1, AtTree
<1>3. CASE ~(w \notin handle /\ tree[w].place # "inside") /\ Skip
  <2>1. \A v : \A g \in Want : Head(job.todo) = StepFor(g, v) => Has(g, v)
    BY <1>2, <1>3 DEF Has
  <2> QED BY <1>1, <1>2, <1>3, <2>1, SkipHolds DEF MakeDo
<1>4. CASE materialize_abort
  BY <1>1, <1>4, AbortedHolds DEF MakeDo
<1>5. CASE /\ handle' = handle \cup {w}
           /\ Made(Home(w))
           /\ UNCHANGED <<store, branch, tree, records, world>>
  <2>1. Home(w) \in Component
    BY HomeIs
  <2>2. job'.sel = job.sel
    BY <1>1, <1>5, <2>1, Onward
  <2>3. \A v : \A g \in Want : Has(g, v) \/ Head(job.todo) = StepFor(g, v) => Has(g, v)'
    <3>1. \A v : Exists(v, Target(v, job.sel)) => Exists(v, Target(v, job.sel))'
      BY <1>5, <2>2 DEF Exists
    <3> QED BY <1>2, <1>5, <2>2, <3>1 DEF Has, world
  <2>4. /\ JobOK' /\ Order' /\ Progress' /\ Plainly' /\ Condemned'
        /\ job'.made \subseteq Component /\ job'.result \in Result
    BY <1>1, <1>2, <1>5, <2>1, <2>3, StepHolds
  <2>5. TypeOK'
    BY <1>2, <1>5, <2>4 DEF IInv, Typed, TypeOK, records, world, Result
  <2>6. Standing' /\ InPlace' /\ KeepsWork
    BY <1>5 DEF IInv, Standing, InPlace, IsWorktree, Clean, NoneSeen, KeepsWork, world
  <2> QED BY <2>4, <2>5, <2>6 DEF IInv, Typed
<1> QED BY <1>2, <1>3, <1>4, <1>5 DEF MakeHandle

\* The two records are of what is; they change nothing of it.
LEMMA ReceiptHolds == IInv /\ append_materialize_receipt => IInv' /\ KeepsWork
<1> SUFFICES ASSUME IInv, append_materialize_receipt
             PROVE  IInv' /\ KeepsWork
  OBVIOUS
<1>1. JobOK /\ Doing("receipt") /\ ~Idle /\ job.verb = "materialize" /\ job.sel \in Selection
  BY Materializing DEF IInv, Typed, append_materialize_receipt, MakeDo
<1>2. PICK c \in Component :
          /\ Head(job.todo).comp = c
          /\ \A w : \A g \in Want : Head(job.todo) = StepFor(g, w) => g = "receipt" /\ Home(w) = c
          /\ \A d, e : Head(job.todo) = Step(d, e) => d = "receipt" /\ e = c
  BY <1>1, AtStore DEF StoreDo
<1>3. /\ Proceed /\ UNCHANGED <<disk, fingerprint, world>>
      /\ receipt' = receipt \/ receipt' = receipt \cup {c}
  BY <1>2 DEF append_materialize_receipt
<1>4. job'.sel = job.sel
  BY <1>1, <1>3, Onward
<1>5. \A w : \A g \in Want : Has(g, w) \/ Head(job.todo) = StepFor(g, w) => Has(g, w)'
  BY <1>2, <1>3, <1>4 DEF Has, Exists, Want, disk, world
<1>6. /\ JobOK' /\ Order' /\ Progress' /\ Plainly' /\ Condemned'
      /\ job'.made \subseteq Component /\ job'.result \in Result
  BY <1>1, <1>2, <1>3, <1>5, StepHolds DEF disk
<1>7. TypeOK'
  BY <1>3, <1>6 DEF IInv, Typed, TypeOK, disk, world, Result
<1>8. Standing' /\ InPlace' /\ KeepsWork
  BY <1>3 DEF IInv, Standing, InPlace, IsWorktree, Clean, NoneSeen, KeepsWork, disk, world
<1> QED BY <1>6, <1>7, <1>8 DEF IInv, Typed

\* What the fingerprint records is among the worktrees asked for.
LEMMA FingerprintHolds == IInv /\ write_envhash => IInv' /\ KeepsWork
<1> SUFFICES ASSUME IInv, write_envhash
             PROVE  IInv' /\ KeepsWork
  OBVIOUS
<1>1. JobOK /\ Doing("fingerprint") /\ ~Idle /\ job.verb = "materialize" /\ job.sel \in Selection
  BY Materializing DEF IInv, Typed, write_envhash, MakeDo
<1>2. /\ Proceed /\ UNCHANGED <<disk, receipt, world>>
      /\ fingerprint' = fingerprint \/ fingerprint' = worktree_paths
  BY DEF write_envhash
<1>3. /\ \A w : \A g \in Want : Head(job.todo) # StepFor(g, w)
      /\ \A c : Head(job.todo) # Step("migrate", c) /\ Head(job.todo) # Step("clone", c)
  <2>1. Head(job.todo).do = "fingerprint"
    BY <1>1 DEF Doing
  <2> QED BY <2>1, ForStep DEF Want, Step
<1>4. job'.sel = job.sel
  BY <1>1, <1>2, Onward
<1>5. \A w : \A g \in Want : Has(g, w) \/ Head(job.todo) = StepFor(g, w) => Has(g, w)'
  BY <1>2, <1>3, <1>4 DEF Has, Exists, disk, world
<1>6. /\ JobOK' /\ Order' /\ Progress' /\ Plainly' /\ Condemned'
      /\ job'.made \subseteq Component /\ job'.result \in Result
  BY <1>1, <1>2, <1>3, <1>5, StepHolds DEF disk
<1>7. TypeOK'
  <2>1. worktree_paths \subseteq Worktree
    BY <1>1, Selected DEF worktree_paths
  <2> QED BY <1>2, <1>6, <2>1 DEF IInv, Typed, TypeOK, disk, world, Result
<1>8. Standing' /\ InPlace' /\ KeepsWork
  BY <1>2 DEF IInv, Standing, InPlace, IsWorktree, Clean, NoneSeen, KeepsWork, disk, world
<1> QED BY <1>6, <1>7, <1>8 DEF IInv, Typed

\* A step of teardown's own.
LEMMA Tearing ==
    ASSUME JobOK, NEW do \in {"inspect", "remove", "delete"}, Doing(do)
    PROVE  ~Idle /\ job.verb = "teardown" /\ job.sel \in Selection
<1>1. ~Idle /\ do \in MayDo(job.verb) /\ job.sel \in Selection
  BY AtStep DEF Doing
<1>2. job.verb \in Verb /\ job.verb # "none"
  BY <1>1 DEF JobOK, Job, Idle
<1> QED BY <1>1, <1>2 DEF MayDo, MakeDo, Verb

\* A worktree goes only from a component that was condemned.
LEMMA RemoveHolds == IInv /\ RemoveTree => IInv' /\ KeepsWork
<1> SUFFICES ASSUME IInv, RemoveTree
             PROVE  IInv' /\ KeepsWork
  OBVIOUS
<1>1. JobOK /\ Doing("remove") /\ ~Idle /\ job.verb = "teardown" /\ job.sel \in Selection
  BY Tearing DEF IInv, Typed, RemoveTree
<1>2. PICK w \in Worktree :
          Head(job.todo).tree = w /\ Head(job.todo).comp = Home(w)
  BY <1>1, AtTree
<1>3. /\ Proceed /\ UNCHANGED <<store, branch, handle, records, world>>
      /\ (tree[w].linked /\ tree' = [tree EXCEPT ![w] = NoTree]) \/ tree' = tree
  BY <1>2 DEF RemoveTree
<1>4. \A v \in Worktree : (v # w => tree'[v] = tree[v]) /\ tree'[v] \in {tree[v], NoTree}
  BY <1>3 DEF IInv, Typed, TypeOK
<1>5. plain => NoneSeen(w)
  <2>1. In(Head(job.todo), job.todo) /\ Head(job.todo).do = "remove"
    BY <1>1, AtStep DEF Doing
  <2> QED BY <1>2, <2>1 DEF IInv, Condemned
<1>6. \A v \in Worktree : NoneSeen(v) => NoneSeen(v)'
  BY <1>3, <1>4 DEF Clean, NoneSeen, NoTree
<1>7. /\ JobOK' /\ Order' /\ Progress' /\ Plainly' /\ Condemned'
      /\ job'.made \subseteq Component /\ job'.result \in Result
  BY <1>1, <1>3, <1>6, TearHolds
<1>8. TypeOK'
  <2>1. tree' \in [Worktree -> [place : Place, dirty : BOOLEAN, linked : BOOLEAN, filled : BOOLEAN]]
    <3>1. /\ NoTree \in [place : Place, dirty : BOOLEAN, linked : BOOLEAN, filled : BOOLEAN]
          /\ tree \in [Worktree -> [place : Place, dirty : BOOLEAN, linked : BOOLEAN, filled : BOOLEAN]]
      BY DEF IInv, Typed, TypeOK, NoTree, Place
    <3> QED BY <1>3, <3>1
  <2> QED BY <1>3, <1>7, <2>1 DEF IInv, Typed, TypeOK, records, world, Result
<1>9. Standing'
  BY <1>3, <1>4 DEF IInv, Standing, IsWorktree, NoTree
<1>10. InPlace' /\ KeepsWork
  BY <1>3, <1>4, <1>5, <1>6 DEF IInv, InPlace, IsWorktree, Clean, NoneSeen, KeepsWork, NoTree, world
<1> QED BY <1>7, <1>8, <1>9, <1>10 DEF IInv, Typed

\* A component goes with all that is in it only when it was condemned.
LEMMA DeleteHolds == IInv /\ Delete => IInv' /\ KeepsWork
<1> SUFFICES ASSUME IInv, Delete
             PROVE  IInv' /\ KeepsWork
  OBVIOUS
<1>1. JobOK /\ Doing("delete") /\ ~Idle /\ job.verb = "teardown" /\ job.sel \in Selection
  BY Tearing DEF IInv, Typed, Delete
<1>2. PICK c \in Component : Head(job.todo).comp = c
  BY <1>1, AtStore DEF StoreDo
<1>3. UNCHANGED <<records, world>>
  BY DEF Delete
<1>4. CASE Refuse /\ UNCHANGED disk
  <2>1. /\ JobOK' /\ Order' /\ Progress' /\ Plainly' /\ Condemned'
        /\ job'.made \subseteq Component /\ job'.result \in Result
    BY <1>1, <1>3, <1>4, TearHolds DEF disk, Clean, NoneSeen
  <2>2. TypeOK'
    BY <1>3, <1>4, <2>1 DEF IInv, Typed, TypeOK, disk, records, world, Result
  <2>3. Standing' /\ InPlace' /\ KeepsWork
    BY <1>3, <1>4 DEF IInv, Standing, InPlace, IsWorktree, Clean, NoneSeen, KeepsWork, disk, world
  <2> QED BY <2>1, <2>2, <2>3 DEF IInv, Typed
<1> DEFINE Left(w) == IF line_target(w) = "outside" /\ Exists(w, "outside")
                      THEN [tree[w] EXCEPT !.place = "hollow"] ELSE NoTree
<1>5. CASE /\ store' = [store EXCEPT ![c] = {}]
           /\ branch' = [w \in Worktree |-> IF Home(w) = c THEN NoBranch ELSE branch[w]]
           /\ tree' = [w \in Worktree |-> IF Home(w) = c THEN Left(w) ELSE tree[w]]
           /\ handle' = {w \in handle : Home(w) # c}
           /\ Proceed
  <2>1. \A w \in Worktree : Home(w) = c =>
            /\ tree'[w] = Left(w) /\ branch'[w] = NoBranch
            /\ tree'[w].place \in {"hollow", "nowhere"}
            /\ tree'[w].dirty \in BOOLEAN
            /\ tree'[w].dirty => tree[w].dirty /\ tree'[w].linked = tree[w].linked
    BY <1>5 DEF IInv, Typed, TypeOK, NoTree
  <2>2. \A w \in Worktree : Home(w) # c => tree'[w] = tree[w] /\ branch'[w] = branch[w]
    BY <1>5
  <2>3. NoBranch \in [head : Commit \cup {NoCommit, Mine}, upstream : BOOLEAN]
        /\ NoBranch.head # Mine
    BY RecipeAssumption DEF NoBranch
  <2>4. plain => \A w \in Worktree : Home(w) = c => NoneSeen(w)
    <3>1. In(Head(job.todo), job.todo) /\ Head(job.todo).do = "delete"
      BY <1>1, AtStep DEF Doing
    <3> QED BY <1>2, <3>1 DEF IInv, Condemned
  <2>5. \A w \in Worktree : NoneSeen(w) => NoneSeen(w)'
    BY <2>1, <2>2, <2>3 DEF Clean, NoneSeen
  <2>6. /\ JobOK' /\ Order' /\ Progress' /\ Plainly' /\ Condemned'
        /\ job'.made \subseteq Component /\ job'.result \in Result
    BY <1>1, <1>3, <1>5, <2>5, TearHolds
  <2>7. TypeOK'
    <3>1. \A w \in Worktree :
              Left(w) \in [place : Place, dirty : BOOLEAN, linked : BOOLEAN, filled : BOOLEAN]
      BY DEF IInv, Typed, TypeOK, NoTree, Place
    <3>2. tree' \in [Worktree -> [place : Place, dirty : BOOLEAN, linked : BOOLEAN, filled : BOOLEAN]]
      <4> HIDE DEF Left
      <4> QED BY <1>5, <3>1 DEF IInv, Typed, TypeOK
    <3>3. branch' \in [Worktree -> [head : Commit \cup {NoCommit, Mine}, upstream : BOOLEAN]]
      BY <1>5, <2>3 DEF IInv, Typed, TypeOK
    <3>4. store' \in [Component -> SUBSET Part] /\ handle' \subseteq handle
      BY <1>5 DEF IInv, Typed, TypeOK
    <3> QED BY <1>3, <2>6, <3>2, <3>3, <3>4 DEF IInv, Typed, TypeOK, records, world, Result
  <2>8. Standing'
    <3>1. \A w \in Worktree : Home(w) \in Component
      BY HomeIs
    <3>2. \A d \in Component : d # c => store'[d] = store[d]
      BY <1>5 DEF IInv, Typed, TypeOK
    <3> QED BY <2>1, <2>2, <3>1, <3>2 DEF IInv, Standing, IsWorktree
  <2>9. InPlace' /\ KeepsWork
    BY <1>3, <2>1, <2>2, <2>4, <2>5 DEF IInv, InPlace, IsWorktree, Clean, NoneSeen, KeepsWork, world
  <2> QED BY <2>6, <2>7, <2>8, <2>9 DEF IInv, Typed
<1> QED BY <1>2, <1>4, <1>5 DEF Delete

\* What teardown finds no work in holds none that git can see.
LEMMA ClearIsClean ==
    ASSUME IInv, plain, NEW c \in Component,
           \A w \in Range(Trees[c]) : Exists(w, line_target(w)) => FALSE \in worktree_unsaved(w)
    PROVE  \A w \in Worktree : Home(w) = c => NoneSeen(w)
<1> SUFFICES ASSUME NEW w \in Worktree, Home(w) = c, IsWorktree(w), tree[w].linked
             PROVE  Clean(w)
  BY DEF IInv, InPlace, NoneSeen
<1>1. w \in Range(Trees[c])
  BY HomeIs
<1>2. tree[w].place = line_target(w) /\ tree[w].place # "hollow"
  BY DEF IInv, InPlace, IsWorktree
<1>3. FALSE \in worktree_unsaved(w)
  BY <1>1, <1>2 DEF Exists
<1>4. worktree_unsaved(w) = {tree[w].linked /\ (tree[w].dirty \/ unpushed(Home(w)))}
  BY <1>2 DEF worktree_unsaved
<1>5. ~(tree[w].dirty \/ unpushed(Home(w)))
  BY <1>3, <1>4
<1>6. branch[w].head # Mine
  BY <1>1, <1>5 DEF unpushed
<1> QED BY <1>5, <1>6 DEF Clean

\* Unforced, a component is condemned when there is nothing of it to lose.
LEMMA InspectHolds == IInv /\ Inspect => IInv' /\ KeepsWork
<1> SUFFICES ASSUME IInv, Inspect
             PROVE  IInv' /\ KeepsWork
  OBVIOUS
<1>1. JobOK /\ Doing("inspect") /\ ~Idle /\ job.verb = "teardown" /\ job.sel \in Selection
  BY Tearing DEF IInv, Typed, Inspect
<1>2. PICK c \in Component : Head(job.todo).comp = c
  BY <1>1, AtStore DEF StoreDo
<1>3. c \in Range(job.sel.comps)
  BY <1>1, <1>2, AtStep DEF JobOK, Doing
<1>4. UNCHANGED <<disk, records, world>>
  BY DEF Inspect
<1>5. Standing' /\ InPlace' /\ KeepsWork /\ \A w \in Worktree : NoneSeen(w)' <=> NoneSeen(w)
  BY <1>4 DEF IInv, Standing, InPlace, IsWorktree, Clean, NoneSeen, KeepsWork, disk, world
<1>6. CASE Proceed \/ Refuse
  <2>1. /\ JobOK' /\ Order' /\ Progress' /\ Plainly' /\ Condemned'
        /\ job'.made \subseteq Component /\ job'.result \in Result
    BY <1>1, <1>4, <1>5, <1>6, TearHolds
  <2>2. TypeOK'
    BY <1>4, <2>1 DEF IInv, Typed, TypeOK, disk, records, world, Result
  <2> QED BY <1>5, <2>1, <2>2 DEF IInv, Typed
<1>7. CASE /\ job' = [job EXCEPT !.todo = Condemn(c, job.sel) \o Tail(@)]
           /\ \/ job.force
              \/ \A w \in {w \in Range(TreesOf(c, job.sel)) : Exists(w, Target(w, job.sel))} :
                    FALSE \in worktree_unsaved(w)
  <2> DEFINE t == Tail(job.todo)
             k == Condemn(c, job.sel)
             n == k \o t
  <2>1. /\ k \in Seq(AnyStep)
        /\ \A x : In(x, k) => x.do \in {"remove", "prune", "delete"} /\ x.comp = c
    BY <1>1, <1>3, CondemnHolds
  <2>2. t \in Seq(AnyStep) /\ \A x : In(x, t) => In(x, job.todo)
    <3>1. job.todo \in Seq(AnyStep) /\ job.todo # << >>
      BY <1>1, AtStep
    <3> QED BY <3>1, Tails, InTail
  <2> HIDE DEF k, t
  <2>3. n \in Seq(AnyStep) /\ \A x : In(x, n) => In(x, k) \/ In(x, t)
    BY <2>1, <2>2, Cat, InCat
  <2> HIDE DEF n
  <2>4. /\ job' \in Job /\ job'.todo = n /\ job'.verb = job.verb /\ job'.sel = job.sel
        /\ job'.force = job.force
    BY <1>1, <1>7, <2>3 DEF JobOK, Job, n, k, t
  <2>5. JobOK'
    <3>1. \A x : In(x, n) => x.do \in MayDo(job.verb)
                             /\ (x.do = "inspect" => x.comp \in Range(job.sel.comps))
      BY <1>1, <2>1, <2>2, <2>3 DEF JobOK, MayDo
    <3> QED BY <1>1, <2>4, <3>1 DEF JobOK
  <2>6. Order' /\ Progress' /\ Plainly'
    BY <1>1, <1>4, <2>4, <2>5, OrderNone DEF IInv, Progress, Making, Plainly, Named, world
  <2>7. Condemned'
    <3> SUFFICES ASSUME plain, NEW x, In(x, n), x.do \in {"remove", "delete"},
                        NEW w \in Worktree, Home(w) = x.comp
                 PROVE  NoneSeen(w)
      BY <1>4, <1>5, <2>4 DEF Condemned, world
    <3>1. CASE In(x, t)
      BY <2>2, <3>1 DEF IInv, Condemned
    <3>2. CASE In(x, k)
      <4>1. ~job.force /\ ~Named(job.sel)
        BY <1>1 DEF IInv, Plainly
      <4>2. TreesOf(c, job.sel) = Trees[c] /\ \A v : Target(v, job.sel) = line_target(v)
        BY <4>1 DEF TreesOf, Target
      <4>3. \A v \in Range(Trees[c]) : Exists(v, line_target(v)) => FALSE \in worktree_unsaved(v)
        BY <1>7, <4>1, <4>2
      <4> QED BY <2>1, <3>2, <4>3, ClearIsClean
    <3> QED BY <2>3, <3>1, <3>2
  <2>8. TypeOK'
    BY <1>4, <2>4 DEF IInv, Typed, TypeOK, disk, records, world, Job, Result
  <2> QED BY <1>5, <2>5, <2>6, <2>7, <2>8 DEF IInv, Typed
<1> QED BY <1>2, <1>6, <1>7 DEF Inspect, StandingTrees, LookedAt

\* What a blind teardown may destroy is not counted on any more.
LEMMA InspectBlindHolds == IInv /\ InspectBlind => IInv' /\ KeepsWork
<1> SUFFICES ASSUME IInv, InspectBlind
             PROVE  IInv' /\ KeepsWork
  OBVIOUS
<1>1. JobOK /\ Doing("inspect") /\ ~Idle /\ job.verb = "teardown" /\ job.sel \in Selection
  BY Tearing DEF IInv, Typed, InspectBlind
<1>2. PICK c \in Component : Head(job.todo).comp = c
  BY <1>1, AtStore DEF StoreDo
<1>3. c \in Range(job.sel.comps)
  BY <1>1, <1>2, AtStep DEF JobOK, Doing
<1>4. /\ UNCHANGED <<disk, records, pin, remote, edits>> /\ plain' = FALSE
      /\ job' = [job EXCEPT !.todo = Condemn(c, job.sel) \o Tail(@), !.blind = TRUE]
  BY <1>2 DEF InspectBlind
<1> DEFINE t == Tail(job.todo)
           k == Condemn(c, job.sel)
           n == k \o t
<1>5. /\ k \in Seq(AnyStep)
      /\ \A x : In(x, k) => x.do \in {"remove", "prune", "delete"} /\ x.comp = c
  BY <1>1, <1>3, CondemnHolds
<1>6. t \in Seq(AnyStep) /\ \A x : In(x, t) => In(x, job.todo)
  <2>1. job.todo \in Seq(AnyStep) /\ job.todo # << >>
    BY <1>1, AtStep
  <2> QED BY <2>1, Tails, InTail
<1> HIDE DEF k, t
<1>7. n \in Seq(AnyStep) /\ \A x : In(x, n) => In(x, k) \/ In(x, t)
  BY <1>5, <1>6, Cat, InCat
<1>8. job' = [job EXCEPT !.todo = n, !.blind = TRUE]
  BY <1>4 DEF k, t
<1> HIDE DEF n
<1>9. /\ job' \in Job /\ job'.todo = n /\ job'.verb = job.verb /\ job'.sel = job.sel
  <2> DEFINE p == [job EXCEPT !.todo = n]
  <2>1. p \in Job /\ p.todo = n /\ p.verb = job.verb /\ p.sel = job.sel
    BY <1>1, <1>7 DEF JobOK, Job
  <2>2. job' = [p EXCEPT !.blind = TRUE]
    BY <1>1, <1>8 DEF JobOK, Job
  <2> HIDE DEF p
  <2> QED BY <2>1, <2>2 DEF Job
<1>10. JobOK'
  <2>1. \A x : In(x, n) => x.do \in MayDo(job.verb)
                           /\ (x.do = "inspect" => x.comp \in Range(job.sel.comps))
    BY <1>1, <1>5, <1>6, <1>7 DEF JobOK, MayDo
  <2> QED BY <1>1, <1>9, <2>1 DEF JobOK
<1>11. Order' /\ Progress'
  BY <1>1, <1>9, <1>10, OrderNone DEF Progress, Making
<1>12. Plainly' /\ Condemned' /\ InPlace' /\ KeepsWork
  BY <1>4 DEF Plainly, Condemned, InPlace, KeepsWork
<1>13. TypeOK' /\ Standing'
  BY <1>4, <1>9 DEF IInv, Typed, TypeOK, Standing, IsWorktree, disk, records, Job, Result
<1> QED BY <1>10, <1>11, <1>12, <1>13 DEF IInv, Typed

\* No command runs: nothing is on its way.
LEMMA NoJobHolds ==
    ASSUME job' = NoJob
    PROVE  /\ JobOK' /\ Order' /\ Progress' /\ Plainly' /\ Condemned'
           /\ job'.made \subseteq Component /\ job'.result \in Result
<1>1. /\ job'.todo = << >> /\ job'.verb = "none" /\ job'.sel = NoSelection
      /\ job'.force = FALSE /\ job'.made = {} /\ job'.result = "none"
  BY DEF NoJob
<1>2. NoJob \in Job
  BY DEF NoJob, Job, Verb, Result
<1>3. \A x : ~In(x, job'.todo)
  BY <1>1 DEF In
<1>4. JobOK'
  BY <1>1, <1>2, <1>3 DEF JobOK
<1>5. DOMAIN job'.todo = {}
  BY <1>1
<1> QED BY <1>1, <1>3, <1>4, <1>5 DEF Order, Before, ReceiptsLast, Progress, Making, Plainly,
                                     Condemned, Result

\* Killed, a command leaves at most a directory that is no worktree, where none stood.
LEMMA CrashHolds == IInv /\ Crash => IInv' /\ KeepsWork
<1> SUFFICES ASSUME IInv, Crash
             PROVE  IInv' /\ KeepsWork
  OBVIOUS
<1>1. /\ JobOK' /\ Order' /\ Progress' /\ Plainly' /\ Condemned'
      /\ job'.made \subseteq Component /\ job'.result \in Result
  BY NoJobHolds DEF Crash
<1>2. UNCHANGED <<store, branch, handle, records, world>>
  BY DEF Crash
<1>3. CASE tree' = tree
  <2>1. TypeOK'
    BY <1>1, <1>2, <1>3 DEF IInv, Typed, TypeOK, records, world, Result
  <2>2. Standing' /\ InPlace' /\ KeepsWork
    BY <1>2, <1>3 DEF IInv, Standing, InPlace, IsWorktree, Clean, NoneSeen, KeepsWork, world
  <2> QED BY <1>1, <2>1, <2>2 DEF IInv, Typed
<1>4. CASE /\ Doing("add")
           /\ tree[Head(job.todo).tree].place = "nowhere"
           /\ tree' = [tree EXCEPT ![Head(job.todo).tree].place = "hollow"]
  <2>1. PICK w \in Worktree : Head(job.todo).tree = w
    BY <1>4, AtTree DEF IInv, Typed
  <2>2. /\ \A v \in Worktree : v # w => tree'[v] = tree[v]
        /\ tree'[w].place = "hollow" /\ tree'[w].dirty = tree[w].dirty
        /\ tree'[w].linked = tree[w].linked
    BY <1>4, <2>1 DEF IInv, Typed, TypeOK
  <2>3. tree' \in [Worktree -> [place : Place, dirty : BOOLEAN, linked : BOOLEAN, filled : BOOLEAN]]
    BY <1>4, <2>1 DEF IInv, Typed, TypeOK, Place
  <2>4. TypeOK'
    BY <1>1, <1>2, <2>3 DEF IInv, Typed, TypeOK, records, world, Result
  <2>5. \A v \in Worktree : /\ NoneSeen(v)' <=> NoneSeen(v)
                            /\ IsWorktree(v)' <=> IsWorktree(v)
                            /\ IsWorktree(v) => tree'[v] = tree[v]
    BY <1>2, <1>4, <2>1, <2>2 DEF Clean, NoneSeen, IsWorktree
  <2>6. Standing' /\ InPlace'
    BY <1>2, <2>2, <2>5 DEF IInv, Standing, InPlace, world
  <2>7. KeepsWork
    BY <1>2, <2>2 DEF KeepsWork
  <2> QED BY <1>1, <2>4, <2>6, <2>7 DEF IInv, Typed
<1> QED BY <1>3, <1>4 DEF Crash

\* A command starts with everything still to do.
LEMMA StartHolds ==
    ASSUME IInv, NEW verb \in {"materialize", "teardown"}, NEW sel \in Selection,
           NEW force \in BOOLEAN, Start(verb, sel, force)
    PROVE  IInv' /\ KeepsWork
<1>1. /\ Steps(verb, sel) \in Seq(AnyStep)
      /\ \A x : In(x, Steps(verb, sel)) =>
            /\ x.do \in MayDo(verb)
            /\ x.do \notin {"remove", "delete"}
            /\ x.do = "inspect" => x.comp \in Range(sel.comps)
  <2>1. CASE verb = "materialize"
    BY <2>1, MaterializeHolds DEF Steps, MayDo, MakeDo
  <2>2. CASE verb = "teardown"
    BY <2>2, TeardownHolds DEF Steps, MayDo, Step
  <2> QED BY <2>1, <2>2
<1> DEFINE n == Steps(verb, sel)
<1> HIDE DEF n
<1>2. /\ job' \in Job /\ job'.todo = n /\ job'.verb = verb /\ job'.sel = sel
      /\ job'.force = force /\ job'.result = "done" /\ job'.made = {}
  BY <1>1 DEF Start, Job, Verb, Result, n
<1>3. JobOK'
  BY <1>1, <1>2 DEF JobOK, n
<1>4. /\ UNCHANGED <<disk, records, pin, remote, edits>>
      /\ plain' \in BOOLEAN /\ (plain' => plain /\ ~force /\ ~Named(sel))
  BY DEF Start, IInv, Typed, TypeOK
<1>5. Order'
  <2>1. CASE verb = "materialize"
    <3>1. /\ \A c \in Component : Before(n, Step("migrate", c), Step("clone", c))
          /\ \A w \in Worktree : Before(n, Step("clone", Home(w)), TreeStep("add", w))
          /\ ReceiptsLast(n)
      BY <2>1, MaterializeHolds DEF n, Steps
    <3> QED BY <1>2, <3>1 DEF Order
  <2>2. CASE verb = "teardown"
    BY <1>2, <1>3, <2>2, OrderNone
  <2> QED BY <2>1, <2>2
<1>6. Progress'
  <2> SUFFICES ASSUME verb = "materialize", NEW w \in Asked(sel)
               PROVE  (\A g \in Want : Has(g, w)' \/ In(StepFor(g, w), n)) /\ Followed(w)'
    BY <1>2 DEF Progress, Making, Asked, StepFor, Step, TreeStep
  <2>1. /\ \A do \in {"migrate", "clone", "link"} : In(Step(do, Home(w)), n)
        /\ \A do \in {"add", "upstream"} : In(TreeStep(do, w), n)
        /\ Target(w, sel) = "outside" => In(TreeStep("handle", w), n)
        /\ After(n, Step("clone", Home(w)), TreeStep("upstream", w))
        /\ \A x : In(x, n) => x.do # "fetch"
    BY MaterializeHolds DEF n, Steps
  <2>2. ASSUME NEW g \in Want
        PROVE  Has(g, w)' \/ In(StepFor(g, w), n)
    <3>1. CASE g = "handle" /\ Target(w, sel) # "outside"
      BY <1>2, <3>1 DEF Has
    <3>2. CASE ~(g = "handle" /\ Target(w, sel) # "outside")
      BY <2>1, <3>2 DEF StepFor, Want
    <3> QED BY <3>1, <3>2
  <2>3. After(n, Step("fetch", Home(w)), TreeStep("upstream", w))
    BY <2>1 DEF After, In, Step
  <2>4. Followed(w)'
    BY <1>2, <2>1, <2>3 DEF Followed, Step, TreeStep
  <2> QED BY <2>2, <2>4
<1>7. Plainly' /\ Condemned'
  BY <1>1, <1>2, <1>4 DEF Plainly, Named, Condemned, n
<1>8. TypeOK'
  BY <1>2, <1>4 DEF IInv, Typed, TypeOK, disk, records, Result
<1>9. Standing' /\ InPlace'
  BY <1>4 DEF IInv, Standing, InPlace, IsWorktree, Clean, NoneSeen, disk
<1>10. KeepsWork
  BY DEF KeepsWork, Start
<1> QED BY <1>3, <1>5, <1>6, <1>7, <1>8, <1>9, <1>10 DEF IInv, Typed

\* Between commands the operator works in trees that stand.
LEMMA OperatorHolds == IInv /\ Operator => IInv' /\ KeepsWork
<1> SUFFICES ASSUME IInv, NEW w \in Worktree,
                    \/ Change(w)
                    \/ \E c \in (Commit \cup {Mine}) \ {branch[w].head} : CommitWork(w, c)
                    \/ \E c \in Commit : Repin(w, c)
                    \/ \E place \in {"nowhere", "lost", "hollow"} : RemoveByHand(w, place)
             PROVE  IInv' /\ KeepsWork
  BY DEF Operator
<1>1. Edit
  BY DEF Change, CommitWork, Repin, RemoveByHand
<1>2. /\ JobOK' /\ Order' /\ Progress' /\ Plainly' /\ Condemned' /\ KeepsWork
      /\ job'.made \subseteq Component /\ job'.result \in Result
  BY <1>1, NoJobHolds DEF Edit, KeepsWork
<1>3. UNCHANGED <<records, store, handle>> /\ edits' \in 0 .. MaxEdits
  BY <1>1, RecipeAssumption DEF Edit, IInv, Typed, TypeOK
<1> DEFINE Branches == [Worktree -> [head : Commit \cup {NoCommit, Mine}, upstream : BOOLEAN]]
           Places == [Worktree -> [place : Place, dirty : BOOLEAN, linked : BOOLEAN, filled : BOOLEAN]]
<1>4. CASE Change(w)
  <2>1. /\ UNCHANGED <<branch, pin, remote, plain>> /\ IsWorktree(w)
        /\ tree' = [tree EXCEPT ![w].dirty = TRUE]
    BY <1>4 DEF Change
  <2>2. /\ \A v \in Worktree : v # w => tree'[v] = tree[v]
        /\ tree'[w].place = tree[w].place /\ tree' \in Places
    BY <2>1 DEF IInv, Typed, TypeOK
  <2>3. TypeOK'
    BY <1>2, <1>3, <2>1, <2>2 DEF IInv, Typed, TypeOK, records, Result
  <2>4. Standing' /\ InPlace'
    BY <1>3, <2>1, <2>2 DEF IInv, Standing, InPlace, IsWorktree, Clean, NoneSeen
  <2> QED BY <1>2, <2>3, <2>4 DEF IInv, Typed
<1>5. ASSUME NEW c \in Commit \cup {Mine}, CommitWork(w, c)
      PROVE  IInv' /\ KeepsWork
  <2>1. /\ UNCHANGED <<pin, plain>> /\ IsWorktree(w)
        /\ tree' = [tree EXCEPT ![w].dirty = FALSE]
        /\ branch' = [branch EXCEPT ![w].head = c]
        /\ remote' = IF c = Mine THEN remote ELSE [remote EXCEPT ![w] = c]
    BY <1>5 DEF CommitWork
  <2>2. /\ \A v \in Worktree : v # w => tree'[v] = tree[v] /\ branch'[v] = branch[v]
        /\ tree'[w].place = tree[w].place /\ tree' \in Places /\ branch' \in Branches
    BY <2>1 DEF IInv, Typed, TypeOK
  <2>3. remote' \in [Worktree -> Commit \cup {NoCommit}]
    BY <1>5, <2>1 DEF IInv, Typed, TypeOK
  <2>4. TypeOK'
    BY <1>2, <1>3, <2>1, <2>2, <2>3 DEF IInv, Typed, TypeOK, records, Result
  <2>5. Standing' /\ InPlace'
    BY <1>3, <2>1, <2>2 DEF IInv, Standing, InPlace, IsWorktree, Clean, NoneSeen
  <2> QED BY <1>2, <2>4, <2>5 DEF IInv, Typed
<1>6. ASSUME NEW c \in Commit, Repin(w, c)
      PROVE  IInv' /\ KeepsWork
  <2>1. UNCHANGED <<tree, branch, remote, plain>> /\ pin' \in [Worktree -> Commit]
    BY <1>6 DEF Repin, IInv, Typed, TypeOK
  <2>2. TypeOK'
    BY <1>2, <1>3, <2>1 DEF IInv, Typed, TypeOK, records, Result
  <2>3. Standing' /\ InPlace'
    BY <1>3, <2>1 DEF IInv, Standing, InPlace, IsWorktree, Clean, NoneSeen
  <2> QED BY <1>2, <2>2, <2>3 DEF IInv, Typed
<1>7. ASSUME NEW place \in {"nowhere", "lost", "hollow"}, RemoveByHand(w, place)
      PROVE  IInv' /\ KeepsWork
  <2>1. /\ UNCHANGED <<branch, pin, remote>> /\ plain' = FALSE
        /\ tree' = [tree EXCEPT ![w].place = place]
    BY <1>7 DEF RemoveByHand
  <2>2. /\ \A v \in Worktree : v # w => tree'[v] = tree[v]
        /\ tree'[w].place = place /\ tree' \in Places
    BY <2>1 DEF IInv, Typed, TypeOK, Place
  <2>3. TypeOK'
    BY <1>2, <1>3, <2>1, <2>2 DEF IInv, Typed, TypeOK, records, Result
  <2>4. Standing' /\ InPlace'
    BY <1>3, <1>7, <2>1, <2>2 DEF IInv, Standing, InPlace, IsWorktree
  <2> QED BY <1>2, <2>3, <2>4 DEF IInv, Typed
<1> QED BY <1>4, <1>5, <1>6, <1>7

-----------------------------------------------------------------------------
(* The theorems. *)

\* A component is absent, or as an earlier release made it, and nothing runs.
LEMMA InitHolds == Init => IInv
<1> SUFFICES ASSUME Init PROVE IInv
  OBVIOUS
<1>1. job = NoJob /\ plain = TRUE /\ edits = 0 /\ handle = {} /\ receipt = {} /\ fingerprint = {}
  BY DEF Init
<1>2. PICK c \in Commit : /\ pin = [w \in Worktree |-> c]
                          /\ remote \in [Worktree -> {c, NoCommit}]
  BY DEF Init
<1>3. PICK legacy \in SUBSET Component :
          /\ store = [d \in Component |-> IF d \in legacy THEN {"old", "tracking"} ELSE {}]
          /\ tree = [w \in Worktree |->
                       IF Kind[w] = "canonical" /\ Home(w) \in legacy
                       THEN [NoTree EXCEPT !.place = "inside"] ELSE NoTree]
          /\ branch = [w \in Worktree |->
                       IF Kind[w] = "canonical" /\ Home(w) \in legacy
                       THEN [NoBranch EXCEPT !.head = pin[w]] ELSE NoBranch]
  BY DEF Init
<1>4. JobOK /\ Order /\ Progress /\ Plainly /\ Condemned /\ job.made \subseteq Component
      /\ job.result \in Result
  <2>1. /\ job.todo = << >> /\ job.verb = "none" /\ job.sel = NoSelection
        /\ job.force = FALSE /\ job.made = {} /\ job.result = "none" /\ job \in Job
    BY <1>1 DEF NoJob, Job, Verb, Result
  <2>2. (\A x : ~In(x, job.todo)) /\ DOMAIN job.todo = {}
    BY <2>1 DEF In
  <2> QED BY <2>1, <2>2 DEF JobOK, Order, Before, ReceiptsLast, Progress, Making, Plainly,
                            Condemned, Result
<1>5. \A w \in Worktree : /\ branch[w] \in [head : Commit \cup {NoCommit, Mine}, upstream : BOOLEAN]
                          /\ branch[w].head # Mine
  BY <1>2, <1>3, RecipeAssumption DEF NoBranch
<1>6. \A w \in Worktree : /\ tree[w] \in [place : Place, dirty : BOOLEAN, linked : BOOLEAN, filled : BOOLEAN]
                          /\ ~tree[w].dirty
                          /\ IsWorktree(w) => /\ tree[w].place = "inside"
                                              /\ Kind[w] = "canonical" /\ Home(w) \in legacy
  BY <1>3 DEF NoTree, Place, IsWorktree
<1>7. TypeOK
  <2>1. store \in [Component -> SUBSET Part]
    BY <1>3 DEF Part
  <2>2. branch \in [Worktree -> [head : Commit \cup {NoCommit, Mine}, upstream : BOOLEAN]]
    BY <1>3, <1>5
  <2>3. tree \in [Worktree -> [place : Place, dirty : BOOLEAN, linked : BOOLEAN, filled : BOOLEAN]]
    BY <1>3, <1>6
  <2>4. pin \in [Worktree -> Commit] /\ remote \in [Worktree -> Commit \cup {NoCommit}]
    BY <1>2
  <2> QED BY <1>1, <1>4, <2>1, <2>2, <2>3, <2>4, RecipeAssumption DEF TypeOK, Result
<1>8. Standing
  BY <1>3, <1>6, HomeIs DEF Standing
<1>9. InPlace
  <2>1. \A w \in Worktree : tree[w].place # "lost"
    BY <1>3 DEF NoTree
  <2> QED BY <1>5, <1>6, <2>1 DEF InPlace, Clean, NoneSeen, line_target
<1> QED BY <1>4, <1>7, <1>8, <1>9 DEF IInv, Typed

\* Every step keeps what is known, and the work that is there.
LEMMA NextHolds == IInv /\ [Next]_vars => IInv' /\ (KeepsWork \/ UNCHANGED vars)
<1> SUFFICES ASSUME IInv, [Next]_vars
             PROVE  IInv' /\ (KeepsWork \/ UNCHANGED vars)
  OBVIOUS
<1>1. CASE UNCHANGED vars
  <2>1. JobOK' /\ Order' /\ Progress' /\ Plainly' /\ Condemned'
    BY <1>1 DEF vars, disk, records, world, IInv, Typed, JobOK, Order, Progress, Making, Has,
                Exists, Followed, Plainly, Condemned, Clean, NoneSeen, Before, In, After, ReceiptsLast
  <2>2. TypeOK' /\ Standing' /\ InPlace'
    BY <1>1 DEF vars, disk, records, world, IInv, Typed, TypeOK, Standing, InPlace, IsWorktree,
                Clean, NoneSeen
  <2> QED BY <1>1, <2>1, <2>2 DEF IInv, Typed
<1>2. CASE Command
  BY <1>2, StartHolds DEF Command, software_materialize, software_teardown
<1>3. CASE MaterializeStep
  BY <1>3, MigrateHolds, RepairHolds, CloneHolds, FetchHolds, LinkHolds, AddHolds, FillHolds,
     UpstreamHolds, HandleHolds, ReceiptHolds, FingerprintHolds DEF MaterializeStep
<1>4. CASE Prune
  BY <1>4, PruneHolds
<1>5. CASE TeardownStep
  BY <1>5, InspectHolds, InspectBlindHolds, RemoveHolds, DeleteHolds DEF TeardownStep
<1>6. CASE Crash
  BY <1>6, CrashHolds
<1>7. CASE Operator
  BY <1>7, OperatorHolds
<1> QED BY <1>1, <1>2, <1>3, <1>4, <1>5, <1>6, <1>7 DEF Next

\* What is known between two steps holds in every state of every run of commands.
LEMMA Invariance == Spec => []IInv
BY InitHolds, NextHolds, PTL DEF Spec

\* What materialize was asked for and has nothing left to do about is realized.
LEMMA NothingLeft ==
    ASSUME IInv, Making, \A x : In(x, job.todo) => x.do \notin Want
    PROVE  Realized(job.sel)
<1> SUFFICES ASSUME NEW w \in Asked(job.sel)
             PROVE  /\ {"bare", "link"} \subseteq store[Home(w)] /\ "old" \notin store[Home(w)]
                    /\ Exists(w, Target(w, job.sel)) /\ Exists(w, "inside")
                    /\ "tracking" \in store[Home(w)] /\ remote[w] # NoCommit => branch[w].upstream
  BY DEF Realized
<1>1. \A g \in Want : Has(g, w)
  BY ForStep DEF IInv, Progress
<1>2. /\ Has("migrate", w) /\ Has("clone", w) /\ Has("link", w)
      /\ Has("add", w) /\ Has("upstream", w) /\ Has("handle", w)
  BY <1>1 DEF Want
<1>3. /\ "bare" \in store[Home(w)] /\ "link" \in store[Home(w)] /\ "old" \notin store[Home(w)]
      /\ Exists(w, Target(w, job.sel))
      /\ "tracking" \in store[Home(w)] /\ remote[w] # NoCommit => branch[w].upstream
      /\ Target(w, job.sel) = "outside" => w \in handle \/ tree[w].place = "inside"
  BY <1>2 DEF Has
<1>4. Exists(w, "inside")
  <2>1. CASE Target(w, job.sel) = "inside"
    BY <1>3, <2>1
  <2>2. CASE Target(w, job.sel) = "outside"
    <3>1. tree[w].place \in {"outside", "hollow"} \/ (w \in handle /\ tree[w].place = "inside")
      BY <1>3, <2>2 DEF Exists
    <3> QED BY <1>3, <2>2, <3>1 DEF Exists
  <2> QED BY <2>1, <2>2 DEF Target, line_target
<1> QED BY <1>3, <1>4

\* The disk and the two records only ever hold what they can hold, and a command only
\* the steps of its verb (software_materialize, software_teardown).
THEOREM WhereTyped == Spec => []TypeOK
BY Invariance, PTL DEF IInv, Typed

\* A materialize that ends well has realized everything it was asked, for every recipe
\* and every selection, whatever an earlier run left behind (software_materialize).
THEOREM DoneIsRealized == Spec => []DoneMeansRealized
<1>1. IInv => DoneMeansRealized
  <2> SUFFICES ASSUME IInv, Idle, Making
               PROVE  Realized(job.sel)
    BY DEF DoneMeansRealized, Making
  <2>1. \A x : ~In(x, job.todo)
    BY DEF Idle, In
  <2> QED BY <2>1, NothingLeft
<1> QED BY <1>1, Invariance, PTL

\* No receipt is written before the whole selection is realized: the buffered
\* receipts, for every number of components (software_materialize).
THEOREM ReceiptIsEarned == Spec => []ReceiptMeansRealized
<1>1. IInv => ReceiptMeansRealized
  <2> SUFFICES ASSUME IInv, Doing("receipt")
               PROVE  Realized(job.sel)
    BY DEF ReceiptMeansRealized
  <2>1. JobOK /\ job.verb = "materialize" /\ job.todo \in Seq(AnyStep) /\ job.todo # << >>
        /\ In(Head(job.todo), job.todo) /\ Head(job.todo).do = "receipt"
    BY Materializing, AtStep DEF IInv, Typed, MakeDo, Doing
  <2>2. Making
    BY <2>1 DEF IInv, Order, Making
  <2>3. ASSUME NEW x, In(x, job.todo)
        PROVE  x.do \in {"receipt", "fingerprint"}
    <3>1. 1 \in DOMAIN job.todo /\ job.todo[1] = Head(job.todo)
          /\ \A i \in DOMAIN job.todo : 1 <= i
      BY <2>1, Tails
    <3> QED BY <2>1, <2>3, <3>1 DEF IInv, Order, ReceiptsLast, In
  <2> QED BY <2>2, <2>3, NothingLeft DEF Want
<1> QED BY <1>1, Invariance, PTL

\* Unforced, unnamed, with nothing removed by hand and no teardown blind, no command
\* destroys uncommitted changes or a commit that is nowhere else, killed where it may be,
\* of a worktree whose link finds its store (the guards of software_teardown, the skip of
\* what exists in software_materialize; what a kill before the repair costs is left out).
THEOREM NoWorkIsDestroyed == Spec => WorkKept
<1>1. IInv /\ [Next]_vars =>
          [plain' /\ ~Idle => \A w \in Worktree : tree[w].linked =>
              /\ tree[w].dirty => tree'[w].dirty
              /\ branch[w].head = Mine => branch'[w].head = Mine]_vars
  BY NextHolds DEF KeepsWork
<1> QED BY <1>1, Invariance, PTL DEF Spec, WorkKept
=============================================================================
