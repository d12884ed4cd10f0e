-------------------------------- MODULE Sums --------------------------------
(***************************************************************************)
(* Sums over finite sets, as MapThenSumSet of the community modules        *)
(* computes them: it takes one element after the other out of the set.     *)
(* What holds of every sum is shown by looking at a smallest subset whose  *)
(* sum fails it.                                                           *)
(***************************************************************************)
EXTENDS Integers, FiniteSetTheorems, WellFoundedInduction, TLAPS

\* g[s] is the sum of val over s, for every s in SUBSET S; pick[s] is the
\* element taken out of s first.
Sums(g, S, val, pick) ==
    g = [s \in SUBSET S |-> IF s = {} THEN 0 ELSE val[pick[s]] + g[s \ {pick[s]}]]

Picks(pick, S) == \A s \in SUBSET S : s # {} => pick[s] \in s

\* The choice MapThenSumSet makes.
Choice(s) == CHOOSE x \in s : TRUE
Pick(S) == [s \in SUBSET S |-> Choice(s)]

\* The choice is a member of the set.
LEMMA PickPicks == ASSUME NEW S PROVE Picks(Pick(S), S)
BY DEF Picks, Pick, Choice

\* Sets of subsets of a finite set have minimal elements.
LEMMA SmallestSubset ==
    ASSUME NEW S, IsFiniteSet(S), NEW B, B \subseteq SUBSET S, B # {}
    PROVE  \E s \in B : \A u \in SUBSET s : u # s => u \notin B
<1>1. IsWellFoundedOn(StrictSubsetOrdering(S), SUBSET S)
  BY FS_StrictSubsetOrderingWellFounded, FS_FiniteSubsetsOfFinite
<1>2. PICK s \in B : \A u \in B : ~(<<u, s>> \in StrictSubsetOrdering(S))
  BY <1>1, WFMin
<1>3. ASSUME NEW u \in SUBSET s, u # s, u \in B PROVE FALSE
  <2>1. <<u, s>> \in StrictSubsetOrdering(S)
    BY <1>3 DEF StrictSubsetOrdering
  <2> QED BY <1>2, <1>3, <2>1
<1> QED BY <1>2, <1>3

\* The equation determines the sums.
LEMMA SumsUnique ==
    ASSUME NEW S, IsFiniteSet(S), NEW val, NEW pick, Picks(pick, S),
           NEW T \in SUBSET S, NEW U \in SUBSET S,
           NEW g, NEW h, Sums(g, T, val, pick), Sums(h, U, val, pick),
           NEW s \in SUBSET T, s \in SUBSET U
    PROVE  g[s] = h[s]
<1> DEFINE B == {u \in SUBSET S : u \subseteq T /\ u \subseteq U /\ g[u] # h[u]}
<1>1. SUFFICES ASSUME B # {} PROVE FALSE
  OBVIOUS
<1>2. PICK b \in B : \A u \in SUBSET b : u # b => u \notin B
  <2>1. B \subseteq SUBSET S
    OBVIOUS
  <2> HIDE DEF B
  <2> QED BY <1>1, <2>1, SmallestSubset
<1>3. CASE b = {}
  BY <1>2, <1>3 DEF Sums
<1>4. CASE b # {}
  <2> DEFINE u == b \ {pick[b]}
  <2>1. u \in SUBSET b /\ u # b /\ u \subseteq T /\ u \subseteq U
    BY <1>2, <1>4 DEF Picks
  <2>2. g[u] = h[u]
    BY <1>2, <2>1
  <2>3. g[b] = val[pick[b]] + g[u] /\ h[b] = val[pick[b]] + h[u]
    BY <1>2, <1>4 DEF Sums
  <2> QED BY <1>2, <2>2, <2>3
<1> QED BY <1>3, <1>4

\* Sums exist: those of a set continue the ones of the set without the element
\* taken out first.
LEMMA SumsExist ==
    ASSUME NEW S, IsFiniteSet(S), NEW val, NEW pick, Picks(pick, S)
    PROVE  \E g : Sums(g, S, val, pick)
<1> DEFINE B == {T \in SUBSET S : ~ \E g : Sums(g, T, val, pick)}
<1>1. SUFFICES ASSUME B # {} PROVE FALSE
  OBVIOUS
<1>2. PICK T \in B : \A u \in SUBSET T : u # T => u \notin B
  <2>1. B \subseteq SUBSET S
    OBVIOUS
  <2> HIDE DEF B
  <2> QED BY <1>1, <2>1, SmallestSubset
<1> DEFINE Of(u) == CHOOSE g : Sums(g, u, val, pick)
           Rest(s) == s \ {pick[s]}
           G == [s \in SUBSET T |-> IF s = {} THEN 0 ELSE val[pick[s]] + Of(Rest(s))[Rest(s)]]
<1>3. ASSUME NEW s \in SUBSET T, s # {}
      PROVE  /\ Rest(s) \in SUBSET T
             /\ Rest(s) \in SUBSET S
             /\ Sums(Of(Rest(s)), Rest(s), val, pick)
  <2> DEFINE u == Rest(s)
  <2>1. u \in SUBSET T /\ u # T /\ u \in SUBSET S
    BY <1>3 DEF Picks
  <2>2. \E g : Sums(g, u, val, pick)
    BY <1>2, <2>1
  <2>3. Sums(Of(u), u, val, pick)
    BY <2>2
  <2> QED BY <2>1, <2>3
<1>4. ASSUME NEW s \in SUBSET T, s # {}
      PROVE  Of(Rest(s))[Rest(s)] = G[Rest(s)]
  <2> DEFINE u == Rest(s)
             w == Rest(u)
  <2>1. u \in SUBSET T /\ u \in SUBSET S /\ Sums(Of(u), u, val, pick)
    BY <1>3, <1>4
  <2>2. CASE u = {}
    <3>1. Of(u)[u] = 0
      <4> HIDE DEF Of, u
      <4> QED BY <2>1, <2>2 DEF Sums
    <3>2. G[u] = 0
      BY <2>1, <2>2
    <3> QED BY <3>1, <3>2
  <2>3. CASE u # {}
    <3>1. w \in SUBSET S /\ Sums(Of(w), w, val, pick)
      BY <1>3, <2>1, <2>3
    <3>2. Of(u)[u] = val[pick[u]] + Of(u)[w]
      <4> HIDE DEF Of, u
      <4> QED BY <2>1, <2>3 DEF Sums
    <3>3. G[u] = val[pick[u]] + Of(w)[w]
      BY <2>1, <2>3
    <3>4. Of(u)[w] = Of(w)[w]
      <4> HIDE DEF Of
      <4> QED BY <2>1, <3>1, SumsUnique
    <3> QED BY <3>2, <3>3, <3>4
  <2> QED BY <2>2, <2>3
<1>5. Sums(G, T, val, pick)
  <2> HIDE DEF Of
  <2> QED BY <1>4 DEF Sums
<1> QED BY <1>2, <1>5

\* A sum of integers that are bounded one by one is bounded.
LEMMA SumsCompare ==
    ASSUME NEW S, IsFiniteSet(S), NEW pick, Picks(pick, S),
           NEW v \in [S -> Int], NEW w \in [S -> Int], NEW c \in Int,
           \A x \in S : w[x] <= c * v[x],
           NEW g, NEW h, Sums(g, S, v, pick), Sums(h, S, w, pick)
    PROVE  g[S] \in Int /\ h[S] \in Int /\ h[S] <= c * g[S]
<1> DEFINE Good(b) == g[b] \in Int /\ h[b] \in Int /\ h[b] <= c * g[b]
           B == {b \in SUBSET S : ~Good(b)}
<1>1. SUFFICES ASSUME B # {} PROVE FALSE
  OBVIOUS
<1>2. PICK b \in B : \A u \in SUBSET b : u # b => u \notin B
  <2>1. B \subseteq SUBSET S
    OBVIOUS
  <2> HIDE DEF B
  <2> QED BY <1>1, <2>1, SmallestSubset
<1>3. CASE b = {}
  <2>1. g[b] = 0 /\ h[b] = 0
    BY <1>3 DEF Sums
  <2> QED BY <1>2, <2>1
<1>4. CASE b # {}
  <2> DEFINE u == b \ {pick[b]}
             x == pick[b]
  <2>1. u \in SUBSET b /\ u # b /\ u \subseteq S /\ x \in S
    BY <1>2, <1>4 DEF Picks
  <2>2. Good(u)
    BY <1>2, <2>1
  <2>3. g[b] = v[x] + g[u] /\ h[b] = w[x] + h[u]
    BY <1>2, <1>4 DEF Sums
  <2>4. v[x] \in Int /\ w[x] \in Int /\ w[x] <= c * v[x]
    BY <2>1
  <2> HIDE DEF u, x
  <2>5. c * (v[x] + g[u]) = c * v[x] + c * g[u]
    BY <2>2, <2>4
  <2>6. c * v[x] \in Int /\ c * g[u] \in Int
    BY <2>2, <2>4
  <2> QED BY <1>2, <2>2, <2>3, <2>4, <2>5, <2>6
<1> QED BY <1>3, <1>4

\* Sums add up as what is summed does.
LEMMA SumsAdd ==
    ASSUME NEW S, IsFiniteSet(S), NEW pick, Picks(pick, S),
           NEW u \in [S -> Int], NEW v \in [S -> Int], NEW w \in [S -> Int],
           \A x \in S : w[x] = u[x] + v[x],
           NEW f, NEW g, NEW h, Sums(f, S, u, pick), Sums(g, S, v, pick), Sums(h, S, w, pick)
    PROVE  f[S] \in Int /\ g[S] \in Int /\ h[S] = f[S] + g[S]
<1> DEFINE Good(b) == f[b] \in Int /\ g[b] \in Int /\ h[b] = f[b] + g[b]
           B == {b \in SUBSET S : ~Good(b)}
<1>1. SUFFICES ASSUME B # {} PROVE FALSE
  OBVIOUS
<1>2. PICK b \in B : \A s \in SUBSET b : s # b => s \notin B
  <2>1. B \subseteq SUBSET S
    OBVIOUS
  <2> HIDE DEF B
  <2> QED BY <1>1, <2>1, SmallestSubset
<1>3. CASE b = {}
  <2>1. f[b] = 0 /\ g[b] = 0 /\ h[b] = 0
    BY <1>3 DEF Sums
  <2> QED BY <1>2, <2>1
<1>4. CASE b # {}
  <2> DEFINE r == b \ {pick[b]}
             x == pick[b]
  <2>1. r \in SUBSET b /\ r # b /\ r \subseteq S /\ x \in S
    BY <1>2, <1>4 DEF Picks
  <2>2. Good(r)
    BY <1>2, <2>1
  <2>3. f[b] = u[x] + f[r] /\ g[b] = v[x] + g[r] /\ h[b] = w[x] + h[r]
    BY <1>2, <1>4 DEF Sums
  <2>4. u[x] \in Int /\ v[x] \in Int /\ w[x] = u[x] + v[x]
    BY <2>1
  <2> HIDE DEF r, x
  <2> QED BY <1>2, <2>2, <2>3, <2>4
<1> QED BY <1>3, <1>4
=============================================================================
