---------------------------- MODULE InductionLemmas ----------------------------
(***************************************************************************)
(* Induction without a theorem that takes a predicate: a set of counter-    *)
(* examples, if it is not empty, has a least one.  With it, what FoldSet and *)
(* its like compute (a fold over a finite set that always removes the       *)
(* element CHOOSE picks) is shown to exist and to be determined.            *)
(***************************************************************************)
EXTENDS Integers, FiniteSetTheorems, WellFoundedInduction, TLAPS

(* A set of natural numbers that is not empty has a least element.          *)
LEMMA LeastNat ==
    ASSUME NEW T \in SUBSET Nat, T # {}
    PROVE  \E m \in T : \A k \in T : m <= k
<1> DEFINE R == OpToRel(<, Nat)
<1>1. IsWellFoundedOn(R, Nat)
  BY NatLessThanWellFounded
<1>2. \A y, x \in Nat : y < x => <<y, x>> \in R
  BY DEF OpToRel
<1> HIDE DEF R
<1>3. PICK x \in T : \A y \in T : ~ (<<y, x>> \in R)
  BY <1>1, WFMin
<1>4. \A y \in T : ~ (y < x)
  BY <1>2, <1>3
<1> QED BY <1>3, <1>4

(* Of subsets of a finite set, if there are any, one contains no other.     *)
LEMMA LeastSubset ==
    ASSUME NEW S, IsFiniteSet(S), NEW T \in SUBSET SUBSET S, T # {}
    PROVE  \E m \in T : \A k \in T : k \subseteq m => k = m
<1> DEFINE R == StrictSubsetOrdering(S)
<1>1. IsWellFoundedOn(R, SUBSET S)
  BY FS_StrictSubsetOrderingWellFounded, FS_FiniteSubsetsOfFinite
<1>2. \A y, x \in SUBSET S : y \subseteq x /\ y # x => <<y, x>> \in R
  BY DEF StrictSubsetOrdering
<1> HIDE DEF R
<1>3. PICK x \in T : \A y \in T : ~ (<<y, x>> \in R)
  BY <1>1, WFMin
<1> QED BY <1>2, <1>3

\* pick takes an element out of every subset of S; step keeps to A.
Picks(pick, S) == \A s \in SUBSET S : s # {} => pick[s] \in s
StepsIn(step, S, A) == \A x \in S : \A a \in A : step[<<x, a>>] \in A

(* g folds the subsets of S: it takes pick[s] out of s, and applies step to  *)
(* it and to the fold of the rest.                                          *)
FoldsOver(g, S, base, pick, step) ==
    \A s \in SUBSET S :
        g[s] = IF s = {} THEN base ELSE step[<<pick[s], g[s \ {pick[s]}]>>]

(* g and h are the same on a set if they are on what is left of it when      *)
(* pick has taken its element.                                              *)
SameStep(g, h, S, pick) ==
    /\ g[{}] = h[{}]
    /\ \A s \in SUBSET S : s # {} =>
          pick[s] \in s /\ (g[s \ {pick[s]}] = h[s \ {pick[s]}] => g[s] = h[s])

(* Then they are the same.                                                  *)
LEMMA SameFold ==
    ASSUME NEW S, IsFiniteSet(S), NEW pick, NEW g, NEW h, SameStep(g, h, S, pick)
    PROVE  \A s \in SUBSET S : g[s] = h[s]
<1> DEFINE T == {s \in SUBSET S : g[s] # h[s]}
<1> SUFFICES ASSUME T # {} PROVE FALSE
  OBVIOUS
<1>1. PICK s \in T : \A k \in T : k \subseteq s => k = s
  <2>1. T \in SUBSET SUBSET S
    OBVIOUS
  <2> HIDE DEF T
  <2> QED BY <2>1, LeastSubset
<1>2. s \in SUBSET S /\ g[s] # h[s] /\ s # {} /\ pick[s] \in s
  BY <1>1 DEF SameStep
<1>3. s \ {pick[s]} \in SUBSET S /\ s \ {pick[s]} \notin T
  BY <1>1, <1>2
<1> QED BY <1>2, <1>3 DEF SameStep

(* There is such a fold over every finite set, and it keeps to the codomain  *)
(* that its start and its steps keep to.                                    *)
LEMMA FoldExists ==
    ASSUME NEW S, IsFiniteSet(S), NEW A, NEW base \in A, NEW pick, NEW step,
           Picks(pick, S), StepsIn(step, S, A)
    PROVE  \E g \in [SUBSET S -> A] : FoldsOver(g, S, base, pick, step)
<1> DEFINE Has(s) == \E g \in [SUBSET s -> A] : FoldsOver(g, s, base, pick, step)
           T == {s \in SUBSET S : ~ Has(s)}
<1> SUFFICES ASSUME ~ Has(S) PROVE FALSE
  OBVIOUS
<1>1. T \in SUBSET SUBSET S /\ S \in T
  OBVIOUS
<1>2. PICK m \in T : \A k \in T : k \subseteq m => k = m
  <2> HIDE DEF T
  <2> QED BY <1>1, LeastSubset
<1>3. m \in SUBSET S /\ ~ Has(m) /\ IsFiniteSet(m)
  BY <1>2, FS_Subset
<1>4. \A u \in SUBSET m : u # m => Has(u)
  BY <1>2, <1>3
<1> DEFINE below == [u \in SUBSET m |-> CHOOSE g \in [SUBSET u -> A] : FoldsOver(g, u, base, pick, step)]
           g == [u \in SUBSET m |->
                    IF u = {} THEN base
                    ELSE IF u = m THEN step[<<pick[m], below[m \ {pick[m]}][m \ {pick[m]}]>>]
                    ELSE below[u][u]]
<1>5. \A u \in SUBSET m : u # m => below[u] \in [SUBSET u -> A] /\ FoldsOver(below[u], u, base, pick, step)
  BY <1>4
<1> HIDE DEF T, below
<1>6. \A u \in SUBSET m : u # m => below[u][u] \in A /\ (u # {} => pick[u] \in u)
  <2>1. \A u \in SUBSET m : u # {} => pick[u] \in u
    BY <1>3 DEF Picks
  <2>2. ASSUME NEW u \in SUBSET m, u # m PROVE below[u][u] \in A
    <3>1. below[u] \in [SUBSET u -> A]
      BY <1>5, <2>2
    <3> QED BY <3>1
  <2> QED BY <2>1, <2>2
<1>7. g \in [SUBSET m -> A]
  <2>1. ASSUME m # {} PROVE step[<<pick[m], below[m \ {pick[m]}][m \ {pick[m]}]>>] \in A
    <3>1. pick[m] \in m
      BY <1>3, <2>1 DEF Picks
    <3>2. m \ {pick[m]} \in SUBSET m /\ m \ {pick[m]} # m
      BY <3>1
    <3> QED BY <1>3, <1>6, <3>1, <3>2 DEF StepsIn
  <2> QED BY <1>6, <2>1
<1>8. ASSUME NEW u \in SUBSET m, u # {}
      PROVE  g[u] = step[<<pick[u], g[u \ {pick[u]}]>>]
  <2> DEFINE rest == u \ {pick[u]}
  <2>1. pick[u] \in u /\ rest \in SUBSET m /\ rest # m /\ rest \in SUBSET S
    BY <1>3, <1>8 DEF Picks
  <2>2. g[rest] = below[rest][rest]
    <3>1. CASE rest = {}
      BY <1>5, <2>1, <3>1 DEF FoldsOver
    <3>2. CASE rest # {}
      BY <2>1, <3>2
    <3> QED BY <3>1, <3>2
  <2>3. CASE u = m
    BY <1>8, <2>2, <2>3
  <2>4. CASE u # m
    <3>1. g[u] = below[u][u]
      BY <1>8, <2>4
    <3>2. below[u][u] = step[<<pick[u], below[u][rest]>>]
      BY <1>5, <1>8, <2>4 DEF FoldsOver
    <3>3. below[u][rest] = below[rest][rest]
      <4>1. FoldsOver(below[u], u, base, pick, step) /\ FoldsOver(below[rest], rest, base, pick, step)
        BY <1>5, <2>1, <2>4
      <4>2. IsFiniteSet(rest)
        BY <1>3, <2>1, FS_Subset
      <4>3. SameStep(below[u], below[rest], rest, pick)
        <5>1. \A s \in SUBSET rest : s # {} => pick[s] \in s
          BY <1>3, <2>1 DEF Picks
        <5>2. \A s \in SUBSET rest : s \in SUBSET u
          BY <2>1
        <5> HIDE DEF rest, g
        <5>3. {} \in SUBSET u /\ {} \in SUBSET rest
          OBVIOUS
        <5>4. below[u][{}] = base /\ below[rest][{}] = base
          BY <4>1, <5>3 DEF FoldsOver
        <5>5. ASSUME NEW s \in SUBSET rest, s # {}
              PROVE  /\ below[u][s] = step[<<pick[s], below[u][s \ {pick[s]}]>>]
                     /\ below[rest][s] = step[<<pick[s], below[rest][s \ {pick[s]}]>>]
          BY <4>1, <5>2, <5>5 DEF FoldsOver
        <5> QED BY <5>1, <5>4, <5>5 DEF SameStep
      <4> HIDE DEF rest, g
      <4> QED BY <4>2, <4>3, SameFold
    <3> QED BY <2>2, <3>1, <3>2, <3>3
  <2> QED BY <2>3, <2>4
<1>9. FoldsOver(g, m, base, pick, step)
  BY <1>8 DEF FoldsOver
<1> QED BY <1>3, <1>7, <1>9

(* When it does not matter to a fold which of two elements comes first, any  *)
(* element may be taken out first.                                          *)
Commute(step, S, A) ==
    \A x, y \in S : \A a \in A : step[<<x, step[<<y, a>>]>>] = step[<<y, step[<<x, a>>]>>]
AnyFirst(g, S, step) == \A s \in SUBSET S : \A x \in s : g[s] = step[<<x, g[s \ {x}]>>]

LEMMA FoldAnyOrder ==
    ASSUME NEW S, IsFiniteSet(S), NEW A, NEW base, NEW pick, NEW step,
           Picks(pick, S), Commute(step, S, A),
           NEW g \in [SUBSET S -> A], FoldsOver(g, S, base, pick, step)
    PROVE  AnyFirst(g, S, step)
<1> DEFINE Fine(s) == \A x \in s : g[s] = step[<<x, g[s \ {x}]>>]
           T == {s \in SUBSET S : ~ Fine(s)}
<1> SUFFICES ASSUME T # {} PROVE FALSE
  BY DEF AnyFirst
<1>1. PICK s \in T : \A k \in T : k \subseteq s => k = s
  <2>1. T \in SUBSET SUBSET S
    OBVIOUS
  <2> HIDE DEF T
  <2> QED BY <2>1, LeastSubset
<1>2. s \in SUBSET S /\ ~ Fine(s)
  BY <1>1
<1>3. \A u \in SUBSET s : u # s => Fine(u)
  BY <1>1, <1>2
<1> HIDE DEF T
<1>4. PICK x \in s : g[s] # step[<<x, g[s \ {x}]>>]
  BY <1>2
<1> DEFINE y == pick[s]
           rest == (s \ {x}) \ {y}
<1>5. y \in s /\ g[s] = step[<<y, g[s \ {y}]>>] /\ y # x
  BY <1>2, <1>4 DEF Picks, FoldsOver
<1> HIDE DEF y
<1>6. g[s \ {x}] = step[<<y, g[rest]>>]
  BY <1>3, <1>4, <1>5
<1>7. g[s \ {y}] = step[<<x, g[rest]>>]
  <2>1. rest = (s \ {y}) \ {x}
    OBVIOUS
  <2> HIDE DEF rest
  <2> QED BY <1>3, <1>4, <1>5, <2>1
<1>8. x \in S /\ y \in S /\ g[rest] \in A
  BY <1>2, <1>4, <1>5
<1> HIDE DEF rest
<1> QED BY <1>4, <1>5, <1>6, <1>7, <1>8 DEF Commute

(* The sum of natural numbers is one.                                       *)
LEMMA SumIsNat ==
    ASSUME NEW S, IsFiniteSet(S), NEW f \in [S -> Nat]
    PROVE  SumFunction(f) \in Nat
<1> DEFINE pick == [s \in SUBSET S |-> CHOOSE x \in s : TRUE]
           step == [p \in S \X Nat |-> f[p[1]] + p[2]]
           Sums(g) == g = [s \in SUBSET S |-> IF s = {} THEN 0
                              ELSE LET x == CHOOSE x \in s : TRUE IN f[x] + g[s \ {x}]]
<1>1. \A s \in SUBSET S : s # {} => pick[s] \in s
  OBVIOUS
<1>2. \A x \in S : \A a \in Nat : step[<<x, a>>] = f[x] + a /\ step[<<x, a>>] \in Nat
  OBVIOUS
<1>3. PICK g \in [SUBSET S -> Nat] : FoldsOver(g, S, 0, pick, step)
  <2>1. Picks(pick, S) /\ StepsIn(step, S, Nat)
    BY <1>1, <1>2 DEF Picks, StepsIn
  <2>2. 0 \in Nat
    OBVIOUS
  <2> HIDE DEF pick, step
  <2> QED BY <2>1, <2>2, FoldExists
<1>4. ASSUME NEW s \in SUBSET S, s # {}
      PROVE  g[s] = f[CHOOSE x \in s : TRUE] + g[s \ {CHOOSE x \in s : TRUE}]
  <2>1. pick[s] = (CHOOSE x \in s : TRUE) /\ pick[s] \in S /\ s \ {pick[s]} \in SUBSET S
    BY <1>1, <1>4
  <2>2. g[s] = step[<<pick[s], g[s \ {pick[s]}]>>]
    BY <1>3, <1>4 DEF FoldsOver
  <2>3. step[<<pick[s], g[s \ {pick[s]}]>>] = f[pick[s]] + g[s \ {pick[s]}]
    BY <1>2, <2>1
  <2> QED BY <2>1, <2>2, <2>3
<1>5. Sums(g)
  BY <1>3, <1>4 DEF FoldsOver
<1>6. ASSUME NEW h, Sums(h) PROVE h[S] = g[S]
  <2>1. h[{}] = 0 /\ g[{}] = 0
    BY <1>5, <1>6
  <2>2. ASSUME NEW s \in SUBSET S, s # {}
        PROVE  h[s] = f[pick[s]] + h[s \ {pick[s]}] /\ g[s] = f[pick[s]] + g[s \ {pick[s]}]
    <3>1. pick[s] = CHOOSE x \in s : TRUE
      BY <2>2
    <3>2. \A k : Sums(k) => k[s] = f[CHOOSE x \in s : TRUE] + k[s \ {CHOOSE x \in s : TRUE}]
      BY <2>2
    <3> HIDE DEF pick, Sums
    <3> QED BY <1>5, <1>6, <3>1, <3>2
  <2> HIDE DEF pick, Sums
  <2>3. SameStep(h, g, S, pick)
    BY <1>1, <2>1, <2>2 DEF SameStep
  <2> QED BY <2>3, SameFold
<1>7. SumFunction(f) = (CHOOSE h : Sums(h))[S]
  BY DEF SumFunction, SumFunctionOnSet, FoldFunctionOnSet, MapThenFoldSet
<1> HIDE DEF Sums
<1>8. Sums(CHOOSE h : Sums(h))
  BY <1>5
<1> QED BY <1>6, <1>7, <1>8
===============================================================================
