---------------------------- MODULE SpecCode_proofs ----------------------------
(***************************************************************************)
(* verify_spec_code.py, for every project whose operations specification and *)
(* code can both say: --strict passes exactly what agrees.                  *)
(*                                                                         *)
(* Each operation has a form that the specification tells of it and a form  *)
(* that its code shows.  The extractors yield the first, for each of the     *)
(* eight kinds of section; the detectors yield the second, for each of the   *)
(* twenty-three frameworks, alone or among the others of the capability,     *)
(* which are run on files that were not written for them.  The keys of the   *)
(* forms tell the operations apart, and the comparison finds what two forms  *)
(* differ in.  Over time, no name is documented or implemented twice.       *)
(***************************************************************************)
EXTENDS SpecCode, InductionLemmas

-----------------------------------------------------------------------------
(* Sequences, whatever is in them.                                          *)

(* The lemmas say of sequences that they are sequences of something: what   *)
(* the detectors and the tables yield is built one from another, and of     *)
(* which values does not matter for how long it is and what is in it.       *)
IsSeq(s) == s \in Seq(ToSet(s))

(* A sequence is a function on 1..n, whatever is in it.                     *)
LEMMA SeqIs ==
    ASSUME NEW s
    PROVE  IsSeq(s) <=> \E n \in Nat : s = [i \in 1..n |-> s[i]]
<1>1. ASSUME IsSeq(s) PROVE \E n \in Nat : s = [i \in 1..n |-> s[i]]
  <2>1. Len(s) \in Nat /\ s = [i \in 1..Len(s) |-> s[i]]
    BY <1>1 DEF IsSeq
  <2> QED BY <2>1
<1>2. ASSUME NEW n \in Nat, s = [i \in 1..n |-> s[i]] PROVE IsSeq(s)
  <2> DEFINE X == ToSet(s)
  <2>1. DOMAIN s = 1..n
    BY <1>2
  <2>2. \A i \in 1..n : s[i] \in X
    BY <2>1 DEF ToSet
  <2> HIDE DEF X
  <2>3. [i \in 1..n |-> s[i]] \in Seq(X)
    BY <2>2
  <2> QED BY <1>2, <2>3 DEF IsSeq, X
<1> QED BY <1>1, <1>2

(* A sequence over any set is one.                                          *)
LEMMA SeqOfAny ==
    ASSUME NEW X, NEW s \in Seq(X)
    PROVE  IsSeq(s)
<1>1. Len(s) \in Nat /\ s = [i \in 1..Len(s) |-> s[i]]
  OBVIOUS
<1> QED BY <1>1, SeqIs

(* Its length, and when there is nothing in it.                             *)
LEMMA SeqFacts ==
    ASSUME NEW s, IsSeq(s)
    PROVE  /\ Len(s) \in Nat /\ DOMAIN s = 1..Len(s)
           /\ s = <<>> <=> ToSet(s) = {}
           /\ s = <<>> <=> Len(s) = 0
           /\ \A i \in DOMAIN s : s[i] \in ToSet(s)
<1>1. Len(s) \in Nat /\ DOMAIN s = 1..Len(s) /\ s \in [1..Len(s) -> ToSet(s)]
  BY DEF IsSeq
<1>2. s = <<>> <=> Len(s) = 0
  BY DEF IsSeq
<1>3. Len(s) = 0 <=> ToSet(s) = {}
  <2>1. ASSUME Len(s) # 0 PROVE s[1] \in ToSet(s)
    BY <1>1, <2>1 DEF ToSet
  <2>2. ASSUME Len(s) = 0 PROVE ToSet(s) = {}
    BY <1>1, <2>2 DEF ToSet
  <2> QED BY <2>1, <2>2
<1> QED BY <1>1, <1>2, <1>3 DEF ToSet

(* What is in two sequences, one after the other.                           *)
LEMMA ConcatFacts ==
    ASSUME NEW s, NEW t, IsSeq(s), IsSeq(t)
    PROVE  IsSeq(s \o t) /\ ToSet(s \o t) = ToSet(s) \cup ToSet(t)
<1> DEFINE X == ToSet(s) \cup ToSet(t)
<1>1. s \in Seq(X) /\ t \in Seq(X)
  <2>1. \A S, T, q : S \subseteq T /\ q \in Seq(S) => q \in Seq(T)
    OBVIOUS
  <2> QED BY <2>1 DEF IsSeq
<1>2. DOMAIN s = 1..Len(s) /\ DOMAIN t = 1..Len(t) /\ Len(s) \in Nat /\ Len(t) \in Nat
  BY SeqFacts
<1>3. ToSet(s) \subseteq X /\ ToSet(t) \subseteq X /\ \A x \in X : x \in ToSet(s) \/ x \in ToSet(t)
  OBVIOUS
<1> HIDE DEF X
<1>4. /\ s \o t \in Seq(X) /\ Len(s \o t) = Len(s) + Len(t)
      /\ \A i \in 1..(Len(s) + Len(t)) : (s \o t)[i] = IF i <= Len(s) THEN s[i] ELSE t[i - Len(s)]
  BY <1>1
<1>5. DOMAIN (s \o t) = 1..(Len(s) + Len(t))
  BY <1>4
<1>6. ASSUME NEW x \in ToSet(s) PROVE x \in ToSet(s \o t)
  <2>1. PICK i \in 1..Len(s) : x = s[i]
    BY <1>2 DEF ToSet
  <2>2. i \in 1..(Len(s) + Len(t)) /\ (s \o t)[i] = x
    BY <1>2, <1>4, <2>1
  <2> QED BY <1>5, <2>2 DEF ToSet
<1>7. ASSUME NEW x \in ToSet(t) PROVE x \in ToSet(s \o t)
  <2>1. PICK i \in 1..Len(t) : x = t[i]
    BY <1>2 DEF ToSet
  <2>2. i + Len(s) \in 1..(Len(s) + Len(t)) /\ (s \o t)[i + Len(s)] = t[(i + Len(s)) - Len(s)]
    BY <1>2, <1>4, <2>1
  <2>3. (i + Len(s)) - Len(s) = i
    BY <1>2
  <2> QED BY <1>5, <2>1, <2>2, <2>3 DEF ToSet
<1>8. ASSUME NEW x \in ToSet(s \o t) PROVE x \in ToSet(s) \/ x \in ToSet(t)
  <2>1. x \in X
    <3>1. PICK i \in DOMAIN (s \o t) : x = (s \o t)[i]
      BY DEF ToSet
    <3> QED BY <1>4, <3>1
  <2> QED BY <1>3, <2>1
<1> QED BY <1>4, <1>6, <1>7, <1>8, SeqOfAny

(* FlattenSeq, which the community modules define by recursion along the    *)
(* sequence: what is in the sequences, and nothing else.                    *)
LEMMA FlattenFacts ==
    ASSUME NEW ss, IsSeq(ss), \A i \in DOMAIN ss : IsSeq(ss[i])
    PROVE  /\ IsSeq(FlattenSeq(ss))
           /\ ToSet(FlattenSeq(ss)) = UNION {ToSet(ss[i]) : i \in DOMAIN ss}
<1>1. Len(ss) \in Nat /\ DOMAIN ss = 1..Len(ss)
  BY SeqFacts
<1>2. CASE Len(ss) = 0
  <2>1. FlattenSeq(ss) = ss /\ DOMAIN ss = {} /\ ToSet(ss) = {}
    BY <1>1, <1>2, SeqFacts DEF FlattenSeq
  <2> QED BY <2>1
<1>3. CASE Len(ss) # 0
  <2> DEFINE X == UNION {ToSet(ss[i]) : i \in DOMAIN ss}
             Flattens(h) == h = [i \in 1..Len(ss) |-> IF i = 1 THEN ss[i] ELSE h[i - 1] \o ss[i]]
  <2>1. FlattenSeq(ss) = (CHOOSE h : Flattens(h))[Len(ss)]
    BY <1>3 DEF FlattenSeq
  <2>2. \E h : Flattens(h)
    <3> DEFINE up(n) == {h \in [1..n -> Seq(X)] : \A i \in 1..n : h[i] = IF i = 1 THEN ss[i] ELSE h[i - 1] \o ss[i]}
               T == {n \in 1..Len(ss) : up(n) = {}}
    <3>1. \A i \in 1..Len(ss) : ss[i] \in Seq(X)
      <4>1. ASSUME NEW i \in 1..Len(ss) PROVE ss[i] \in Seq(X)
        <5>1. ToSet(ss[i]) \subseteq X /\ ss[i] \in Seq(ToSet(ss[i]))
          BY <1>1 DEF IsSeq
        <5> HIDE DEF X
        <5> QED BY <5>1
      <4> QED BY <4>1
    <3> HIDE DEF X
    <3>2. T = {}
      <4> SUFFICES ASSUME T # {} PROVE FALSE
        OBVIOUS
      <4>1. PICK m \in T : \A k \in T : m <= k
        <5>1. T \in SUBSET Nat
          BY <1>1
        <5> HIDE DEF T
        <5> QED BY <5>1, LeastNat
      <4>2. m \in 1..Len(ss) /\ up(m) = {}
        BY <4>1
      <4>3. CASE m = 1
        <5>1. [i \in 1..1 |-> ss[1]] \in up(1)
          BY <1>1, <1>3, <3>1
        <5> QED BY <4>2, <4>3, <5>1
      <4>4. CASE m # 1
        <5>1. m - 1 \in 1..Len(ss) /\ m - 1 \notin T
          <6>1. m - 1 \in 1..Len(ss) /\ ~ (m <= m - 1)
            BY <1>1, <4>2, <4>4
          <6> HIDE DEF T
          <6> QED BY <4>1, <6>1
        <5>2. PICK h \in up(m - 1) : TRUE
          BY <5>1
        <5> DEFINE g == [i \in 1..m |-> IF i = m THEN h[m - 1] \o ss[m] ELSE h[i]]
        <5>3. h \in [1..(m - 1) -> Seq(X)] /\ \A i \in 1..(m - 1) : h[i] = IF i = 1 THEN ss[i] ELSE h[i - 1] \o ss[i]
          BY <5>2
        <5>4. h[m - 1] \o ss[m] \in Seq(X)
          BY <1>1, <3>1, <4>2, <5>1, <5>3
        <5>5. g \in [1..m -> Seq(X)]
          BY <1>1, <4>2, <5>3, <5>4
        <5>6. ASSUME NEW i \in 1..m PROVE g[i] = IF i = 1 THEN ss[i] ELSE g[i - 1] \o ss[i]
          <6>1. CASE i = m
            <7>1. g[m] = h[m - 1] \o ss[m] /\ g[m - 1] = h[m - 1]
              BY <1>1, <4>2, <4>4
            <7> HIDE DEF g
            <7> QED BY <4>4, <6>1, <7>1
          <6>2. CASE i # m
            <7>1. i \in 1..(m - 1) /\ g[i] = h[i]
              BY <1>1, <4>2, <6>2
            <7>2. i # 1 => g[i - 1] = h[i - 1]
              BY <1>1, <4>2, <6>2
            <7> QED BY <5>3, <7>1, <7>2
          <6> QED BY <6>1, <6>2
        <5>7. g \in up(m)
          BY <5>5, <5>6
        <5> QED BY <4>2, <5>7
      <4> QED BY <4>3, <4>4
    <3>3. PICK h \in up(Len(ss)) : TRUE
      <4>1. Len(ss) \in 1..Len(ss)
        BY <1>1, <1>3
      <4>2. Len(ss) \notin T
        <5> HIDE DEF T
        <5> QED BY <3>2
      <4> QED BY <4>1, <4>2
    <3>4. h = [i \in 1..Len(ss) |-> h[i]]
      BY <3>3
    <3>5. \A i \in 1..Len(ss) : h[i] = IF i = 1 THEN ss[i] ELSE h[i - 1] \o ss[i]
      BY <3>3
    <3>6. Flattens(h)
      BY <3>4, <3>5
    <3> QED BY <3>6
  <2>3. PICK h : h = (CHOOSE k : Flattens(k))
    OBVIOUS
  <2>4. Flattens(h)
    BY <2>2, <2>3
  <2>5. \A i \in 1..Len(ss) : h[i] = IF i = 1 THEN ss[i] ELSE h[i - 1] \o ss[i]
    BY <2>4
  <2> HIDE DEF Flattens
  <2> DEFINE Fine(n) == IsSeq(h[n]) /\ ToSet(h[n]) = UNION {ToSet(ss[i]) : i \in 1..n}
             T == {n \in 1..Len(ss) : ~ Fine(n)}
  <2>6. T = {}
    <3> SUFFICES ASSUME T # {} PROVE FALSE
      OBVIOUS
    <3>1. PICK m \in T : \A k \in T : m <= k
      <4>1. T \in SUBSET Nat
        BY <1>1
      <4> HIDE DEF T
      <4> QED BY <4>1, LeastNat
    <3>2. m \in 1..Len(ss) /\ ~ Fine(m)
      BY <3>1
    <3>3. CASE m = 1
      <4>1. h[1] = ss[1] /\ IsSeq(ss[1])
        BY <1>1, <2>5, <3>2, <3>3
      <4>2. UNION {ToSet(ss[i]) : i \in 1..1} = ToSet(ss[1])
        OBVIOUS
      <4> QED BY <3>2, <3>3, <4>1, <4>2
    <3>4. CASE m # 1
      <4>1. m - 1 \in 1..Len(ss) /\ m - 1 \notin T
        BY <1>1, <3>1, <3>2, <3>4
      <4>2. Fine(m - 1)
        BY <4>1
      <4>3. h[m] = h[m - 1] \o ss[m] /\ IsSeq(ss[m])
        BY <1>1, <2>5, <3>2, <3>4
      <4>4. IsSeq(h[m]) /\ ToSet(h[m]) = ToSet(h[m - 1]) \cup ToSet(ss[m])
        BY <4>2, <4>3, ConcatFacts
      <4>5. 1..m = 1..(m - 1) \cup {m}
        BY <1>1, <3>2
      <4>6. UNION {ToSet(ss[i]) : i \in 1..m} = (UNION {ToSet(ss[i]) : i \in 1..(m - 1)}) \cup ToSet(ss[m])
        BY <4>5
      <4> QED BY <3>2, <4>2, <4>4, <4>6
    <3> QED BY <3>3, <3>4
  <2>7. Fine(Len(ss))
    <3>1. Len(ss) \in 1..Len(ss)
      BY <1>1, <1>3
    <3> HIDE DEF Fine
    <3> QED BY <2>6, <3>1
  <2> QED BY <1>1, <2>1, <2>3, <2>7
<1> QED BY <1>2, <1>3

(* At: what is at the kept indices, and nothing else.                       *)
LEMMA AtFacts ==
    ASSUME NEW s, IsSeq(s), NEW I \in SUBSET DOMAIN s
    PROVE  IsSeq(At(s, I)) /\ ToSet(At(s, I)) = {s[i] : i \in I}
<1> DEFINE part(i) == IF i \in I THEN <<s[i]>> ELSE <<>>
           ss == [i \in DOMAIN s |-> part(i)]
<1>1. Len(s) \in Nat /\ DOMAIN s = 1..Len(s)
  BY SeqFacts
<1>2. \A i \in DOMAIN s : IsSeq(part(i)) /\ ToSet(part(i)) = IF i \in I THEN {s[i]} ELSE {}
  <2>1. \A x : IsSeq(<<x>>) /\ ToSet(<<x>>) = {x}
    BY DEF IsSeq, ToSet
  <2>2. IsSeq(<<>>) /\ ToSet(<<>>) = {}
    BY DEF IsSeq, ToSet
  <2> QED BY <2>1, <2>2
<1> HIDE DEF part
<1>3. ss = [i \in 1..Len(s) |-> ss[i]] /\ DOMAIN ss = DOMAIN s /\ \A i \in DOMAIN s : ss[i] = part(i)
  BY <1>1
<1>4. IsSeq(ss)
  BY <1>1, <1>3, SeqIs
<1>5. At(s, I) = FlattenSeq(ss)
  BY DEF At, part
<1> HIDE DEF ss
<1>6. IsSeq(At(s, I)) /\ ToSet(At(s, I)) = UNION {ToSet(ss[i]) : i \in DOMAIN ss}
  BY <1>2, <1>3, <1>4, <1>5, FlattenFacts
<1>7. UNION {ToSet(ss[i]) : i \in DOMAIN ss} = {s[i] : i \in I}
  <2>1. ASSUME NEW i \in I PROVE s[i] \in ToSet(ss[i]) /\ i \in DOMAIN ss
    BY <1>2, <1>3
  <2>2. ASSUME NEW i \in DOMAIN ss, NEW x \in ToSet(ss[i]) PROVE i \in I /\ x = s[i]
    BY <1>2, <1>3, <2>2
  <2> QED BY <2>1, <2>2
<1> QED BY <1>6, <1>7

(* The last of some indices.                                                *)
LEMMA LastOf ==
    ASSUME NEW n \in Nat, NEW S \in SUBSET (1..n), S # {}
    PROVE  \E m \in S : \A j \in S : j <= m
<1> DEFINE T == {n - i : i \in S}
<1>1. T \in SUBSET Nat /\ T # {}
  <2>1. \A i \in S : n - i \in Nat
    OBVIOUS
  <2> QED BY <2>1
<1>2. PICK k \in T : \A l \in T : k <= l
  <2> HIDE DEF T
  <2> QED BY <1>1, LeastNat
<1>3. PICK m \in S : k = n - m
  BY <1>2
<1>4. ASSUME NEW j \in S PROVE j <= m
  <2>1. n - m <= n - j
    BY <1>2, <1>3
  <2> QED BY <2>1
<1> QED BY <1>3, <1>4

-----------------------------------------------------------------------------
(* Items by their keys.                                                     *)

(* The keys of normalised items.                                            *)
KeysOf(forms) == {x.key : x \in ToSet(forms)}

(* _by_key: every key has an item, and one with that key.                   *)
LEMMA ByKeyFacts ==
    ASSUME NEW forms, IsSeq(forms)
    PROVE  /\ DOMAIN ByKey(forms) = KeysOf(forms)
           /\ \A k \in KeysOf(forms) : ByKey(forms)[k] \in ToSet(forms) /\ ByKey(forms)[k].key = k
<1>1. Len(forms) \in Nat /\ DOMAIN forms = 1..Len(forms)
  BY SeqFacts
<1>2. {forms[i].key : i \in DOMAIN forms} = KeysOf(forms)
  BY DEF KeysOf, ToSet
<1>3. ASSUME NEW k \in KeysOf(forms) PROVE ByKey(forms)[k] \in ToSet(forms) /\ ByKey(forms)[k].key = k
  <2> DEFINE here(i) == forms[i].key = k /\ \A j \in (i + 1)..Len(forms) : forms[j].key # k
             S == {i \in 1..Len(forms) : forms[i].key = k}
  <2>1. S # {}
    BY <1>1, <1>2
  <2>2. PICK m \in S : \A j \in S : j <= m
    BY <1>1, <2>1, LastOf
  <2>3. m \in DOMAIN forms /\ here(m)
    BY <1>1, <2>2
  <2>4. PICK i : i = CHOOSE n \in DOMAIN forms : here(n)
    OBVIOUS
  <2>5. i \in DOMAIN forms /\ here(i)
    BY <2>3, <2>4
  <2>6. ByKey(forms)[k] = forms[i]
    BY <1>2, <2>4 DEF ByKey
  <2> QED BY <2>5, <2>6 DEF ToSet
<1> QED BY <1>2, <1>3 DEF ByKey

(* Of two items with one key the later one is kept.                         *)
LEMMA ByKeyOfLast ==
    ASSUME NEW s, NEW t, IsSeq(s), IsSeq(t), NEW k \in KeysOf(t)
    PROVE  ByKey(s \o t)[k] \in ToSet(t) /\ ByKey(s \o t)[k].key = k
<1> DEFINE forms == s \o t
           here(i) == forms[i].key = k /\ \A j \in (i + 1)..Len(forms) : forms[j].key # k
           S == {i \in 1..Len(forms) : forms[i].key = k}
<1>1. /\ IsSeq(forms) /\ ToSet(forms) = ToSet(s) \cup ToSet(t) /\ Len(s) \in Nat /\ Len(t) \in Nat
      /\ DOMAIN t = 1..Len(t) /\ DOMAIN s = 1..Len(s)
  BY ConcatFacts, SeqFacts
<1>2. /\ Len(forms) \in Nat /\ DOMAIN forms = 1..Len(forms) /\ Len(forms) = Len(s) + Len(t)
      /\ \A i \in DOMAIN forms : forms[i] = IF i <= Len(s) THEN s[i] ELSE t[i - Len(s)]
  <2>1. DOMAIN forms = 1..Len(forms) /\ Len(forms) \in Nat
    BY <1>1, SeqFacts
  <2>2. s \in Seq(ToSet(forms)) /\ t \in Seq(ToSet(forms))
    <3>1. \A A, B, q : A \subseteq B /\ q \in Seq(A) => q \in Seq(B)
      OBVIOUS
    <3>2. ToSet(s) \subseteq ToSet(forms) /\ ToSet(t) \subseteq ToSet(forms)
      BY <1>1
    <3> HIDE DEF forms
    <3> QED BY <3>1, <3>2 DEF IsSeq
  <2> QED BY <2>1, <2>2
<1>3. PICK l \in 1..Len(t) : t[l].key = k
  BY <1>1 DEF KeysOf, ToSet
<1>4. l + Len(s) \in 1..Len(forms) /\ forms[l + Len(s)] = t[l]
  <2>1. l + Len(s) \in 1..Len(forms) /\ (l + Len(s)) - Len(s) = l /\ ~ (l + Len(s) <= Len(s))
    BY <1>1, <1>2, <1>3
  <2> HIDE DEF forms
  <2> QED BY <1>2, <2>1
<1> HIDE DEF forms
<1>5. {forms[i].key : i \in DOMAIN forms} = KeysOf(forms) /\ k \in KeysOf(forms)
  BY <1>1, <1>2, <1>3, <1>4 DEF KeysOf, ToSet
<1>6. PICK m \in S : \A j \in S : j <= m
  <2>1. S # {}
    BY <1>3, <1>4
  <2> QED BY <1>2, <2>1, LastOf
<1>7. m \in DOMAIN forms /\ here(m)
  BY <1>2, <1>6
<1>8. PICK i : i = CHOOSE n \in DOMAIN forms : here(n)
  OBVIOUS
<1>9. i \in DOMAIN forms /\ here(i)
  BY <1>7, <1>8
<1>10. i >= l + Len(s)
  <2>1. l + Len(s) \notin (i + 1)..Len(forms)
    BY <1>3, <1>4, <1>9
  <2> QED BY <1>1, <1>2, <1>3, <1>4, <1>9, <2>1
<1>11. i - Len(s) \in DOMAIN t /\ forms[i] = t[i - Len(s)]
  <2>1. i \in 1..Len(forms) /\ ~ (i <= Len(s)) /\ i - Len(s) \in 1..Len(t)
    BY <1>1, <1>2, <1>3, <1>9, <1>10
  <2> QED BY <1>1, <1>2, <2>1
<1>12. ByKey(forms)[k] = forms[i]
  BY <1>5, <1>8 DEF ByKey
<1>13. forms[i] \in ToSet(t)
  BY <1>11 DEF ToSet
<1> QED BY <1>9, <1>12, <1>13 DEF forms

(* What is kept of items once each: their keys are all there.               *)
LEMMA OnceEachFacts ==
    ASSUME NEW forms, IsSeq(forms)
    PROVE  /\ IsSeq(OnceEach(forms)) /\ ToSet(OnceEach(forms)) \subseteq ToSet(forms)
           /\ KeysOf(OnceEach(forms)) = KeysOf(forms)
<1> DEFINE I == {i \in DOMAIN forms : \A j \in 1..(i - 1) : forms[j].key # forms[i].key}
<1>1. Len(forms) \in Nat /\ DOMAIN forms = 1..Len(forms)
  BY SeqFacts
<1>2. IsSeq(OnceEach(forms)) /\ ToSet(OnceEach(forms)) = {forms[i] : i \in I}
  BY AtFacts DEF OnceEach
<1>3. ASSUME NEW k \in KeysOf(forms) PROVE \E i \in I : forms[i].key = k
  <2> DEFINE S == {i \in 1..Len(forms) : forms[i].key = k}
  <2>1. S \in SUBSET Nat /\ S # {}
    BY <1>1 DEF KeysOf, ToSet
  <2>2. PICK m \in S : \A j \in S : m <= j
    <3> HIDE DEF S
    <3> QED BY <2>1, LeastNat
  <2>3. m \in 1..Len(forms) /\ forms[m].key = k /\ \A j \in 1..(m - 1) : j \notin S
    <3>1. m \in S /\ m \in Nat
      BY <2>1, <2>2
    <3>2. \A j \in 1..(m - 1) : ~ (m <= j)
      BY <3>1
    <3> QED BY <2>2, <3>1, <3>2
  <2>4. m \in I
    BY <1>1, <2>3
  <2> QED BY <2>3, <2>4
<1>4. {forms[i] : i \in I} \subseteq ToSet(forms)
  BY DEF ToSet
<1> HIDE DEF I
<1> QED BY <1>2, <1>3, <1>4 DEF KeysOf

(* Short sequences, written out.                                            *)
LEMMA Tuples ==
    /\ IsSeq(<<>>) /\ ToSet(<<>>) = {} /\ Len(<<>>) = 0
    /\ \A a : IsSeq(<<a>>) /\ ToSet(<<a>>) = {a} /\ DOMAIN <<a>> = {1} /\ <<a>>[1] = a /\ <<a>> # <<>>
    /\ \A a, b : IsSeq(<<a, b>>) /\ ToSet(<<a, b>>) = {a, b} /\ DOMAIN <<a, b>> = {1, 2}
    /\ \A a, b, c, d : IsSeq(<<a, b, c, d>>) /\ ToSet(<<a, b, c, d>>) = {a, b, c, d} /\ DOMAIN <<a, b, c, d>> = {1, 2, 3, 4}
<1>1. IsSeq(<<>>) /\ ToSet(<<>>) = {} /\ Len(<<>>) = 0
  BY DEF IsSeq, ToSet
<1>2. \A a : IsSeq(<<a>>) /\ ToSet(<<a>>) = {a} /\ DOMAIN <<a>> = {1} /\ <<a>>[1] = a /\ <<a>> # <<>>
  BY DEF IsSeq, ToSet
<1>3. \A a, b : IsSeq(<<a, b>>) /\ ToSet(<<a, b>>) = {a, b} /\ DOMAIN <<a, b>> = {1, 2}
  <2> TAKE a, b
  <2>1. DOMAIN <<a, b>> = {1, 2} /\ <<a, b>>[1] = a /\ <<a, b>>[2] = b
    OBVIOUS
  <2>2. ToSet(<<a, b>>) = {a, b}
    BY <2>1, Zenon DEF ToSet
  <2>3. <<a, b>> \in Seq({a, b})
    OBVIOUS
  <2> QED BY <2>1, <2>2, <2>3 DEF IsSeq
<1>4. \A a, b, c, d : IsSeq(<<a, b, c, d>>) /\ ToSet(<<a, b, c, d>>) = {a, b, c, d} /\ DOMAIN <<a, b, c, d>> = {1, 2, 3, 4}
  <2> TAKE a, b, c, d
  <2> DEFINE q == <<a, b, c, d>>
  <2>1. DOMAIN q = {1, 2, 3, 4} /\ q[1] = a /\ q[2] = b /\ q[3] = c /\ q[4] = d
    OBVIOUS
  <2>2. q \in Seq({a, b, c, d})
    OBVIOUS
  <2> HIDE DEF q
  <2>3. ToSet(q) = {a, b, c, d}
    BY <2>1 DEF ToSet
  <2>4. IsSeq(q) /\ ToSet(q) = {a, b, c, d} /\ DOMAIN q = {1, 2, 3, 4}
    BY <2>1, <2>2, <2>3 DEF IsSeq
  <2> QED BY <2>4 DEF q
<1> QED BY <1>1, <1>2, <1>3, <1>4

(* One item of each.                                                        *)
LEMMA MapFacts ==
    ASSUME NEW s, IsSeq(s), NEW m, m = [i \in DOMAIN s |-> m[i]]
    PROVE  IsSeq(m) /\ DOMAIN m = DOMAIN s /\ (s = <<>> <=> m = <<>>)
<1>1. Len(s) \in Nat /\ DOMAIN s = 1..Len(s)
  BY SeqFacts
<1>2. IsSeq(m)
  BY <1>1, SeqIs
<1>3. DOMAIN m = DOMAIN s
  OBVIOUS
<1>4. m = <<>> <=> DOMAIN m = {}
  BY <1>2, SeqFacts DEF ToSet
<1>5. s = <<>> <=> DOMAIN s = {}
  BY SeqFacts DEF ToSet
<1> QED BY <1>2, <1>3, <1>4, <1>5

-----------------------------------------------------------------------------
(* The registry of detectors, types, and keys.                              *)

(* The frameworks the registry has detectors for.                           *)
TheFrameworks == UNION {ToSet(Registered[c]) : c \in DOMAIN Registered}

(* The registry, capability by capability.                                  *)
LEMMA RegisteredIs ==
    /\ DOMAIN Registered = {"data-pipeline", "web-api", "cli", "library", "llm-app", "iac", "mobile", "logging"}
    /\ ToSet(Registered["data-pipeline"]) = {"airflow", "dagster", "prefect", "luigi"}
    /\ ToSet(Registered["web-api"]) = {"fastapi", "flask", "express", "django", "gin"}
    /\ ToSet(Registered["cli"]) = {"click", "typer"}
    /\ ToSet(Registered["library"]) = {"python_library", "typescript"}
    /\ ToSet(Registered["llm-app"]) = {"tool_schema", "langchain"}
    /\ ToSet(Registered["iac"]) = {"terraform", "pulumi", "ansible"}
    /\ ToSet(Registered["mobile"]) = {"react_native", "flutter", "swiftui"}
    /\ ToSet(Registered["logging"]) = {"python_logging", "javascript_logging"}
<1>1. DOMAIN Registered = {"data-pipeline", "web-api", "cli", "library", "llm-app", "iac", "mobile", "logging"}
  BY DEF Registered
<1>2. /\ Registered["data-pipeline"] = StageDetectors /\ Registered["web-api"] = EndpointDetectors
      /\ Registered["cli"] = CommandDetectors /\ Registered["library"] = FunctionDetectors
      /\ Registered["llm-app"] = ToolDetectors /\ Registered["iac"] = ResourceDetectors
      /\ Registered["mobile"] = ScreenDetectors /\ Registered["logging"] = LogDetectors
  BY DEF Registered
<1>3. \A a, b, c : ToSet(<<a, b, c>>) = {a, b, c}
  <2> TAKE a, b, c
  <2> DEFINE q == <<a, b, c>>
  <2>1. DOMAIN q = {1, 2, 3} /\ q[1] = a /\ q[2] = b /\ q[3] = c
    OBVIOUS
  <2> HIDE DEF q
  <2>2. ToSet(q) = {a, b, c}
    BY <2>1 DEF ToSet
  <2> QED BY <2>2 DEF q
<1>4. \A a, b, c, d, e : ToSet(<<a, b, c, d, e>>) = {a, b, c, d, e}
  <2> TAKE a, b, c, d, e
  <2> DEFINE q == <<a, b, c, d, e>>
  <2>1. DOMAIN q = {1, 2, 3, 4, 5} /\ q[1] = a /\ q[2] = b /\ q[3] = c /\ q[4] = d /\ q[5] = e
    OBVIOUS
  <2> HIDE DEF q
  <2>2. ToSet(q) = {a, b, c, d, e}
    BY <2>1 DEF ToSet
  <2> QED BY <2>2 DEF q
<1>5. /\ ToSet(StageDetectors) = {"airflow", "dagster", "prefect", "luigi"}
      /\ ToSet(EndpointDetectors) = {"fastapi", "flask", "express", "django", "gin"}
  BY <1>4, Tuples DEF StageDetectors, EndpointDetectors
<1>6. /\ ToSet(CommandDetectors) = {"click", "typer"}
      /\ ToSet(FunctionDetectors) = {"python_library", "typescript"}
      /\ ToSet(ToolDetectors) = {"tool_schema", "langchain"}
      /\ ToSet(LogDetectors) = {"python_logging", "javascript_logging"}
  BY Tuples DEF CommandDetectors, FunctionDetectors, ToolDetectors, LogDetectors
<1>7. /\ ToSet(ResourceDetectors) = {"terraform", "pulumi", "ansible"}
      /\ ToSet(ScreenDetectors) = {"react_native", "flutter", "swiftui"}
  BY <1>3 DEF ResourceDetectors, ScreenDetectors
<1> QED BY <1>1, <1>2, <1>5, <1>6, <1>7

(* A framework belongs to one capability.                                   *)
LEMMA OneCapability ==
    ASSUME NEW c \in DOMAIN Registered, NEW f \in ToSet(Registered[c])
    PROVE  Capability(f) = c
<1>1. \A k \in DOMAIN Registered : f \in ToSet(Registered[k]) <=> k = c
  BY RegisteredIs
<1> QED BY <1>1 DEF Capability

(* The capability of each framework.                                        *)
LEMMA Capabilities ==
    /\ \A f \in {"airflow", "dagster", "prefect", "luigi"} : Capability(f) = "data-pipeline"
    /\ \A f \in {"fastapi", "flask", "express", "django", "gin"} : Capability(f) = "web-api"
    /\ \A f \in {"click", "typer"} : Capability(f) = "cli"
    /\ \A f \in {"python_library", "typescript"} : Capability(f) = "library"
    /\ \A f \in {"tool_schema", "langchain"} : Capability(f) = "llm-app"
    /\ \A f \in {"terraform", "pulumi", "ansible"} : Capability(f) = "iac"
    /\ \A f \in {"react_native", "flutter", "swiftui"} : Capability(f) = "mobile"
    /\ \A f \in {"python_logging", "javascript_logging"} : Capability(f) = "logging"
BY RegisteredIs, OneCapability

(* _normalize_type and _type_differs, on the types a field is given: they   *)
(* differ unless one is missing, they are the same, or the notations of a   *)
(* string.                                                                  *)
LEMMA TypeFacts ==
    /\ \A t, u \in FieldTypes : Changed(t, u) <=> ~ SameType(t, u)
    /\ \A t, u \in {"info", "error"} : Changed(t, u) <=> t # u
    /\ ~ Changed("", "")
<1>1. DOMAIN Wraps = {"Optional[str]", "list[str]", "str | None", "list[Row]"}
  BY DEF Wraps
<1>2. \A t \in FieldTypes \cup {"info", "error"} : Bare(t) = t
  BY <1>1 DEF Bare, FieldTypes
<1> DEFINE strings == {"string", "str", "text", "char", "varchar"}
           numbers == {"integer", "int", "long", "number", "float", "double", "decimal"}
<1>3. NormalizeType("str") = strings
  <2>1. \A g \in AliasGroups : "str" \in g <=> g = strings
    BY DEF AliasGroups
  <2>2. strings \in AliasGroups /\ "str" \in strings
    BY DEF AliasGroups
  <2> HIDE DEF strings
  <2>3. UNION {g \in AliasGroups : "str" \in g} = strings
    BY <2>1, <2>2
  <2> QED BY <1>2, <2>2, <2>3 DEF NormalizeType, FieldTypes
<1>4. NormalizeType("string") = strings
  <2>1. \A g \in AliasGroups : "string" \in g <=> g = strings
    BY DEF AliasGroups
  <2>2. strings \in AliasGroups /\ "string" \in strings
    BY DEF AliasGroups
  <2> HIDE DEF strings
  <2>3. UNION {g \in AliasGroups : "string" \in g} = strings
    BY <2>1, <2>2
  <2> QED BY <1>2, <2>2, <2>3 DEF NormalizeType, FieldTypes
<1>5. NormalizeType("int") = numbers
  <2>1. \A g \in AliasGroups : "int" \in g <=> g = numbers
    BY DEF AliasGroups
  <2>2. numbers \in AliasGroups /\ "int" \in numbers
    BY DEF AliasGroups
  <2> HIDE DEF numbers
  <2>3. UNION {g \in AliasGroups : "int" \in g} = numbers
    BY <2>1, <2>2
  <2> QED BY <1>2, <2>2, <2>3 DEF NormalizeType, FieldTypes
<1>6. strings # numbers
  <2>1. "str" \in strings /\ "str" \notin numbers
    OBVIOUS
  <2> QED BY <2>1
<1>7. NormalizeType("info") = {"info"} /\ NormalizeType("error") = {"error"}
  <2>1. \A g \in AliasGroups : "info" \notin g /\ "error" \notin g
    BY DEF AliasGroups
  <2>2. Bare("info") = "info" /\ Bare("error") = "error"
    BY <1>2
  <2> QED BY <2>1, <2>2 DEF NormalizeType
<1>8. {"info"} # {"error"}
  OBVIOUS
<1> HIDE DEF strings, numbers
<1>9. \A t, u \in FieldTypes : Changed(t, u) <=> ~ SameType(t, u)
  <2>1. ASSUME NEW t \in FieldTypes, NEW u \in FieldTypes PROVE Changed(t, u) <=> ~ SameType(t, u)
    <3>1. CASE t = "" \/ u = ""
      BY <3>1 DEF Changed, SameType
    <3>2. CASE t # "" /\ u # ""
      <4>1. t \in {"str", "string", "int"} /\ u \in {"str", "string", "int"}
        BY <3>2 DEF FieldTypes
      <4>2. TypesMatch(t, u) <=> ((t = "int") <=> (u = "int"))
        BY <1>3, <1>4, <1>5, <1>6, <4>1 DEF TypesMatch
      <4>3. SameType(t, u) <=> t = u \/ {t, u} = {"str", "string"}
        BY <3>2 DEF SameType
      <4>4. ((t = "int") <=> (u = "int")) <=> t = u \/ {t, u} = {"str", "string"}
        BY <4>1
      <4> QED BY <3>2, <4>2, <4>3, <4>4 DEF Changed
    <3> QED BY <3>1, <3>2
  <2> QED BY <2>1
<1>10. \A t, u \in {"info", "error"} : Changed(t, u) <=> t # u
  BY <1>7, <1>8 DEF Changed, TypesMatch
<1> QED BY <1>9, <1>10 DEF Changed

(* A path as both sides normalise it: braces and colons come out alike,     *)
(* converters as themselves, and without a parameter the style does not     *)
(* matter.                                                                  *)
LEMMA KeyFacts ==
    ASSUME NEW v, NEW n, NEW a, NEW style \in {"braces", "colon", "converter"}
    PROVE  EndpointKey(v, Path(n, style, a)) =
              [verb |-> v, path |-> [route |-> n, arg |-> "",
                  style |-> IF a = "" THEN "plain" ELSE IF style = "converter" THEN "converter" ELSE "param"]]
<1> DEFINE p == Path(n, style, a)
           q == [route |-> n, arg |-> "",
                  style |-> IF a = "" THEN "plain" ELSE IF style = "converter" THEN "converter" ELSE "param"]
<1>1. CASE a = ""
  <2>1. p = [route |-> n, style |-> "plain", arg |-> ""]
    BY <1>1 DEF Path
  <2> HIDE DEF p
  <2>2. NormalizePath(p) = p
    BY <2>1 DEF NormalizePath
  <2>3. p = q
    BY <1>1, <2>1
  <2> QED BY <2>2, <2>3 DEF EndpointKey, p
<1>2. CASE a # "" /\ style # "converter"
  <2>1. p = [route |-> n, style |-> style, arg |-> a]
    BY <1>2 DEF Path
  <2> HIDE DEF p
  <2>2. NormalizePath(p) = [p EXCEPT !.style = "param", !.arg = ""]
    BY <1>2, <2>1 DEF NormalizePath
  <2>3. NormalizePath(p) = q
    BY <1>2, <2>1, <2>2
  <2> QED BY <2>3 DEF EndpointKey, p
<1>3. CASE a # "" /\ style = "converter"
  <2>1. p = [route |-> n, style |-> style, arg |-> a]
    BY <1>3 DEF Path
  <2> HIDE DEF p
  <2>2. NormalizePath(p) = [p EXCEPT !.arg = ""]
    BY <1>3, <2>1 DEF NormalizePath
  <2>3. NormalizePath(p) = q
    BY <1>3, <2>1, <2>2
  <2> QED BY <2>3 DEF EndpointKey, p
<1> QED BY <1>1, <1>2, <1>3

-----------------------------------------------------------------------------
(* An operation as the specification has it and as its code has it.         *)

(* How an operation is told: its key in the specification, and in the code  *)
(* of framework f.                                                          *)
KeySaid(f, o) ==
    CASE Capability(f) = "web-api" -> EndpointKey(o.verb, Path(o.name, "braces", o.arg))
      [] Capability(f) = "logging" -> LogKey(o.name, "start")
      [] OTHER -> NameKey(o.name)

KeyShown(f, p) ==
    CASE f = "flask" -> EndpointKey(p.verb, Path(p.name, "converter", p.arg))
      [] f \in {"express", "gin"} -> EndpointKey(p.verb, Path(p.name, "colon", p.arg))
      [] OTHER -> KeySaid(f, p)

(* The scalar of an operation, where the capability has one.                *)
ScalarOf(f, o) ==
    CASE Capability(f) = "library" -> o.scalar [] Capability(f) = "logging" -> Level(o) [] OTHER -> ""

(* Fields without types.                                                    *)
Untyped(fields) == [n \in DOMAIN fields |-> ""]

(* The item a specification has for an operation, and the one its code in   *)
(* framework f has.                                                         *)
FormSaid(f, o) ==
    Form(KeySaid(f, o),
         CASE Capability(f) = "logging" -> NoFields [] Capability(f) = "iac" -> Untyped(o.first) [] OTHER -> o.first,
         IF Capability(f) \in {"data-pipeline", "web-api"} THEN o.second ELSE NoFields,
         ScalarOf(f, o))

(* The type a detector of f sees, where the source says t.                  *)
SeenType(f, t) ==
    CASE f \in {"click", "typer"} -> IF t = "" THEN "str" ELSE t
      [] f = "luigi" -> IF t = "int" THEN "int" ELSE "str"
      [] ~ ShowsTypes(f) -> ""
      [] OTHER -> t

FormShown(f, p) ==
    Form(KeyShown(f, p),
         IF f = "express" \/ Capability(f) = "logging" THEN NoFields
         ELSE [n \in DOMAIN p.first |-> SeenType(f, p.first[n])],
         IF f \in ShowsSecond THEN p.second ELSE NoFields,
         ScalarOf(f, p))

(* What the assumption says of an operation.                                *)
LEMMA OperationFacts ==
    ASSUME NEW o \in Operations
    PROVE  /\ o.name \notin PlaceholderNames \cup PlaceholderCommands /\ o.name # ""
           /\ o.verb \in Verbs /\ o.verb # "" /\ o.scalar \in FieldTypes
           /\ o.first \in [DOMAIN o.first -> FieldTypes] /\ IsFiniteSet(DOMAIN o.first) /\ "" \notin DOMAIN o.first
           /\ o.second \in [DOMAIN o.second -> FieldTypes] /\ IsFiniteSet(DOMAIN o.second)
           /\ o = [name |-> o.name, verb |-> o.verb, arg |-> o.arg,
                   first |-> o.first, second |-> o.second, scalar |-> o.scalar]
<1>1. /\ o.name \notin PlaceholderNames \cup PlaceholderCommands
      /\ o.verb \in Verbs /\ o.scalar \in FieldTypes
      /\ o.first \in FieldsOf(DOMAIN o.first) /\ o.second \in FieldsOf(DOMAIN o.second)
      /\ o = [name |-> o.name, verb |-> o.verb, arg |-> o.arg,
              first |-> o.first, second |-> o.second, scalar |-> o.scalar]
  BY SpecCodeAssumption
<1>2. o.name # "" /\ o.verb # ""
  BY <1>1 DEF PlaceholderNames, Verbs
<1> QED BY <1>1, <1>2 DEF FieldsOf

(* An operation o documented under the key p is found under.                *)
OneKey(f, o, p) ==
    /\ o.name = p.name
    /\ Capability(f) = "web-api" => o.verb = p.verb /\ (o.arg = "" <=> p.arg = "")
    /\ f = "flask" => o.arg = "" /\ p.arg = ""

(* On either side the key tells the operation.                              *)
LEMMA KeysTell ==
    ASSUME NEW f \in TheFrameworks, NEW o \in Operations, NEW p \in Operations
    PROVE  /\ KeySaid(f, o) = KeySaid(f, p) => o.name = p.name
           /\ KeyShown(f, o) = KeyShown(f, p) => o.name = p.name
           /\ KeySaid(f, o) = KeyShown(f, p) <=> OneKey(f, o, p)
<1> DEFINE key(v, n, a, styled) == [verb |-> v, path |-> [route |-> n, arg |-> "", style |-> IF a = "" THEN "plain" ELSE styled]]
<1>0. f \in ToSet(Registered[Capability(f)]) /\ Capability(f) \in DOMAIN Registered
  BY OneCapability DEF TheFrameworks
<1>1. CASE Capability(f) = "web-api"
  <2>1. f \in {"fastapi", "flask", "express", "django", "gin"}
    BY <1>0, <1>1, RegisteredIs
  <2>2. \A q : KeySaid(f, q) = key(q.verb, q.name, q.arg, "param")
    <3> TAKE q
    <3>1. KeySaid(f, q) = EndpointKey(q.verb, Path(q.name, "braces", q.arg))
      BY <1>1 DEF KeySaid
    <3> QED BY <3>1, KeyFacts
  <2>3. \A q : KeyShown(f, q) = key(q.verb, q.name, q.arg, IF f = "flask" THEN "converter" ELSE "param")
    <3> TAKE q
    <3>1. CASE f = "flask"
      <4>1. KeyShown(f, q) = EndpointKey(q.verb, Path(q.name, "converter", q.arg))
        BY <3>1 DEF KeyShown
      <4> QED BY <3>1, <4>1, KeyFacts
    <3>2. CASE f \in {"express", "gin"}
      <4>1. KeyShown(f, q) = EndpointKey(q.verb, Path(q.name, "colon", q.arg))
        BY <3>2 DEF KeyShown
      <4> QED BY <3>2, <4>1, KeyFacts
    <3>3. CASE f \in {"fastapi", "django"}
      BY <2>2, <3>3 DEF KeyShown
    <3> QED BY <2>1, <3>1, <3>2, <3>3
  <2> DEFINE styled == IF f = "flask" THEN "converter" ELSE "param"
  <2>4. /\ KeySaid(f, o) = key(o.verb, o.name, o.arg, "param") /\ KeySaid(f, p) = key(p.verb, p.name, p.arg, "param")
        /\ KeyShown(f, o) = key(o.verb, o.name, o.arg, styled) /\ KeyShown(f, p) = key(p.verb, p.name, p.arg, styled)
    BY <2>2, <2>3
  <2> HIDE DEF styled
  <2>5. /\ key(o.verb, o.name, o.arg, "param") = key(p.verb, p.name, p.arg, "param") => o.name = p.name
        /\ key(o.verb, o.name, o.arg, styled) = key(p.verb, p.name, p.arg, styled) => o.name = p.name
        /\ key(o.verb, o.name, o.arg, "param") = key(p.verb, p.name, p.arg, styled) <=>
              /\ o.verb = p.verb /\ o.name = p.name
              /\ (IF o.arg = "" THEN "plain" ELSE "param") = (IF p.arg = "" THEN "plain" ELSE styled)
    OBVIOUS
  <2> HIDE DEF key
  <2>7. KeySaid(f, o) = KeyShown(f, p) <=>
            o.verb = p.verb /\ o.name = p.name /\
            (IF o.arg = "" THEN "plain" ELSE "param") = (IF p.arg = "" THEN "plain" ELSE styled)
    BY <2>4, <2>5
  <2>6. /\ KeySaid(f, o) = KeySaid(f, p) => o.name = p.name
        /\ KeyShown(f, o) = KeyShown(f, p) => o.name = p.name
    BY <2>4, <2>5
  <2> QED BY <1>1, <2>6, <2>7 DEF styled, OneKey
<1>2. CASE Capability(f) # "web-api"
  <2>1. f \notin {"flask", "express", "gin"}
    BY <1>2, Capabilities
  <2>2. KeyShown(f, o) = KeySaid(f, o) /\ KeyShown(f, p) = KeySaid(f, p)
    BY <2>1 DEF KeyShown
  <2>3. KeySaid(f, o) = KeySaid(f, p) <=> o.name = p.name
    <3>1. \A n, m : NameKey(n) = NameKey(m) <=> n = m
      BY DEF NameKey, Path
    <3>2. \A n, m : LogKey(n, "start") = LogKey(m, "start") <=> n = m
      BY DEF LogKey, Path
    <3> QED BY <1>2, <3>1, <3>2 DEF KeySaid
  <2> QED BY <1>2, <2>1, <2>2, <2>3 DEF OneKey
<1> QED BY <1>1, <1>2

(* A framework is registered under its capability.                          *)
LEMMA FrameworkFacts ==
    ASSUME NEW f \in TheFrameworks
    PROVE  f \in ToSet(Registered[Capability(f)]) /\ Capability(f) \in DOMAIN Registered
BY OneCapability DEF TheFrameworks

-----------------------------------------------------------------------------
(* The specification's side.                                                *)

(* Nothing is skipped where no field has such a name.                       *)
LEMMA WithoutNone ==
    ASSUME NEW T, NEW fields, fields \in [DOMAIN fields -> T], NEW names, DOMAIN fields \cap names = {}
    PROVE  Without(fields, names) = fields
<1>1. DOMAIN fields \ names = DOMAIN fields
  OBVIOUS
<1> QED BY <1>1 DEF Without

(* Nothing is dropped.                                                      *)
LEMMA AllKept ==
    ASSUME NEW s, IsSeq(s)
    PROVE  IsSeq(At(s, DOMAIN s)) /\ ToSet(At(s, DOMAIN s)) = ToSet(s)
<1> DEFINE I == DOMAIN s
<1>1. I \in SUBSET DOMAIN s
  OBVIOUS
<1>2. ToSet(s) = {s[i] : i \in I}
  BY DEF ToSet
<1> HIDE DEF I
<1>3. IsSeq(At(s, I)) /\ ToSet(At(s, I)) = ToSet(s)
  BY <1>1, <1>2, AtFacts
<1> QED BY <1>3 DEF I

(* The specification, read by the extractor of any capability: the form of  *)
(* each of its operations and nothing else. The names a table takes for its *)
(* header or for a template's placeholder are not among the fields, and     *)
(* every one of the eight kinds of section is read back as it was written.  *)
LEMMA SpecSide ==
    ASSUME NEW f \in TheFrameworks, NEW ops \in Seq(Operations), \A o \in ToSet(ops) : Expressible(f, o),
           NEW items, items = ExtractSpec(Capability(f), Document(f, ops))
    PROVE  IsSeq(items) /\ ToSet(items) = {FormSaid(f, o) : o \in ToSet(ops)}
<1> DEFINE doc == Document(f, ops)
<1>0. /\ IsSeq(doc) /\ DOMAIN doc = DOMAIN ops /\ \A i \in DOMAIN doc : doc[i] = Section(f, ops[i]) /\ ops[i] \in Operations
      /\ ToSet(ops) \subseteq Operations /\ ToSet(doc) = {Section(f, o) : o \in ToSet(ops)}
      /\ \A o \in ToSet(ops) : Expressible(f, o)
  <2>1. IsSeq(ops) /\ \A i \in DOMAIN ops : ops[i] \in Operations
    BY SeqOfAny
  <2>2. doc = [i \in DOMAIN ops |-> Section(f, ops[i])]
    BY DEF Document
  <2>3. DOMAIN doc = DOMAIN ops /\ \A i \in DOMAIN doc : doc[i] = Section(f, ops[i])
    BY <2>2
  <2>4. IsSeq(doc)
    BY <2>1, <2>2, <2>3, MapFacts
  <2> HIDE DEF doc
  <2> QED BY <2>1, <2>3, <2>4 DEF ToSet
<1>00. items = ExtractSpec(Capability(f), doc)
  OBVIOUS
<1> HIDE DEF doc
<1>1. CASE Capability(f) = "data-pipeline"
  <2> DEFINE form(s) == Form(NameKey(s.name), SchemaRow(s.first), SchemaRow(s.second), "")
             kept == At(doc, {i \in DOMAIN doc : doc[i].name \notin PlaceholderNames})
  <2>1. ASSUME NEW i \in DOMAIN doc PROVE doc[i].name \notin PlaceholderNames
    <3>1. doc[i] = Section(f, ops[i]) /\ ops[i] \in Operations
      BY <1>0
    <3>2. doc[i].name = ops[i].name /\ doc[i].verb = IF Capability(f) = "logging" THEN "start" ELSE ops[i].verb
      BY <3>1 DEF Section
    <3>3. ops[i].name \notin PlaceholderNames \cup PlaceholderCommands /\ ops[i].name # "" /\ ops[i].verb # ""
      BY <3>1, OperationFacts
    <3> QED BY <1>1, <3>2, <3>3
  <2>2. kept = At(doc, DOMAIN doc)
    BY <2>1, Zenon
  <2>3. IsSeq(kept) /\ ToSet(kept) = ToSet(doc)
    BY <2>2, <1>0, AllKept
  <2>4. StageSections(doc) = [i \in DOMAIN kept |-> form(kept[i])]
    BY DEF StageSections, Kept
  <2>5. items = StageSections(doc)
    BY <1>1, <1>00 DEF ExtractSpec
  <2>6. ASSUME NEW o \in ToSet(ops) PROVE form(Section(f, o)) = FormSaid(f, o)
    <3>1. o \in Operations /\ Typed(o.first) /\ Typed(o.second)
      BY <1>1, <1>0 DEF Expressible
    <3>2. SchemaRow(o.first) = o.first /\ SchemaRow(o.second) = o.second
      <4>1. {m \in DOMAIN o.first : o.first[m] # ""} = DOMAIN o.first /\ {m \in DOMAIN o.second : o.second[m] # ""} = DOMAIN o.second
        BY <3>1 DEF Typed
      <4> QED BY <3>1, <4>1, OperationFacts DEF SchemaRow
    <3>3. form(Section(f, o)) = Form(NameKey(o.name), SchemaRow(o.first), SchemaRow(o.second), "")
      BY DEF Section
    <3> QED BY <1>1, <3>2, <3>3 DEF FormSaid, KeySaid, ScalarOf
  <2> HIDE DEF kept, form
  <2>7. IsSeq(items) /\ ToSet(items) = {form(s) : s \in ToSet(kept)}
    <3>1. items = [i \in DOMAIN kept |-> items[i]] /\ \A i \in DOMAIN kept : items[i] = form(kept[i])
      BY <2>4, <2>5
    <3>2. IsSeq(items) /\ DOMAIN items = DOMAIN kept
      BY <2>3, <3>1, MapFacts
    <3> QED BY <3>1, <3>2 DEF ToSet
  <2> QED BY <1>0, <2>3, <2>6, <2>7
<1>2. CASE Capability(f) = "web-api"
  <2> DEFINE form(s) == Form(EndpointKey(s.verb, s.path), FieldTable(s.first), FieldTable(s.second), "")
             kept == At(doc, {i \in DOMAIN doc : doc[i].verb # ""})
  <2>1. ASSUME NEW i \in DOMAIN doc PROVE doc[i].verb # ""
    <3>1. doc[i] = Section(f, ops[i]) /\ ops[i] \in Operations
      BY <1>0
    <3>2. doc[i].name = ops[i].name /\ doc[i].verb = IF Capability(f) = "logging" THEN "start" ELSE ops[i].verb
      BY <3>1 DEF Section
    <3>3. ops[i].name \notin PlaceholderNames \cup PlaceholderCommands /\ ops[i].name # "" /\ ops[i].verb # ""
      BY <3>1, OperationFacts
    <3> QED BY <1>2, <3>2, <3>3
  <2>2. kept = At(doc, DOMAIN doc)
    BY <2>1, Zenon
  <2>3. IsSeq(kept) /\ ToSet(kept) = ToSet(doc)
    BY <2>2, <1>0, AllKept
  <2>4. EndpointSections(doc) = [i \in DOMAIN kept |-> form(kept[i])]
    BY DEF EndpointSections, Kept
  <2>5. items = EndpointSections(doc)
    BY <1>2, <1>00 DEF ExtractSpec
  <2>6. ASSUME NEW o \in ToSet(ops) PROVE form(Section(f, o)) = FormSaid(f, o)
    <3>1. o \in Operations /\ DOMAIN o.first \cap FieldHeader = {} /\ DOMAIN o.second \cap FieldHeader = {}
      BY <1>2, <1>0 DEF Expressible, Header
    <3>2. FieldTable(o.first) = o.first /\ FieldTable(o.second) = o.second
      BY <3>1, OperationFacts, WithoutNone DEF FieldTable
    <3>3. form(Section(f, o)) = Form(EndpointKey(o.verb, Path(o.name, "braces", o.arg)), FieldTable(o.first), FieldTable(o.second), "")
      BY <1>2 DEF Section
    <3> QED BY <1>2, <3>2, <3>3 DEF FormSaid, KeySaid, ScalarOf
  <2> HIDE DEF kept, form
  <2>7. IsSeq(items) /\ ToSet(items) = {form(s) : s \in ToSet(kept)}
    <3>1. items = [i \in DOMAIN kept |-> items[i]] /\ \A i \in DOMAIN kept : items[i] = form(kept[i])
      BY <2>4, <2>5
    <3>2. IsSeq(items) /\ DOMAIN items = DOMAIN kept
      BY <2>3, <3>1, MapFacts
    <3> QED BY <3>1, <3>2 DEF ToSet
  <2> QED BY <1>0, <2>3, <2>6, <2>7
<1>3. CASE Capability(f) = "cli"
  <2> DEFINE form(s) == Form(NameKey(s.name), FlagTable(s.first), NoFields, "")
             kept == At(doc, {i \in DOMAIN doc : doc[i].name \notin PlaceholderCommands})
  <2>1. ASSUME NEW i \in DOMAIN doc PROVE doc[i].name \notin PlaceholderCommands
    <3>1. doc[i] = Section(f, ops[i]) /\ ops[i] \in Operations
      BY <1>0
    <3>2. doc[i].name = ops[i].name /\ doc[i].verb = IF Capability(f) = "logging" THEN "start" ELSE ops[i].verb
      BY <3>1 DEF Section
    <3>3. ops[i].name \notin PlaceholderNames \cup PlaceholderCommands /\ ops[i].name # "" /\ ops[i].verb # ""
      BY <3>1, OperationFacts
    <3> QED BY <1>3, <3>2, <3>3
  <2>2. kept = At(doc, DOMAIN doc)
    BY <2>1, Zenon
  <2>3. IsSeq(kept) /\ ToSet(kept) = ToSet(doc)
    BY <2>2, <1>0, AllKept
  <2>4. CommandSections(doc) = [i \in DOMAIN kept |-> form(kept[i])]
    BY DEF CommandSections, Kept
  <2>5. items = CommandSections(doc)
    BY <1>3, <1>00 DEF ExtractSpec
  <2>6. ASSUME NEW o \in ToSet(ops) PROVE form(Section(f, o)) = FormSaid(f, o)
    <3>1. o \in Operations /\ DOMAIN o.first \cap FlagHeader = {}
      BY <1>3, <1>0 DEF Expressible, Header
    <3>2. FlagTable(o.first) = o.first
      BY <3>1, OperationFacts, WithoutNone DEF FlagTable
    <3>3. form(Section(f, o)) = Form(NameKey(o.name), FlagTable(o.first), NoFields, "")
      BY <1>3 DEF Section
    <3> QED BY <1>3, <3>2, <3>3 DEF FormSaid, KeySaid, ScalarOf
  <2> HIDE DEF kept, form
  <2>7. IsSeq(items) /\ ToSet(items) = {form(s) : s \in ToSet(kept)}
    <3>1. items = [i \in DOMAIN kept |-> items[i]] /\ \A i \in DOMAIN kept : items[i] = form(kept[i])
      BY <2>4, <2>5
    <3>2. IsSeq(items) /\ DOMAIN items = DOMAIN kept
      BY <2>3, <3>1, MapFacts
    <3> QED BY <3>1, <3>2 DEF ToSet
  <2> QED BY <1>0, <2>3, <2>6, <2>7
<1>4. CASE Capability(f) = "library"
  <2> DEFINE form(s) == Form(NameKey(s.name), ParamsTable(s.first), NoFields, s.scalar)
  <2> DEFINE kept == doc
  <2>3. IsSeq(kept) /\ ToSet(kept) = ToSet(doc)
    BY <1>0
  <2>4. FunctionSections(doc) = [i \in DOMAIN kept |-> form(kept[i])]
    BY DEF FunctionSections
  <2>5. items = FunctionSections(doc)
    BY <1>4, <1>00 DEF ExtractSpec
  <2>6. ASSUME NEW o \in ToSet(ops) PROVE form(Section(f, o)) = FormSaid(f, o)
    <3>1. o \in Operations /\ DOMAIN o.first \cap ParamsHeader = {}
      BY <1>4, <1>0 DEF Expressible, Header
    <3>2. ParamsTable(o.first) = o.first
      BY <3>1, OperationFacts, WithoutNone DEF ParamsTable
    <3>3. form(Section(f, o)) = Form(NameKey(o.name), ParamsTable(o.first), NoFields, o.scalar)
      BY <1>4 DEF Section
    <3> QED BY <1>4, <3>2, <3>3 DEF FormSaid, KeySaid, ScalarOf
  <2> HIDE DEF kept, form
  <2>7. IsSeq(items) /\ ToSet(items) = {form(s) : s \in ToSet(kept)}
    <3>1. items = [i \in DOMAIN kept |-> items[i]] /\ \A i \in DOMAIN kept : items[i] = form(kept[i])
      BY <2>4, <2>5
    <3>2. IsSeq(items) /\ DOMAIN items = DOMAIN kept
      BY <2>3, <3>1, MapFacts
    <3> QED BY <3>1, <3>2 DEF ToSet
  <2> QED BY <1>0, <2>3, <2>6, <2>7
<1>5. CASE Capability(f) = "llm-app"
  <2> DEFINE form(s) == Form(NameKey(s.name), ParamsTable(s.first), NoFields, "")
  <2> DEFINE kept == doc
  <2>3. IsSeq(kept) /\ ToSet(kept) = ToSet(doc)
    BY <1>0
  <2>4. ToolSections(doc) = [i \in DOMAIN kept |-> form(kept[i])]
    BY DEF ToolSections
  <2>5. items = ToolSections(doc)
    BY <1>5, <1>00 DEF ExtractSpec
  <2>6. ASSUME NEW o \in ToSet(ops) PROVE form(Section(f, o)) = FormSaid(f, o)
    <3>1. o \in Operations /\ DOMAIN o.first \cap ParamsHeader = {}
      BY <1>5, <1>0 DEF Expressible, Header
    <3>2. ParamsTable(o.first) = o.first
      BY <3>1, OperationFacts, WithoutNone DEF ParamsTable
    <3>3. form(Section(f, o)) = Form(NameKey(o.name), ParamsTable(o.first), NoFields, "")
      BY <1>5 DEF Section
    <3> QED BY <1>5, <3>2, <3>3 DEF FormSaid, KeySaid, ScalarOf
  <2> HIDE DEF kept, form
  <2>7. IsSeq(items) /\ ToSet(items) = {form(s) : s \in ToSet(kept)}
    <3>1. items = [i \in DOMAIN kept |-> items[i]] /\ \A i \in DOMAIN kept : items[i] = form(kept[i])
      BY <2>4, <2>5
    <3>2. IsSeq(items) /\ DOMAIN items = DOMAIN kept
      BY <2>3, <3>1, MapFacts
    <3> QED BY <3>1, <3>2 DEF ToSet
  <2> QED BY <1>0, <2>3, <2>6, <2>7
<1>6. CASE Capability(f) = "iac"
  <2> DEFINE form(s) == Form(NameKey(s.name), ConfigTable(s.first), NoFields, "")
  <2> DEFINE kept == doc
  <2>3. IsSeq(kept) /\ ToSet(kept) = ToSet(doc)
    BY <1>0
  <2>4. ResourceSections(doc) = [i \in DOMAIN kept |-> form(kept[i])]
    BY DEF ResourceSections
  <2>5. items = ResourceSections(doc)
    BY <1>6, <1>00 DEF ExtractSpec
  <2>6. ASSUME NEW o \in ToSet(ops) PROVE form(Section(f, o)) = FormSaid(f, o)
    <3>1. o \in Operations /\ DOMAIN o.first \cap ConfigHeader = {}
      BY <1>6, <1>0 DEF Expressible, Header
    <3>2. ConfigTable(o.first) = Untyped(o.first)
      <4>1. DOMAIN o.first \ ConfigHeader = DOMAIN o.first
        BY <3>1
      <4> QED BY <4>1 DEF ConfigTable, Untyped
    <3>3. form(Section(f, o)) = Form(NameKey(o.name), ConfigTable(o.first), NoFields, "")
      BY DEF Section
    <3> QED BY <1>6, <3>2, <3>3 DEF FormSaid, KeySaid, ScalarOf
  <2> HIDE DEF kept, form
  <2>7. IsSeq(items) /\ ToSet(items) = {form(s) : s \in ToSet(kept)}
    <3>1. items = [i \in DOMAIN kept |-> items[i]] /\ \A i \in DOMAIN kept : items[i] = form(kept[i])
      BY <2>4, <2>5
    <3>2. IsSeq(items) /\ DOMAIN items = DOMAIN kept
      BY <2>3, <3>1, MapFacts
    <3> QED BY <3>1, <3>2 DEF ToSet
  <2> QED BY <1>0, <2>3, <2>6, <2>7
<1>7. CASE Capability(f) = "mobile"
  <2> DEFINE form(s) == Form(NameKey(s.name), PropsTable(s.first), NoFields, "")
  <2> DEFINE kept == doc
  <2>3. IsSeq(kept) /\ ToSet(kept) = ToSet(doc)
    BY <1>0
  <2>4. ScreenSections(doc) = [i \in DOMAIN kept |-> form(kept[i])]
    BY DEF ScreenSections
  <2>5. items = ScreenSections(doc)
    BY <1>7, <1>00 DEF ExtractSpec
  <2>6. ASSUME NEW o \in ToSet(ops) PROVE form(Section(f, o)) = FormSaid(f, o)
    <3>1. o \in Operations /\ DOMAIN o.first \cap PropsHeader = {}
      BY <1>7, <1>0 DEF Expressible, Header
    <3>2. PropsTable(o.first) = o.first
      BY <3>1, OperationFacts, WithoutNone DEF PropsTable
    <3>3. form(Section(f, o)) = Form(NameKey(o.name), PropsTable(o.first), NoFields, "")
      BY <1>7 DEF Section
    <3> QED BY <1>7, <3>2, <3>3 DEF FormSaid, KeySaid, ScalarOf
  <2> HIDE DEF kept, form
  <2>7. IsSeq(items) /\ ToSet(items) = {form(s) : s \in ToSet(kept)}
    <3>1. items = [i \in DOMAIN kept |-> items[i]] /\ \A i \in DOMAIN kept : items[i] = form(kept[i])
      BY <2>4, <2>5
    <3>2. IsSeq(items) /\ DOMAIN items = DOMAIN kept
      BY <2>3, <3>1, MapFacts
    <3> QED BY <3>1, <3>2 DEF ToSet
  <2> QED BY <1>0, <2>3, <2>6, <2>7
<1>8. CASE Capability(f) = "logging"
  <2> DEFINE form(s) == Form(LogKey(s.name, s.verb), NoFields, NoFields, s.scalar)
             kept == At(doc, {i \in DOMAIN doc : doc[i].name # "" /\ doc[i].verb # ""})
  <2>1. ASSUME NEW i \in DOMAIN doc PROVE doc[i].name # "" /\ doc[i].verb # ""
    <3>1. doc[i] = Section(f, ops[i]) /\ ops[i] \in Operations
      BY <1>0
    <3>2. doc[i].name = ops[i].name /\ doc[i].verb = IF Capability(f) = "logging" THEN "start" ELSE ops[i].verb
      BY <3>1 DEF Section
    <3>3. ops[i].name \notin PlaceholderNames \cup PlaceholderCommands /\ ops[i].name # "" /\ ops[i].verb # ""
      BY <3>1, OperationFacts
    <3> QED BY <1>8, <3>2, <3>3
  <2>2. kept = At(doc, DOMAIN doc)
    BY <2>1, Zenon
  <2>3. IsSeq(kept) /\ ToSet(kept) = ToSet(doc)
    BY <2>2, <1>0, AllKept
  <2>4. LogRows(doc) = [i \in DOMAIN kept |-> form(kept[i])]
    BY DEF LogRows, Kept
  <2>5. items = LogRows(doc)
    BY <1>8, <1>00 DEF ExtractSpec
  <2>6. ASSUME NEW o \in ToSet(ops) PROVE form(Section(f, o)) = FormSaid(f, o)
    <3>1. form(Section(f, o)) = Form(LogKey(o.name, "start"), NoFields, NoFields, Level(o))
      BY <1>8 DEF Section
    <3> QED BY <1>8, <3>1 DEF FormSaid, KeySaid, ScalarOf
  <2> HIDE DEF kept, form
  <2>7. IsSeq(items) /\ ToSet(items) = {form(s) : s \in ToSet(kept)}
    <3>1. items = [i \in DOMAIN kept |-> items[i]] /\ \A i \in DOMAIN kept : items[i] = form(kept[i])
      BY <2>4, <2>5
    <3>2. IsSeq(items) /\ DOMAIN items = DOMAIN kept
      BY <2>3, <3>1, MapFacts
    <3> QED BY <3>1, <3>2 DEF ToSet
  <2> QED BY <1>0, <2>3, <2>6, <2>7
<1> QED BY <1>1, <1>2, <1>3, <1>4, <1>5, <1>6, <1>7, <1>8, FrameworkFacts, RegisteredIs

-----------------------------------------------------------------------------
(* The comparison.                                                          *)

(* The fields _field_mismatches reports: there are none exactly if both     *)
(* sides have the same fields and the types do not differ.                  *)
LEMMA MismatchedIs ==
    ASSUME NEW s, NEW c
    PROVE  Mismatched(s, c) = {} <=>
              /\ DOMAIN Fields(s) = DOMAIN Fields(c)
              /\ \A n \in DOMAIN Fields(s) : ~ Changed(Fields(s)[n], Fields(c)[n])
              /\ ~ Changed(s.scalar, c.scalar)
<1> DEFINE sf == Fields(s)
           cf == Fields(c)
           wrong == {n \in DOMAIN sf \cap DOMAIN cf : Changed(sf[n], cf[n])}
           ret == IF Changed(s.scalar, c.scalar) THEN {"return"} ELSE {}
<1>1. Mismatched(s, c) = (DOMAIN sf \ DOMAIN cf) \cup (DOMAIN cf \ DOMAIN sf) \cup wrong \cup ret
  BY DEF Mismatched
<1>2. ret = {} <=> ~ Changed(s.scalar, c.scalar)
  OBVIOUS
<1> HIDE DEF sf, cf, ret
<1>3. wrong = {} <=> \A n \in DOMAIN sf \cap DOMAIN cf : ~ Changed(sf[n], cf[n])
  OBVIOUS
<1> HIDE DEF wrong
<1>4. Mismatched(s, c) = {} <=> DOMAIN sf = DOMAIN cf /\ wrong = {} /\ ret = {}
  BY <1>1
<1>5. Mismatched(s, c) = {} <=> /\ DOMAIN sf = DOMAIN cf
                                /\ \A n \in DOMAIN sf : ~ Changed(sf[n], cf[n])
                                /\ ~ Changed(s.scalar, c.scalar)
  BY <1>2, <1>3, <1>4
<1> QED BY <1>5 DEF sf, cf

(* The two dictionaries of an item, merged: of two fields with one name the *)
(* second counts.                                                           *)
LEMMA FieldsAre ==
    ASSUME NEW x
    PROVE  /\ DOMAIN Fields(x) = DOMAIN x.first \cup DOMAIN x.second
           /\ \A n \in DOMAIN Fields(x) : Fields(x)[n] = IF n \in DOMAIN x.second THEN x.second[n] ELSE x.first[n]
BY DEF Fields

(* The merged fields of an operation are typed like those it has.           *)
LEMMA FieldsOfOperation ==
    ASSUME NEW o \in Operations
    PROVE  /\ \A n \in DOMAIN Fields(o) : Fields(o)[n] \in FieldTypes
           /\ Typed(o.first) /\ Typed(o.second) => \A n \in DOMAIN Fields(o) : Fields(o)[n] # ""
<1>1. /\ \A n \in DOMAIN o.first : o.first[n] \in FieldTypes
      /\ \A n \in DOMAIN o.second : o.second[n] \in FieldTypes
  BY OperationFacts
<1> QED BY <1>1, FieldsAre DEF Typed

(* The fields of the specification's form are those told.                   *)
LEMMA ToldIs ==
    ASSUME NEW f \in TheFrameworks, NEW o \in Operations
    PROVE  LET sf == Fields(FormSaid(f, o))
           IN  /\ DOMAIN sf = DOMAIN Told(f, o)
               /\ \A n \in DOMAIN sf : Told(f, o)[n] \in FieldTypes
               /\ ShowsTypes(f) => \A n \in DOMAIN sf : sf[n] = Told(f, o)[n]
               /\ ~ ShowsTypes(f) => \A n \in DOMAIN sf : sf[n] = "" \/ f = "react_native"
<1>1. DOMAIN NoFields = {}
  BY DEF NoFields
<1> DEFINE sf == Fields(FormSaid(f, o))
<1>2. CASE Capability(f) \in {"data-pipeline", "web-api"}
  <2>1. /\ DOMAIN sf = DOMAIN o.first \cup DOMAIN o.second
        /\ \A n \in DOMAIN sf : sf[n] = IF n \in DOMAIN o.second THEN o.second[n] ELSE o.first[n]
    <3> DEFINE x == FormSaid(f, o)
    <3>1. x.first = o.first /\ x.second = o.second
      BY <1>2 DEF FormSaid, Form
    <3> HIDE DEF x
    <3>2. /\ DOMAIN Fields(x) = DOMAIN o.first \cup DOMAIN o.second
          /\ \A n \in DOMAIN Fields(x) : Fields(x)[n] = IF n \in DOMAIN o.second THEN o.second[n] ELSE o.first[n]
      BY <3>1, FieldsAre
    <3> QED BY <3>2 DEF x
  <2>2. Told(f, o) = Fields(o)
    BY <1>2 DEF Told
  <2> HIDE DEF sf
  <2>3. ShowsTypes(f)
    BY <1>2, Capabilities DEF ShowsTypes
  <2> QED BY <2>1, <2>2, <2>3, FieldsOfOperation, FieldsAre DEF sf
<1>3. CASE Capability(f) = "logging"
  <2>1. DOMAIN sf = {}
    <3>1. FormSaid(f, o).first = NoFields /\ FormSaid(f, o).second = NoFields
      BY <1>3 DEF FormSaid, Form
    <3> QED BY <1>1, <3>1, FieldsAre
  <2>2. Told(f, o) = NoFields
    BY <1>3 DEF Told
  <2> QED BY <1>1, <2>1, <2>2
<1>4. CASE Capability(f) = "iac"
  <2>1. /\ DOMAIN sf = DOMAIN Untyped(o.first)
        /\ \A n \in DOMAIN sf : sf[n] = Untyped(o.first)[n]
    <3>1. FormSaid(f, o).first = Untyped(o.first) /\ FormSaid(f, o).second = NoFields
      BY <1>4 DEF FormSaid, Form
    <3> QED BY <1>1, <3>1, FieldsAre
  <2>2. Told(f, o) = o.first
    BY <1>4 DEF Told
  <2> HIDE DEF sf
  <2>3. DOMAIN Untyped(o.first) = DOMAIN o.first /\ \A n \in DOMAIN o.first : Untyped(o.first)[n] = ""
    BY DEF Untyped
  <2>4. ~ ShowsTypes(f)
    BY <1>4 DEF ShowsTypes
  <2> QED BY <2>1, <2>2, <2>3, <2>4, OperationFacts DEF sf
<1>5. CASE Capability(f) \notin {"data-pipeline", "web-api", "logging", "iac"}
  <2>1. /\ DOMAIN sf = DOMAIN o.first
        /\ \A n \in DOMAIN sf : sf[n] = o.first[n]
    <3>1. FormSaid(f, o).first = o.first /\ FormSaid(f, o).second = NoFields
      BY <1>5 DEF FormSaid, Form
    <3> QED BY <1>1, <3>1, FieldsAre
  <2>2. Told(f, o) = o.first
    BY <1>5 DEF Told
  <2> HIDE DEF sf
  <2>3. ShowsTypes(f) \/ f = "react_native"
    BY <1>5 DEF ShowsTypes
  <2> QED BY <2>1, <2>2, <2>3, OperationFacts DEF sf
<1> QED BY <1>2, <1>3, <1>4, <1>5

(* The fields of the code's form are those shown.                           *)
LEMMA ShownIs ==
    ASSUME NEW f \in TheFrameworks, NEW p \in Operations
    PROVE  LET cf == Fields(FormShown(f, p))
           IN  /\ DOMAIN cf = DOMAIN Shown(f, p)
               /\ \A n \in DOMAIN cf : Shown(f, p)[n] \in FieldTypes
               /\ f \in {"click", "typer", "luigi"} \/ ~ ShowsTypes(f) =>
                     /\ Shown(f, p) = p.first
                     /\ \A n \in DOMAIN cf : cf[n] = SeenType(f, p.first[n])
               /\ f \notin {"click", "typer", "luigi"} /\ ShowsTypes(f) => \A n \in DOMAIN cf : cf[n] = Shown(f, p)[n]
<1>1. DOMAIN NoFields = {}
  BY DEF NoFields
<1> DEFINE cf == Fields(FormShown(f, p))
           seen == [n \in DOMAIN p.first |-> SeenType(f, p.first[n])]
<1>2. DOMAIN seen = DOMAIN p.first /\ \A n \in DOMAIN p.first : seen[n] = SeenType(f, p.first[n])
  OBVIOUS
<1>3. FormShown(f, p) =
        Form(KeyShown(f, p), IF f = "express" \/ Capability(f) = "logging" THEN NoFields ELSE seen,
             IF f \in ShowsSecond THEN p.second ELSE NoFields, ScalarOf(f, p))
  BY DEF FormShown
<1> HIDE DEF seen
<1>4. f \in ShowsSecond => f # "express" /\ Capability(f) \in {"data-pipeline", "web-api"}
                              /\ f \notin {"click", "typer", "luigi"} /\ ShowsTypes(f)
  BY Capabilities DEF ShowsSecond, Stagelike, ShowsTypes
<1>5. CASE f \in ShowsSecond
  <2>1. FormShown(f, p) = Form(KeyShown(f, p), seen, p.second, ScalarOf(f, p))
    BY <1>3, <1>4, <1>5
  <2>2. /\ DOMAIN cf = DOMAIN p.first \cup DOMAIN p.second
        /\ \A n \in DOMAIN cf : cf[n] = IF n \in DOMAIN p.second THEN p.second[n] ELSE seen[n]
    <3>1. FormShown(f, p).first = seen /\ FormShown(f, p).second = p.second
      BY <2>1 DEF Form
    <3> QED BY <1>2, <3>1, FieldsAre
  <2>3. Shown(f, p) = Fields(p)
    BY <1>4, <1>5 DEF Shown
  <2>4. \A n \in DOMAIN p.first : seen[n] = p.first[n]
    BY <1>2, <1>4, <1>5 DEF SeenType
  <2> HIDE DEF cf
  <2>5. DOMAIN cf = DOMAIN Shown(f, p) /\ \A n \in DOMAIN cf : cf[n] = Shown(f, p)[n] /\ Shown(f, p)[n] \in FieldTypes
    <3>1. DOMAIN Fields(p) = DOMAIN p.first \cup DOMAIN p.second
      BY FieldsAre
    <3>2. \A n \in DOMAIN cf : cf[n] = Fields(p)[n]
      BY <2>2, <2>4, <3>1, FieldsAre
    <3> QED BY <2>2, <2>3, <3>1, <3>2, FieldsOfOperation
  <2> QED BY <1>4, <1>5, <2>5 DEF cf
<1>6. CASE f = "express" \/ Capability(f) = "logging"
  <2>1. FormShown(f, p) = Form(KeyShown(f, p), NoFields, NoFields, ScalarOf(f, p))
    BY <1>3, <1>4, <1>6
  <2>2. DOMAIN cf = {}
    <3>1. FormShown(f, p).first = NoFields /\ FormShown(f, p).second = NoFields
      BY <2>1 DEF Form
    <3> QED BY <1>1, <3>1, FieldsAre
  <2>3. Shown(f, p) = NoFields
    BY <1>4, <1>6 DEF Shown
  <2>4. f \notin {"click", "typer", "luigi"} /\ ShowsTypes(f)
    BY <1>6, Capabilities DEF ShowsTypes
  <2> QED BY <1>1, <2>2, <2>3, <2>4
<1>7. CASE f \notin ShowsSecond /\ ~ (f = "express" \/ Capability(f) = "logging")
  <2>1. FormShown(f, p) = Form(KeyShown(f, p), seen, NoFields, ScalarOf(f, p))
    BY <1>3, <1>7
  <2>2. DOMAIN cf = DOMAIN p.first /\ \A n \in DOMAIN cf : cf[n] = SeenType(f, p.first[n])
    <3>1. FormShown(f, p).first = seen /\ FormShown(f, p).second = NoFields
      BY <2>1 DEF Form
    <3> QED BY <1>1, <1>2, <3>1, FieldsAre
  <2>3. Shown(f, p) = p.first
    BY <1>7 DEF Shown
  <2> HIDE DEF cf
  <2>4. f \notin {"click", "typer", "luigi"} /\ ShowsTypes(f) => \A t : SeenType(f, t) = t
    BY DEF SeenType
  <2> QED BY <2>2, <2>3, <2>4, OperationFacts DEF cf
<1> QED BY <1>5, <1>6, <1>7

(* What a comparison of the two forms finds is what the operations differ   *)
(* in, of what the framework's code shows.                                  *)
LEMMA FormsCompare ==
    ASSUME NEW f \in TheFrameworks, NEW o \in Operations, NEW p \in Operations, Expressible(f, o), Expressible(f, p)
    PROVE  LET same == /\ SameFields(ShowsTypes(f), Told(f, o), Shown(f, p))
                       /\ Capability(f) = "library" => SameType(o.scalar, p.scalar)
                       /\ Capability(f) = "logging" => Level(o) = Level(p)
           IN  /\ Mismatched(FormSaid(f, o), FormShown(f, p)) = {} => same
               /\ same /\ (Capability(f) = "cli" => Typed(p.first)) => Mismatched(FormSaid(f, o), FormShown(f, p)) = {}
<1> DEFINE sf == Fields(FormSaid(f, o))
           cf == Fields(FormShown(f, p))
           told == Told(f, o)
           shown == Shown(f, p)
           scalars == /\ Capability(f) = "library" => SameType(o.scalar, p.scalar)
                      /\ Capability(f) = "logging" => Level(o) = Level(p)
<1>1. FormSaid(f, o).scalar = ScalarOf(f, o) /\ FormShown(f, p).scalar = ScalarOf(f, p)
  BY DEF FormSaid, FormShown, Form
<1>2. ~ Changed(ScalarOf(f, o), ScalarOf(f, p)) <=> scalars
  <2>1. CASE Capability(f) = "library"
    BY <2>1, TypeFacts, OperationFacts DEF ScalarOf
  <2>2. CASE Capability(f) = "logging"
    <3>1. Level(o) \in {"info", "error"} /\ Level(p) \in {"info", "error"}
      BY DEF Level
    <3> QED BY <2>2, <3>1, TypeFacts DEF ScalarOf
  <2>3. CASE Capability(f) \notin {"library", "logging"}
    BY <2>3, TypeFacts DEF ScalarOf
  <2> QED BY <2>1, <2>2, <2>3
<1>3. Mismatched(FormSaid(f, o), FormShown(f, p)) = {} <=>
          DOMAIN sf = DOMAIN cf /\ (\A n \in DOMAIN sf : ~ Changed(sf[n], cf[n])) /\ scalars
  BY <1>1, <1>2, MismatchedIs
<1>4. /\ DOMAIN sf = DOMAIN told /\ DOMAIN cf = DOMAIN shown
      /\ \A n \in DOMAIN sf : told[n] \in FieldTypes
      /\ \A n \in DOMAIN cf : shown[n] \in FieldTypes
  BY ToldIs, ShownIs
<1>5. CASE ~ ShowsTypes(f)
  <2>1. \A n \in DOMAIN cf : cf[n] = ""
    <3>1. f \notin {"click", "typer", "luigi"}
      BY <1>5, Capabilities DEF ShowsTypes
    <3>2. \A t : SeenType(f, t) = ""
      BY <1>5, <3>1 DEF SeenType
    <3> QED BY <1>5, <3>2, ShownIs
  <2> HIDE DEF sf, cf, told, shown
  <2>2. DOMAIN sf = DOMAIN cf => \A n \in DOMAIN sf : ~ Changed(sf[n], cf[n])
    BY <2>1 DEF Changed
  <2>3. SameFields(ShowsTypes(f), told, shown) <=> DOMAIN told = DOMAIN shown
    BY <1>5 DEF SameFields
  <2> QED BY <1>3, <1>4, <2>2, <2>3 DEF told, shown
<1>6. CASE ShowsTypes(f)
  <2>1. \A n \in DOMAIN sf : sf[n] = told[n]
    BY <1>6, ToldIs
  <2>2. SameFields(ShowsTypes(f), told, shown) <=>
            DOMAIN told = DOMAIN shown /\ \A n \in DOMAIN told : SameType(told[n], shown[n])
    BY <1>6 DEF SameFields
  <2>3. CASE f \notin {"click", "typer", "luigi"}
    <3>1. \A n \in DOMAIN cf : cf[n] = shown[n]
      BY <1>6, <2>3, ShownIs
    <3> HIDE DEF sf, cf, told, shown, scalars
    <3>2. DOMAIN sf = DOMAIN cf => \A n \in DOMAIN sf : Changed(sf[n], cf[n]) <=> ~ SameType(told[n], shown[n])
      BY <1>4, <2>1, <3>1, TypeFacts
    <3> QED BY <1>3, <1>4, <2>2, <3>2 DEF told, shown, scalars
  <2>4. CASE f \in {"click", "typer", "luigi"}
    <3>1. shown = p.first /\ \A n \in DOMAIN cf : cf[n] = SeenType(f, shown[n])
      BY <2>4, ShownIs
    <3>2. \A t, u \in FieldTypes : SameType(t, SeenType(f, u)) => SameType(t, u)
      <4>1. CASE f = "luigi"
        BY <1>6, <4>1 DEF SeenType, SameType, FieldTypes
      <4>2. CASE f # "luigi"
        <5>1. \A u : SeenType(f, u) = IF u = "" THEN "str" ELSE u
          BY <1>6, <2>4, <4>2 DEF SeenType
        <5> QED BY <5>1 DEF SameType
      <4> QED BY <4>1, <4>2
    <3>3. \A t, u \in FieldTypes : u # "" /\ SameType(t, u) => SameType(t, SeenType(f, u))
      <4>1. CASE f = "luigi"
        BY <1>6, <4>1 DEF SeenType, SameType, FieldTypes
      <4>2. CASE f # "luigi"
        <5>1. \A u : SeenType(f, u) = IF u = "" THEN "str" ELSE u
          BY <1>6, <2>4, <4>2 DEF SeenType
        <5> QED BY <5>1
      <4> QED BY <4>1, <4>2
    <3>4. \A u \in FieldTypes : SeenType(f, u) \in FieldTypes
      BY <2>4 DEF SeenType, FieldTypes
    <3>5. f = "luigi" => Typed(p.first)
      BY Capabilities DEF Expressible
    <3>6. f \in {"click", "typer"} => Capability(f) = "cli"
      BY Capabilities
    <3> HIDE DEF sf, cf, told, scalars
    <3>7. DOMAIN sf = DOMAIN cf => \A n \in DOMAIN sf : ~ Changed(sf[n], cf[n]) => SameType(told[n], shown[n])
      BY <1>4, <2>1, <3>1, <3>2, <3>4, TypeFacts
    <3>8. DOMAIN sf = DOMAIN cf /\ Typed(p.first) => \A n \in DOMAIN sf : SameType(told[n], shown[n]) => ~ Changed(sf[n], cf[n])
      <4> SUFFICES ASSUME DOMAIN sf = DOMAIN cf, Typed(p.first), NEW n \in DOMAIN sf, SameType(told[n], shown[n])
                   PROVE  ~ Changed(sf[n], cf[n])
        OBVIOUS
      <4>1. shown[n] # ""
        BY <1>4, <3>1 DEF Typed
      <4>2. SameType(told[n], SeenType(f, shown[n]))
        BY <1>4, <3>3, <4>1
      <4> QED BY <1>4, <2>1, <3>1, <3>4, <4>2, TypeFacts
    <3> HIDE DEF shown
    <3> QED BY <1>3, <1>4, <2>2, <2>4, <3>5, <3>6, <3>7, <3>8 DEF told, shown, scalars
  <2> QED BY <2>3, <2>4
<1> QED BY <1>5, <1>6

-----------------------------------------------------------------------------
(* The code's side: what is written.                                        *)

(* Declarations put into a file.                                            *)
LEMMA WithFile ==
    ASSUME NEW decls, IsSeq(decls), NEW i
    PROVE  IsSeq(InFile(i, decls)) /\ ToSet(InFile(i, decls)) = {[e EXCEPT !.file = i] : e \in ToSet(decls)}
<1> DEFINE m == InFile(i, decls)
<1>1. m = [j \in DOMAIN decls |-> m[j]] /\ \A j \in DOMAIN decls : m[j] = [decls[j] EXCEPT !.file = i]
  BY DEF InFile
<1> HIDE DEF m
<1>2. IsSeq(m) /\ DOMAIN m = DOMAIN decls
  BY <1>1, MapFacts
<1>3. ToSet(m) = {[e EXCEPT !.file = i] : e \in ToSet(decls)}
  BY <1>1, <1>2 DEF ToSet
<1> QED BY <1>2, <1>3 DEF m

(* The declarations of a source: those of each operation, in its file.      *)
LEMMA SourceFacts ==
    ASSUME NEW f, NEW ops \in Seq(Operations), \A o \in ToSet(ops) : IsSeq(WrittenIn(f, o))
    PROVE  /\ IsSeq(Source(f, ops))
           /\ \A d : d \in ToSet(Source(f, ops)) <=>
                 \E i \in DOMAIN ops : \E e \in ToSet(WrittenIn(f, ops[i])) : d = [e EXCEPT !.file = i]
<1> DEFINE ss == [i \in DOMAIN ops |-> InFile(i, WrittenIn(f, ops[i]))]
<1>1. IsSeq(ops) /\ \A i \in DOMAIN ops : ops[i] \in ToSet(ops)
  BY SeqOfAny DEF ToSet
<1>2. ss = [i \in DOMAIN ops |-> ss[i]] /\ \A i \in DOMAIN ops : ss[i] = InFile(i, WrittenIn(f, ops[i]))
  OBVIOUS
<1>3. Source(f, ops) = FlattenSeq(ss)
  BY DEF Source
<1> HIDE DEF ss
<1>4. IsSeq(ss) /\ DOMAIN ss = DOMAIN ops
  BY <1>1, <1>2, MapFacts
<1>5. \A i \in DOMAIN ops : IsSeq(ss[i]) /\ ToSet(ss[i]) = {[e EXCEPT !.file = i] : e \in ToSet(WrittenIn(f, ops[i]))}
  BY <1>1, <1>2, WithFile
<1>6. IsSeq(Source(f, ops)) /\ ToSet(Source(f, ops)) = UNION {ToSet(ss[i]) : i \in DOMAIN ss}
  BY <1>3, <1>4, <1>5, FlattenFacts
<1>7. ASSUME NEW d PROVE d \in ToSet(Source(f, ops)) <=> \E i \in DOMAIN ops : d \in ToSet(ss[i])
  BY <1>4, <1>6
<1>8. ASSUME NEW d, NEW i \in DOMAIN ops
      PROVE  d \in ToSet(ss[i]) <=> \E e \in ToSet(WrittenIn(f, ops[i])) : d = [e EXCEPT !.file = i]
  BY <1>5
<1> QED BY <1>6, <1>7, <1>8

(* What a declaration says, wherever it stands.                             *)
Says(d, kind, lang, name, owner, params, returns, names, tags, path) ==
    /\ d.kind = kind /\ d.lang = lang /\ d.name = name /\ d.owner = owner /\ d.params = params
    /\ d.returns = returns /\ d.names = names /\ d.tags = tags /\ d.path = path
    /\ d.async = FALSE /\ d.aliases = NoFields /\ d.doc = NoFields /\ d.count = 1 /\ "file" \in DOMAIN d

(* The path of a declaration that is no route.                              *)
NoPath == Path("", "plain", "")

(* The decorators of an operation's function.                               *)
TagsWritten(f, o) ==
    CASE f = "airflow" -> <<Tag("task", FALSE, FALSE, "")>>
      [] f = "dagster" -> <<Tag("op", FALSE, FALSE, "")>>
      [] f = "prefect" -> <<Tag("task", FALSE, TRUE, "")>>
      [] f = "fastapi" -> <<[Tag(o.verb, TRUE, TRUE, "") EXCEPT !.path = Route(f, o)]>>
      [] f = "flask" -> <<[Tag("route", TRUE, TRUE, "") EXCEPT !.path = Route(f, o), !.verbs = {o.verb}]>>
      [] f = "django" -> <<[Tag("api_view", FALSE, TRUE, "") EXCEPT !.verbs = {o.verb}]>>
      [] f = "typer" -> <<Tag("command", TRUE, TRUE, o.name)>>
      [] f = "langchain" -> <<Tag("tool", FALSE, FALSE, "")>>
      [] f \in {"python_library", "tool_schema"} -> <<>>

(* The frameworks whose operations are Python functions, decorated.         *)
Defined == {"airflow", "dagster", "prefect", "fastapi", "flask", "typer", "langchain", "python_library", "tool_schema"}

(* d is the function of o.                                                  *)
IsDef(d, o, tags) ==
    Says(d, "def", "py", o.name, "", o.first, o.scalar, {}, tags, NoPath) /\ d.literal = o.second

(* In these an operation is one function.                                   *)
LEMMA DefWritten ==
    ASSUME NEW f \in Defined, NEW o
    PROVE  /\ \E e : WrittenIn(f, o) = <<e>> /\ \A i : IsDef([e EXCEPT !.file = i], o, TagsWritten(f, o))
<1> DEFINE e == [PythonDef(o) EXCEPT !.tags = TagsWritten(f, o)]
<1>1. \A i : IsDef([e EXCEPT !.file = i], o, TagsWritten(f, o))
  BY DEF IsDef, Says, PythonDef, Blank, NoPath
<1>2. WrittenIn(f, o) = <<e>>
  <2>1. CASE f \in {"python_library", "tool_schema"}
    <3>1. WrittenIn(f, o) = <<PythonDef(o)>> /\ TagsWritten(f, o) = <<>>
      BY <2>1 DEF WrittenIn, TagsWritten
    <3>2. [PythonDef(o) EXCEPT !.tags = <<>>] = PythonDef(o)
      <4> DEFINE r == PythonDef(o)
      <4>1. r.tags = <<>>
        BY DEF PythonDef, Blank
      <4>3. r = [x \in DOMAIN r |-> r[x]]
        BY DEF PythonDef
      <4> HIDE DEF r
      <4>2. [r EXCEPT !.tags = <<>>] = r
        BY <4>1, <4>3
      <4> QED BY <4>2 DEF r
    <3> QED BY <3>1, <3>2
  <2>2. CASE f \notin {"python_library", "tool_schema"}
    <3>1. WrittenIn(f, o) = <<Decorated(o, TagsWritten(f, o))>>
      BY <2>2 DEF WrittenIn, TagsWritten, Defined
    <3> QED BY <3>1 DEF Decorated
  <2> QED BY <2>1, <2>2
<1> QED BY <1>1, <1>2

(* What is written of an operation, where items are read from.              *)
WrittenAs(f, d, o) ==
    CASE f \in Defined -> IsDef(d, o, TagsWritten(f, o))
      [] f = "luigi" ->
            Says(d, "class", "py", o.name, "", [n \in DOMAIN o.first |-> IF o.first[n] = "int" THEN "IntParameter" ELSE "Parameter"],
                 "", {"Task"}, <<>>, NoPath)
      [] f = "express" -> Says(d, "route", "js", "", "app", NoFields, o.verb, {}, <<>>, Route(f, o))
      [] f = "click" ->
            Says(d, "def", "py", o.name, "", Untyped(o.first), "", {}, <<Tag("command", TRUE, TRUE, "")>> \o Options(o), NoPath)
      [] f = "terraform" -> Says(d, "block", "tf", o.name, "", o.first, "", {}, <<>>, NoPath)
      [] f = "pulumi" -> Says(d, "assign", "py", o.name, "", o.first, "", {}, <<>>, NoPath)
      [] f = "ansible" -> Says(d, "task", "yml", o.name, "", o.first, "", {}, <<>>, NoPath)
      [] f = "react_native" -> Says(d, "component", "tsx", o.name, "", o.first, "", {}, <<>>, NoPath)
      [] f = "flutter" -> Says(d, "class", "dart", o.name, "", o.first, "", {"StatelessWidget"}, <<>>, NoPath)
      [] f = "swiftui" -> Says(d, "struct", "swift", o.name, "", o.first, "", {"View"}, <<>>, NoPath)
      [] f = "python_logging" -> Says(d, "log", "py", o.name, "start", NoFields, Level(o), {}, <<>>, NoPath)
      [] f = "javascript_logging" -> Says(d, "log", "js", o.name, "start", NoFields, Level(o), {}, <<>>, NoPath)
      [] f = "django" -> IsDef(d, o, TagsWritten(f, o))
      [] f = "gin" -> Says(d, "route", "go", o.name, "", NoFields, o.verb, {}, <<>>, Route(f, o))
      [] f = "typescript" -> Says(d, "function", "ts", o.name, "", o.first, o.scalar, {}, <<>>, NoPath)

(* The frameworks in which one declaration is all there is.                 *)
Single == Defined \cup {"luigi", "express", "click", "terraform", "pulumi", "ansible", "react_native", "flutter",
                        "swiftui", "python_logging", "javascript_logging"}

(* In these an operation is one declaration.                                *)
LEMMA SingleWritten ==
    ASSUME NEW f \in Single, NEW o
    PROVE  \E e : WrittenIn(f, o) = <<e>> /\ \A i : WrittenAs(f, [e EXCEPT !.file = i], o)
<1>1. CASE f \in Defined
  <2>1. \A d : WrittenAs(f, d, o) = IsDef(d, o, TagsWritten(f, o))
    BY <1>1 DEF WrittenAs, Defined
  <2> QED BY <1>1, <2>1, DefWritten
<1>2. CASE f = "luigi"
  <2> DEFINE e == [Blank EXCEPT !.kind = "class", !.name = o.name, !.names = {"Task"}, !.params = [n \in DOMAIN o.first |-> IF o.first[n] = "int" THEN "IntParameter" ELSE "Parameter"]]
  <2>1. WrittenIn(f, o) = <<e>>
    BY <1>2 DEF WrittenIn
  <2>2. \A i : WrittenAs(f, [e EXCEPT !.file = i], o)
    BY <1>2 DEF WrittenAs, Says, Blank, NoPath, Defined
  <2> QED BY <2>1, <2>2
<1>3. CASE f = "express"
  <2> DEFINE e == [Blank EXCEPT !.kind = "route", !.lang = "js", !.owner = "app", !.returns = o.verb, !.path = Route(f, o)]
  <2>1. WrittenIn(f, o) = <<e>>
    BY <1>3 DEF WrittenIn
  <2>2. \A i : WrittenAs(f, [e EXCEPT !.file = i], o)
    BY <1>3 DEF WrittenAs, Says, Blank, NoPath, Defined
  <2> QED BY <2>1, <2>2
<1>4. CASE f = "click"
  <2> DEFINE tags == <<Tag("command", TRUE, TRUE, "")>> \o Options(o)
             e == [Blank EXCEPT !.name = o.name, !.tags = tags, !.params = Untyped(o.first)]
  <2>1. WrittenIn(f, o) = <<e>>
    BY <1>4 DEF WrittenIn, Untyped
  <2>2. \A d : WrittenAs(f, d, o) = Says(d, "def", "py", o.name, "", Untyped(o.first), "", {}, tags, NoPath)
    BY <1>4 DEF WrittenAs, Defined
  <2> HIDE DEF tags
  <2>3. \A i : Says([e EXCEPT !.file = i], "def", "py", o.name, "", Untyped(o.first), "", {}, tags, NoPath)
    BY DEF Says, Blank, NoPath
  <2> QED BY <2>1, <2>2, <2>3
<1>5. CASE f = "terraform"
  <2> DEFINE e == [Blank EXCEPT !.kind = "block", !.lang = "tf", !.name = o.name, !.params = o.first]
  <2>1. WrittenIn(f, o) = <<e>>
    BY <1>5 DEF WrittenIn
  <2>2. \A i : WrittenAs(f, [e EXCEPT !.file = i], o)
    BY <1>5 DEF WrittenAs, Says, Blank, NoPath, Defined
  <2> QED BY <2>1, <2>2
<1>6. CASE f = "pulumi"
  <2> DEFINE e == [Blank EXCEPT !.kind = "assign", !.name = o.name, !.params = o.first]
  <2>1. WrittenIn(f, o) = <<e>>
    BY <1>6 DEF WrittenIn
  <2>2. \A i : WrittenAs(f, [e EXCEPT !.file = i], o)
    BY <1>6 DEF WrittenAs, Says, Blank, NoPath, Defined
  <2> QED BY <2>1, <2>2
<1>7. CASE f = "ansible"
  <2> DEFINE e == [Blank EXCEPT !.kind = "task", !.lang = "yml", !.name = o.name, !.params = o.first]
  <2>1. WrittenIn(f, o) = <<e>>
    BY <1>7 DEF WrittenIn
  <2>2. \A i : WrittenAs(f, [e EXCEPT !.file = i], o)
    BY <1>7 DEF WrittenAs, Says, Blank, NoPath, Defined
  <2> QED BY <2>1, <2>2
<1>8. CASE f = "react_native"
  <2> DEFINE e == [Blank EXCEPT !.kind = "component", !.lang = "tsx", !.name = o.name, !.params = o.first]
  <2>1. WrittenIn(f, o) = <<e>>
    BY <1>8 DEF WrittenIn
  <2>2. \A i : WrittenAs(f, [e EXCEPT !.file = i], o)
    BY <1>8 DEF WrittenAs, Says, Blank, NoPath, Defined
  <2> QED BY <2>1, <2>2
<1>9. CASE f = "flutter"
  <2> DEFINE e == [Blank EXCEPT !.kind = "class", !.lang = "dart", !.name = o.name, !.names = {"StatelessWidget"}, !.params = o.first]
  <2>1. WrittenIn(f, o) = <<e>>
    BY <1>9 DEF WrittenIn
  <2>2. \A i : WrittenAs(f, [e EXCEPT !.file = i], o)
    BY <1>9 DEF WrittenAs, Says, Blank, NoPath, Defined
  <2> QED BY <2>1, <2>2
<1>10. CASE f = "swiftui"
  <2> DEFINE e == [Blank EXCEPT !.kind = "struct", !.lang = "swift", !.name = o.name, !.names = {"View"}, !.params = o.first]
  <2>1. WrittenIn(f, o) = <<e>>
    BY <1>10 DEF WrittenIn
  <2>2. \A i : WrittenAs(f, [e EXCEPT !.file = i], o)
    BY <1>10 DEF WrittenAs, Says, Blank, NoPath, Defined
  <2> QED BY <2>1, <2>2
<1>11. CASE f = "python_logging"
  <2> DEFINE e == [Blank EXCEPT !.kind = "log", !.lang = "py", !.name = o.name, !.owner = "start", !.returns = Level(o)]
  <2>1. WrittenIn(f, o) = <<e>>
    BY <1>11 DEF WrittenIn
  <2>2. \A i : WrittenAs(f, [e EXCEPT !.file = i], o)
    BY <1>11 DEF WrittenAs, Says, Blank, NoPath, Defined
  <2> QED BY <2>1, <2>2
<1>12. CASE f = "javascript_logging"
  <2> DEFINE e == [Blank EXCEPT !.kind = "log", !.lang = "js", !.name = o.name, !.owner = "start", !.returns = Level(o)]
  <2>1. WrittenIn(f, o) = <<e>>
    BY <1>12 DEF WrittenIn
  <2>2. \A i : WrittenAs(f, [e EXCEPT !.file = i], o)
    BY <1>12 DEF WrittenAs, Says, Blank, NoPath, Defined
  <2> QED BY <2>1, <2>2
<1> QED BY <1>1, <1>2, <1>3, <1>4, <1>5, <1>6, <1>7, <1>8, <1>9, <1>10, <1>11, <1>12 DEF Single

(* And the source has one for each operation, and nothing else.             *)
LEMMA SingleSource ==
    ASSUME NEW f \in Single, NEW ops \in Seq(Operations)
    PROVE  /\ IsSeq(Source(f, ops))
           /\ \A d \in ToSet(Source(f, ops)) : \E o \in ToSet(ops) : WrittenAs(f, d, o)
           /\ \A o \in ToSet(ops) : \E d \in ToSet(Source(f, ops)) : WrittenAs(f, d, o)
<1>1. \A o : IsSeq(WrittenIn(f, o))
  BY SingleWritten, Tuples
<1>2. \A o : \E e : ToSet(WrittenIn(f, o)) = {e} /\ \A i : WrittenAs(f, [e EXCEPT !.file = i], o)
  BY SingleWritten, Tuples
<1>3. \A i \in DOMAIN ops : ops[i] \in ToSet(ops)
  BY DEF ToSet
<1>4. \A o \in ToSet(ops) : \E i \in DOMAIN ops : o = ops[i]
  BY DEF ToSet
<1>5. ASSUME NEW d \in ToSet(Source(f, ops)) PROVE \E o \in ToSet(ops) : WrittenAs(f, d, o)
  <2>1. PICK i \in DOMAIN ops : \E e \in ToSet(WrittenIn(f, ops[i])) : d = [e EXCEPT !.file = i]
    BY <1>1, SourceFacts
  <2>2. PICK e : ToSet(WrittenIn(f, ops[i])) = {e} /\ \A k : WrittenAs(f, [e EXCEPT !.file = k], ops[i])
    BY <1>2
  <2>3. d = [e EXCEPT !.file = i]
    BY <2>1, <2>2
  <2> QED BY <1>3, <2>2, <2>3
<1>6. ASSUME NEW o \in ToSet(ops) PROVE \E d \in ToSet(Source(f, ops)) : WrittenAs(f, d, o)
  <2>1. PICK i \in DOMAIN ops : o = ops[i]
    BY <1>4
  <2>2. PICK e : ToSet(WrittenIn(f, o)) = {e} /\ WrittenAs(f, [e EXCEPT !.file = i], o)
    BY <1>2
  <2>3. [e EXCEPT !.file = i] \in ToSet(Source(f, ops))
    BY <1>1, <2>1, <2>2, SourceFacts
  <2> QED BY <2>2, <2>3
<1>7. IsSeq(Source(f, ops))
  BY <1>1, SourceFacts
<1> QED BY <1>5, <1>6, <1>7

(* The form of an operation in the code, framework by framework.            *)
LEMMA FormShownIs ==
    ASSUME NEW o \in Operations
    PROVE  /\ \A f \in Stagelike : FormShown(f, o) = Form(NameKey(o.name), o.first, o.second, "")
           /\ FormShown("luigi", o) = Form(NameKey(o.name), [n \in DOMAIN o.first |-> IF o.first[n] = "int" THEN "int" ELSE "str"], NoFields, "")
           /\ FormShown("fastapi", o) = Form(EndpointKey(o.verb, Path(o.name, "braces", o.arg)), o.first, o.second, "")
           /\ FormShown("flask", o) = Form(EndpointKey(o.verb, Path(o.name, "converter", o.arg)), o.first, o.second, "")
           /\ FormShown("django", o) = Form(EndpointKey(o.verb, Path(o.name, "braces", o.arg)), o.first, o.second, "")
           /\ FormShown("gin", o) = Form(EndpointKey(o.verb, Path(o.name, "colon", o.arg)), o.first, o.second, "")
           /\ FormShown("express", o) = Form(EndpointKey(o.verb, Path(o.name, "colon", o.arg)), NoFields, NoFields, "")
           /\ \A f \in {"click", "typer"} :
                 FormShown(f, o) = Form(NameKey(o.name), [n \in DOMAIN o.first |-> IF o.first[n] = "" THEN "str" ELSE o.first[n]], NoFields, "")
           /\ \A f \in {"python_library", "typescript"} : FormShown(f, o) = Form(NameKey(o.name), o.first, NoFields, o.scalar)
           /\ \A f \in {"tool_schema", "langchain", "flutter", "swiftui"} : FormShown(f, o) = Form(NameKey(o.name), o.first, NoFields, "")
           /\ \A f \in {"terraform", "pulumi", "ansible", "react_native"} : FormShown(f, o) = Form(NameKey(o.name), Untyped(o.first), NoFields, "")
           /\ \A f \in {"python_logging", "javascript_logging"} : FormShown(f, o) = Form(LogKey(o.name, "start"), NoFields, NoFields, Level(o))
<1> DEFINE seen(f) == [n \in DOMAIN o.first |-> SeenType(f, o.first[n])]
<1>1. o.first = [n \in DOMAIN o.first |-> o.first[n]]
  BY OperationFacts
<1>2. ASSUME NEW f, f \notin {"click", "typer", "luigi"}, ShowsTypes(f) PROVE seen(f) = o.first
  <2>1. \A t : SeenType(f, t) = t
    BY <1>2 DEF SeenType
  <2> QED BY <1>1, <2>1
<1>3. \A f : FormShown(f, o) = Form(KeyShown(f, o), IF f = "express" \/ Capability(f) = "logging" THEN NoFields ELSE seen(f),
                                  IF f \in ShowsSecond THEN o.second ELSE NoFields, ScalarOf(f, o))
  BY DEF FormShown
<1>4. \A f \in Stagelike : FormShown(f, o) = Form(NameKey(o.name), o.first, o.second, "")
  <2> TAKE f \in Stagelike
  <2>1. f \in ShowsSecond /\ Capability(f) = "data-pipeline" /\ f # "express" /\ f \notin {"click", "typer", "luigi"} /\ ShowsTypes(f)
    BY Capabilities DEF Stagelike, ShowsSecond, ShowsTypes
  <2>2. KeyShown(f, o) = NameKey(o.name)
    BY <2>1 DEF KeyShown, KeySaid, Stagelike
  <2>3. ScalarOf(f, o) = "" /\ seen(f) = o.first
    BY <2>1, <1>2 DEF ScalarOf
  <2> HIDE DEF seen
  <2> QED BY <1>3, <2>1, <2>2, <2>3
<1>5. FormShown("luigi", o) = Form(NameKey(o.name), [n \in DOMAIN o.first |-> IF o.first[n] = "int" THEN "int" ELSE "str"], NoFields, "")
  <2>1. "luigi" \notin ShowsSecond /\ Capability("luigi") = "data-pipeline" /\ ShowsTypes("luigi")
    BY Capabilities DEF Stagelike, ShowsSecond, ShowsTypes
  <2>2. KeyShown("luigi", o) = NameKey(o.name) /\ ScalarOf("luigi", o) = ""
    BY <2>1 DEF KeyShown, KeySaid, ScalarOf
  <2>3. \A t : SeenType("luigi", t) = IF t = "int" THEN "int" ELSE "str"
    BY <2>1 DEF SeenType
  <2>4. seen("luigi") = [n \in DOMAIN o.first |-> IF o.first[n] = "int" THEN "int" ELSE "str"]
    BY <2>3
  <2> HIDE DEF seen
  <2> QED BY <1>3, <2>1, <2>2, <2>4
<1>6. \A f \in {"fastapi", "flask", "django", "gin"} : FormShown(f, o) = Form(KeyShown(f, o), o.first, o.second, "")
  <2> TAKE f \in {"fastapi", "flask", "django", "gin"}
  <2>1. f \in ShowsSecond /\ Capability(f) = "web-api" /\ f # "express" /\ f \notin {"click", "typer", "luigi"} /\ ShowsTypes(f)
    BY Capabilities DEF Stagelike, ShowsSecond, ShowsTypes
  <2>2. ScalarOf(f, o) = "" /\ seen(f) = o.first
    BY <2>1, <1>2 DEF ScalarOf
  <2> HIDE DEF seen
  <2> QED BY <1>3, <2>1, <2>2
<1>7. /\ KeyShown("fastapi", o) = EndpointKey(o.verb, Path(o.name, "braces", o.arg))
      /\ KeyShown("django", o) = EndpointKey(o.verb, Path(o.name, "braces", o.arg))
      /\ KeyShown("flask", o) = EndpointKey(o.verb, Path(o.name, "converter", o.arg))
      /\ KeyShown("gin", o) = EndpointKey(o.verb, Path(o.name, "colon", o.arg))
      /\ KeyShown("express", o) = EndpointKey(o.verb, Path(o.name, "colon", o.arg))
  <2>1. Capability("fastapi") = "web-api" /\ Capability("django") = "web-api"
    BY Capabilities
  <2> QED BY <2>1 DEF KeyShown, KeySaid
<1>8. FormShown("express", o) = Form(KeyShown("express", o), NoFields, NoFields, "")
  <2>1. "express" \notin ShowsSecond /\ Capability("express") = "web-api"
    BY Capabilities DEF Stagelike, ShowsSecond
  <2>2. ScalarOf("express", o) = ""
    BY <2>1 DEF ScalarOf
  <2> QED BY <1>3, <2>1, <2>2
<1>9. \A f \in {"click", "typer"} :
        FormShown(f, o) = Form(NameKey(o.name), [n \in DOMAIN o.first |-> IF o.first[n] = "" THEN "str" ELSE o.first[n]], NoFields, "")
  <2> TAKE f \in {"click", "typer"}
  <2>1. f \notin ShowsSecond /\ Capability(f) = "cli" /\ ShowsTypes(f) /\ f # "express" /\ f # "luigi"
    BY Capabilities DEF Stagelike, ShowsSecond, ShowsTypes
  <2>2. KeyShown(f, o) = NameKey(o.name) /\ ScalarOf(f, o) = ""
    BY <2>1 DEF KeyShown, KeySaid, ScalarOf
  <2>3. \A t : SeenType(f, t) = IF t = "" THEN "str" ELSE t
    BY <2>1 DEF SeenType
  <2>4. seen(f) = [n \in DOMAIN o.first |-> IF o.first[n] = "" THEN "str" ELSE o.first[n]]
    BY <2>3
  <2> HIDE DEF seen
  <2> QED BY <1>3, <2>1, <2>2, <2>4
<1>10. \A f \in {"python_library", "typescript", "tool_schema", "langchain", "flutter", "swiftui"} :
          FormShown(f, o) = Form(NameKey(o.name), o.first, NoFields, IF f \in {"python_library", "typescript"} THEN o.scalar ELSE "")
  <2> TAKE f \in {"python_library", "typescript", "tool_schema", "langchain", "flutter", "swiftui"}
  <2>1. /\ f \notin ShowsSecond /\ f \notin {"express", "click", "typer", "luigi"} /\ ShowsTypes(f)
        /\ Capability(f) \in {"library", "llm-app", "mobile"} /\ (Capability(f) = "library" <=> f \in {"python_library", "typescript"})
    BY Capabilities DEF Stagelike, ShowsSecond, ShowsTypes
  <2>2. KeyShown(f, o) = NameKey(o.name)
    BY <2>1 DEF KeyShown, KeySaid
  <2>3. ScalarOf(f, o) = IF f \in {"python_library", "typescript"} THEN o.scalar ELSE ""
    BY <2>1 DEF ScalarOf
  <2>4. seen(f) = o.first
    BY <1>2, <2>1
  <2> HIDE DEF seen
  <2> QED BY <1>3, <2>1, <2>2, <2>3, <2>4
<1>11. \A f \in {"terraform", "pulumi", "ansible", "react_native"} : FormShown(f, o) = Form(NameKey(o.name), Untyped(o.first), NoFields, "")
  <2> TAKE f \in {"terraform", "pulumi", "ansible", "react_native"}
  <2>1. /\ f \notin ShowsSecond /\ f \notin {"express", "click", "typer", "luigi"} /\ ~ ShowsTypes(f)
        /\ Capability(f) \in {"iac", "mobile"}
    BY Capabilities DEF Stagelike, ShowsSecond, ShowsTypes
  <2>2. KeyShown(f, o) = NameKey(o.name) /\ ScalarOf(f, o) = ""
    BY <2>1 DEF KeyShown, KeySaid, ScalarOf
  <2>3. \A t : SeenType(f, t) = ""
    BY <2>1 DEF SeenType
  <2>4. seen(f) = Untyped(o.first)
    BY <2>3 DEF Untyped
  <2> HIDE DEF seen
  <2> QED BY <1>3, <2>1, <2>2, <2>4
<1>12. \A f \in {"python_logging", "javascript_logging"} : FormShown(f, o) = Form(LogKey(o.name, "start"), NoFields, NoFields, Level(o))
  <2> TAKE f \in {"python_logging", "javascript_logging"}
  <2>1. f \notin ShowsSecond /\ Capability(f) = "logging"
    BY Capabilities DEF Stagelike, ShowsSecond
  <2>2. KeyShown(f, o) = LogKey(o.name, "start") /\ ScalarOf(f, o) = Level(o)
    BY <2>1 DEF KeyShown, KeySaid, ScalarOf
  <2> QED BY <1>3, <2>1, <2>2
<1> HIDE DEF seen
<1>13. /\ \A f \in {"python_library", "typescript"} : FormShown(f, o) = Form(NameKey(o.name), o.first, NoFields, o.scalar)
       /\ \A f \in {"tool_schema", "langchain", "flutter", "swiftui"} : FormShown(f, o) = Form(NameKey(o.name), o.first, NoFields, "")
  BY <1>10
<1> QED BY <1>4, <1>5, <1>6, <1>7, <1>8, <1>9, <1>11, <1>12, <1>13

-----------------------------------------------------------------------------
(* What is read of it.                                                      *)

(* s has what is written of the operations, and nothing else.               *)
Carries(f, s, ops) ==
    /\ IsSeq(s)
    /\ \A d \in ToSet(s) : \E o \in ToSet(ops) : WrittenAs(f, d, o)
    /\ \A o \in ToSet(ops) : \E d \in ToSet(s) : WrittenAs(f, d, o)

(* The items have the forms of operations: of some, of all.                 *)
ReadsSome(items, f, ops) == IsSeq(items) /\ ToSet(items) \subseteq {FormShown(f, o) : o \in ToSet(ops)}

ReadsAll(items, f, ops) == ReadsSome(items, f, ops) /\ \A o \in ToSet(ops) : KeyShown(f, o) \in KeysOf(items)

(* The key of a form.                                                       *)
LEMMA KeyOfForm == \A f, o : FormSaid(f, o).key = KeySaid(f, o) /\ FormShown(f, o).key = KeyShown(f, o)
BY DEF FormSaid, FormShown, Form

(* A detector that keeps every declaration has the same source.             *)
LEMMA CarriedOn ==
    ASSUME NEW f, NEW s, NEW ops, Carries(f, s, ops), NEW I, I = DOMAIN s
    PROVE  Carries(f, At(s, I), ops)
BY AllKept DEF Carries

(* An item for each declaration, with the form of its operation, is all.    *)
LEMMA AllRead ==
    ASSUME NEW f, NEW s, NEW ops, Carries(f, s, ops), NEW items, items = [i \in DOMAIN s |-> items[i]],
           \A i \in DOMAIN s : \A o \in ToSet(ops) : WrittenAs(f, s[i], o) => items[i] = FormShown(f, o)
    PROVE  ReadsAll(items, f, ops)
<1>1. IsSeq(items) /\ DOMAIN items = DOMAIN s
  BY MapFacts DEF Carries
<1>2. \A i \in DOMAIN s : s[i] \in ToSet(s)
  BY DEF ToSet
<1>3. ASSUME NEW x \in ToSet(items) PROVE x \in {FormShown(f, o) : o \in ToSet(ops)}
  <2>1. PICK i \in DOMAIN s : x = items[i]
    BY <1>1 DEF ToSet
  <2>2. PICK o \in ToSet(ops) : WrittenAs(f, s[i], o)
    BY <1>2 DEF Carries
  <2> QED BY <2>1, <2>2
<1>4. ASSUME NEW o \in ToSet(ops) PROVE KeyShown(f, o) \in KeysOf(items)
  <2>1. PICK d \in ToSet(s) : WrittenAs(f, d, o)
    BY DEF Carries
  <2>2. PICK i \in DOMAIN s : d = s[i]
    BY DEF ToSet
  <2>3. items[i] = FormShown(f, o) /\ items[i] \in ToSet(items)
    BY <1>1, <2>1, <2>2 DEF ToSet
  <2>4. items[i].key = KeyShown(f, o)
    BY <2>3, KeyOfForm
  <2> QED BY <2>3, <2>4 DEF KeysOf
<1> QED BY <1>1, <1>3, <1>4 DEF ReadsAll, ReadsSome

(* Items once each are still all.                                           *)
LEMMA OnceEachRead ==
    ASSUME NEW f, NEW ops, NEW items, ReadsAll(items, f, ops)
    PROVE  ReadsAll(OnceEach(items), f, ops)
BY OnceEachFacts DEF ReadsAll, ReadsSome

(* Nothing is kept.                                                         *)
LEMMA NoneKept ==
    ASSUME NEW s, IsSeq(s)
    PROVE  At(s, {}) = <<>>
<1>1. IsSeq(At(s, {})) /\ ToSet(At(s, {})) = {}
  <2> DEFINE I == {}
  <2>1. I \in SUBSET DOMAIN s /\ {s[i] : i \in I} = {}
    OBVIOUS
  <2> HIDE DEF I
  <2>2. IsSeq(At(s, I)) /\ ToSet(At(s, I)) = {}
    BY <2>1, AtFacts
  <2> QED BY <2>2 DEF I
<1> QED BY <1>1, SeqFacts

(* Nothing yields nothing.                                                  *)
LEMMA NothingMapped ==
    ASSUME NEW s, s = <<>>, NEW m, m = [i \in DOMAIN s |-> m[i]]
    PROVE  m = <<>>
BY Tuples, MapFacts

(* Of one decorator, it is kept or nothing is.                              *)
LEMMA OneTag ==
    ASSUME NEW t, NEW I
    PROVE  /\ I = {1} => At(<<t>>, I) # <<>> /\ At(<<t>>, I)[1] = t
           /\ I = {} => At(<<t>>, I) = <<>>
<1>1. CASE I = {1}
  <2> DEFINE kept == At(<<t>>, I)
  <2>1. IsSeq(<<t>>) /\ DOMAIN <<t>> = {1} /\ <<t>>[1] = t
    BY Tuples
  <2>2. IsSeq(kept) /\ ToSet(kept) = {t}
    BY <1>1, <2>1, AtFacts
  <2> HIDE DEF kept
  <2>3. kept # <<>> /\ 1 \in DOMAIN kept
    <3>1. kept # <<>> /\ Len(kept) # 0 /\ Len(kept) \in Nat /\ DOMAIN kept = 1..Len(kept)
      BY <2>2, SeqFacts
    <3> QED BY <3>1
  <2>4. kept[1] \in ToSet(kept)
    BY <2>3 DEF ToSet
  <2> QED BY <1>1, <2>2, <2>3, <2>4 DEF kept
<1>2. CASE I = {}
  BY <1>2, NoneKept, Tuples
<1> QED BY <1>1, <1>2

-----------------------------------------------------------------------------
(* Pipelines.                                                               *)

(* What s has is written of some of the operations.                         *)
Within(f, s, ops) == IsSeq(s) /\ \A d \in ToSet(s) : \E o \in ToSet(ops) : WrittenAs(f, d, o)

(* So is what is kept of it.                                                *)
LEMMA WithinKept ==
    ASSUME NEW f, NEW s, NEW ops, Within(f, s, ops), NEW I, I \subseteq DOMAIN s
    PROVE  Within(f, At(s, I), ops)
<1>1. IsSeq(At(s, I)) /\ ToSet(At(s, I)) = {s[i] : i \in I}
  BY AtFacts DEF Within
<1>2. \A i \in I : s[i] \in ToSet(s)
  BY DEF ToSet
<1> QED BY <1>1, <1>2 DEF Within

(* An item for each declaration, with the form of its operation, is some.   *)
LEMMA SomeRead ==
    ASSUME NEW f, NEW s, NEW ops, Within(f, s, ops), NEW items, items = [i \in DOMAIN s |-> items[i]],
           \A i \in DOMAIN s : \A o \in ToSet(ops) : WrittenAs(f, s[i], o) => items[i] = FormShown(f, o)
    PROVE  ReadsSome(items, f, ops)
<1>1. IsSeq(items) /\ DOMAIN items = DOMAIN s
  BY MapFacts DEF Within
<1>2. \A i \in DOMAIN s : s[i] \in ToSet(s)
  BY DEF ToSet
<1>3. ASSUME NEW x \in ToSet(items) PROVE x \in {FormShown(f, o) : o \in ToSet(ops)}
  <2>1. PICK i \in DOMAIN s : x = items[i]
    BY <1>1 DEF ToSet
  <2>2. PICK o \in ToSet(ops) : WrittenAs(f, s[i], o)
    BY <1>2 DEF Within
  <2> QED BY <2>1, <2>2
<1> QED BY <1>1, <1>3 DEF ReadsSome

(* A function of the source says its operation.                             *)
LEMMA DefSays ==
    ASSUME NEW f \in Defined, NEW d, NEW o, WrittenAs(f, d, o)
    PROVE  IsDef(d, o, TagsWritten(f, o))
BY DEF WrittenAs, Defined

(* Where there are no classes, what a function gives out is its literal.    *)
LEMMA DefOutput ==
    ASSUME NEW f \in Defined, NEW s, NEW ops, Within(f, s, ops), NEW d
    PROVE  OutputFields(s, d) = d.literal
<1>1. \A c \in ToSet(s) : c.kind # "class"
  BY DefSays DEF Within, IsDef, Says
<1>2. {c \in ToSet(s) : c.kind = "class" /\ c.file = d.file /\ c.name = Bare(d.returns) /\ c.params # NoFields} = {}
  BY <1>1
<1> QED BY <1>2 DEF OutputFields

(* The stages of a source, of those a detector has found: each has the form *)
(* of its operation.                                                        *)
LEMMA StagesRead ==
    ASSUME NEW f \in Stagelike, NEW ops, ToSet(ops) \subseteq Operations, \A o \in ToSet(ops) : Expressible(f, o),
           NEW s, Carries(f, s, ops), NEW found
    PROVE  /\ ReadsSome(Stages(s, found), f, ops)
           /\ ToSet(s) \subseteq found => ReadsAll(Stages(s, found), f, ops)
<1> DEFINE I0 == {i \in DOMAIN s : s[i].kind = "def"}
           defs == Defs(s)
           I1 == {i \in DOMAIN defs : defs[i] \in found}
           kept == At(defs, I1)
           form(d) == Form(NameKey(d.name), Without(d.params, PipelineSkip), OutputFields(s, d), "")
           forms == [i \in DOMAIN kept |-> form(kept[i])]
           I2 == {i \in DOMAIN forms : forms[i].first # NoFields \/ forms[i].second # NoFields}
<1>1. f \in Defined /\ Skipped(f) = PipelineSkip
  BY DEF Stagelike, Defined, Skipped
<1>2. Within(f, s, ops)
  BY DEF Carries, Within
<1>3. ASSUME NEW i \in DOMAIN s PROVE s[i].kind = "def"
  <2>1. s[i] \in ToSet(s)
    BY DEF ToSet
  <2> QED BY <1>1, <1>2, <2>1, DefSays DEF Within, IsDef, Says
<1>4. defs = At(s, DOMAIN s)
  <2>1. I0 = DOMAIN s
    BY <1>3
  <2>2. defs = At(s, I0)
    BY DEF Defs, Kept
  <2> QED BY <2>1, <2>2
<1>5. Carries(f, defs, ops) /\ ToSet(defs) = ToSet(s)
  BY <1>4, CarriedOn, AllKept DEF Carries
<1>6. Stages(s, found) = At(forms, I2)
  BY DEF Stages, Collect, Kept
<1>7. ASSUME NEW d, NEW o \in ToSet(ops), WrittenAs(f, d, o)
      PROVE  form(d) = FormShown(f, o) /\ form(d).first # NoFields
  <2>1. IsDef(d, o, TagsWritten(f, o))
    BY <1>1, <1>7, DefSays
  <2>2. d.name = o.name /\ d.params = o.first /\ d.literal = o.second
    BY <2>1 DEF IsDef, Says
  <2>3. Without(o.first, PipelineSkip) = o.first
    <3>1. DOMAIN o.first \cap PipelineSkip = {}
      BY <1>1 DEF Expressible
    <3>2. o \in Operations
      OBVIOUS
    <3> QED BY <3>1, <3>2, OperationFacts, WithoutNone
  <2>4. form(d) = Form(NameKey(o.name), o.first, o.second, "")
    BY <1>1, <1>2, <2>2, <2>3, DefOutput
  <2>5. o.first # NoFields
    BY DEF Expressible
  <2>6. FormShown(f, o) = Form(NameKey(o.name), o.first, o.second, "")
    BY FormShownIs
  <2>7. Form(NameKey(o.name), o.first, o.second, "").first = o.first
    BY DEF Form
  <2> HIDE DEF form
  <2> QED BY <2>4, <2>5, <2>6, <2>7
<1> HIDE DEF defs, form
<1>8. Within(f, kept, ops)
  <2>1. Within(f, defs, ops) /\ I1 \subseteq DOMAIN defs
    BY <1>5 DEF Carries, Within
  <2> HIDE DEF I1
  <2> QED BY <2>1, WithinKept
<1>9. ToSet(s) \subseteq found => Carries(f, kept, ops)
  <2>1. ASSUME ToSet(s) \subseteq found PROVE I1 = DOMAIN defs
    BY <1>5, <2>1 DEF ToSet
  <2> HIDE DEF I1
  <2> QED BY <1>5, <2>1, CarriedOn
<1> HIDE DEF kept
<1>10. /\ forms = [i \in DOMAIN kept |-> forms[i]] /\ DOMAIN forms = DOMAIN kept
       /\ \A i \in DOMAIN kept : \A o \in ToSet(ops) : WrittenAs(f, kept[i], o) => forms[i] = FormShown(f, o)
  BY <1>7
<1>11. ASSUME NEW i \in DOMAIN forms PROVE forms[i].first # NoFields
  <2>1. kept[i] \in ToSet(kept)
    BY DEF ToSet
  <2>2. PICK o \in ToSet(ops) : WrittenAs(f, kept[i], o)
    BY <1>8, <2>1 DEF Within
  <2> QED BY <1>7, <2>2
<1>12. I2 = DOMAIN forms
  BY <1>11
<1> HIDE DEF forms
<1>13. ReadsSome(forms, f, ops)
  BY <1>8, <1>10, SomeRead
<1>14. ToSet(s) \subseteq found => ReadsAll(forms, f, ops)
  BY <1>9, <1>10, AllRead
<1>15. IsSeq(At(forms, DOMAIN forms)) /\ ToSet(At(forms, DOMAIN forms)) = ToSet(forms)
  BY <1>13, AllKept DEF ReadsSome
<1>16. ReadsSome(Stages(s, found), f, ops)
  BY <1>6, <1>12, <1>13, <1>15 DEF ReadsSome
<1>17. ToSet(s) \subseteq found => ReadsAll(Stages(s, found), f, ops)
  BY <1>6, <1>12, <1>14, <1>15, <1>16 DEF ReadsAll, KeysOf
<1> QED BY <1>16, <1>17

(* The stages the detectors of the three frameworks find.                   *)
StageFound(g, s) ==
    CASE g = "airflow" -> {d \in ToSet(s) : ~d.async /\
            \/ TagsOf(d, LAMBDA t : t.name = "task" /\ ~t.called) # <<>>
            \/ \E n \in DOMAIN d.params : d.params[n] # ""}
      [] g = "prefect" -> {d \in ToSet(s) : TagsOf(d, LAMBDA t : t.name \in {"task", "flow"}) # <<>>}
      [] g = "dagster" -> {d \in ToSet(s) : TagsOf(d, LAMBDA t : t.name \in {"op", "asset", "graph", "job"}) # <<>>}

(* The detectors of Airflow, Dagster and Prefect, on one another's sources: *)
(* whatever one takes for a stage of another framework, it reads from it    *)
(* what its own detector does.                                              *)
LEMMA StageDetection ==
    ASSUME NEW f \in Stagelike, NEW ops, ToSet(ops) \subseteq Operations, \A o \in ToSet(ops) : Expressible(f, o),
           NEW s, Carries(f, s, ops)
    PROVE  /\ \A g \in Stagelike : ReadsSome(Detect(g, s), f, ops)
           /\ ReadsAll(Detect(f, s), f, ops)
<1>1. \A g \in Stagelike : Detect(g, s) = Stages(s, StageFound(g, s))
  BY DEF Stagelike, Detect, StageFound, AirflowStages, PrefectStages, DagsterStages
<1>2. ASSUME NEW d \in ToSet(s) PROVE d \in StageFound(f, s)
  <2>1. PICK o \in ToSet(ops) : WrittenAs(f, d, o)
    BY DEF Carries
  <2>2. d.tags = TagsWritten(f, o) /\ d.async = FALSE
    <3>1. f \in Defined
      BY DEF Stagelike, Defined
    <3>2. IsDef(d, o, TagsWritten(f, o))
      BY <2>1, <3>1, DefSays
    <3> QED BY <3>2 DEF IsDef, Says
  <2>3. CASE f = "airflow"
    <3>1. d.tags = <<Tag("task", FALSE, FALSE, "")>>
      BY <2>2, <2>3 DEF TagsWritten
    <3> DEFINE tag == Tag("task", FALSE, FALSE, "")
    <3>2. DOMAIN d.tags = {1} /\ d.tags[1] = tag
      BY <3>1, Tuples
    <3>3. tag.name = "task" /\ ~ tag.called
      BY DEF Tag
    <3> HIDE DEF tag
    <3>4. {i \in DOMAIN d.tags : d.tags[i].name = "task" /\ ~ d.tags[i].called} = {1}
      BY <3>2, <3>3
    <3>5. TagsOf(d, LAMBDA t : t.name = "task" /\ ~t.called) # <<>>
      BY <3>1, <3>4, OneTag DEF tag, TagsOf, Kept
    <3> QED BY <2>2, <2>3, <3>5 DEF StageFound
  <2>4. CASE f = "prefect"
    <3>1. d.tags = <<Tag("task", FALSE, TRUE, "")>>
      BY <2>2, <2>4 DEF TagsWritten
    <3> DEFINE tag == Tag("task", FALSE, TRUE, "")
    <3>2. DOMAIN d.tags = {1} /\ d.tags[1] = tag
      BY <3>1, Tuples
    <3>3. tag.name = "task"
      BY DEF Tag
    <3> HIDE DEF tag
    <3>4. {i \in DOMAIN d.tags : d.tags[i].name \in {"task", "flow"}} = {1}
      BY <3>2, <3>3
    <3>5. TagsOf(d, LAMBDA t : t.name \in {"task", "flow"}) # <<>>
      BY <3>1, <3>4, OneTag DEF tag, TagsOf, Kept
    <3> QED BY <2>4, <3>5 DEF StageFound
  <2>5. CASE f = "dagster"
    <3>1. d.tags = <<Tag("op", FALSE, FALSE, "")>>
      BY <2>2, <2>5 DEF TagsWritten
    <3> DEFINE tag == Tag("op", FALSE, FALSE, "")
    <3>2. DOMAIN d.tags = {1} /\ d.tags[1] = tag
      BY <3>1, Tuples
    <3>3. tag.name = "op"
      BY DEF Tag
    <3> HIDE DEF tag
    <3>4. {i \in DOMAIN d.tags : d.tags[i].name \in {"op", "asset", "graph", "job"}} = {1}
      BY <3>2, <3>3
    <3>5. TagsOf(d, LAMBDA t : t.name \in {"op", "asset", "graph", "job"}) # <<>>
      BY <3>1, <3>4, OneTag DEF tag, TagsOf, Kept
    <3> QED BY <2>5, <3>5 DEF StageFound
  <2> QED BY <2>3, <2>4, <2>5 DEF Stagelike
<1> QED BY <1>1, <1>2, StagesRead

-----------------------------------------------------------------------------
(* The other detectors.                                                     *)

(* s is the source of the operations, all of which framework f can say.     *)
Sourced(f, s, ops) ==
    /\ ToSet(ops) \subseteq Operations
    /\ \A o \in ToSet(ops) : Expressible(f, o)
    /\ Carries(f, s, ops)

(* A detector that takes every declaration for one item.                    *)
LEMMA Collected ==
    ASSUME NEW f, NEW s, NEW ops, Carries(f, s, ops), NEW I, I = DOMAIN s,
           NEW items, items = [i \in DOMAIN At(s, I) |-> items[i]],
           \A i \in DOMAIN At(s, I) : \A o \in ToSet(ops) : WrittenAs(f, At(s, I)[i], o) => items[i] = FormShown(f, o)
    PROVE  ReadsAll(items, f, ops)
BY CarriedOn, AllRead

(* What a source says, and that nothing of its fields is skipped.           *)
LEMMA SourcedFacts ==
    ASSUME NEW f, NEW s, NEW ops, Sourced(f, s, ops)
    PROVE  /\ \A i \in DOMAIN s : \E o \in ToSet(ops) : WrittenAs(f, s[i], o)
           /\ \A o \in ToSet(ops) : o \in Operations /\ Expressible(f, o)
           /\ \A o \in ToSet(ops) : DOMAIN o.first \cap Skipped(f) = {} /\ Without(o.first, Skipped(f)) = o.first
<1>1. \A i \in DOMAIN s : s[i] \in ToSet(s)
  BY DEF ToSet
<1>2. \A o \in ToSet(ops) : o \in Operations /\ Expressible(f, o)
  BY DEF Sourced
<1>3. ASSUME NEW o \in ToSet(ops) PROVE DOMAIN o.first \cap Skipped(f) = {} /\ Without(o.first, Skipped(f)) = o.first
  <2>1. DOMAIN o.first \cap Skipped(f) = {}
    BY <1>2 DEF Expressible
  <2> QED BY <1>2, <2>1, OperationFacts, WithoutNone
<1> QED BY <1>1, <1>2, <1>3 DEF Sourced, Carries

(* Where every declaration is a function, _walk_functions skips nothing.    *)
LEMMA DefsAll ==
    ASSUME NEW s, IsSeq(s), \A i \in DOMAIN s : s[i].kind = "def"
    PROVE  IsSeq(Defs(s)) /\ ToSet(Defs(s)) = ToSet(s)
<1> DEFINE I == {i \in DOMAIN s : s[i].kind = "def"}
<1>1. I = DOMAIN s
  OBVIOUS
<1>2. Defs(s) = At(s, I)
  BY DEF Defs, Kept
<1> HIDE DEF I
<1> QED BY <1>1, <1>2, AllKept

(* Where every declaration is a function, the functions are the source.     *)
LEMMA DefsSourced ==
    ASSUME NEW f, f \in Defined \cup {"click"}, NEW s, NEW ops, Sourced(f, s, ops)
    PROVE  Sourced(f, Defs(s), ops) /\ ToSet(Defs(s)) = ToSet(s)
<1>1. ASSUME NEW i \in DOMAIN s PROVE s[i].kind = "def"
  <2>1. PICK o \in ToSet(ops) : WrittenAs(f, s[i], o)
    BY SourcedFacts
  <2>2. CASE f \in Defined
    BY <2>1, <2>2, DefSays DEF IsDef, Says
  <2>3. CASE f = "click"
    BY <2>1, <2>3 DEF WrittenAs, Says, Defined
  <2> QED BY <2>2, <2>3
<1> QED BY <1>1, DefsAll DEF Sourced, Carries

(* The detectors, each on its own framework's source: all of it is read.    *)
(* Luigi's tasks, Express's routes, Terraform's blocks, Pulumi's            *)
(* assignments and Ansible's tasks.                                         *)
LEMMA LuigiRead ==
    ASSUME NEW s, NEW ops, Sourced("luigi", s, ops)
    PROVE  ReadsAll(Detect("luigi", s), "luigi", ops)
<1> DEFINE I == {i \in DOMAIN s : s[i].kind = "class" /\ s[i].lang = "py" /\ s[i].names \cap {"Task", "ExternalTask"} # {}}
           tasks == At(s, I)
           coded(o) == [n \in DOMAIN o.first |-> IF o.first[n] = "int" THEN "IntParameter" ELSE "Parameter"]
           given(d) == {n \in DOMAIN d.params : d.params[n] \in DOMAIN ParamTypes}
           form(d) == Form(NameKey(d.name), [n \in given(d) |-> ParamTypes[d.params[n]]], NoFields, "")
           items == [i \in DOMAIN tasks |-> form(tasks[i])]
<1>1. Detect("luigi", s) = items
  BY DEF Detect, LuigiStages, Collect, Kept
<1>2. \A d, o : WrittenAs("luigi", d, o) <=>
        Says(d, "class", "py", o.name, "", coded(o), "", {"Task"}, <<>>, NoPath)
  BY DEF WrittenAs, Defined
<1> HIDE DEF coded
<1>3. I = DOMAIN s
  <2>1. ASSUME NEW i \in DOMAIN s PROVE i \in I
    <3>1. PICK o \in ToSet(ops) : WrittenAs("luigi", s[i], o)
      BY SourcedFacts
    <3>2. s[i].kind = "class" /\ s[i].lang = "py" /\ s[i].names = {"Task"}
      BY <1>2, <3>1 DEF Says
    <3> QED BY <3>2
  <2> QED BY <2>1
<1>4. ASSUME NEW d, NEW o \in ToSet(ops), WrittenAs("luigi", d, o) PROVE form(d) = FormShown("luigi", o)
  <2> DEFINE params == coded(o)
  <2>1. d.name = o.name /\ d.params = params
    BY <1>2, <1>4 DEF Says
  <2>2. /\ {"IntParameter", "Parameter"} \subseteq DOMAIN ParamTypes
        /\ ParamTypes["IntParameter"] = "int" /\ ParamTypes["Parameter"] = "str"
    BY DEF ParamTypes
  <2>3. DOMAIN params = DOMAIN o.first
        /\ \A n \in DOMAIN o.first : params[n] = IF o.first[n] = "int" THEN "IntParameter" ELSE "Parameter"
    BY DEF coded
  <2> HIDE DEF params
  <2>4. given(d) = DOMAIN o.first
    BY <2>1, <2>2, <2>3
  <2>5. [n \in given(d) |-> ParamTypes[d.params[n]]] = [n \in DOMAIN o.first |-> IF o.first[n] = "int" THEN "int" ELSE "str"]
    BY <2>1, <2>2, <2>3, <2>4
  <2>6. FormShown("luigi", o) = Form(NameKey(o.name), [n \in DOMAIN o.first |-> IF o.first[n] = "int" THEN "int" ELSE "str"], NoFields, "")
    BY SourcedFacts, FormShownIs
  <2> QED BY <2>1, <2>5, <2>6
<1> HIDE DEF form
<1>5. /\ items = [i \in DOMAIN At(s, I) |-> items[i]]
      /\ \A i \in DOMAIN At(s, I) : \A o \in ToSet(ops) : WrittenAs("luigi", At(s, I)[i], o) => items[i] = FormShown("luigi", o)
  BY <1>4
<1> HIDE DEF items, I
<1> QED BY <1>1, <1>3, <1>5, Collected DEF Sourced

LEMMA ExpressRead ==
    ASSUME NEW s, NEW ops, Sourced("express", s, ops)
    PROVE  ReadsAll(Detect("express", s), "express", ops)
<1> DEFINE declared(n) == {d.name : d \in {e \in ToSet(OfKind(s, "router")) : e.file = n}}
           routers(n) == IF declared(n) = {} THEN {"app", "router"} ELSE declared(n)
           I == {i \in DOMAIN s : s[i].kind = "route" /\ s[i].owner \in routers(s[i].file)}
           asked == At(s, I)
           form(d) == Form(EndpointKey(d.returns, d.path), NoFields, NoFields, "")
           items == [i \in DOMAIN asked |-> form(asked[i])]
<1>1. Detect("express", s) = items
  BY DEF Detect, ExpressEndpoints, Collect, Kept
<1>2. \A d, o : WrittenAs("express", d, o) <=> Says(d, "route", "js", "", "app", NoFields, o.verb, {}, <<>>, Route("express", o))
  BY DEF WrittenAs, Defined
<1>3. \A i \in DOMAIN s : s[i].kind = "route" /\ s[i].owner = "app"
  BY <1>2, SourcedFacts DEF Says
<1>4. ToSet(OfKind(s, "router")) = {}
  <2> DEFINE J == {i \in DOMAIN s : s[i].kind = "router"}
  <2>1. J = {}
    BY <1>3
  <2>2. OfKind(s, "router") = At(s, J)
    BY DEF OfKind, Kept
  <2> HIDE DEF J
  <2> QED BY <2>1, <2>2, NoneKept, Tuples DEF Sourced, Carries
<1>5. \A n : routers(n) = {"app", "router"}
  BY <1>4
<1> HIDE DEF routers
<1>6. I = DOMAIN s
  BY <1>3, <1>5
<1>7. ASSUME NEW d, NEW o \in ToSet(ops), WrittenAs("express", d, o) PROVE form(d) = FormShown("express", o)
  <2>1. d.returns = o.verb /\ d.path = Route("express", o)
    BY <1>2, <1>7 DEF Says
  <2>2. Route("express", o) = Path(o.name, "colon", o.arg)
    BY DEF Route
  <2> QED BY <2>1, <2>2, SourcedFacts, FormShownIs
<1> HIDE DEF form
<1>8. /\ items = [i \in DOMAIN At(s, I) |-> items[i]]
      /\ \A i \in DOMAIN At(s, I) : \A o \in ToSet(ops) : WrittenAs("express", At(s, I)[i], o) => items[i] = FormShown("express", o)
  BY <1>7
<1> HIDE DEF items, I
<1> QED BY <1>1, <1>6, <1>8, Collected DEF Sourced

LEMMA TerraformRead ==
    ASSUME NEW s, NEW ops, Sourced("terraform", s, ops)
    PROVE  ReadsAll(Detect("terraform", s), "terraform", ops)
<1> DEFINE I == {i \in DOMAIN s : s[i].kind = "block"}
           kept == At(s, I)
           form(d) == Form(NameKey(d.name), [n \in DOMAIN d.params \ d.names |-> ""], NoFields, "")
           items == [i \in DOMAIN kept |-> form(kept[i])]
<1>1. Detect("terraform", s) = items
  BY DEF Detect, TerraformResources, OfKind, Collect, Kept
<1>2. \A d, o : WrittenAs("terraform", d, o) <=> Says(d, "block", "tf", o.name, "", o.first, "", {}, <<>>, NoPath)
  BY DEF WrittenAs, Defined
<1>3. I = DOMAIN s
  BY <1>2, SourcedFacts DEF Says
<1>4. ASSUME NEW d, NEW o \in ToSet(ops), WrittenAs("terraform", d, o) PROVE form(d) = FormShown("terraform", o)
  <2>1. d.name = o.name /\ d.params = o.first /\ d.names = {}
    BY <1>2, <1>4 DEF Says
  <2>2. DOMAIN d.params \ d.names = DOMAIN o.first
    BY <2>1
  <2>3. [n \in DOMAIN d.params \ d.names |-> ""] = Untyped(o.first)
    BY <2>2 DEF Untyped
  <2> QED BY <2>1, <2>3, SourcedFacts, FormShownIs
<1> HIDE DEF form
<1>5. /\ items = [i \in DOMAIN At(s, I) |-> items[i]]
      /\ \A i \in DOMAIN At(s, I) : \A o \in ToSet(ops) : WrittenAs("terraform", At(s, I)[i], o) => items[i] = FormShown("terraform", o)
  BY <1>4
<1> HIDE DEF items, I
<1> QED BY <1>1, <1>3, <1>5, Collected DEF Sourced

LEMMA PulumiRead ==
    ASSUME NEW s, NEW ops, Sourced("pulumi", s, ops)
    PROVE  ReadsAll(Detect("pulumi", s), "pulumi", ops)
<1> DEFINE keys(d) == [n \in DOMAIN d.params \ {"opts"} |-> ""]
           I == {i \in DOMAIN s : s[i].kind = "assign" /\ s[i].name # "" /\ keys(s[i]) # NoFields}
           kept == At(s, I)
           form(d) == Form(NameKey(d.name), keys(d), NoFields, "")
           items == [i \in DOMAIN kept |-> form(kept[i])]
<1>1. Detect("pulumi", s) = items
  BY DEF Detect, PulumiResources, Collect, Kept
<1>2. \A d, o : WrittenAs("pulumi", d, o) <=> Says(d, "assign", "py", o.name, "", o.first, "", {}, <<>>, NoPath)
  BY DEF WrittenAs, Defined
<1>3. ASSUME NEW d, NEW o \in ToSet(ops), WrittenAs("pulumi", d, o)
      PROVE  d.kind = "assign" /\ d.name = o.name /\ o.name # "" /\ keys(d) = Untyped(o.first) /\ keys(d) # NoFields
  <2>1. d.kind = "assign" /\ d.name = o.name /\ d.params = o.first
    BY <1>2, <1>3 DEF Says
  <2>2. Skipped("pulumi") = {"opts"}
    BY DEF Skipped, Stagelike
  <2>3. DOMAIN d.params \ {"opts"} = DOMAIN o.first
    BY <2>1, <2>2, SourcedFacts
  <2>4. keys(d) = Untyped(o.first)
    BY <2>3 DEF Untyped
  <2>5. o.first # NoFields /\ o \in Operations
    BY SourcedFacts DEF Expressible
  <2>6. o.first = [n \in DOMAIN o.first |-> o.first[n]] /\ o.name # ""
    BY <2>5, OperationFacts
  <2>7. DOMAIN o.first # {}
    BY <2>5, <2>6 DEF NoFields
  <2>8. DOMAIN keys(d) # DOMAIN NoFields
    BY <2>3, <2>7 DEF NoFields
  <2> HIDE DEF keys
  <2> QED BY <2>1, <2>4, <2>6, <2>8
<1> HIDE DEF keys
<1>4. I = DOMAIN s
  <2>1. ASSUME NEW i \in DOMAIN s PROVE i \in I
    <3>1. PICK o \in ToSet(ops) : WrittenAs("pulumi", s[i], o)
      BY SourcedFacts
    <3> QED BY <1>3, <3>1
  <2> QED BY <2>1
<1>5. ASSUME NEW d, NEW o \in ToSet(ops), WrittenAs("pulumi", d, o) PROVE form(d) = FormShown("pulumi", o)
  <2>1. form(d) = Form(NameKey(o.name), Untyped(o.first), NoFields, "")
    BY <1>3, <1>5
  <2>2. FormShown("pulumi", o) = Form(NameKey(o.name), Untyped(o.first), NoFields, "")
    BY SourcedFacts, FormShownIs
  <2> QED BY <2>1, <2>2
<1> HIDE DEF form
<1>6. /\ items = [i \in DOMAIN At(s, I) |-> items[i]]
      /\ \A i \in DOMAIN At(s, I) : \A o \in ToSet(ops) : WrittenAs("pulumi", At(s, I)[i], o) => items[i] = FormShown("pulumi", o)
  BY <1>5
<1> HIDE DEF items, I
<1> QED BY <1>1, <1>4, <1>6, Collected DEF Sourced

LEMMA AnsibleRead ==
    ASSUME NEW s, NEW ops, Sourced("ansible", s, ops)
    PROVE  ReadsAll(Detect("ansible", s), "ansible", ops)
<1> DEFINE title(d) == IF d.owner # "" THEN d.owner ELSE d.name
           I == {i \in DOMAIN s : s[i].kind = "task" /\ s[i].count = 1 /\ title(s[i]) # ""}
           kept == At(s, I)
           form(d) == Form(NameKey(title(d)), [n \in DOMAIN d.params \ {"name"} |-> ""], NoFields, "")
           items == [i \in DOMAIN kept |-> form(kept[i])]
<1>1. Detect("ansible", s) = items
  BY DEF Detect, AnsibleResources, Collect, Kept
<1>2. \A d, o : WrittenAs("ansible", d, o) <=> Says(d, "task", "yml", o.name, "", o.first, "", {}, <<>>, NoPath)
  BY DEF WrittenAs, Defined
<1>3. ASSUME NEW d, NEW o \in ToSet(ops), WrittenAs("ansible", d, o)
      PROVE  d.kind = "task" /\ d.count = 1 /\ title(d) = o.name /\ o.name # "" /\ d.params = o.first
  <2>1. d.kind = "task" /\ d.count = 1 /\ d.owner = "" /\ d.name = o.name /\ d.params = o.first
    BY <1>2, <1>3 DEF Says
  <2> QED BY <2>1, SourcedFacts, OperationFacts
<1> HIDE DEF title
<1>4. I = DOMAIN s
  BY <1>3, SourcedFacts
<1>5. ASSUME NEW d, NEW o \in ToSet(ops), WrittenAs("ansible", d, o) PROVE form(d) = FormShown("ansible", o)
  <2>1. "name" \notin DOMAIN o.first
    <3>1. DOMAIN o.first \cap Header(Capability("ansible")) = {}
      BY SourcedFacts DEF Expressible
    <3>2. "name" \in Header(Capability("ansible"))
      BY Capabilities DEF Header, ConfigHeader
    <3> QED BY <3>1, <3>2
  <2>2. DOMAIN d.params \ {"name"} = DOMAIN o.first
    BY <1>3, <1>5, <2>1
  <2>3. [n \in DOMAIN d.params \ {"name"} |-> ""] = Untyped(o.first)
    BY <2>2 DEF Untyped
  <2>4. form(d) = Form(NameKey(o.name), Untyped(o.first), NoFields, "")
    BY <1>3, <1>5, <2>3
  <2>5. FormShown("ansible", o) = Form(NameKey(o.name), Untyped(o.first), NoFields, "")
    BY SourcedFacts, FormShownIs
  <2> QED BY <2>4, <2>5
<1> HIDE DEF form
<1>6. /\ items = [i \in DOMAIN At(s, I) |-> items[i]]
      /\ \A i \in DOMAIN At(s, I) : \A o \in ToSet(ops) : WrittenAs("ansible", At(s, I)[i], o) => items[i] = FormShown("ansible", o)
  BY <1>5
<1> HIDE DEF items, I
<1> QED BY <1>1, <1>4, <1>6, Collected DEF Sourced

(* The screens of React Native, Flutter and SwiftUI.                        *)
LEMMA ReactNativeRead ==
    ASSUME NEW s, NEW ops, Sourced("react_native", s, ops)
    PROVE  ReadsAll(Detect("react_native", s), "react_native", ops)
<1> DEFINE I == {i \in DOMAIN s : s[i].kind = "component" /\ (s[i].params # NoFields \/ s[i].owner \in {"class", "props"})}
           kept == At(s, I)
           form(d) == Form(NameKey(d.name), [n \in DOMAIN d.params \ {"children"} |-> ""], NoFields, "")
           items == [i \in DOMAIN kept |-> form(kept[i])]
<1>1. Detect("react_native", s) = OnceEach(items)
  BY DEF Detect, ReactScreens, Collect, Kept
<1>2. \A d, o : WrittenAs("react_native", d, o) <=> Says(d, "component", "tsx", o.name, "", o.first, "", {}, <<>>, NoPath)
  BY DEF WrittenAs, Defined
<1>3. I = DOMAIN s
  <2>1. ASSUME NEW i \in DOMAIN s PROVE i \in I
    <3>1. PICK o \in ToSet(ops) : WrittenAs("react_native", s[i], o)
      BY SourcedFacts
    <3>2. o.first # NoFields
      BY SourcedFacts DEF Expressible
    <3> QED BY <1>2, <3>1, <3>2 DEF Says
  <2> QED BY <2>1
<1>4. ASSUME NEW d, NEW o \in ToSet(ops), WrittenAs("react_native", d, o) PROVE form(d) = FormShown("react_native", o)
  <2>1. d.name = o.name /\ d.params = o.first
    BY <1>2, <1>4 DEF Says
  <2>2. Skipped("react_native") = {"children"}
    BY DEF Skipped, Stagelike
  <2>3. DOMAIN d.params \ {"children"} = DOMAIN o.first
    BY <2>1, <2>2, SourcedFacts
  <2>4. [n \in DOMAIN d.params \ {"children"} |-> ""] = Untyped(o.first)
    BY <2>3 DEF Untyped
  <2>5. FormShown("react_native", o) = Form(NameKey(o.name), Untyped(o.first), NoFields, "")
    BY SourcedFacts, FormShownIs
  <2> QED BY <2>1, <2>4, <2>5
<1> HIDE DEF form
<1>5. /\ items = [i \in DOMAIN At(s, I) |-> items[i]]
      /\ \A i \in DOMAIN At(s, I) : \A o \in ToSet(ops) : WrittenAs("react_native", At(s, I)[i], o) => items[i] = FormShown("react_native", o)
  BY <1>4
<1> HIDE DEF items, I
<1>6. ReadsAll(items, "react_native", ops)
  BY <1>3, <1>5, Collected DEF Sourced
<1> QED BY <1>1, <1>6, OnceEachRead

LEMMA FlutterRead ==
    ASSUME NEW s, NEW ops, Sourced("flutter", s, ops)
    PROVE  ReadsAll(Detect("flutter", s), "flutter", ops)
<1> DEFINE bases == {"StatelessWidget", "StatefulWidget", "ConsumerWidget", "HookWidget"}
           I == {i \in DOMAIN s : s[i].kind = "class" /\ s[i].names \cap bases # {} /\ s[i].count <= 1}
           kept == At(s, I)
           form(d) == Form(NameKey(d.name), Without(d.params, {"key"}), NoFields, "")
           items == [i \in DOMAIN kept |-> form(kept[i])]
<1>1. Detect("flutter", s) = OnceEach(items)
  BY DEF Detect, FlutterScreens, Collect, Kept
<1>2. \A d, o : WrittenAs("flutter", d, o) <=> Says(d, "class", "dart", o.name, "", o.first, "", {"StatelessWidget"}, <<>>, NoPath)
  BY DEF WrittenAs, Defined
<1>3. I = DOMAIN s
  <2>1. ASSUME NEW i \in DOMAIN s PROVE i \in I
    <3>1. PICK o \in ToSet(ops) : WrittenAs("flutter", s[i], o)
      BY SourcedFacts
    <3>2. s[i].kind = "class" /\ s[i].names = {"StatelessWidget"} /\ s[i].count = 1
      BY <1>2, <3>1 DEF Says
    <3> QED BY <3>2
  <2> QED BY <2>1
<1>4. ASSUME NEW d, NEW o \in ToSet(ops), WrittenAs("flutter", d, o) PROVE form(d) = FormShown("flutter", o)
  <2>1. d.name = o.name /\ d.params = o.first
    BY <1>2, <1>4 DEF Says
  <2>2. Skipped("flutter") = {"key"}
    BY DEF Skipped, Stagelike
  <2>3. Without(o.first, {"key"}) = o.first
    BY <2>2, SourcedFacts
  <2>4. FormShown("flutter", o) = Form(NameKey(o.name), o.first, NoFields, "")
    BY SourcedFacts, FormShownIs
  <2> QED BY <2>1, <2>3, <2>4
<1> HIDE DEF form
<1>5. /\ items = [i \in DOMAIN At(s, I) |-> items[i]]
      /\ \A i \in DOMAIN At(s, I) : \A o \in ToSet(ops) : WrittenAs("flutter", At(s, I)[i], o) => items[i] = FormShown("flutter", o)
  BY <1>4
<1> HIDE DEF items, I
<1>6. ReadsAll(items, "flutter", ops)
  BY <1>3, <1>5, Collected DEF Sourced
<1> QED BY <1>1, <1>6, OnceEachRead

LEMMA SwiftuiRead ==
    ASSUME NEW s, NEW ops, Sourced("swiftui", s, ops)
    PROVE  ReadsAll(Detect("swiftui", s), "swiftui", ops)
<1> DEFINE I == {i \in DOMAIN s : s[i].kind = "struct" /\ "View" \in s[i].names}
           kept == At(s, I)
           form(d) == Form(NameKey(d.name), d.params, NoFields, "")
           items == [i \in DOMAIN kept |-> form(kept[i])]
<1>1. Detect("swiftui", s) = items
  BY DEF Detect, SwiftuiScreens, Collect, Kept
<1>2. \A d, o : WrittenAs("swiftui", d, o) <=> Says(d, "struct", "swift", o.name, "", o.first, "", {"View"}, <<>>, NoPath)
  BY DEF WrittenAs, Defined
<1>3. I = DOMAIN s
  <2>1. ASSUME NEW i \in DOMAIN s PROVE i \in I
    <3>1. PICK o \in ToSet(ops) : WrittenAs("swiftui", s[i], o)
      BY SourcedFacts
    <3> QED BY <1>2, <3>1 DEF Says
  <2> QED BY <2>1
<1>4. ASSUME NEW d, NEW o \in ToSet(ops), WrittenAs("swiftui", d, o) PROVE form(d) = FormShown("swiftui", o)
  <2>1. d.name = o.name /\ d.params = o.first
    BY <1>2, <1>4 DEF Says
  <2>2. FormShown("swiftui", o) = Form(NameKey(o.name), o.first, NoFields, "")
    BY SourcedFacts, FormShownIs
  <2> QED BY <2>1, <2>2
<1> HIDE DEF form
<1>5. /\ items = [i \in DOMAIN At(s, I) |-> items[i]]
      /\ \A i \in DOMAIN At(s, I) : \A o \in ToSet(ops) : WrittenAs("swiftui", At(s, I)[i], o) => items[i] = FormShown("swiftui", o)
  BY <1>4
<1> HIDE DEF items, I
<1> QED BY <1>1, <1>3, <1>5, Collected DEF Sourced

(* The log points of both languages.                                        *)
LEMMA LogRead ==
    ASSUME NEW f \in {"python_logging", "javascript_logging"}, NEW s, NEW ops, Sourced(f, s, ops)
    PROVE  ReadsAll(Detect(f, s), f, ops)
<1> DEFINE langs == IF f = "python_logging" THEN {"py"} ELSE {"js", "ts", "tsx", "jsx"}
           I == {i \in DOMAIN s : /\ s[i].kind = "log" /\ s[i].lang \in langs /\ s[i].name # ""
                                  /\ s[i].returns \in DOMAIN Levels /\ s[i].owner \in LogStates}
           kept == At(s, I)
           form(d) == Form(LogKey(d.name, d.owner), NoFields, NoFields, Levels[d.returns])
           items == [i \in DOMAIN kept |-> form(kept[i])]
<1>1. Detect(f, s) = items
  BY DEF Detect, PythonLogPoints, JavaScriptLogPoints, LogPoints, Collect, Kept
<1>2. \A d, o : WrittenAs(f, d, o) <=>
        Says(d, "log", IF f = "python_logging" THEN "py" ELSE "js", o.name, "start", NoFields, Level(o), {}, <<>>, NoPath)
  <2>1. CASE f = "python_logging"
    BY <2>1 DEF WrittenAs, Defined
  <2>2. CASE f = "javascript_logging"
    BY <2>2 DEF WrittenAs, Defined
  <2> QED BY <2>1, <2>2
<1>3. ASSUME NEW d, NEW o \in ToSet(ops), WrittenAs(f, d, o)
      PROVE  /\ d.kind = "log" /\ d.lang \in langs /\ d.name = o.name /\ o.name # "" /\ d.owner = "start"
             /\ d.returns = Level(o) /\ Level(o) \in DOMAIN Levels /\ Levels[Level(o)] = Level(o)
  <2>1. d.kind = "log" /\ d.lang \in langs /\ d.name = o.name /\ d.owner = "start" /\ d.returns = Level(o)
    BY <1>2, <1>3 DEF Says
  <2>2. Level(o) \in DOMAIN Levels /\ Levels[Level(o)] = Level(o)
    BY DEF Level, Levels
  <2>3. o.name # ""
    BY SourcedFacts, OperationFacts
  <2> QED BY <2>1, <2>2, <2>3
<1>4. I = DOMAIN s
  <2>1. ASSUME NEW i \in DOMAIN s PROVE i \in I
    <3>1. PICK o \in ToSet(ops) : WrittenAs(f, s[i], o)
      BY SourcedFacts
    <3> HIDE DEF langs
    <3> QED BY <1>3, <3>1 DEF LogStates
  <2> QED BY <2>1
<1>5. ASSUME NEW d, NEW o \in ToSet(ops), WrittenAs(f, d, o) PROVE form(d) = FormShown(f, o)
  <2>1. form(d) = Form(LogKey(o.name, "start"), NoFields, NoFields, Level(o))
    BY <1>3, <1>5
  <2>2. FormShown(f, o) = Form(LogKey(o.name, "start"), NoFields, NoFields, Level(o))
    BY SourcedFacts, FormShownIs
  <2> QED BY <2>1, <2>2
<1> HIDE DEF form
<1>6. /\ items = [i \in DOMAIN At(s, I) |-> items[i]]
      /\ \A i \in DOMAIN At(s, I) : \A o \in ToSet(ops) : WrittenAs(f, At(s, I)[i], o) => items[i] = FormShown(f, o)
  BY <1>5
<1> HIDE DEF items, I
<1> QED BY <1>1, <1>4, <1>6, Collected DEF Sourced

(* What a function of the source says, for the frameworks of functions.     *)
LEMMA FunctionSays ==
    ASSUME NEW f \in Defined, NEW o \in Operations, Expressible(f, o), NEW d, WrittenAs(f, d, o)
    PROVE  IsDef(d, o, TagsWritten(f, o)) /\ Without(o.first, Skipped(f)) = o.first
<1>1. IsDef(d, o, TagsWritten(f, o))
  BY DefSays
<1>2. DOMAIN o.first \cap Skipped(f) = {}
  BY DEF Expressible
<1>3. Without(o.first, Skipped(f)) = o.first
  BY <1>2, OperationFacts, WithoutNone
<1> QED BY <1>1, <1>3

(* The functions of a Python library.                                       *)
LEMMA PythonLibraryRead ==
    ASSUME NEW s, NEW ops, Sourced("python_library", s, ops)
    PROVE  ReadsAll(Detect("python_library", s), "python_library", ops)
<1> DEFINE defs == Defs(s)
           public == UNION {d.names : d \in ToSet(OfKind(s, "all"))}
           I == {i \in DOMAIN defs : IF public # {} THEN defs[i].name \in public ELSE ~ Private(defs[i])}
           kept == At(defs, I)
           form(d) == Form(NameKey(d.name), Without(d.params, ParamSkip), NoFields, d.returns)
           items == [i \in DOMAIN kept |-> form(kept[i])]
<1>1. Detect("python_library", s) = OnceEach(items)
  BY DEF Detect, PythonFunctions, Collect, Kept
<1>2. "python_library" \in Defined /\ Skipped("python_library") = ParamSkip
  BY DEF Defined, Skipped, Stagelike
<1>3. Sourced("python_library", defs, ops)
  BY <1>2, DefsSourced
<1>4. public = {}
  <2> DEFINE J == {i \in DOMAIN s : s[i].kind = "all"}
  <2>1. J = {}
    <3>1. ASSUME NEW i \in DOMAIN s PROVE s[i].kind # "all"
      <4>1. PICK o \in ToSet(ops) : WrittenAs("python_library", s[i], o)
        BY SourcedFacts
      <4> QED BY <1>2, <4>1, SourcedFacts, FunctionSays DEF IsDef, Says
    <3> QED BY <3>1
  <2>2. OfKind(s, "all") = At(s, J)
    BY DEF OfKind, Kept
  <2> HIDE DEF J
  <2>3. ToSet(OfKind(s, "all")) = {}
    BY <2>1, <2>2, NoneKept, Tuples DEF Sourced, Carries
  <2> QED BY <2>3
<1> HIDE DEF defs, public
<1>5. I = DOMAIN defs
  <2>1. ASSUME NEW i \in DOMAIN defs PROVE i \in I
    <3>1. PICK o \in ToSet(ops) : WrittenAs("python_library", defs[i], o)
      BY <1>3, SourcedFacts
    <3>2. defs[i].owner = ""
      <4>1. IsDef(defs[i], o, TagsWritten("python_library", o))
        BY <1>2, <3>1, DefSays
      <4> QED BY <4>1 DEF IsDef, Says
    <3> QED BY <1>4, <3>2 DEF Private
  <2> QED BY <2>1
<1>6. ASSUME NEW d, NEW o \in ToSet(ops), WrittenAs("python_library", d, o) PROVE form(d) = FormShown("python_library", o)
  <2>1. d.name = o.name /\ Without(d.params, ParamSkip) = o.first /\ d.returns = o.scalar
    <3>1. o \in Operations /\ Expressible("python_library", o)
      BY SourcedFacts
    <3>2. IsDef(d, o, TagsWritten("python_library", o)) /\ Without(o.first, ParamSkip) = o.first
      BY <1>2, <1>6, <3>1, FunctionSays
    <3> QED BY <3>2 DEF IsDef, Says
  <2>2. FormShown("python_library", o) = Form(NameKey(o.name), o.first, NoFields, o.scalar)
    BY SourcedFacts, FormShownIs
  <2> QED BY <2>1, <2>2
<1> HIDE DEF form
<1>7. /\ items = [i \in DOMAIN At(defs, I) |-> items[i]]
      /\ \A i \in DOMAIN At(defs, I) : \A o \in ToSet(ops) :
            WrittenAs("python_library", At(defs, I)[i], o) => items[i] = FormShown("python_library", o)
  BY <1>6
<1> HIDE DEF items, I
<1>8. ReadsAll(items, "python_library", ops)
  BY <1>3, <1>5, <1>7, Collected DEF Sourced
<1> QED BY <1>1, <1>8, OnceEachRead

(* The detector of JSON schemas reads the functions of its own sources, and *)
(* tools of LangChain's alike.                                              *)
LEMMA ToolsRead ==
    ASSUME NEW f \in {"tool_schema", "langchain"}, NEW s, NEW ops, Sourced(f, s, ops)
    PROVE  ReadsSome(Detect("tool_schema", s), f, ops) /\ (f = "tool_schema" => ReadsAll(Detect("tool_schema", s), f, ops))
<1> DEFINE params(d) == Without(d.params, ParamSkip)
           typed(d) == \E n \in DOMAIN params(d) : params(d)[n] # ""
           shown(d) == IF d.kind = "entry" THEN d.params
                       ELSE IF typed(d) \/ d.doc = NoFields THEN params(d) ELSE d.doc
           I == {i \in DOMAIN s : s[i].kind = "entry" \/ (s[i].kind = "def" /\ ~ Private(s[i]) /\ shown(s[i]) # NoFields)}
           kept == At(s, I)
           form(d) == Form(NameKey(d.name), shown(d), NoFields, "")
           items == [i \in DOMAIN kept |-> form(kept[i])]
<1>1. Detect("tool_schema", s) = items
  BY DEF Detect, SchemaTools, Collect, Kept
<1>2. f \in Defined /\ Skipped(f) = ParamSkip
  BY DEF Defined, Skipped, Stagelike
<1>3. ASSUME NEW d, NEW o \in ToSet(ops), WrittenAs(f, d, o)
      PROVE  d.kind = "def" /\ ~ Private(d) /\ d.name = o.name /\ shown(d) = o.first
  <2>1. d.kind = "def" /\ d.owner = "" /\ d.name = o.name /\ d.doc = NoFields /\ params(d) = o.first
    <3>1. o \in Operations /\ Expressible(f, o)
      BY SourcedFacts
    <3>2. IsDef(d, o, TagsWritten(f, o)) /\ Without(o.first, ParamSkip) = o.first
      BY <1>2, <1>3, <3>1, FunctionSays
    <3> QED BY <3>2 DEF IsDef, Says
  <2>2. shown(d) = o.first
    BY <2>1
  <2> QED BY <2>1, <2>2 DEF Private
<1> HIDE DEF shown
<1>4. f = "tool_schema" => I = DOMAIN s
  <2>1. ASSUME f = "tool_schema", NEW i \in DOMAIN s PROVE i \in I
    <3>1. PICK o \in ToSet(ops) : WrittenAs(f, s[i], o)
      BY SourcedFacts
    <3>2. o.first # NoFields
      BY <2>1, SourcedFacts DEF Expressible
    <3>3. s[i].kind = "def" /\ ~ Private(s[i]) /\ shown(s[i]) = o.first
      BY <1>3, <3>1
    <3> QED BY <3>2, <3>3
  <2> QED BY <2>1
<1>5. ASSUME NEW d, NEW o \in ToSet(ops), WrittenAs(f, d, o) PROVE form(d) = FormShown(f, o)
  <2>1. d.name = o.name /\ shown(d) = o.first
    BY <1>3, <1>5
  <2>2. FormShown(f, o) = Form(NameKey(o.name), o.first, NoFields, "")
    BY SourcedFacts, FormShownIs
  <2> QED BY <2>1, <2>2
<1>6. Within(f, kept, ops)
  <2>1. Within(f, s, ops) /\ I \subseteq DOMAIN s
    BY DEF Sourced, Carries, Within
  <2> HIDE DEF I
  <2> QED BY <2>1, WithinKept
<1> HIDE DEF form
<1>7. /\ items = [i \in DOMAIN kept |-> items[i]]
      /\ \A i \in DOMAIN kept : \A o \in ToSet(ops) : WrittenAs(f, kept[i], o) => items[i] = FormShown(f, o)
  BY <1>5
<1> HIDE DEF items, I
<1>8. ReadsSome(items, f, ops)
  BY <1>6, <1>7, SomeRead
<1>9. f = "tool_schema" => ReadsAll(items, f, ops)
  BY <1>4, <1>7, Collected DEF Sourced
<1> QED BY <1>1, <1>8, <1>9

(* LangChain's tools.                                                       *)
LEMMA LangchainRead ==
    ASSUME NEW s, NEW ops, Sourced("langchain", s, ops)
    PROVE  ReadsAll(Detect("langchain", s), "langchain", ops)
<1> DEFINE defs == Defs(s)
           tool(d) == TagsOf(d, LAMBDA t : t.name = "tool")
           name(d) == IF tool(d)[1].called /\ tool(d)[1].given # "" THEN tool(d)[1].given ELSE d.name
           I == {i \in DOMAIN defs : tool(defs[i]) # <<>>}
           kept == At(defs, I)
           form(d) == Form(NameKey(name(d)), Without(d.params, ParamSkip), NoFields, "")
           items == [i \in DOMAIN kept |-> form(kept[i])]
<1>1. Detect("langchain", s) = items
  BY DEF Detect, LangchainTools, Collect, Kept
<1>2. "langchain" \in Defined /\ Skipped("langchain") = ParamSkip
  BY DEF Defined, Skipped, Stagelike
<1>3. Sourced("langchain", defs, ops)
  BY <1>2, DefsSourced
<1>4. ASSUME NEW d, NEW o \in ToSet(ops), WrittenAs("langchain", d, o)
      PROVE  tool(d) # <<>> /\ name(d) = o.name /\ Without(d.params, ParamSkip) = o.first
  <2> DEFINE tag == Tag("tool", FALSE, FALSE, "")
  <2>1. d.tags = <<tag>> /\ d.name = o.name /\ Without(d.params, ParamSkip) = o.first
    <3>1. o \in Operations /\ Expressible("langchain", o)
      BY SourcedFacts
    <3>2. TagsWritten("langchain", o) = <<tag>>
      BY DEF TagsWritten
    <3>3. IsDef(d, o, <<tag>>) /\ Without(o.first, ParamSkip) = o.first
      BY <1>2, <1>4, <3>1, <3>2, FunctionSays
    <3> QED BY <3>3 DEF IsDef, Says
  <2>2. tag.name = "tool" /\ tag.called = FALSE
    BY DEF Tag
  <2> HIDE DEF tag
  <2>3. DOMAIN d.tags = {1} /\ d.tags[1] = tag
    BY <2>1, Tuples
  <2>4. {i \in DOMAIN d.tags : d.tags[i].name = "tool"} = {1}
    BY <2>2, <2>3
  <2>5. tool(d) # <<>> /\ tool(d)[1] = tag
    BY <2>1, <2>4, OneTag DEF TagsOf, Kept
  <2> QED BY <2>1, <2>2, <2>5
<1> HIDE DEF defs, tool, name
<1>5. I = DOMAIN defs
  <2>1. ASSUME NEW i \in DOMAIN defs PROVE i \in I
    <3>1. PICK o \in ToSet(ops) : WrittenAs("langchain", defs[i], o)
      BY <1>3, SourcedFacts
    <3> QED BY <1>4, <3>1
  <2> QED BY <2>1
<1>6. ASSUME NEW d, NEW o \in ToSet(ops), WrittenAs("langchain", d, o) PROVE form(d) = FormShown("langchain", o)
  <2>1. name(d) = o.name /\ Without(d.params, ParamSkip) = o.first
    BY <1>4, <1>6
  <2>2. FormShown("langchain", o) = Form(NameKey(o.name), o.first, NoFields, "")
    BY SourcedFacts, FormShownIs
  <2> QED BY <2>1, <2>2
<1> HIDE DEF form
<1>7. /\ items = [i \in DOMAIN At(defs, I) |-> items[i]]
      /\ \A i \in DOMAIN At(defs, I) : \A o \in ToSet(ops) :
            WrittenAs("langchain", At(defs, I)[i], o) => items[i] = FormShown("langchain", o)
  BY <1>6
<1> HIDE DEF items, I
<1> QED BY <1>1, <1>3, <1>5, <1>7, Collected DEF Sourced

-----------------------------------------------------------------------------
(* Routes of Python frameworks.                                             *)

(* All that is kept is one thing, and there is some.                        *)
LEMMA OnlyKept ==
    ASSUME NEW s, IsSeq(s), NEW I, I \subseteq DOMAIN s, I # {}, NEW t, \A i \in I : s[i] = t
    PROVE  At(s, I) # <<>> /\ At(s, I)[1] = t
<1> DEFINE kept == At(s, I)
<1>1. IsSeq(kept) /\ ToSet(kept) = {t}
  <2>1. IsSeq(kept) /\ ToSet(kept) = {s[i] : i \in I}
    BY AtFacts
  <2>2. {s[i] : i \in I} = {t}
    OBVIOUS
  <2> QED BY <2>1, <2>2
<1> HIDE DEF kept
<1>2. kept # <<>> /\ 1 \in DOMAIN kept
  <2>1. kept # <<>> /\ Len(kept) # 0 /\ Len(kept) \in Nat /\ DOMAIN kept = 1..Len(kept)
    BY <1>1, SeqFacts
  <2> QED BY <2>1
<1>3. kept[1] \in ToSet(kept)
  BY <1>2 DEF ToSet
<1> QED BY <1>1, <1>2, <1>3 DEF kept

(* Without classes, what is returned is what is told.                       *)
LEMMA NoClasses ==
    ASSUME NEW s, \A c \in ToSet(s) : c.kind # "class", NEW d
    PROVE  OutputFields(s, d) = d.literal
<1>1. {c \in ToSet(s) : c.kind = "class" /\ c.file = d.file /\ c.name = Bare(d.returns) /\ c.params # NoFields} = {}
  OBVIOUS
<1> QED BY <1>1 DEF OutputFields

(* A detector that takes every declaration for items of one form.           *)
LEMMA FlatRead ==
    ASSUME NEW f, NEW s, NEW ops, Carries(f, s, ops), NEW ss, ss = [i \in DOMAIN s |-> ss[i]],
           \A i \in DOMAIN s : \A o \in ToSet(ops) :
               WrittenAs(f, s[i], o) => IsSeq(ss[i]) /\ ToSet(ss[i]) = {FormShown(f, o)}
    PROVE  ReadsAll(FlattenSeq(ss), f, ops)
<1> DEFINE items == FlattenSeq(ss)
<1>1. \A i \in DOMAIN s : s[i] \in ToSet(s) /\ \E o \in ToSet(ops) : WrittenAs(f, s[i], o)
  BY DEF ToSet, Carries
<1>2. IsSeq(ss) /\ DOMAIN ss = DOMAIN s
  BY MapFacts DEF Carries
<1>3. \A i \in DOMAIN ss : IsSeq(ss[i])
  BY <1>1, <1>2
<1>4. IsSeq(items) /\ ToSet(items) = UNION {ToSet(ss[i]) : i \in DOMAIN ss}
  BY <1>2, <1>3, FlattenFacts
<1> HIDE DEF items
<1>5. ASSUME NEW x \in ToSet(items) PROVE x \in {FormShown(f, o) : o \in ToSet(ops)}
  <2>1. PICK i \in DOMAIN s : x \in ToSet(ss[i])
    BY <1>2, <1>4
  <2>2. PICK o \in ToSet(ops) : WrittenAs(f, s[i], o)
    BY <1>1
  <2> QED BY <2>1, <2>2
<1>6. ASSUME NEW o \in ToSet(ops) PROVE KeyShown(f, o) \in KeysOf(items)
  <2>1. PICK d \in ToSet(s) : WrittenAs(f, d, o)
    BY DEF Carries
  <2>2. PICK i \in DOMAIN s : d = s[i]
    BY DEF ToSet
  <2>3. FormShown(f, o) \in ToSet(items)
    BY <1>2, <1>4, <2>1, <2>2
  <2> QED BY <2>3, KeyOfForm DEF KeysOf
<1> QED BY <1>4, <1>5, <1>6 DEF items, ReadsAll, ReadsSome

(* The routes of FastAPI, and of Flask, which may serve several verbs.      *)
LEMMA FastAPIRead ==
    ASSUME NEW s, NEW ops, Sourced("fastapi", s, ops)
    PROVE  ReadsAll(Detect("fastapi", s), "fastapi", ops)
<1> DEFINE defs == Defs(s)
           routes(d) == TagsOf(d, LAMBDA t : t.called /\ t.on /\ t.name \in Verbs /\ t.fixed)
           I == {i \in DOMAIN defs : routes(defs[i]) # <<>>}
           kept == At(defs, I)
           form(d) == Endpoint(s, d, routes(d)[1].name, routes(d)[1].path, FastAPISkip)
           items == [i \in DOMAIN kept |-> form(kept[i])]
<1>1. Detect("fastapi", s) = items
  BY DEF Detect, FastAPIEndpoints, Collect, Kept
<1>2. "fastapi" \in Defined /\ Skipped("fastapi") = FastAPISkip
  BY DEF Defined, Skipped, Stagelike
<1>3. Sourced("fastapi", defs, ops)
  BY <1>2, DefsSourced
<1>4. ASSUME NEW d, NEW o \in ToSet(ops), WrittenAs("fastapi", d, o)
      PROVE  routes(d) # <<>> /\ form(d) = FormShown("fastapi", o)
  <2> DEFINE path == Route("fastapi", o)
             tag == [Tag(o.verb, TRUE, TRUE, "") EXCEPT !.path = path]
  <2>1. o \in Operations /\ Expressible("fastapi", o)
    BY SourcedFacts
  <2>2. TagsWritten("fastapi", o) = <<tag>>
    BY DEF TagsWritten
  <2> HIDE DEF path
  <2>3. tag.name = o.verb /\ tag.called = TRUE /\ tag.on = TRUE /\ tag.fixed = TRUE /\ tag.path = path
    BY DEF Tag
  <2> HIDE DEF tag
  <2>4. IsDef(d, o, <<tag>>) /\ Without(o.first, FastAPISkip) = o.first
    BY <1>2, <1>4, <2>1, <2>2, FunctionSays
  <2>5. d.tags = <<tag>> /\ d.params = o.first /\ d.literal = o.second
    BY <2>4 DEF IsDef, Says
  <2>6. DOMAIN d.tags = {1} /\ d.tags[1] = tag
    BY <2>5, Tuples
  <2>7. o.verb \in Verbs
    BY <2>1, OperationFacts
  <2>8. {i \in DOMAIN d.tags : d.tags[i].called /\ d.tags[i].on /\ d.tags[i].name \in Verbs /\ d.tags[i].fixed} = {1}
    BY <2>3, <2>6, <2>7
  <2>9. routes(d) # <<>> /\ routes(d)[1] = tag
    BY <2>5, <2>8, OneTag DEF TagsOf, Kept
  <2>10. OutputFields(s, d) = o.second
    <3>1. Within("fastapi", s, ops)
      BY DEF Sourced, Carries, Within
    <3> QED BY <1>2, <2>5, <3>1, DefOutput
  <2> HIDE DEF routes
  <2>11. form(d) = Form(EndpointKey(o.verb, path), o.first, o.second, "")
    BY <2>3, <2>4, <2>5, <2>9, <2>10 DEF Endpoint
  <2>12. path = Path(o.name, "braces", o.arg)
    BY DEF path, Route
  <2>13. FormShown("fastapi", o) = Form(EndpointKey(o.verb, Path(o.name, "braces", o.arg)), o.first, o.second, "")
    BY <2>1, FormShownIs
  <2> QED BY <2>9, <2>11, <2>12, <2>13
<1> HIDE DEF defs, routes, form
<1>5. I = DOMAIN defs
  <2>1. ASSUME NEW i \in DOMAIN defs PROVE i \in I
    <3>1. PICK o \in ToSet(ops) : WrittenAs("fastapi", defs[i], o)
      BY <1>3, SourcedFacts
    <3> QED BY <1>4, <3>1
  <2> QED BY <2>1
<1>6. /\ items = [i \in DOMAIN At(defs, I) |-> items[i]]
      /\ \A i \in DOMAIN At(defs, I) : \A o \in ToSet(ops) :
            WrittenAs("fastapi", At(defs, I)[i], o) => items[i] = FormShown("fastapi", o)
  BY <1>4
<1> HIDE DEF items, I
<1> QED BY <1>1, <1>3, <1>5, <1>6, Collected DEF Sourced

(* One verb, one endpoint.                                                  *)
LEMMA PerVerbOne ==
    ASSUME NEW s, NEW d, NEW v \in Verbs, NEW path
    PROVE  /\ IsSeq(PerVerb(s, d, {v}, path))
           /\ ToSet(PerVerb(s, d, {v}, path)) = {Endpoint(s, d, v, path, FlaskSkip)}
<1> DEFINE order7 == <<"GET", "POST", "PUT", "DELETE", "PATCH", "HEAD", "OPTIONS">>
           I == {i \in DOMAIN order7 : order7[i] \in {v} \cap Verbs}
           kept == At(order7, I)
           form(w) == Endpoint(s, d, w, path, FlaskSkip)
           items == [i \in DOMAIN kept |-> form(kept[i])]
<1>1. PerVerb(s, d, {v}, path) = items
  BY DEF PerVerb, Collect, Kept
<1>2. IsSeq(order7) /\ \A w \in Verbs : \E i \in DOMAIN order7 : order7[i] = w
  <2>1. order7 = [i \in 1..7 |-> order7[i]]
    OBVIOUS
  <2>2. IsSeq(order7)
    BY <2>1, SeqIs
  <2>3. DOMAIN order7 = 1..7 /\ order7[1] = "GET" /\ order7[2] = "POST" /\ order7[3] = "PUT" /\ order7[4] = "DELETE"
        /\ order7[5] = "PATCH" /\ order7[6] = "HEAD" /\ order7[7] = "OPTIONS"
    OBVIOUS
  <2> HIDE DEF order7
  <2> QED BY <2>2, <2>3 DEF Verbs
<1> HIDE DEF order7
<1>3. IsSeq(kept) /\ ToSet(kept) = {v}
  <2>1. I \in SUBSET DOMAIN order7 /\ {order7[i] : i \in I} = {v}
    BY <1>2
  <2> HIDE DEF I
  <2> QED BY <1>2, <2>1, AtFacts
<1> HIDE DEF kept, form
<1>4. items = [i \in DOMAIN kept |-> items[i]] /\ \A i \in DOMAIN kept : items[i] = form(kept[i])
  OBVIOUS
<1> HIDE DEF items
<1>5. IsSeq(items) /\ DOMAIN items = DOMAIN kept
  BY <1>3, <1>4, MapFacts
<1>6. ToSet(items) = {form(v)}
  BY <1>3, <1>4, <1>5 DEF ToSet
<1> QED BY <1>1, <1>5, <1>6 DEF form

(* Flask's routes.                                                          *)
LEMMA FlaskRead ==
    ASSUME NEW s, NEW ops, Sourced("flask", s, ops)
    PROVE  ReadsAll(Detect("flask", s), "flask", ops)
<1> DEFINE defs == Defs(s)
           routes(d) == TagsOf(d, LAMBDA t : t.called /\ t.on /\ t.name = "route" /\ t.fixed)
           verbs(t) == IF t.verbs = {} THEN {"GET"} ELSE t.verbs
           I == {i \in DOMAIN defs : routes(defs[i]) # <<>>}
           kept == At(defs, I)
           part(d) == PerVerb(s, d, verbs(routes(d)[1]), routes(d)[1].path)
           parts == [i \in DOMAIN kept |-> part(kept[i])]
<1>1. Detect("flask", s) = FlattenSeq(parts)
  BY DEF Detect, FlaskEndpoints, Collect, Kept
<1>2. "flask" \in Defined /\ Skipped("flask") = FlaskSkip
  BY DEF Defined, Skipped, Stagelike
<1>3. Sourced("flask", defs, ops)
  BY <1>2, DefsSourced
<1>4. ASSUME NEW d, NEW o \in ToSet(ops), WrittenAs("flask", d, o)
      PROVE  routes(d) # <<>> /\ IsSeq(part(d)) /\ ToSet(part(d)) = {FormShown("flask", o)}
  <2> DEFINE path == Route("flask", o)
             tag == [Tag("route", TRUE, TRUE, "") EXCEPT !.path = path, !.verbs = {o.verb}]
  <2>1. o \in Operations /\ Expressible("flask", o)
    BY SourcedFacts
  <2>2. TagsWritten("flask", o) = <<tag>>
    BY DEF TagsWritten
  <2> HIDE DEF path
  <2>3. tag.name = "route" /\ tag.called = TRUE /\ tag.on = TRUE /\ tag.fixed = TRUE /\ tag.path = path /\ tag.verbs = {o.verb}
    BY DEF Tag
  <2> HIDE DEF tag
  <2>4. IsDef(d, o, <<tag>>) /\ Without(o.first, FlaskSkip) = o.first
    BY <1>2, <1>4, <2>1, <2>2, FunctionSays
  <2>5. d.tags = <<tag>> /\ d.params = o.first /\ d.literal = o.second
    BY <2>4 DEF IsDef, Says
  <2>6. DOMAIN d.tags = {1} /\ d.tags[1] = tag
    BY <2>5, Tuples
  <2>7. o.verb \in Verbs
    BY <2>1, OperationFacts
  <2>8. {i \in DOMAIN d.tags : d.tags[i].called /\ d.tags[i].on /\ d.tags[i].name = "route" /\ d.tags[i].fixed} = {1}
    BY <2>3, <2>6
  <2>9. routes(d) # <<>> /\ routes(d)[1] = tag
    BY <2>5, <2>8, OneTag DEF TagsOf, Kept
  <2>10. OutputFields(s, d) = o.second
    <3>1. Within("flask", s, ops)
      BY DEF Sourced, Carries, Within
    <3> QED BY <1>2, <2>5, <3>1, DefOutput
  <2> HIDE DEF routes
  <2>11. part(d) = PerVerb(s, d, {o.verb}, path)
    BY <2>3, <2>9
  <2>12. Endpoint(s, d, o.verb, path, FlaskSkip) = Form(EndpointKey(o.verb, path), o.first, o.second, "")
    BY <2>4, <2>5, <2>10 DEF Endpoint
  <2>13. path = Path(o.name, "converter", o.arg)
    BY DEF path, Route
  <2>14. FormShown("flask", o) = Form(EndpointKey(o.verb, Path(o.name, "converter", o.arg)), o.first, o.second, "")
    BY <2>1, FormShownIs
  <2>15. IsSeq(part(d)) /\ ToSet(part(d)) = {Endpoint(s, d, o.verb, path, FlaskSkip)}
    BY <2>7, <2>11, PerVerbOne
  <2> QED BY <2>9, <2>12, <2>13, <2>14, <2>15
<1> HIDE DEF defs, routes, part
<1>5. I = DOMAIN defs
  <2>1. ASSUME NEW i \in DOMAIN defs PROVE i \in I
    <3>1. PICK o \in ToSet(ops) : WrittenAs("flask", defs[i], o)
      BY <1>3, SourcedFacts
    <3> QED BY <1>4, <3>1
  <2> QED BY <2>1
<1>6. /\ parts = [i \in DOMAIN kept |-> parts[i]]
      /\ \A i \in DOMAIN kept : \A o \in ToSet(ops) :
            WrittenAs("flask", kept[i], o) => IsSeq(parts[i]) /\ ToSet(parts[i]) = {FormShown("flask", o)}
  BY <1>4
<1> HIDE DEF parts, I
<1>7. Carries("flask", kept, ops)
  BY <1>3, <1>5, CarriedOn DEF Sourced
<1> HIDE DEF kept
<1> QED BY <1>1, <1>6, <1>7, FlatRead

-----------------------------------------------------------------------------
(* Commands.                                                                *)

(* The keys alone are those of operations.                                  *)
KeysRead(items, f, ops) == IsSeq(items) /\ KeysOf(items) \subseteq {KeyShown(f, o) : o \in ToSet(ops)}

(* A function with one decorator, which makes a command of it.              *)
LEMMA CommandOf ==
    ASSUME NEW d, NEW t, d.tags = <<t>>, t.called = TRUE, t.on = TRUE, t.name = "command"
    PROVE  Commands(d) # <<>> /\ Commands(d)[1] = t
<1> DEFINE I == {i \in DOMAIN d.tags : d.tags[i].called /\ d.tags[i].on /\ d.tags[i].name = "command"}
<1>1. DOMAIN d.tags = {1} /\ d.tags[1] = t
  BY Tuples
<1>2. I = {1}
  BY <1>1
<1>3. Commands(d) = At(d.tags, I)
  BY DEF Commands, TagsOf, Kept
<1> HIDE DEF I
<1> QED BY <1>2, <1>3, OneTag

(* A command of Typer's says its operation.                                 *)
LEMMA TyperSays ==
    ASSUME NEW o \in Operations, Expressible("typer", o), NEW d, WrittenAs("typer", d, o)
    PROVE  /\ IsDef(d, o, <<Tag("command", TRUE, TRUE, o.name)>>) /\ Without(o.first, {"self", "ctx"}) = o.first
           /\ Commands(d) # <<>> /\ CommandName(d) = o.name
<1> DEFINE tag == Tag("command", TRUE, TRUE, o.name)
<1>1. "typer" \in Defined /\ Skipped("typer") = {"self", "ctx"} /\ TagsWritten("typer", o) = <<tag>>
  BY DEF Defined, Skipped, Stagelike, TagsWritten
<1>2. tag.called = TRUE /\ tag.on = TRUE /\ tag.name = "command" /\ tag.given = o.name
  BY DEF Tag
<1> HIDE DEF tag
<1>3. IsDef(d, o, <<tag>>) /\ Without(o.first, {"self", "ctx"}) = o.first
  BY <1>1, FunctionSays
<1>4. d.tags = <<tag>>
  BY <1>3 DEF IsDef, Says
<1>5. Commands(d) # <<>> /\ Commands(d)[1] = tag
  BY <1>2, <1>4, CommandOf
<1>6. CommandName(d) = o.name
  BY <1>2, <1>5, OperationFacts DEF CommandName
<1> QED BY <1>3, <1>5, <1>6 DEF tag

(* Typer's commands.                                                        *)
LEMMA TyperRead ==
    ASSUME NEW s, NEW ops, Sourced("typer", s, ops)
    PROVE  ReadsAll(Detect("typer", s), "typer", ops)
<1> DEFINE defs == Defs(s)
           params(d) == Without(d.params, {"self", "ctx"})
           flag(d, n) == IF n \in DOMAIN d.aliases THEN d.aliases[n] ELSE n
           typed(t) == IF t = "" THEN "str" ELSE t
           flags(d) == [g \in {flag(d, n) : n \in DOMAIN params(d)} |->
                           typed(params(d)[CHOOSE n \in DOMAIN params(d) : flag(d, n) = g])]
           I == {i \in DOMAIN defs : Commands(defs[i]) # <<>>}
           kept == At(defs, I)
           form(d) == Form(NameKey(CommandName(d)), flags(d), NoFields, "")
           items == [i \in DOMAIN kept |-> form(kept[i])]
<1>1. Detect("typer", s) = items
  BY DEF Detect, TyperCommands, Collect, Kept
<1>2. "typer" \in Defined
  BY DEF Defined
<1>3. Sourced("typer", defs, ops)
  BY <1>2, DefsSourced
<1>4. ASSUME NEW d, NEW o \in ToSet(ops), WrittenAs("typer", d, o)
      PROVE  Commands(d) # <<>> /\ form(d) = FormShown("typer", o)
  <2>1. o \in Operations /\ Expressible("typer", o)
    BY SourcedFacts
  <2>2. /\ IsDef(d, o, <<Tag("command", TRUE, TRUE, o.name)>>) /\ Without(o.first, {"self", "ctx"}) = o.first
        /\ Commands(d) # <<>> /\ CommandName(d) = o.name
    BY <1>4, <2>1, TyperSays
  <2>3. params(d) = o.first /\ d.aliases = NoFields
    BY <2>2 DEF IsDef, Says
  <2>4. \A n : flag(d, n) = n
    BY <2>3 DEF NoFields
  <2> DEFINE names == DOMAIN o.first
  <2>5. {flag(d, n) : n \in DOMAIN params(d)} = names
    BY <2>3, <2>4
  <2>6. \A g \in names : (CHOOSE n \in DOMAIN params(d) : flag(d, n) = g) = g
    BY <2>3, <2>4
  <2> HIDE DEF params, flag, typed
  <2>7. flags(d) = [g \in names |-> typed(o.first[g])]
    BY <2>3, <2>5, <2>6
  <2>8. flags(d) = [n \in DOMAIN o.first |-> IF o.first[n] = "" THEN "str" ELSE o.first[n]]
    BY <2>7 DEF typed
  <2>9. FormShown("typer", o) = Form(NameKey(o.name), [n \in DOMAIN o.first |-> IF o.first[n] = "" THEN "str" ELSE o.first[n]], NoFields, "")
    BY <2>1, FormShownIs
  <2> HIDE DEF flags
  <2> QED BY <2>2, <2>8, <2>9
<1> HIDE DEF defs, form
<1>5. I = DOMAIN defs
  <2>1. ASSUME NEW i \in DOMAIN defs PROVE i \in I
    <3>1. PICK o \in ToSet(ops) : WrittenAs("typer", defs[i], o)
      BY <1>3, SourcedFacts
    <3> QED BY <1>4, <3>1
  <2> QED BY <2>1
<1>6. /\ items = [i \in DOMAIN At(defs, I) |-> items[i]]
      /\ \A i \in DOMAIN At(defs, I) : \A o \in ToSet(ops) :
            WrittenAs("typer", At(defs, I)[i], o) => items[i] = FormShown("typer", o)
  BY <1>4
<1> HIDE DEF items, I
<1> QED BY <1>1, <1>3, <1>5, <1>6, Collected DEF Sourced

(* Click's detector on a source of Typer's: whatever it takes for options,  *)
(* the names are those of the commands.                                     *)
LEMMA TyperSeenByClick ==
    ASSUME NEW s, NEW ops, Sourced("typer", s, ops)
    PROVE  KeysRead(Detect("click", s), "typer", ops)
<1> DEFINE defs == Defs(s)
           options(d) == TagsOf(d, LAMBDA t : t.called /\ t.on /\ t.name \in {"option", "argument"} /\ t.given # "")
           flags(d) == [n \in {t.given : t \in ToSet(options(d))} |->
                           LET t == CHOOSE o \in ToSet(options(d)) : o.given = n
                           IN  IF t.type = "" THEN "str" ELSE t.type]
           I == {i \in DOMAIN defs : ~ defs[i].async /\ Commands(defs[i]) # <<>>}
           kept == At(defs, I)
           form(d) == Form(NameKey(CommandName(d)), flags(d), NoFields, "")
           items == [i \in DOMAIN kept |-> form(kept[i])]
<1>1. Detect("click", s) = items
  BY DEF Detect, ClickCommands, Collect, Kept
<1>2. Sourced("typer", defs, ops)
  BY DefsSourced DEF Defined
<1> HIDE DEF defs, flags
<1>3. Within("typer", kept, ops)
  <2>1. Within("typer", defs, ops) /\ I \subseteq DOMAIN defs
    BY <1>2 DEF Sourced, Carries, Within
  <2> HIDE DEF I
  <2> QED BY <2>1, WithinKept
<1> HIDE DEF kept
<1>4. items = [i \in DOMAIN kept |-> items[i]] /\ \A i \in DOMAIN kept : items[i].key = NameKey(CommandName(kept[i]))
  <2>1. \A d : form(d).key = NameKey(CommandName(d))
    BY DEF Form
  <2> HIDE DEF form
  <2> QED BY <2>1
<1> HIDE DEF items
<1>5. IsSeq(items) /\ DOMAIN items = DOMAIN kept
  BY <1>3, <1>4, MapFacts DEF Within
<1>6. ASSUME NEW x \in ToSet(items) PROVE x.key \in {KeyShown("typer", o) : o \in ToSet(ops)}
  <2>1. PICK i \in DOMAIN kept : x = items[i]
    BY <1>5 DEF ToSet
  <2>2. PICK o \in ToSet(ops) : WrittenAs("typer", kept[i], o)
    BY <1>3 DEF Within, ToSet
  <2>3. o \in Operations /\ Expressible("typer", o)
    BY SourcedFacts
  <2>4. x.key = NameKey(o.name)
    BY <1>4, <2>1, <2>2, <2>3, TyperSays
  <2>5. KeyShown("typer", o) = NameKey(o.name)
    BY Capabilities DEF KeyShown, KeySaid
  <2> QED BY <2>4, <2>5
<1> QED BY <1>1, <1>5, <1>6 DEF KeysRead, KeysOf

(* SetToSeq, chosen among the sequences of the set's length: the set.       *)
LEMMA SetToSeqFacts ==
    ASSUME NEW S, IsFiniteSet(S)
    PROVE  IsSeq(SetToSeq(S)) /\ ToSet(SetToSeq(S)) = S
<1> DEFINE n == Cardinality(S)
           q == SetToSeq(S)
<1>1. n \in Nat /\ ExistsBijection(1..n, S)
  BY FS_CardinalityType
<1>2. \E g \in [1..n -> S] : IsInjective(g)
  BY <1>1 DEF ExistsBijection, Bijection, Injection
<1>3. q \in [1..n -> S] /\ IsInjective(q)
  BY <1>2 DEF SetToSeq
<1>4. q \in Injection(1..n, S)
  BY <1>3 DEF Injection
<1>5. Cardinality(1..n) = n
  BY <1>1, FS_Interval
<1>6. q \in Surjection(1..n, S)
  BY <1>4, <1>5, FS_Injection
<1> HIDE DEF n, q
<1>7. DOMAIN q = 1..n /\ ToSet(q) = S
  BY <1>3, <1>6 DEF Surjection, ToSet
<1>8. IsSeq(q)
  BY <1>1, <1>3, <1>7, SeqIs
<1> QED BY <1>7, <1>8 DEF q

(* The options of a command, one decorator each.                            *)
LEMMA OptionsFacts ==
    ASSUME NEW o \in Operations
    PROVE  /\ IsSeq(Options(o))
           /\ ToSet(Options(o)) = {[Tag("option", TRUE, TRUE, n) EXCEPT !.type = o.first[n]] : n \in DOMAIN o.first}
<1> DEFINE names == SetToSeq(DOMAIN o.first)
           tag(n) == [Tag("option", TRUE, TRUE, n) EXCEPT !.type = o.first[n]]
           tags == [i \in DOMAIN names |-> tag(names[i])]
<1>1. Options(o) = tags
  BY DEF Options
<1>2. IsSeq(names) /\ ToSet(names) = DOMAIN o.first
  BY OperationFacts, SetToSeqFacts
<1> HIDE DEF names, tag
<1>3. tags = [i \in DOMAIN names |-> tags[i]] /\ \A i \in DOMAIN names : tags[i] = tag(names[i])
  OBVIOUS
<1> HIDE DEF tags
<1>4. IsSeq(tags) /\ DOMAIN tags = DOMAIN names
  BY <1>2, <1>3, MapFacts
<1>5. ToSet(tags) = {tag(n) : n \in DOMAIN o.first}
  BY <1>2, <1>3, <1>4 DEF ToSet
<1> QED BY <1>1, <1>4, <1>5 DEF tag

(* Click's commands.                                                        *)
LEMMA ClickRead ==
    ASSUME NEW s, NEW ops, Sourced("click", s, ops)
    PROVE  ReadsAll(Detect("click", s), "click", ops)
<1> DEFINE defs == Defs(s)
           options(d) == TagsOf(d, LAMBDA t : t.called /\ t.on /\ t.name \in {"option", "argument"} /\ t.given # "")
           typed(t) == IF t = "" THEN "str" ELSE t
           first(d, n) == CHOOSE t \in ToSet(options(d)) : t.given = n
           flags(d) == [n \in {t.given : t \in ToSet(options(d))} |-> typed(first(d, n).type)]
           I == {i \in DOMAIN defs : ~ defs[i].async /\ Commands(defs[i]) # <<>>}
           kept == At(defs, I)
           form(d) == Form(NameKey(CommandName(d)), flags(d), NoFields, "")
           items == [i \in DOMAIN kept |-> form(kept[i])]
<1>1. Detect("click", s) = items
  BY DEF Detect, ClickCommands, Collect, Kept
<1>2. Sourced("click", defs, ops)
  BY DefsSourced
<1>3. \A d, o : WrittenAs("click", d, o) <=>
        Says(d, "def", "py", o.name, "", Untyped(o.first), "", {}, <<Tag("command", TRUE, TRUE, "")>> \o Options(o), NoPath)
  BY DEF WrittenAs, Defined
<1>4. ASSUME NEW d, NEW o \in ToSet(ops), WrittenAs("click", d, o)
      PROVE  ~ d.async /\ Commands(d) # <<>> /\ form(d) = FormShown("click", o)
  <2> DEFINE command == Tag("command", TRUE, TRUE, "")
             option(n) == [Tag("option", TRUE, TRUE, n) EXCEPT !.type = o.first[n]]
             tags == <<command>> \o Options(o)
             J == {i \in DOMAIN tags : tags[i].called /\ tags[i].on /\ tags[i].name = "command"}
             K == {i \in DOMAIN tags : tags[i].called /\ tags[i].on /\ tags[i].name \in {"option", "argument"} /\ tags[i].given # ""}
  <2>1. o \in Operations
    BY SourcedFacts
  <2>2. d.tags = tags /\ d.name = o.name /\ d.async = FALSE
    BY <1>3, <1>4 DEF Says
  <2>3. IsSeq(Options(o)) /\ ToSet(Options(o)) = {option(n) : n \in DOMAIN o.first}
    BY <2>1, OptionsFacts
  <2>4. command.called = TRUE /\ command.on = TRUE /\ command.name = "command" /\ command.given = ""
    BY DEF Tag
  <2>5. \A n : option(n).called = TRUE /\ option(n).on = TRUE /\ option(n).name = "option" /\ option(n).given = n /\ option(n).type = o.first[n]
    BY DEF Tag
  <2> HIDE DEF command, option
  <2>6. IsSeq(tags) /\ ToSet(tags) = {command} \cup {option(n) : n \in DOMAIN o.first}
    BY <2>3, Tuples, ConcatFacts
  <2> HIDE DEF tags
  <2>7. /\ \A i \in DOMAIN tags : tags[i] = command \/ \E n \in DOMAIN o.first : tags[i] = option(n)
        /\ \E i \in DOMAIN tags : tags[i] = command
        /\ \A n \in DOMAIN o.first : \E i \in DOMAIN tags : tags[i] = option(n)
    BY <2>6 DEF ToSet
  <2>8. "" \notin DOMAIN o.first
    BY <2>1, OperationFacts
  <2>9. Commands(d) # <<>> /\ Commands(d)[1] = command
    <3>1. Commands(d) = At(tags, J)
      BY <2>2 DEF Commands, TagsOf, Kept
    <3>2. J \subseteq DOMAIN tags /\ J # {} /\ \A i \in J : tags[i] = command
      BY <2>4, <2>5, <2>7
    <3> HIDE DEF J
    <3> QED BY <2>6, <3>1, <3>2, OnlyKept
  <2>10. CommandName(d) = o.name
    BY <2>2, <2>4, <2>9 DEF CommandName
  <2>11. ToSet(options(d)) = {option(n) : n \in DOMAIN o.first}
    <3>1. options(d) = At(tags, K)
      BY <2>2 DEF TagsOf, Kept
    <3>2. {tags[i] : i \in K} = {option(n) : n \in DOMAIN o.first} /\ K \in SUBSET DOMAIN tags
      <4>1. ASSUME NEW n \in DOMAIN o.first, NEW i \in DOMAIN tags, tags[i] = option(n) PROVE i \in K
        <5>1. tags[i].called = TRUE /\ tags[i].on = TRUE /\ tags[i].name = "option" /\ tags[i].given = n
          BY <2>5, <4>1
        <5> QED BY <2>8, <5>1
      <4>2. \A i \in K : \E n \in DOMAIN o.first : tags[i] = option(n)
        BY <2>4, <2>7
      <4>3. K \in SUBSET DOMAIN tags
        OBVIOUS
      <4> HIDE DEF K
      <4> QED BY <2>7, <4>1, <4>2, <4>3
    <3> HIDE DEF K, options
    <3> QED BY <2>6, <3>1, <3>2, AtFacts
  <2> HIDE DEF options
  <2>12. {t.given : t \in ToSet(options(d))} = DOMAIN o.first
    BY <2>5, <2>11
  <2>13. ASSUME NEW n \in DOMAIN o.first PROVE first(d, n).type = o.first[n]
    <3>1. \A t \in ToSet(options(d)) : t.given = n <=> t = option(n)
      BY <2>5, <2>11
    <3>2. first(d, n) = option(n)
      BY <2>11, <3>1
    <3> HIDE DEF first
    <3> QED BY <2>5, <3>2
  <2> HIDE DEF first, typed
  <2>14. flags(d) = [n \in DOMAIN o.first |-> typed(o.first[n])]
    BY <2>12, <2>13
  <2>15. flags(d) = [n \in DOMAIN o.first |-> IF o.first[n] = "" THEN "str" ELSE o.first[n]]
    BY <2>14 DEF typed
  <2>16. FormShown("click", o) = Form(NameKey(o.name), [n \in DOMAIN o.first |-> IF o.first[n] = "" THEN "str" ELSE o.first[n]], NoFields, "")
    BY <2>1, FormShownIs
  <2> HIDE DEF flags
  <2> QED BY <2>2, <2>9, <2>10, <2>15, <2>16
<1> HIDE DEF defs, form
<1>5. I = DOMAIN defs
  <2>1. ASSUME NEW i \in DOMAIN defs PROVE i \in I
    <3>1. PICK o \in ToSet(ops) : WrittenAs("click", defs[i], o)
      BY <1>2, SourcedFacts
    <3> QED BY <1>4, <3>1
  <2> QED BY <2>1
<1>6. /\ items = [i \in DOMAIN At(defs, I) |-> items[i]]
      /\ \A i \in DOMAIN At(defs, I) : \A o \in ToSet(ops) :
            WrittenAs("click", At(defs, I)[i], o) => items[i] = FormShown("click", o)
  BY <1>4
<1> HIDE DEF items, I
<1> QED BY <1>1, <1>2, <1>5, <1>6, Collected DEF Sourced

-----------------------------------------------------------------------------
(* Operations of several declarations.                                      *)

(* The other declarations of an operation, in the frameworks that have      *)
(* several: Django's urls beside the views, the exports of a barrel file    *)
(* beside the functions, and Gin's handlers with the structs they bind.     *)
Beside(f, d, o) ==
    CASE f = "django" -> Says(d, "url", "py", o.name, "", NoFields, "", {}, <<>>, Route(f, o))
      [] f = "typescript" -> Says(d, "barrel", "ts", o.name, "", NoFields, o.name, {}, <<>>, NoPath)

IsHandler(d, o) == Says(d, "function", "go", o.name, "In", NoFields, "Out", {}, <<>>, NoPath)

IsStruct(d, name, fields) == Says(d, "struct", "go", name, "", fields, "", {}, <<>>, NoPath)

(* The frameworks with two declarations of an operation.                    *)
Paired == {"django", "typescript"}

(* In these an operation is two declarations.                               *)
LEMMA PairWritten ==
    ASSUME NEW f \in Paired, NEW o
    PROVE  \E e, g : /\ WrittenIn(f, o) = <<e, g>>
                     /\ \A i : WrittenAs(f, [e EXCEPT !.file = i], o) /\ Beside(f, [g EXCEPT !.file = i], o)
<1>1. CASE f = "django"
  <2> DEFINE e == [PythonDef(o) EXCEPT !.tags = TagsWritten(f, o)]
             path == Route(f, o)
             g == [Blank EXCEPT !.kind = "url", !.name = o.name, !.path = path]
  <2>1. WrittenIn(f, o) = <<e, g>>
    BY <1>1 DEF WrittenIn, Decorated, TagsWritten
  <2> HIDE DEF path
  <2>2. \A i : IsDef([e EXCEPT !.file = i], o, TagsWritten(f, o))
    BY DEF IsDef, Says, PythonDef, Blank, NoPath
  <2>3. \A i : Says([g EXCEPT !.file = i], "url", "py", o.name, "", NoFields, "", {}, <<>>, path)
    BY DEF Says, Blank
  <2>4. \A d : /\ WrittenAs(f, d, o) = IsDef(d, o, TagsWritten(f, o))
               /\ Beside(f, d, o) = Says(d, "url", "py", o.name, "", NoFields, "", {}, <<>>, path)
    BY <1>1 DEF WrittenAs, Beside, Defined, path
  <2> QED BY <2>1, <2>2, <2>3, <2>4
<1>2. CASE f = "typescript"
  <2> DEFINE e == [Blank EXCEPT !.kind = "function", !.lang = "ts", !.name = o.name, !.params = o.first, !.returns = o.scalar]
             g == [Blank EXCEPT !.kind = "barrel", !.lang = "ts", !.name = o.name, !.returns = o.name]
  <2>1. WrittenIn(f, o) = <<e, g>>
    BY <1>2 DEF WrittenIn
  <2>2. \A i : Says([e EXCEPT !.file = i], "function", "ts", o.name, "", o.first, o.scalar, {}, <<>>, NoPath)
    BY DEF Says, Blank, NoPath
  <2>3. \A i : Says([g EXCEPT !.file = i], "barrel", "ts", o.name, "", NoFields, o.name, {}, <<>>, NoPath)
    BY DEF Says, Blank, NoPath
  <2>4. \A d : /\ WrittenAs(f, d, o) = Says(d, "function", "ts", o.name, "", o.first, o.scalar, {}, <<>>, NoPath)
               /\ Beside(f, d, o) = Says(d, "barrel", "ts", o.name, "", NoFields, o.name, {}, <<>>, NoPath)
    BY <1>2 DEF WrittenAs, Beside, Defined
  <2> QED BY <2>1, <2>2, <2>3, <2>4
<1> QED BY <1>1, <1>2 DEF Paired

(* s has both declarations of the operations, and nothing else.             *)
CarriesPairs(f, s, ops) ==
    /\ IsSeq(s)
    /\ \A d \in ToSet(s) : \E o \in ToSet(ops) : WrittenAs(f, d, o) \/ Beside(f, d, o)
    /\ \A o \in ToSet(ops) : \E d, e \in ToSet(s) : WrittenAs(f, d, o) /\ Beside(f, e, o)

(* The source has both for each operation.                                  *)
LEMMA PairSource ==
    ASSUME NEW f \in Paired, NEW ops \in Seq(Operations)
    PROVE  CarriesPairs(f, Source(f, ops), ops)
<1>1. \A o : \E e, g : /\ IsSeq(WrittenIn(f, o)) /\ ToSet(WrittenIn(f, o)) = {e, g}
                       /\ \A i : WrittenAs(f, [e EXCEPT !.file = i], o) /\ Beside(f, [g EXCEPT !.file = i], o)
  <2> TAKE o
  <2>1. PICK e, g : /\ WrittenIn(f, o) = <<e, g>>
                    /\ \A i : WrittenAs(f, [e EXCEPT !.file = i], o) /\ Beside(f, [g EXCEPT !.file = i], o)
    BY PairWritten
  <2>2. IsSeq(WrittenIn(f, o)) /\ ToSet(WrittenIn(f, o)) = {e, g}
    BY <2>1, Tuples
  <2> QED BY <2>1, <2>2
<1>2. \A o : IsSeq(WrittenIn(f, o))
  BY <1>1
<1>3. /\ IsSeq(Source(f, ops))
      /\ \A d : d \in ToSet(Source(f, ops)) <=>
            \E i \in DOMAIN ops : \E e \in ToSet(WrittenIn(f, ops[i])) : d = [e EXCEPT !.file = i]
  BY <1>2, SourceFacts
<1>4. \A i \in DOMAIN ops : ops[i] \in ToSet(ops)
  BY DEF ToSet
<1>5. \A o \in ToSet(ops) : \E i \in DOMAIN ops : o = ops[i]
  BY DEF ToSet
<1>6. ASSUME NEW d \in ToSet(Source(f, ops)) PROVE \E o \in ToSet(ops) : WrittenAs(f, d, o) \/ Beside(f, d, o)
  <2>1. PICK i \in DOMAIN ops : \E e \in ToSet(WrittenIn(f, ops[i])) : d = [e EXCEPT !.file = i]
    BY <1>3
  <2>2. PICK e, g : ToSet(WrittenIn(f, ops[i])) = {e, g}
                    /\ \A k : WrittenAs(f, [e EXCEPT !.file = k], ops[i]) /\ Beside(f, [g EXCEPT !.file = k], ops[i])
    BY <1>1
  <2>3. d = [e EXCEPT !.file = i] \/ d = [g EXCEPT !.file = i]
    BY <2>1, <2>2
  <2> QED BY <1>4, <2>2, <2>3
<1>7. ASSUME NEW o \in ToSet(ops) PROVE \E d, e \in ToSet(Source(f, ops)) : WrittenAs(f, d, o) /\ Beside(f, e, o)
  <2>1. PICK i \in DOMAIN ops : o = ops[i]
    BY <1>5
  <2>2. PICK e, g : ToSet(WrittenIn(f, o)) = {e, g}
                    /\ WrittenAs(f, [e EXCEPT !.file = i], o) /\ Beside(f, [g EXCEPT !.file = i], o)
    BY <1>1
  <2>3. [e EXCEPT !.file = i] \in ToSet(Source(f, ops)) /\ [g EXCEPT !.file = i] \in ToSet(Source(f, ops))
    BY <1>3, <2>1, <2>2
  <2> QED BY <2>2, <2>3
<1> QED BY <1>3, <1>6, <1>7 DEF CarriesPairs

(* d is a declaration of the operation i, in its file.                      *)
GinPart(d, i, o) ==
    /\ d.file = i
    /\ \/ WrittenAs("gin", d, o) \/ IsHandler(d, o)
       \/ IsStruct(d, "In", o.first) \/ IsStruct(d, "Out", o.second)

(* s has the four declarations of each operation in a file of its own.      *)
CarriesFiles(s, ops) ==
    /\ IsSeq(s)
    /\ \A d \in ToSet(s) : \E i \in DOMAIN ops : GinPart(d, i, ops[i])
    /\ \A i \in DOMAIN ops : \E a, b, c, d \in ToSet(s) :
          /\ a.file = i /\ b.file = i /\ c.file = i /\ d.file = i
          /\ WrittenAs("gin", a, ops[i]) /\ IsHandler(b, ops[i])
          /\ IsStruct(c, "In", ops[i].first) /\ IsStruct(d, "Out", ops[i].second)

(* A declaration in file i, and the four of an operation.                   *)
InPlace(e, i) == [e EXCEPT !.file = i]

FourParts(a, b, c, d, i, o) ==
    /\ a.file = i /\ b.file = i /\ c.file = i /\ d.file = i
    /\ WrittenAs("gin", a, o) /\ IsHandler(b, o) /\ IsStruct(c, "In", o.first) /\ IsStruct(d, "Out", o.second)

(* With Gin an operation is four declarations.                              *)
LEMMA GinWritten ==
    ASSUME NEW o
    PROVE  \E a, b, c, d :
              /\ WrittenIn("gin", o) = <<a, b, c, d>>
              /\ \A i : FourParts(InPlace(a, i), InPlace(b, i), InPlace(c, i), InPlace(d, i), i, o)
<1> DEFINE path == Route("gin", o)
           a == [Blank EXCEPT !.kind = "route", !.lang = "go", !.name = o.name, !.returns = o.verb, !.path = path]
           b == [Blank EXCEPT !.kind = "function", !.lang = "go", !.name = o.name, !.owner = "In", !.returns = "Out"]
           c == [Blank EXCEPT !.kind = "struct", !.lang = "go", !.name = "In", !.params = o.first]
           d == [Blank EXCEPT !.kind = "struct", !.lang = "go", !.name = "Out", !.params = o.second]
<1>1. WrittenIn("gin", o) = <<a, b, c, d>>
  BY DEF WrittenIn
<1>2. \A e : WrittenAs("gin", e, o) = Says(e, "route", "go", o.name, "", NoFields, o.verb, {}, <<>>, path)
  BY DEF WrittenAs, Defined
<1> HIDE DEF path
<1>3. \A i : [a EXCEPT !.file = i].file = i /\ Says([a EXCEPT !.file = i], "route", "go", o.name, "", NoFields, o.verb, {}, <<>>, path)
  BY DEF Says, Blank
<1>4. \A i : [b EXCEPT !.file = i].file = i /\ IsHandler([b EXCEPT !.file = i], o)
  BY DEF IsHandler, Says, Blank, NoPath
<1>5. \A i : [c EXCEPT !.file = i].file = i /\ IsStruct([c EXCEPT !.file = i], "In", o.first)
  BY DEF IsStruct, Says, Blank, NoPath
<1>6. \A i : [d EXCEPT !.file = i].file = i /\ IsStruct([d EXCEPT !.file = i], "Out", o.second)
  BY DEF IsStruct, Says, Blank, NoPath
<1>7. \A i : FourParts(InPlace(a, i), InPlace(b, i), InPlace(c, i), InPlace(d, i), i, o)
  <2> HIDE DEF a, b, c, d
  <2> QED BY <1>2, <1>3, <1>4, <1>5, <1>6 DEF FourParts, InPlace
<1> HIDE DEF a, b, c, d
<1> QED BY <1>1, <1>7

(* The source has the four for each operation, in one file.                 *)
LEMMA GinSource ==
    ASSUME NEW ops \in Seq(Operations)
    PROVE  CarriesFiles(Source("gin", ops), ops)
<1> DEFINE s == Source("gin", ops)
           Parts(a, b, c, d, i, o) == FourParts(InPlace(a, i), InPlace(b, i), InPlace(c, i), InPlace(d, i), i, o)
<1>1. \A o : \E a, b, c, d : /\ IsSeq(WrittenIn("gin", o)) /\ ToSet(WrittenIn("gin", o)) = {a, b, c, d}
                             /\ \A i : Parts(a, b, c, d, i, o)
  <2> TAKE o
  <2>1. PICK a, b, c, d : WrittenIn("gin", o) = <<a, b, c, d>> /\ \A i : Parts(a, b, c, d, i, o)
    BY GinWritten
  <2>2. IsSeq(WrittenIn("gin", o)) /\ ToSet(WrittenIn("gin", o)) = {a, b, c, d}
    BY <2>1, Tuples
  <2> HIDE DEF Parts
  <2> QED BY <2>1, <2>2
<1>2. \A o : IsSeq(WrittenIn("gin", o))
  <2> HIDE DEF Parts
  <2> QED BY <1>1
<1>3. /\ IsSeq(s)
      /\ \A d : d \in ToSet(s) <=> \E i \in DOMAIN ops : \E e \in ToSet(WrittenIn("gin", ops[i])) : d = InPlace(e, i)
  BY <1>2, SourceFacts DEF InPlace
<1> HIDE DEF s
<1>4. ASSUME NEW d \in ToSet(s) PROVE \E i \in DOMAIN ops : GinPart(d, i, ops[i])
  <2>1. PICK i \in DOMAIN ops : \E e \in ToSet(WrittenIn("gin", ops[i])) : d = InPlace(e, i)
    BY <1>3
  <2>2. PICK a, b, c, g : ToSet(WrittenIn("gin", ops[i])) = {a, b, c, g} /\ \A k : Parts(a, b, c, g, k, ops[i])
    <3> HIDE DEF Parts
    <3> QED BY <1>1
  <2>3. d \in {InPlace(a, i), InPlace(b, i), InPlace(c, i), InPlace(g, i)}
    BY <2>1, <2>2
  <2>4. Parts(a, b, c, g, i, ops[i])
    BY <2>2
  <2> QED BY <2>3, <2>4 DEF FourParts, GinPart
<1>5. ASSUME NEW i \in DOMAIN ops
      PROVE  \E a, b, c, d \in ToSet(s) :
                /\ a.file = i /\ b.file = i /\ c.file = i /\ d.file = i
                /\ WrittenAs("gin", a, ops[i]) /\ IsHandler(b, ops[i])
                /\ IsStruct(c, "In", ops[i].first) /\ IsStruct(d, "Out", ops[i].second)
  <2>1. PICK a, b, c, g : ToSet(WrittenIn("gin", ops[i])) = {a, b, c, g} /\ \A k : Parts(a, b, c, g, k, ops[i])
    <3> HIDE DEF Parts
    <3> QED BY <1>1
  <2>2. InPlace(a, i) \in ToSet(s) /\ InPlace(b, i) \in ToSet(s) /\ InPlace(c, i) \in ToSet(s) /\ InPlace(g, i) \in ToSet(s)
    BY <1>3, <2>1
  <2>3. Parts(a, b, c, g, i, ops[i])
    BY <2>1
  <2> QED BY <2>2, <2>3 DEF FourParts
<1> QED BY <1>3, <1>4, <1>5 DEF CarriesFiles, s

(* No two operations have one name.                                         *)
NamesOnce(ops) == \A o, p \in ToSet(ops) : o.name = p.name => o = p

(* The last declaration with a name, if there is one.                       *)
LEMMA LastNamedFacts ==
    ASSUME NEW s, IsSeq(s), NEW n, \E d \in ToSet(s) : d.name = n
    PROVE  LastNamed(s, n) \in ToSet(s) /\ LastNamed(s, n).name = n
<1> DEFINE here(i) == s[i].name = n /\ \A j \in (i + 1)..Len(s) : s[j].name # n
           S == {i \in 1..Len(s) : s[i].name = n}
<1>1. Len(s) \in Nat /\ DOMAIN s = 1..Len(s)
  BY SeqFacts
<1>2. S \in SUBSET (1..Len(s)) /\ S # {}
  BY <1>1 DEF ToSet
<1>3. PICK m \in S : \A j \in S : j <= m
  BY <1>1, <1>2, LastOf
<1>4. m \in DOMAIN s /\ here(m)
  BY <1>1, <1>3
<1>5. PICK i : i = CHOOSE k \in DOMAIN s : here(k)
  OBVIOUS
<1>6. i \in DOMAIN s /\ here(i)
  BY <1>4, <1>5
<1>7. LastNamed(s, n) = s[i]
  BY <1>5 DEF LastNamed
<1> QED BY <1>6, <1>7 DEF ToSet

(* The items of a source of which one part is kept.                         *)
LEMMA PartKept ==
    ASSUME NEW f, NEW s, NEW ops, IsSeq(s), NEW I, I \subseteq DOMAIN s,
           \A i \in I : \E o \in ToSet(ops) : WrittenAs(f, s[i], o),
           \A o \in ToSet(ops) : \E i \in I : WrittenAs(f, s[i], o)
    PROVE  Carries(f, At(s, I), ops)
<1>1. IsSeq(At(s, I)) /\ ToSet(At(s, I)) = {s[i] : i \in I}
  BY AtFacts
<1> QED BY <1>1 DEF Carries

(* The functions a barrel file exports.                                     *)
LEMMA TypescriptRead ==
    ASSUME NEW s, NEW ops, ToSet(ops) \subseteq Operations, \A o \in ToSet(ops) : Expressible("typescript", o),
           CarriesPairs("typescript", s, ops)
    PROVE  ReadsAll(Detect("typescript", s), "typescript", ops)
<1> DEFINE barrel == OfKind(s, "barrel")
           inBarrel(d) == \E b \in ToSet(barrel) : b.name = d.name
           exposed(d) == IF d.owner = "export" THEN d.name ELSE LastNamed(barrel, d.name).returns
           I == {i \in DOMAIN s : s[i].kind = "function" /\ (s[i].owner = "export" \/ inBarrel(s[i]))}
           kept == At(s, I)
           form(d) == Form(NameKey(exposed(d)), d.params, NoFields, d.returns)
           items == [i \in DOMAIN kept |-> form(kept[i])]
<1>1. Detect("typescript", s) = OnceEach(items)
  BY DEF Detect, TypescriptFunctions, Collect, Kept
<1>2. \A d, o : /\ WrittenAs("typescript", d, o) <=> Says(d, "function", "ts", o.name, "", o.first, o.scalar, {}, <<>>, NoPath)
                /\ Beside("typescript", d, o) <=> Says(d, "barrel", "ts", o.name, "", NoFields, o.name, {}, <<>>, NoPath)
  BY DEF WrittenAs, Beside, Defined
<1>3. \A d, o : WrittenAs("typescript", d, o) =>
                   d.kind = "function" /\ d.name = o.name /\ d.owner = "" /\ d.params = o.first /\ d.returns = o.scalar
  BY <1>2 DEF Says
<1>4. \A d, o : Beside("typescript", d, o) => d.kind = "barrel" /\ d.name = o.name /\ d.returns = o.name
  BY <1>2 DEF Says
<1>5. /\ IsSeq(s)
      /\ \A i \in DOMAIN s : \E o \in ToSet(ops) : WrittenAs("typescript", s[i], o) \/ Beside("typescript", s[i], o)
      /\ \A o \in ToSet(ops) : \E i, j \in DOMAIN s : WrittenAs("typescript", s[i], o) /\ Beside("typescript", s[j], o)
  BY DEF CarriesPairs, ToSet
<1>6. /\ IsSeq(barrel)
      /\ \A b \in ToSet(barrel) : b.returns = b.name
      /\ \A o \in ToSet(ops) : \E b \in ToSet(barrel) : b.name = o.name
  <2> DEFINE J == {i \in DOMAIN s : s[i].kind = "barrel"}
  <2>1. J \in SUBSET DOMAIN s
    OBVIOUS
  <2>2. barrel = At(s, J)
    BY DEF OfKind, Kept
  <2>3. IsSeq(barrel) /\ ToSet(barrel) = {s[i] : i \in J}
    BY <1>5, <2>1, <2>2, AtFacts
  <2>4. ASSUME NEW i \in J PROVE s[i].returns = s[i].name
    <3>1. PICK o \in ToSet(ops) : WrittenAs("typescript", s[i], o) \/ Beside("typescript", s[i], o)
      BY <1>5
    <3>2. s[i].kind = "barrel"
      OBVIOUS
    <3>3. CASE WrittenAs("typescript", s[i], o)
      BY <1>3, <3>2, <3>3
    <3>4. CASE Beside("typescript", s[i], o)
      BY <1>4, <3>4
    <3> QED BY <3>1, <3>3, <3>4
  <2>5. \A o \in ToSet(ops) : \E i \in J : s[i].name = o.name
    BY <1>4, <1>5
  <2> HIDE DEF barrel, J
  <2> QED BY <2>3, <2>4, <2>5
<1> HIDE DEF barrel
<1>7. ASSUME NEW d, NEW o \in ToSet(ops), WrittenAs("typescript", d, o)
      PROVE  inBarrel(d) /\ form(d) = FormShown("typescript", o)
  <2>1. d.name = o.name /\ d.owner = "" /\ d.params = o.first /\ d.returns = o.scalar
    BY <1>3, <1>7
  <2>2. inBarrel(d)
    BY <1>6, <2>1
  <2>3. LastNamed(barrel, d.name) \in ToSet(barrel) /\ LastNamed(barrel, d.name).name = d.name
    BY <1>6, <2>2, LastNamedFacts
  <2>4. exposed(d) = o.name
    BY <1>6, <2>1, <2>3
  <2>5. FormShown("typescript", o) = Form(NameKey(o.name), o.first, NoFields, o.scalar)
    BY FormShownIs
  <2> HIDE DEF inBarrel, exposed
  <2> QED BY <2>1, <2>2, <2>4, <2>5
<1> HIDE DEF inBarrel, form
<1>8. Carries("typescript", kept, ops)
  <2>1. I \subseteq DOMAIN s
    OBVIOUS
  <2>2. ASSUME NEW i \in I PROVE \E o \in ToSet(ops) : WrittenAs("typescript", s[i], o)
    BY <1>4, <1>5
  <2>3. ASSUME NEW o \in ToSet(ops) PROVE \E i \in I : WrittenAs("typescript", s[i], o)
    <3>1. PICK i \in DOMAIN s : WrittenAs("typescript", s[i], o)
      BY <1>5
    <3>2. i \in I
      BY <1>3, <1>7, <3>1
    <3> QED BY <3>1, <3>2
  <2> HIDE DEF I
  <2> QED BY <1>5, <2>1, <2>2, <2>3, PartKept
<1> HIDE DEF kept
<1>9. /\ items = [i \in DOMAIN kept |-> items[i]]
      /\ \A i \in DOMAIN kept : \A o \in ToSet(ops) : WrittenAs("typescript", kept[i], o) => items[i] = FormShown("typescript", o)
  BY <1>7
<1> HIDE DEF items
<1>10. ReadsAll(items, "typescript", ops)
  BY <1>8, <1>9, AllRead
<1> QED BY <1>1, <1>10, OnceEachRead

(* A view of Django's says its operation.                                   *)
LEMMA DjangoSays ==
    ASSUME NEW o \in Operations, Expressible("django", o), NEW d, WrittenAs("django", d, o)
    PROVE  LET view == TagsOf(d, LAMBDA t : t.called /\ t.name = "api_view")
           IN  /\ d.kind = "def" /\ d.name = o.name /\ d.literal = o.second /\ Without(d.params, FlaskSkip) = o.first
               /\ view # <<>> /\ view[1].verbs = {o.verb}
<1> DEFINE tag == [Tag("api_view", FALSE, TRUE, "") EXCEPT !.verbs = {o.verb}]
           view == TagsOf(d, LAMBDA t : t.called /\ t.name = "api_view")
<1>1. TagsWritten("django", o) = <<tag>> /\ Skipped("django") = FlaskSkip
  BY DEF TagsWritten, Skipped, Stagelike
<1>2. tag.called = TRUE /\ tag.name = "api_view" /\ tag.verbs = {o.verb}
  BY DEF Tag
<1> HIDE DEF tag
<1>3. IsDef(d, o, <<tag>>)
  BY <1>1 DEF WrittenAs, Defined
<1>4. d.kind = "def" /\ d.name = o.name /\ d.literal = o.second /\ d.params = o.first /\ d.tags = <<tag>>
  BY <1>3 DEF IsDef, Says
<1>5. Without(o.first, FlaskSkip) = o.first
  <2>1. DOMAIN o.first \cap FlaskSkip = {}
    BY <1>1 DEF Expressible
  <2> QED BY <2>1, OperationFacts, WithoutNone
<1>6. DOMAIN d.tags = {1} /\ d.tags[1] = tag
  BY <1>4, Tuples
<1>7. {i \in DOMAIN d.tags : d.tags[i].called /\ d.tags[i].name = "api_view"} = {1}
  BY <1>2, <1>6
<1>8. view # <<>> /\ view[1] = tag
  BY <1>4, <1>7, OneTag DEF TagsOf, Kept
<1> HIDE DEF view
<1> QED BY <1>2, <1>4, <1>5, <1>8 DEF view

(* Django's endpoints: a url finds its view by the name, which is why names *)
(* are once.                                                                *)
LEMMA DjangoRead ==
    ASSUME NEW s, NEW ops, ToSet(ops) \subseteq Operations, \A o \in ToSet(ops) : Expressible("django", o),
           NamesOnce(ops), CarriesPairs("django", s, ops)
    PROVE  ReadsAll(Detect("django", s), "django", ops)
<1> DEFINE view(d) == TagsOf(d, LAMBDA t : t.called /\ t.name = "api_view")
           urls == OfKind(s, "url")
           defs == Defs(s)
           V == {i \in DOMAIN defs : view(defs[i]) # <<>>}
           views == At(defs, V)
           wired == {v.name : v \in ToSet(views)} \cap {u.name : u \in ToSet(urls)}
           I == {i \in DOMAIN views : views[i].name \in wired /\ LastNamed(views, views[i].name) = views[i]}
           last == At(views, I)
           clean(p) == IF p.style = "converter" THEN [p EXCEPT !.style = "braces"] ELSE p
           part(d) == PerVerb(s, d, view(d)[1].verbs, clean(LastNamed(urls, d.name).path))
           parts == [i \in DOMAIN last |-> part(last[i])]
<1>1. Detect("django", s) = FlattenSeq(parts)
  BY DEF Detect, DjangoEndpoints, Collect, Kept
<1>2. \A o \in ToSet(ops) : o \in Operations /\ Expressible("django", o)
  OBVIOUS
<1>3. \A d, o : Beside("django", d, o) => d.kind = "url" /\ d.name = o.name /\ d.path = Route("django", o)
  BY DEF Beside, Says
<1>4. ASSUME NEW d, NEW o \in ToSet(ops), WrittenAs("django", d, o)
      PROVE  /\ d.kind = "def" /\ d.name = o.name /\ d.literal = o.second /\ Without(d.params, FlaskSkip) = o.first
             /\ view(d) # <<>> /\ view(d)[1].verbs = {o.verb}
  BY <1>2, <1>4, DjangoSays
<1> HIDE DEF view
<1>5. /\ IsSeq(s)
      /\ \A i \in DOMAIN s : \E o \in ToSet(ops) : WrittenAs("django", s[i], o) \/ Beside("django", s[i], o)
      /\ \A o \in ToSet(ops) : \E i, j \in DOMAIN s : WrittenAs("django", s[i], o) /\ Beside("django", s[j], o)
  BY DEF CarriesPairs, ToSet
<1>6. /\ IsSeq(urls)
      /\ \A u \in ToSet(urls) : \E o \in ToSet(ops) : Beside("django", u, o)
      /\ \A o \in ToSet(ops) : \E u \in ToSet(urls) : Beside("django", u, o)
  <2> DEFINE J == {i \in DOMAIN s : s[i].kind = "url"}
  <2>1. J \in SUBSET DOMAIN s
    OBVIOUS
  <2>2. urls = At(s, J)
    BY DEF OfKind, Kept
  <2>3. IsSeq(urls) /\ ToSet(urls) = {s[i] : i \in J}
    BY <1>5, <2>1, <2>2, AtFacts
  <2>4. \A i \in J : \E o \in ToSet(ops) : Beside("django", s[i], o)
    BY <1>4, <1>5
  <2>5. \A o \in ToSet(ops) : \E i \in J : Beside("django", s[i], o)
    BY <1>3, <1>5
  <2> HIDE DEF urls, J
  <2> QED BY <2>3, <2>4, <2>5
<1>7. Carries("django", defs, ops)
  <2> DEFINE J == {i \in DOMAIN s : s[i].kind = "def"}
  <2>1. J \subseteq DOMAIN s
    OBVIOUS
  <2>2. defs = At(s, J)
    BY DEF Defs, Kept
  <2>3. \A i \in J : \E o \in ToSet(ops) : WrittenAs("django", s[i], o)
    BY <1>3, <1>5
  <2>4. \A o \in ToSet(ops) : \E i \in J : WrittenAs("django", s[i], o)
    BY <1>4, <1>5
  <2> HIDE DEF defs, J
  <2> QED BY <1>5, <2>1, <2>2, <2>3, <2>4, PartKept
<1> HIDE DEF urls, defs
<1>8. Carries("django", views, ops)
  <2>1. \A i \in DOMAIN defs : \E o \in ToSet(ops) : WrittenAs("django", defs[i], o)
    BY <1>7 DEF Carries, ToSet
  <2>2. V = DOMAIN defs
    BY <1>4, <2>1
  <2> HIDE DEF V
  <2> QED BY <1>7, <2>2, CarriedOn
<1> HIDE DEF views
<1>9. IsSeq(views) /\ \A i \in DOMAIN views : \E o \in ToSet(ops) : WrittenAs("django", views[i], o)
  BY <1>8 DEF Carries, ToSet
<1>10. ASSUME NEW o \in ToSet(ops)
       PROVE  \E i \in I : WrittenAs("django", views[i], o)
  <2>1. \E d \in ToSet(views) : d.name = o.name
    BY <1>4, <1>8 DEF Carries
  <2>2. LastNamed(views, o.name) \in ToSet(views) /\ LastNamed(views, o.name).name = o.name
    BY <1>9, <2>1, LastNamedFacts
  <2>3. PICK i \in DOMAIN views : views[i] = LastNamed(views, o.name)
    BY <2>2 DEF ToSet
  <2>4. PICK p \in ToSet(ops) : WrittenAs("django", views[i], p)
    BY <1>9
  <2>5. views[i].name = o.name /\ views[i].name = p.name
    BY <1>4, <2>2, <2>3, <2>4
  <2>6. p = o
    BY <2>5 DEF NamesOnce
  <2>7. o.name \in wired
    <3>1. \E u \in ToSet(urls) : u.name = o.name
      BY <1>3, <1>6
    <3> QED BY <2>1, <3>1
  <2> HIDE DEF wired
  <2>8. i \in I
    BY <2>3, <2>5, <2>7
  <2> QED BY <2>4, <2>6, <2>8
<1>11. Carries("django", last, ops)
  <2>1. I \subseteq DOMAIN views /\ \A i \in I : \E o \in ToSet(ops) : WrittenAs("django", views[i], o)
    BY <1>9
  <2> HIDE DEF I
  <2> QED BY <1>9, <1>10, <2>1, PartKept
<1> HIDE DEF last
<1>12. ASSUME NEW d, NEW o \in ToSet(ops), WrittenAs("django", d, o)
       PROVE  IsSeq(part(d)) /\ ToSet(part(d)) = {FormShown("django", o)}
  <2> DEFINE u == LastNamed(urls, d.name)
             path == clean(u.path)
  <2>1. d.name = o.name /\ d.literal = o.second /\ Without(d.params, FlaskSkip) = o.first /\ view(d)[1].verbs = {o.verb}
    BY <1>4, <1>12
  <2>2. \E w \in ToSet(urls) : w.name = d.name
    BY <1>3, <1>6, <2>1
  <2>3. u \in ToSet(urls) /\ u.name = d.name
    BY <1>6, <2>2, LastNamedFacts
  <2>4. PICK p \in ToSet(ops) : Beside("django", u, p)
    BY <1>6, <2>3
  <2>5. p = o
    BY <1>3, <2>1, <2>3, <2>4 DEF NamesOnce
  <2>6. u.path = Path(o.name, "converter", o.arg)
    <3>1. u.path = Route("django", o)
      BY <1>3, <2>4, <2>5
    <3> QED BY <3>1 DEF Route
  <2> HIDE DEF u
  <2>7. path = Path(o.name, "braces", o.arg)
    <3>1. CASE o.arg = ""
      <4>1. u.path = [route |-> o.name, style |-> "plain", arg |-> o.arg]
        BY <2>6, <3>1 DEF Path
      <4>2. path = u.path
        BY <4>1
      <4> QED BY <3>1, <4>1, <4>2 DEF Path
    <3>2. CASE o.arg # ""
      <4>1. u.path = [route |-> o.name, style |-> "converter", arg |-> o.arg]
        BY <2>6, <3>2 DEF Path
      <4>2. path = [route |-> o.name, style |-> "braces", arg |-> o.arg]
        BY <4>1
      <4> QED BY <3>2, <4>2 DEF Path
    <3> QED BY <3>1, <3>2
  <2>8. part(d) = PerVerb(s, d, {o.verb}, path)
    BY <2>1 DEF u
  <2> HIDE DEF path
  <2>9. OutputFields(s, d) = o.second
    <3>1. \A i \in DOMAIN s : s[i].kind # "class"
      BY <1>3, <1>4, <1>5
    <3>2. \A c \in ToSet(s) : c.kind # "class"
      BY <3>1 DEF ToSet
    <3> QED BY <2>1, <3>2, NoClasses
  <2>10. Endpoint(s, d, o.verb, path, FlaskSkip) = Form(EndpointKey(o.verb, Path(o.name, "braces", o.arg)), o.first, o.second, "")
    BY <2>1, <2>7, <2>9 DEF Endpoint
  <2>11. FormShown("django", o) = Form(EndpointKey(o.verb, Path(o.name, "braces", o.arg)), o.first, o.second, "")
    BY <1>2, FormShownIs
  <2>12. o.verb \in Verbs
    BY <1>2, OperationFacts
  <2>13. IsSeq(part(d)) /\ ToSet(part(d)) = {Endpoint(s, d, o.verb, path, FlaskSkip)}
    <3>1. /\ IsSeq(PerVerb(s, d, {o.verb}, path))
          /\ ToSet(PerVerb(s, d, {o.verb}, path)) = {Endpoint(s, d, o.verb, path, FlaskSkip)}
      BY <2>12, PerVerbOne
    <3> HIDE DEF part
    <3> QED BY <2>8, <3>1
  <2> QED BY <2>10, <2>11, <2>13
<1> HIDE DEF part
<1>13. /\ parts = [i \in DOMAIN last |-> parts[i]]
       /\ \A i \in DOMAIN last : \A o \in ToSet(ops) :
             WrittenAs("django", last[i], o) => IsSeq(parts[i]) /\ ToSet(parts[i]) = {FormShown("django", o)}
  BY <1>12
<1> HIDE DEF parts
<1> QED BY <1>1, <1>11, <1>13, FlatRead

(* Gin's endpoints: a route finds its handler by name in its own file, and  *)
(* the handler the structs it binds.                                        *)
LEMMA GinRead ==
    ASSUME NEW s, NEW ops \in Seq(Operations), \A o \in ToSet(ops) : Expressible("gin", o),
           NamesOnce(ops), CarriesFiles(s, ops)
    PROVE  ReadsAll(Detect("gin", s), "gin", ops)
<1> DEFINE I == {i \in DOMAIN s : s[i].kind = "route" /\ s[i].returns \in Verbs /\ s[i].name # ""}
           kept == At(s, I)
           H(d) == {i \in DOMAIN s : s[i].kind = "function" /\ s[i].file = d.file /\ s[i].name = d.name}
           handlers(d) == At(s, H(d))
           bound(d) == LastNamed(handlers(d), d.name)
           form(d) == IF handlers(d) = <<>> THEN Form(EndpointKey(d.returns, d.path), NoFields, NoFields, "")
                      ELSE Form(EndpointKey(d.returns, d.path),
                                StructFields(s, d.file, bound(d).owner), StructFields(s, d.file, bound(d).returns), "")
           items == [i \in DOMAIN kept |-> form(kept[i])]
<1>1. Detect("gin", s) = items
  BY DEF Detect, GinEndpoints, Collect, Kept
<1>2. \A o \in ToSet(ops) : o \in Operations /\ Expressible("gin", o)
  BY SeqFacts DEF ToSet
<1>3. \A i \in DOMAIN ops : ops[i] \in ToSet(ops)
  BY DEF ToSet
<1>4. \A o \in ToSet(ops) : \E i \in DOMAIN ops : o = ops[i]
  BY DEF ToSet
<1>5. \A d, o : WrittenAs("gin", d, o) => d.kind = "route" /\ d.name = o.name /\ d.returns = o.verb /\ d.path = Route("gin", o)
  <2>1. \A d, o : WrittenAs("gin", d, o) <=> Says(d, "route", "go", o.name, "", NoFields, o.verb, {}, <<>>, Route("gin", o))
    BY DEF WrittenAs, Defined
  <2> QED BY <2>1 DEF Says
<1>6. \A d, o : IsHandler(d, o) => d.kind = "function" /\ d.name = o.name /\ d.owner = "In" /\ d.returns = "Out"
  BY DEF IsHandler, Says
<1>7. \A d, n, fields : IsStruct(d, n, fields) => d.kind = "struct" /\ d.name = n /\ d.params = fields
  BY DEF IsStruct, Says
<1>8. IsSeq(s) /\ \A d \in ToSet(s) : \E i \in DOMAIN ops : GinPart(d, i, ops[i])
  BY DEF CarriesFiles
<1>9. ASSUME NEW i \in DOMAIN ops, NEW o, o = ops[i]
      PROVE  StructFields(s, i, "In") = Without(o.first, {"-"}) /\ StructFields(s, i, "Out") = Without(o.second, {"-"})
  <2> DEFINE J == {j \in DOMAIN s : s[j].kind = "struct"}
  <2>1. OfKind(s, "struct") = At(s, J) /\ J \in SUBSET DOMAIN s
    BY DEF OfKind, Kept
  <2>2. ToSet(OfKind(s, "struct")) = {s[j] : j \in J}
    <3> HIDE DEF J
    <3> QED BY <1>8, <2>1, AtFacts
  <2>3. ToSet(OfKind(s, "struct")) = {d \in ToSet(s) : d.kind = "struct"}
    BY <2>2 DEF ToSet
  <2>4. PICK a, b, c, d \in ToSet(s) :
           c.file = i /\ d.file = i /\ IsStruct(c, "In", o.first) /\ IsStruct(d, "Out", o.second)
    BY <1>9 DEF CarriesFiles
  <2>5. ASSUME NEW x \in ToSet(s), x.kind = "struct", x.file = i
        PROVE  IsStruct(x, "In", o.first) \/ IsStruct(x, "Out", o.second)
    <3>1. PICK j \in DOMAIN ops : GinPart(x, j, ops[j])
      BY <1>8
    <3>2. j = i
      BY <2>5, <3>1 DEF GinPart
    <3> QED BY <1>5, <1>6, <1>9, <2>5, <3>1, <3>2 DEF GinPart
  <2>6. ASSUME NEW n \in {"In", "Out"}
        PROVE  StructFields(s, i, n) = Without(IF n = "In" THEN o.first ELSE o.second, {"-"})
    <3> DEFINE structs == {x \in ToSet(OfKind(s, "struct")) : x.file = i /\ x.name = n}
    <3>1. structs # {}
      BY <1>7, <2>3, <2>4
    <3>2. \A x \in structs : x.params = IF n = "In" THEN o.first ELSE o.second
      BY <1>7, <2>3, <2>5
    <3>3. StructFields(s, i, n) = Without((CHOOSE x \in structs : TRUE).params, {"-"})
      BY <3>1 DEF StructFields
    <3> HIDE DEF structs
    <3>4. (CHOOSE x \in structs : TRUE) \in structs
      BY <3>1
    <3> QED BY <3>2, <3>3, <3>4
  <2> QED BY <2>6
<1>10. ASSUME NEW d \in ToSet(s), NEW o \in ToSet(ops), WrittenAs("gin", d, o) PROVE form(d) = FormShown("gin", o)
  <2>1. PICK i \in DOMAIN ops : GinPart(d, i, ops[i])
    BY <1>8
  <2>2. WrittenAs("gin", d, ops[i]) /\ d.file = i
    <3>1. d.kind = "route"
      BY <1>5, <1>10
    <3>2. "route" # "function" /\ "route" # "struct"
      OBVIOUS
    <3> QED BY <1>6, <1>7, <2>1, <3>1, <3>2 DEF GinPart
  <2>3. o = ops[i]
    BY <1>3, <1>5, <1>10, <2>2 DEF NamesOnce
  <2>4. H(d) \in SUBSET DOMAIN s /\ H(d) # {}
    <3>1. PICK b \in ToSet(s) : b.file = i /\ IsHandler(b, ops[i])
      BY DEF CarriesFiles
    <3>2. b.kind = "function" /\ b.file = d.file /\ b.name = d.name
      BY <1>5, <1>6, <2>2, <3>1
    <3>3. PICK j \in DOMAIN s : b = s[j]
      BY DEF ToSet
    <3> QED BY <3>2, <3>3
  <2>5. IsSeq(handlers(d)) /\ ToSet(handlers(d)) = {s[j] : j \in H(d)}
    <3> HIDE DEF H
    <3> QED BY <1>8, <2>4, AtFacts
  <2>6. /\ handlers(d) # <<>> /\ \E h \in ToSet(handlers(d)) : h.name = d.name
        /\ \A h \in ToSet(handlers(d)) : h \in ToSet(s) /\ h.kind = "function"
    <3>1. \A j \in H(d) : s[j].name = d.name /\ s[j] \in ToSet(s) /\ s[j].kind = "function"
      BY DEF ToSet
    <3> HIDE DEF H, handlers
    <3> QED BY <2>4, <2>5, <3>1, SeqFacts
  <2> HIDE DEF handlers
  <2>7. bound(d) \in ToSet(handlers(d))
    BY <2>5, <2>6, LastNamedFacts
  <2> HIDE DEF bound
  <2>8. bound(d).owner = "In" /\ bound(d).returns = "Out"
    <3>1. bound(d) \in ToSet(s) /\ bound(d).kind = "function"
      BY <2>6, <2>7
    <3>2. PICK j \in DOMAIN ops : GinPart(bound(d), j, ops[j])
      BY <1>8, <3>1
    <3>3. IsHandler(bound(d), ops[j])
      BY <1>5, <1>7, <3>1, <3>2 DEF GinPart
    <3> QED BY <1>6, <3>3
  <2>9. Without(o.first, {"-"}) = o.first /\ Without(o.second, {"-"}) = o.second
    <3>1. DOMAIN o.first \cap {"-"} = {} /\ DOMAIN o.second \cap {"-"} = {}
      <4>1. Skipped("gin") = {"-"} /\ Capability("gin") = "web-api"
        BY Capabilities DEF Skipped, Stagelike
      <4> QED BY <1>2, <4>1 DEF Expressible
    <3> QED BY <1>2, <3>1, OperationFacts, WithoutNone
  <2>10. StructFields(s, d.file, "In") = o.first /\ StructFields(s, d.file, "Out") = o.second
    BY <1>9, <2>2, <2>3, <2>9
  <2>11. d.returns = o.verb /\ d.path = Path(o.name, "colon", o.arg)
    BY <1>5, <1>10 DEF Route
  <2>12. form(d) = Form(EndpointKey(o.verb, Path(o.name, "colon", o.arg)), o.first, o.second, "")
    BY <2>6, <2>8, <2>10, <2>11
  <2>13. FormShown("gin", o) = Form(EndpointKey(o.verb, Path(o.name, "colon", o.arg)), o.first, o.second, "")
    BY <1>2, FormShownIs
  <2> QED BY <2>12, <2>13
<1> HIDE DEF form
<1>11. IsSeq(kept) /\ ToSet(kept) = {s[i] : i \in I}
  <2>1. I \in SUBSET DOMAIN s
    OBVIOUS
  <2> HIDE DEF I
  <2> QED BY <1>8, <2>1, AtFacts
<1>12. Carries("gin", kept, ops)
  <2>1. I \subseteq DOMAIN s
    OBVIOUS
  <2>2. ASSUME NEW i \in I PROVE \E o \in ToSet(ops) : WrittenAs("gin", s[i], o)
    <3>1. s[i] \in ToSet(s) /\ s[i].kind = "route"
      BY DEF ToSet
    <3>2. PICK j \in DOMAIN ops : GinPart(s[i], j, ops[j])
      BY <1>8, <3>1
    <3>3. "route" # "function" /\ "route" # "struct"
      OBVIOUS
    <3> QED BY <1>3, <1>6, <1>7, <3>1, <3>2, <3>3 DEF GinPart
  <2>3. ASSUME NEW o \in ToSet(ops) PROVE \E i \in I : WrittenAs("gin", s[i], o)
    <3>1. PICK a \in ToSet(s) : WrittenAs("gin", a, o)
      BY <1>4 DEF CarriesFiles
    <3>2. PICK i \in DOMAIN s : a = s[i]
      BY DEF ToSet
    <3>3. o.verb \in Verbs /\ o.name # ""
      BY <1>2, OperationFacts
    <3>4. i \in I
      BY <1>5, <3>1, <3>2, <3>3
    <3> QED BY <3>1, <3>2, <3>4
  <2> HIDE DEF I
  <2> QED BY <1>8, <2>1, <2>2, <2>3, PartKept
<1>13. \A i \in DOMAIN kept : kept[i] \in ToSet(s)
  <2>1. \A i \in DOMAIN kept : kept[i] \in ToSet(kept)
    BY DEF ToSet
  <2> QED BY <1>11, <2>1 DEF ToSet
<1> HIDE DEF kept
<1>14. /\ items = [i \in DOMAIN kept |-> items[i]]
       /\ \A i \in DOMAIN kept : \A o \in ToSet(ops) : WrittenAs("gin", kept[i], o) => items[i] = FormShown("gin", o)
  BY <1>10, <1>13
<1> HIDE DEF items
<1> QED BY <1>1, <1>12, <1>14, AllRead

-----------------------------------------------------------------------------
(* Detectors on the sources of other frameworks.                            *)

(* The Python frameworks for the web.                                       *)
Routed == {"fastapi", "flask", "django"}

(* The functions of a source.                                               *)
LEMMA DefsOf ==
    ASSUME NEW s, IsSeq(s)
    PROVE  IsSeq(Defs(s)) /\ ToSet(Defs(s)) = {d \in ToSet(s) : d.kind = "def"}
<1> DEFINE I == {i \in DOMAIN s : s[i].kind = "def"}
<1>1. Defs(s) = At(s, I) /\ I \in SUBSET DOMAIN s
  BY DEF Defs, Kept
<1>2. {s[i] : i \in I} = {d \in ToSet(s) : d.kind = "def"}
  BY DEF ToSet
<1> HIDE DEF I
<1> QED BY <1>1, <1>2, AtFacts

(* A decorator of one framework's routes is none of another's.              *)
LEMMA ForeignTags ==
    ASSUME NEW f \in Routed, NEW o \in Operations, NEW d, WrittenAs(f, d, o)
    PROVE  /\ f # "fastapi" => TagsOf(d, LAMBDA t : t.called /\ t.on /\ t.name \in Verbs /\ t.fixed) = <<>>
           /\ f # "flask" => TagsOf(d, LAMBDA t : t.called /\ t.on /\ t.name = "route" /\ t.fixed) = <<>>
           /\ f # "django" => TagsOf(d, LAMBDA t : t.called /\ t.name = "api_view") = <<>>
<1>1. \E tag : /\ d.tags = <<tag>>
               /\ f = "fastapi" => tag.name \in Verbs
               /\ f = "flask" => tag.name = "route"
               /\ f = "django" => tag.on = FALSE
  <2>1. CASE f = "fastapi"
    <3> DEFINE path == Route(f, o)
               tag == [Tag(o.verb, TRUE, TRUE, "") EXCEPT !.path = path]
    <3>1. TagsWritten(f, o) = <<tag>> /\ f \in Defined
      BY <2>1 DEF TagsWritten, Defined
    <3> HIDE DEF path
    <3>2. tag.name \in Verbs
      BY OperationFacts DEF Tag
    <3> HIDE DEF tag
    <3>3. IsDef(d, o, <<tag>>)
      BY <3>1, DefSays
    <3>4. d.tags = <<tag>>
      BY <3>3 DEF IsDef, Says
    <3> QED BY <2>1, <3>2, <3>4
  <2>2. CASE f = "flask"
    <3> DEFINE path == Route(f, o)
               tag == [Tag("route", TRUE, TRUE, "") EXCEPT !.path = path, !.verbs = {o.verb}]
    <3>1. TagsWritten(f, o) = <<tag>> /\ f \in Defined
      BY <2>2 DEF TagsWritten, Defined
    <3> HIDE DEF path
    <3>2. tag.name = "route"
      BY DEF Tag
    <3> HIDE DEF tag
    <3>3. IsDef(d, o, <<tag>>)
      BY <3>1, DefSays
    <3>4. d.tags = <<tag>>
      BY <3>3 DEF IsDef, Says
    <3> QED BY <2>2, <3>2, <3>4
  <2>3. CASE f = "django"
    <3> DEFINE tag == [Tag("api_view", FALSE, TRUE, "") EXCEPT !.verbs = {o.verb}]
    <3>1. TagsWritten(f, o) = <<tag>> /\ WrittenAs(f, d, o) = IsDef(d, o, TagsWritten(f, o))
      BY <2>3 DEF TagsWritten, WrittenAs, Defined
    <3>2. tag.on = FALSE
      BY DEF Tag
    <3> HIDE DEF tag
    <3>3. IsDef(d, o, <<tag>>)
      BY <3>1
    <3>4. d.tags = <<tag>>
      BY <3>3 DEF IsDef, Says
    <3> QED BY <2>3, <3>2, <3>4
  <2> QED BY <2>1, <2>2, <2>3 DEF Routed
<1>2. ASSUME f = "django" PROVE d.tags[1].name = "api_view"
  <2> DEFINE tag == [Tag("api_view", FALSE, TRUE, "") EXCEPT !.verbs = {o.verb}]
  <2>1. TagsWritten(f, o) = <<tag>> /\ WrittenAs(f, d, o) = IsDef(d, o, TagsWritten(f, o))
    BY <1>2 DEF TagsWritten, WrittenAs, Defined
  <2>2. tag.name = "api_view"
    BY DEF Tag
  <2> HIDE DEF tag
  <2>3. IsDef(d, o, <<tag>>)
    BY <2>1
  <2>4. d.tags = <<tag>>
    BY <2>3 DEF IsDef, Says
  <2> QED BY <2>2, <2>4, Tuples
<1>3. PICK tag : /\ d.tags = <<tag>>
                 /\ f = "fastapi" => tag.name \in Verbs
                 /\ f = "flask" => tag.name = "route"
                 /\ f = "django" => tag.on = FALSE
  BY <1>1
<1>4. DOMAIN d.tags = {1} /\ d.tags[1] = tag
  BY <1>3, Tuples
<1>5. "route" \notin Verbs /\ "api_view" \notin Verbs
  BY DEF Verbs
<1>6. ASSUME f # "fastapi" PROVE {i \in DOMAIN d.tags : d.tags[i].called /\ d.tags[i].on /\ d.tags[i].name \in Verbs /\ d.tags[i].fixed} = {}
  BY <1>3, <1>4, <1>5, <1>6 DEF Routed
<1>7. ASSUME f # "flask" PROVE {i \in DOMAIN d.tags : d.tags[i].called /\ d.tags[i].on /\ d.tags[i].name = "route" /\ d.tags[i].fixed} = {}
  BY <1>3, <1>4, <1>5, <1>7 DEF Routed
<1>8. ASSUME f # "django" PROVE {i \in DOMAIN d.tags : d.tags[i].called /\ d.tags[i].name = "api_view"} = {}
  BY <1>3, <1>4, <1>5, <1>8 DEF Routed
<1>9. f # "fastapi" => TagsOf(d, LAMBDA t : t.called /\ t.on /\ t.name \in Verbs /\ t.fixed) = <<>>
  BY <1>3, <1>6, OneTag DEF TagsOf, Kept
<1>10. f # "flask" => TagsOf(d, LAMBDA t : t.called /\ t.on /\ t.name = "route" /\ t.fixed) = <<>>
  BY <1>3, <1>7, OneTag DEF TagsOf, Kept
<1>11. f # "django" => TagsOf(d, LAMBDA t : t.called /\ t.name = "api_view") = <<>>
  BY <1>3, <1>8, OneTag DEF TagsOf, Kept
<1> QED BY <1>9, <1>10, <1>11

(* Nothing, flattened.                                                      *)
LEMMA NothingFlat == FlattenSeq(<<>>) = <<>>
<1>1. IsSeq(<<>>) /\ \A i \in DOMAIN <<>> : IsSeq(<<>>[i])
  BY Tuples
<1>2. IsSeq(FlattenSeq(<<>>)) /\ ToSet(FlattenSeq(<<>>)) = {}
  <2> DEFINE ss == <<>>
  <2>1. DOMAIN ss = {}
    OBVIOUS
  <2>2. IsSeq(FlattenSeq(ss)) /\ ToSet(FlattenSeq(ss)) = UNION {ToSet(ss[i]) : i \in DOMAIN ss}
    BY <1>1, FlattenFacts
  <2> HIDE DEF ss
  <2>3. UNION {ToSet(ss[i]) : i \in DOMAIN ss} = {}
    BY <2>1
  <2> QED BY <2>2, <2>3 DEF ss
<1> QED BY <1>2, SeqFacts

(* Nothing is kept of the sequence.                                         *)
LEMMA NoneOfAll ==
    ASSUME NEW s, IsSeq(s), NEW I, I = {}
    PROVE  At(s, I) = <<>>
BY NoneKept

(* The detectors of the Python frameworks find nothing in one another's     *)
(* sources.                                                                 *)
LEMMA ForeignRoutes ==
    ASSUME NEW f \in Routed, NEW g \in Routed, f # g, NEW ops, ToSet(ops) \subseteq Operations, NEW s, IsSeq(s),
           \A d \in ToSet(s) : d.kind = "def" => \E o \in ToSet(ops) : WrittenAs(f, d, o)
    PROVE  Detect(g, s) = <<>>
<1> DEFINE defs == Defs(s)
           fa(d) == TagsOf(d, LAMBDA t : t.called /\ t.on /\ t.name \in Verbs /\ t.fixed)
           fl(d) == TagsOf(d, LAMBDA t : t.called /\ t.on /\ t.name = "route" /\ t.fixed)
           dj(d) == TagsOf(d, LAMBDA t : t.called /\ t.name = "api_view")
<1>1. IsSeq(defs) /\ ToSet(defs) = {d \in ToSet(s) : d.kind = "def"}
  BY DefsOf
<1>2. ASSUME NEW d \in ToSet(defs)
      PROVE  /\ f # "fastapi" => fa(d) = <<>>
             /\ f # "flask" => fl(d) = <<>>
             /\ f # "django" => dj(d) = <<>>
  <2>1. PICK o \in ToSet(ops) : WrittenAs(f, d, o)
    BY <1>1
  <2> QED BY <2>1, ForeignTags
<1>3. \A i \in DOMAIN defs : defs[i] \in ToSet(defs)
  BY DEF ToSet
<1>4. CASE g = "fastapi"
  <2> DEFINE I == {i \in DOMAIN defs : fa(defs[i]) # <<>>}
             kept == At(defs, I)
             items == [i \in DOMAIN kept |-> Endpoint(s, kept[i], fa(kept[i])[1].name, fa(kept[i])[1].path, FastAPISkip)]
  <2>1. Detect(g, s) = items
    BY <1>4 DEF Detect, FastAPIEndpoints, Collect, Kept
  <2> HIDE DEF fa, defs
  <2>2. I = {}
    BY <1>2, <1>3, <1>4
  <2> HIDE DEF I
  <2>3. kept = <<>>
    BY <1>1, <2>2, NoneOfAll
  <2> HIDE DEF kept
  <2>4. items = [i \in DOMAIN kept |-> items[i]]
    OBVIOUS
  <2> HIDE DEF items
  <2> QED BY <2>1, <2>3, <2>4, NothingMapped
<1>5. CASE g = "flask"
  <2> DEFINE I == {i \in DOMAIN defs : fl(defs[i]) # <<>>}
             kept == At(defs, I)
             verbs(t) == IF t.verbs = {} THEN {"GET"} ELSE t.verbs
             parts == [i \in DOMAIN kept |-> PerVerb(s, kept[i], verbs(fl(kept[i])[1]), fl(kept[i])[1].path)]
  <2>1. Detect(g, s) = FlattenSeq(parts)
    BY <1>5 DEF Detect, FlaskEndpoints, Collect, Kept
  <2> HIDE DEF fl, defs
  <2>2. I = {}
    BY <1>2, <1>3, <1>5
  <2> HIDE DEF I
  <2>3. kept = <<>>
    BY <1>1, <2>2, NoneOfAll
  <2> HIDE DEF kept
  <2>4. parts = [i \in DOMAIN kept |-> parts[i]]
    OBVIOUS
  <2> HIDE DEF parts
  <2>5. parts = <<>>
    BY <2>3, <2>4, NothingMapped
  <2> QED BY <2>1, <2>5, NothingFlat
<1>6. CASE g = "django"
  <2> DEFINE urls == OfKind(s, "url")
             V == {i \in DOMAIN defs : dj(defs[i]) # <<>>}
             views == At(defs, V)
             wired == {v.name : v \in ToSet(views)} \cap {u.name : u \in ToSet(urls)}
             I == {i \in DOMAIN views : views[i].name \in wired /\ LastNamed(views, views[i].name) = views[i]}
             last == At(views, I)
             clean(p) == IF p.style = "converter" THEN [p EXCEPT !.style = "braces"] ELSE p
             parts == [i \in DOMAIN last |-> PerVerb(s, last[i], dj(last[i])[1].verbs, clean(LastNamed(urls, last[i].name).path))]
  <2>1. Detect(g, s) = FlattenSeq(parts)
    BY <1>6 DEF Detect, DjangoEndpoints, Collect, Kept
  <2> HIDE DEF dj, defs
  <2>2. V = {}
    BY <1>2, <1>3, <1>6
  <2> HIDE DEF V
  <2>3. views = <<>>
    BY <1>1, <2>2, NoneOfAll
  <2> HIDE DEF views
  <2>4. I = {}
    BY <2>3, Tuples
  <2> HIDE DEF I
  <2>5. last = <<>>
    BY <2>3, <2>4, NoneOfAll, Tuples
  <2> HIDE DEF last
  <2>6. parts = [i \in DOMAIN last |-> parts[i]]
    OBVIOUS
  <2> HIDE DEF parts
  <2>7. parts = <<>>
    BY <2>5, <2>6, NothingMapped
  <2> QED BY <2>1, <2>7, NothingFlat
<1> QED BY <1>4, <1>5, <1>6 DEF Routed

(* Stages among tasks and tasks among stages: nothing.                      *)
LEMMA LuigiForeign ==
    ASSUME NEW f \in Stagelike, NEW s, NEW ops, Sourced(f, s, ops)
    PROVE  Detect("luigi", s) = <<>>
<1> DEFINE I == {i \in DOMAIN s : s[i].kind = "class" /\ s[i].lang = "py" /\ s[i].names \cap {"Task", "ExternalTask"} # {}}
           tasks == At(s, I)
           given(d) == {n \in DOMAIN d.params : d.params[n] \in DOMAIN ParamTypes}
           form(d) == Form(NameKey(d.name), [n \in given(d) |-> ParamTypes[d.params[n]]], NoFields, "")
           items == [i \in DOMAIN tasks |-> form(tasks[i])]
<1>1. Detect("luigi", s) = items
  BY DEF Detect, LuigiStages, Collect, Kept
<1>2. I = {}
  <2>1. ASSUME NEW i \in DOMAIN s PROVE s[i].kind # "class"
    <3>1. PICK o \in ToSet(ops) : WrittenAs(f, s[i], o)
      BY SourcedFacts
    <3>2. f \in Defined
      BY DEF Stagelike, Defined
    <3>3. s[i].kind = "def"
      BY <3>1, <3>2, DefSays DEF IsDef, Says
    <3> QED BY <3>3
  <2> QED BY <2>1
<1> HIDE DEF I
<1>3. tasks = <<>>
  BY <1>2, NoneOfAll DEF Sourced, Carries
<1> HIDE DEF tasks, form
<1>4. items = [i \in DOMAIN tasks |-> items[i]]
  OBVIOUS
<1> HIDE DEF items
<1> QED BY <1>1, <1>3, <1>4, NothingMapped

LEMMA StagesForeign ==
    ASSUME NEW s, NEW ops, Sourced("luigi", s, ops), NEW g \in Stagelike
    PROVE  Detect(g, s) = <<>>
<1> DEFINE found == StageFound(g, s)
           defs == Defs(s)
           I1 == {i \in DOMAIN defs : defs[i] \in found}
           kept == At(defs, I1)
           form(d) == Form(NameKey(d.name), Without(d.params, PipelineSkip), OutputFields(s, d), "")
           forms == [i \in DOMAIN kept |-> form(kept[i])]
           I2 == {i \in DOMAIN forms : forms[i].first # NoFields \/ forms[i].second # NoFields}
<1>1. Detect(g, s) = Stages(s, found)
  BY DEF Stagelike, Detect, StageFound, AirflowStages, PrefectStages, DagsterStages
<1> HIDE DEF found
<1>2. Detect(g, s) = At(forms, I2)
  BY <1>1 DEF Stages, Collect, Kept
<1>3. IsSeq(defs) /\ ToSet(defs) = {}
  <2>1. ASSUME NEW d \in ToSet(s) PROVE d.kind # "def"
    <3>1. PICK o \in ToSet(ops) : WrittenAs("luigi", d, o)
      BY DEF Sourced, Carries
    <3>2. d.kind = "class"
      BY <3>1 DEF WrittenAs, Says, Defined
    <3> QED BY <3>2
  <2>2. IsSeq(defs) /\ ToSet(defs) = {d \in ToSet(s) : d.kind = "def"}
    BY DefsOf DEF Sourced, Carries
  <2> HIDE DEF defs
  <2> QED BY <2>1, <2>2
<1> HIDE DEF defs
<1>4. defs = <<>>
  BY <1>3, SeqFacts
<1>5. I1 = {}
  BY <1>4, Tuples
<1> HIDE DEF I1
<1>6. kept = <<>>
  BY <1>3, <1>5, NoneOfAll
<1> HIDE DEF kept, form
<1>7. forms = [i \in DOMAIN kept |-> forms[i]] /\ DOMAIN forms = DOMAIN kept
  OBVIOUS
<1>8. I2 = {}
  BY <1>6, <1>7, Tuples
<1> HIDE DEF forms, I2
<1>9. forms = <<>>
  BY <1>6, <1>7, NothingMapped
<1> QED BY <1>2, <1>8, <1>9, NoneOfAll, Tuples

(* LangChain's tools among plain functions: none.                           *)
LEMMA LangchainForeign ==
    ASSUME NEW s, NEW ops, Sourced("tool_schema", s, ops)
    PROVE  Detect("langchain", s) = <<>>
<1> DEFINE defs == Defs(s)
           tool(d) == TagsOf(d, LAMBDA t : t.name = "tool")
           name(d) == IF tool(d)[1].called /\ tool(d)[1].given # "" THEN tool(d)[1].given ELSE d.name
           I == {i \in DOMAIN defs : tool(defs[i]) # <<>>}
           kept == At(defs, I)
           form(d) == Form(NameKey(name(d)), Without(d.params, ParamSkip), NoFields, "")
           items == [i \in DOMAIN kept |-> form(kept[i])]
<1>1. Detect("langchain", s) = items
  BY DEF Detect, LangchainTools, Collect, Kept
<1>2. "tool_schema" \in Defined /\ \A o : TagsWritten("tool_schema", o) = <<>>
  BY DEF Defined, TagsWritten
<1>3. Sourced("tool_schema", defs, ops)
  BY <1>2, DefsSourced
<1>4. ASSUME NEW i \in DOMAIN defs PROVE tool(defs[i]) = <<>>
  <2> DEFINE d == defs[i]
             J == {j \in DOMAIN d.tags : d.tags[j].name = "tool"}
  <2>1. PICK o \in ToSet(ops) : WrittenAs("tool_schema", d, o)
    BY <1>3, SourcedFacts
  <2> HIDE DEF d
  <2>2. d.tags = <<>>
    <3>1. IsDef(d, o, TagsWritten("tool_schema", o))
      BY <1>2, <2>1, DefSays
    <3>2. IsDef(d, o, <<>>)
      BY <1>2, <3>1
    <3> QED BY <3>2 DEF IsDef, Says
  <2>3. J = {}
    BY <2>2, Tuples
  <2>4. tool(d) = At(d.tags, J)
    BY DEF TagsOf, Kept
  <2> HIDE DEF J
  <2>5. tool(d) = <<>>
    BY <2>2, <2>3, <2>4, NoneOfAll, Tuples
  <2> QED BY <2>5 DEF d
<1> HIDE DEF tool, defs, form
<1>5. I = {}
  BY <1>4
<1> HIDE DEF I
<1>6. kept = <<>>
  BY <1>3, <1>5, NoneOfAll DEF Sourced, Carries
<1> HIDE DEF kept
<1>7. items = [i \in DOMAIN kept |-> items[i]]
  OBVIOUS
<1> HIDE DEF items
<1> QED BY <1>1, <1>6, <1>7, NothingMapped

-----------------------------------------------------------------------------
(* All detectors together.                                                  *)

(* s has the declarations of the operations: as many of each as the         *)
(* framework takes.                                                         *)
CarriedBy(f, s, ops) ==
    CASE f = "gin" -> CarriesFiles(s, ops) [] f \in Paired -> CarriesPairs(f, s, ops) [] OTHER -> Carries(f, s, ops)

(* So has the source that is written.                                       *)
LEMMA SourceCarried ==
    ASSUME NEW f \in TheFrameworks, NEW ops \in Seq(Operations)
    PROVE  CarriedBy(f, Source(f, ops), ops)
<1>1. CASE f = "gin"
  BY <1>1, GinSource DEF CarriedBy, Paired
<1>2. CASE f \in Paired
  BY <1>2, PairSource DEF CarriedBy, Paired
<1>3. CASE f \notin Paired \cup {"gin"}
  <2>1. f \in Single
    BY <1>3, RegisteredIs DEF TheFrameworks, Paired, Single, Defined
  <2>2. Carries(f, Source(f, ops), ops)
    BY <2>1, SingleSource DEF Carries
  <2> QED BY <1>3, <2>2 DEF CarriedBy
<1> QED BY <1>1, <1>2, <1>3

(* And whatever has the same declarations.                                  *)
LEMMA CarriedSame ==
    ASSUME NEW f, NEW s, NEW ops, CarriedBy(f, s, ops), NEW t, IsSeq(t), ToSet(t) = ToSet(s)
    PROVE  CarriedBy(f, t, ops)
<1>1. CASE f = "gin"
  BY <1>1 DEF CarriedBy, CarriesFiles, Paired
<1>2. CASE f \in Paired
  BY <1>2 DEF CarriedBy, CarriesPairs, Paired
<1>3. CASE f \notin Paired \cup {"gin"}
  BY <1>3 DEF CarriedBy, Carries
<1> QED BY <1>1, <1>2, <1>3

(* The language a framework is written in.                                  *)
Lang(f) ==
    CASE f \in {"express", "javascript_logging"} -> "js"
      [] f = "gin" -> "go"
      [] f = "typescript" -> "ts"
      [] f = "terraform" -> "tf"
      [] f = "ansible" -> "yml"
      [] f = "react_native" -> "tsx"
      [] f = "flutter" -> "dart"
      [] f = "swiftui" -> "swift"
      [] OTHER -> "py"

(* All of a source is in one language.                                      *)
LEMMA CarriedFacts ==
    ASSUME NEW f \in TheFrameworks, NEW s, NEW ops, CarriedBy(f, s, ops)
    PROVE  IsSeq(s) /\ \A d \in ToSet(s) : d.lang = Lang(f) /\ "file" \in DOMAIN d
<1>1. CASE f = "gin"
  <2>1. CarriesFiles(s, ops) /\ Lang(f) = "go"
    BY <1>1 DEF CarriedBy, Paired, Lang
  <2>2. \A d, o : WrittenAs("gin", d, o) => d.lang = "go" /\ "file" \in DOMAIN d
    <3>1. \A d, o : WrittenAs("gin", d, o) <=> Says(d, "route", "go", o.name, "", NoFields, o.verb, {}, <<>>, Route("gin", o))
      BY DEF WrittenAs, Defined
    <3> QED BY <3>1 DEF Says
  <2>3. \A d, o : IsHandler(d, o) => d.lang = "go" /\ "file" \in DOMAIN d
    BY DEF IsHandler, Says
  <2>4. \A d, name, fields : IsStruct(d, name, fields) => d.lang = "go" /\ "file" \in DOMAIN d
    BY DEF IsStruct, Says
  <2>5. IsSeq(s) /\ \A d \in ToSet(s) : \E i \in DOMAIN ops : GinPart(d, i, ops[i])
    BY <2>1 DEF CarriesFiles
  <2>6. ASSUME NEW d \in ToSet(s) PROVE d.lang = "go" /\ "file" \in DOMAIN d
    <3>1. PICK i \in DOMAIN ops : GinPart(d, i, ops[i])
      BY <2>5
    <3>2. \/ WrittenAs("gin", d, ops[i]) \/ IsHandler(d, ops[i])
          \/ IsStruct(d, "In", ops[i].first) \/ IsStruct(d, "Out", ops[i].second)
      BY <3>1 DEF GinPart
    <3> QED BY <2>2, <2>3, <2>4, <3>2
  <2> QED BY <2>1, <2>5, <2>6
<1>2. CASE f \in Paired
  <2>1. CarriesPairs(f, s, ops)
    BY <1>2 DEF CarriedBy, Paired
  <2>2. ASSUME NEW d, NEW o, WrittenAs(f, d, o) \/ Beside(f, d, o) PROVE d.lang = Lang(f) /\ "file" \in DOMAIN d
    <3>1. CASE f = "django"
      BY <2>2, <3>1 DEF WrittenAs, Beside, Defined, IsDef, Says, Lang
    <3>2. CASE f = "typescript"
      BY <2>2, <3>2 DEF WrittenAs, Beside, Defined, Says, Lang
    <3> QED BY <1>2, <3>1, <3>2 DEF Paired
  <2> QED BY <2>1, <2>2 DEF CarriesPairs
<1>3. CASE f \notin Paired \cup {"gin"}
  <2>1. f \in Single /\ Carries(f, s, ops)
    BY <1>3, RegisteredIs DEF TheFrameworks, Paired, Single, Defined, CarriedBy
  <2>2. ASSUME NEW d, NEW o, WrittenAs(f, d, o) PROVE d.lang = Lang(f) /\ "file" \in DOMAIN d
    <3>1. CASE f \in Defined
      <4>1. d.lang = "py" /\ "file" \in DOMAIN d
        BY <2>2, <3>1, DefSays DEF IsDef, Says
      <4> QED BY <3>1, <4>1 DEF Lang, Defined
    <3>2. CASE f \in {"luigi", "click", "pulumi", "python_logging"}
      <4>1. d.lang = "py" /\ "file" \in DOMAIN d
        <5>1. CASE f = "luigi"
          BY <2>2, <5>1 DEF WrittenAs, Says, Defined
        <5>2. CASE f = "click"
          BY <2>2, <5>2 DEF WrittenAs, Says, Defined
        <5>3. CASE f \in {"pulumi", "python_logging"}
          BY <2>2, <5>3 DEF WrittenAs, Says, Defined
        <5> QED BY <3>2, <5>1, <5>2, <5>3
      <4> QED BY <3>2, <4>1 DEF Lang
    <3>3. CASE f \in {"express", "javascript_logging"}
      BY <2>2, <3>3 DEF WrittenAs, Says, Defined, Lang
    <3>4. CASE f \in {"terraform", "ansible"}
      BY <2>2, <3>4 DEF WrittenAs, Says, Defined, Lang
    <3>5. CASE f \in {"react_native", "flutter", "swiftui"}
      BY <2>2, <3>5 DEF WrittenAs, Says, Defined, Lang
    <3> QED BY <2>1, <3>1, <3>2, <3>3, <3>4, <3>5 DEF Single
  <2> QED BY <2>1, <2>2 DEF Carries
<1> QED BY <1>1, <1>2, <1>3

(* FlattenSeq of two.                                                       *)
LEMMA FlattenTwo ==
    ASSUME NEW ss, IsSeq(ss), Len(ss) = 2
    PROVE  FlattenSeq(ss) = ss[1] \o ss[2]
<1> DEFINE Flattens(h) == h = [i \in 1..Len(ss) |-> IF i = 1 THEN ss[i] ELSE h[i - 1] \o ss[i]]
           g == [i \in 1..2 |-> IF i = 1 THEN ss[1] ELSE ss[1] \o ss[2]]
<1>1. FlattenSeq(ss) = (CHOOSE h : Flattens(h))[Len(ss)]
  BY DEF FlattenSeq
<1>2. Flattens(g)
  <2>1. g = [i \in 1..2 |-> g[i]] /\ g[1] = ss[1] /\ g[2] = ss[1] \o ss[2]
    OBVIOUS
  <2> HIDE DEF g
  <2>2. [i \in 1..2 |-> IF i = 1 THEN ss[i] ELSE g[i - 1] \o ss[i]] = [i \in 1..2 |-> g[i]]
    <3>1. \A i \in 1..2 : (IF i = 1 THEN ss[i] ELSE g[i - 1] \o ss[i]) = g[i]
      <4> SUFFICES ASSUME NEW i \in 1..2 PROVE (IF i = 1 THEN ss[i] ELSE g[i - 1] \o ss[i]) = g[i]
        OBVIOUS
      <4>1. CASE i = 1
        BY <2>1, <4>1
      <4>2. CASE i = 2
        BY <2>1, <4>2
      <4> QED BY <4>1, <4>2
    <3> QED BY <3>1
  <2> QED BY <2>1, <2>2
<1>3. PICK h : h = (CHOOSE k : Flattens(k))
  OBVIOUS
<1>4. Flattens(h)
  BY <1>2, <1>3
<1>5. \A i \in 1..2 : h[i] = IF i = 1 THEN ss[i] ELSE h[i - 1] \o ss[i]
  BY <1>4
<1> HIDE DEF Flattens
<1>6. h[1] = ss[1] /\ h[2] = h[1] \o ss[2]
  BY <1>5
<1> QED BY <1>1, <1>3, <1>6

(* s is what the operations are written as, and they can be told apart in   *)
(* it.                                                                      *)
Readable(f, s, ops) ==
    /\ ops \in Seq(Operations) /\ NamesOnce(ops)
    /\ \A o \in ToSet(ops) : Expressible(f, o)
    /\ CarriedBy(f, s, ops)

(* What that says, by how many declarations an operation has.               *)
LEMMA ReadableSourced ==
    ASSUME NEW f \in TheFrameworks, NEW s, NEW ops, Readable(f, s, ops)
    PROVE  /\ ToSet(ops) \subseteq Operations
           /\ f = "gin" => CarriesFiles(s, ops)
           /\ f \in Paired => CarriesPairs(f, s, ops)
           /\ f \notin Paired \cup {"gin"} => Sourced(f, s, ops)
<1>1. ToSet(ops) \subseteq Operations
  BY DEF Readable, ToSet
<1>2. CarriedBy(f, s, ops) /\ \A o \in ToSet(ops) : Expressible(f, o)
  BY DEF Readable
<1>3. f = "gin" => CarriesFiles(s, ops)
  BY <1>2 DEF CarriedBy, Paired
<1>4. f \in Paired => CarriesPairs(f, s, ops)
  BY <1>2 DEF CarriedBy, Paired
<1>5. f \notin Paired \cup {"gin"} => Carries(f, s, ops)
  BY <1>2 DEF CarriedBy, Paired
<1> QED BY <1>1, <1>2, <1>3, <1>4, <1>5 DEF Sourced

(* The framework's own detector reads all of it.                            *)
LEMMA OwnDetector ==
    ASSUME NEW f \in TheFrameworks, NEW s, NEW ops, Readable(f, s, ops)
    PROVE  ReadsAll(Detect(f, s), f, ops)
<1>0. ops \in Seq(Operations) /\ NamesOnce(ops) /\ ToSet(ops) \subseteq Operations /\ \A o \in ToSet(ops) : Expressible(f, o)
  BY ReadableSourced DEF Readable
<1>1. CASE f = "gin"
  BY <1>0, <1>1, ReadableSourced, GinRead
<1>2. CASE f = "django"
  <2>1. CarriesPairs("django", s, ops)
    BY <1>2, ReadableSourced DEF Paired
  <2> QED BY <1>0, <1>2, <2>1, DjangoRead
<1>3. CASE f = "typescript"
  <2>1. CarriesPairs("typescript", s, ops)
    BY <1>3, ReadableSourced DEF Paired
  <2> QED BY <1>0, <1>3, <2>1, TypescriptRead
<1>4. CASE f \notin Paired \cup {"gin"}
  <2>1. Sourced(f, s, ops)
    BY <1>4, ReadableSourced
  <2>2. CASE f \in Stagelike
    BY <1>0, <2>1, <2>2, StageDetection DEF Sourced
  <2>3. CASE f \in {"luigi", "fastapi", "flask", "express"}
    BY <2>1, <2>3, LuigiRead, FastAPIRead, FlaskRead, ExpressRead
  <2>4. CASE f \in {"click", "typer", "python_library"}
    BY <2>1, <2>4, ClickRead, TyperRead, PythonLibraryRead
  <2>5. CASE f \in {"tool_schema", "langchain"}
    BY <2>1, <2>5, ToolsRead, LangchainRead
  <2>6. CASE f \in {"terraform", "pulumi", "ansible"}
    BY <2>1, <2>6, TerraformRead, PulumiRead, AnsibleRead
  <2>7. CASE f \in {"react_native", "flutter", "swiftui"}
    BY <2>1, <2>7, ReactNativeRead, FlutterRead, SwiftuiRead
  <2>8. CASE f \in {"python_logging", "javascript_logging"}
    BY <2>1, <2>8, LogRead
  <2>9. \/ f \in Stagelike \cup {"luigi", "fastapi", "flask", "express", "click", "typer", "python_library", "tool_schema", "langchain"}
        \/ f \in {"terraform", "pulumi", "ansible", "react_native", "flutter", "swiftui", "python_logging", "javascript_logging"}
    BY <1>4, RegisteredIs DEF TheFrameworks, Paired, Stagelike
  <2> QED BY <2>2, <2>3, <2>4, <2>5, <2>6, <2>7, <2>8, <2>9
<1> QED BY <1>1, <1>2, <1>3, <1>4 DEF Paired

(* In no files a detector finds nothing.                                    *)
LEMMA EmptyRead ==
    ASSUME NEW g \in TheFrameworks
    PROVE  Detect(g, <<>>) = <<>>
<1>1. <<>> \in Seq(Operations) /\ IsSeq(<<>>) /\ ToSet(<<>>) = {} /\ DOMAIN <<>> = {}
  BY Tuples
<1>2. CarriedBy(g, <<>>, <<>>)
  <2>1. CASE g = "gin"
    BY <1>1, <2>1 DEF CarriedBy, CarriesFiles, Paired
  <2>2. CASE g \in Paired
    BY <1>1, <2>2 DEF CarriedBy, CarriesPairs, Paired
  <2>3. CASE g \notin Paired \cup {"gin"}
    BY <1>1, <2>3 DEF CarriedBy, Carries, Paired
  <2> QED BY <2>1, <2>2, <2>3
<1>3. Readable(g, <<>>, <<>>)
  BY <1>1, <1>2 DEF Readable, NamesOnce
<1>4. IsSeq(Detect(g, <<>>)) /\ ToSet(Detect(g, <<>>)) = {}
  BY <1>1, <1>3, OwnDetector DEF ReadsAll, ReadsSome
<1> QED BY <1>4, SeqFacts

(* And nothing is some.                                                     *)
LEMMA NoneIsRead ==
    ASSUME NEW items, items = <<>>, NEW f, NEW ops
    PROVE  ReadsSome(items, f, ops)
BY Tuples DEF ReadsSome

(* The other detectors of the capability that open the same files: they     *)
(* find what the framework's own finds, or nothing. Click's on a source of  *)
(* Typer's finds other options, and comes first.                            *)
LEMMA OtherDetector ==
    ASSUME NEW f \in TheFrameworks, NEW s, NEW ops, Readable(f, s, ops),
           NEW g \in ToSet(Registered[Capability(f)]), g # f, Lang(f) \in Extensions(g), f # "click"
    PROVE  /\ f # "typer" => ReadsSome(Detect(g, s), f, ops)
           /\ f = "typer" => g = "click" /\ KeysRead(Detect("click", s), "typer", ops)
<1>0. ToSet(ops) \subseteq Operations /\ \A o \in ToSet(ops) : Expressible(f, o)
  BY ReadableSourced DEF Readable
<1>1. CASE f \in Stagelike
  <2>1. g \in Stagelike \cup {"luigi"} /\ Sourced(f, s, ops) /\ f # "typer"
    BY <1>1, RegisteredIs, Capabilities, ReadableSourced DEF Stagelike, Paired
  <2>2. g \in Stagelike => ReadsSome(Detect(g, s), f, ops)
    BY <1>0, <1>1, <2>1, StageDetection DEF Sourced
  <2>3. g = "luigi" => Detect(g, s) = <<>>
    BY <1>1, <2>1, LuigiForeign
  <2> QED BY <2>1, <2>2, <2>3, NoneIsRead
<1>2. CASE f = "luigi"
  <2>1. g \in Stagelike /\ Sourced("luigi", s, ops)
    BY <1>2, RegisteredIs, Capabilities, ReadableSourced DEF Stagelike, Paired
  <2>2. Detect(g, s) = <<>>
    BY <2>1, StagesForeign
  <2> QED BY <1>2, <2>2, NoneIsRead
<1>3. CASE Capability(f) = "web-api"
  <2>1. f \in {"fastapi", "flask", "express", "django", "gin"} /\ g \in {"fastapi", "flask", "express", "django", "gin"}
    BY <1>3, RegisteredIs, FrameworkFacts
  <2>2. f \in Routed /\ g \in Routed
    <3>1. f = "express" => Lang(f) = "js"
      BY DEF Lang
    <3>2. f = "gin" => Lang(f) = "go"
      BY DEF Lang
    <3>3. f \in Routed => Lang(f) = "py"
      BY DEF Lang, Routed
    <3>4. g = "express" => Extensions(g) = {"js", "ts"}
      BY DEF Extensions
    <3>5. g = "gin" => Extensions(g) = {"go"}
      BY DEF Extensions
    <3>6. g \in Routed => Extensions(g) = {"py"}
      BY DEF Extensions, Routed
    <3> QED BY <2>1, <3>1, <3>2, <3>3, <3>4, <3>5, <3>6 DEF Routed
  <2>3. IsSeq(s) /\ \A d \in ToSet(s) : d.kind = "def" => \E o \in ToSet(ops) : WrittenAs(f, d, o)
    <3>1. CASE f = "django"
      <4>1. CarriesPairs("django", s, ops)
        BY <3>1, ReadableSourced DEF Paired
      <4>2. \A d, o : Beside("django", d, o) => d.kind = "url"
        BY DEF Beside, Says
      <4> QED BY <3>1, <4>1, <4>2 DEF CarriesPairs
    <3>2. CASE f # "django"
      <4>1. Sourced(f, s, ops)
        BY <2>2, <3>2, ReadableSourced DEF Routed, Paired
      <4> QED BY <4>1 DEF Sourced, Carries
    <3> QED BY <3>1, <3>2
  <2>4. Detect(g, s) = <<>>
    BY <1>0, <2>2, <2>3, ForeignRoutes
  <2> QED BY <2>2, <2>4, NoneIsRead DEF Routed
<1>4. CASE f = "typer"
  <2>1. g = "click" /\ Sourced("typer", s, ops)
    BY <1>4, RegisteredIs, Capabilities, ReadableSourced DEF Paired
  <2> QED BY <1>4, <2>1, TyperSeenByClick
<1>5. CASE f \in {"tool_schema", "langchain"}
  <2>1. g \in {"tool_schema", "langchain"} /\ Sourced(f, s, ops)
    BY <1>5, RegisteredIs, Capabilities, ReadableSourced DEF Paired
  <2>2. f = "langchain" => ReadsSome(Detect("tool_schema", s), f, ops)
    BY <1>5, <2>1, ToolsRead
  <2>3. f = "tool_schema" => Detect("langchain", s) = <<>>
    BY <2>1, LangchainForeign
  <2> QED BY <1>5, <2>1, <2>2, <2>3, NoneIsRead
<1>6. CASE Capability(f) \in {"library", "iac", "mobile", "logging"}
  <2>1. \/ f \in {"python_library", "typescript"} /\ g \in {"python_library", "typescript"}
        \/ f \in {"terraform", "pulumi", "ansible"} /\ g \in {"terraform", "pulumi", "ansible"}
        \/ f \in {"react_native", "flutter", "swiftui"} /\ g \in {"react_native", "flutter", "swiftui"}
        \/ f \in {"python_logging", "javascript_logging"} /\ g \in {"python_logging", "javascript_logging"}
    BY <1>6, RegisteredIs, FrameworkFacts
  <2>2. /\ Lang("python_library") = "py" /\ Lang("typescript") = "ts"
        /\ Lang("terraform") = "tf" /\ Lang("pulumi") = "py" /\ Lang("ansible") = "yml"
        /\ Lang("react_native") = "tsx" /\ Lang("flutter") = "dart" /\ Lang("swiftui") = "swift"
        /\ Lang("python_logging") = "py" /\ Lang("javascript_logging") = "js"
    BY DEF Lang
  <2>3. /\ Extensions("python_library") = {"py"} /\ Extensions("typescript") = {"ts", "tsx"}
        /\ Extensions("terraform") = {"tf"} /\ Extensions("pulumi") = {"py"} /\ Extensions("ansible") = {"yml"}
        /\ Extensions("react_native") = {"tsx", "jsx", "ts", "js"} /\ Extensions("flutter") = {"dart"}
        /\ Extensions("swiftui") = {"swift"}
        /\ Extensions("python_logging") = {"py"} /\ Extensions("javascript_logging") = {"js", "jsx", "ts", "tsx"}
    BY DEF Extensions
  <2>4. FALSE
    BY <2>1, <2>2, <2>3
  <2> QED BY <2>4
<1>7. \/ f \in Stagelike \cup {"luigi", "typer", "tool_schema", "langchain"} \/ Capability(f) = "web-api"
      \/ Capability(f) \in {"library", "iac", "mobile", "logging"}
  BY RegisteredIs, FrameworkFacts DEF Stagelike
<1> QED BY <1>1, <1>2, <1>3, <1>4, <1>5, <1>6, <1>7

(* The declarations with a language among those of a detector are all of a  *)
(* framework's source, or none.                                             *)
LEMMA FilesOf ==
    ASSUME NEW f \in TheFrameworks, NEW src, NEW ops, CarriedBy(f, src, ops), NEW g
    PROVE  LET files == At(src, {i \in DOMAIN src : src[i].lang \in Extensions(g)})
           IN  /\ Lang(f) \in Extensions(g) => IsSeq(files) /\ ToSet(files) = ToSet(src)
               /\ Lang(f) \notin Extensions(g) => files = <<>>
<1> DEFINE I == {i \in DOMAIN src : src[i].lang \in Extensions(g)}
<1>1. IsSeq(src) /\ \A d \in ToSet(src) : d.lang = Lang(f)
  BY CarriedFacts
<1>2. \A i \in DOMAIN src : src[i].lang = Lang(f)
  BY <1>1, SeqFacts
<1>3. Lang(f) \in Extensions(g) => I = DOMAIN src
  BY <1>2
<1>4. Lang(f) \notin Extensions(g) => I = {}
  BY <1>2
<1> HIDE DEF I
<1>5. Lang(f) \in Extensions(g) => IsSeq(At(src, I)) /\ ToSet(At(src, I)) = ToSet(src)
  BY <1>1, <1>3, AllKept
<1>6. Lang(f) \notin Extensions(g) => At(src, I) = <<>>
  BY <1>1, <1>4, NoneOfAll
<1> QED BY <1>5, <1>6 DEF I

(* What a detector finds, where nothing is wrong with a file.               *)
LEMMA RunsOver ==
    ASSUME NEW f \in TheFrameworks, NEW src, NEW ops, Readable(f, src, ops), NEW g \in TheFrameworks
    PROVE  /\ Lang(f) \notin Extensions(g) => RunDetector(g, src, "none") = <<>>
           /\ Lang(f) \in Extensions(g) =>
                \E t : Readable(f, t, ops) /\ RunDetector(g, src, "none") = Detect(g, t)
<1> DEFINE files == At(src, {i \in DOMAIN src : src[i].lang \in Extensions(g)})
<1>1. RunDetector(g, src, "none") = Detect(g, files)
  BY DEF RunDetector, Kept
<1>2. CarriedBy(f, src, ops)
  BY DEF Readable
<1>3. /\ Lang(f) \in Extensions(g) => IsSeq(files) /\ ToSet(files) = ToSet(src)
      /\ Lang(f) \notin Extensions(g) => files = <<>>
  BY <1>2, FilesOf
<1> HIDE DEF files
<1>4. Lang(f) \notin Extensions(g) => RunDetector(g, src, "none") = <<>>
  BY <1>1, <1>3, EmptyRead
<1>5. ASSUME Lang(f) \in Extensions(g) PROVE Readable(f, files, ops)
  <2>1. CarriedBy(f, files, ops)
    BY <1>2, <1>3, <1>5, CarriedSame
  <2> QED BY <2>1 DEF Readable
<1> QED BY <1>1, <1>4, <1>5

(* A detector opens the files of its own framework.                         *)
LEMMA OwnExtension == \A f \in TheFrameworks : Lang(f) \in Extensions(f)
<1> TAKE f \in TheFrameworks
<1>1. CASE f \in {"express", "javascript_logging"}
  BY <1>1 DEF Lang, Extensions
<1>2. CASE f \in {"gin", "typescript", "terraform", "ansible", "react_native", "flutter", "swiftui"}
  BY <1>2 DEF Lang, Extensions
<1>3. CASE f \notin {"express", "javascript_logging", "gin", "typescript", "terraform", "ansible", "react_native", "flutter", "swiftui"}
  <2>1. Lang(f) = "py"
    BY <1>3 DEF Lang
  <2>2. "py" \in Extensions(f)
    <3>1. CASE f = "tool_schema"
      BY <3>1 DEF Extensions
    <3>2. CASE f # "tool_schema"
      BY <1>3, <3>2 DEF Extensions
    <3> QED BY <3>1, <3>2
  <2> QED BY <2>1, <2>2
<1> QED BY <1>1, <1>2, <1>3

(* What the detectors find tells each operation, and nothing else: for each *)
(* the item _by_key keeps is the form of the operation.                     *)
Faithful(items, f, ops) ==
    /\ IsSeq(items)
    /\ KeysOf(items) = {KeyShown(f, o) : o \in ToSet(ops)}
    /\ \A k \in KeysOf(items) : ByKey(items)[k] \in {FormShown(f, o) : o \in ToSet(ops)}

(* Reading all is faithful.                                                 *)
LEMMA AllIsFaithful ==
    ASSUME NEW f, NEW ops, NEW items, ReadsAll(items, f, ops)
    PROVE  Faithful(items, f, ops)
<1>1. IsSeq(items) /\ ToSet(items) \subseteq {FormShown(f, o) : o \in ToSet(ops)} /\ \A o \in ToSet(ops) : KeyShown(f, o) \in KeysOf(items)
  BY DEF ReadsAll, ReadsSome
<1>2. \A k \in KeysOf(items) : \E o \in ToSet(ops) : k = KeyShown(f, o)
  BY <1>1, KeyOfForm DEF KeysOf
<1>3. \A k \in KeysOf(items) : ByKey(items)[k] \in ToSet(items)
  BY <1>1, ByKeyFacts
<1> QED BY <1>1, <1>2, <1>3 DEF Faithful

(* The items of the detectors are those of each.                            *)
LEMMA ExtractIs ==
    ASSUME NEW f \in TheFrameworks, NEW named \in BOOLEAN, NEW src, NEW wrong,
           \A g \in ToSet(Registered[Capability(f)]) : IsSeq(RunDetector(g, src, wrong))
    PROVE  /\ IsSeq(Active(f, named))
           /\ named => ToSet(Active(f, named)) = {f}
           /\ ~ named => ToSet(Active(f, named)) = ToSet(Registered[Capability(f)])
           /\ IsSeq(ExtractCode(f, named, src, wrong))
           /\ ToSet(ExtractCode(f, named, src, wrong)) = UNION {ToSet(RunDetector(g, src, wrong)) : g \in ToSet(Active(f, named))}
<1>1. /\ IsSeq(Active(f, named))
      /\ named => ToSet(Active(f, named)) = {f}
      /\ ~ named => ToSet(Active(f, named)) = ToSet(Registered[Capability(f)])
  <2>1. CASE named
    BY <2>1, Tuples DEF Active
  <2>2. CASE ~ named
    <3>1. IsSeq(Registered[Capability(f)])
      <4>1. \A a, b, c : <<a, b, c>> \in Seq({a, b, c})
        OBVIOUS
      <4>2. \A a, b, c, d, e : <<a, b, c, d, e>> \in Seq({a, b, c, d, e})
        OBVIOUS
      <4>3. /\ IsSeq(StageDetectors) /\ IsSeq(EndpointDetectors)
        BY <4>2, SeqOfAny, Tuples DEF StageDetectors, EndpointDetectors
      <4>4. /\ IsSeq(CommandDetectors) /\ IsSeq(FunctionDetectors) /\ IsSeq(ToolDetectors) /\ IsSeq(LogDetectors)
        BY Tuples DEF CommandDetectors, FunctionDetectors, ToolDetectors, LogDetectors
      <4>5. IsSeq(ResourceDetectors) /\ IsSeq(ScreenDetectors)
        BY <4>1, SeqOfAny DEF ResourceDetectors, ScreenDetectors
      <4>6. \A c \in DOMAIN Registered : Registered[c] \in {StageDetectors, EndpointDetectors, CommandDetectors,
                FunctionDetectors, ToolDetectors, ResourceDetectors, ScreenDetectors, LogDetectors}
        BY DEF Registered
      <4> QED BY <4>3, <4>4, <4>5, <4>6, FrameworkFacts
    <3> QED BY <2>2, <3>1 DEF Active
  <2> QED BY <2>1, <2>2
<1> DEFINE active == Active(f, named)
           ss == [i \in DOMAIN active |-> RunDetector(active[i], src, wrong)]
<1>2. ExtractCode(f, named, src, wrong) = FlattenSeq(ss)
  BY DEF ExtractCode
<1>3. \A i \in DOMAIN active : active[i] \in ToSet(active)
  BY DEF ToSet
<1>4. ToSet(active) \subseteq ToSet(Registered[Capability(f)])
  BY <1>1, FrameworkFacts
<1>5. ss = [i \in DOMAIN active |-> ss[i]] /\ \A i \in DOMAIN active : ss[i] = RunDetector(active[i], src, wrong)
  OBVIOUS
<1>6. DOMAIN ss = DOMAIN active
  OBVIOUS
<1> HIDE DEF active, ss
<1>7. IsSeq(ss)
  BY <1>1, <1>5, MapFacts DEF active
<1>8. \A i \in DOMAIN ss : IsSeq(ss[i])
  BY <1>3, <1>4, <1>5, <1>6
<1>9. IsSeq(FlattenSeq(ss)) /\ ToSet(FlattenSeq(ss)) = UNION {ToSet(ss[i]) : i \in DOMAIN ss}
  BY <1>7, <1>8, FlattenFacts
<1>10. UNION {ToSet(ss[i]) : i \in DOMAIN ss} = UNION {ToSet(RunDetector(g, src, wrong)) : g \in ToSet(active)}
  <2>1. \A g \in ToSet(active) : \E i \in DOMAIN active : g = active[i]
    BY DEF ToSet
  <2> QED BY <1>3, <1>5, <1>6, <2>1
<1> QED BY <1>1, <1>2, <1>9, <1>10 DEF active

(* One detector of the capability, on the framework's source.               *)
LEMMA RunReads ==
    ASSUME NEW f \in TheFrameworks, NEW src, NEW ops, Readable(f, src, ops), f # "click",
           NEW g \in ToSet(Registered[Capability(f)]), g # f
    PROVE  LET items == RunDetector(g, src, "none")
           IN  /\ f # "typer" => ReadsSome(items, f, ops)
               /\ f = "typer" => g = "click" /\ KeysRead(items, f, ops)
<1>0. g \in TheFrameworks
  BY FrameworkFacts DEF TheFrameworks
<1>1. CASE Lang(f) \in Extensions(g)
  <2>1. PICK t : Readable(f, t, ops) /\ RunDetector(g, src, "none") = Detect(g, t)
    BY <1>0, <1>1, RunsOver
  <2>2. /\ f # "typer" => ReadsSome(Detect(g, t), f, ops)
        /\ f = "typer" => g = "click" /\ KeysRead(Detect("click", t), "typer", ops)
    BY <1>1, <2>1, OtherDetector
  <2> QED BY <2>1, <2>2
<1>2. CASE Lang(f) \notin Extensions(g)
  <2>1. RunDetector(g, src, "none") = <<>>
    BY <1>0, <1>2, RunsOver
  <2>2. ReadsSome(<<>>, f, ops) /\ KeysRead(<<>>, f, ops)
    BY NoneIsRead, Tuples DEF KeysRead, KeysOf
  <2>3. f = "typer" => g = "click"
    BY RegisteredIs, Capabilities
  <2> QED BY <2>1, <2>2, <2>3
<1> QED BY <1>1, <1>2

(* The framework's own detector, run.                                       *)
LEMMA OwnRuns ==
    ASSUME NEW f \in TheFrameworks, NEW src, NEW ops, Readable(f, src, ops)
    PROVE  ReadsAll(RunDetector(f, src, "none"), f, ops)
<1>1. PICK t : Readable(f, t, ops) /\ RunDetector(f, src, "none") = Detect(f, t)
  BY OwnExtension, RunsOver
<1> QED BY <1>1, OwnDetector

(* What is extracted of the code, where nothing is wrong with it, with the  *)
(* framework named or found out. Where Click's detector reads Typer's       *)
(* commands too, Typer's comes after it, and _by_key keeps what comes last. *)
LEMMA CodeSide ==
    ASSUME NEW f \in TheFrameworks, NEW named \in BOOLEAN, named \/ f # "click",
           NEW src, NEW ops, Readable(f, src, ops)
    PROVE  Faithful(ExtractCode(f, named, src, "none"), f, ops)
<1> DEFINE run(g) == RunDetector(g, src, "none")
           items == ExtractCode(f, named, src, "none")
<1>1. ReadsAll(run(f), f, ops)
  BY OwnRuns
<1>2. f \in ToSet(Registered[Capability(f)]) /\ Capability(f) \in DOMAIN Registered
  BY FrameworkFacts
<1>3. CASE named
  <2>1. items = FlattenSeq([i \in DOMAIN <<f>> |-> run(<<f>>[i])])
    BY <1>3 DEF ExtractCode, Active
  <2> HIDE DEF run, items
  <2> DEFINE ss == [i \in DOMAIN <<f>> |-> run(<<f>>[i])]
  <2>2. IsSeq(<<f>>) /\ DOMAIN <<f>> = {1} /\ <<f>>[1] = f
    BY Tuples
  <2>3. ss = [i \in DOMAIN <<f>> |-> ss[i]] /\ DOMAIN ss = DOMAIN <<f>> /\ ss[1] = run(f)
    BY <2>2
  <2> HIDE DEF ss
  <2>4. IsSeq(ss) /\ DOMAIN ss = {1}
    BY <2>2, <2>3, MapFacts
  <2>5. IsSeq(run(f))
    BY <1>1 DEF ReadsAll, ReadsSome
  <2>6. IsSeq(FlattenSeq(ss)) /\ ToSet(FlattenSeq(ss)) = UNION {ToSet(ss[i]) : i \in DOMAIN ss}
    BY <2>3, <2>4, <2>5, FlattenFacts
  <2>7. UNION {ToSet(ss[i]) : i \in DOMAIN ss} = ToSet(run(f))
    BY <2>3, <2>4
  <2>8. IsSeq(items) /\ ToSet(items) = ToSet(run(f))
    BY <2>1, <2>6, <2>7 DEF ss
  <2>9. ReadsAll(items, f, ops)
    BY <1>1, <2>8 DEF ReadsAll, ReadsSome, KeysOf
  <2> QED BY <2>9, AllIsFaithful DEF items
<1>4. CASE ~ named /\ f # "typer"
  <2>1. \A g \in ToSet(Registered[Capability(f)]) : ReadsSome(run(g), f, ops)
    <3> SUFFICES ASSUME NEW g \in ToSet(Registered[Capability(f)]) PROVE ReadsSome(run(g), f, ops)
      OBVIOUS
    <3>1. CASE g = f
      BY <1>1, <3>1 DEF ReadsAll
    <3>2. CASE g # f
      BY <1>4, <3>2, RunReads
    <3> QED BY <3>1, <3>2
  <2>2. /\ IsSeq(items)
        /\ ToSet(items) = UNION {ToSet(run(g)) : g \in ToSet(Registered[Capability(f)])}
    <3>1. \A g \in ToSet(Registered[Capability(f)]) : IsSeq(RunDetector(g, src, "none"))
      BY <2>1 DEF ReadsSome
    <3>2. /\ ToSet(Active(f, named)) = ToSet(Registered[Capability(f)])
          /\ IsSeq(items)
          /\ ToSet(items) = UNION {ToSet(run(g)) : g \in ToSet(Active(f, named))}
      BY <1>4, <3>1, ExtractIs
    <3> QED BY <3>2
  <2> HIDE DEF run, items
  <2>3. ToSet(items) \subseteq {FormShown(f, o) : o \in ToSet(ops)}
    BY <2>1, <2>2 DEF ReadsSome
  <2>4. ToSet(run(f)) \subseteq ToSet(items)
    BY <1>2, <2>2
  <2>5. ReadsAll(items, f, ops)
    BY <1>1, <2>2, <2>3, <2>4 DEF ReadsAll, ReadsSome, KeysOf
  <2> QED BY <2>5, AllIsFaithful DEF items
<1>5. CASE ~ named /\ f = "typer"
  <2>1. Registered[Capability(f)] = <<"click", "typer">>
    BY <1>5, Capabilities DEF Registered, CommandDetectors
  <2>2. KeysRead(run("click"), "typer", ops)
    <3>1. "click" \in ToSet(Registered[Capability(f)])
      BY <2>1, Tuples
    <3> QED BY <1>5, <3>1, RunReads
  <2>3. ReadsAll(run("typer"), "typer", ops)
    BY <1>1, <1>5
  <2>4. items = run("click") \o run("typer")
    <3> DEFINE ss == [i \in DOMAIN <<"click", "typer">> |-> run(<<"click", "typer">>[i])]
    <3>1. items = FlattenSeq(ss)
      BY <1>5, <2>1 DEF ExtractCode, Active
    <3> HIDE DEF run
    <3>2. ss = [i \in 1..2 |-> ss[i]] /\ ss[1] = run("click") /\ ss[2] = run("typer")
      OBVIOUS
    <3> HIDE DEF ss, items
    <3>3. IsSeq(ss)
      BY <3>2, SeqIs
    <3>4. Len(ss) = 2
      <4>1. DOMAIN ss = 1..2
        BY <3>2
      <4>2. Len(ss) \in Nat /\ DOMAIN ss = 1..Len(ss)
        BY <3>3, SeqFacts
      <4> QED BY <4>1, <4>2
    <3> QED BY <3>1, <3>2, <3>3, <3>4, FlattenTwo
  <2> HIDE DEF items
  <2> DEFINE c == run("click")
             t == run("typer")
  <2>5. /\ IsSeq(c) /\ KeysOf(c) \subseteq {KeyShown("typer", o) : o \in ToSet(ops)}
        /\ IsSeq(t) /\ ToSet(t) \subseteq {FormShown("typer", o) : o \in ToSet(ops)}
        /\ KeysOf(t) = {KeyShown("typer", o) : o \in ToSet(ops)}
    <3>1. IsSeq(c) /\ KeysOf(c) \subseteq {KeyShown("typer", o) : o \in ToSet(ops)}
      BY <2>2 DEF KeysRead
    <3>2. IsSeq(t) /\ ToSet(t) \subseteq {FormShown("typer", o) : o \in ToSet(ops)}
      BY <2>3 DEF ReadsAll, ReadsSome
    <3>3. Faithful(t, "typer", ops)
      BY <2>3, AllIsFaithful
    <3> QED BY <3>1, <3>2, <3>3 DEF Faithful
  <2> HIDE DEF c, t, run
  <2>6. IsSeq(items) /\ ToSet(items) = ToSet(c) \cup ToSet(t)
    BY <2>4, <2>5, ConcatFacts DEF c, t
  <2>7. KeysOf(items) = KeysOf(t)
    BY <2>5, <2>6 DEF KeysOf
  <2>8. \A k \in KeysOf(items) : ByKey(items)[k] \in ToSet(t)
    BY <2>4, <2>5, <2>7, ByKeyOfLast DEF c, t
  <2> QED BY <1>5, <2>5, <2>6, <2>7, <2>8 DEF Faithful, items
<1> QED BY <1>3, <1>4, <1>5

(* A file of the source that is not UTF-8 blinds the detectors that open    *)
(* it.                                                                      *)
LEMMA Blinded ==
    ASSUME NEW f \in TheFrameworks \ {"python_logging", "gin"}, NEW named \in BOOLEAN, NEW ops \in Seq(Operations)
    PROVE  ExtractCode(f, named, Source(f, ops), "encoding") = <<>>
<1> DEFINE src == Source(f, ops)
<1>1. CarriedBy(f, src, ops)
  BY SourceCarried
<1>2. IsSeq(src) /\ \A d \in ToSet(src) : d.lang = Lang(f) /\ "file" \in DOMAIN d
  BY <1>1, CarriedFacts
<1>3. src = <<>> \/ \E d \in ToSet(src) : d.file = 1
  <2>1. CASE ops = <<>>
    <3>1. [i \in DOMAIN ops |-> InFile(i, WrittenIn(f, ops[i]))] = <<>>
      BY <2>1, Tuples, NothingMapped
    <3> QED BY <3>1, NothingFlat DEF Source
  <2>2. CASE ops # <<>>
    <3>1. 1 \in DOMAIN ops
      BY <2>2, SeqOfAny, SeqFacts
    <3>2. \A o : IsSeq(WrittenIn(f, o)) /\ ToSet(WrittenIn(f, o)) # {}
      <4> TAKE o
      <4>1. CASE f \in Paired
        <5>1. PICK e, g : WrittenIn(f, o) = <<e, g>>
          BY <4>1, PairWritten
        <5>2. IsSeq(<<e, g>>) /\ ToSet(<<e, g>>) = {e, g}
          BY Tuples
        <5>3. {e, g} # {}
          OBVIOUS
        <5> QED BY <5>1, <5>2, <5>3
      <4>2. CASE f \notin Paired
        <5>1. f \in Single
          BY <4>2, RegisteredIs DEF TheFrameworks, Paired, Single, Defined
        <5>2. PICK e : WrittenIn(f, o) = <<e>>
          BY <5>1, SingleWritten
        <5>3. IsSeq(<<e>>) /\ ToSet(<<e>>) = {e}
          BY Tuples
        <5>4. {e} # {}
          OBVIOUS
        <5> QED BY <5>2, <5>3, <5>4
      <4> QED BY <4>1, <4>2
    <3>3. \A d : d \in ToSet(src) <=> \E i \in DOMAIN ops : \E e \in ToSet(WrittenIn(f, ops[i])) : d = [e EXCEPT !.file = i]
      BY <3>2, SourceFacts
    <3>4. PICK e \in ToSet(WrittenIn(f, ops[1])) : TRUE
      BY <3>2
    <3>5. [e EXCEPT !.file = 1] \in ToSet(src)
      BY <3>1, <3>3, <3>4
    <3> DEFINE d == [e EXCEPT !.file = 1]
    <3>6. "file" \in DOMAIN d
      BY <1>2, <3>5
    <3>7. d.file = 1
      BY <3>6
    <3> QED BY <3>5, <3>7
  <2> QED BY <2>1, <2>2
<1>4. ASSUME NEW g \in ToSet(Registered[Capability(f)]) PROVE RunDetector(g, src, "encoding") = <<>>
  <2> DEFINE files == At(src, {i \in DOMAIN src : src[i].lang \in Extensions(g)})
             rest == At(files, {i \in DOMAIN files : files[i].file # 1})
  <2>1. RunDetector(g, src, "encoding") =
            IF rest # files /\ g \notin {"python_logging", "gin"} THEN <<>>
            ELSE IF g = "python_logging" THEN Detect(g, rest) ELSE Detect(g, files)
    <3>1. CASE g = "python_logging"
      BY <3>1 DEF RunDetector, Kept
    <3>2. CASE g # "python_logging" /\ rest # files /\ g # "gin"
      BY <3>2 DEF RunDetector, Kept
    <3>3. CASE g # "python_logging" /\ ~ (rest # files /\ g # "gin")
      BY <3>3 DEF RunDetector, Kept
    <3> QED BY <3>1, <3>2, <3>3
  <2>2. g \in TheFrameworks
    BY FrameworkFacts DEF TheFrameworks
  <2>3. /\ Lang(f) \in Extensions(g) => IsSeq(files) /\ ToSet(files) = ToSet(src)
        /\ Lang(f) \notin Extensions(g) => files = <<>>
    BY <1>1, FilesOf
  <2> HIDE DEF files
  <2>4. files = <<>> => rest = <<>>
    <3>1. IsSeq(<<>>) /\ DOMAIN <<>> = {}
      BY Tuples
    <3> DEFINE J == {i \in DOMAIN files : files[i].file # 1}
    <3>2. files = <<>> => J = {}
      BY <3>1
    <3> HIDE DEF J
    <3>3. files = <<>> => At(files, J) = <<>>
      BY <3>1, <3>2, NoneOfAll
    <3> QED BY <3>3 DEF J
  <2>5. CASE files = <<>>
    <3> HIDE DEF rest
    <3> QED BY <2>1, <2>2, <2>4, <2>5, EmptyRead
  <2>6. CASE files # <<>>
    <3>1. Lang(f) \in Extensions(g) /\ IsSeq(files) /\ ToSet(files) = ToSet(src)
      BY <2>3, <2>6
    <3>2. src # <<>>
      BY <2>6, <3>1, <1>2, SeqFacts
    <3>3. PICK d \in ToSet(files) : d.file = 1
      BY <1>3, <3>1, <3>2
    <3> DEFINE J == {i \in DOMAIN files : files[i].file # 1}
    <3>4. ToSet(At(files, J)) = {files[i] : i \in J}
      BY <3>1, AtFacts
    <3>5. d \notin ToSet(rest)
      BY <3>3, <3>4
    <3>6. rest # files
      BY <3>3, <3>5
    <3>7. g \notin {"python_logging", "gin"}
      <4>1. Extensions("gin") = {"go"} /\ Extensions("python_logging") = {"py"}
        BY DEF Extensions
      <4>2. g = "gin" => f \in {"fastapi", "flask", "express", "django"}
        BY RegisteredIs, FrameworkFacts
      <4>3. g = "python_logging" => f = "javascript_logging"
        BY RegisteredIs, FrameworkFacts
      <4>4. Lang("javascript_logging") = "js" /\ Lang("express") = "js" /\ \A h \in {"fastapi", "flask", "django"} : Lang(h) = "py"
        BY DEF Lang
      <4> QED BY <3>1, <4>1, <4>2, <4>3, <4>4
    <3> QED BY <2>1, <3>6, <3>7
  <2> QED BY <2>5, <2>6
<1> HIDE DEF src
<1>5. \A g \in ToSet(Registered[Capability(f)]) : RunDetector(g, src, "encoding") = <<>> /\ IsSeq(RunDetector(g, src, "encoding"))
  BY <1>4, Tuples
<1>6. /\ ToSet(Active(f, named)) \subseteq ToSet(Registered[Capability(f)])
      /\ IsSeq(ExtractCode(f, named, src, "encoding"))
      /\ ToSet(ExtractCode(f, named, src, "encoding")) = UNION {ToSet(RunDetector(g, src, "encoding")) : g \in ToSet(Active(f, named))}
  <2>1. /\ named => ToSet(Active(f, named)) = {f}
        /\ ~ named => ToSet(Active(f, named)) = ToSet(Registered[Capability(f)])
        /\ IsSeq(ExtractCode(f, named, src, "encoding"))
        /\ ToSet(ExtractCode(f, named, src, "encoding")) = UNION {ToSet(RunDetector(g, src, "encoding")) : g \in ToSet(Active(f, named))}
    BY <1>5, ExtractIs
  <2> QED BY <2>1, FrameworkFacts
<1>7. ToSet(ExtractCode(f, named, src, "encoding")) = {}
  BY <1>5, <1>6, Tuples
<1>8. ExtractCode(f, named, src, "encoding") = <<>>
  BY <1>6, <1>7, SeqFacts
<1> QED BY <1>8 DEF src

-----------------------------------------------------------------------------
(* Both sides, compared.                                                    *)

(* Operations, in a sequence.                                               *)
LEMMA OfOperations ==
    ASSUME NEW ops \in Seq(Operations)
    PROVE  ToSet(ops) \subseteq Operations
BY DEF ToSet

(* A key has one name, on either side and across.                           *)
LEMMA KeysName ==
    ASSUME NEW f \in TheFrameworks
    PROVE  /\ \A o, p \in Operations : KeySaid(f, o) = KeySaid(f, p) => o.name = p.name
           /\ \A o, p \in Operations : KeyShown(f, o) = KeyShown(f, p) => o.name = p.name
           /\ \A o, p \in Operations : KeySaid(f, o) = KeyShown(f, p) => o.name = p.name
<1> SUFFICES ASSUME NEW o \in Operations, NEW p \in Operations
             PROVE  /\ KeySaid(f, o) = KeySaid(f, p) => o.name = p.name
                    /\ KeyShown(f, o) = KeyShown(f, p) => o.name = p.name
                    /\ KeySaid(f, o) = KeyShown(f, p) => o.name = p.name
  OBVIOUS
<1>1. KeySaid(f, o) = KeySaid(f, p) => o.name = p.name
  BY KeysTell
<1>2. KeyShown(f, o) = KeyShown(f, p) => o.name = p.name
  BY KeysTell
<1>3. KeySaid(f, o) = KeyShown(f, p) => o.name = p.name
  <2>1. KeySaid(f, o) = KeyShown(f, p) <=> OneKey(f, o, p)
    BY KeysTell
  <2> QED BY <2>1 DEF OneKey
<1> QED BY <1>1, <1>2, <1>3

(* Nothing is reported exactly if each operation has its like on the other  *)
(* side.                                                                    *)
LEMMA NothingReported ==
    ASSUME NEW f \in TheFrameworks, NEW ops \in Seq(Operations), NEW others \in Seq(Operations),
           NamesOnce(ops), NamesOnce(others),
           NEW said, IsSeq(said), ToSet(said) = {FormSaid(f, o) : o \in ToSet(ops)},
           NEW code, Faithful(code, f, others)
    PROVE  ~ HasMismatches(Compare(said, code)) <=>
              /\ \A o \in ToSet(ops) : \E p \in ToSet(others) : KeySaid(f, o) = KeyShown(f, p)
              /\ \A p \in ToSet(others) : \E o \in ToSet(ops) : KeySaid(f, o) = KeyShown(f, p)
              /\ \A o \in ToSet(ops), p \in ToSet(others) :
                    KeySaid(f, o) = KeyShown(f, p) => Mismatched(FormSaid(f, o), FormShown(f, p)) = {}
<1> DEFINE s == ByKey(said)
           c == ByKey(code)
           wrong == {k \in DOMAIN s \cap DOMAIN c : Mismatched(s[k], c[k]) # {}}
<1>1. ~ HasMismatches(Compare(said, code)) <=> DOMAIN s \ DOMAIN c = {} /\ DOMAIN c \ DOMAIN s = {} /\ wrong = {}
  BY DEF HasMismatches, Compare
<1>2. ToSet(ops) \subseteq Operations /\ ToSet(others) \subseteq Operations
  BY DEF ToSet
<1>3. KeysOf(said) = {KeySaid(f, o) : o \in ToSet(ops)}
  <2>1. \A x \in ToSet(said) : \E o \in ToSet(ops) : x.key = KeySaid(f, o)
    BY KeyOfForm
  <2>2. \A o \in ToSet(ops) : \E x \in ToSet(said) : x.key = KeySaid(f, o)
    BY KeyOfForm
  <2> QED BY <2>1, <2>2 DEF KeysOf
<1>4. /\ DOMAIN s = {KeySaid(f, o) : o \in ToSet(ops)}
      /\ \A k \in DOMAIN s : s[k] \in ToSet(said) /\ s[k].key = k
  BY <1>3, ByKeyFacts
<1>5. /\ DOMAIN c = {KeyShown(f, p) : p \in ToSet(others)}
      /\ \A k \in DOMAIN c : c[k] \in {FormShown(f, p) : p \in ToSet(others)} /\ c[k].key = k
  <2>1. IsSeq(code) /\ KeysOf(code) = {KeyShown(f, p) : p \in ToSet(others)}
    BY DEF Faithful
  <2>2. DOMAIN c = KeysOf(code) /\ \A k \in DOMAIN c : c[k].key = k
    BY <2>1, ByKeyFacts
  <2> HIDE DEF c
  <2>3. \A k \in DOMAIN c : c[k] \in {FormShown(f, p) : p \in ToSet(others)}
    BY <2>2 DEF Faithful, c
  <2> QED BY <2>1, <2>2, <2>3
<1> HIDE DEF s, c
<1>6. \A o \in ToSet(ops) : s[KeySaid(f, o)] = FormSaid(f, o)
  <2> SUFFICES ASSUME NEW o \in ToSet(ops) PROVE s[KeySaid(f, o)] = FormSaid(f, o)
    OBVIOUS
  <2>1. PICK q \in ToSet(ops) : s[KeySaid(f, o)] = FormSaid(f, q)
    BY <1>4
  <2>2. KeySaid(f, q) = KeySaid(f, o)
    BY <1>4, <2>1, KeyOfForm
  <2>3. q.name = o.name
    BY <1>2, <2>2, KeysName
  <2> QED BY <2>1, <2>3 DEF NamesOnce
<1>7. \A p \in ToSet(others) : c[KeyShown(f, p)] = FormShown(f, p)
  <2> SUFFICES ASSUME NEW p \in ToSet(others) PROVE c[KeyShown(f, p)] = FormShown(f, p)
    OBVIOUS
  <2>1. PICK q \in ToSet(others) : c[KeyShown(f, p)] = FormShown(f, q)
    BY <1>5
  <2>2. KeyShown(f, q) = KeyShown(f, p)
    BY <1>5, <2>1, KeyOfForm
  <2>3. q.name = p.name
    BY <1>2, <2>2, KeysName
  <2> QED BY <2>1, <2>3 DEF NamesOnce
<1>8. wrong = {} <=>
        \A o \in ToSet(ops), p \in ToSet(others) :
            KeySaid(f, o) = KeyShown(f, p) => Mismatched(FormSaid(f, o), FormShown(f, p)) = {}
  <2>1. wrong = {} <=> \A k \in DOMAIN s \cap DOMAIN c : Mismatched(s[k], c[k]) = {}
    OBVIOUS
  <2> HIDE DEF wrong
  <2>2. ASSUME \A k \in DOMAIN s \cap DOMAIN c : Mismatched(s[k], c[k]) = {},
               NEW o \in ToSet(ops), NEW p \in ToSet(others), KeySaid(f, o) = KeyShown(f, p)
        PROVE  Mismatched(FormSaid(f, o), FormShown(f, p)) = {}
    <3>1. KeySaid(f, o) \in DOMAIN s \cap DOMAIN c
      BY <1>4, <1>5, <2>2
    <3>2. Mismatched(s[KeySaid(f, o)], c[KeySaid(f, o)]) = {}
      BY <2>2, <3>1
    <3> QED BY <1>6, <1>7, <2>2, <3>2
  <2>3. ASSUME \A o \in ToSet(ops), p \in ToSet(others) :
                   KeySaid(f, o) = KeyShown(f, p) => Mismatched(FormSaid(f, o), FormShown(f, p)) = {},
               NEW k \in DOMAIN s \cap DOMAIN c
        PROVE  Mismatched(s[k], c[k]) = {}
    <3>1. PICK o \in ToSet(ops) : k = KeySaid(f, o)
      BY <1>4
    <3>2. PICK p \in ToSet(others) : k = KeyShown(f, p)
      BY <1>5
    <3>3. s[k] = FormSaid(f, o) /\ c[k] = FormShown(f, p)
      BY <1>6, <1>7, <3>1, <3>2
    <3> QED BY <2>3, <3>1, <3>2, <3>3
  <2> QED BY <2>1, <2>2, <2>3
<1> HIDE DEF wrong
<1>9. DOMAIN s \ DOMAIN c = {} <=> \A o \in ToSet(ops) : \E p \in ToSet(others) : KeySaid(f, o) = KeyShown(f, p)
  <2>1. DOMAIN s \ DOMAIN c = {} <=> \A k \in DOMAIN s : k \in DOMAIN c
    OBVIOUS
  <2>2. (\A k \in DOMAIN s : k \in DOMAIN c) <=> \A o \in ToSet(ops) : KeySaid(f, o) \in DOMAIN c
    BY <1>4
  <2>3. \A k : k \in DOMAIN c <=> \E p \in ToSet(others) : k = KeyShown(f, p)
    BY <1>5
  <2> QED BY <2>1, <2>2, <2>3
<1>10. DOMAIN c \ DOMAIN s = {} <=> \A p \in ToSet(others) : \E o \in ToSet(ops) : KeySaid(f, o) = KeyShown(f, p)
  <2>1. DOMAIN c \ DOMAIN s = {} <=> \A k \in DOMAIN c : k \in DOMAIN s
    OBVIOUS
  <2>2. (\A k \in DOMAIN c : k \in DOMAIN s) <=> \A p \in ToSet(others) : KeyShown(f, p) \in DOMAIN s
    BY <1>5
  <2>3. \A k : k \in DOMAIN s <=> \E o \in ToSet(ops) : KeySaid(f, o) = k
    BY <1>4
  <2> QED BY <2>1, <2>2, <2>3
<1> QED BY <1>1, <1>8, <1>9, <1>10

(* Two operations of which one is documented and the other written.         *)
LEMMA PairCompared ==
    ASSUME NEW f \in TheFrameworks, NEW o \in Operations, NEW p \in Operations, Expressible(f, o), Expressible(f, p)
    PROVE  /\ KeySaid(f, o) = KeyShown(f, p) /\ Mismatched(FormSaid(f, o), FormShown(f, p)) = {} => SameOperation(f, o, p)
           /\ SameOperation(f, o, p) /\ (f = "flask" => o.arg = "") => KeySaid(f, o) = KeyShown(f, p)
           /\ SameOperation(f, o, p) /\ (Capability(f) = "cli" => Typed(p.first)) => Mismatched(FormSaid(f, o), FormShown(f, p)) = {}
<1> DEFINE fields == SameFields(ShowsTypes(f), Told(f, o), Shown(f, p))
           scalars == /\ Capability(f) = "library" => SameType(o.scalar, p.scalar)
                      /\ Capability(f) = "logging" => Level(o) = Level(p)
           keys == /\ o.name = p.name
                   /\ Capability(f) = "web-api" => o.verb = p.verb /\ (o.arg = "" <=> p.arg = "")
           clean == Mismatched(FormSaid(f, o), FormShown(f, p)) = {}
<1>1. /\ clean => fields /\ scalars
      /\ fields /\ scalars /\ (Capability(f) = "cli" => Typed(p.first)) => clean
  BY FormsCompare
<1>2. KeySaid(f, o) = KeyShown(f, p) <=> keys /\ (f = "flask" => o.arg = "" /\ p.arg = "")
  <2>1. KeySaid(f, o) = KeyShown(f, p) <=> OneKey(f, o, p)
    BY KeysTell
  <2>2. OneKey(f, o, p) <=> keys /\ (f = "flask" => o.arg = "" /\ p.arg = "")
    BY DEF OneKey
  <2> QED BY <2>1, <2>2
<1>3. SameOperation(f, o, p) <=> keys /\ fields /\ scalars
  BY DEF SameOperation
<1>4. keys /\ f = "flask" => (o.arg = "" <=> p.arg = "")
  <2>1. f = "flask" => Capability(f) = "web-api"
    BY Capabilities
  <2> QED BY <2>1
<1> HIDE DEF fields, scalars, keys, clean
<1> QED BY <1>1, <1>2, <1>3, <1>4 DEF clean

(* What passes agrees.                                                      *)
LEMMA PassAgrees ==
    ASSUME NEW f \in TheFrameworks, NEW ops \in Seq(Operations), NEW others \in Seq(Operations),
           NamesOnce(ops), NamesOnce(others), \A o \in ToSet(ops) \cup ToSet(others) : Expressible(f, o),
           NEW code, Faithful(code, f, others),
           ~ HasMismatches(Compare(ExtractSpec(Capability(f), Document(f, ops)), code))
    PROVE  Agreed(f, ops, others)
<1> DEFINE said == ExtractSpec(Capability(f), Document(f, ops))
<1>1. IsSeq(said) /\ ToSet(said) = {FormSaid(f, o) : o \in ToSet(ops)}
  BY SpecSide
<1> HIDE DEF said
<1>2. /\ \A o \in ToSet(ops) : \E p \in ToSet(others) : KeySaid(f, o) = KeyShown(f, p)
      /\ \A p \in ToSet(others) : \E o \in ToSet(ops) : KeySaid(f, o) = KeyShown(f, p)
      /\ \A o \in ToSet(ops), p \in ToSet(others) :
            KeySaid(f, o) = KeyShown(f, p) => Mismatched(FormSaid(f, o), FormShown(f, p)) = {}
  <2>1. ~ HasMismatches(Compare(said, code))
    BY DEF said
  <2> QED BY <1>1, <2>1, NothingReported
<1>0. ToSet(ops) \subseteq Operations /\ ToSet(others) \subseteq Operations
  BY OfOperations
<1>3. \A o \in ToSet(ops) : o \in Operations /\ Expressible(f, o)
  BY <1>0
<1>4. \A p \in ToSet(others) : p \in Operations /\ Expressible(f, p)
  BY <1>0
<1>5. \A o \in ToSet(ops), p \in ToSet(others) : KeySaid(f, o) = KeyShown(f, p) => SameOperation(f, o, p)
  BY <1>2, <1>3, <1>4, PairCompared
<1> QED BY <1>2, <1>5 DEF Agreed

(* What agrees passes.                                                      *)
LEMMA AgreedPasses ==
    ASSUME NEW f \in TheFrameworks, NEW ops \in Seq(Operations), NEW others \in Seq(Operations),
           NamesOnce(ops), NamesOnce(others), \A o \in ToSet(ops) \cup ToSet(others) : Expressible(f, o),
           NEW code, Faithful(code, f, others), Agreed(f, ops, others),
           f = "flask" => \A o \in ToSet(ops) : o.arg = "",
           Capability(f) = "cli" => \A p \in ToSet(others) : Typed(p.first)
    PROVE  ~ HasMismatches(Compare(ExtractSpec(Capability(f), Document(f, ops)), code))
<1> DEFINE said == ExtractSpec(Capability(f), Document(f, ops))
<1>1. IsSeq(said) /\ ToSet(said) = {FormSaid(f, o) : o \in ToSet(ops)}
  BY SpecSide
<1> HIDE DEF said
<1>0. ToSet(ops) \subseteq Operations /\ ToSet(others) \subseteq Operations
  BY OfOperations
<1>2. \A o \in ToSet(ops) : o \in Operations /\ Expressible(f, o)
  BY <1>0
<1>3. \A p \in ToSet(others) : p \in Operations /\ Expressible(f, p)
  BY <1>0
<1>4. \A o \in ToSet(ops), p \in ToSet(others) : SameOperation(f, o, p) =>
          KeySaid(f, o) = KeyShown(f, p) /\ Mismatched(FormSaid(f, o), FormShown(f, p)) = {}
  BY <1>2, <1>3, PairCompared
<1>5. /\ \A o \in ToSet(ops) : \E p \in ToSet(others) : SameOperation(f, o, p)
      /\ \A p \in ToSet(others) : \E o \in ToSet(ops) : SameOperation(f, o, p)
  BY DEF Agreed
<1>6. ASSUME NEW o \in ToSet(ops), NEW p \in ToSet(others), KeySaid(f, o) = KeyShown(f, p)
      PROVE  Mismatched(FormSaid(f, o), FormShown(f, p)) = {}
  <2>1. o.name = p.name
    BY <1>2, <1>3, <1>6, KeysName
  <2>2. PICK q \in ToSet(others) : SameOperation(f, o, q)
    BY <1>5
  <2>3. q.name = p.name
    BY <2>1, <2>2 DEF SameOperation
  <2>4. q = p
    BY <2>3 DEF NamesOnce
  <2> QED BY <1>4, <2>2, <2>4
<1>7. \A o \in ToSet(ops) : \E p \in ToSet(others) : KeySaid(f, o) = KeyShown(f, p)
  BY <1>4, <1>5
<1>8. \A p \in ToSet(others) : \E o \in ToSet(ops) : KeySaid(f, o) = KeyShown(f, p)
  BY <1>4, <1>5
<1>9. ~ HasMismatches(Compare(said, code))
  BY <1>1, <1>6, <1>7, <1>8, NothingReported
<1> QED BY <1>9 DEF said

-----------------------------------------------------------------------------
(* The project over time.                                                   *)

(* A project beside verify_spec_code.py: the types of what is edited.       *)
LEMMA DroppedTyped ==
    ASSUME NEW ops \in Seq(Operations), NEW o
    PROVE  Dropped(ops, o) \in Seq(Operations)
<1> DEFINE same == {i \in 1..Len(ops) : ops[i].name = o.name}
           place == SelectInSeq(ops, LAMBDA p : p.name = o.name)
<1>1. CASE same = {}
  BY <1>1 DEF Dropped, RemoveFirstMatch
<1>2. CASE same # {}
  <2>1. place \in same
    <3>1. same \in SUBSET Nat
      OBVIOUS
    <3>2. place = Min(same)
      BY <1>2 DEF SelectInSeq
    <3> HIDE DEF same
    <3> QED BY <1>2, <3>1, <3>2, LeastNat DEF Min
  <2>2. Dropped(ops, o) = SubSeq(ops, 1, place - 1) \o SubSeq(ops, place + 1, Len(ops))
    BY <1>2 DEF Dropped, RemoveFirstMatch, RemoveAt
  <2> HIDE DEF place
  <2>3. SubSeq(ops, 1, place - 1) \in Seq(Operations) /\ SubSeq(ops, place + 1, Len(ops)) \in Seq(Operations)
    BY <2>1
  <2> QED BY <2>2, <2>3
<1> QED BY <1>1, <1>2

(* The variables keep their types.                                          *)
LEMMA SpecCodeKept ==
    /\ SpecCodeInit => SpecCodeTypeOK
    /\ SpecCodeTypeOK /\ [SpecCodeStep]_specCodeVars => SpecCodeTypeOK'
<1>1. SpecCodeInit => SpecCodeTypeOK
  BY DEF SpecCodeInit, SpecCodeTypeOK, NotRun
<1>2. ASSUME SpecCodeTypeOK, [SpecCodeStep]_specCodeVars PROVE SpecCodeTypeOK'
  <2>1. NotRun \in [mode : {"none", "strict", "report"}, exit : {0, 1}]
    BY DEF NotRun
  <2>2. CASE EditSpec
    <3>1. PICK o \in Operations : documented' \in {Append(Dropped(documented, o), o), Dropped(documented, o)}
      BY <2>2 DEF EditSpec
    <3>2. Dropped(documented, o) \in Seq(Operations)
      BY <1>2, DroppedTyped DEF SpecCodeTypeOK
    <3>3. documented' \in Seq(Operations)
      BY <3>1, <3>2
    <3> QED BY <1>2, <2>1, <2>2, <3>3 DEF EditSpec, SpecCodeTypeOK
  <2>3. CASE EditCode
    <3>1. PICK o \in Operations : implemented' \in {Append(Dropped(implemented, o), o), Dropped(implemented, o)}
      BY <2>3 DEF EditCode
    <3>2. Dropped(implemented, o) \in Seq(Operations)
      BY <1>2, DroppedTyped DEF SpecCodeTypeOK
    <3>3. implemented' \in Seq(Operations)
      BY <3>1, <3>2
    <3> QED BY <1>2, <2>1, <2>3, <3>3 DEF EditCode, SpecCodeTypeOK
  <2>4. ASSUME NEW mode \in {"strict", "report"}, Verify(mode) PROVE SpecCodeTypeOK'
    <3>1. PICK exit \in {0, 1} : outcome' = [mode |-> mode, exit |-> exit]
      BY <2>4 DEF Verify, ExitCode
    <3> QED BY <1>2, <2>4, <3>1 DEF Verify, SpecCodeTypeOK
  <2>5. CASE UNCHANGED specCodeVars
    BY <1>2, <2>5 DEF specCodeVars, SpecCodeTypeOK
  <2> QED BY <1>2, <2>2, <2>3, <2>4, <2>5 DEF SpecCodeStep
<1> QED BY <1>1, <1>2

(* No two places have operations of one name.                               *)
OnceNamed(ops) == \A i, j \in 1..Len(ops) : ops[i].name = ops[j].name => i = j

(* After an operation is dropped its name is gone.                          *)
LEMMA DroppedOnce ==
    ASSUME NEW ops \in Seq(Operations), OnceNamed(ops), NEW o
    PROVE  /\ OnceNamed(Dropped(ops, o))
           /\ \A i \in 1..Len(Dropped(ops, o)) : Dropped(ops, o)[i].name # o.name
<1> DEFINE same == {i \in 1..Len(ops) : ops[i].name = o.name}
           place == SelectInSeq(ops, LAMBDA p : p.name = o.name)
           left == Dropped(ops, o)
<1>1. CASE same = {}
  <2>1. left = ops
    BY <1>1 DEF Dropped, RemoveFirstMatch
  <2> HIDE DEF left
  <2> QED BY <1>1, <2>1 DEF left
<1>2. CASE same # {}
  <2>1. place \in same
    <3>1. same \in SUBSET Nat
      OBVIOUS
    <3>2. place = Min(same)
      BY <1>2 DEF SelectInSeq
    <3> HIDE DEF same
    <3> QED BY <1>2, <3>1, <3>2, LeastNat DEF Min
  <2>2. left = SubSeq(ops, 1, place - 1) \o SubSeq(ops, place + 1, Len(ops))
    BY <1>2 DEF Dropped, RemoveFirstMatch, RemoveAt
  <2>3. place \in 1..Len(ops) /\ ops[place].name = o.name
    BY <2>1
  <2> HIDE DEF place, left, same
  <2> DEFINE n == Len(ops) - 1
             from(i) == IF i < place THEN i ELSE i + 1
  <2>4. Len(left) = n /\ \A i \in 1..n : left[i] = ops[from(i)]
    <3> DEFINE a == SubSeq(ops, 1, place - 1)
               b == SubSeq(ops, place + 1, Len(ops))
    <3>1. a \in Seq(Operations) /\ Len(a) = place - 1 /\ \A i \in 1..(place - 1) : a[i] = ops[i]
      BY <2>3
    <3>2. b \in Seq(Operations) /\ Len(b) = Len(ops) - place /\ \A i \in 1..(Len(ops) - place) : b[i] = ops[place + i]
      BY <2>3
    <3>3. left = a \o b
      BY <2>2
    <3> HIDE DEF a, b
    <3>4. Len(left) = Len(a) + Len(b) /\ \A i \in 1..(Len(a) + Len(b)) : left[i] = IF i <= Len(a) THEN a[i] ELSE b[i - Len(a)]
      <4>1. a \in Seq(Operations) /\ b \in Seq(Operations)
        BY <3>1, <3>2
      <4>2. /\ Len(a \o b) = Len(a) + Len(b)
            /\ \A i \in 1..(Len(a) + Len(b)) : (a \o b)[i] = IF i <= Len(a) THEN a[i] ELSE b[i - Len(a)]
        BY <4>1
      <4> QED BY <3>3, <4>2
    <3>5. Len(a) + Len(b) = n
      BY <2>3, <3>1, <3>2
    <3>6. ASSUME NEW i \in 1..n PROVE left[i] = ops[from(i)]
      <4>1. CASE i < place
        <5>1. i \in 1..(place - 1) /\ i <= Len(a)
          BY <2>3, <3>1, <4>1
        <5> QED BY <3>1, <3>4, <3>5, <4>1, <5>1
      <4>2. CASE ~ (i < place)
        <5>1. ~ (i <= Len(a)) /\ i - Len(a) \in 1..(Len(ops) - place) /\ place + (i - Len(a)) = i + 1
          BY <2>3, <3>1, <4>2
        <5>2. b[i - Len(a)] = ops[place + (i - Len(a))]
          BY <3>2, <5>1
        <5> QED BY <3>4, <3>5, <4>2, <5>1, <5>2
      <4> QED BY <4>1, <4>2
    <3> QED BY <3>4, <3>5, <3>6
  <2>5. \A i \in 1..n : from(i) \in 1..Len(ops) /\ from(i) # place
    BY <2>3
  <2>6. \A i, j \in 1..n : from(i) = from(j) => i = j
    BY <2>3
  <2> HIDE DEF n, from
  <2>7. \A i \in 1..n : left[i].name # o.name
    BY <2>3, <2>4, <2>5 DEF OnceNamed
  <2>8. \A i, j \in 1..n : left[i].name = left[j].name => i = j
    BY <2>4, <2>5, <2>6 DEF OnceNamed
  <2> QED BY <2>4, <2>7, <2>8 DEF OnceNamed, left
<1> QED BY <1>1, <1>2

(* An edit puts an operation in the place of what had its name.             *)
LEMMA EditedOnce ==
    ASSUME NEW ops \in Seq(Operations), OnceNamed(ops), NEW o \in Operations,
           NEW edited \in {Append(Dropped(ops, o), o), Dropped(ops, o)}
    PROVE  edited \in Seq(Operations) /\ OnceNamed(edited)
<1> DEFINE left == Dropped(ops, o)
<1>1. left \in Seq(Operations) /\ OnceNamed(left) /\ \A i \in 1..Len(left) : left[i].name # o.name
  BY DroppedTyped, DroppedOnce
<1> HIDE DEF left
<1>2. CASE edited = Append(left, o)
  <2>1. edited \in Seq(Operations) /\ Len(edited) = Len(left) + 1
    BY <1>1, <1>2
  <2>2. /\ \A i \in 1..Len(left) : edited[i] = left[i]
        /\ edited[Len(left) + 1] = o
    BY <1>1, <1>2
  <2>3. ASSUME NEW i \in 1..Len(edited), NEW j \in 1..Len(edited), edited[i].name = edited[j].name PROVE i = j
    <3>1. Len(left) \in Nat /\ (i \in 1..Len(left) \/ i = Len(left) + 1) /\ (j \in 1..Len(left) \/ j = Len(left) + 1)
      BY <1>1, <2>1
    <3>2. CASE i \in 1..Len(left) /\ j \in 1..Len(left)
      BY <1>1, <2>2, <2>3, <3>2 DEF OnceNamed
    <3>3. CASE i \in 1..Len(left) /\ j = Len(left) + 1
      BY <1>1, <2>2, <2>3, <3>3
    <3>4. CASE i = Len(left) + 1 /\ j \in 1..Len(left)
      BY <1>1, <2>2, <2>3, <3>4
    <3> QED BY <3>1, <3>2, <3>3, <3>4
  <2> QED BY <2>1, <2>3 DEF OnceNamed
<1>3. CASE edited = left
  BY <1>1, <1>3
<1> QED BY <1>2, <1>3 DEF left

(* Names at one place each are names once.                                  *)
LEMMA OnceNames ==
    ASSUME NEW ops \in Seq(Operations), OnceNamed(ops)
    PROVE  NamesOnce(ops)
<1>1. DOMAIN ops = 1..Len(ops)
  OBVIOUS
<1> QED BY <1>1 DEF OnceNamed, NamesOnce, ToSet

(* The exit of a run on what is documented and implemented now.             *)
ExitNow(mode) ==
    LET src == Source(framework, implemented)
        codeItems == ExtractCode(framework, hint, src, fault)
        found == Compare(ExtractSpec(Capability(framework), Document(framework, documented)), codeItems)
    IN  ExitCode(mode, found, ZeroCoverage(codeItems, src))

(* Nothing is edited after a run without its outcome being forgotten, and   *)
(* no name is documented or written twice: a url, or a handler, would be    *)
(* bound to another operation's.                                            *)
SpecCodeInv ==
    /\ SpecCodeTypeOK
    /\ hint \in BOOLEAN /\ fault \in {"none", "syntax", "encoding"}
    /\ OnceNamed(documented) /\ OnceNamed(implemented)
    /\ outcome.mode # "none" => outcome.exit = ExitNow(outcome.mode)

(* Edits keep names once, and a run says what is there.                     *)
LEMMA SpecCodeInvKept ==
    /\ SpecCodeInit => SpecCodeInv
    /\ SpecCodeInv /\ [SpecCodeStep]_specCodeVars => SpecCodeInv'
<1>1. SpecCodeInit => SpecCodeInv
  <2> SUFFICES ASSUME SpecCodeInit PROVE SpecCodeInv
    OBVIOUS
  <2>1. SpecCodeTypeOK /\ hint \in BOOLEAN /\ fault \in {"none", "syntax", "encoding"}
    BY SpecCodeKept DEF SpecCodeInit
  <2>2. OnceNamed(<<>>)
    BY DEF OnceNamed
  <2>3. documented = <<>> /\ implemented = <<>> /\ outcome.mode = "none"
    BY DEF SpecCodeInit, NotRun
  <2> QED BY <2>1, <2>2, <2>3 DEF SpecCodeInv
<1>2. ASSUME SpecCodeInv, [SpecCodeStep]_specCodeVars PROVE SpecCodeInv'
  <2>1. SpecCodeTypeOK'
    BY <1>2, SpecCodeKept DEF SpecCodeInv
  <2>2. /\ documented \in Seq(Operations) /\ implemented \in Seq(Operations)
        /\ hint \in BOOLEAN /\ fault \in {"none", "syntax", "encoding"}
        /\ OnceNamed(documented) /\ OnceNamed(implemented)
        /\ outcome.mode # "none" => outcome.exit = ExitNow(outcome.mode)
    BY <1>2 DEF SpecCodeInv, SpecCodeTypeOK
  <2>3. CASE EditSpec
    <3>1. PICK o \in Operations : documented' \in {Append(Dropped(documented, o), o), Dropped(documented, o)}
      BY <2>3 DEF EditSpec
    <3>2. OnceNamed(documented')
      BY <2>2, <3>1, EditedOnce
    <3>3. outcome'.mode = "none" /\ UNCHANGED <<hint, fault, implemented>>
      BY <2>3 DEF EditSpec, NotRun
    <3> QED BY <2>1, <2>2, <3>2, <3>3 DEF SpecCodeInv
  <2>4. CASE EditCode
    <3>1. PICK o \in Operations : implemented' \in {Append(Dropped(implemented, o), o), Dropped(implemented, o)}
      BY <2>4 DEF EditCode
    <3>2. OnceNamed(implemented')
      BY <2>2, <3>1, EditedOnce
    <3>3. outcome'.mode = "none" /\ UNCHANGED <<hint, fault, documented>>
      BY <2>4 DEF EditCode, NotRun
    <3> QED BY <2>1, <2>2, <3>2, <3>3 DEF SpecCodeInv
  <2>5. ASSUME NEW mode \in {"strict", "report"}, Verify(mode) PROVE SpecCodeInv'
    <3>1. UNCHANGED <<framework, hint, fault, documented, implemented>> /\ outcome' = [mode |-> mode, exit |-> ExitNow(mode)]
      BY <2>5 DEF Verify, ExitNow
    <3>2. outcome'.mode = mode /\ outcome'.exit = ExitNow(mode)
      <4> HIDE DEF ExitNow
      <4> QED BY <3>1
    <3>3. ExitNow(mode)' = ExitNow(mode)
      BY <3>1 DEF ExitNow
    <3>4. outcome'.exit = ExitNow(outcome.mode)'
      BY <3>1, <3>2, <3>3 DEF ExitNow
    <3>5. hint' \in BOOLEAN /\ fault' \in {"none", "syntax", "encoding"} /\ OnceNamed(documented)' /\ OnceNamed(implemented)'
      BY <2>2, <3>1
    <3> QED BY <2>1, <3>4, <3>5 DEF SpecCodeInv
  <2>6. CASE UNCHANGED specCodeVars
    <3>1. UNCHANGED <<framework, hint, fault, documented, implemented, outcome>>
      BY <2>6 DEF specCodeVars
    <3>2. ExitNow(outcome.mode)' = ExitNow(outcome.mode)
      BY <3>1 DEF ExitNow
    <3> QED BY <2>1, <2>2, <3>1, <3>2 DEF SpecCodeInv
  <2> QED BY <1>2, <2>3, <2>4, <2>5, <2>6 DEF SpecCodeStep
<1> QED BY <1>1, <1>2

(* There is no source exactly if nothing is implemented.                    *)
LEMMA SourceIsEmpty ==
    ASSUME NEW f \in TheFrameworks, NEW ops \in Seq(Operations)
    PROVE  Source(f, ops) = <<>> <=> ops = <<>>
<1>1. ASSUME ops = <<>> PROVE Source(f, ops) = <<>>
  <2>1. [i \in DOMAIN ops |-> InFile(i, WrittenIn(f, ops[i]))] = <<>>
    BY <1>1, Tuples, NothingMapped
  <2> QED BY <2>1, NothingFlat DEF Source
<1>2. ASSUME Source(f, ops) = <<>> PROVE ops = <<>>
  <2>1. CarriedBy(f, <<>>, ops)
    BY <1>2, SourceCarried
  <2>2. ToSet(<<>>) = {} /\ IsSeq(ops) /\ \A i \in DOMAIN ops : ops[i] \in ToSet(ops)
    BY Tuples, SeqOfAny DEF ToSet
  <2>3. ToSet(ops) = {}
    <3>1. CASE f = "gin"
      <4>1. CarriesFiles(<<>>, ops)
        BY <2>1, <3>1 DEF CarriedBy, Paired
      <4>2. DOMAIN ops = {}
        BY <2>2, <4>1 DEF CarriesFiles
      <4> QED BY <4>2 DEF ToSet
    <3>2. CASE f \in Paired
      BY <2>1, <2>2, <3>2 DEF CarriedBy, CarriesPairs, Paired
    <3>3. CASE f \notin Paired \cup {"gin"}
      BY <2>1, <2>2, <3>3 DEF CarriedBy, Carries, Paired
    <3> QED BY <3>1, <3>2, <3>3
  <2> QED BY <2>2, <2>3, SeqFacts
<1> QED BY <1>1, <1>2

(* Nothing tells nothing.                                                   *)
LEMMA NothingIsFaithful ==
    ASSUME NEW f, NEW ops, ToSet(ops) = {}
    PROVE  Faithful(<<>>, f, ops)
BY Tuples DEF Faithful, KeysOf

(* What holds of a run of which the properties speak.                       *)
LEMMA RunFacts ==
    ASSUME SpecCodeInv, AllExpressible(framework)
    PROVE  /\ framework \in TheFrameworks /\ hint \in BOOLEAN
           /\ documented \in Seq(Operations) /\ implemented \in Seq(Operations)
           /\ NamesOnce(documented) /\ NamesOnce(implemented)
           /\ \A o \in ToSet(documented) \cup ToSet(implemented) : Expressible(framework, o)
           /\ Readable(framework, Source(framework, implemented), implemented)
<1>1. /\ framework \in Frameworks /\ hint \in BOOLEAN
      /\ documented \in Seq(Operations) /\ implemented \in Seq(Operations)
      /\ OnceNamed(documented) /\ OnceNamed(implemented)
  BY DEF SpecCodeInv, SpecCodeTypeOK
<1>2. framework \in TheFrameworks
  BY <1>1, SpecCodeAssumption DEF TheFrameworks
<1>3. NamesOnce(documented) /\ NamesOnce(implemented)
  BY <1>1, OnceNames
<1>4. \A o \in ToSet(documented) \cup ToSet(implemented) : Expressible(framework, o)
  BY DEF AllExpressible
<1>5. CarriedBy(framework, Source(framework, implemented), implemented)
  BY <1>1, <1>2, SourceCarried
<1> QED BY <1>1, <1>2, <1>3, <1>4, <1>5 DEF Readable

(* What a project is, step by step, is typed.                               *)
THEOREM SpecCodeTypes ==
    SpecCodeInit /\ [][SpecCodeStep]_specCodeVars => []SpecCodeTypeOK
BY SpecCodeKept, PTL

(* verify_spec_code.py --strict: what is not the same on both sides, of     *)
(* what the framework's code shows, fails the run, for any project whose    *)
(* operations both notations can say; also if one file that is not UTF-8    *)
(* blinds the detectors.                                                    *)
THEOREM DriftFails ==
    SpecCodeInit /\ [][SpecCodeStep]_specCodeVars => []DriftIsSeen
<1>1. SpecCodeInv => DriftIsSeen
  <2> SUFFICES ASSUME SpecCodeInv, outcome.mode = "strict" /\ outcome.exit = 0,
                      hint \/ framework # "click",
                      fault = "none" \/ (fault = "encoding" /\ framework \notin {"python_logging", "gin"}),
                      AllExpressible(framework)
               PROVE  Agreed(framework, documented, implemented)
    BY DEF DriftIsSeen
  <2> DEFINE src == Source(framework, implemented)
             codeItems == ExtractCode(framework, hint, src, fault)
             found == Compare(ExtractSpec(Capability(framework), Document(framework, documented)), codeItems)
  <2>1. ~ HasMismatches(found) /\ ~ ZeroCoverage(codeItems, src)
    <3>1. ExitCode("strict", found, ZeroCoverage(codeItems, src)) = 0
      BY DEF SpecCodeInv, ExitNow
    <3> HIDE DEF found, codeItems, src
    <3> QED BY <3>1 DEF ExitCode
  <2> HIDE DEF found
  <2>2. Faithful(codeItems, framework, implemented)
    <3>1. CASE fault = "none"
      <4>1. Faithful(ExtractCode(framework, hint, src, "none"), framework, implemented)
        BY RunFacts, CodeSide
      <4> QED BY <3>1, <4>1
    <3>2. CASE fault = "encoding" /\ framework \notin {"python_logging", "gin"}
      <4>1. ExtractCode(framework, hint, src, "encoding") = <<>>
        BY <3>2, RunFacts, Blinded
      <4>2. codeItems = <<>>
        BY <3>2, <4>1
      <4>3. src = <<>>
        BY <2>1, <4>2 DEF ZeroCoverage
      <4>4. ToSet(implemented) = {}
        <5>1. implemented = <<>>
          BY <4>3, RunFacts, SourceIsEmpty
        <5> QED BY <5>1, Tuples
      <4> HIDE DEF codeItems
      <4> QED BY <4>2, <4>4, NothingIsFaithful
    <3> QED BY <3>1, <3>2
  <2> HIDE DEF codeItems
  <2>3. ~ HasMismatches(Compare(ExtractSpec(Capability(framework), Document(framework, documented)), codeItems))
    BY <2>1 DEF found
  <2> QED BY <2>2, <2>3, RunFacts, PassAgrees
<1> QED BY <1>1, SpecCodeInvKept, PTL

(* And where both sides agree the run passes, whichever of the detectors of *)
(* the capability read the code, except where the notations of the two      *)
(* sides differ.                                                            *)
THEOREM AgreementSuffices ==
    SpecCodeInit /\ [][SpecCodeStep]_specCodeVars => []AgreementPasses
<1>1. SpecCodeInv => AgreementPasses
  <2> SUFFICES ASSUME SpecCodeInv, outcome.mode = "strict" /\ fault = "none",
                      hint \/ framework # "click",
                      AllExpressible(framework),
                      Agreed(framework, documented, implemented),
                      framework = "flask" => \A o \in ToSet(documented) : o.arg = "",
                      Capability(framework) = "cli" => \A p \in ToSet(implemented) : Typed(p.first)
               PROVE  outcome.exit = 0
    BY DEF AgreementPasses
  <2> DEFINE src == Source(framework, implemented)
             codeItems == ExtractCode(framework, hint, src, fault)
             found == Compare(ExtractSpec(Capability(framework), Document(framework, documented)), codeItems)
  <2>1. outcome.exit = ExitCode("strict", found, ZeroCoverage(codeItems, src))
    BY DEF SpecCodeInv, ExitNow
  <2>2. Faithful(codeItems, framework, implemented)
    <3>1. Faithful(ExtractCode(framework, hint, src, "none"), framework, implemented)
      BY RunFacts, CodeSide
    <3> QED BY <3>1
  <2>3. ~ ZeroCoverage(codeItems, src)
    <3>1. ASSUME codeItems = <<>> PROVE src = <<>>
      <4>1. KeysOf(codeItems) = {}
        BY <3>1, Tuples DEF KeysOf
      <4> HIDE DEF codeItems
      <4>2. ToSet(implemented) = {}
        BY <2>2, <4>1 DEF Faithful
      <4>3. implemented = <<>>
        BY <4>2, RunFacts, SeqOfAny, SeqFacts
      <4> QED BY <4>3, RunFacts, SourceIsEmpty
    <3> QED BY <3>1 DEF ZeroCoverage
  <2> HIDE DEF codeItems
  <2>4. ~ HasMismatches(found)
    BY <2>2, RunFacts, AgreedPasses
  <2> HIDE DEF found
  <2> QED BY <2>1, <2>3, <2>4 DEF ExitCode
<1> QED BY <1>1, SpecCodeInvKept, PTL
=============================================================================
