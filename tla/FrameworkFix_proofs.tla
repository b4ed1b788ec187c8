--------------------------- MODULE FrameworkFix_proofs ---------------------------
(***************************************************************************)
(* The self-improving loop, for any developers, gaps, names and reports.     *)
(*                                                                         *)
(* A proposal carries the end of the text it was made from, which does not   *)
(* have the section, and if the body has it now that was overlooked; hence   *)
(* TwiceOnlyIfOverlooked.  FailureIsTold needs to know whose a branch is: that *)
(* of somebody for whom its gap has its name, who is about to open the pull   *)
(* request or has been told that it failed.                                 *)
(***************************************************************************)
EXTENDS FrameworkFix, SequenceTheorems, TLAPS

BranchesFresh ==
    \A b \in Branch : branches[b] # NoBranch =>
        /\ branches[b].gap \notin ToSet(branches[b].base)
        /\ branches[b].gap \in upstream[DocOf[branches[b].gap]].body => branches[b].gap \in overlooked

RoundsFresh ==
    \A d \in Developer : at[d] \in {"committed", "pushed"} =>
        /\ Current(d) \notin ToSet(base[d])
        /\ Current(d) \in upstream[DocOf[Current(d)]].body => Current(d) \in overlooked

OpenedIsSo ==
    \A d \in Developer, g \in Gap :
        "opened" \in said[d][g] => \E h \in Gap : <<BranchOf[projectType[d]][g], h>> \in proposed

SkippedIsSo ==
    \A d \in Developer, g \in Gap :
        "skipped" \in said[d][g] => Sections(upstream[DocOf[g]]) \cap Containing[g] # {}

FailureTraced ==
    \A b \in Branch : branches[b] # NoBranch /\ <<b, branches[b].gap>> \notin proposed =>
        \E d \in Developer :
           /\ BranchOf[projectType[d]][branches[b].gap] = b
           /\ \/ at[d] = "pushed" /\ Current(d) = branches[b].gap
              \/ "error" \in said[d][branches[b].gap]

FixInv ==
    /\ FixTypeOK /\ TwiceOnlyIfOverlooked
    /\ BranchesFresh /\ RoundsFresh
    /\ OpenedIsSo /\ SkippedIsSo /\ FailureTraced

Told3 == {"opened", "skipped", "error"}

(* What a developer is left with when a gap has been dealt with.             *)
Leaves(d, what) ==
    /\ todo' \in [Developer -> Seq(Gap)] /\ base' \in [Developer -> Seq(Gap)]
    /\ at' \in [Developer -> {"idle", "next", "committed", "pushed"}]
    /\ \A e \in Developer : at'[e] # "idle" <=> todo'[e] # <<>>
    /\ \A e \in Developer : e # d => todo'[e] = todo[e] /\ base'[e] = base[e] /\ at'[e] = at[e]
    /\ at'[d] \in {"idle", "next"}
    /\ said' \in [Developer -> [Gap -> SUBSET Told3]]
    /\ \A e \in Developer, g \in Gap :
          said'[e][g] = IF e = d /\ g = Current(d) THEN said[e][g] \cup {what} ELSE said[e][g]

-----------------------------------------------------------------------------
LEMMA FixStart == FixInit => FixInv
<1> SUFFICES ASSUME FixInit PROVE FixInv
  OBVIOUS
<1>1. /\ upstream \in Templates /\ local \in [Developer -> Templates]
      /\ \A f \in Doc : upstream[f].body = {} /\ upstream[f].tail = <<>>
  BY DEF FixInit, Templates, Template
<1>2. /\ branches \in [Branch -> Work \cup {NoBranch}]
      /\ \A b \in Branch : branches[b] = NoBranch
  BY DEF FixInit
<1>3. said \in [Developer -> [Gap -> SUBSET Told3]] /\ \A d \in Developer, g \in Gap : said[d][g] = {}
  BY DEF FixInit
<1>4. \A d \in Developer : at[d] = "idle" /\ todo[d] = <<>>
  BY DEF FixInit
<1>5. FixTypeOK
  <2>1. runs \in [Developer -> 0..MaxRuns] /\ byHand \in 0..MaxByHand
    BY FixAssumption DEF FixInit
  <2>2. /\ at \in [Developer -> {"idle", "next", "committed", "pushed"}]
        /\ todo \in [Developer -> Seq(Gap)] /\ base \in [Developer -> Seq(Gap)] /\ log \in [Developer -> Seq(Gap)]
        /\ prs = {} /\ proposed = {} /\ overlooked = {} /\ projectType \in Projects
    BY DEF FixInit
  <2> QED BY <1>1, <1>2, <1>3, <1>4, <2>1, <2>2 DEF FixTypeOK, Told3
<1>6. TwiceOnlyIfOverlooked
  BY <1>1 DEF TwiceOnlyIfOverlooked, IsInjective
<1> QED
  BY <1>2, <1>3, <1>4, <1>5, <1>6
     DEF FixInv, BranchesFresh, RoundsFresh, OpenedIsSo, SkippedIsSo, FailureTraced

LEMMA Busy ==
    ASSUME FixTypeOK, NEW d \in Developer, at[d] # "idle"
    PROVE  /\ todo[d] \in Seq(Gap) /\ todo[d] # <<>> /\ Current(d) \in Gap
           /\ Tail(todo[d]) \in Seq(Gap) /\ (Tail(todo[d]) = <<>> <=> Len(todo[d]) = 1)
           /\ BranchFor(d) \in Branch
<1>1. todo[d] \in Seq(Gap) /\ todo[d] # <<>>
  BY DEF FixTypeOK
<1> PICK list \in Seq(Gap) : list = todo[d]
  BY <1>1
<1>0. Head(list) \in Gap /\ Tail(list) \in Seq(Gap) /\ Len(Tail(list)) = Len(list) - 1 /\ Len(list) \in Nat
  BY <1>1, HeadTailProperties
<1>2. Head(todo[d]) \in Gap /\ Tail(todo[d]) \in Seq(Gap) /\ (Tail(todo[d]) = <<>> <=> Len(todo[d]) = 1)
  <2>1. Len(Tail(list)) = 0 <=> Tail(list) = <<>>
    <3> PICK tail \in Seq(Gap) : tail = Tail(list)
      BY <1>0
    <3>1. Len(tail) = 0 => tail = <<>>
      <4> HAVE Len(tail) = 0
      <4>1. <<>> \in Seq(Gap) /\ Len(<<>>) = 0 /\ \A i \in 1..Len(tail) : tail[i] = <<>>[i]
        OBVIOUS
      <4> QED BY <4>1, SeqEqual
    <3>2. Len(<<>>) = 0
      OBVIOUS
    <3> QED BY <3>1, <3>2
  <2>2. Len(list) - 1 = 0 <=> Len(list) = 1
    BY <1>0
  <2> QED BY <1>0, <2>1, <2>2
<1>3. projectType[d] \in ProjectType
  BY FixAssumption DEF FixTypeOK
<1> QED BY <1>1, <1>2, <1>3, FixAssumption DEF Current, BranchFor

LEMMA ToldSaid ==
    ASSUME FixTypeOK, NEW d \in Developer, NEW what \in Told3, at[d] # "idle",
           said' = [said EXCEPT ![d][Current(d)] = @ \cup {what}]
    PROVE  /\ said' \in [Developer -> [Gap -> SUBSET Told3]]
           /\ \A e \in Developer, g \in Gap :
                 said'[e][g] = IF e = d /\ g = Current(d) THEN said[e][g] \cup {what} ELSE said[e][g]
<1>1. said \in [Developer -> [Gap -> SUBSET Told3]] /\ Current(d) \in Gap
  BY Busy DEF FixTypeOK, Told3
<1> DEFINE mine == [said[d] EXCEPT ![Current(d)] = said[d][Current(d)] \cup {what}]
<1>2. said' = [said EXCEPT ![d] = mine]
  OBVIOUS
<1>3. mine \in [Gap -> SUBSET Told3]
  BY <1>1
<1>4. \A g \in Gap : mine[g] = IF g = Current(d) THEN said[d][g] \cup {what} ELSE said[d][g]
  BY <1>1
<1> HIDE DEF mine
<1> QED BY <1>1, <1>2, <1>3, <1>4

LEMMA ToldLeaves ==
    ASSUME FixTypeOK, NEW d \in Developer, NEW what \in Told3, at[d] # "idle", Told(d, what)
    PROVE  Leaves(d, what)
<1>1. /\ todo' = [todo EXCEPT ![d] = Tail(todo[d])]
      /\ at' = [at EXCEPT ![d] = IF Len(todo[d]) = 1 THEN "idle" ELSE "next"]
      /\ base' = [base EXCEPT ![d] = <<>>]
      /\ said' = [said EXCEPT ![d][Current(d)] = @ \cup {what}]
  BY DEF Told
<1>2. /\ Tail(todo[d]) \in Seq(Gap) /\ (Tail(todo[d]) = <<>> <=> Len(todo[d]) = 1)
      /\ <<>> \in Seq(Gap)
  BY Busy
<1>3. /\ todo' \in [Developer -> Seq(Gap)] /\ base' \in [Developer -> Seq(Gap)]
      /\ at' \in [Developer -> {"idle", "next", "committed", "pushed"}]
      /\ \A e \in Developer : e # d => todo'[e] = todo[e] /\ base'[e] = base[e] /\ at'[e] = at[e]
      /\ at'[d] \in {"idle", "next"} /\ (at'[d] # "idle" <=> todo'[d] # <<>>)
  BY <1>1, <1>2 DEF FixTypeOK
<1>4. \A e \in Developer : at'[e] # "idle" <=> todo'[e] # <<>>
  BY <1>3 DEF FixTypeOK
<1>5. /\ said' \in [Developer -> [Gap -> SUBSET Told3]]
      /\ \A e \in Developer, g \in Gap :
            said'[e][g] = IF e = d /\ g = Current(d) THEN said[e][g] \cup {what} ELSE said[e][g]
  BY <1>1, ToldSaid
<1> QED BY <1>3, <1>4, <1>5 DEF Leaves

LEMMA InterruptLeaves ==
    ASSUME FixTypeOK, NEW d \in Developer, Interrupt(d)
    PROVE  Leaves(d, "error")
<1>1. /\ todo' = [todo EXCEPT ![d] = <<>>] /\ at' = [at EXCEPT ![d] = "idle"] /\ base' = [base EXCEPT ![d] = <<>>]
      /\ said' = [said EXCEPT ![d][Current(d)] = @ \cup {"error"}] /\ at[d] # "idle"
      /\ <<>> \in Seq(Gap)
  BY DEF Interrupt
<1>2. /\ todo' \in [Developer -> Seq(Gap)] /\ base' \in [Developer -> Seq(Gap)]
      /\ at' \in [Developer -> {"idle", "next", "committed", "pushed"}]
      /\ \A e \in Developer : e # d => todo'[e] = todo[e] /\ base'[e] = base[e] /\ at'[e] = at[e]
      /\ at'[d] = "idle" /\ todo'[d] = <<>>
  BY <1>1 DEF FixTypeOK
<1>3. \A e \in Developer : at'[e] # "idle" <=> todo'[e] # <<>>
  BY <1>2 DEF FixTypeOK
<1>4. "error" \in Told3
  BY DEF Told3
<1>5. /\ said' \in [Developer -> [Gap -> SUBSET Told3]]
      /\ \A e \in Developer, g \in Gap :
            said'[e][g] = IF e = d /\ g = Current(d) THEN said[e][g] \cup {"error"} ELSE said[e][g]
  BY <1>1, <1>4, ToldSaid
<1> QED BY <1>2, <1>3, <1>5 DEF Leaves

(* A gap is dealt with: what was true of the others still is, and what the   *)
(* developer is told is so.                                                *)
LEMMA LeftOff ==
    ASSUME FixInv, NEW d \in Developer, NEW what \in Told3, at[d] # "idle", Leaves(d, what),
           upstream' = upstream, branches' = branches, byHand' = byHand, overlooked' = overlooked,
           projectType' = projectType, local' = local, runs' = runs, log' = log,
           prs' \in SUBSET {b \in Branch : branches[b] # NoBranch},
           proposed' \in SUBSET (Branch \X Gap), proposed \subseteq proposed',
           what = "opened" => \E h \in Gap : <<BranchFor(d), h>> \in proposed',
           what = "skipped" => Sections(upstream[DocOf[Current(d)]]) \cap Containing[Current(d)] # {},
           \/ what = "error"
           \/ at[d] # "pushed"
           \/ branches[BranchFor(d)] # NoBranch => <<BranchFor(d), branches[BranchFor(d)].gap>> \in proposed'
    PROVE  FixInv'
<1>0. ASSUME NEW e \in Developer, NEW g \in Gap, NEW word
      PROVE  word \in said'[e][g] <=> word \in said[e][g] \/ (e = d /\ g = Current(d) /\ word = what)
  <2>1. said'[e][g] = IF e = d /\ g = Current(d) THEN said[e][g] \cup {what} ELSE said[e][g]
    BY DEF Leaves
  <2>2. CASE e = d /\ g = Current(d)
    <3>1. said'[e][g] = said[e][g] \cup {what}
      BY <2>1, <2>2
    <3> QED BY <2>2, <3>1
  <2>3. CASE ~ (e = d /\ g = Current(d))
    BY <2>1, <2>3
  <2> QED BY <2>2, <2>3
<1>1. FixTypeOK'
  BY DEF FixInv, FixTypeOK, Leaves, Told3
<1>2. TwiceOnlyIfOverlooked' /\ BranchesFresh'
  BY DEF FixInv, TwiceOnlyIfOverlooked, BranchesFresh
<1>3. RoundsFresh'
  BY DEF FixInv, RoundsFresh, Leaves, Current
<1>4. OpenedIsSo'
  <2> SUFFICES ASSUME NEW e \in Developer, NEW g \in Gap, "opened" \in said'[e][g]
               PROVE  \E h \in Gap : <<BranchOf[projectType[e]][g], h>> \in proposed'
    BY DEF OpenedIsSo
  <2>1. CASE "opened" \in said[e][g]
    BY <2>1 DEF FixInv, OpenedIsSo
  <2>2. CASE "opened" \notin said[e][g]
    <3>1. e = d /\ g = Current(d) /\ what = "opened"
      BY <1>0, <2>2
    <3> QED BY <3>1 DEF BranchFor
  <2> QED BY <2>1, <2>2
<1>5. SkippedIsSo'
  <2> SUFFICES ASSUME NEW e \in Developer, NEW g \in Gap, "skipped" \in said'[e][g]
               PROVE  Sections(upstream[DocOf[g]]) \cap Containing[g] # {}
    BY DEF SkippedIsSo
  <2>1. CASE "skipped" \in said[e][g]
    BY <2>1 DEF FixInv, SkippedIsSo
  <2>2. CASE "skipped" \notin said[e][g]
    <3>1. g = Current(d) /\ what = "skipped"
      BY <1>0, <2>2
    <3> QED BY <3>1
  <2> QED BY <2>1, <2>2
<1>6. FailureTraced'
  <2> SUFFICES ASSUME NEW b \in Branch, branches[b] # NoBranch, <<b, branches[b].gap>> \notin proposed'
               PROVE  \E e \in Developer :
                         /\ BranchOf[projectType[e]][branches[b].gap] = b
                         /\ \/ at'[e] = "pushed" /\ Head(todo'[e]) = branches[b].gap
                            \/ "error" \in said'[e][branches[b].gap]
    BY DEF FailureTraced, Current
  <2>1. branches[b].gap \in Gap
    BY DEF FixInv, FixTypeOK, Work
  <2>2. PICK e \in Developer :
           /\ BranchOf[projectType[e]][branches[b].gap] = b
           /\ \/ at[e] = "pushed" /\ Current(e) = branches[b].gap
              \/ "error" \in said[e][branches[b].gap]
    BY DEF FixInv, FailureTraced
  <2>3. CASE "error" \in said[e][branches[b].gap]
    <3>1. "error" \in said'[e][branches[b].gap]
      BY <1>0, <2>1, <2>3
    <3> QED BY <2>2, <3>1
  <2>4. CASE at[e] = "pushed" /\ Current(e) = branches[b].gap /\ e # d
    BY <2>2, <2>4 DEF Leaves, Current
  <2>5. CASE at[e] = "pushed" /\ Current(e) = branches[b].gap /\ e = d
    <3>1. BranchFor(d) = b
      BY <2>2, <2>5 DEF BranchFor
    <3>2. what = "error"
      BY <2>5, <3>1
    <3>3. "error" \in said'[d][branches[b].gap]
      BY <2>1, <2>5, <3>2 DEF Leaves
    <3> QED BY <2>2, <2>5, <3>3
  <2> QED BY <2>2, <2>3, <2>4, <2>5
<1> QED BY <1>1, <1>2, <1>3, <1>4, <1>5, <1>6 DEF FixInv

(* One developer's progress, when the repository is as it was.               *)
LEMMA OwnProgress ==
    ASSUME FixInv, NEW d \in Developer, said' = said, local' = local, log' = log,
           upstream' = upstream, byHand' = byHand, prs' = prs, proposed' = proposed, branches' = branches,
           overlooked' = overlooked, projectType' = projectType,
           runs' \in [Developer -> 0..MaxRuns], todo' \in [Developer -> Seq(Gap)], base' \in [Developer -> Seq(Gap)],
           at' \in [Developer -> {"idle", "next", "committed", "pushed"}],
           \A e \in Developer : e # d => todo'[e] = todo[e] /\ base'[e] = base[e] /\ at'[e] = at[e],
           at'[d] # "idle" <=> todo'[d] # <<>>,
           at'[d] = "committed" =>
               /\ Head(todo'[d]) \notin ToSet(base'[d])
               /\ Head(todo'[d]) \notin upstream[DocOf[Head(todo'[d])]].body,
           at[d] # "pushed", at'[d] # "pushed"
    PROVE  FixInv'
<1>1. FixTypeOK'
  BY DEF FixInv, FixTypeOK
<1>2. TwiceOnlyIfOverlooked' /\ BranchesFresh' /\ OpenedIsSo' /\ SkippedIsSo'
  BY DEF FixInv, TwiceOnlyIfOverlooked, BranchesFresh, OpenedIsSo, SkippedIsSo
<1>3. RoundsFresh'
  <2> SUFFICES ASSUME NEW e \in Developer, at'[e] \in {"committed", "pushed"}
               PROVE  /\ Head(todo'[e]) \notin ToSet(base'[e])
                      /\ Head(todo'[e]) \in upstream[DocOf[Head(todo'[e])]].body => Head(todo'[e]) \in overlooked
    BY DEF RoundsFresh, Current
  <2>1. CASE e = d
    BY <2>1
  <2>2. CASE e # d
    BY <2>2 DEF FixInv, RoundsFresh, Current
  <2> QED BY <2>1, <2>2
<1>4. FailureTraced'
  <2> SUFFICES ASSUME NEW b \in Branch, branches[b] # NoBranch, <<b, branches[b].gap>> \notin proposed
               PROVE  \E e \in Developer :
                         /\ BranchOf[projectType[e]][branches[b].gap] = b
                         /\ \/ at'[e] = "pushed" /\ Head(todo'[e]) = branches[b].gap
                            \/ "error" \in said[e][branches[b].gap]
    BY DEF FailureTraced, Current
  <2> PICK e \in Developer :
         /\ BranchOf[projectType[e]][branches[b].gap] = b
         /\ \/ at[e] = "pushed" /\ Head(todo[e]) = branches[b].gap
            \/ "error" \in said[e][branches[b].gap]
    BY DEF FixInv, FailureTraced, Current
  <2>1. at[e] = "pushed" => at'[e] = "pushed" /\ todo'[e] = todo[e]
    OBVIOUS
  <2> QED BY <2>1
<1> QED BY <1>1, <1>2, <1>3, <1>4 DEF FixInv

LEMMA Rounds ==
    ASSUME FixInv, NEW d \in Developer, NEW report \in Reports, RoundOne(d, report) \/ RoundTwo(d, report)
    PROVE  FixInv'
<1>1. \A gaps \in Gaps(d, report) : gaps \in Seq(Gap)
  <2> SUFFICES ASSUME NEW gaps \in Gaps(d, report) PROVE gaps \in Seq(Gap)
    OBVIOUS
  <2>1. gaps \in BoundedSeq(Gap, Len(report))
    BY DEF Gaps
  <2>2. PICK m \in 0..Len(report) : gaps \in [1..m -> Gap]
    BY <2>1 DEF BoundedSeq, SeqOf
  <2>3. m \in Nat
    OBVIOUS
  <2> QED BY <2>2, <2>3
<1>2. runs' = [runs EXCEPT ![d] = runs[d] + 1] /\ runs[d] < MaxRuns /\ at[d] = "idle"
  BY DEF RoundOne, RoundTwo
<1>3. runs' \in [Developer -> 0..MaxRuns]
  BY <1>2, FixAssumption DEF FixInv, FixTypeOK
<1>4. CASE RoundOne(d, report)
  <2> PICK gaps \in Gaps(d, report) :
           /\ todo' = [todo EXCEPT ![d] = gaps]
           /\ at' = [at EXCEPT ![d] = IF gaps = <<>> THEN "idle" ELSE "next"]
    BY <1>4 DEF RoundOne
  <2>1. /\ todo' = [todo EXCEPT ![d] = gaps]
        /\ at' = [at EXCEPT ![d] = IF gaps = <<>> THEN "idle" ELSE "next"]
        /\ upstream' = upstream /\ branches' = branches /\ prs' = prs /\ byHand' = byHand /\ proposed' = proposed
        /\ overlooked' = overlooked /\ projectType' = projectType
        /\ local' = local /\ base' = base /\ log' = log /\ said' = said
    BY <1>4 DEF RoundOne, hosted
  <2>2. /\ todo' \in [Developer -> Seq(Gap)] /\ base' \in [Developer -> Seq(Gap)]
        /\ at' \in [Developer -> {"idle", "next", "committed", "pushed"}]
        /\ at'[d] \in {"idle", "next"} /\ (at'[d] # "idle" <=> todo'[d] # <<>>)
        /\ \A e \in Developer : e # d => todo'[e] = todo[e] /\ base'[e] = base[e] /\ at'[e] = at[e]
    BY <1>1, <2>1 DEF FixInv, FixTypeOK
  <2> QED BY <1>2, <1>3, <2>1, <2>2, OwnProgress
<1>5. CASE RoundTwo(d, report)
  <2> PICK gaps \in Gaps(d, report) : log' = [log EXCEPT ![d] = log[d] \o gaps]
    BY <1>5 DEF RoundTwo
  <2>1. /\ log' = [log EXCEPT ![d] = log[d] \o gaps]
        /\ upstream' = upstream /\ branches' = branches /\ prs' = prs /\ byHand' = byHand /\ proposed' = proposed
        /\ overlooked' = overlooked /\ projectType' = projectType
        /\ local' = local /\ base' = base /\ said' = said /\ at' = at /\ todo' = todo
    BY <1>5 DEF RoundTwo, hosted
  <2>2. log' \in [Developer -> Seq(Gap)]
    <3>1. log[d] \o gaps \in Seq(Gap)
      BY <1>1, ConcatProperties DEF FixInv, FixTypeOK
    <3> QED BY <2>1, <3>1 DEF FixInv, FixTypeOK
  <2>3. FixTypeOK'
    BY <1>3, <2>1, <2>2 DEF FixInv, FixTypeOK
  <2>4. TwiceOnlyIfOverlooked' /\ BranchesFresh' /\ RoundsFresh' /\ OpenedIsSo' /\ SkippedIsSo' /\ FailureTraced'
    BY <2>1 DEF FixInv, TwiceOnlyIfOverlooked, BranchesFresh, RoundsFresh, OpenedIsSo, SkippedIsSo, FailureTraced, Current
  <2> QED BY <2>3, <2>4 DEF FixInv
<1> QED BY <1>4, <1>5

LEMMA Prepared ==
    ASSUME FixInv, NEW d \in Developer, Prepare(d)
    PROVE  FixInv'
<1>1. /\ at[d] = "next" /\ base' = [base EXCEPT ![d] = upstream[DocOf[Current(d)]].tail]
      /\ at' = [at EXCEPT ![d] = "committed"]
      /\ Sections(upstream[DocOf[Current(d)]]) \cap Containing[Current(d)] = {}
      /\ upstream' = upstream /\ branches' = branches /\ prs' = prs /\ byHand' = byHand /\ proposed' = proposed
      /\ overlooked' = overlooked /\ projectType' = projectType
      /\ local' = local /\ log' = log /\ said' = said /\ todo' = todo /\ runs' = runs
  BY DEF Prepare, hosted
<1>2. Current(d) \in Gap /\ todo[d] # <<>>
  BY <1>1, Busy DEF FixInv
<1>3. /\ upstream[DocOf[Current(d)]].tail \in Seq(Gap)
      /\ Current(d) \notin ToSet(upstream[DocOf[Current(d)]].tail)
      /\ Current(d) \notin upstream[DocOf[Current(d)]].body
  BY <1>1, <1>2, FixAssumption DEF FixInv, FixTypeOK, Templates, Template, Sections
<1>4. /\ base' \in [Developer -> Seq(Gap)] /\ at' \in [Developer -> {"idle", "next", "committed", "pushed"}]
      /\ \A e \in Developer : e # d => base'[e] = base[e] /\ at'[e] = at[e]
      /\ at'[d] = "committed" /\ base'[d] = upstream[DocOf[Current(d)]].tail
  BY <1>1, <1>3 DEF FixInv, FixTypeOK
<1>5. runs' \in [Developer -> 0..MaxRuns] /\ todo' \in [Developer -> Seq(Gap)]
  BY <1>1 DEF FixInv, FixTypeOK
<1>6. Head(todo'[d]) \notin ToSet(base'[d]) /\ Head(todo'[d]) \notin upstream[DocOf[Head(todo'[d])]].body
  BY <1>1, <1>3, <1>4 DEF Current
<1> QED BY <1>1, <1>2, <1>4, <1>5, <1>6, OwnProgress

LEMMA Pushed ==
    ASSUME FixInv, NEW d \in Developer, Push(d)
    PROVE  FixInv'
<1> DEFINE work == [gap |-> Current(d), base |-> base[d]]
<1>1. /\ at[d] = "committed" /\ branches[BranchFor(d)] = NoBranch
      /\ branches' = [branches EXCEPT ![BranchFor(d)] = work]
      /\ at' = [at EXCEPT ![d] = "pushed"]
      /\ upstream' = upstream /\ prs' = prs /\ byHand' = byHand /\ proposed' = proposed
      /\ overlooked' = overlooked /\ projectType' = projectType
      /\ local' = local /\ log' = log /\ said' = said /\ todo' = todo /\ runs' = runs /\ base' = base
  BY DEF Push
<1>2. Current(d) \in Gap /\ BranchFor(d) \in Branch /\ BranchFor(d) = BranchOf[projectType[d]][Current(d)]
  BY <1>1, Busy DEF FixInv, BranchFor
<1>3. work \in Work /\ work.gap = Current(d) /\ work.base = base[d] /\ Current(d) \notin ToSet(base[d])
      /\ (Current(d) \in upstream[DocOf[Current(d)]].body => Current(d) \in overlooked)
  BY <1>1, <1>2 DEF FixInv, FixTypeOK, RoundsFresh, Work
<1> HIDE DEF work
<1>4. /\ \A b \in Branch : branches'[b] = IF b = BranchFor(d) THEN work ELSE branches[b]
      /\ branches' \in [Branch -> Work \cup {NoBranch}]
  BY <1>1, <1>2, <1>3 DEF FixInv, FixTypeOK
<1>5. /\ at' \in [Developer -> {"idle", "next", "committed", "pushed"}]
      /\ \A e \in Developer : at'[e] = IF e = d THEN "pushed" ELSE at[e]
  BY <1>1 DEF FixInv, FixTypeOK
<1>6. FixTypeOK'
  <2>1. prs' \in SUBSET {b \in Branch : branches'[b] # NoBranch}
    BY <1>1, <1>4 DEF FixInv, FixTypeOK
  <2> QED BY <1>1, <1>4, <1>5, <2>1 DEF FixInv, FixTypeOK
<1>7. BranchesFresh'
  BY <1>1, <1>2, <1>3, <1>4 DEF FixInv, BranchesFresh
<1>8. RoundsFresh'
  BY <1>1, <1>3, <1>5 DEF FixInv, RoundsFresh, Current
<1>9. TwiceOnlyIfOverlooked' /\ OpenedIsSo' /\ SkippedIsSo'
  BY <1>1 DEF FixInv, TwiceOnlyIfOverlooked, OpenedIsSo, SkippedIsSo
<1>10. FailureTraced'
  BY <1>1, <1>2, <1>3, <1>4, <1>5 DEF FixInv, FailureTraced, Current
<1> QED BY <1>6, <1>7, <1>8, <1>9, <1>10 DEF FixInv

LEMMA Proceeded ==
    ASSUME FixInv, NEW d \in Developer, Proceed(d) \/ Interrupt(d)
    PROVE  FixInv'
<1>0. {"opened", "skipped", "error"} = Told3 /\ FixTypeOK
  BY DEF Told3, FixInv
<1>1. CASE Prepare(d)
  BY <1>1, Prepared
<1>2. CASE Push(d)
  BY <1>2, Pushed
<1>3. CASE Skip(d)
  <2>1. /\ at[d] = "next" /\ Told(d, "skipped") /\ hosted' = hosted /\ projectType' = projectType /\ local' = local /\ runs' = runs /\ log' = log
        /\ Sections(upstream[DocOf[Current(d)]]) \cap Containing[Current(d)] # {}
    BY <1>3 DEF Skip
  <2>2. Leaves(d, "skipped")
    BY <1>0, <2>1, ToldLeaves
  <2>3. prs \in SUBSET {b \in Branch : branches[b] # NoBranch} /\ proposed \in SUBSET (Branch \X Gap)
    BY <1>0 DEF FixTypeOK
  <2> QED BY <1>0, <2>1, <2>2, <2>3, LeftOff DEF hosted
<1>4. CASE PrepareFails(d) \/ PushFails(d) \/ OpenPRFails(d) \/ Interrupt(d)
  <2>1. at[d] # "idle" /\ hosted' = hosted /\ projectType' = projectType /\ local' = local /\ runs' = runs /\ log' = log
    BY <1>4 DEF PrepareFails, PushFails, OpenPRFails, Interrupt
  <2>2. Leaves(d, "error")
    BY <1>0, <1>4, <2>1, ToldLeaves, InterruptLeaves DEF PrepareFails, PushFails, OpenPRFails
  <2>3. prs \in SUBSET {b \in Branch : branches[b] # NoBranch} /\ proposed \in SUBSET (Branch \X Gap)
    BY <1>0 DEF FixTypeOK
  <2> QED BY <1>0, <2>1, <2>2, <2>3, LeftOff DEF hosted
<1>5. ASSUME NEW answer \in {"opened", "error"}, OpenPR(d, answer) PROVE FixInv'
  <2> DEFINE g == branches[BranchFor(d)].gap
  <2>1. /\ at[d] = "pushed" /\ branches[BranchFor(d)] # NoBranch
        /\ prs' = prs \cup {BranchFor(d)} /\ proposed' = proposed \cup {<<BranchFor(d), g>>}
        /\ Told(d, answer)
        /\ upstream' = upstream /\ branches' = branches /\ byHand' = byHand
        /\ overlooked' = overlooked /\ projectType' = projectType
        /\ local' = local /\ runs' = runs /\ log' = log
    BY <1>5 DEF OpenPR
  <2>2. BranchFor(d) \in Branch /\ Current(d) \in Gap
    BY <1>0, <2>1, Busy
  <2>3. g \in Gap
    BY <1>0, <2>1, <2>2 DEF FixTypeOK, Work
  <2>4. Leaves(d, answer) /\ answer \in Told3 /\ answer # "skipped"
    BY <1>0, <2>1, ToldLeaves
  <2>5. prs' \in SUBSET {b \in Branch : branches[b] # NoBranch} /\ proposed' \in SUBSET (Branch \X Gap)
    BY <1>0, <2>1, <2>2, <2>3 DEF FixTypeOK
  <2>6. <<BranchFor(d), branches[BranchFor(d)].gap>> \in proposed' /\ \E h \in Gap : <<BranchFor(d), h>> \in proposed'
    BY <2>1, <2>3
  <2>7. proposed \subseteq proposed' /\ at[d] # "idle"
    BY <2>1
  <2> QED BY <2>1, <2>4, <2>5, <2>6, <2>7, LeftOff
<1> QED BY <1>1, <1>2, <1>3, <1>4, <1>5 DEF Proceed

(* What maintainers do, and developers who update, leaves rounds alone.       *)
LEMMA Maintained ==
    ASSUME FixInv, \/ \E b \in Branch : Merge(b) \/ ClosePR(b) \/ DeleteBranch(b)
                   \/ \E g \in Gap : AppendSection(g) \/ WriteSection(g)
                   \/ \E d \in Developer : Update(d)
    PROVE  FixInv'
<1>1. ASSUME NEW g \in Gap, g \notin ToSet(upstream[DocOf[g]].tail),
             g \in upstream[DocOf[g]].body => g \in overlooked,
             upstream' = [upstream EXCEPT ![DocOf[g]].tail = Append(@, g)],
             branches' = branches, proposed' = proposed, prs' \subseteq prs, byHand' \in 0..MaxByHand,
             overlooked' = overlooked, own' = own
      PROVE  FixInv'
  <2> DEFINE f == DocOf[g]
             old == upstream[f].tail
             new == Append(old, g)
  <2>1. f \in Doc /\ old \in Seq(Gap) /\ upstream[f] \in Template
    BY FixAssumption DEF FixInv, FixTypeOK, Templates, Template
  <2>2. /\ new \in Seq(Gap) /\ Len(new) = Len(old) + 1 /\ new[Len(old) + 1] = g
        /\ \A i \in 1..Len(old) : new[i] = old[i]
        /\ Len(old) \in Nat /\ DOMAIN old = 1..Len(old) /\ DOMAIN new = 1..Len(new)
    BY <2>1
  <2>3. /\ \A c \in Doc : upstream'[c].body = upstream[c].body
        /\ \A c \in Doc : upstream'[c].tail = IF c = f THEN new ELSE upstream[c].tail
        /\ upstream' \in Templates
    BY <1>1, <2>1, <2>2 DEF FixInv, FixTypeOK, Templates, Template
  <2>4. \A i \in 1..Len(old) : old[i] # g
    BY <1>1, <2>2 DEF ToSet
  <2>5. ToSet(new) = ToSet(old) \cup {g}
    BY <2>2 DEF ToSet
  <2>6. IsInjective(new)
    <3>1. \A i, j \in 1..Len(old) : old[i] = old[j] => i = j
      BY <2>1, <2>2 DEF FixInv, TwiceOnlyIfOverlooked, IsInjective
    <3>2. ASSUME NEW i \in 1..Len(new), NEW j \in 1..Len(new), new[i] = new[j] PROVE i = j
      <4> HIDE DEF new, old
      <4>1. \A k \in 1..Len(new) : k \in 1..Len(old) \/ k = Len(old) + 1
        BY <2>2
      <4>2. CASE i \in 1..Len(old) /\ j \in 1..Len(old)
        BY <2>2, <3>1, <3>2, <4>2
      <4>3. CASE i = Len(old) + 1 /\ j = Len(old) + 1
        BY <4>3
      <4>4. CASE i \in 1..Len(old) /\ j = Len(old) + 1
        BY <2>2, <2>4, <3>2, <4>4
      <4>5. CASE i = Len(old) + 1 /\ j \in 1..Len(old)
        BY <2>2, <2>4, <3>2, <4>5
      <4> QED BY <4>1, <4>2, <4>3, <4>4, <4>5
    <3> QED BY <2>2, <3>2 DEF IsInjective
  <2> HIDE DEF new
  <2>7. TwiceOnlyIfOverlooked'
    <3> SUFFICES ASSUME NEW c \in Doc
                 PROVE  /\ IsInjective(upstream'[c].tail)
                        /\ upstream'[c].body \cap ToSet(upstream'[c].tail) \subseteq overlooked
      BY <1>1 DEF TwiceOnlyIfOverlooked
    <3>1. CASE c = f
      <4>1. upstream[f].body \cap ToSet(old) \subseteq overlooked
        BY <2>1 DEF FixInv, TwiceOnlyIfOverlooked
      <4> QED BY <1>1, <2>3, <2>5, <2>6, <3>1, <4>1
    <3>2. CASE c # f
      BY <2>3, <3>2 DEF FixInv, TwiceOnlyIfOverlooked
    <3> QED BY <3>1, <3>2
  <2>8. SkippedIsSo'
    <3>1. \A h \in Gap : DocOf[h] \in Doc /\ Sections(upstream[DocOf[h]]) \subseteq Sections(upstream'[DocOf[h]])
      BY <2>3, <2>5, FixAssumption DEF Sections
    <3>2. said' = said
      BY <1>1 DEF own
    <3> QED BY <3>1, <3>2 DEF FixInv, SkippedIsSo
  <2>9. BranchesFresh' /\ RoundsFresh'
    <3>1. at' = at /\ todo' = todo /\ base' = base
      BY <1>1 DEF own
    <3>2. \A h \in Gap : upstream'[DocOf[h]].body = upstream[DocOf[h]].body
      BY <2>3, FixAssumption
    <3>3. BranchesFresh'
      <4>1. \A b \in Branch : branches[b] # NoBranch => branches[b].gap \in Gap
        BY DEF FixInv, FixTypeOK, Work
      <4> QED BY <1>1, <3>2, <4>1 DEF FixInv, BranchesFresh
    <3>4. RoundsFresh'
      <4>1. \A d \in Developer : at[d] \in {"committed", "pushed"} => Current(d) \in Gap
        BY Busy DEF FixInv
      <4> QED BY <1>1, <3>1, <3>2, <4>1 DEF FixInv, RoundsFresh, Current
    <3> QED BY <3>3, <3>4
  <2>10. OpenedIsSo' /\ FailureTraced'
    BY <1>1 DEF FixInv, OpenedIsSo, FailureTraced, own, Current
  <2>11. FixTypeOK'
    BY <1>1, <2>3 DEF FixInv, FixTypeOK, own
  <2> QED BY <2>7, <2>8, <2>9, <2>10, <2>11 DEF FixInv
<1>2. ASSUME NEW b \in Branch, Merge(b) PROVE FixInv'
  <2> DEFINE g == branches[b].gap
  <2>1. branches[b] \in Work /\ branches[b] # NoBranch
    BY <1>2 DEF Merge, FixInv, FixTypeOK
  <2>2. /\ g \in Gap /\ g \notin ToSet(branches[b].base) /\ upstream[DocOf[g]].tail = branches[b].base
        /\ g \in upstream[DocOf[g]].body => g \in overlooked
    BY <1>2, <2>1 DEF Merge, Work, FixInv, BranchesFresh
  <2>3. /\ upstream' = [upstream EXCEPT ![DocOf[g]].tail = Append(@, g)]
        /\ branches' = branches /\ proposed' = proposed /\ prs' \subseteq prs /\ byHand' = byHand
        /\ overlooked' = overlooked /\ own' = own
    BY <1>2 DEF Merge
  <2>4. byHand' \in 0..MaxByHand
    BY <2>3 DEF FixInv, FixTypeOK
  <2> HIDE DEF g
  <2> QED BY <1>1, <2>2, <2>3, <2>4
<1>3. ASSUME NEW g \in Gap, AppendSection(g) PROVE FixInv'
  <2>1. byHand' \in 0..MaxByHand
    BY <1>3, FixAssumption DEF AppendSection, FixInv, FixTypeOK
  <2>2. g \notin ToSet(upstream[DocOf[g]].tail) /\ g \notin upstream[DocOf[g]].body
    BY <1>3 DEF AppendSection, Sections
  <2> QED BY <1>1, <1>3, <2>1, <2>2 DEF AppendSection
<1>7. ASSUME NEW g \in Gap, WriteSection(g) PROVE FixInv'
  <2> DEFINE f == DocOf[g]
  <2>1. /\ upstream' = [upstream EXCEPT ![f].body = @ \cup {g}]
        /\ overlooked' = IF UnderWay(g) \/ g \in ToSet(upstream[f].tail) THEN overlooked \cup {g} ELSE overlooked
        /\ byHand' = byHand + 1 /\ byHand < MaxByHand
        /\ branches' = branches /\ prs' = prs /\ proposed' = proposed
        /\ projectType' = projectType /\ local' = local /\ runs' = runs /\ at' = at /\ todo' = todo /\ base' = base
        /\ log' = log /\ said' = said
    BY <1>7 DEF WriteSection, own
  <2>2. f \in Doc /\ upstream[f] \in Template
    BY FixAssumption DEF FixInv, FixTypeOK, Templates
  <2>3. /\ \A c \in Doc : upstream'[c].tail = upstream[c].tail
        /\ \A c \in Doc : upstream'[c].body = IF c = f THEN upstream[f].body \cup {g} ELSE upstream[c].body
        /\ upstream' \in Templates
    BY <2>1, <2>2 DEF FixInv, FixTypeOK, Templates, Template
  <2>4. /\ overlooked \subseteq overlooked' /\ overlooked' \subseteq overlooked \cup {g}
        /\ UnderWay(g) \/ g \in ToSet(upstream[f].tail) => g \in overlooked'
    BY <2>1
  <2>5. FixTypeOK'
    <3>1. byHand' \in 0..MaxByHand
      BY <2>1, FixAssumption DEF FixInv, FixTypeOK
    <3>2. overlooked' \in SUBSET Gap
      BY <2>4 DEF FixInv, FixTypeOK
    <3> QED BY <2>1, <2>3, <3>1, <3>2 DEF FixInv, FixTypeOK
  <2>6. TwiceOnlyIfOverlooked'
    <3> SUFFICES ASSUME NEW c \in Doc
                 PROVE  /\ IsInjective(upstream'[c].tail)
                        /\ upstream'[c].body \cap ToSet(upstream'[c].tail) \subseteq overlooked'
      BY DEF TwiceOnlyIfOverlooked
    <3>1. /\ IsInjective(upstream[c].tail)
          /\ upstream[c].body \cap ToSet(upstream[c].tail) \subseteq overlooked
      BY DEF FixInv, TwiceOnlyIfOverlooked
    <3>2. CASE c = f
      BY <2>3, <2>4, <3>1, <3>2
    <3>3. CASE c # f
      BY <2>3, <2>4, <3>1, <3>3
    <3> QED BY <3>2, <3>3
  <2>7. BranchesFresh'
    <3> SUFFICES ASSUME NEW b \in Branch, branches[b] # NoBranch
                 PROVE  /\ branches[b].gap \notin ToSet(branches[b].base)
                        /\ branches[b].gap \in upstream'[DocOf[branches[b].gap]].body => branches[b].gap \in overlooked'
      BY <2>1 DEF BranchesFresh
    <3> DEFINE h == branches[b].gap
    <3>1. /\ h \in Gap /\ DocOf[h] \in Doc /\ h \notin ToSet(branches[b].base)
          /\ h \in upstream[DocOf[h]].body => h \in overlooked
      BY FixAssumption DEF FixInv, FixTypeOK, Work, BranchesFresh
    <3>2. CASE h = g
      <4>1. UnderWay(g)
        BY <3>2 DEF UnderWay
      <4> QED BY <2>4, <3>1, <3>2, <4>1
    <3>3. CASE h # g
      BY <2>3, <2>4, <3>1, <3>3
    <3> QED BY <3>2, <3>3
  <2>8. RoundsFresh'
    <3> SUFFICES ASSUME NEW d \in Developer, at[d] \in {"committed", "pushed"}
                 PROVE  /\ Current(d) \notin ToSet(base[d])
                        /\ Current(d) \in upstream'[DocOf[Current(d)]].body => Current(d) \in overlooked'
      BY <2>1 DEF RoundsFresh, Current
    <3> DEFINE h == Current(d)
    <3>1. h \in Gap
      BY Busy DEF FixInv
    <3> HIDE DEF h
    <3>2. /\ DocOf[h] \in Doc /\ h \notin ToSet(base[d])
          /\ h \in upstream[DocOf[h]].body => h \in overlooked
      BY <3>1, FixAssumption DEF h, FixInv, RoundsFresh
    <3>3. CASE h = g
      <4>1. UnderWay(g)
        BY <3>3 DEF UnderWay, h
      <4> QED BY <2>4, <3>2, <3>3, <4>1 DEF h
    <3>4. CASE h # g
      BY <2>3, <2>4, <3>2, <3>4 DEF h
    <3> QED BY <3>3, <3>4
  <2>9. SkippedIsSo'
    <3>1. \A h \in Gap : Sections(upstream[DocOf[h]]) \subseteq Sections(upstream'[DocOf[h]])
      BY <2>3, FixAssumption DEF Sections
    <3> QED BY <2>1, <3>1 DEF FixInv, SkippedIsSo
  <2>10. OpenedIsSo' /\ FailureTraced'
    BY <2>1 DEF FixInv, OpenedIsSo, FailureTraced, Current
  <2> QED BY <2>5, <2>6, <2>7, <2>8, <2>9, <2>10 DEF FixInv
<1>4. ASSUME NEW b \in Branch, ClosePR(b) PROVE FixInv'
  <2>1. /\ prs' \subseteq prs /\ upstream' = upstream /\ branches' = branches /\ byHand' = byHand
        /\ overlooked' = overlooked /\ proposed' = proposed /\ own' = own
    BY <1>4 DEF ClosePR
  <2>2. FixTypeOK'
    BY <2>1 DEF FixInv, FixTypeOK, own
  <2>3. TwiceOnlyIfOverlooked' /\ BranchesFresh' /\ RoundsFresh' /\ OpenedIsSo' /\ SkippedIsSo' /\ FailureTraced'
    BY <2>1 DEF FixInv, TwiceOnlyIfOverlooked, BranchesFresh, RoundsFresh, OpenedIsSo, SkippedIsSo, FailureTraced, own, Current
  <2> QED BY <2>2, <2>3 DEF FixInv
<1>5. ASSUME NEW b \in Branch, DeleteBranch(b) PROVE FixInv'
  <2>1. /\ b \notin prs /\ branches' = [branches EXCEPT ![b] = NoBranch] /\ upstream' = upstream /\ prs' = prs
        /\ byHand' = byHand /\ overlooked' = overlooked /\ proposed' = proposed /\ own' = own
    BY <1>5 DEF DeleteBranch
  <2>2. /\ branches' \in [Branch -> Work \cup {NoBranch}]
        /\ \A c \in Branch : branches'[c] = IF c = b THEN NoBranch ELSE branches[c]
    BY <2>1 DEF FixInv, FixTypeOK
  <2>3. FixTypeOK'
    BY <2>1, <2>2 DEF FixInv, FixTypeOK, own
  <2>4. TwiceOnlyIfOverlooked' /\ BranchesFresh' /\ RoundsFresh' /\ OpenedIsSo' /\ SkippedIsSo' /\ FailureTraced'
    BY <2>1, <2>2 DEF FixInv, TwiceOnlyIfOverlooked, BranchesFresh, RoundsFresh, OpenedIsSo, SkippedIsSo, FailureTraced, own, Current
  <2> QED BY <2>3, <2>4 DEF FixInv
<1>6. ASSUME NEW d \in Developer, Update(d) PROVE FixInv'
  <2>1. /\ local' = [local EXCEPT ![d] = upstream] /\ upstream' = upstream /\ branches' = branches /\ prs' = prs
        /\ byHand' = byHand /\ proposed' = proposed /\ overlooked' = overlooked /\ projectType' = projectType
        /\ runs' = runs /\ at' = at /\ todo' = todo /\ base' = base
        /\ log' = log /\ said' = said
    BY <1>6 DEF Update, hosted
  <2>2. FixTypeOK'
    BY <2>1 DEF FixInv, FixTypeOK
  <2>3. TwiceOnlyIfOverlooked' /\ BranchesFresh' /\ RoundsFresh' /\ OpenedIsSo' /\ SkippedIsSo' /\ FailureTraced'
    BY <2>1 DEF FixInv, TwiceOnlyIfOverlooked, BranchesFresh, RoundsFresh, OpenedIsSo, SkippedIsSo, FailureTraced, Current
  <2> QED BY <2>2, <2>3 DEF FixInv
<1> QED BY <1>2, <1>3, <1>4, <1>5, <1>6, <1>7

LEMMA FixInvariant == FixSpec => []FixInv
<1>1. FixInv /\ [FixNext]_fixVars => FixInv'
  <2> SUFFICES ASSUME FixInv, [FixNext]_fixVars PROVE FixInv'
    OBVIOUS
  <2>1. CASE UNCHANGED fixVars
    <3>1. FixTypeOK'
      BY <2>1 DEF FixInv, FixTypeOK, fixVars, hosted, own
    <3>2. TwiceOnlyIfOverlooked' /\ BranchesFresh' /\ RoundsFresh' /\ OpenedIsSo' /\ SkippedIsSo' /\ FailureTraced'
      BY <2>1 DEF FixInv, TwiceOnlyIfOverlooked, BranchesFresh, RoundsFresh, OpenedIsSo, SkippedIsSo, FailureTraced, Current,
                  fixVars, hosted, own
    <3> QED BY <3>1, <3>2 DEF FixInv
  <2> QED BY <2>1, Rounds, Proceeded, Maintained DEF FixNext
<1> QED BY <1>1, FixStart, PTL DEF FixSpec

-----------------------------------------------------------------------------
(* The loop's state is typed: a pull request is one of a branch that exists,   *)
(* and a developer has gaps left exactly while a round is under way.          *)
THEOREM FixTypes == FixSpec => []FixTypeOK
<1>1. FixInv => FixTypeOK
  BY DEF FixInv
<1> QED BY <1>1, FixInvariant, PTL

(* propose_fix: whatever proposals, merges and hand-written sections            *)
(* interleave, two proposals never give a template the same section, and one   *)
(* doubles a section of the body only if that was written while the proposal   *)
(* was under way or had been merged.                                        *)
THEOREM NoneTwiceUnlessOverlooked == FixSpec => []TwiceOnlyIfOverlooked
<1>1. FixInv => TwiceOnlyIfOverlooked
  BY DEF FixInv
<1> QED BY <1>1, FixInvariant, PTL

(* propose_fix and diagnose_spec.py: what a developer is told is so, and a     *)
(* branch without a pull request is somebody's known failure.               *)
THEOREM ToldAsItIs == FixSpec => []FailureIsTold
<1>1. FixInv => FailureIsTold
  <2>1. FixInv => \A b \in Branch : branches[b] # NoBranch /\ <<b, branches[b].gap>> \notin proposed =>
            \E d \in Developer :
               \/ at[d] = "pushed" /\ BranchFor(d) = b
               \/ /\ BranchOf[projectType[d]][branches[b].gap] = b
                  /\ "error" \in said[d][branches[b].gap]
    BY DEF FixInv, FailureTraced, BranchFor
  <2> QED BY <2>1 DEF FixInv, OpenedIsSo, SkippedIsSo, FailureIsTold
<1> QED BY <1>1, FixInvariant, PTL
=============================================================================
