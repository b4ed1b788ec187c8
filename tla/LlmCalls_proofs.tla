---------------------------- MODULE LlmCalls_proofs ----------------------------
(***************************************************************************)
(* The programs that pay for an agent's answers, for every value of their   *)
(* constants: first run_pipeline, for any roles, dependencies, retries and   *)
(* caps.                                                                   *)
(*                                                                         *)
(* The order is arranged before the first query and not touched after it;   *)
(* what the roles before `at` have, those after it have not, and the books  *)
(* of the role being asked are kept apart from everybody else's.            *)
(***************************************************************************)
EXTENDS MCLlmCalls, SpecCode_proofs

(* The types, but for the reported sum, which comes last.                   *)
PipelineTyped ==
    /\ listed \in RoleLists /\ dependsOn \in Graphs
    /\ order \in Seq(Role) /\ at \in Nat \ {0}
    /\ stage \in {"ordering", "asking"} \cup Ended
    /\ results \in [Role -> Result]
    /\ tries \in 0..MaxRetries /\ spent \in Nat
    /\ billed \in [Role -> Nat] /\ heard \in [Role -> Status \cup {"nothing"}]

Quiet == {"ordering", "unresolvable"}
Open == {"asking", "call error", "invocation error"}

Arranged ==
    /\ \A i \in 1..Len(order) : \A d \in dependsOn[order[i]] : \E j \in 1..Len(order) : j < i /\ order[j] = d
    /\ \A i, j \in 1..Len(order) : order[i] = order[j] => i = j

NothingYet ==
    stage \in Quiet =>
        /\ \A r \in Role : results[r] = NoResult /\ billed[r] = 0 /\ heard[r] = "nothing"
        /\ tries = 0 /\ spent = 0

DoneSoFar ==
    stage \notin Quiet =>
        /\ stage \in Open => at <= Len(order)
        /\ \A i \in 1..Len(order) : results[order[i]] # NoResult <=> i < at
        /\ \A r \in Role : results[r] # NoResult => \E i \in 1..Len(order) : order[i] = r

Books ==
    /\ \A r \in Role : results[r] # NoResult => results[r].usage = billed[r] /\ results[r].status = heard[r]
    /\ \A r \in Role : results[r] = NoResult => heard[r] = "nothing"
    /\ \A r \in Role : results[r] = NoResult /\ (stage \in Open => r # Asked) => billed[r] = 0
    /\ stage = "asking" => billed[Asked] = spent /\ spent <= tries * Cap
    /\ stage = "call error" => reported = billed[Asked]
    /\ stage = "returned" => reported = SumFunction(Usage)

PipelineInv == PipelineTyped /\ Arranged /\ NothingYet /\ DoneSoFar /\ Books /\ SpendBounded

-----------------------------------------------------------------------------
LEMMA PipelineStart == PipelineInit => PipelineInv
<1> SUFFICES ASSUME PipelineInit PROVE PipelineInv
  OBVIOUS
<1>1. PipelineTyped
  <2>1. results \in [Role -> Result] /\ heard \in [Role -> Status \cup {"nothing"}] /\ billed \in [Role -> Nat]
    BY DEF PipelineInit, Result
  <2>2. listed \in RoleLists /\ dependsOn \in Graphs /\ order \in Seq(Role) /\ at \in Nat \ {0}
    BY DEF PipelineInit
  <2>3. stage \in {"ordering", "asking"} \cup Ended /\ tries \in 0..MaxRetries /\ spent \in Nat
    BY PipelineAssumption DEF PipelineInit
  <2> QED BY <2>1, <2>2, <2>3 DEF PipelineTyped
<1>2. Len(order) = 0 /\ stage = "ordering" /\ \A r \in Role : results[r] = NoResult /\ billed[r] = 0 /\ heard[r] = "nothing"
  BY DEF PipelineInit
<1>3. 0 <= (MaxRetries + 1) * Cap
  <2>1. MaxRetries + 1 \in Nat /\ Cap \in Nat
    BY PipelineAssumption
  <2> QED BY <2>1
<1>4. tries = 0 /\ spent = 0
  BY DEF PipelineInit
<1> QED
  BY <1>1, <1>2, <1>3, <1>4
     DEF PipelineInv, Arranged, NothingYet, DoneSoFar, Books, SpendBounded, Quiet, Open

(* Every attempt costs at most the cap.                                     *)
LEMMA AttemptsCost ==
    ASSUME NEW n \in 0..MaxRetries, NEW sum \in Nat, sum <= n * Cap, NEW cost \in 0..Cap
    PROVE  sum + cost <= (n + 1) * Cap /\ sum + cost <= (MaxRetries + 1) * Cap
<1>1. n \in Nat /\ cost \in Nat /\ MaxRetries \in Nat /\ Cap \in Nat
  BY PipelineAssumption
<1>2. sum + cost <= (n + 1) * Cap
  BY <1>1
<1>3. (n + 1) * Cap <= (MaxRetries + 1) * Cap
  BY <1>1
<1>4. n * Cap \in Nat /\ (n + 1) * Cap \in Nat /\ (MaxRetries + 1) * Cap \in Nat
  BY <1>1
<1> QED BY <1>1, <1>2, <1>3, <1>4

LEMMA StaysArranged ==
    ASSUME Arranged, order' = order, dependsOn' = dependsOn
    PROVE  Arranged'
<1>1. ASSUME NEW i \in 1..Len(order'), NEW d \in dependsOn'[order'[i]]
      PROVE  \E j \in 1..Len(order') : j < i /\ order'[j] = d
  <2>1. PICK j \in 1..Len(order) : j < i /\ order[j] = d
    BY <1>1 DEF Arranged
  <2> QED BY <2>1
<1>2. \A i, j \in 1..Len(order') : order'[i] = order'[j] => i = j
  BY DEF Arranged
<1> QED BY <1>1, <1>2 DEF Arranged

LEMMA Arranging ==
    ASSUME PipelineInv, Consider \/ EndTurn
    PROVE  PipelineInv'
<1>0. PipelineTyped /\ stage = "ordering" /\ stage' \in {"ordering", "unresolvable", "asking"}
      /\ listed' = listed /\ dependsOn' = dependsOn /\ results' = results /\ tries' = tries /\ spent' = spent
      /\ billed' = billed /\ heard' = heard
  BY DEF PipelineInv, Consider, EndTurn, accounts
<1>1. PipelineTyped' /\ Arranged'
  <2>1. CASE Consider
    <3> DEFINE r == listed[at]
    <3>1. listed \in Seq(Role) /\ r \in Role
      BY <1>0, <2>1, PipelineAssumption DEF PipelineTyped, Consider
    <3>2. CASE r \notin ToSet(order) /\ dependsOn[r] \subseteq ToSet(order)
      <4>1. order' = Append(order, r) /\ progressed' = TRUE /\ at' = at + 1 /\ stage' = stage
        BY <2>1, <3>2 DEF Consider
      <4>2. order' \in Seq(Role) /\ Len(order') = Len(order) + 1 /\ order'[Len(order) + 1] = r
            /\ \A i \in 1..Len(order) : order'[i] = order[i]
        BY <1>0, <3>1, <4>1 DEF PipelineTyped
      <4>3. Len(order) \in Nat /\ DOMAIN order = 1..Len(order)
        BY <1>0 DEF PipelineTyped
      <4>4. ASSUME NEW i \in 1..Len(order'), NEW d \in dependsOn'[order'[i]]
            PROVE  \E j \in 1..Len(order') : j < i /\ order'[j] = d
        <5>1. CASE i = Len(order) + 1
          <6>1. d \in ToSet(order)
            BY <1>0, <3>2, <4>2, <4>4, <5>1
          <6> QED BY <4>2, <4>3, <5>1, <6>1 DEF ToSet
        <5>2. CASE i \in 1..Len(order)
          <6>1. PICK j \in 1..Len(order) : j < i /\ order[j] = d
            BY <1>0, <4>2, <4>4, <5>2 DEF PipelineInv, Arranged
          <6> QED BY <4>2, <4>3, <6>1
        <5> QED BY <4>2, <4>3, <5>1, <5>2
      <4>5. \A i \in 1..Len(order) : order[i] # r
        BY <3>2, <4>3 DEF ToSet
      <4>6. \A i, j \in 1..Len(order') : order'[i] = order'[j] => i = j
        BY <4>2, <4>3, <4>5 DEF PipelineInv, Arranged
      <4>7. at' \in Nat \ {0}
        BY <1>0, <4>1 DEF PipelineTyped
      <4>8. PipelineTyped'
        BY <1>0, <4>1, <4>2, <4>7 DEF PipelineTyped
      <4>9. Arranged'
        BY <4>4, <4>6 DEF Arranged
      <4> QED BY <4>8, <4>9
    <3>3. CASE ~(r \notin ToSet(order) /\ dependsOn[r] \subseteq ToSet(order))
      <4>1. order' = order /\ progressed' = progressed /\ at' = at + 1 /\ stage' = stage
        BY <2>1, <3>3 DEF Consider
      <4>2. at' \in Nat \ {0}
        BY <1>0, <4>1 DEF PipelineTyped
      <4>3. PipelineTyped'
        BY <1>0, <4>1, <4>2 DEF PipelineTyped
      <4>4. Arranged'
        BY <1>0, <4>1, StaysArranged DEF PipelineInv
      <4> QED BY <4>3, <4>4
    <3> QED BY <3>2, <3>3
  <2>2. CASE EndTurn
    <3>1. order' = order /\ at' = 1
      BY <2>2 DEF EndTurn
    <3>2. PipelineTyped'
      <4>1. at' \in Nat \ {0} /\ stage' \in {"ordering", "asking"} \cup Ended
        <5>1. stage' \in {"ordering", "asking", "unresolvable"}
          BY <1>0
        <5>2. stage' \in {"ordering", "asking"} \cup Ended
          BY <5>1 DEF Ended
        <5>3. at' = 1
          BY <3>1
        <5>4. at' \in Nat \ {0}
          BY <5>3
        <5> QED BY <5>2, <5>4
      <4> QED BY <1>0, <3>1, <4>1 DEF PipelineTyped
    <3>3. Arranged'
      BY <1>0, <3>1, StaysArranged DEF PipelineInv
    <3> QED BY <3>2, <3>3
  <2> QED BY <2>1, <2>2
<1>2. NothingYet'
  BY <1>0 DEF PipelineInv, NothingYet, Quiet
<1>3. \A r \in Role : results[r] = NoResult /\ billed[r] = 0 /\ heard[r] = "nothing"
  BY <1>0 DEF PipelineInv, NothingYet, Quiet
<1>4. tries = 0 /\ spent = 0
  BY <1>0 DEF PipelineInv, NothingYet, Quiet
<1>5. stage' \notin Quiet =>
          at' = 1 /\ order' = order /\ Len(order) = Len(listed) /\ Len(order) >= 1 /\ stage' = "asking"
  <2>1. Len(listed) >= 1 /\ Len(order) \in Nat
    BY <1>0, PipelineAssumption DEF PipelineTyped
  <2> QED BY <1>0, <2>1 DEF Consider, EndTurn, Quiet
<1>6. DoneSoFar'
  <2> SUFFICES ASSUME stage' \notin Quiet PROVE DoneSoFar'
    BY DEF DoneSoFar
  <2>1. at' = 1 /\ order' = order /\ Len(order) >= 1
    BY <1>5
  <2>2. \A r \in Role : results'[r] = NoResult
    BY <1>0, <1>3
  <2>3. \A i \in 1..Len(order) : order[i] \in Role /\ ~(i < 1)
    BY <1>0 DEF PipelineTyped
  <2> QED BY <2>1, <2>2, <2>3 DEF DoneSoFar
<1>7. Books'
  <2>1. stage' = "asking" => order'[at'] \in Role
    BY <1>0, <1>5 DEF PipelineTyped, Quiet
  <2>2. 0 <= 0 * Cap
    BY PipelineAssumption
  <2>3. stage' \in {"ordering", "unresolvable", "asking"}
    BY <1>0
  <2>4. stage' = "asking" => billed'[Asked'] = spent' /\ spent' <= tries' * Cap
    BY <1>0, <1>3, <1>4, <2>1, <2>2 DEF Asked
  <2> QED BY <1>0, <1>3, <2>3, <2>4 DEF Books
<1>8. SpendBounded'
  BY <1>0 DEF PipelineInv, SpendBounded
<1> QED BY <1>1, <1>2, <1>6, <1>7, <1>8 DEF PipelineInv

(* A reply is heard: the role's call goes on, ends, or ends the pipeline.   *)
LEMMA InQuery ==
    ASSUME PipelineInv, Query
    PROVE  /\ stage = "asking" /\ at \in 1..Len(order) /\ Asked \in Role /\ Asked = order[at]
           /\ results[Asked] = NoResult /\ heard[Asked] = "nothing"
           /\ billed[Asked] = spent /\ spent \in Nat /\ spent <= tries * Cap /\ tries \in 0..MaxRetries
           /\ listed' = listed /\ dependsOn' = dependsOn /\ order' = order
<1>1. stage = "asking" /\ listed' = listed /\ dependsOn' = dependsOn /\ order' = order /\ PipelineTyped
  BY DEF Query, arranging, PipelineInv
<1>2. at \in 1..Len(order)
  BY <1>1 DEF PipelineInv, DoneSoFar, Quiet, Open, PipelineTyped
<1>3. Asked \in Role /\ Asked = order[at]
  BY <1>1, <1>2 DEF Asked, PipelineTyped
<1>4. results[Asked] = NoResult
  BY <1>1, <1>2, <1>3 DEF PipelineInv, DoneSoFar, Quiet, PipelineTyped
<1>5. heard[Asked] = "nothing" /\ billed[Asked] = spent /\ spent <= tries * Cap
  BY <1>1, <1>3, <1>4 DEF PipelineInv, Books
<1> QED BY <1>1, <1>2, <1>3, <1>4, <1>5 DEF PipelineTyped

LEMMA Charged ==
    ASSUME PipelineInv, Query, NEW cost \in 0..Cap, Charge(cost)
    PROVE  /\ billed' \in [Role -> Nat]
           /\ billed'[Asked] = spent + cost /\ spent + cost \in Nat
           /\ spent + cost <= (tries + 1) * Cap
           /\ \A r \in Role : r # Asked => billed'[r] = billed[r]
           /\ SpendBounded'
<1>1. cost \in Nat /\ billed \in [Role -> Nat]
  BY PipelineAssumption DEF PipelineInv, PipelineTyped
<1>2. billed' = [billed EXCEPT ![Asked] = billed[Asked] + cost]
  BY DEF Charge
<1>3. Asked \in Role /\ billed[Asked] = spent /\ spent \in Nat /\ spent <= tries * Cap /\ tries \in 0..MaxRetries
  BY InQuery
<1>4. spent + cost <= (tries + 1) * Cap /\ spent + cost <= (MaxRetries + 1) * Cap
  BY <1>3, AttemptsCost
<1>5. billed'[Asked] = spent + cost /\ \A r \in Role : r # Asked => billed'[r] = billed[r]
  BY <1>1, <1>2, <1>3
<1>6. \A r \in Role : billed'[r] <= (MaxRetries + 1) * Cap
  BY <1>3, <1>4, <1>5 DEF PipelineInv, SpendBounded
<1>7. billed' \in [Role -> Nat]
  BY <1>1, <1>2, <1>3
<1> QED BY <1>1, <1>3, <1>4, <1>5, <1>6, <1>7 DEF SpendBounded

LEMMA Answered ==
    ASSUME PipelineInv, NEW status \in Status, NEW cost \in 0..Cap, Answer(status, cost)
    PROVE  PipelineInv'
<1> DEFINE new == [status |-> status, attempts |-> tries + 1, usage |-> spent + cost]
<1>1. PipelineInv /\ Query /\ Charge(cost) /\ Hear(status) /\ Complete(status, spent + cost)
  BY DEF Answer
<1>2. /\ stage = "asking" /\ at \in 1..Len(order) /\ Asked \in Role /\ Asked = order[at]
      /\ results[Asked] = NoResult /\ heard[Asked] = "nothing" /\ tries \in Nat /\ spent \in Nat
      /\ listed' = listed /\ dependsOn' = dependsOn /\ order' = order
  BY <1>1, InQuery, PipelineAssumption
<1>3. /\ billed' \in [Role -> Nat] /\ billed'[Asked] = spent + cost /\ spent + cost \in Nat
      /\ \A r \in Role : r # Asked => billed'[r] = billed[r]
      /\ SpendBounded'
  BY <1>1, Charged
<1>4. /\ results' = [results EXCEPT ![Asked] = new] /\ tries' = 0 /\ spent' = 0 /\ at' = at + 1
      /\ \/ at < Len(order) /\ stage' = stage /\ reported' = reported
         \/ at = Len(order) /\ stage' = "returned" /\ reported' = SumFunction(Usage')
  BY <1>1 DEF Complete
<1>5. PipelineTyped /\ new \in Result /\ new # NoResult /\ Len(order) \in Nat
  BY <1>1, <1>2, <1>3 DEF PipelineInv, PipelineTyped, Result, Status, NoResult
<1>6. results'[Asked] = new /\ (\A r \in Role : r # Asked => results'[r] = results[r]) /\ results' \in [Role -> Result]
  BY <1>2, <1>4, <1>5 DEF PipelineTyped
<1>7. heard'[Asked] = status /\ (\A r \in Role : r # Asked => heard'[r] = heard[r])
      /\ heard' \in [Role -> Status \cup {"nothing"}]
  <2>1. heard' = [heard EXCEPT ![Asked] = status]
    BY <1>1, <1>2 DEF Hear
  <2> QED BY <1>2, <1>5, <2>1 DEF PipelineTyped
<1>8. stage' \in {"asking", "returned"}
  BY <1>2, <1>4
<1>9. PipelineTyped'
  <2>1. at' \in Nat \ {0} /\ tries' \in 0..MaxRetries /\ spent' \in Nat /\ stage' \in {"ordering", "asking"} \cup Ended
    <3>1. at' \in Nat \ {0} /\ tries' \in 0..MaxRetries /\ spent' \in Nat
      BY <1>2, <1>4, PipelineAssumption
    <3>2. stage' \in {"ordering", "asking"} \cup Ended
      BY <1>8 DEF Ended
    <3> QED BY <3>1, <3>2
  <2> QED BY <1>2, <1>3, <1>5, <1>6, <1>7, <2>1 DEF PipelineTyped
<1>10. Arranged' /\ NothingYet'
  <2>1. stage' \notin Quiet
    BY <1>8 DEF Quiet
  <2>2. Arranged'
    BY <1>1, <1>2, StaysArranged DEF PipelineInv
  <2> QED BY <2>1, <2>2 DEF NothingYet
<1>11. /\ \A i, j \in 1..Len(order) : order[i] = order[j] => i = j
       /\ \A i \in 1..Len(order) : order[i] \in Role /\ (results[order[i]] # NoResult <=> i < at)
       /\ \A r \in Role : results[r] # NoResult => \E i \in 1..Len(order) : order[i] = r
  BY <1>1, <1>2, <1>5 DEF PipelineInv, Arranged, DoneSoFar, Quiet, PipelineTyped
<1>12. DoneSoFar'
  <2>1. stage' \in Open => at' <= Len(order)
    <3>1. stage' \in Open => at < Len(order)
      BY <1>2, <1>4 DEF Open
    <3> QED BY <1>2, <1>4, <1>5, <3>1
  <2>2. ASSUME NEW i \in 1..Len(order) PROVE results'[order[i]] # NoResult <=> i < at + 1
    <3>1. CASE i = at
      BY <1>2, <1>5, <1>6, <3>1
    <3>2. CASE i # at
      BY <1>2, <1>5, <1>6, <1>11, <3>2
    <3> QED BY <3>1, <3>2
  <2>3. \A r \in Role : results'[r] # NoResult => \E i \in 1..Len(order) : order[i] = r
    BY <1>2, <1>6, <1>11
  <2> QED BY <1>2, <1>4, <2>1, <2>2, <2>3 DEF DoneSoFar
<1>13. Books'
  <2>1. \A r \in Role : results'[r] # NoResult => results'[r].usage = billed'[r] /\ results'[r].status = heard'[r]
    <3>1. results'[Asked].usage = billed'[Asked] /\ results'[Asked].status = heard'[Asked]
      BY <1>3, <1>6, <1>7
    <3>2. ASSUME NEW r \in Role, r # Asked, results'[r] # NoResult
          PROVE  results'[r].usage = billed'[r] /\ results'[r].status = heard'[r]
      BY <1>1, <1>3, <1>6, <1>7, <3>2 DEF PipelineInv, Books
    <3> QED BY <3>1, <3>2
  <2>2. \A r \in Role : results'[r] = NoResult => heard'[r] = "nothing"
    BY <1>1, <1>5, <1>6, <1>7 DEF PipelineInv, Books
  <2>3. \A r \in Role : results'[r] = NoResult => billed'[r] = 0
    BY <1>1, <1>2, <1>3, <1>5, <1>6 DEF PipelineInv, Books, Open
  <2>4. stage' = "asking" => billed'[Asked'] = spent' /\ spent' <= tries' * Cap
    <3> SUFFICES ASSUME stage' = "asking" PROVE billed'[Asked'] = spent' /\ spent' <= tries' * Cap
      OBVIOUS
    <3>1. at + 1 \in 1..Len(order) /\ Asked' = order[at + 1] /\ order[at + 1] \in Role
      BY <1>2, <1>4, <1>5, <1>11 DEF Asked
    <3>2. results'[order[at + 1]] = NoResult
      BY <1>2, <1>6, <1>11, <3>1
    <3>3. 0 <= 0 * Cap
      BY PipelineAssumption
    <3> QED BY <1>4, <2>3, <3>1, <3>2, <3>3
  <2>5. stage' = "returned" => reported' = SumFunction(Usage')
    BY <1>2, <1>4
  <2> QED BY <1>8, <2>1, <2>2, <2>3, <2>4, <2>5 DEF Books
<1> QED BY <1>3, <1>9, <1>10, <1>12, <1>13 DEF PipelineInv

LEMMA NotAnswered ==
    ASSUME PipelineInv, NEW cost \in 0..Cap, Malformed(cost) \/ QueryFails(cost)
    PROVE  PipelineInv'
<1>1. /\ PipelineInv /\ Query /\ Charge(cost) /\ heard' = heard /\ results' = results /\ at' = at
      /\ \/ tries < MaxRetries /\ tries' = tries + 1 /\ spent' = spent + cost /\ stage' = stage /\ reported' = reported
         \/ stage' = "call error" /\ spent' = spent + cost /\ reported' = spent + cost /\ tries' = tries
         \/ stage' = "invocation error" /\ tries' = tries /\ spent' = spent
  BY DEF Malformed, QueryFails, AskAgain
<1>2. /\ stage = "asking" /\ at \in 1..Len(order) /\ Asked \in Role /\ Asked = order[at]
      /\ results[Asked] = NoResult /\ tries \in 0..MaxRetries /\ spent \in Nat
      /\ listed' = listed /\ dependsOn' = dependsOn /\ order' = order
  BY <1>1, InQuery
<1>3. /\ billed' \in [Role -> Nat] /\ billed'[Asked] = spent + cost /\ spent + cost \in Nat
      /\ spent + cost <= (tries + 1) * Cap
      /\ \A r \in Role : r # Asked => billed'[r] = billed[r]
      /\ SpendBounded'
  BY <1>1, Charged
<1>4. stage' \in Open /\ Asked' = Asked
  BY <1>1, <1>2 DEF Open, Asked
<1>5. PipelineTyped'
  <2>1. tries' \in 0..MaxRetries /\ spent' \in Nat /\ stage' \in {"ordering", "asking"} \cup Ended
    <3>1. tries' \in 0..MaxRetries
      <4>1. tries' = tries \/ (tries < MaxRetries /\ tries' = tries + 1)
        BY <1>1
      <4> QED BY <1>2, <4>1, PipelineAssumption
    <3>3. spent' \in Nat
      <4>1. spent' = spent \/ spent' = spent + cost
        BY <1>1
      <4> QED BY <1>2, <1>3, <4>1
    <3>2. stage' \in {"ordering", "asking"} \cup Ended
      BY <1>4 DEF Ended, Open
    <3> QED BY <3>1, <3>2, <3>3
  <2> QED BY <1>1, <1>2, <1>3, <2>1 DEF PipelineInv, PipelineTyped
<1>6. Arranged' /\ NothingYet'
  <2>1. stage' \notin Quiet
    BY <1>4 DEF Quiet, Open
  <2>2. Arranged'
    BY <1>1, <1>2, StaysArranged DEF PipelineInv
  <2> QED BY <2>1, <2>2 DEF NothingYet
<1>7. DoneSoFar'
  BY <1>1, <1>2, <1>4 DEF PipelineInv, DoneSoFar, Quiet, Open
<1>8. Books'
  <2>1. \A r \in Role : results'[r] # NoResult => results'[r].usage = billed'[r] /\ results'[r].status = heard'[r]
    BY <1>1, <1>2, <1>3 DEF PipelineInv, Books
  <2>2. \A r \in Role : results'[r] = NoResult => heard'[r] = "nothing"
    BY <1>1 DEF PipelineInv, Books
  <2>3. \A r \in Role : results'[r] = NoResult /\ r # Asked => billed'[r] = 0
    BY <1>1, <1>2, <1>3 DEF PipelineInv, Books, Open
  <2>4. stage' = "asking" => billed'[Asked'] = spent' /\ spent' <= tries' * Cap
    BY <1>1, <1>2, <1>3, <1>4
  <2>5. stage' = "call error" => reported' = billed'[Asked']
    BY <1>1, <1>2, <1>3, <1>4
  <2>6. stage' # "returned"
    BY <1>4 DEF Open
  <2> QED BY <1>4, <2>1, <2>2, <2>3, <2>4, <2>5, <2>6 DEF Books
<1> QED BY <1>3, <1>5, <1>6, <1>7, <1>8 DEF PipelineInv

LEMMA PipelineKept == PipelineInv /\ [PipelineStep \/ PipelineEnded]_pipelineVars => PipelineInv'
<1> SUFFICES ASSUME PipelineInv, [PipelineStep \/ PipelineEnded]_pipelineVars PROVE PipelineInv'
  OBVIOUS
<1>1. CASE UNCHANGED pipelineVars
  <2>1. /\ listed' = listed /\ dependsOn' = dependsOn /\ order' = order /\ at' = at /\ stage' = stage
        /\ results' = results /\ tries' = tries /\ spent' = spent /\ reported' = reported /\ billed' = billed
        /\ heard' = heard
    BY <1>1 DEF pipelineVars, arranging, accounts
  <2>2. PipelineTyped' /\ Arranged' /\ NothingYet' /\ SpendBounded'
    BY <2>1 DEF PipelineInv, PipelineTyped, Arranged, NothingYet, SpendBounded, Quiet
  <2>3. DoneSoFar'
    BY <2>1 DEF PipelineInv, DoneSoFar, Quiet, Open
  <2>4. Asked' = Asked /\ Usage' = Usage
    BY <2>1 DEF Asked, Usage
  <2>5. Books'
    BY <2>1, <2>4 DEF PipelineInv, Books, Open
  <2> QED BY <2>2, <2>3, <2>5 DEF PipelineInv
<1>2. CASE PipelineStep
  <2>1. CASE Consider \/ EndTurn
    BY <2>1, Arranging
  <2>2. ASSUME NEW cost \in 0..Cap, NEW status \in Status, Answer(status, cost) PROVE PipelineInv'
    BY <2>2, Answered
  <2>3. ASSUME NEW cost \in 0..Cap, Malformed(cost) \/ QueryFails(cost) PROVE PipelineInv'
    BY <2>3, NotAnswered
  <2> QED BY <1>2, <2>1, <2>2, <2>3 DEF PipelineStep
<1> QED BY <1>1, <1>2 DEF PipelineEnded

-----------------------------------------------------------------------------
LEMMA PipelineInvariant == PipelineSpec => []PipelineInv
BY PipelineStart, PipelineKept, PTL DEF PipelineSpec

(* run_pipeline: a role is asked only when every role it depends on has a   *)
(* result to put into its context.                                          *)
THEOREM ContextIsThere == PipelineSpec => []DependenciesFirst
<1>1. PipelineInv => DependenciesFirst
  <2> SUFFICES ASSUME PipelineInv PROVE DependenciesFirst
    OBVIOUS
  <2>0. PipelineTyped
    BY DEF PipelineInv
  <2>1. ASSUME NEW i \in 1..Len(order), stage \notin Quiet, i <= at, NEW d \in dependsOn[order[i]]
        PROVE  results[d] # NoResult
    <3>1. PICK j \in 1..Len(order) : j < i /\ order[j] = d
      BY <2>1 DEF PipelineInv, Arranged
    <3>2. j < at
      BY <2>0, <2>1, <3>1 DEF PipelineTyped
    <3> QED BY <2>1, <3>1, <3>2 DEF PipelineInv, DoneSoFar
  <2>2. ASSUME stage = "asking" PROVE \A d \in dependsOn[Asked] : results[d] # NoResult
    <3>1. at \in 1..Len(order) /\ stage \notin Quiet /\ Asked = order[at]
      BY <2>0, <2>2 DEF PipelineInv, DoneSoFar, Quiet, Open, PipelineTyped, Asked
    <3> QED BY <2>0, <2>1, <3>1 DEF PipelineTyped
  <2>3. ASSUME NEW r \in Role, results[r] # NoResult, NEW d \in dependsOn[r] PROVE results[d] # NoResult
    <3>1. stage \notin Quiet
      BY <2>3 DEF PipelineInv, NothingYet
    <3>2. PICK i \in 1..Len(order) : order[i] = r
      BY <2>3, <3>1 DEF PipelineInv, DoneSoFar
    <3>3. i <= at
      BY <2>0, <2>3, <3>1, <3>2 DEF PipelineInv, DoneSoFar, PipelineTyped
    <3> QED BY <2>1, <2>3, <3>1, <3>2, <3>3
  <2> QED BY <2>2, <2>3 DEF DependenciesFirst
<1> QED BY <1>1, PipelineInvariant, PTL

(* call_agent: whatever is retried, a role costs at most MaxRetries + 1     *)
(* times what one query may cost.                                           *)
THEOREM NoRunawaySpending == PipelineSpec => []SpendBounded
<1>1. PipelineInv => SpendBounded
  BY DEF PipelineInv
<1> QED BY <1>1, PipelineInvariant, PTL

(* Every attempt is in the usage that is reported, wasted ones included.    *)
THEOREM BooksBalance == PipelineSpec => []EveryAttemptCounted
<1>1. PipelineInv => EveryAttemptCounted
  <2> SUFFICES ASSUME PipelineInv PROVE EveryAttemptCounted
    OBVIOUS
  <2>1. ASSUME stage = "returned" PROVE Usage = billed
    <3>1. stage \notin Open /\ billed \in [Role -> Nat]
      BY <2>1 DEF Open, PipelineInv, PipelineTyped
    <3>2. \A r \in Role : results[r].usage = billed[r]
      <4> TAKE r \in Role
      <4>1. CASE results[r] = NoResult
        <5>1. billed[r] = 0
          BY <3>1, <4>1 DEF PipelineInv, Books
        <5>2. NoResult.usage = 0
          BY DEF NoResult
        <5> QED BY <4>1, <5>1, <5>2
      <4>2. CASE results[r] # NoResult
        BY <4>2 DEF PipelineInv, Books
      <4> QED BY <4>1, <4>2
    <3> QED BY <3>1, <3>2 DEF Usage
  <2>2. stage = "returned" => reported = SumFunction(billed)
    BY <2>1 DEF PipelineInv, Books
  <2> QED BY <2>2 DEF PipelineInv, Books, EveryAttemptCounted
<1> QED BY <1>1, PipelineInvariant, PTL

(* The first answer of a role is its result, and "fail" is never asked away. *)
THEOREM NoSecondOpinion == PipelineSpec => []FirstAnswerStands
<1>1. PipelineInv => FirstAnswerStands
  <2> SUFFICES ASSUME PipelineInv PROVE FirstAnswerStands
    OBVIOUS
  <2>1. \A r \in Role : heard[r] # "nothing" => results[r].status = heard[r]
    BY DEF PipelineInv, Books
  <2>2. \A r \in Role : results[r].status = "pass" <=> heard[r] = "pass"
    <3> TAKE r \in Role
    <3>1. CASE results[r] = NoResult
      <4>1. heard[r] = "nothing"
        BY <3>1 DEF PipelineInv, Books
      <4>2. NoResult.status = "none"
        BY DEF NoResult
      <4> QED BY <3>1, <4>1, <4>2
    <3>2. CASE results[r] # NoResult
      BY <3>2 DEF PipelineInv, Books
    <3> QED BY <3>1, <3>2
  <2>3. \A r \in ToSet(listed) : r \in Role
    BY PipelineAssumption DEF PipelineInv, PipelineTyped, ToSet
  <2> QED BY <2>1, <2>2, <2>3 DEF FirstAnswerStands, OverallStatus
<1> QED BY <1>1, PipelineInvariant, PTL

-----------------------------------------------------------------------------
(* _ordered_roles.  What the turn has passed over waits for a role that is   *)
(* not in order; when nothing was added in a turn, everything left does.     *)
Waits(r) == ~ (dependsOn[r] \subseteq ToSet(order))

Scanned ==
    /\ ToSet(order) \subseteq ToSet(listed)
    /\ stage = "ordering" /\ ~ progressed =>
          \A i \in 1..Len(listed) : i < at => listed[i] \in ToSet(order) \/ Waits(listed[i])
    /\ stage = "unresolvable" =>
          /\ Len(order) # Len(listed)
          /\ \A r \in ToSet(listed) \ ToSet(order) : Waits(r)
    /\ stage \notin Quiet => Len(order) = Len(listed)

ScanInv == Scanned /\ progressed \in BOOLEAN /\ reported \in Nat

LEMMA ScanStart == PipelineInit => ScanInv
<1> SUFFICES ASSUME PipelineInit PROVE ScanInv
  OBVIOUS
<1>1. order = <<>> /\ at = 1 /\ stage = "ordering" /\ progressed = FALSE /\ reported = 0
  BY DEF PipelineInit
<1>2. ToSet(order) = {}
  BY <1>1 DEF ToSet
<1>3. \A i \in 1..Len(listed) : ~ (i < 1)
  OBVIOUS
<1> QED BY <1>1, <1>2, <1>3 DEF ScanInv, Scanned, Quiet

LEMMA ScanKept ==
    ASSUME PipelineInv, ScanInv, [PipelineStep \/ PipelineEnded]_pipelineVars
    PROVE  ScanInv'
<1>0. PipelineTyped /\ order \in Seq(Role) /\ listed \in Seq(Role) /\ at \in Nat
  BY PipelineAssumption DEF PipelineInv, PipelineTyped
<1>1. CASE Consider
  <2> DEFINE r == listed[at]
  <2>1. /\ stage = "ordering" /\ stage' = stage /\ at' = at + 1 /\ at \in 1..Len(listed)
        /\ listed' = listed /\ dependsOn' = dependsOn /\ reported' = reported
    BY <1>0, <1>1 DEF Consider, accounts, PipelineTyped
  <2>2. r \in ToSet(listed) /\ r \in Role
    BY <1>0, <2>1 DEF ToSet
  <2>3. CASE r \notin ToSet(order) /\ dependsOn[r] \subseteq ToSet(order)
    <3>1. order' = Append(order, r) /\ progressed' = TRUE
      BY <1>1, <2>3 DEF Consider
    <3>2. ToSet(order') = ToSet(order) \cup {r}
      <4>1. /\ order' \in Seq(Role) /\ Len(order') = Len(order) + 1 /\ order'[Len(order) + 1] = r
            /\ \A i \in 1..Len(order) : order'[i] = order[i]
        BY <1>0, <2>2, <3>1
      <4>2. Len(order) \in Nat /\ DOMAIN order = 1..Len(order) /\ DOMAIN order' = 1..Len(order) + 1
        BY <1>0, <4>1
      <4>3. 1..Len(order) + 1 = 1..Len(order) \cup {Len(order) + 1}
        BY <4>2
      <4> QED BY <4>1, <4>2, <4>3 DEF ToSet
    <3> QED BY <2>1, <2>2, <3>1, <3>2 DEF ScanInv, Scanned, Quiet
  <2>4. CASE ~ (r \notin ToSet(order) /\ dependsOn[r] \subseteq ToSet(order))
    <3>1. order' = order /\ progressed' = progressed
      BY <1>1, <2>4 DEF Consider
    <3>2. r \in ToSet(order) \/ Waits(r)
      BY <2>4 DEF Waits
    <3>3. \A s : Waits(s)' <=> Waits(s)
      BY <2>1, <3>1 DEF Waits
    <3>4. ~ progressed => \A i \in 1..Len(listed) : i < at + 1 => listed[i] \in ToSet(order) \/ Waits(listed[i])
      BY <1>0, <2>1, <3>2 DEF ScanInv, Scanned
    <3> QED BY <2>1, <3>1, <3>3, <3>4 DEF ScanInv, Scanned, Quiet
  <2> QED BY <2>3, <2>4
<1>2. CASE EndTurn
  <2>1. /\ stage = "ordering" /\ at > Len(listed) /\ at' = 1 /\ progressed' = FALSE /\ order' = order
        /\ listed' = listed /\ dependsOn' = dependsOn /\ reported' = reported
    BY <1>2 DEF EndTurn, accounts
  <2>2. \A s : Waits(s)' <=> Waits(s)
    BY <2>1 DEF Waits
  <2>3. \/ Len(order) = Len(listed) /\ stage' = "asking"
        \/ stage' = "ordering"
        \/ Len(order) # Len(listed) /\ ~ progressed /\ stage' = "unresolvable"
    BY <1>2 DEF EndTurn
  <2>4. ASSUME ~ progressed, NEW r \in ToSet(listed) \ ToSet(order) PROVE Waits(r)
    <3>1. PICK i \in 1..Len(listed) : listed[i] = r
      BY <1>0 DEF ToSet
    <3>2. i < at
      BY <1>0, <2>1, <3>1
    <3> QED BY <2>1, <2>4, <3>1, <3>2 DEF ScanInv, Scanned
  <2>5. ToSet(order') \subseteq ToSet(listed') /\ progressed' \in BOOLEAN /\ reported' \in Nat
    BY <2>1 DEF ScanInv, Scanned
  <2>6. \A i \in 1..Len(listed) : ~ (i < 1)
    OBVIOUS
  <2> QED BY <2>1, <2>2, <2>3, <2>4, <2>5, <2>6 DEF ScanInv, Scanned, Quiet
<1>3. ASSUME NEW cost \in 0..Cap, (\E status \in Status : Answer(status, cost)) \/ Malformed(cost) \/ QueryFails(cost)
      PROVE  ScanInv'
  <2>1. Query /\ PipelineInv'
    BY <1>3, Answered, NotAnswered DEF Answer, Malformed, QueryFails
  <2>2. stage = "asking" /\ order' = order /\ listed' = listed /\ progressed' = progressed
    BY <2>1 DEF Query, arranging
  <2>3. stage' \notin Quiet
    BY <1>3, <2>2 DEF Answer, Complete, Malformed, AskAgain, QueryFails, Quiet
  <2>4. reported' \in Nat
    <3>1. CASE \E status \in Status : Answer(status, cost)
      <4>1. PICK status \in Status : Answer(status, cost)
        BY <3>1
      <4>2. reported' = reported \/ reported' = SumFunction(Usage')
        BY <4>1 DEF Answer, Complete
      <4>3. Usage' \in [Role -> Nat]
        BY <2>1 DEF Usage, PipelineInv, PipelineTyped, Result, NoResult
      <4>4. SumFunction(Usage') \in Nat
        BY <4>3, PipelineAssumption, SumIsNat
      <4> QED BY <4>2, <4>4 DEF ScanInv
    <3>2. CASE Malformed(cost) \/ QueryFails(cost)
      <4>1. spent' \in Nat /\ (reported' = reported \/ reported' = spent')
        BY <2>1, <3>2 DEF Malformed, AskAgain, QueryFails, PipelineInv, PipelineTyped
      <4> QED BY <4>1 DEF ScanInv
    <3> QED BY <1>3, <3>1, <3>2
  <2> QED BY <2>2, <2>3, <2>4 DEF ScanInv, Scanned, Quiet
<1>4. CASE UNCHANGED pipelineVars
  <2>1. /\ listed' = listed /\ dependsOn' = dependsOn /\ order' = order /\ at' = at /\ stage' = stage
        /\ progressed' = progressed /\ reported' = reported
    BY <1>4 DEF pipelineVars, arranging, accounts
  <2>2. \A s : Waits(s)' <=> Waits(s)
    BY <2>1 DEF Waits
  <2> QED BY <2>1, <2>2 DEF ScanInv, Scanned, Quiet
<1> QED BY <1>1, <1>2, <1>3, <1>4 DEF PipelineStep, PipelineEnded

LEMMA ScanInvariant == PipelineSpec => [](PipelineInv /\ ScanInv)
<1>1. PipelineInit => PipelineInv /\ ScanInv
  BY PipelineStart, ScanStart
<1>2. PipelineInv /\ ScanInv /\ [PipelineStep \/ PipelineEnded]_pipelineVars => (PipelineInv /\ ScanInv)'
  BY PipelineKept, ScanKept
<1> QED BY <1>1, <1>2, PTL DEF PipelineSpec

(* run_pipeline: what its books and its order are, the reported sum included. *)
THEOREM PipelineTypes == PipelineSpec => []PipelineTypeOK
<1>1. PipelineInv /\ ScanInv => PipelineTypeOK
  BY DEF PipelineInv, PipelineTyped, ScanInv, PipelineTypeOK
<1> QED BY <1>1, ScanInvariant, PTL

(* Two lists without repetitions, one within the other, are of one length    *)
(* exactly if they have the same elements.                                  *)
LEMMA SameLength ==
    ASSUME NEW s \in Seq(Role), NEW t \in Seq(Role), ToSet(s) \subseteq ToSet(t),
           \A i, j \in 1..Len(s) : s[i] = s[j] => i = j,
           \A i, j \in 1..Len(t) : t[i] = t[j] => i = j
    PROVE  Len(s) = Len(t) <=> ToSet(s) = ToSet(t)
<1>1. ASSUME NEW u \in Seq(Role), \A i, j \in 1..Len(u) : u[i] = u[j] => i = j
      PROVE  IsFiniteSet(ToSet(u)) /\ Cardinality(ToSet(u)) = Len(u)
  <2>1. Len(u) \in Nat /\ ToSet(u) = {u[i] : i \in 1..Len(u)}
    BY DEF ToSet
  <2>2. u \in Bijection(1..Len(u), ToSet(u))
    BY <1>1, <2>1 DEF Bijection, Injection, Surjection, IsInjective
  <2>3. ExistsBijection(1..Len(u), ToSet(u))
    BY <2>2 DEF ExistsBijection
  <2>4. Cardinality(ToSet(u)) = Len(u)
    BY <2>1, <2>3, FS_CountingElements
  <2>5. IsFiniteSet(ToSet(u))
    BY <2>1, <2>3, FS_NatBijection
  <2> QED BY <2>4, <2>5
<1>2. IsFiniteSet(ToSet(s)) /\ Cardinality(ToSet(s)) = Len(s) /\ IsFiniteSet(ToSet(t)) /\ Cardinality(ToSet(t)) = Len(t)
  BY <1>1
<1>3. Cardinality(ToSet(s)) = Cardinality(ToSet(t)) => ToSet(s) = ToSet(t)
  BY <1>2, FS_Subset
<1> QED BY <1>2, <1>3

(* _ordered_roles: a list of roles is refused exactly if some of them wait    *)
(* for each other, or for a role that is not listed.                         *)
THEOREM RefusedForACause == PipelineSpec => []RefusedIfUnresolvable
<1>1. PipelineInv /\ ScanInv => RefusedIfUnresolvable
  <2> SUFFICES ASSUME PipelineInv, ScanInv, stage # "ordering"
               PROVE  stage = "unresolvable" <=>
                          \E waiting \in SUBSET ToSet(listed) :
                              /\ waiting # {}
                              /\ \A r \in waiting :
                                    dependsOn[r] \cap (waiting \cup (Role \ ToSet(listed))) # {}
    BY DEF RefusedIfUnresolvable
  <2>1. /\ listed \in Seq(Role) /\ order \in Seq(Role) /\ dependsOn \in [Role -> SUBSET Role]
        /\ ToSet(order) \subseteq ToSet(listed) /\ ToSet(listed) \subseteq Role
        /\ \A i, j \in 1..Len(order) : order[i] = order[j] => i = j
        /\ \A i, j \in 1..Len(listed) : listed[i] = listed[j] => i = j
    <3>1. listed \in Seq(Role) /\ IsInjective(listed) /\ order \in Seq(Role) /\ dependsOn \in [Role -> SUBSET Role]
      BY PipelineAssumption DEF PipelineInv, PipelineTyped
    <3>2. DOMAIN listed = 1..Len(listed) /\ ToSet(listed) \subseteq Role
      BY <3>1 DEF ToSet
    <3>3. \A i, j \in 1..Len(listed) : listed[i] = listed[j] => i = j
      BY <3>1, <3>2 DEF IsInjective
    <3> QED BY <3>1, <3>2, <3>3 DEF PipelineInv, Arranged, ScanInv, Scanned
  <2>2. Len(order) = Len(listed) <=> ToSet(order) = ToSet(listed)
    BY <2>1, SameLength
  <2>3. ASSUME stage = "unresolvable"
        PROVE  \E waiting \in SUBSET ToSet(listed) :
                   /\ waiting # {}
                   /\ \A r \in waiting : dependsOn[r] \cap (waiting \cup (Role \ ToSet(listed))) # {}
    <3> DEFINE waiting == ToSet(listed) \ ToSet(order)
    <3>1. waiting # {}
      BY <2>1, <2>2, <2>3 DEF ScanInv, Scanned
    <3>2. ASSUME NEW r \in waiting PROVE dependsOn[r] \cap (waiting \cup (Role \ ToSet(listed))) # {}
      <4>1. Waits(r) /\ r \in Role
        BY <2>1, <2>3, <3>2 DEF ScanInv, Scanned
      <4>2. PICK d \in dependsOn[r] : d \notin ToSet(order)
        BY <4>1 DEF Waits
      <4> QED BY <2>1, <4>1, <4>2
    <3> QED BY <3>1, <3>2
  <2>4. ASSUME stage # "unresolvable", NEW waiting \in SUBSET ToSet(listed), waiting # {},
               \A r \in waiting : dependsOn[r] \cap (waiting \cup (Role \ ToSet(listed))) # {}
        PROVE  FALSE
    <3>1. ToSet(order) = ToSet(listed)
      BY <2>2, <2>4 DEF ScanInv, Scanned, Quiet
    <3> DEFINE T == {i \in 1..Len(order) : order[i] \in waiting}
    <3>2. T \in SUBSET Nat /\ T # {}
      <4>1. PICK r : r \in waiting
        BY <2>4
      <4>2. PICK i \in 1..Len(order) : order[i] = r
        <5>1. r \in ToSet(order) /\ DOMAIN order = 1..Len(order)
          BY <2>1, <3>1, <4>1
        <5> QED BY <5>1 DEF ToSet
      <4> QED BY <4>1, <4>2
    <3>3. PICK m \in T : \A k \in T : m <= k
      <4> HIDE DEF T
      <4> QED BY <3>2, LeastNat
    <3>4. m \in 1..Len(order) /\ order[m] \in waiting
      BY <3>3
    <3>5. PICK d \in dependsOn[order[m]] : d \in waiting \cup (Role \ ToSet(listed))
      BY <2>4, <3>4
    <3>6. PICK j \in 1..Len(order) : j < m /\ order[j] = d
      BY <3>4, <3>5 DEF PipelineInv, Arranged
    <3>7. d \in waiting
      <4>1. d \in ToSet(order)
        BY <2>1, <3>6 DEF ToSet
      <4> QED BY <3>1, <3>5, <4>1
    <3>8. j \in T
      BY <3>6, <3>7
    <3> QED BY <3>2, <3>3, <3>6, <3>8
  <2> QED BY <2>3, <2>4
<1> QED BY <1>1, ScanInvariant, PTL


-----------------------------------------------------------------------------
(* semantic_compare, for any reports, budgets and sizes of calls.  Nothing   *)
(* behind `reading` has been asked, and everything that was charged counts.  *)
Counted ==
    /\ tokens + wasted = charged
    /\ calls = 0 => tokens = 0
    /\ ~ over => row = NoRow /\ ~ rowLost
    /\ over => IF rowLost THEN row = NoRow ELSE row.tokens = tokens

AskedInOrder ==
    /\ \A i \in DOMAIN report : i >= reading => verdicts[i] = 0
    /\ exceeded => over /\ reading \in DOMAIN report /\ Ambiguous(reading)
    /\ over /\ ~ exceeded => reading = Len(report) + 1

WithinBudget == budget # NoBudget => tokens < budget + MaxCall \/ tokens = 0

SemanticInv == SemanticTypeOK /\ Counted /\ AskedInOrder /\ WithinBudget

LEMMA SemanticStart == SemanticInit => SemanticInv
<1> SUFFICES ASSUME SemanticInit PROVE SemanticInv
  OBVIOUS
<1>1. Len(report) \in Nat
  BY SemanticAssumption DEF SemanticInit
<1>2. SemanticTypeOK
  <2>1. verdicts \in [DOMAIN report -> Nat]
    BY DEF SemanticInit
  <2>2. reading = 1 /\ 1 \in 1..(Len(report) + 1)
    BY <1>1 DEF SemanticInit
  <2> QED BY <2>1, <2>2 DEF SemanticInit, SemanticTypeOK, NoRow
<1>3. Counted
  BY DEF SemanticInit, Counted
<1> QED BY <1>2, <1>3 DEF SemanticInit, SemanticInv, AskedInOrder, WithinBudget

LEMMA Reading ==
    ASSUME SemanticInv, AtItem
    PROVE  /\ report \in Seq(Item) /\ DOMAIN report = 1..Len(report) /\ Len(report) \in Nat
           /\ reading \in DOMAIN report /\ reading + 1 \in 1..(Len(report) + 1)
           /\ ~ over /\ ~ exceeded /\ report' = report /\ budget' = budget
<1>1. report \in Seq(Item) /\ reading \in 1..(Len(report) + 1)
  BY SemanticAssumption DEF SemanticInv, SemanticTypeOK
<1>2. reading <= Len(report) /\ ~ over /\ report' = report /\ budget' = budget
  BY DEF AtItem
<1>3. ~ exceeded
  BY <1>2 DEF SemanticInv, AskedInOrder
<1> QED BY <1>1, <1>2, <1>3

(* What the telemetry writer leaves behind, of the usage it is given.        *)
LEMMA RowWritten ==
    ASSUME SemanticInv, ~ over, WriteRow, tokens' = tokens, calls' = calls,
           charged' = charged, wasted' = wasted, over' = TRUE
    PROVE  /\ Counted'
           /\ row' \in [calls: Nat, tokens: Nat] /\ rowLost' \in BOOLEAN
<1>1. /\ tokens \in Nat /\ calls \in Nat /\ row = NoRow /\ rowLost = FALSE
      /\ calls = 0 => tokens = 0
      /\ tokens + wasted = charged
  BY DEF SemanticInv, SemanticTypeOK, Counted
<1>2. CASE row' = [calls |-> calls, tokens |-> IF calls = 0 THEN 0 ELSE tokens] /\ rowLost' = rowLost
  <2>1. row'.tokens = tokens /\ row' \in [calls: Nat, tokens: Nat] /\ rowLost' = FALSE
    BY <1>1, <1>2
  <2> QED BY <1>1, <2>1 DEF Counted
<1>3. CASE rowLost' = TRUE /\ row' = row
  BY <1>1, <1>3 DEF Counted, NoRow
<1> QED BY <1>2, <1>3 DEF WriteRow

LEMMA SemanticKept == SemanticInv /\ [SemanticStep \/ SemanticEnded]_semanticVars => SemanticInv'
<1> SUFFICES ASSUME SemanticInv, [SemanticStep \/ SemanticEnded]_semanticVars PROVE SemanticInv'
  OBVIOUS
<1> USE DEF SemanticInv
<1>1. ASSUME NEW used \in 0..MaxCall, SkipItem \/ AskInVain(used) PROVE SemanticInv'
  <2>0. used \in Nat
    BY SemanticAssumption
  <2>1. /\ AtItem /\ reading' = reading + 1 /\ tokens' = tokens /\ calls' = calls /\ exceeded' = exceeded
        /\ verdicts' = verdicts /\ row' = row /\ rowLost' = rowLost /\ over' = over
        /\ \/ charged' = charged /\ wasted' = wasted
           \/ charged' = charged + used /\ wasted' = wasted + used
    BY <1>1 DEF SkipItem, AskInVain
  <2>2. SemanticTypeOK'
    BY <2>0, <2>1, Reading DEF SemanticTypeOK
  <2>3. AskedInOrder'
    BY <2>1, Reading DEF AskedInOrder
  <2>4. Counted'
    <3>1. tokens \in Nat /\ charged \in Nat /\ wasted \in Nat
      BY DEF SemanticTypeOK
    <3> QED BY <2>0, <2>1, <3>1, Reading DEF Counted
  <2> QED BY <2>1, <2>2, <2>3, <2>4, Reading DEF WithinBudget
<1>2. CASE StopAtBudget
  <2>1. /\ AtItem /\ Ambiguous(reading) /\ reading' = reading /\ tokens' = tokens /\ calls' = calls
        /\ exceeded' = TRUE /\ verdicts' = verdicts /\ WriteRow /\ over' = TRUE
        /\ charged' = charged /\ wasted' = wasted
    BY <1>2 DEF StopAtBudget
  <2>2. Counted' /\ row' \in [calls: Nat, tokens: Nat] /\ rowLost' \in BOOLEAN
    BY <2>1, Reading, RowWritten
  <2>3. SemanticTypeOK'
    BY <2>1, <2>2, Reading DEF SemanticTypeOK
  <2>4. AskedInOrder'
    BY <2>1, Reading DEF AskedInOrder, Ambiguous
  <2> QED BY <2>1, <2>2, <2>3, <2>4, Reading DEF WithinBudget
<1>3. ASSUME NEW used \in 0..MaxCall, NEW answers \in 0..3, Ask(used, answers) PROVE SemanticInv'
  <2>1. /\ AtItem /\ Affordable /\ reading' = reading + 1 /\ tokens' = tokens + used /\ calls' = calls + 1
        /\ exceeded' = exceeded /\ row' = row /\ rowLost' = rowLost /\ over' = over
        /\ charged' = charged + used /\ wasted' = wasted
        /\ verdicts' = [verdicts EXCEPT ![reading] = IF answers < Pairs(reading) THEN answers ELSE Pairs(reading)]
    BY <1>3 DEF Ask
  <2>2. used \in Nat /\ used <= MaxCall /\ answers \in Nat /\ MaxCall \in Nat
    BY SemanticAssumption
  <2>3. Pairs(reading) \in Nat
    <3>1. report[reading] \in Item
      BY <2>1, Reading
    <3>2. report[reading].removed \in Nat /\ report[reading].added \in Nat
      BY <3>1 DEF Item
    <3> QED BY <3>2 DEF Pairs
  <2>4. /\ tokens \in Nat /\ charged \in Nat /\ wasted \in Nat /\ calls \in Nat
        /\ verdicts \in [DOMAIN report -> Nat]
    BY DEF SemanticTypeOK
  <2>5. verdicts' \in [DOMAIN report -> Nat] /\ \A i \in DOMAIN report : i # reading => verdicts'[i] = verdicts[i]
    BY <2>1, <2>2, <2>3, <2>4
  <2>6. SemanticTypeOK'
    BY <2>1, <2>2, <2>4, <2>5, Reading DEF SemanticTypeOK
  <2>7. AskedInOrder'
    <3>1. \A i \in DOMAIN report : i >= reading + 1 => verdicts'[i] = 0
      BY <2>1, <2>5, Reading DEF AskedInOrder
    <3> QED BY <2>1, <3>1, Reading DEF AskedInOrder
  <2>8. WithinBudget'
    <3>1. ASSUME budget # NoBudget PROVE tokens + used < budget + MaxCall
      <4>1. budget \in Nat /\ tokens < budget
        BY <2>1, <3>1, SemanticAssumption DEF SemanticTypeOK, Affordable
      <4> QED BY <2>2, <2>4, <4>1
    <3> QED BY <2>1, <3>1, Reading DEF WithinBudget
  <2>9. Counted'
    BY <2>1, <2>4, Reading DEF Counted
  <2> QED BY <2>6, <2>7, <2>8, <2>9
<1>4. CASE Finish
  <2>1. /\ ~ over /\ reading > Len(report) /\ report' = report /\ budget' = budget
        /\ reading' = reading /\ tokens' = tokens /\ calls' = calls
        /\ exceeded' = exceeded /\ verdicts' = verdicts /\ WriteRow /\ over' = TRUE
        /\ charged' = charged /\ wasted' = wasted
    BY <1>4 DEF Finish
  <2>2. reading = Len(report) + 1
    <3>1. reading \in 1..(Len(report) + 1) /\ Len(report) \in Nat
      BY SemanticAssumption DEF SemanticTypeOK
    <3> QED BY <2>1, <3>1
  <2>3. Counted' /\ row' \in [calls: Nat, tokens: Nat] /\ rowLost' \in BOOLEAN
    BY <2>1, RowWritten
  <2>4. SemanticTypeOK'
    BY <2>1, <2>3 DEF SemanticTypeOK
  <2> QED BY <2>1, <2>2, <2>3, <2>4 DEF AskedInOrder, WithinBudget
<1>5. CASE UNCHANGED semanticVars
  <2>1. /\ report' = report /\ budget' = budget
        /\ reading' = reading /\ tokens' = tokens /\ calls' = calls
        /\ exceeded' = exceeded /\ verdicts' = verdicts /\ row' = row /\ rowLost' = rowLost
        /\ over' = over /\ charged' = charged /\ wasted' = wasted
    BY <1>5 DEF semanticVars
  <2>2. SemanticTypeOK'
    BY <2>1 DEF SemanticTypeOK
  <2>3. AskedInOrder'
    BY <2>1 DEF AskedInOrder, Ambiguous
  <2> QED BY <2>1, <2>2, <2>3 DEF Counted, WithinBudget
<1>6. CASE SkipItem
  <2>1. 0 \in 0..MaxCall
    BY SemanticAssumption
  <2> QED BY <1>1, <1>6, <2>1
<1> QED BY <1>1, <1>2, <1>3, <1>4, <1>5, <1>6 DEF SemanticStep, SemanticEnded

LEMMA SemanticInvariant == SemanticSpec => []SemanticInv
BY SemanticStart, SemanticKept, PTL DEF SemanticSpec

(* The token budget is overshot by the last completed call only, and nothing  *)
(* is asked once completed calls have used it up.                           *)
THEOREM LastCallOvershoots == SemanticSpec => []OvershootOfOneCall
<1>1. SemanticInv => OvershootOfOneCall
  <2> SUFFICES ASSUME SemanticInv PROVE OvershootOfOneCall
    OBVIOUS
  <2>1. /\ tokens \in Nat /\ wasted \in Nat /\ charged = tokens + wasted /\ MaxCall \in Nat
        /\ budget # NoBudget => budget \in Nat
    BY SemanticAssumption DEF SemanticInv, SemanticTypeOK, Counted
  <2> QED BY <2>1 DEF SemanticInv, AskedInOrder, WithinBudget, OvershootOfOneCall
<1> QED BY <1>1, SemanticInvariant, PTL

(* budget_exceeded of a pass that is over: something was left unasked.       *)
THEOREM FlagIsExact == SemanticSpec => []FlagMeansUnasked
<1>1. SemanticInv => FlagMeansUnasked
  <2> SUFFICES ASSUME SemanticInv, over
               PROVE  exceeded <=> \E i \in DOMAIN report : i >= reading /\ Ambiguous(i)
    BY DEF FlagMeansUnasked
  <2>1. DOMAIN report = 1..Len(report) /\ Len(report) \in Nat /\ reading \in Nat
    BY SemanticAssumption DEF SemanticInv, SemanticTypeOK
  <2>2. CASE exceeded
    <3>1. reading \in DOMAIN report /\ Ambiguous(reading) /\ reading >= reading
      BY <2>1, <2>2 DEF SemanticInv, AskedInOrder
    <3> QED BY <2>2, <3>1
  <2>3. CASE ~ exceeded
    BY <2>1, <2>3 DEF SemanticInv, AskedInOrder
  <2> QED BY <2>2, <2>3
<1> QED BY <1>1, SemanticInvariant, PTL

(* The row of the telemetry log, unless it is lost as a whole, has every token *)
(* that was charged, but for those of requests that failed.                  *)
THEOREM TokensInRow == SemanticSpec => []RowHasAllTokens
<1>1. SemanticInv => RowHasAllTokens
  BY DEF SemanticInv, Counted, RowHasAllTokens
<1> QED BY <1>1, SemanticInvariant, PTL

-----------------------------------------------------------------------------
(* run_ai_draft_pipeline, for any budget and size of replies.               *)
Ledger ==
    /\ recorded \in Nat /\ recordedCalls \in Nat /\ chargedTokens \in Nat
    /\ recorded <= chargedTokens
    /\ recordedCalls = 0 => recorded = 0

PhaseOfDraft ==
    /\ phase \in {"draft", "review", "done"}
    /\ phase = "draft" => recorded = chargedTokens
    /\ phase # "done" => usageRow = 0 /\ ~ usageLost
    /\ phase = "done" => usageRow = IF usageLost THEN 0 ELSE recorded

ReviewedFirst ==
    /\ approved <=> verdict = "approve"
    /\ phase # "done" => verdict = "not asked"
    /\ phase = "review" \/ verdict # "not asked" => ~ OverBudget(atReview)

DraftInv == Ledger /\ PhaseOfDraft /\ ReviewedFirst

LEMMA Paid ==
    ASSUME DraftInv, NEW used \in Used,
           Record(used) \/ (chargedTokens' = chargedTokens + used /\ UNCHANGED <<recorded, recordedCalls>>)
    PROVE  Ledger'
<1>1. used \in Nat
  BY DraftAssumption DEF Used
<1>2. /\ recorded \in Nat /\ recordedCalls \in Nat /\ chargedTokens \in Nat
      /\ recorded <= chargedTokens /\ (recordedCalls = 0 => recorded = 0)
  BY DEF DraftInv, Ledger
<1>3. CASE recorded' = recorded + used /\ recordedCalls' = recordedCalls + 1 /\ chargedTokens' = chargedTokens + used
  BY <1>1, <1>2, <1>3 DEF Ledger
<1>4. CASE chargedTokens' = chargedTokens + used /\ recorded' = recorded /\ recordedCalls' = recordedCalls
  BY <1>1, <1>2, <1>4 DEF Ledger
<1> QED BY <1>3, <1>4 DEF Record

\* The pipeline returns with a row of what it has recorded.
LEMMA Closed ==
    ASSUME DraftInv, phase # "done", Ledger', Close
    PROVE  phase' = "done" /\ PhaseOfDraft'
BY DEF DraftInv, Ledger, Close, PhaseOfDraft

LEMMA DraftKept == DraftInv /\ [DraftStep \/ DraftEnded]_draftVars => DraftInv'
<1> SUFFICES ASSUME DraftInv, [DraftStep \/ DraftEnded]_draftVars PROVE DraftInv'
  OBVIOUS
<1>2. ASSUME NEW used \in Used, DraftFails(used) \/ DraftEmpty(used) PROVE DraftInv'
  <2>1. Ledger' /\ PhaseOfDraft' /\ phase' = "done"
    BY <1>2, Paid, Closed DEF DraftFails, DraftEmpty
  <2>2. approved' = approved /\ verdict' = verdict /\ verdict = "not asked"
    BY <1>2 DEF DraftFails, DraftEmpty, DraftInv, ReviewedFirst
  <2>3. ReviewedFirst'
    BY <2>1, <2>2 DEF DraftInv, ReviewedFirst
  <2> QED BY <2>1, <2>3 DEF DraftInv
<1>3. ASSUME NEW used \in Used, Draft(used) PROVE DraftInv'
  <2>1. Ledger'
    BY <1>3, Paid DEF Draft
  <2>2. approved' = approved /\ verdict' = verdict /\ verdict = "not asked" /\ allowance' = allowance
    BY <1>3 DEF Draft, DraftInv, ReviewedFirst
  <2>3. recorded' = chargedTokens'
    BY <1>3 DEF Draft, Record, DraftInv, PhaseOfDraft
  <2>4. CASE OverBudget(recorded')
    <3>1. PhaseOfDraft' /\ phase' = "done"
      BY <1>3, <2>1, <2>4, Closed DEF Draft
    <3>2. ReviewedFirst'
      BY <2>2, <3>1 DEF DraftInv, ReviewedFirst
    <3> QED BY <2>1, <3>1, <3>2 DEF DraftInv
  <2>5. CASE ~ OverBudget(recorded')
    <3>1. /\ phase' = "review" /\ atReview' = recorded'
          /\ usageRow' = usageRow /\ usageLost' = usageLost /\ phase = "draft"
      BY <1>3, <2>3, <2>5 DEF Draft
    <3>2. ~ OverBudget(atReview)'
      BY <2>2, <2>5, <3>1 DEF OverBudget
    <3>3. PhaseOfDraft' /\ ReviewedFirst'
      BY <2>2, <3>1, <3>2 DEF DraftInv, PhaseOfDraft, ReviewedFirst
    <3> QED BY <2>1, <3>3 DEF DraftInv
  <2> QED BY <2>4, <2>5
<1>4. ASSUME NEW used \in Used, NEW says \in {"approve", "reject", "unrecognized"}, Review(used, says) PROVE DraftInv'
  <2>1. Ledger' /\ PhaseOfDraft' /\ phase' = "done"
    BY <1>4, Paid, Closed DEF Review
  <2>2. /\ verdict' = says /\ (approved' <=> says = "approve") /\ ~ OverBudget(atReview)
        /\ allowance' = allowance /\ atReview' = atReview
    BY <1>4 DEF Review, DraftInv, ReviewedFirst
  <2>3. ~ OverBudget(atReview)'
    BY <2>2 DEF OverBudget
  <2> QED BY <2>1, <2>2, <2>3 DEF DraftInv, ReviewedFirst
<1>5. ASSUME NEW used \in Used, NEW counted \in BOOLEAN, ReviewFails(used, counted) PROVE DraftInv'
  <2>1. Ledger' /\ PhaseOfDraft' /\ phase' = "done"
    BY <1>5, Paid, Closed DEF ReviewFails
  <2>2. /\ verdict' = "unreadable" /\ approved' = approved /\ ~ OverBudget(atReview) /\ verdict = "not asked"
        /\ allowance' = allowance /\ atReview' = atReview
    BY <1>5 DEF ReviewFails, DraftInv, ReviewedFirst
  <2>3. ~ OverBudget(atReview)'
    BY <2>2 DEF OverBudget
  <2> QED BY <2>1, <2>2, <2>3 DEF DraftInv, ReviewedFirst
<1>6. CASE UNCHANGED draftVars
  BY <1>6 DEF draftVars, DraftInv, Ledger, PhaseOfDraft, ReviewedFirst, OverBudget
<1> QED BY <1>2, <1>3, <1>4, <1>5, <1>6 DEF DraftStep, DraftEnded

(* --ai-draft: a text is used only if a review, paid for inside the budget,  *)
(* has approved it, and a row that is written has what was recorded.        *)
THEOREM DraftIsReviewed == DraftSpec => []OnlyReviewedText
<1>1. DraftInit => DraftInv
  <2> SUFFICES ASSUME DraftInit PROVE DraftInv
    OBVIOUS
  <2>1. Ledger /\ PhaseOfDraft
    <3>1. /\ recorded = 0 /\ recordedCalls = 0 /\ chargedTokens = 0 /\ phase = "draft"
          /\ usageRow = 0 /\ ~ usageLost
      BY DEF DraftInit
    <3> QED BY <3>1 DEF Ledger, PhaseOfDraft
  <2>2. phase = "draft" /\ verdict = "not asked" /\ approved = FALSE
    BY DEF DraftInit
  <2> QED BY <2>1, <2>2 DEF DraftInv, ReviewedFirst
<1>2. DraftInv => OnlyReviewedText
  BY DEF DraftInv, Ledger, PhaseOfDraft, ReviewedFirst, OnlyReviewedText
<1> QED BY <1>1, <1>2, DraftKept, PTL DEF DraftSpec

-----------------------------------------------------------------------------
(***************************************************************************)
(* All the programs together.                                              *)
(***************************************************************************)
(* One run explores the programs side by side: each of its behaviours is one *)
(* of each of the programs, by their own specifications.                     *)
LEMMA CallsRun ==
    Spec => PipelineSpec /\ SemanticSpec /\ DraftSpec /\ SpecCodeInit /\ [][SpecCodeStep]_specCodeVars
<1>1. Init => PipelineInit /\ SemanticInit /\ DraftInit /\ SpecCodeInit
  BY DEF Init
<1>2. [Next]_vars => /\ [PipelineStep \/ PipelineEnded]_pipelineVars /\ [SemanticStep \/ SemanticEnded]_semanticVars
                     /\ [DraftStep \/ DraftEnded]_draftVars /\ [SpecCodeStep]_specCodeVars
  <2> SUFFICES ASSUME [Next]_vars
               PROVE  /\ PipelineStep \/ pipelineVars' = pipelineVars
                      /\ SemanticStep \/ semanticVars' = semanticVars
                      /\ DraftStep \/ draftVars' = draftVars
                      /\ SpecCodeStep \/ specCodeVars' = specCodeVars
    OBVIOUS
  <2>1. CASE PipelineTurn
    BY <2>1 DEF PipelineTurn
  <2>2. CASE SemanticTurn
    BY <2>2 DEF SemanticTurn
  <2>3. CASE DraftTurn
    BY <2>3 DEF DraftTurn
  <2>4. CASE SpecCodeTurn
    BY <2>4 DEF SpecCodeTurn
  <2>5. CASE Rest \/ UNCHANGED vars
    BY <2>5 DEF Rest, vars
  <2> QED BY <2>1, <2>2, <2>3, <2>4, <2>5 DEF Next
<1> QED BY <1>1, <1>2, PTL DEF Spec, PipelineSpec, SemanticSpec, DraftSpec

(* agent_pipeline.py's rounds and a project beside verify_spec_code.py are   *)
(* typed, whatever else runs.                                               *)
THEOREM CallsTyped == Spec => []LlmTypeOK
<1>1. PipelineTypeOK /\ SpecCodeTypeOK => LlmTypeOK
  BY DEF LlmTypeOK
<1> QED BY <1>1, CallsRun, PipelineTypes, SpecCodeKept, PTL

(* verify_spec_code.py passes what agrees and nothing else, whatever else   *)
(* runs beside it.                                                          *)
THEOREM CallsChecked == Spec => [](DriftIsSeen /\ AgreementPasses)
BY CallsRun, DriftFails, AgreementSuffices, PTL
=============================================================================
