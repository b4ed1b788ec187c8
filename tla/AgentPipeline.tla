------------------------------ MODULE AgentPipeline ------------------------------
(***************************************************************************)
(* run_pipeline: the agent roles in the order of their dependencies, each    *)
(* asked until its reply has the required form, at most MaxRetries times      *)
(* more.                                                                   *)
(*                                                                         *)
(* A reply is an answer ("pass", "fail"), text that is not one, or no reply   *)
(* at all because the query failed.  Whatever it is, the provider may charge *)
(* for it, up to the cap the SDK enforces on one query.                      *)
(***************************************************************************)
EXTENDS Naturals, SequencesExt

CONSTANTS
    Role,           \* names of roles
    RoleLists,      \* what ROLES may be: lists of different roles
    Graphs,         \* what depends_on may be
    MaxRetries,
    Cap             \* what one query may cost at most

ASSUME PipelineAssumption ==
    /\ IsFiniteSet(Role)
    /\ RoleLists \subseteq Seq(Role)
    /\ \A list \in RoleLists : list # <<>> /\ IsInjective(list)
    /\ Graphs \subseteq [Role -> SUBSET Role]
    /\ MaxRetries \in Nat
    /\ Cap \in Nat

VARIABLES
    listed,         \* ROLES
    dependsOn,      \* each role's depends_on
    order,          \* `resolved`: the roles put in order so far
    at,             \* the position in listed, later in order, that comes next
    progressed,     \* something was resolved in this turn of the while loop
    stage,          \* where run_pipeline is, or how it ended
    results,        \* each role's result
    tries,          \* the malformed replies of the role being asked
    spent,          \* usage_totals of the role being asked
    reported,       \* the usage in the report or in the AgentCallError
    billed,         \* what the provider charged for each role
    heard           \* the first answer each role gave

arranging == <<listed, dependsOn, order, progressed>>
accounts == <<results, tries, spent, reported, billed, heard>>
pipelineVars == <<arranging, at, stage, accounts>>

Status == {"pass", "fail"}
Ended == {"returned", "call error", "invocation error", "unresolvable"}
NoResult == [status |-> "none", attempts |-> 0, usage |-> 0]
Result == [status: Status, attempts: Nat, usage: Nat] \cup {NoResult}

PipelineTypeOK ==
    /\ listed \in RoleLists
    /\ dependsOn \in Graphs
    /\ order \in Seq(Role)
    /\ at \in Nat \ {0}
    /\ progressed \in BOOLEAN
    /\ stage \in {"ordering", "asking"} \cup Ended
    /\ results \in [Role -> Result]
    /\ tries \in 0..MaxRetries
    /\ spent \in Nat
    /\ reported \in Nat
    /\ billed \in [Role -> Nat]
    /\ heard \in [Role -> Status \cup {"nothing"}]

-----------------------------------------------------------------------------
PipelineInit ==
    /\ listed \in RoleLists
    /\ dependsOn \in Graphs
    /\ order = <<>>
    /\ at = 1
    /\ progressed = FALSE
    /\ stage = "ordering"
    /\ results = [r \in Role |-> NoResult]
    /\ tries = 0
    /\ spent = 0
    /\ reported = 0
    /\ billed = [r \in Role |-> 0]
    /\ heard = [r \in Role |-> "nothing"]

\* Variant: one of its dependencies is enough for a role to be resolved.
ConsiderAny ==
    /\ stage = "ordering"
    /\ at <= Len(listed)
    /\ LET r == listed[at]
       IN  IF r \notin ToSet(order) /\ (dependsOn[r] = {} \/ dependsOn[r] \cap ToSet(order) # {})
           THEN order' = Append(order, r) /\ progressed' = TRUE
           ELSE UNCHANGED <<order, progressed>>
    /\ at' = at + 1
    /\ UNCHANGED <<listed, dependsOn, stage, accounts>>

(* The inner loop of _ordered_roles over what remains, in listed order.      *)
Consider ==
    /\ stage = "ordering"
    /\ at <= Len(listed)
    /\ LET r == listed[at]
       IN  IF r \notin ToSet(order) /\ dependsOn[r] \subseteq ToSet(order)
           THEN order' = Append(order, r) /\ progressed' = TRUE
           ELSE UNCHANGED <<order, progressed>>
    /\ at' = at + 1
    /\ UNCHANGED <<listed, dependsOn, stage, accounts>>

\* Variant: one turn is taken to be enough.
EndTurnAtOnce ==
    /\ stage = "ordering"
    /\ at > Len(listed)
    /\ at' = 1
    /\ progressed' = FALSE
    /\ stage' = IF Len(order) = Len(listed) THEN "asking" ELSE "unresolvable"
    /\ UNCHANGED <<listed, dependsOn, order, accounts>>

\* Variant: whether the turn has resolved anything is not looked at.
EndTurnUnchecked ==
    /\ stage = "ordering"
    /\ at > Len(listed)
    /\ at' = 1
    /\ progressed' = FALSE
    /\ stage' = IF Len(order) = Len(listed) THEN "asking" ELSE "ordering"
    /\ UNCHANGED <<listed, dependsOn, order, accounts>>

(* The while loop: over, stuck, or another turn.                            *)
EndTurn ==
    /\ stage = "ordering"
    /\ at > Len(listed)
    /\ at' = 1
    /\ progressed' = FALSE
    /\ \/ Len(order) = Len(listed) /\ stage' = "asking"
       \/ Len(order) # Len(listed) /\ progressed /\ UNCHANGED stage
       \/ Len(order) # Len(listed) /\ ~ progressed /\ stage' = "unresolvable"
    /\ UNCHANGED <<listed, dependsOn, order, accounts>>

Asked == order[at]
Usage == [r \in Role |-> results[r].usage]

\* What the world does with a query: it costs something, and may be answered.
Charge(cost) == billed' = [billed EXCEPT ![Asked] = @ + cost]
Hear(answer) ==
    heard' = [heard EXCEPT ![Asked] = IF @ = "nothing" THEN answer ELSE @]

Query == stage = "asking" /\ UNCHANGED arranging


(* The role's result, and with the last one the report.                      *)
Complete(status, usage) ==
    /\ results' = [results EXCEPT ![Asked] =
                     [status |-> status, attempts |-> tries + 1, usage |-> usage]]
    /\ tries' = 0
    /\ spent' = 0
    /\ at' = at + 1
    /\ \/ at < Len(order) /\ UNCHANGED <<stage, reported>>
       \/ /\ at = Len(order)
          /\ stage' = "returned"
          /\ reported' = SumFunction(Usage')

AskAgain(usage) ==
    /\ tries' = tries + 1
    /\ spent' = usage
    /\ UNCHANGED <<at, stage, results, reported>>

\* Variant: the usage of the last attempt is the usage of the call.
AnswerLastUsage(status, cost) ==
    /\ Query /\ Charge(cost) /\ Hear(status)
    /\ Complete(status, cost)

\* Variant: a "fail" is asked again while there are attempts left.
AnswerRerolled(status, cost) ==
    /\ Query /\ Charge(cost) /\ Hear(status)
    /\ IF status = "fail" /\ tries < MaxRetries
       THEN AskAgain(spent + cost)
       ELSE Complete(status, spent + cost)

(* A reply of the required form ends the role's call, whatever it says.      *)
Answer(status, cost) ==
    /\ Query /\ Charge(cost) /\ Hear(status)
    /\ Complete(status, spent + cost)

\* Variant: one attempt more than max_retries allows.
MalformedOnceMore(cost) ==
    /\ Query /\ Charge(cost) /\ UNCHANGED heard
    /\ \/ tries <= MaxRetries /\ AskAgain(spent + cost)
       \/ /\ tries > MaxRetries
          /\ stage' = "call error"
          /\ spent' = spent + cost
          /\ reported' = spent'
          /\ UNCHANGED <<at, results, tries>>

(* A reply that does not parse or has the wrong form: ask again with the     *)
(* error, or raise AgentCallError with what all attempts have cost.          *)
Malformed(cost) ==
    /\ Query /\ Charge(cost) /\ UNCHANGED heard
    /\ \/ tries < MaxRetries /\ AskAgain(spent + cost)
       \/ /\ tries = MaxRetries
          /\ stage' = "call error"
          /\ spent' = spent + cost
          /\ reported' = spent'
          /\ UNCHANGED <<at, results, tries>>

(* No SDK, no CLI, a failed process, is_error, the cap was hit: the query    *)
(* raises AgentInvocationError, which carries no usage.                      *)
QueryFails(cost) ==
    /\ Query /\ Charge(cost) /\ UNCHANGED <<at, results, heard>>
    /\ stage' = "invocation error"
    /\ UNCHANGED <<tries, spent, reported>>

PipelineStep ==
    \/ Consider
    \/ EndTurn
    \/ \E cost \in 0..Cap :
          \/ \E status \in Status : Answer(status, cost)
          \/ Malformed(cost)
          \/ QueryFails(cost)

PipelineEnded == stage \in Ended /\ UNCHANGED pipelineVars

PipelineSpec == PipelineInit /\ [][PipelineStep \/ PipelineEnded]_pipelineVars

OverallStatus == IF \A r \in ToSet(listed) : results[r].status = "pass" THEN "pass" ELSE "fail"

-----------------------------------------------------------------------------
(* A role is asked, and has a result, only when every role it depends on has *)
(* one to put into its context: run_pipeline never fails on results[name].   *)
DependenciesFirst ==
    /\ stage = "asking" => \A d \in dependsOn[Asked] : results[d] # NoResult
    /\ \A r \in Role : results[r] # NoResult =>
          \A d \in dependsOn[r] : results[d] # NoResult

(* The pipeline refuses a list of roles exactly if some of them wait for     *)
(* each other, or for a role that is not listed.                             *)
RefusedIfUnresolvable ==
    stage # "ordering" =>
        (stage = "unresolvable" <=>
            \E waiting \in SUBSET ToSet(listed) :
                /\ waiting # {}
                /\ \A r \in waiting :
                      dependsOn[r] \cap (waiting \cup (Role \ ToSet(listed))) # {})

(* Money is accounted for: a report sums every attempt of every role, wasted *)
(* ones included, and an AgentCallError has what the failed role has cost.   *)
EveryAttemptCounted ==
    /\ stage = "returned" => reported = SumFunction(billed)
    /\ stage = "call error" => reported = billed[Asked]

(* The result is the first answer: a "fail" is never asked again in the hope *)
(* of a "pass".                                                            *)
FirstAnswerStands ==
    /\ \A r \in Role : heard[r] # "nothing" => results[r].status = heard[r]
    /\ stage = "returned" =>
          (OverallStatus = "pass" <=> \A r \in ToSet(listed) : heard[r] = "pass")

(* The cap is on one query, so a role may cost MaxRetries + 1 times as much,  *)
(* but no more.                                                             *)
SpendBounded == \A r \in Role : billed[r] <= (MaxRetries + 1) * Cap
=============================================================================
