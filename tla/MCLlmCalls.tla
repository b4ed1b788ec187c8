------------------------------- MODULE MCLlmCalls -------------------------------
(***************************************************************************)
(* The three programs that pay for agents' answers, and verify_spec_code.py, *)
(* which may ask one about what it reports.  They share nothing, so one run  *)
(* explores each of them while the others have not begun.                    *)
(***************************************************************************)
EXTENDS AgentPipeline, SemanticPass, AiDraft, MCSpecCode

CONSTANTS r1, r2, r3, other

(* Three roles: every way in which r2 may depend on others, and the graphs   *)
(* of r1 and r3 that are chains, forks or cycles, or name an unlisted role.   *)
MCGraphs ==
    {[r \in Role |-> CASE r = r1 -> da [] r = r2 -> db [] r = r3 -> dc [] r = other -> {}] :
        da \in {{}, {r3}, {r2, r3}}, db \in SUBSET {r1, r2, r3}, dc \in {{}, {r1}, {r1, other}}}

MCRoleLists == {<<r1, r2, r3>>, <<r3, r2>>}

MCReports ==
    LET kinds == {[removed |-> 0, added |-> 2], [removed |-> 1, added |-> 1],
                  [removed |-> 2, added |-> 1]}
    IN  UNION {[1..n -> kinds] : n \in 0..3}

MCBudgets == {0, 1, 3, NoBudget}

MCDraftBudgets == {0, 2, 4, Unlimited}

VARIABLE program    \* the one that runs

vars == <<pipelineVars, semanticVars, draftVars, specCodeVars, program>>

Init ==
    /\ program \in {"pipeline", "semantic", "draft", "speccode"}
    /\ PipelineInit
    /\ program # "pipeline" => listed = <<r3, r2>> /\ dependsOn = [r \in Role |-> {}]
    /\ SemanticInit
    /\ program # "semantic" => report = <<>> /\ budget = NoBudget
    /\ DraftInit
    /\ program # "draft" => allowance = Unlimited
    /\ SpecCodeInit
    /\ program # "speccode" => framework = "click" /\ hint /\ fault = "none"

PipelineTurn == program = "pipeline" /\ PipelineStep /\ UNCHANGED <<semanticVars, draftVars, specCodeVars, program>>
SemanticTurn == program = "semantic" /\ SemanticStep /\ UNCHANGED <<pipelineVars, draftVars, specCodeVars, program>>
DraftTurn == program = "draft" /\ DraftStep /\ UNCHANGED <<pipelineVars, semanticVars, specCodeVars, program>>
SpecCodeTurn == program = "speccode" /\ SpecCodeStep /\ UNCHANGED <<pipelineVars, semanticVars, draftVars, program>>
Rest == UNCHANGED vars /\ CASE program = "pipeline" -> PipelineEnded
                               [] program = "semantic" -> SemanticEnded
                               [] program = "draft" -> DraftEnded
                               [] OTHER -> FALSE

Next == PipelineTurn \/ SemanticTurn \/ DraftTurn \/ SpecCodeTurn \/ Rest

(* All are sequential programs that wait for nothing but a query.  That a     *)
(* query returns, if only with an error, is assumed: agent_pipeline.py bounds *)
(* what it costs and leaves its duration to the SDK.                         *)
Spec == Init /\ [][Next]_vars /\ WF_vars(PipelineTurn) /\ WF_vars(SemanticTurn) /\ WF_vars(DraftTurn)
SpecCodeSpec == (Init /\ program = "speccode") /\ [][SpecCodeTurn]_vars

(* Whatever is asked and answered, ordering, retries and budgets end: none of *)
(* the three programs goes on asking or arranging for ever.                  *)
CallsEnd == program # "speccode" => <>(stage \in Ended \/ over \/ phase = "done")

LlmTypeOK == PipelineTypeOK /\ SpecCodeTypeOK
=============================================================================
