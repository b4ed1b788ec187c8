------------------------------- MODULE SemanticPass -------------------------------
(***************************************************************************)
(* semantic_compare: an LLM is asked about the items of a structural report  *)
(* whose fields could be renamed, one after the other, until the items or    *)
(* the token budget run out.                                                *)
(***************************************************************************)
EXTENDS Naturals, Sequences

CONSTANTS
    Reports,        \* what structural reports may be: lists of items
    Budgets,        \* what SPEC_CODE_TOKEN_BUDGET may be
    NoBudget,       \* it is not set
    MaxCall         \* the tokens one call, or a request that fails, may use at most

(* Of an item it matters how many fields the code has lost and gained.      *)
Item == [removed: Nat, added: Nat]

ASSUME SemanticAssumption ==
    /\ Reports \subseteq Seq(Item)
    /\ Budgets \subseteq Nat \cup {NoBudget}
    /\ NoBudget \notin Nat
    /\ MaxCall \in Nat

VARIABLES
    report,     \* the items, in the order of field_mismatches
    budget,     \* budget_tokens
    reading,    \* the item that comes next
    tokens,     \* input_tokens + output_tokens
    calls,      \* the calls counted
    exceeded,   \* budget_exceeded
    verdicts,   \* for each item, how many of its pairs have a verdict
    row,        \* the row in token-usage.json, or NoRow
    rowLost,    \* it could not be written
    over,       \* the pass has returned
    charged,    \* the tokens the provider has charged
    wasted      \* of them, those of requests that failed

semanticVars == <<report, budget, reading, tokens, calls, exceeded, verdicts, row, rowLost, over,
                  charged, wasted>>

NoRow == [calls |-> 0, tokens |-> 0]

SemanticTypeOK ==
    /\ report \in Reports
    /\ budget \in Budgets
    /\ reading \in 1..(Len(report) + 1)
    /\ tokens \in Nat /\ calls \in Nat /\ charged \in Nat /\ wasted \in Nat
    /\ row \in [calls: Nat, tokens: Nat]
    /\ exceeded \in BOOLEAN /\ over \in BOOLEAN /\ rowLost \in BOOLEAN
    /\ verdicts \in [DOMAIN report -> Nat]

Ambiguous(i) == report[i].removed # 0 /\ report[i].added # 0
Pairs(i) == report[i].removed * report[i].added

SemanticInit ==
    /\ report \in Reports
    /\ budget \in Budgets
    /\ reading = 1
    /\ tokens = 0 /\ calls = 0 /\ row = NoRow /\ charged = 0 /\ wasted = 0
    /\ exceeded = FALSE /\ over = FALSE /\ rowLost = FALSE
    /\ verdicts = [i \in DOMAIN report |-> 0]

AtItem == ~ over /\ reading <= Len(report) /\ UNCHANGED <<report, budget>>

Affordable == IF budget = NoBudget THEN TRUE ELSE tokens < budget

\* An item with no two fields that could be one is passed over.
SkipItem ==
    /\ AtItem /\ ~ Ambiguous(reading)
    /\ reading' = reading + 1
    /\ UNCHANGED <<tokens, calls, exceeded, verdicts, row, rowLost, over, charged, wasted>>

(* _write_token_usage_telemetry: no row without a call, and none if the log   *)
(* cannot be read, parsed or written: that is only a warning.                *)
WriteRow ==
    \/ row' = [calls |-> calls, tokens |-> IF calls = 0 THEN 0 ELSE tokens] /\ UNCHANGED rowLost
    \/ calls # 0 /\ rowLost' = TRUE /\ UNCHANGED row

(* The budget is used up: this item and those behind it stay unasked.        *)
StopAtBudget ==
    /\ AtItem /\ Ambiguous(reading) /\ ~ Affordable
    /\ exceeded' = TRUE
    /\ over' = TRUE
    /\ WriteRow
    /\ UNCHANGED <<reading, tokens, calls, verdicts, charged, wasted>>

\* Variant: the budget is looked at before the first call only.
AskOnceStarted(used, answers) ==
    /\ AtItem /\ Ambiguous(reading)
    /\ Affordable \/ calls > 0
    /\ reading' = reading + 1
    /\ tokens' = tokens + used
    /\ calls' = calls + 1
    /\ charged' = charged + used
    /\ verdicts' = [verdicts EXCEPT ![reading] = IF answers < Pairs(reading) THEN answers ELSE Pairs(reading)]
    /\ UNCHANGED <<exceeded, row, rowLost, over, wasted>>

\* Variant: a call whose reply cannot be used is not counted.
AskUsefulOnly(used, answers) ==
    /\ AtItem /\ Ambiguous(reading) /\ Affordable
    /\ reading' = reading + 1
    /\ charged' = charged + used
    /\ \/ answers > 0 /\ tokens' = tokens + used /\ calls' = calls + 1
       \/ answers = 0 /\ UNCHANGED <<tokens, calls>>
    /\ verdicts' = [verdicts EXCEPT ![reading] = IF answers < Pairs(reading) THEN answers ELSE Pairs(reading)]
    /\ UNCHANGED <<exceeded, row, rowLost, over, wasted>>

(* A completed call is paid for.  Its reply may have fewer verdicts than      *)
(* pairs, more (which are dropped), or none that can be used.                *)
Ask(used, answers) ==
    /\ AtItem /\ Ambiguous(reading) /\ Affordable
    /\ reading' = reading + 1
    /\ tokens' = tokens + used
    /\ calls' = calls + 1
    /\ charged' = charged + used
    /\ verdicts' = [verdicts EXCEPT ![reading] =
                      IF answers < Pairs(reading) THEN answers ELSE Pairs(reading)]
    /\ UNCHANGED <<exceeded, row, rowLost, over, wasted>>

(* The request itself fails: no usage, no verdict, whatever the provider has  *)
(* charged for what it did before the connection broke or the answer was lost. *)
AskInVain(used) ==
    /\ AtItem /\ Ambiguous(reading) /\ Affordable
    /\ reading' = reading + 1
    /\ charged' = charged + used
    /\ wasted' = wasted + used
    /\ UNCHANGED <<tokens, calls, exceeded, verdicts, row, rowLost, over>>

\* Variant: a budget that is used up in the end counts as exceeded.
FinishFlagged ==
    /\ ~ over /\ reading > Len(report)
    /\ over' = TRUE
    /\ WriteRow
    /\ exceeded' = ~ Affordable
    /\ UNCHANGED <<report, budget, reading, tokens, calls, verdicts, charged, wasted>>

(* All items have had their turn.                                           *)
Finish ==
    /\ ~ over /\ reading > Len(report)
    /\ over' = TRUE
    /\ WriteRow
    /\ UNCHANGED <<report, budget, reading, tokens, calls, exceeded, verdicts, charged, wasted>>

SemanticStep ==
    \/ SkipItem \/ StopAtBudget \/ Finish
    \/ \E used \in 0..MaxCall : AskInVain(used) \/ \E answers \in 0..3 : Ask(used, answers)

SemanticEnded == over /\ UNCHANGED semanticVars

SemanticSpec == SemanticInit /\ [][SemanticStep \/ SemanticEnded]_semanticVars

-----------------------------------------------------------------------------
(* The budget is checked before a call and a call's size is not known before *)
(* it: what completed calls cost can overshoot the budget, but only by the    *)
(* last of them.  What failed requests cost comes on top, unseen.            *)
OvershootOfOneCall ==
    budget # NoBudget =>
        /\ charged < budget + MaxCall + wasted \/ charged = wasted
        /\ charged >= budget + wasted => \A i \in DOMAIN report : i >= reading => verdicts[i] = 0

(* budget_exceeded says that something was left unasked, not that the budget *)
(* is used up: a reader of the row may take FALSE for a complete pass.       *)
FlagMeansUnasked ==
    over => (exceeded <=> \E i \in DOMAIN report : i >= reading /\ Ambiguous(i))

(* The row has every token a completed call was charged for, whatever became  *)
(* of the reply.  What it misses of the bill is the cost of failed requests,   *)
(* or everything, if the log did not take the row.                           *)
RowHasAllTokens == over => (IF rowLost THEN row = NoRow ELSE row.tokens + wasted = charged)
=============================================================================
