---------------------------------- MODULE AiDraft ----------------------------------
(***************************************************************************)
(* run_ai_draft_pipeline: one agent drafts a template section, a second one   *)
(* reviews it, and only an approved draft replaces the placeholder.          *)
(***************************************************************************)
EXTENDS Naturals

CONSTANTS
    DraftBudgets,   \* what FRAMEWORK_FIX_TOKEN_BUDGET may be
    Unlimited,      \* it is not set
    MaxReply        \* the tokens one call may use at most

ASSUME DraftAssumption ==
    /\ DraftBudgets \subseteq Nat \cup {Unlimited}
    /\ Unlimited \notin Nat
    /\ MaxReply \in Nat

VARIABLES
    allowance,      \* budget_tokens
    phase,          \* the call that comes next, or "done"
    recorded,       \* input_tokens + output_tokens
    recordedCalls,  \* calls
    usageRow,       \* the tokens in the row of the telemetry log, 0 without one
    usageLost,      \* the row could not be written
    approved,       \* the result's approved, and with it its text
    verdict,        \* what the review agent has said, if it has been asked
    atReview,       \* what had been charged when it was asked
    chargedTokens   \* the tokens the provider has charged

draftVars == <<allowance, phase, recorded, recordedCalls, usageRow, usageLost,
               approved, verdict, atReview, chargedTokens>>

Used == 0..MaxReply

DraftInit ==
    /\ allowance \in DraftBudgets
    /\ phase = "draft"
    /\ recorded = 0 /\ recordedCalls = 0 /\ usageRow = 0 /\ chargedTokens = 0 /\ atReview = 0
    /\ approved = FALSE /\ usageLost = FALSE
    /\ verdict = "not asked"

OverBudget(tokens) == IF allowance = Unlimited THEN FALSE ELSE tokens >= allowance

Record(used) ==
    /\ recorded' = recorded + used
    /\ recordedCalls' = recordedCalls + 1
    /\ chargedTokens' = chargedTokens + used

(* _write_telemetry, after which the pipeline returns: no row without a call, *)
(* and none if the log cannot be read, parsed or written, which only warns.   *)
Close ==
    /\ phase' = "done"
    /\ \/ usageRow' = (IF recordedCalls' = 0 THEN 0 ELSE recorded') /\ UNCHANGED usageLost
       \/ recordedCalls' # 0 /\ usageLost' = TRUE /\ UNCHANGED usageRow

(* No key, no package, an API error; or a reply with no content, which raises  *)
(* before its usage is recorded though it is charged.                         *)
DraftFails(used) ==
    /\ phase = "draft"
    /\ chargedTokens' = chargedTokens + used
    /\ UNCHANGED <<recorded, recordedCalls>>
    /\ Close
    /\ UNCHANGED <<allowance, approved, verdict, atReview>>

DraftEmpty(used) ==
    /\ phase = "draft"
    /\ Record(used)
    /\ Close
    /\ UNCHANGED <<allowance, approved, verdict, atReview>>

\* Variant: the budget is not looked at before the review.
DraftUnchecked(used) ==
    /\ phase = "draft"
    /\ Record(used)
    /\ phase' = "review"
    /\ atReview' = chargedTokens'
    /\ UNCHANGED <<allowance, usageRow, usageLost, approved, verdict>>

(* A draft goes to review unless it has used up the budget.                   *)
Draft(used) ==
    /\ phase = "draft"
    /\ Record(used)
    /\ IF OverBudget(recorded')
       THEN Close /\ UNCHANGED atReview
       ELSE /\ phase' = "review" /\ atReview' = chargedTokens'
            /\ UNCHANGED <<usageRow, usageLost>>
    /\ UNCHANGED <<allowance, approved, verdict>>

\* Anything but the two verdicts is a rejection.
Review(used, says) ==
    /\ phase = "review"
    /\ Record(used)
    /\ verdict' = says
    /\ approved' = (says = "approve")
    /\ Close
    /\ UNCHANGED <<allowance, atReview>>

\* An API error, an empty reply (charged, not recorded), or no JSON (recorded).
ReviewFails(used, counted) ==
    /\ phase = "review"
    /\ IF counted THEN Record(used)
       ELSE chargedTokens' = chargedTokens + used /\ UNCHANGED <<recorded, recordedCalls>>
    /\ verdict' = "unreadable"
    /\ Close
    /\ UNCHANGED <<allowance, approved, atReview>>

DraftStep ==
    \E used \in Used :
        \/ DraftFails(used) \/ DraftEmpty(used) \/ Draft(used)
        \/ \E says \in {"approve", "reject", "unrecognized"} : Review(used, says)
        \/ \E counted \in BOOLEAN : ReviewFails(used, counted)

DraftEnded == phase = "done" /\ UNCHANGED draftVars

DraftSpec == DraftInit /\ [][DraftStep \/ DraftEnded]_draftVars

-----------------------------------------------------------------------------
(* --ai-draft cannot make a pull request worse than the placeholder: a text is  *)
(* used only if a review, paid for inside the budget, has approved it; and     *)
(* unless the log did not take it, the row has what was recorded, which is     *)
(* never more than was charged.                                              *)
OnlyReviewedText ==
    /\ approved <=> verdict = "approve"
    /\ verdict # "not asked" => ~ OverBudget(atReview)
    /\ phase = "done" => /\ usageRow = (IF usageLost THEN 0 ELSE recorded)
                         /\ recorded <= chargedTokens
=============================================================================
