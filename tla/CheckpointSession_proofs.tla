------------------------ MODULE CheckpointSession_proofs ------------------------
(***************************************************************************)
(* The properties of CheckpointSession for any number of sessions.         *)
(***************************************************************************)
EXTENDS CheckpointSession, TLAPS

(* Who can have written what the slot holds.  A session whose answer is in   *)
(* the slot has finished writing it, and an answer that is still to be       *)
(* recorded is the only way for the two to differ.                           *)
SlotHonest ==
    \A s \in Session :
        slot \in Choice /\ slot.session = s =>
            /\ recording[s] \in {"answered", "recorded"}
            /\ recording[s] = "recorded" => slot.enabled = answer[s]

(* What a session that nobody has interfered with knows about the slot.     *)
AloneOwns ==
    \A s \in alone :
        /\ recording[s] = "open" => slot = Empty
        /\ recording[s] = "recorded" => slot = [session |-> s, enabled |-> answer[s]]
        /\ \A t \in Session \ {s} : recording[t] # "open"

(* An answer is recorded only after it was given, and a session that started *)
(* under session-prompt is either waiting to be asked or has answered.       *)
AskedOrAnswered ==
    \A s \in Session :
        /\ recording[s] # "never" => answer[s] # "none"
        /\ startMode[s] = "sessionPrompt" => s \in prompted \/ answer[s] # "none"

IInv == TypeOK /\ SlotHonest /\ AloneOwns /\ AskedOrAnswered

-----------------------------------------------------------------------------
(* Each action keeps all four; the steps under it follow the conjuncts.     *)
LEMMA Step == IInv /\ [Next]_vars => IInv'
<1> SUFFICES ASSUME IInv, [Next]_vars PROVE IInv'
  OBVIOUS
<1> USE SlotAssumption
<1>1. ASSUME NEW s \in Session, SessionStart(s) PROVE IInv'
  <2>1. TypeOK'
    BY <1>1 DEF IInv, SessionStart, TypeOK
  <2>2. SlotHonest'
    BY <1>1 DEF IInv, SessionStart, SlotHonest
  <2>3. AloneOwns'
    BY <1>1 DEF IInv, SessionStart, AloneOwns
  <2>4. AskedOrAnswered'
    <3>1. ReadChoice(s) # "none" => answer[s] # "none"
      BY DEF IInv, SlotHonest, AskedOrAnswered, ReadChoice
    <3> QED BY <1>1, <3>1 DEF IInv, SessionStart, TypeOK, AskedOrAnswered
  <2> QED BY <2>1, <2>2, <2>3, <2>4 DEF IInv
<1>2. ASSUME NEW s \in Session, NEW e \in {"yes", "no"}, Answer(s, e) PROVE IInv'
  <2>1. TypeOK'
    BY <1>2 DEF IInv, Answer, TypeOK
  <2>2. SlotHonest'
    BY <1>2 DEF IInv, Answer, TypeOK, SlotHonest
  <2>3. AloneOwns'
    BY <1>2 DEF IInv, Answer, TypeOK, AloneOwns
  <2>4. AskedOrAnswered'
    BY <1>2 DEF IInv, Answer, TypeOK, AskedOrAnswered
  <2> QED BY <2>1, <2>2, <2>3, <2>4 DEF IInv
<1>3. ASSUME NEW s \in Session, OpenSlot(s) PROVE IInv'
  <2>1. TypeOK'
    BY <1>3 DEF IInv, OpenSlot, TypeOK
  <2>2. SlotHonest'
    BY <1>3 DEF IInv, OpenSlot, TypeOK, SlotHonest
  <2>3. AloneOwns'
    BY <1>3 DEF IInv, OpenSlot, TypeOK, AloneOwns
  <2>4. AskedOrAnswered'
    BY <1>3 DEF IInv, OpenSlot, TypeOK, AskedOrAnswered
  <2> QED BY <2>1, <2>2, <2>3, <2>4 DEF IInv
<1>4. ASSUME NEW s \in Session, FillSlot(s) PROVE IInv'
  <2>1. TypeOK'
    <3>1. answer[s] \in {"yes", "no"}
      BY <1>4 DEF IInv, FillSlot, TypeOK, AskedOrAnswered
    <3>2. [session |-> s, enabled |-> answer[s]] \in Choice
      BY <3>1 DEF Choice
    <3> QED BY <1>4, <3>2 DEF IInv, FillSlot, TypeOK
  <2>2. SlotHonest'
    BY <1>4 DEF IInv, FillSlot, TypeOK, Choice, SlotHonest
  <2>3. AloneOwns'
    BY <1>4 DEF IInv, FillSlot, TypeOK, Choice, AloneOwns
  <2>4. AskedOrAnswered'
    BY <1>4 DEF IInv, FillSlot, TypeOK, Choice, AskedOrAnswered
  <2> QED BY <2>1, <2>2, <2>3, <2>4 DEF IInv
<1>5. ASSUME NEW s \in Session, CrashRecorder(s) PROVE IInv'
  <2>1. TypeOK'
    BY <1>5 DEF IInv, CrashRecorder, TypeOK
  <2>2. SlotHonest'
    BY <1>5 DEF IInv, CrashRecorder, TypeOK, SlotHonest
  <2>3. AloneOwns'
    BY <1>5 DEF IInv, CrashRecorder, TypeOK, AloneOwns
  <2>4. AskedOrAnswered'
    BY <1>5 DEF IInv, CrashRecorder, TypeOK, AskedOrAnswered
  <2> QED BY <2>1, <2>2, <2>3, <2>4 DEF IInv
<1>6. ASSUME NEW s \in Session, ToolCall(s) PROVE IInv'
  <2>1. TypeOK'
    <3>1. ReadChoice(s) \in {"none", "yes", "no"}
      BY DEF ReadChoice, Choice
    <3>2. Decide(s) \in Decision
      BY <3>1 DEF Decide, Decision, IInv, TypeOK, Mode
    <3> QED BY <1>6, <3>2 DEF IInv, ToolCall, TypeOK
  <2>2. SlotHonest'
    BY <1>6 DEF IInv, ToolCall, TypeOK, SlotHonest
  <2>3. AloneOwns'
    BY <1>6 DEF IInv, ToolCall, TypeOK, AloneOwns
  <2>4. AskedOrAnswered'
    BY <1>6 DEF IInv, ToolCall, TypeOK, AskedOrAnswered
  <2> QED BY <2>1, <2>2, <2>3, <2>4 DEF IInv
<1>7. ASSUME NEW d \in State, EditState(d) PROVE IInv'
  <2>1. TypeOK'
    BY <1>7 DEF IInv, EditState, TypeOK
  <2>2. SlotHonest'
    BY <1>7 DEF IInv, EditState, TypeOK, SlotHonest
  <2>3. AloneOwns'
    BY <1>7 DEF IInv, EditState, TypeOK, AloneOwns
  <2>4. AskedOrAnswered'
    BY <1>7 DEF IInv, EditState, TypeOK, AskedOrAnswered
  <2> QED BY <2>1, <2>2, <2>3, <2>4 DEF IInv
<1>8. ASSUME NEW m \in Mode, EditMode(m) PROVE IInv'
  <2>1. TypeOK'
    BY <1>8 DEF IInv, EditMode, TypeOK
  <2>2. SlotHonest'
    BY <1>8 DEF IInv, EditMode, TypeOK, SlotHonest
  <2>3. AloneOwns'
    BY <1>8 DEF IInv, EditMode, TypeOK, AloneOwns
  <2>4. AskedOrAnswered'
    BY <1>8 DEF IInv, EditMode, TypeOK, AskedOrAnswered
  <2> QED BY <2>1, <2>2, <2>3, <2>4 DEF IInv
<1>9. CASE UNCHANGED vars
  BY <1>9 DEF IInv, vars, TypeOK, SlotHonest, AloneOwns, AskedOrAnswered
<1> QED BY <1>1, <1>2, <1>3, <1>4, <1>5, <1>6, <1>7, <1>8, <1>9 DEF Next

LEMMA Start == Init => IInv
BY SlotAssumption DEF Init, IInv, TypeOK, SlotHonest, AloneOwns, AskedOrAnswered,
                      Mode, Decision

LEMMA Inductive == Spec => []IInv
BY Start, Step, PTL DEF Spec

-----------------------------------------------------------------------------
(* The variables keep their types.                                          *)
THEOREM TypeCorrect == Spec => []TypeOK
<1>1. IInv => TypeOK
  BY DEF IInv
<1> QED BY Inductive, <1>1, PTL

(* The guard never acts on a stale answer, whatever sessions interleave and *)
(* whichever recorder dies between truncation and write.                    *)
THEOREM NeverStale == Spec => []NoStaleAnswer
<1>1. IInv => NoStaleAnswer
  BY SlotAssumption DEF IInv, TypeOK, SlotHonest, NoStaleAnswer, ReadChoice
<1> QED BY Inductive, <1>1, PTL

(* A recorded answer is acted on until another session touches the slot.    *)
THEOREM RecordedHolds == Spec => []RecordedAnswerHolds
<1>1. ASSUME IInv, NEW s \in Session, s \in alone, recording[s] = "recorded"
      PROVE  ReadChoice(s) = answer[s]
  <2>1. slot = [session |-> s, enabled |-> answer[s]]
    BY <1>1 DEF IInv, AloneOwns
  <2>2. answer[s] \in {"yes", "no"}
    BY <1>1 DEF IInv, TypeOK, AskedOrAnswered
  <2> QED BY <2>1, <2>2 DEF ReadChoice, Choice
<1>2. IInv => RecordedAnswerHolds
  BY <1>1 DEF RecordedAnswerHolds
<1> QED BY Inductive, <1>2, PTL

(* A session that started under session-prompt never fails open unasked.    *)
THEOREM AskedFirst == Spec => AskedBeforeFailingOpen
<1> DEFINE Asked == \A s \in Session :
       ToolCall(s) /\ startMode[s] = "sessionPrompt" /\ call' = "unanswered"
         => s \in prompted \/ answer[s] # "none"
<1>1. IInv => Asked
  BY DEF IInv, AskedOrAnswered
<1>2. Spec => [][Asked]_vars
  BY Inductive, <1>1, PTL
<1> QED BY <1>2 DEF AskedBeforeFailingOpen
=============================================================================
