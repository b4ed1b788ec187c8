-------------------------- MODULE ProjectChecks_proofs --------------------------
(***************************************************************************)
(* The programs that grade a project, for any evidence, ids, registries and *)
(* documents: the type of a project and what more evidence does to it,      *)
(* acceptance piece by piece, the readers of the registry, a document while *)
(* its author works on it, and all of them beside one another.              *)
(***************************************************************************)
EXTENDS MCProject, SequenceTheorems, InductionLemmas

(***************************************************************************)
(* The files that processes read, change and write back without a lock: the *)
(* telemetry logs, and what orchestrator.py keeps under .agent.             *)
(*                                                                         *)
(* First the logs: what is left in one is history, for any number of        *)
(* processes.  The log alone does not carry the argument, since a process    *)
(* may hold a list that was read long ago.  The strengthening says the same *)
(* of every list in a process's memory: it is past, and the past only grows. *)
(***************************************************************************)
Past(list) ==
    /\ \A i \in DOMAIN list : stage[list[i]] = "done"
    /\ \A i, j \in DOMAIN list : i < j => Precedes(list[i], list[j], done)

FinishersRecorded ==
    \A w \in Writer : stage[w] = "done" => \E i \in DOMAIN done : done[i] = w

LogIInv ==
    /\ LogTypeOK
    /\ FinishersRecorded
    /\ log \notin Unreadable => Past(log)
    /\ \A w \in Writer : Past(rows[w])

-----------------------------------------------------------------------------
LEMMA LogStart == LogInit => LogIInv
<1> SUFFICES ASSUME LogInit PROVE LogIInv
  OBVIOUS
<1>1. LogTypeOK
  BY DEF LogInit, LogTypeOK, Unreadable
<1>2. Past(<<>>)
  BY DEF Past
<1>3. FinishersRecorded
  BY DEF LogInit, FinishersRecorded
<1>4. log \in Unreadable /\ \A w \in Writer : rows[w] = <<>>
  BY DEF LogInit, Unreadable
<1> QED
  BY <1>1, <1>2, <1>3, <1>4 DEF LogIInv

(* A step in which nobody finishes leaves every past list past.             *)
LEMMA PastStays ==
    ASSUME NEW list \in Seq(Writer), Past(list), LogTypeOK, done' = done,
           \A w \in Writer : stage[w] = "done" => stage'[w] = "done"
    PROVE  Past(list)'
BY DEF Past, Precedes

LEMMA QuietStep ==
    ASSUME LogIInv, done' = done,
           \A w \in Writer : stage[w] = "done" <=> stage'[w] = "done",
           LogTypeOK', log' = log \/ log' \in Unreadable,
           \A w \in Writer : rows'[w] = rows[w] \/ Past(rows'[w])
    PROVE  LogIInv'
<1>1. FinishersRecorded'
  BY DEF LogIInv, FinishersRecorded
<1>2. ASSUME log' \notin Unreadable PROVE Past(log)'
  <2>1. log \in Seq(Writer) /\ Past(log) /\ log' = log
    BY <1>2 DEF LogIInv, LogTypeOK
  <2> QED
    BY <2>1, PastStays DEF LogIInv
<1>3. ASSUME NEW w \in Writer PROVE Past(rows[w])'
  <2>1. rows'[w] \in Seq(Writer) /\ Past(rows'[w])
    BY DEF LogIInv, LogTypeOK
  <2> DEFINE list == rows'[w]
  <2>2. \A i \in DOMAIN list : stage'[list[i]] = "done"
    BY <2>1 DEF Past
  <2>3. \A i, j \in DOMAIN list : i < j => Precedes(list[i], list[j], done)
    BY <2>1 DEF Past
  <2> QED
    BY <2>2, <2>3 DEF Past, Precedes
<1> QED
  BY <1>1, <1>2, <1>3 DEF LogIInv, Unreadable

(* The step that finishes a process: its row is the latest of all.          *)
LEMMA FillStep ==
    ASSUME LogIInv, NEW w \in Writer, FillLog(w)
    PROVE  LogIInv'
<1>1. LogTypeOK'
  <2>1. Append(rows[w], w) \in Seq(Writer) /\ Append(kept, w) \in Seq(Writer)
        /\ Append(done, w) \in Seq(Writer)
    BY DEF LogIInv, LogTypeOK
  <2>2. log' \in Seq(Writer) \cup Unreadable
    <3>1. CASE log' = Append(rows[w], w)
      BY <2>1, <3>1
    <3>2. CASE log' = Garbled
      BY <3>2 DEF Unreadable
    <3> QED
      BY <3>1, <3>2 DEF FillLog
  <2>3. kept' \in Seq(Writer)
    <3>1. <<>> \in Seq(Writer)
      OBVIOUS
    <3>2. kept' = Append(kept, w) \/ kept' = <<>>
      BY DEF FillLog
    <3> QED
      BY <2>1, <3>1, <3>2
  <2> QED
    BY <2>1, <2>2, <2>3 DEF LogIInv, LogTypeOK, FillLog
<1>2. /\ done' = Append(done, w) /\ done \in Seq(Writer) /\ rows' = rows
      /\ \A v \in Writer : stage'[v] = IF v = w THEN "done" ELSE stage[v]
  BY DEF LogIInv, LogTypeOK, FillLog
<1>3. \A i \in DOMAIN done : i \in DOMAIN done' /\ done'[i] = done[i]
  BY <1>2
<1>4. FinishersRecorded'
  <2>1. done'[Len(done')] = w /\ Len(done') \in DOMAIN done'
    BY <1>2
  <2> QED
    BY <1>2, <1>3, <2>1 DEF LogIInv, FinishersRecorded
<1>5. ASSUME NEW list \in Seq(Writer), Past(list)
      PROVE  /\ \A i \in DOMAIN list : stage'[list[i]] = "done"
             /\ \A i, j \in DOMAIN list : i < j => Precedes(list[i], list[j], done')
  <2>1. \A i \in DOMAIN list : list[i] \in Writer
    OBVIOUS
  <2>2. \A v, u : Precedes(v, u, done) => Precedes(v, u, done')
    BY <1>3 DEF Precedes
  <2>3. \A i, j \in DOMAIN list : i < j => Precedes(list[i], list[j], done)
    BY <1>5 DEF Past
  <2>4. \A i \in DOMAIN list : stage'[list[i]] = "done"
    BY <1>2, <1>5, <2>1 DEF Past
  <2> QED
    BY <2>2, <2>3, <2>4
<1>6. ASSUME NEW v \in Writer PROVE Past(rows[v])'
  <2> PICK list : list = rows[v]
    OBVIOUS
  <2>1. list \in Seq(Writer) /\ Past(list) /\ rows'[v] = list
    BY <1>2 DEF LogIInv, LogTypeOK
  <2>2. /\ \A i \in DOMAIN list : stage'[list[i]] = "done"
        /\ \A i, j \in DOMAIN list : i < j => Precedes(list[i], list[j], done')
    BY <1>5, <2>1
  <2> QED
    BY <2>1, <2>2 DEF Past
<1>7. ASSUME log' \notin Unreadable PROVE Past(log)'
  <2> PICK list : list = rows[w]
    OBVIOUS
  <2>1. log' = Append(list, w) /\ list \in Seq(Writer) /\ Past(list)
    BY <1>7 DEF FillLog, LogIInv, LogTypeOK, Unreadable
  <2>2. \A i \in DOMAIN log' : stage'[log'[i]] = "done"
    BY <1>2, <1>5, <2>1
  <2>3. ASSUME NEW i \in DOMAIN log', NEW j \in DOMAIN log', i < j
        PROVE  Precedes(log'[i], log'[j], done')
    <3>1. i \in DOMAIN list /\ log'[i] = list[i]
      BY <2>1, <2>3
    <3>2. CASE j \in DOMAIN list
      <4>1. log'[j] = list[j]
        BY <2>1, <2>3, <3>2
      <4>2. Precedes(list[i], list[j], done')
        BY <1>5, <2>1, <2>3, <3>1, <3>2
      <4> QED
        BY <3>1, <4>1, <4>2
    <3>3. CASE j \notin DOMAIN list
      <4>1. log'[j] = w
        BY <2>1, <2>3, <3>3
      <4>2. stage[list[i]] = "done" /\ list[i] \in Writer
        BY <2>1, <3>1 DEF Past
      <4>3. PICK k \in DOMAIN done : done[k] = list[i]
        BY <4>2 DEF LogIInv, FinishersRecorded
      <4>4. /\ k \in DOMAIN done' /\ done'[k] = list[i]
            /\ Len(done') \in DOMAIN done' /\ done'[Len(done')] = w
            /\ k < Len(done')
        BY <1>2, <1>3, <4>3
      <4> QED
        BY <3>1, <4>1, <4>4 DEF Precedes
    <3> QED
      BY <3>2, <3>3
  <2> QED
    BY <2>2, <2>3 DEF Past
<1> QED
  BY <1>1, <1>4, <1>6, <1>7 DEF LogIInv, Unreadable

LEMMA LogInductive == LogIInv /\ [LogStep]_logVars => LogIInv'
<1> SUFFICES ASSUME LogIInv, [LogStep]_logVars PROVE LogIInv'
  OBVIOUS
<1>1. ASSUME NEW w \in Writer, ReadRows(w) PROVE LogIInv'
  <2>1. LogTypeOK'
    BY <1>1 DEF LogIInv, LogTypeOK, ReadRows, Writing
  <2>2. ASSUME NEW v \in Writer PROVE rows'[v] = rows[v] \/ Past(rows'[v])
    <3>1. Past(<<>>)
      BY DEF Past
    <3> QED
      BY <1>1, <3>1 DEF ReadRows, LogIInv, LogTypeOK
  <2> QED
    BY <1>1, <2>1, <2>2, QuietStep DEF ReadRows, LogIInv, LogTypeOK
<1>2. ASSUME NEW w \in Writer, TruncateLog(w) PROVE LogIInv'
  <2>1. LogTypeOK'
    BY <1>2 DEF LogIInv, LogTypeOK, TruncateLog, Unreadable
  <2> QED
    BY <1>2, <2>1, QuietStep DEF TruncateLog, LogIInv, LogTypeOK, Unreadable
<1>3. ASSUME NEW w \in Writer, KillWriter(w) PROVE LogIInv'
  <2>1. LogTypeOK'
    BY <1>3 DEF LogIInv, LogTypeOK, KillWriter
  <2> QED
    BY <1>3, <2>1, QuietStep DEF KillWriter, Writing, LogIInv, LogTypeOK
<1>4. CASE UNCHANGED logVars
  <2>1. LogTypeOK'
    BY <1>4 DEF LogIInv, LogTypeOK, logVars
  <2> QED
    BY <1>4, <2>1, QuietStep DEF logVars
<1> QED
  BY <1>1, <1>2, <1>3, <1>4, FillStep DEF LogStep, WritersStopped

LEMMA LogInvariant == LogSpec => []LogIInv
BY LogStart, LogInductive, PTL DEF LogSpec

-----------------------------------------------------------------------------
(* The log is a list of rows or unreadable, and processes only ever write    *)
(* back lists, however their reads, writes and kills interleave.             *)
THEOREM LogTypes == LogSpec => []LogTypeOK
<1>1. LogIInv => LogTypeOK
  BY DEF LogIInv
<1> QED
  BY <1>1, LogInvariant, PTL

(* A readable log holds finished processes' rows, once each, in order.      *)
THEOREM HistoryKept == LogSpec => []HistoryInOrder
<1>1. LogIInv => HistoryInOrder
  BY DEF LogIInv, HistoryInOrder, Past
<1> QED
  BY <1>1, LogInvariant, PTL

-----------------------------------------------------------------------------
(* UndisturbedRowsKept needs to know what the lone process is about to write. *)
EndsKept(list) ==
    /\ Len(kept) <= Len(list)
    /\ \A i \in 1..Len(kept) : kept[i] = list[Len(list) - Len(kept) + i]

AloneIsAlone ==
    \A w \in alone : alone = {w} /\ (w \in Writing => \A v \in Writing : v = w)

LoneWriter ==
    \A w \in alone : w \in Writing =>
        /\ EndsKept(rows[w])
        /\ stage[w] = "open" => log = Empty

LogKept ==
    kept # <<>> /\ (\A w \in Writer : stage[w] # "open") => log \notin Unreadable /\ EndsKept(log)

LogKInv == LogIInv /\ AloneIsAlone /\ LoneWriter /\ LogKept

LEMMA KeptStart == LogInit => LogKInv
BY LogStart DEF LogInit, LogKInv, AloneIsAlone, LoneWriter, LogKept

(* A process reads: the log nobody has open, or one somebody is rewriting.    *)
LEMMA KeptRead ==
    ASSUME LogKInv, NEW w \in Writer, ReadRows(w), LogIInv'
    PROVE  LogKInv'
<1>1. /\ stage[w] = "idle" /\ log' = log /\ kept' = kept
      /\ \A v \in Writer : stage'[v] = IF v = w THEN "read" ELSE stage[v]
      /\ rows'[w] = IF log \in Unreadable THEN <<>> ELSE log
      /\ LogTypeOK
  BY DEF LogKInv, LogIInv, LogTypeOK, ReadRows
<1>2. LogKept'
  BY <1>1 DEF LogKInv, LogKept, EndsKept
<1>3. CASE Writing = {}
  <2>1. alone' = {w} /\ \A v \in Writer : stage'[v] \in {"read", "open"} => v = w
    BY <1>1, <1>3 DEF ReadRows, Writing
  <2>2. AloneIsAlone'
    BY <2>1 DEF AloneIsAlone, Writing
  <2>3. \A v \in Writer : stage[v] # "open"
    BY <1>3 DEF Writing
  <2>4. EndsKept(rows[w])'
    <3>1. CASE kept = <<>>
      <4>1. Len(kept') = 0 /\ Len(rows'[w]) \in Nat
        BY <1>1, <3>1 DEF LogTypeOK
      <4> QED BY <4>1 DEF EndsKept
    <3>2. CASE kept # <<>>
      BY <1>1, <2>3, <3>2 DEF LogKInv, LogKept, EndsKept
    <3> QED BY <3>1, <3>2
  <2>5. LoneWriter'
    BY <1>1, <2>1, <2>4 DEF LoneWriter, EndsKept
  <2> QED BY <1>2, <2>2, <2>5 DEF LogKInv
<1>4. CASE Writing # {}
  <2>1. alone' = {}
    BY <1>4 DEF ReadRows
  <2> QED BY <1>2, <2>1 DEF LogKInv, AloneIsAlone, LoneWriter
<1> QED BY <1>3, <1>4

LEMMA KeptTruncate ==
    ASSUME LogKInv, NEW w \in Writer, TruncateLog(w), LogIInv'
    PROVE  LogKInv'
<1>1. /\ stage[w] = "read" /\ log' = Empty /\ rows' = rows /\ alone' = alone
      /\ \A v \in Writer : stage'[v] = IF v = w THEN "open" ELSE stage[v]
      /\ alone \subseteq Writer
      /\ kept' = IF w \in alone THEN kept ELSE <<>>
      /\ \A v \in Writer : rows[v] \in Seq(Writer)
  BY DEF LogKInv, LogIInv, LogTypeOK, TruncateLog
<1>2. AloneIsAlone'
  BY <1>1 DEF LogKInv, AloneIsAlone, Writing
<1>3. LogKept'
  BY <1>1 DEF LogKept
<1>4. LoneWriter'
  <2>1. CASE w \in alone
    BY <1>1, <2>1 DEF LogKInv, AloneIsAlone, LoneWriter, Writing, EndsKept
  <2>2. CASE w \notin alone
    <3>1. Len(kept') = 0 /\ \A v \in Writer : Len(rows'[v]) \in Nat
      BY <1>1, <2>2
    <3>2. \A v \in Writer : EndsKept(rows[v])'
      BY <3>1 DEF EndsKept
    <3> QED BY <1>1, <2>2, <3>2 DEF LogKInv, AloneIsAlone, LoneWriter, Writing
  <2> QED BY <2>1, <2>2
<1> QED BY <1>2, <1>3, <1>4 DEF LogKInv

LEMMA KeptFill ==
    ASSUME LogKInv, NEW w \in Writer, FillLog(w), LogIInv'
    PROVE  LogKInv'
<1>1. /\ stage[w] = "open" /\ rows' = rows /\ alone' = alone
      /\ \A v \in Writer : stage'[v] = IF v = w THEN "done" ELSE stage[v]
      /\ alone \subseteq Writer /\ kept \in Seq(Writer) /\ rows[w] \in Seq(Writer)
      /\ log' = Append(rows[w], w) \/ (log # Empty /\ log' = Garbled)
      /\ kept' = IF w \in alone THEN Append(kept, w) ELSE <<>>
  BY DEF LogKInv, LogIInv, LogTypeOK, FillLog
<1>2. AloneIsAlone'
  BY <1>1 DEF LogKInv, AloneIsAlone, Writing
<1>3. \A v \in alone : v \notin Writing'
  BY <1>1 DEF LogKInv, AloneIsAlone, Writing
<1>4. LoneWriter'
  BY <1>1, <1>3 DEF LoneWriter
<1>5. CASE w \in alone
  <2> PICK list : list = rows[w]
    OBVIOUS
  <2>1. w \in Writing
    BY <1>1 DEF Writing
  <2>2. log' = Append(list, w) /\ list \in Seq(Writer) /\ kept' = Append(kept, w)
    BY <1>1, <1>5, <2>1 DEF LogKInv, LoneWriter
  <2>3. Len(kept) <= Len(list) /\ \A i \in 1..Len(kept) : kept[i] = list[Len(list) - Len(kept) + i]
    BY <1>5, <2>1 DEF LogKInv, LoneWriter, EndsKept
  <2>4. /\ Len(kept') = Len(kept) + 1 /\ Len(log') = Len(list) + 1
        /\ \A i \in 1..Len(kept) : kept'[i] = kept[i]
        /\ \A i \in 1..Len(list) : log'[i] = list[i]
        /\ kept'[Len(kept) + 1] = w /\ log'[Len(list) + 1] = w
        /\ Len(kept) \in Nat /\ Len(list) \in Nat
    BY <1>1, <2>2
  <2>5. ASSUME NEW i \in 1..Len(kept') PROVE kept'[i] = log'[Len(log') - Len(kept') + i]
    <3>1. Len(log') - Len(kept') + i = Len(list) - Len(kept) + i
      BY <2>4
    <3> DEFINE k == Len(list) - Len(kept) + i
    <3>2. CASE i = Len(kept) + 1
      <4>1. k = Len(list) + 1
        <5>1. \A m, n \in Nat : n - m + (m + 1) = n + 1
          OBVIOUS
        <5>2. Len(kept) \in Nat /\ Len(list) \in Nat
          BY <2>4
        <5> QED BY <3>2, <5>1, <5>2
      <4>2. log'[k] = w
        BY <2>4, <4>1
      <4>3. kept'[i] = w
        BY <2>4, <3>2
      <4> QED BY <3>1, <4>2, <4>3
    <3>3. CASE i \in 1..Len(kept)
      <4>1. k \in 1..Len(list)
        BY <2>3, <2>4, <3>3
      <4>2. kept'[i] = kept[i] /\ kept[i] = list[k]
        BY <2>3, <2>4, <3>3
      <4>3. log'[k] = list[k]
        BY <2>4, <4>1
      <4> QED BY <3>1, <4>2, <4>3
    <3> QED BY <2>4, <3>2, <3>3
  <2>6. EndsKept(log)'
    BY <2>3, <2>4, <2>5 DEF EndsKept
  <2>7. log' \notin Unreadable
    <3>1. log' \in Seq(Writer)
      BY <2>2
    <3> QED BY <3>1, UnreadableAssumption
  <2>8. LogKept'
    BY <2>6, <2>7 DEF LogKept, Unreadable
  <2> QED BY <1>2, <1>4, <2>8 DEF LogKInv
<1>6. CASE w \notin alone
  BY <1>1, <1>2, <1>4, <1>6 DEF LogKInv, LogKept
<1> QED BY <1>5, <1>6

LEMMA KeptKill ==
    ASSUME LogKInv, NEW w \in Writer, KillWriter(w), LogIInv'
    PROVE  LogKInv'
<1>1. /\ w \in Writing /\ log' = log /\ rows' = rows /\ alone' = alone
      /\ \A v \in Writer : stage'[v] = IF v = w THEN "killed" ELSE stage[v]
      /\ alone \subseteq Writer
      /\ kept' = IF stage[w] = "open" THEN <<>> ELSE kept
  BY DEF LogKInv, LogIInv, LogTypeOK, KillWriter
<1>2. AloneIsAlone'
  BY <1>1 DEF LogKInv, AloneIsAlone, Writing
<1>3. \A v \in alone : v \notin Writing'
  BY <1>1 DEF LogKInv, AloneIsAlone, Writing
<1>4. LoneWriter'
  BY <1>1, <1>3 DEF LoneWriter
<1>5. LogKept'
  <2>1. CASE stage[w] = "open"
    BY <1>1, <2>1 DEF LogKept
  <2>2. CASE stage[w] # "open"
    BY <1>1, <2>2 DEF LogKInv, LogKept, EndsKept
  <2> QED BY <2>1, <2>2
<1> QED BY <1>2, <1>4, <1>5 DEF LogKInv

LEMMA KeptInvariant == LogSpec => []LogKInv
<1>1. LogKInv /\ [LogStep]_logVars => LogKInv'
  <2> SUFFICES ASSUME LogKInv, [LogStep]_logVars PROVE LogKInv'
    OBVIOUS
  <2>1. LogIInv'
    BY LogInductive DEF LogKInv
  <2>2. CASE UNCHANGED logVars
    BY <2>1, <2>2 DEF LogKInv, AloneIsAlone, LoneWriter, LogKept, EndsKept, Writing, logVars
  <2> QED BY <2>1, <2>2, KeptRead, KeptTruncate, KeptFill, KeptKill DEF LogStep, WritersStopped
<1> QED BY <1>1, KeptStart, PTL DEF LogSpec

(* append_telemetry: rows of processes that ran alone since the last damage   *)
(* stay, for any number of processes.                                       *)
THEOREM RowsKept == LogSpec => []UndisturbedRowsKept
<1>1. LogKInv => UndisturbedRowsKept
  <2> SUFFICES ASSUME LogKInv, kept # <<>>, \A w \in Writer : stage[w] # "open"
               PROVE  /\ log \notin Unreadable
                      /\ Len(kept) <= Len(log)
                      /\ kept = SubSeq(log, Len(log) - Len(kept) + 1, Len(log))
    BY DEF UndisturbedRowsKept
  <2>1. log \notin Unreadable /\ EndsKept(log)
    BY DEF LogKInv, LogKept
  <2>2. log \in Seq(Writer) /\ kept \in Seq(Writer) /\ Len(log) \in Nat /\ Len(kept) \in Nat
    BY <2>1 DEF LogKInv, LogIInv, LogTypeOK
  <2>3. Len(kept) <= Len(log)
    BY <2>1 DEF EndsKept
  <2> DEFINE end == SubSeq(log, Len(log) - Len(kept) + 1, Len(log))
  <2>4. end \in Seq(Writer) /\ Len(end) = Len(kept)
        /\ \A i \in 1..Len(kept) : end[i] = log[Len(log) - Len(kept) + i]
    BY <2>2, <2>3
  <2>5. kept = end
    BY <2>1, <2>2, <2>4, SeqEqual DEF EndsKept
  <2> QED BY <2>1, <2>3, <2>5
<1> QED BY <1>1, KeptInvariant, PTL

-----------------------------------------------------------------------------
(***************************************************************************)
(* What concurrent runs of orchestrator.py leave behind, for any number of  *)
(* processes, tasks and runs.                                               *)
(*                                                                         *)
(* The counter is stale or torn most of the time, and so is every process's *)
(* copy of it.  What carries the argument is that a copy falls short of the *)
(* runs that came to be counted at least by those that are still counting.  *)
(***************************************************************************)
(* The runs that have not come to count yet, and those that are counting.   *)
Early == {r \in Runner : at[r] \in {"resolved", "listed", "planned"}}
Late == [n \in TaskNames |->
            {r \in Runner : at[r] \in {"named", "loaded", "counting"} /\ mine[r].name = n}]

Short(n, runs) == runs + Cardinality(Late[n]) <= counted[n]

CountInv ==
    /\ IsFiniteSet(Early) /\ \A n \in TaskNames : IsFiniteSet(Late[n])
    /\ \A n \in TaskNames : counted[n] + Cardinality(Early) <= started /\ Short(n, 0)
    /\ Short(counter.name, counter.runs)
    /\ \A r \in Runner :
          at[r] \in {"loaded", "counting"} => Short(mine[r].read.name, mine[r].read.runs)

TypedInv == PlanTypeOK /\ CountInv

-----------------------------------------------------------------------------
LEMMA PlanStart == PlanInit => TypedInv
<1> SUFFICES ASSUME PlanInit PROVE TypedInv
  OBVIOUS
<1>1. PlanTypeOK
  BY OrchestrationAssumption DEF PlanInit, PlanTypeOK, Memory, Runs, Steps, Idle, NoRuns, TaskNames, Kinds
<1>2. Early = {} /\ \A n \in TaskNames : Late[n] = {}
  BY DEF PlanInit, Early, Late
<1>3. NoTask \in TaskNames
  BY DEF TaskNames
<1>4. IsFiniteSet({}) /\ Cardinality({}) = 0
  BY FS_EmptySet
<1>5. \A n \in TaskNames : Short(n, 0) /\ counted[n] + Cardinality(Early) <= started
  <2>1. Cardinality(Early) = 0 /\ \A n \in TaskNames : Cardinality(Late[n]) = 0
    BY <1>2, <1>4
  <2>2. started = 0 /\ \A n \in TaskNames : counted[n] = 0
    BY DEF PlanInit
  <2> QED BY <2>1, <2>2 DEF Short
<1>6. Short(counter.name, counter.runs) /\ \A r \in Runner : at[r] = "idle"
  BY <1>3, <1>5 DEF PlanInit
<1> QED
  BY <1>1, <1>2, <1>4, <1>5, <1>6 DEF TypedInv, CountInv

LEMMA Sizes ==
    ASSUME TypedInv
    PROVE  /\ Cardinality(Early) \in Nat
           /\ \A n \in TaskNames : Cardinality(Late[n]) \in Nat
           /\ started \in Nat /\ \A n \in TaskNames : counted[n] \in Nat
           /\ counter.runs \in Nat /\ counter.name \in TaskNames
           /\ \A r \in Runner : mine[r].read.runs \in Nat /\ mine[r].read.name \in TaskNames
<1>1. Cardinality(Early) \in Nat /\ \A n \in TaskNames : Cardinality(Late[n]) \in Nat
  BY FS_CardinalityType DEF TypedInv, CountInv
<1>2. Runs \subseteq Nat
  BY OrchestrationAssumption DEF Runs
<1>3. started \in Runs /\ \A n \in TaskNames : counted[n] \in Runs
  BY DEF TypedInv, PlanTypeOK
<1>4. counter.runs \in Runs /\ counter.name \in TaskNames
  BY DEF TypedInv, PlanTypeOK
<1>5. ASSUME NEW r \in Runner PROVE mine[r].read.runs \in Runs /\ mine[r].read.name \in TaskNames
  <2>1. mine[r] \in Memory
    BY DEF TypedInv, PlanTypeOK
  <2>2. mine[r].read \in [name : TaskNames, runs : Runs]
    BY <2>1 DEF Memory
  <2> QED BY <2>2
<1> QED BY <1>1, <1>2, <1>3, <1>4, <1>5

(* A step in which nobody begins, comes to count, reads or writes leaves    *)
(* every account as it is or lets it fall shorter.                          *)
LEMMA QuietCount ==
    ASSUME TypedInv, PlanTypeOK', counted' = counted, started' = started,
           Early' \subseteq Early, \A n \in TaskNames : Late'[n] \subseteq Late[n],
           counter' \in {counter, [torn |-> TRUE, name |-> NoTask, runs |-> 0]},
           \A r \in Runner : at'[r] \in {"loaded", "counting"} =>
                at[r] \in {"loaded", "counting"} /\ mine'[r].read = mine[r].read
    PROVE  CountInv'
<1>1. IsFiniteSet(Early') /\ Cardinality(Early') <= Cardinality(Early) /\ Cardinality(Early') \in Nat
  BY FS_Subset, FS_CardinalityType DEF TypedInv, CountInv
<1>2. ASSUME NEW n \in TaskNames
      PROVE  IsFiniteSet(Late'[n]) /\ Cardinality(Late'[n]) <= Cardinality(Late[n]) /\ Cardinality(Late'[n]) \in Nat
  BY FS_Subset, FS_CardinalityType DEF TypedInv, CountInv
<1>3. ASSUME NEW n \in TaskNames, NEW runs \in Nat, Short(n, runs) PROVE Short(n, runs)'
  BY <1>2, <1>3, Sizes DEF Short
<1>4. \A n \in TaskNames : counted'[n] + Cardinality(Early') <= started' /\ Short(n, 0)'
  BY <1>1, <1>3, Sizes DEF TypedInv, CountInv
<1>5. Short(counter.name, counter.runs)'
  <2>1. CASE counter' = counter
    BY <2>1, <1>3, Sizes DEF TypedInv, CountInv, Short
  <2>2. CASE counter'.name = NoTask /\ counter'.runs = 0
    BY <2>2, <1>4 DEF Short, TaskNames
  <2> QED BY <2>1, <2>2
<1>6. ASSUME NEW r \in Runner, at'[r] \in {"loaded", "counting"}
      PROVE  Short(mine[r].read.name, mine[r].read.runs)'
  BY <1>3, <1>6, Sizes DEF TypedInv, CountInv, Short
<1> QED BY <1>1, <1>2, <1>4, <1>5, <1>6 DEF CountInv

LEMMA BegunTyped ==
    ASSUME NEW run \in Runs, NEW kind \in Kinds, NEW options \in Options
    PROVE  Begun(run, kind, options) \in Memory
<1>1. options.keep \in BOOLEAN /\ options.adapters \in BOOLEAN
  BY OrchestrationAssumption
<1>2. NoTask \in TaskNames /\ NoRuns \in [name : TaskNames, runs : Runs]
  BY OrchestrationAssumption DEF NoRuns, TaskNames, Runs
<1> QED BY <1>1, <1>2 DEF Begun, Memory

(* What a run remembers, and how the two functions of runs are updated.     *)
LEMMA Remembered ==
    ASSUME PlanTypeOK, NEW r \in Runner
    PROVE  /\ mine[r] \in Memory /\ mine[r].run \in Runs /\ mine[r].kind \in Kinds
           /\ mine[r].workflow \in Workflows \cup {Unset} /\ mine[r].name \in TaskNames
           /\ \A t \in TaskNames : [mine[r] EXCEPT !.name = t] \in Memory
           /\ \A read \in [name : TaskNames, runs : Runs] : [mine[r] EXCEPT !.read = read] \in Memory
<1>1. mine[r] \in Memory
  BY DEF PlanTypeOK
<1> PICK m \in Memory : m = mine[r]
  BY <1>1
<1>2. /\ m.run \in Runs /\ m.kind \in Kinds /\ m.workflow \in Workflows \cup {Unset} /\ m.name \in TaskNames
      /\ \A t \in TaskNames : [m EXCEPT !.name = t] \in Memory
  BY DEF Memory
<1>3. \A read \in [name : TaskNames, runs : Runs] : [m EXCEPT !.read = read] \in Memory
  BY DEF Memory
<1> QED BY <1>2, <1>3

LEMMA OneMoves ==
    ASSUME PlanTypeOK, NEW r \in Runner, NEW step \in Steps, NEW m \in Memory,
           at' = [at EXCEPT ![r] = step], mine' = mine \/ mine' = [mine EXCEPT ![r] = m]
    PROVE  at' \in [Runner -> Steps] /\ mine' \in [Runner -> Memory]
<1>1. at \in [Runner -> Steps] /\ mine \in [Runner -> Memory]
  BY DEF PlanTypeOK
<1> QED BY <1>1

LEMMA TypeKept == TypedInv /\ [PlanStep]_orchestrationVars => PlanTypeOK'
<1> SUFFICES ASSUME TypedInv, [PlanStep]_orchestrationVars PROVE PlanTypeOK'
  OBVIOUS
<1> USE OrchestrationAssumption
<1>1. PlanTypeOK /\ Idle \in Memory
  BY DEF TypedInv, Memory, Idle, NoRuns, Runs, Kinds, TaskNames
<1>2. ASSUME NEW n \in TaskNames, NEW k \in Kinds, SwitchTask(n, k) PROVE PlanTypeOK'
  BY <1>1, <1>2 DEF SwitchTask, PlanTypeOK
<1>3. ASSUME NEW r \in Runner, NEW flag \in Workflows \cup {Unset}, NEW options \in Options,
             Resolve(r, flag, options)
      PROVE  PlanTypeOK'
  <2>1. started' \in Runs /\ Resolved(flag) \in Kinds
    BY <1>1, <1>3 DEF Resolve, Resolved, PlanTypeOK, Runs, Kinds
  <2>2. Begun(started', Resolved(flag), options) \in Memory
    BY <2>1, BegunTyped
  <2>3. mine' \in [Runner -> Memory]
    BY <1>1, <1>3, <2>2 DEF Resolve, PlanTypeOK
  <2> QED BY <1>1, <1>3, <2>1, <2>3 DEF Resolve, PlanTypeOK, Steps
<1>4. ASSUME NEW r \in Runner, BuildContext(r) PROVE PlanTypeOK'
  <2>1. Resolved(HandedOver(r)) \in Kinds
    BY <1>1 DEF Resolved, HandedOver, PlanTypeOK, Memory, Kinds
  <2> DEFINE kind == Resolved(HandedOver(r))
  <2>2. context' = [by |-> mine[r].run, kind |-> kind] /\ kind \in Kinds /\ mine[r].run \in Runs
    BY <1>1, <1>4, <2>1 DEF BuildContext, PlanTypeOK, Memory
  <2> HIDE DEF kind
  <2>3. context' \in [by : Runs, kind : Kinds]
    BY <2>2
  <2> QED BY <1>1, <1>4, <2>3 DEF BuildContext, PlanTypeOK, Memory, Steps
<1>0. {"idle", "planned", "named", "loaded", "counting", "tracked"} \subseteq Steps
  BY DEF Steps
<1>5. ASSUME NEW r \in Runner, ContextRefused(r) \/ Quit(r) PROVE PlanTypeOK'
  <2>1. /\ at' = [at EXCEPT ![r] = "idle"] /\ mine' = [mine EXCEPT ![r] = Idle] /\ task' = task
        /\ fallback' = fallback /\ plan' = plan /\ context' = context /\ snapshot' = snapshot
        /\ counter' = counter /\ started' = started /\ counted' = counted
    BY <1>5 DEF ContextRefused, Quit
  <2>2. at' \in [Runner -> Steps] /\ mine' \in [Runner -> Memory]
    BY <1>0, <1>1, <2>1, OneMoves
  <2> QED BY <1>1, <2>1, <2>2 DEF PlanTypeOK
<1>6. ASSUME NEW r \in Runner, WritePlan(r) PROVE PlanTypeOK'
  <2>1. /\ at' = [at EXCEPT ![r] = "planned"] /\ mine' = mine /\ task' = task
        /\ fallback' = fallback /\ context' = context /\ snapshot' = snapshot
        /\ counter' = counter /\ started' = started /\ counted' = counted
        /\ plan' = plan \/ plan' = [by |-> mine[r].run, kind |-> mine[r].kind, workflow |-> mine[r].workflow]
    BY <1>6 DEF WritePlan
  <2>2. at' \in [Runner -> Steps] /\ mine' \in [Runner -> Memory]
    BY <1>0, <1>1, <2>1, OneMoves
  <2>3. plan' \in [by : Runs, kind : Kinds, workflow : Workflows \cup {Unset}]
    BY <1>1, <2>1, Remembered DEF PlanTypeOK
  <2> QED BY <1>1, <2>1, <2>2, <2>3 DEF PlanTypeOK
<1>7. ASSUME NEW r \in Runner, ReadName(r) PROVE PlanTypeOK'
  <2>1. /\ at' = [at EXCEPT ![r] = "named"] /\ mine' = [mine EXCEPT ![r] = [mine[r] EXCEPT !.name = task.name]]
        /\ task' = task /\ fallback' = fallback /\ plan' = plan /\ context' = context /\ snapshot' = snapshot
        /\ counter' = counter /\ started' = started
        /\ counted' = [counted EXCEPT ![task.name] = counted[task.name] + 1] /\ at[r] = "planned"
    BY <1>7 DEF ReadName
  <2>2. task.name \in TaskNames /\ r \in Early /\ Early # {}
    BY <1>1, <2>1 DEF PlanTypeOK, Early
  <2>3. at' \in [Runner -> Steps] /\ mine' \in [Runner -> Memory]
    BY <1>0, <1>1, <2>1, <2>2, Remembered, OneMoves
  <2>4. Cardinality(Early) >= 1
    BY <2>2, Sizes, FS_EmptySet DEF TypedInv, CountInv
  <2>5. counted[task.name] + 1 \in Nat /\ counted[task.name] + 1 <= started
    BY <2>2, <2>4, Sizes DEF TypedInv, CountInv
  <2>6. counted[task.name] + 1 \in Runs
    BY <1>1, <2>5, Sizes DEF PlanTypeOK, Runs
  <2>7. counted' \in [TaskNames -> Runs]
    BY <1>1, <2>1, <2>2, <2>6 DEF PlanTypeOK
  <2> QED BY <1>1, <2>1, <2>3, <2>7 DEF PlanTypeOK
<1>8. ASSUME NEW r \in Runner, ReadCounter(r) PROVE PlanTypeOK'
  <2> DEFINE read == IF counter.torn THEN NoRuns ELSE [name |-> counter.name, runs |-> counter.runs]
  <2>1. read \in [name : TaskNames, runs : Runs]
    BY <1>1, Sizes DEF PlanTypeOK, NoRuns, TaskNames, Runs
  <2>2. /\ at' = [at EXCEPT ![r] = "loaded"] /\ mine' = [mine EXCEPT ![r] = [mine[r] EXCEPT !.read = read]]
        /\ task' = task /\ fallback' = fallback /\ plan' = plan /\ context' = context /\ snapshot' = snapshot
        /\ counter' = counter /\ started' = started /\ counted' = counted
    BY <1>8 DEF ReadCounter
  <2> HIDE DEF read
  <2>3. at' \in [Runner -> Steps] /\ mine' \in [Runner -> Memory]
    BY <1>0, <1>1, <2>1, <2>2, Remembered, OneMoves
  <2> QED BY <1>1, <2>2, <2>3 DEF PlanTypeOK
<1>9. ASSUME NEW r \in Runner, Truncate(r) PROVE PlanTypeOK'
  <2>1. /\ at' = [at EXCEPT ![r] = "counting"] /\ mine' = mine /\ task' = task
        /\ fallback' = fallback /\ plan' = plan /\ context' = context /\ snapshot' = snapshot
        /\ started' = started /\ counted' = counted
        /\ counter' = [torn |-> TRUE, name |-> NoTask, runs |-> 0]
    BY <1>9 DEF Truncate, Torn
  <2>2. at' \in [Runner -> Steps] /\ mine' \in [Runner -> Memory]
    BY <1>0, <1>1, <2>1, OneMoves
  <2>3. counter' \in [torn : BOOLEAN, name : TaskNames, runs : Runs]
    BY <2>1 DEF TaskNames, Runs
  <2> QED BY <1>1, <2>1, <2>2, <2>3 DEF PlanTypeOK
<1>10. ASSUME NEW r \in Runner, WriteCounter(r) PROVE PlanTypeOK'
  <2> DEFINE n == mine[r].name
             total == Total(n, mine[r].read)
  <2>1. /\ at' = [at EXCEPT ![r] = "tracked"] /\ mine' = mine /\ task' = task /\ at[r] = "counting"
        /\ fallback' = fallback /\ plan' = plan /\ context' = context /\ snapshot' = snapshot
        /\ started' = started /\ counted' = counted
        /\ counter' \in {[torn |-> FALSE, name |-> n, runs |-> total], [torn |-> TRUE, name |-> NoTask, runs |-> 0]}
    BY <1>10 DEF WriteCounter, Torn
  <2>2. n \in TaskNames /\ r \in Late[n] /\ Late[n] # {}
    BY <1>1, <2>1, Remembered DEF Late
  <2>3. Cardinality(Late[n]) >= 1
    BY <2>2, Sizes, FS_EmptySet DEF TypedInv, CountInv
  <2>4. Short(n, 0) /\ Short(mine[r].read.name, mine[r].read.runs)
    BY <2>1, <2>2 DEF TypedInv, CountInv
  <2>5. total \in Nat /\ total <= counted[n]
    BY <2>2, <2>3, <2>4, Sizes DEF Short, Total
  <2>6. total \in Runs
    BY <1>1, <2>2, <2>5 DEF PlanTypeOK, Runs
  <2> HIDE DEF n, total
  <2>7. counter' \in [torn : BOOLEAN, name : TaskNames, runs : Runs]
    <3>1. [torn |-> TRUE, name |-> NoTask, runs |-> 0] \in [torn : BOOLEAN, name : TaskNames, runs : Runs]
      BY OrchestrationAssumption DEF TaskNames, Runs
    <3>2. [torn |-> FALSE, name |-> n, runs |-> total] \in [torn : BOOLEAN, name : TaskNames, runs : Runs]
      BY <2>2, <2>6
    <3> QED BY <2>1, <3>1, <3>2
  <2>8. at' \in [Runner -> Steps] /\ mine' \in [Runner -> Memory]
    BY <1>0, <1>1, <2>1, OneMoves
  <2> QED BY <1>1, <2>1, <2>7, <2>8 DEF PlanTypeOK
<1>11. ASSUME NEW r \in Runner, RunAdapters(r) PROVE PlanTypeOK'
  <2>1. /\ at' = [at EXCEPT ![r] = "idle"] /\ mine' = [mine EXCEPT ![r] = Idle] /\ task' = task
        /\ fallback' = fallback /\ plan' = plan /\ context' = context
        /\ counter' = counter /\ started' = started /\ counted' = counted
        /\ snapshot' = snapshot \/ snapshot' = mine[r].run
    BY <1>11 DEF RunAdapters
  <2>2. at' \in [Runner -> Steps] /\ mine' \in [Runner -> Memory]
    BY <1>0, <1>1, <2>1, OneMoves
  <2>3. snapshot' \in Runs
    BY <1>1, <2>1, Remembered DEF PlanTypeOK
  <2> QED BY <1>1, <2>1, <2>2, <2>3 DEF PlanTypeOK
<1>12. CASE UNCHANGED orchestrationVars
  BY <1>1, <1>12 DEF orchestrationVars, PlanTypeOK
<1> QED
  BY <1>2, <1>3, <1>4, <1>5, <1>6, <1>7, <1>8, <1>9, <1>10, <1>11, <1>12 DEF PlanStep, Advance

(* What an action does to the sets of processes, from what it does to one.  *)
LEMMA Moves ==
    ASSUME TypedInv, NEW r \in Runner, NEW step \in Steps,
           at' = [at EXCEPT ![r] = step]
    PROVE  /\ \A q \in Runner : at'[q] = IF q = r THEN step ELSE at[q]
           /\ step \notin {"resolved", "listed", "planned"} => Early' = Early \ {r}
           /\ step \in {"resolved", "listed", "planned"} => Early' = Early \cup {r}
BY DEF TypedInv, PlanTypeOK, Early

LEMMA LateStays ==
    ASSUME TypedInv, NEW r \in Runner, NEW step \in Steps, at' = [at EXCEPT ![r] = step],
           \A q \in Runner \ {r} : mine'[q] = mine[q],
           step \in {"named", "loaded", "counting"} =>
                at[r] \in {"named", "loaded", "counting"} /\ mine'[r].name = mine[r].name
    PROVE  \A n \in TaskNames : Late'[n] \subseteq Late[n]
<1> TAKE n \in TaskNames
<1> SUFFICES ASSUME NEW q \in Late'[n] PROVE q \in Late[n]
  OBVIOUS
<1>1. q \in Runner /\ at'[q] \in {"named", "loaded", "counting"} /\ mine'[q].name = n
  BY DEF Late
<1>2. CASE q = r
  BY <1>1, <1>2 DEF Late, TypedInv, PlanTypeOK
<1>3. CASE q # r
  BY <1>1, <1>3 DEF Late, TypedInv, PlanTypeOK
<1> QED BY <1>2, <1>3

LEMMA CountKept == TypedInv /\ [PlanStep]_orchestrationVars => CountInv'
<1> SUFFICES ASSUME TypedInv, [PlanStep]_orchestrationVars PROVE CountInv'
  OBVIOUS
<1>0. PlanTypeOK /\ PlanTypeOK' /\ CountInv /\ NoTask \in TaskNames
  BY TypeKept DEF TypedInv, TaskNames
<1>1. CASE (\E n \in TaskNames, k \in Kinds : SwitchTask(n, k)) \/ UNCHANGED orchestrationVars
  <2>1. at' = at /\ mine' = mine /\ counter' = counter /\ started' = started /\ counted' = counted
    BY <1>1 DEF SwitchTask, orchestrationVars
  <2>2. Early' = Early /\ Late' = Late
    BY <2>1 DEF Early, Late
  <2> QED BY <1>0, <2>1, <2>2, QuietCount
<1>2. ASSUME NEW r \in Runner, NEW flag \in Workflows \cup {Unset}, NEW options \in Options,
             Resolve(r, flag, options)
      PROVE  CountInv'
  <2>1. /\ at' = [at EXCEPT ![r] = "resolved"] /\ at[r] = "idle"
        /\ started' = started + 1 /\ counted' = counted /\ counter' = counter
        /\ \A q \in Runner \ {r} : mine'[q] = mine[q]
    BY <1>0, <1>2 DEF Resolve, PlanTypeOK
  <2>2. Early' = Early \cup {r} /\ \A n \in TaskNames : Late'[n] \subseteq Late[n]
    BY <2>1, Moves, LateStays DEF Steps
  <2>3. IsFiniteSet(Early') /\ Cardinality(Early') <= Cardinality(Early) + 1 /\ Cardinality(Early') \in Nat
    <3>1. IsFiniteSet(Early)
      BY <1>0 DEF CountInv
    <3>2. /\ IsFiniteSet(Early \cup {r})
          /\ Cardinality(Early \cup {r}) = IF r \in Early THEN Cardinality(Early) ELSE Cardinality(Early) + 1
      BY <3>1, FS_AddElement
    <3> QED BY <2>2, <3>2, Sizes
  <2>4. ASSUME NEW n \in TaskNames
        PROVE  IsFiniteSet(Late'[n]) /\ Cardinality(Late'[n]) <= Cardinality(Late[n]) /\ Cardinality(Late'[n]) \in Nat
    BY <1>0, <2>2, FS_Subset, FS_CardinalityType DEF CountInv
  <2>5. ASSUME NEW n \in TaskNames, NEW runs \in Nat, Short(n, runs) PROVE Short(n, runs)'
    BY <2>1, <2>4, <2>5, Sizes DEF Short
  <2>6. \A n \in TaskNames : counted'[n] + Cardinality(Early') <= started' /\ Short(n, 0)'
    BY <1>0, <2>1, <2>3, <2>5, Sizes DEF CountInv
  <2>7. Short(counter.name, counter.runs)'
    BY <1>0, <2>1, <2>5, Sizes DEF CountInv, Short
  <2>8. ASSUME NEW q \in Runner, at'[q] \in {"loaded", "counting"}
        PROVE  Short(mine[q].read.name, mine[q].read.runs)'
    <3>1. q # r /\ at[q] \in {"loaded", "counting"} /\ mine'[q] = mine[q]
      BY <1>0, <2>1, <2>8 DEF PlanTypeOK
    <3> QED BY <1>0, <2>5, <3>1, Sizes DEF CountInv, Short
  <2> QED BY <2>3, <2>4, <2>6, <2>7, <2>8 DEF CountInv
<1>3. ASSUME NEW r \in Runner,
             BuildContext(r) \/ ContextRefused(r) \/ WritePlan(r) \/ Truncate(r) \/ RunAdapters(r) \/ Quit(r)
      PROVE  CountInv'
  <2>1. PICK step \in {"idle", "listed", "planned", "counting"} :
          /\ at' = [at EXCEPT ![r] = step]
          /\ step \in {"listed", "planned"} => r \in Early
          /\ step = "counting" => at[r] = "loaded" /\ mine' = mine
    BY <1>3 DEF BuildContext, ContextRefused, WritePlan, Truncate, RunAdapters, Quit, Early
  <2>2. /\ \A q \in Runner \ {r} : mine'[q] = mine[q]
        /\ started' = started /\ counted' = counted
        /\ counter' \in {counter, [torn |-> TRUE, name |-> NoTask, runs |-> 0]}
    BY <1>0, <1>3 DEF BuildContext, ContextRefused, WritePlan, Truncate, Torn, RunAdapters, Quit, PlanTypeOK
  <2>3. Early' \subseteq Early /\ \A n \in TaskNames : Late'[n] \subseteq Late[n]
    <3>1. step \in Steps
      BY DEF Steps
    <3>2. Early' \subseteq Early
      BY <2>1, <3>1, Moves
    <3>3. step \in {"named", "loaded", "counting"} =>
              at[r] \in {"named", "loaded", "counting"} /\ mine'[r].name = mine[r].name
      BY <2>1
    <3> QED BY <2>1, <2>2, <3>1, <3>2, <3>3, LateStays
  <2>4. \A q \in Runner : at'[q] \in {"loaded", "counting"} =>
             at[q] \in {"loaded", "counting"} /\ mine'[q].read = mine[q].read
    BY <1>0, <2>1, <2>2 DEF PlanTypeOK
  <2> QED BY <1>0, <2>2, <2>3, <2>4, QuietCount
<1>4. ASSUME NEW r \in Runner, ReadName(r) PROVE CountInv'
  <2> DEFINE n == task.name
  <2>1. /\ at' = [at EXCEPT ![r] = "named"] /\ at[r] = "planned" /\ mine' = [mine EXCEPT ![r].name = n]
        /\ started' = started /\ counter' = counter /\ n \in TaskNames
        /\ counted' = [counted EXCEPT ![n] = @ + 1]
    BY <1>0, <1>4 DEF ReadName, PlanTypeOK
  <2>2. \A q \in Runner : mine'[q].read = mine[q].read /\ (q # r => mine'[q].name = mine[q].name)
    BY <1>0, <2>1 DEF PlanTypeOK, Memory
  <2>3. mine'[r].name = n
    BY <1>0, <2>1 DEF PlanTypeOK, Memory
  <2>4. r \in Early /\ Early' = Early \ {r}
    BY <2>1, Moves DEF Steps, Early
  <2>5. IsFiniteSet(Early') /\ Cardinality(Early') = Cardinality(Early) - 1
    BY <1>0, <2>4, FS_RemoveElement DEF CountInv
  <2>6. ASSUME NEW k \in TaskNames PROVE Late'[k] = IF k = n THEN Late[k] \cup {r} ELSE Late[k]
    <3>1. \A q \in Runner : q \in Late'[k] <=> q \in Late[k] \/ (q = r /\ k = n)
      BY <1>0, <2>1, <2>2, <2>3 DEF Late, PlanTypeOK
    <3> QED BY <3>1 DEF Late
  <2>7. r \notin Late[n]
    BY <2>1 DEF Late
  <2>8. ASSUME NEW k \in TaskNames
        PROVE  IsFiniteSet(Late'[k]) /\ Cardinality(Late'[k]) = IF k = n THEN Cardinality(Late[k]) + 1 ELSE Cardinality(Late[k])
    <3>1. IsFiniteSet(Late[k])
      BY <1>0 DEF CountInv
    <3>2. /\ IsFiniteSet(Late[k] \cup {r})
          /\ Cardinality(Late[k] \cup {r}) = IF r \in Late[k] THEN Cardinality(Late[k]) ELSE Cardinality(Late[k]) + 1
      BY <3>1, FS_AddElement
    <3> QED BY <2>6, <2>7, <3>1, <3>2
  <2>9. \A k \in TaskNames : counted'[k] = IF k = n THEN counted[k] + 1 ELSE counted[k]
    BY <1>0, <2>1 DEF PlanTypeOK
  <2>10. ASSUME NEW k \in TaskNames, NEW runs \in Nat, Short(k, runs) PROVE Short(k, runs)'
    BY <2>8, <2>9, <2>10, Sizes DEF Short
  <2>11. \A k \in TaskNames : counted'[k] + Cardinality(Early') <= started' /\ Short(k, 0)'
    BY <1>0, <2>1, <2>5, <2>9, <2>10, Sizes DEF CountInv
  <2>12. Short(counter.name, counter.runs)'
    BY <1>0, <2>1, <2>10, Sizes DEF CountInv, Short
  <2>13. ASSUME NEW q \in Runner, at'[q] \in {"loaded", "counting"}
         PROVE  Short(mine[q].read.name, mine[q].read.runs)'
    <3>1. at[q] \in {"loaded", "counting"} /\ mine'[q].read = mine[q].read
      BY <1>0, <2>1, <2>2, <2>13 DEF PlanTypeOK
    <3> QED BY <1>0, <2>10, <3>1, Sizes DEF CountInv, Short
  <2> QED BY <2>5, <2>8, <2>11, <2>12, <2>13 DEF CountInv
<1>5. ASSUME NEW r \in Runner, ReadCounter(r) PROVE CountInv'
  <2> DEFINE read == IF counter.torn THEN NoRuns ELSE [name |-> counter.name, runs |-> counter.runs]
  <2>1. /\ at' = [at EXCEPT ![r] = "loaded"] /\ at[r] = "named" /\ mine' = [mine EXCEPT ![r].read = read]
        /\ started' = started /\ counter' = counter /\ counted' = counted
    BY <1>5 DEF ReadCounter
  <2>2. \A q \in Runner : mine'[q].name = mine[q].name /\ (q # r => mine'[q].read = mine[q].read)
    BY <1>0, <2>1 DEF PlanTypeOK, Memory
  <2>3. mine'[r].read = read
    BY <1>0, <2>1 DEF PlanTypeOK, Memory
  <2>4. Early' = Early
    BY <2>1, Moves DEF Steps, Early
  <2>5. ASSUME NEW k \in TaskNames PROVE Late'[k] = Late[k]
    <3>1. \A q \in Runner : q \in Late'[k] <=> q \in Late[k]
      BY <1>0, <2>1, <2>2 DEF Late, PlanTypeOK
    <3> QED BY <3>1 DEF Late
  <2>6. Short(read.name, read.runs)
    BY <1>0 DEF CountInv, NoRuns
  <2>7. ASSUME NEW q \in Runner, at'[q] \in {"loaded", "counting"}
        PROVE  Short(mine[q].read.name, mine[q].read.runs)'
    <3>1. CASE q = r
      <4>1. read.name \in TaskNames
        BY <1>0, Sizes DEF NoRuns
      <4> QED BY <2>1, <2>3, <2>5, <2>6, <3>1, <4>1 DEF Short
    <3>2. CASE q # r
      <4>1. at[q] \in {"loaded", "counting"} /\ mine'[q].read = mine[q].read
        BY <1>0, <2>1, <2>2, <2>7, <3>2 DEF PlanTypeOK
      <4> QED BY <1>0, <2>1, <2>5, <4>1, Sizes DEF CountInv, Short
    <3> QED BY <3>1, <3>2
  <2>8. \A k \in TaskNames : Short(k, 0)' /\ IsFiniteSet(Late'[k])
    BY <1>0, <2>1, <2>5 DEF CountInv, Short
  <2>9. Short(counter.name, counter.runs)'
    BY <1>0, <2>1, <2>5, Sizes DEF CountInv, Short
  <2> QED BY <1>0, <2>1, <2>4, <2>7, <2>8, <2>9 DEF CountInv
<1>6. ASSUME NEW r \in Runner, WriteCounter(r) PROVE CountInv'
  <2> DEFINE n == mine[r].name
             total == Total(n, mine[r].read)
  <2>1. /\ at' = [at EXCEPT ![r] = "tracked"] /\ at[r] = "counting" /\ mine' = mine
        /\ started' = started /\ counted' = counted
        /\ \/ counter'.name = n /\ counter'.runs = total
           \/ counter'.name = NoTask /\ counter'.runs = 0
    BY <1>6 DEF WriteCounter, Torn
  <2>2. n \in TaskNames /\ r \in Late[n]
    BY <1>0, <2>1 DEF PlanTypeOK, Memory, Late
  <2>3. Early' = Early
    BY <2>1, Moves DEF Steps, Early
  <2>4. ASSUME NEW k \in TaskNames PROVE Late'[k] = Late[k] \ {r}
    <3>1. \A q \in Runner : q \in Late'[k] <=> q \in Late[k] /\ q # r
      BY <1>0, <2>1 DEF Late, PlanTypeOK
    <3> QED BY <3>1 DEF Late
  <2>5. ASSUME NEW k \in TaskNames
        PROVE  IsFiniteSet(Late'[k]) /\ Cardinality(Late'[k]) <= Cardinality(Late[k]) /\ Cardinality(Late'[k]) \in Nat
    <3>1. IsFiniteSet(Late[k])
      BY <1>0 DEF CountInv
    <3>2. /\ IsFiniteSet(Late[k] \ {r})
          /\ Cardinality(Late[k] \ {r}) = IF r \in Late[k] THEN Cardinality(Late[k]) - 1 ELSE Cardinality(Late[k])
      BY <3>1, FS_RemoveElement
    <3>3. Cardinality(Late[k] \ {r}) \in Nat
      BY <3>2, FS_CardinalityType
    <3>4. Cardinality(Late[k]) \in Nat
      BY <3>1, FS_CardinalityType
    <3>5. Late'[k] = Late[k] \ {r}
      BY <2>4
    <3> QED BY <3>2, <3>3, <3>4, <3>5
  <2>6. Cardinality(Late'[n]) = Cardinality(Late[n]) - 1
    BY <1>0, <2>2, <2>4, FS_RemoveElement DEF CountInv
  <2>7. ASSUME NEW k \in TaskNames, NEW runs \in Nat, Short(k, runs) PROVE Short(k, runs)'
    BY <2>1, <2>5, <2>7, Sizes DEF Short
  <2>8. \A k \in TaskNames : counted'[k] + Cardinality(Early') <= started' /\ Short(k, 0)'
    BY <1>0, <2>1, <2>3, <2>7 DEF CountInv
  <2>9. Short(n, 0) /\ Short(mine[r].read.name, mine[r].read.runs)
    BY <1>0, <2>1, <2>2 DEF CountInv
  <2>10. total + Cardinality(Late'[n]) <= counted[n]
    BY <2>2, <2>6, <2>9, Sizes DEF Total, Short
  <2>11. Short(counter.name, counter.runs)'
    <3>1. Short(NoTask, 0)'
      BY <2>8 DEF TaskNames
    <3> QED BY <2>1, <2>10, <3>1 DEF Short
  <2>12. ASSUME NEW q \in Runner, at'[q] \in {"loaded", "counting"}
         PROVE  Short(mine[q].read.name, mine[q].read.runs)'
    <3>1. at[q] \in {"loaded", "counting"}
      BY <1>0, <2>1, <2>12 DEF PlanTypeOK
    <3> QED BY <1>0, <2>1, <2>7, <3>1, Sizes DEF CountInv, Short
  <2> QED BY <1>0, <2>3, <2>5, <2>8, <2>11, <2>12 DEF CountInv
<1> QED BY <1>1, <1>2, <1>3, <1>4, <1>5, <1>6 DEF PlanStep, Advance

(* The types of everything the runs share.                                  *)
THEOREM PlanTypes == PlanSpec => []PlanTypeOK
<1>1. TypedInv /\ [PlanStep]_orchestrationVars => TypedInv'
  BY TypeKept, CountKept DEF TypedInv
<1>2. TypedInv => PlanTypeOK
  BY DEF TypedInv
<1> QED BY <1>1, <1>2, PlanStart, PTL DEF PlanSpec

(* _track_orchestrator_run: however the runs of it interleave or stop, the  *)
(* counter shows at most the runs that came to count that task.             *)
THEOREM CountedOnce == PlanSpec => []NoRunCountedTwice
<1>1. TypedInv /\ [PlanStep]_orchestrationVars => TypedInv'
  BY TypeKept, CountKept DEF TypedInv
<1>2. TypedInv => NoRunCountedTwice
  BY Sizes DEF TypedInv, CountInv, Short, NoRunCountedTwice
<1> QED BY <1>1, <1>2, PlanStart, PTL DEF PlanSpec

-----------------------------------------------------------------------------
(* The plan and the read list.  A number belongs to one run, and a run's     *)
(* read list is there before its plan: so no run writes a read list under a *)
(* plan of its own, and the plan it writes is for the type of that list.    *)
OneNumberEach ==
    \A r, q \in Runner : at[r] # "idle" /\ at[q] # "idle" /\ mine[r].run = mine[q].run => r = q
NumbersKnown ==
    /\ \A r \in Runner : at[r] # "idle" => mine[r].run \in 1..started
    /\ plan.by <= started /\ context.by <= started
PlanComesLast ==
    \A r \in Runner : at[r] \in {"resolved", "listed"} => plan.by # mine[r].run
ListIsForItsType ==
    \A r \in Runner :
        at[r] = "listed" /\ context.by = mine[r].run /\ mine[r].kind # Unset => context.kind = mine[r].kind

PlanInv == PlanTypeOK /\ OneNumberEach /\ NumbersKnown /\ PlanComesLast /\ ListIsForItsType /\ PlanMatchesContext

LEMMA PlanInvStart == PlanInit => PlanInv
<1> SUFFICES ASSUME PlanInit PROVE PlanInv
  OBVIOUS
<1>1. PlanTypeOK
  BY PlanStart DEF TypedInv
<1>2. \A r \in Runner : at[r] = "idle"
  BY DEF PlanInit
<1>3. plan.by = 0 /\ context.by = 0 /\ started = 0 /\ plan.kind = Unset
  BY DEF PlanInit
<1> QED
  BY <1>1, <1>2, <1>3
     DEF PlanInv, OneNumberEach, NumbersKnown, PlanComesLast, ListIsForItsType, PlanMatchesContext

(* A run that goes on, or ends, without touching the plan and the list.     *)
LEMMA QuietPlan ==
    ASSUME PlanInv, PlanTypeOK', plan' = plan, context' = context, started' = started,
           \A r \in Runner : at'[r] # "idle" =>
                /\ at[r] # "idle" /\ mine'[r].run = mine[r].run /\ mine'[r].kind = mine[r].kind
                /\ at'[r] \in {"resolved", "listed"} => at'[r] = at[r]
    PROVE  PlanInv'
BY DEF PlanInv, OneNumberEach, NumbersKnown, PlanComesLast, ListIsForItsType, PlanMatchesContext

LEMMA PlanKept == PlanInv /\ PlanTypeOK' /\ [PlanStep]_orchestrationVars => PlanInv'
<1> SUFFICES ASSUME PlanInv, PlanTypeOK', [PlanStep]_orchestrationVars PROVE PlanInv'
  OBVIOUS
<1>0. PlanTypeOK
  BY DEF PlanInv
<1>1. CASE (\E n \in TaskNames, k \in Kinds : SwitchTask(n, k)) \/ UNCHANGED orchestrationVars
  <2>1. at' = at /\ mine' = mine /\ plan' = plan /\ context' = context /\ started' = started
    BY <1>1 DEF SwitchTask, orchestrationVars
  <2> QED BY <2>1, QuietPlan
<1>2. ASSUME NEW r \in Runner, NEW flag \in Workflows \cup {Unset}, NEW options \in Options,
             Resolve(r, flag, options)
      PROVE  PlanInv'
  <2>1. /\ at' = [at EXCEPT ![r] = "resolved"] /\ at[r] = "idle"
        /\ started' = started + 1 /\ plan' = plan /\ context' = context
        /\ mine' = [mine EXCEPT ![r] = Begun(started', Resolved(flag), options)]
    BY <1>2 DEF Resolve
  <2>2. mine'[r].run = started + 1 /\ \A q \in Runner \ {r} : mine'[q] = mine[q] /\ at'[q] = at[q]
    BY <1>0, <2>1 DEF PlanTypeOK, Begun
  <2>3. started \in Nat /\ plan.by \in Nat /\ context.by \in Nat /\ \A q \in Runner : mine[q].run \in Nat
    BY <1>0, OrchestrationAssumption DEF PlanTypeOK, Memory, Runs
  <2>4. OneNumberEach' /\ NumbersKnown'
    BY <1>0, <2>1, <2>2, <2>3 DEF PlanInv, OneNumberEach, NumbersKnown, PlanTypeOK
  <2>5. PlanComesLast'
    BY <1>0, <2>1, <2>2, <2>3 DEF PlanInv, NumbersKnown, PlanComesLast, PlanTypeOK
  <2>6. ListIsForItsType' /\ PlanMatchesContext'
    BY <1>0, <2>1, <2>2 DEF PlanInv, ListIsForItsType, PlanMatchesContext, PlanTypeOK
  <2> QED BY <2>4, <2>5, <2>6 DEF PlanInv
<1>3. ASSUME NEW r \in Runner, BuildContext(r) PROVE PlanInv'
  <2> DEFINE kind == Resolved(HandedOver(r))
  <2>1. /\ at' = [at EXCEPT ![r] = "listed"] /\ at[r] = "resolved" /\ mine' = mine
        /\ started' = started /\ plan' = plan /\ context'.by = mine[r].run /\ context'.kind = kind
    BY <1>3 DEF BuildContext
  <2>2. mine[r].kind # Unset => kind = mine[r].kind
    BY DEF Resolved, HandedOver
  <2> HIDE DEF kind
  <2>3. plan.by # mine[r].run /\ mine[r].run \in 1..started
    BY <2>1 DEF PlanInv, PlanComesLast, NumbersKnown
  <2>4. OneNumberEach' /\ NumbersKnown' /\ PlanComesLast'
    BY <1>0, <2>1, <2>3 DEF PlanInv, OneNumberEach, NumbersKnown, PlanComesLast, PlanTypeOK, Runs
  <2>5. ListIsForItsType'
    BY <1>0, <2>1, <2>2 DEF PlanInv, OneNumberEach, ListIsForItsType, PlanTypeOK
  <2>6. PlanMatchesContext'
    BY <2>1, <2>3 DEF PlanMatchesContext
  <2> QED BY <2>4, <2>5, <2>6 DEF PlanInv
<1>4. ASSUME NEW r \in Runner, WritePlan(r) PROVE PlanInv'
  <2>1. /\ at' = [at EXCEPT ![r] = "planned"] /\ at[r] = "listed" /\ mine' = mine
        /\ started' = started /\ context' = context
        /\ \/ plan' = plan
           \/ plan'.by = mine[r].run /\ plan'.kind = mine[r].kind
    BY <1>4 DEF WritePlan
  <2>2. mine[r].run \in 1..started
    BY <2>1 DEF PlanInv, NumbersKnown
  <2>3. OneNumberEach' /\ NumbersKnown'
    BY <1>0, <2>1, <2>2 DEF PlanInv, OneNumberEach, NumbersKnown, PlanTypeOK
  <2>4. PlanComesLast' /\ ListIsForItsType'
    BY <1>0, <2>1 DEF PlanInv, OneNumberEach, PlanComesLast, ListIsForItsType, PlanTypeOK
  <2>5. PlanMatchesContext'
    BY <2>1 DEF PlanInv, ListIsForItsType, PlanMatchesContext
  <2> QED BY <2>3, <2>4, <2>5 DEF PlanInv
<1>5. ASSUME NEW r \in Runner, Truncate(r) \/ WriteCounter(r) \/ ReadName(r) \/ ReadCounter(r) PROVE PlanInv'
  <2>1. /\ plan' = plan /\ context' = context /\ started' = started
        /\ \E step \in Steps \ {"idle", "resolved", "listed"} : at' = [at EXCEPT ![r] = step]
        /\ at[r] # "idle"
    BY <1>5 DEF Truncate, WriteCounter, ReadName, ReadCounter, Steps
  <2>2. \A q \in Runner : mine'[q].run = mine[q].run /\ mine'[q].kind = mine[q].kind
    <3>1. CASE Truncate(r) \/ WriteCounter(r)
      BY <3>1 DEF Truncate, WriteCounter
    <3>2. CASE ReadName(r)
      BY <1>0, <3>2 DEF ReadName, PlanTypeOK, Memory
    <3>3. CASE ReadCounter(r)
      BY <1>0, <3>3 DEF ReadCounter, PlanTypeOK, Memory
    <3> QED BY <1>5, <3>1, <3>2, <3>3
  <2>3. \A q \in Runner : at'[q] # "idle" =>
            at[q] # "idle" /\ (at'[q] \in {"resolved", "listed"} => at'[q] = at[q])
    BY <1>0, <2>1 DEF PlanTypeOK
  <2> QED BY <2>1, <2>2, <2>3, QuietPlan
<1>6. ASSUME NEW r \in Runner, ContextRefused(r) \/ RunAdapters(r) \/ Quit(r) PROVE PlanInv'
  <2>1. /\ plan' = plan /\ context' = context /\ started' = started
        /\ at' = [at EXCEPT ![r] = "idle"] /\ mine' = [mine EXCEPT ![r] = Idle]
    BY <1>6 DEF ContextRefused, RunAdapters, Quit
  <2>2. \A q \in Runner : at'[q] # "idle" => at'[q] = at[q] /\ mine'[q] = mine[q]
    BY <1>0, <2>1 DEF PlanTypeOK
  <2> QED BY <2>1, <2>2, QuietPlan
<1> QED BY <1>1, <1>2, <1>3, <1>4, <1>5, <1>6 DEF PlanStep, Advance

(* The plan and the read list a run left behind are for one task type,      *)
(* whoever switches tasks or runs orchestrator.py in the meantime.          *)
THEOREM PlanAndListAgree == PlanSpec => []PlanMatchesContext
<1>1. PlanInv => PlanMatchesContext
  BY DEF PlanInv
<1> QED BY <1>1, PlanTypes, PlanInvStart, PlanKept, PTL DEF PlanSpec

-----------------------------------------------------------------------------
(* The guess is in the file, with its confirmation asked for: the guard of  *)
(* the hook reads the file, not who wrote it.                               *)
GuessIsMarked ==
    author = "guess" => config.exists /\ config.typed /\ config.confirmed = "false"

\* What is staged and still on disk has the author of what is on disk.
IndexIsFile == staged.current => staged.author = author

ConfigRecord ==
    config = [exists |-> config.exists, typed |-> config.typed, type |-> config.type,
              confirmed |-> config.confirmed, adapter |-> config.adapter]

SetupIInv == ConfigRecord /\ (config.typed => config.exists) /\ GuessIsMarked /\ IndexIsFile /\ GuessNeverPasses

-----------------------------------------------------------------------------
LEMMA SetupStart == SetupInit => SetupIInv
BY DEF SetupInit, SetupIInv, ConfigRecord, GuessIsMarked, IndexIsFile, GuessNeverPasses, NoFile

LEMMA WrittenIsStale == SetupIInv /\ ConfigWritten => IndexIsFile'
<1> SUFFICES ASSUME SetupIInv, ConfigWritten PROVE IndexIsFile'
  OBVIOUS
<1>1. staged' = [staged EXCEPT !.current = FALSE]
  BY DEF ConfigWritten
<1>2. ~ staged'.current
  BY <1>1
<1> QED BY <1>2 DEF IndexIsFile

(* A guess, wherever it goes, leaves a marked type, or no type.             *)
LEMMA GuessMarks ==
    ASSUME SetupIInv, NEW type, NEW suggested, config' = Applied(type, suggested),
           author' = IF config'.typed THEN "guess" ELSE author
    PROVE  ConfigRecord' /\ (config'.typed => config'.exists) /\ GuessIsMarked'
<1>1. CASE ~config.exists
  BY <1>1 DEF Applied, ConfigRecord, GuessIsMarked
<1>2. CASE config.exists /\ config.typed
  <2>1. config' = [exists |-> config.exists, typed |-> config.typed, type |-> type,
                   confirmed |-> "false", adapter |-> config.adapter]
    BY <1>2 DEF Applied, MarkUnconfirmed, SetupIInv, ConfigRecord
  <2> QED BY <1>2, <2>1 DEF ConfigRecord, GuessIsMarked
<1>3. CASE config.exists /\ ~config.typed
  <2>1. config' = [exists |-> config.exists, typed |-> config.typed, type |-> config.type,
                   confirmed |-> IF config.confirmed # "absent" THEN "false" ELSE config.confirmed,
                   adapter |-> config.adapter]
    BY <1>3 DEF Applied, MarkUnconfirmed, SetupIInv, ConfigRecord
  <2> QED BY <1>3, <2>1 DEF ConfigRecord, GuessIsMarked, SetupIInv
<1> QED BY <1>1, <1>2, <1>3

LEMMA SetupKept == SetupIInv /\ [SetupStep]_setupVars => SetupIInv'
<1> SUFFICES ASSUME SetupIInv, [SetupStep]_setupVars PROVE SetupIInv'
  OBVIOUS
<1> USE DEF SetupIInv
<1>1. ASSUME NEW s \in Evidence, Find(s) PROVE SetupIInv'
  BY <1>1 DEF Find, ConfigRecord, GuessIsMarked, IndexIsFile, GuessNeverPasses
<1>2. ASSUME NEW t \in Types, NEW inGit \in BOOLEAN, InitProject(t, inGit) PROVE SetupIInv'
  BY <1>2, WrittenIsStale DEF InitProject, NoFile, ConfigRecord, GuessIsMarked, GuessNeverPasses
<1>3. ASSUME NEW scan \in BOOLEAN, NEW told \in BOOLEAN, NEW force \in BOOLEAN, Apply(scan, told, force)
      PROVE  SetupIInv'
  <2>1. PICK type, suggested :
            /\ config' = Applied(type, suggested)
            /\ author' = IF config'.typed THEN "guess" ELSE author
            /\ ConfigWritten /\ committed' = committed
    BY <1>3 DEF Apply
  <2> QED BY <2>1, GuessMarks, WrittenIsStale DEF GuessNeverPasses
<1>4. ASSUME NEW ts \in HandTypes, WriteType(ts) PROVE SetupIInv'
  BY <1>4, WrittenIsStale DEF WriteType, ConfigRecord, GuessIsMarked, GuessNeverPasses
<1>5. ASSUME NEW line \in {"absent", "true"}, Confirm(line) PROVE SetupIInv'
  BY <1>5, WrittenIsStale DEF Confirm, ConfigRecord, GuessIsMarked, GuessNeverPasses
<1>6. CASE InstallHook
  BY <1>6 DEF InstallHook, ConfigRecord, GuessIsMarked, IndexIsFile, GuessNeverPasses
<1>7. CASE Stage
  BY <1>7 DEF Stage, ConfigRecord, GuessIsMarked, IndexIsFile, GuessNeverPasses
<1>8. CASE Commit
  <2>1. /\ config.confirmed # "false"
        /\ committed' = [author |-> staged.author, judged |-> IF staged.current THEN "this" ELSE "another"]
        /\ config' = config /\ author' = author /\ staged' = staged
    BY <1>8 DEF Commit, Committing, ConfirmationGuard
  <2>2. author # "guess"
    BY <2>1 DEF GuessIsMarked
  <2>3. GuessNeverPasses'
    BY <2>1, <2>2 DEF GuessNeverPasses, IndexIsFile
  <2> QED BY <2>1, <2>3 DEF ConfigRecord, GuessIsMarked, IndexIsFile
<1>9. CASE CommitUnjudged
  BY <1>9 DEF CommitUnjudged, Committing, ConfigRecord, GuessIsMarked, IndexIsFile, GuessNeverPasses
<1>10. CASE UNCHANGED setupVars
  BY <1>10 DEF setupVars, ConfigRecord, GuessIsMarked, IndexIsFile, GuessNeverPasses
<1> QED BY <1>1, <1>2, <1>3, <1>4, <1>5, <1>6, <1>7, <1>8, <1>9, <1>10 DEF SetupStep

(* The hook passes no configuration with a type that detect_type.py guessed *)
(* and no person has looked at (pre-commit:323-332): one that is committed   *)
(* was not the text it read, or it judged nothing.                          *)
THEOREM ConfirmedFirst == SetupSpec => []GuessNeverPasses
<1>1. SetupIInv => GuessNeverPasses
  BY DEF SetupIInv
<1> QED BY <1>1, SetupStart, SetupKept, PTL DEF SetupSpec

-----------------------------------------------------------------------------
LEMMA TypeNames ==
    Types = {"web-app", "cli-tool", "library", "data-pipeline", "ml-pipeline",
             "microservices", "llm-app", "iac", "mobile-app"}
BY DEF Types, ToSet, ValidTypes

LEMMA RankOfPlace ==
    ASSUME NEW i \in 1..9 PROVE ValidTypes[i] \in Types /\ Rank(ValidTypes[i]) = i
<1>1. ValidTypes[i] \in Types
  BY DEF Types, ToSet, ValidTypes
<1>2. \A j \in 1..9 : ValidTypes[j] = ValidTypes[i] => j = i
  BY DEF ValidTypes
<1>3. DOMAIN ValidTypes = 1..9
  BY DEF ValidTypes
<1> QED BY <1>1, <1>2, <1>3 DEF Rank

LEMMA RankUnique ==
    /\ \A t \in Types : Rank(t) \in 1..9
    /\ \A t, u \in Types : Rank(t) = Rank(u) => t = u
<1>1. \A t \in Types : \E i \in 1..9 : ValidTypes[i] = t
  BY DEF Types, ToSet, ValidTypes
<1> QED BY <1>1, RankOfPlace

(* The ranking is a strict total order, whatever the scores.                *)
LEMMA OutranksTotal ==
    ASSUME NEW scores \in [Types -> Nat]
    PROVE  /\ \A t, u \in Types : ~(Outranks(scores, t, u) /\ Outranks(scores, u, t))
           /\ \A t, u \in Types : t # u => Outranks(scores, t, u) \/ Outranks(scores, u, t)
           /\ \A t, u, v \in Types :
                 Outranks(scores, t, u) /\ Outranks(scores, u, v) => Outranks(scores, t, v)
BY RankUnique DEF Outranks

(* Every nonempty set of types has a best one: types are added one by one.  *)
HasBest(scores, S) == \E b \in S : \A u \in S \ {b} : Outranks(scores, b, u)

LEMMA BestOfOneMore ==
    ASSUME NEW scores \in [Types -> Nat], NEW S \in SUBSET Types, NEW x \in Types,
           S = {} \/ HasBest(scores, S)
    PROVE  HasBest(scores, S \cup {x})
<1>1. CASE S = {}
  BY <1>1 DEF HasBest
<1>2. CASE HasBest(scores, S)
  <2>1. PICK b \in S : \A u \in S \ {b} : Outranks(scores, b, u)
    BY <1>2 DEF HasBest
  <2>2. CASE x = b \/ Outranks(scores, b, x)
    BY <2>1, <2>2 DEF HasBest
  <2>3. CASE x # b /\ Outranks(scores, x, b)
    <3>1. \A u \in (S \cup {x}) \ {x} : Outranks(scores, x, u)
      BY <2>1, <2>3, OutranksTotal
    <3> QED BY <3>1 DEF HasBest
  <2> QED BY <2>2, <2>3, OutranksTotal
<1> QED BY <1>1, <1>2

LEMMA BestExists ==
    ASSUME NEW scores \in [Types -> Nat], NEW S \in SUBSET Types, S # {}
    PROVE  HasBest(scores, S)
<1> DEFINE Good(T) == T = {} \/ HasBest(scores, T)
<1>1. Good(S \cap {"web-app"})
  <2>1. S \cap {"web-app"} \in {{}, {} \cup {"web-app"}}
    OBVIOUS
  <2>2. Good({}) /\ Good({} \cup {"web-app"})
    BY BestOfOneMore, TypeNames
  <2> QED BY <2>1, <2>2
<1>2. Good(S \cap {"web-app", "cli-tool"})
  <2> DEFINE before == S \cap {"web-app"}
  <2>1. S \cap {"web-app", "cli-tool"} \in {before, before \cup {"cli-tool"}}
    OBVIOUS
  <2>2. before \in SUBSET Types /\ "cli-tool" \in Types /\ Good(before)
    BY <1>1, TypeNames
  <2>3. Good(before \cup {"cli-tool"})
    BY <2>2, BestOfOneMore
  <2> QED BY <2>1, <2>2, <2>3
<1>3. Good(S \cap {"web-app", "cli-tool", "library"})
  <2> DEFINE before == S \cap {"web-app", "cli-tool"}
  <2>1. S \cap {"web-app", "cli-tool", "library"} \in {before, before \cup {"library"}}
    OBVIOUS
  <2>2. before \in SUBSET Types /\ "library" \in Types /\ Good(before)
    BY <1>2, TypeNames
  <2>3. Good(before \cup {"library"})
    BY <2>2, BestOfOneMore
  <2> QED BY <2>1, <2>2, <2>3
<1>4. Good(S \cap {"web-app", "cli-tool", "library", "data-pipeline"})
  <2> DEFINE before == S \cap {"web-app", "cli-tool", "library"}
  <2>1. S \cap {"web-app", "cli-tool", "library", "data-pipeline"} \in {before, before \cup {"data-pipeline"}}
    OBVIOUS
  <2>2. before \in SUBSET Types /\ "data-pipeline" \in Types /\ Good(before)
    BY <1>3, TypeNames
  <2>3. Good(before \cup {"data-pipeline"})
    BY <2>2, BestOfOneMore
  <2> QED BY <2>1, <2>2, <2>3
<1>5. Good(S \cap {"web-app", "cli-tool", "library", "data-pipeline", "ml-pipeline"})
  <2> DEFINE before == S \cap {"web-app", "cli-tool", "library", "data-pipeline"}
  <2>1. S \cap {"web-app", "cli-tool", "library", "data-pipeline", "ml-pipeline"} \in {before, before \cup {"ml-pipeline"}}
    OBVIOUS
  <2>2. before \in SUBSET Types /\ "ml-pipeline" \in Types /\ Good(before)
    BY <1>4, TypeNames
  <2>3. Good(before \cup {"ml-pipeline"})
    BY <2>2, BestOfOneMore
  <2> QED BY <2>1, <2>2, <2>3
<1>6. Good(S \cap {"web-app", "cli-tool", "library", "data-pipeline", "ml-pipeline", "microservices"})
  <2> DEFINE before == S \cap {"web-app", "cli-tool", "library", "data-pipeline", "ml-pipeline"}
  <2>1. S \cap {"web-app", "cli-tool", "library", "data-pipeline", "ml-pipeline", "microservices"} \in {before, before \cup {"microservices"}}
    OBVIOUS
  <2>2. before \in SUBSET Types /\ "microservices" \in Types /\ Good(before)
    BY <1>5, TypeNames
  <2>3. Good(before \cup {"microservices"})
    BY <2>2, BestOfOneMore
  <2> QED BY <2>1, <2>2, <2>3
<1>7. Good(S \cap {"web-app", "cli-tool", "library", "data-pipeline", "ml-pipeline", "microservices", "llm-app"})
  <2> DEFINE before == S \cap {"web-app", "cli-tool", "library", "data-pipeline", "ml-pipeline", "microservices"}
  <2>1. S \cap {"web-app", "cli-tool", "library", "data-pipeline", "ml-pipeline", "microservices", "llm-app"} \in {before, before \cup {"llm-app"}}
    OBVIOUS
  <2>2. before \in SUBSET Types /\ "llm-app" \in Types /\ Good(before)
    BY <1>6, TypeNames
  <2>3. Good(before \cup {"llm-app"})
    BY <2>2, BestOfOneMore
  <2> QED BY <2>1, <2>2, <2>3
<1>8. Good(S \cap {"web-app", "cli-tool", "library", "data-pipeline", "ml-pipeline", "microservices", "llm-app", "iac"})
  <2> DEFINE before == S \cap {"web-app", "cli-tool", "library", "data-pipeline", "ml-pipeline", "microservices", "llm-app"}
  <2>1. S \cap {"web-app", "cli-tool", "library", "data-pipeline", "ml-pipeline", "microservices", "llm-app", "iac"} \in {before, before \cup {"iac"}}
    OBVIOUS
  <2>2. before \in SUBSET Types /\ "iac" \in Types /\ Good(before)
    BY <1>7, TypeNames
  <2>3. Good(before \cup {"iac"})
    BY <2>2, BestOfOneMore
  <2> QED BY <2>1, <2>2, <2>3
<1>9. Good(S \cap {"web-app", "cli-tool", "library", "data-pipeline", "ml-pipeline", "microservices", "llm-app", "iac", "mobile-app"})
  <2> DEFINE before == S \cap {"web-app", "cli-tool", "library", "data-pipeline", "ml-pipeline", "microservices", "llm-app", "iac"}
  <2>1. S \cap {"web-app", "cli-tool", "library", "data-pipeline", "ml-pipeline", "microservices", "llm-app", "iac", "mobile-app"} \in {before, before \cup {"mobile-app"}}
    OBVIOUS
  <2>2. before \in SUBSET Types /\ "mobile-app" \in Types /\ Good(before)
    BY <1>8, TypeNames
  <2>3. Good(before \cup {"mobile-app"})
    BY <2>2, BestOfOneMore
  <2> QED BY <2>1, <2>2, <2>3
<1> QED BY <1>9, TypeNames

Best(scores, S) == CHOOSE t \in S : \A u \in S \ {t} : Outranks(scores, t, u)

LEMMA BestIsBest ==
    ASSUME NEW scores \in [Types -> Nat], NEW S \in SUBSET Types, S # {}
    PROVE  /\ Best(scores, S) \in S
           /\ \A u \in S \ {Best(scores, S)} : Outranks(scores, Best(scores, S), u)
           /\ \A t \in S : (\A u \in S \ {t} : Outranks(scores, t, u)) => t = Best(scores, S)
<1>1. Best(scores, S) \in S /\ \A u \in S \ {Best(scores, S)} : Outranks(scores, Best(scores, S), u)
  BY BestExists DEF HasBest, Best
<1> QED BY <1>1, OutranksTotal

LEMMA RecommendForm ==
    ASSUME NEW scores
    PROVE  Recommend(scores) =
             IF scores[Best(scores, Types)] < PrimaryThreshold THEN {Best(scores, Types)}
             ELSE {Best(scores, Types)}
                  \cup {t \in Near(scores, Best(scores, Types)) :
                          \A u \in Near(scores, Best(scores, Types)) \ {t} : Outranks(scores, t, u)}
BY Zenon DEF Recommend, Best

(* _recommend: a type that is recommended still is when its own score has   *)
(* grown and the others' have not, whatever the scores.                     *)
THEOREM MorePointsKeepType ==
    ASSUME NEW before \in [Types -> Nat], NEW after \in [Types -> Nat], NEW t \in Types,
           after[t] >= before[t], \A u \in Types \ {t} : after[u] = before[u],
           t \in Recommend(before)
    PROVE  t \in Recommend(after)
<1> DEFINE top == Best(before, Types)
           now == Best(after, Types)
<1>1. Types # {}
  BY TypeNames
<1>2. top \in Types /\ \A u \in Types \ {top} : Outranks(before, top, u)
  BY <1>1, BestIsBest
<1>3. now \in Types /\ \A u \in Types \ {now} : Outranks(after, now, u)
  BY <1>1, BestIsBest
<1>4. now \in Recommend(after)
  BY RecommendForm
<1> SUFFICES ASSUME now # t PROVE t \in Recommend(after)
  BY <1>4
(* Another type is on top, and was before: t was the second half.           *)
<1>5. \A u, v \in Types : Outranks(after, u, v) /\ u # t => Outranks(before, u, v)
  BY RankUnique DEF Outranks
<1>6. now = top
  BY <1>2, <1>3, <1>5, OutranksTotal
<1>7. ~(before[top] < PrimaryThreshold)
      /\ t \in Near(before, top) /\ \A u \in Near(before, top) \ {t} : Outranks(before, t, u)
  BY <1>6, RecommendForm
<1>8. after[top] = before[top]
  BY <1>2, <1>6
<1>9. t \in Near(after, top)
  BY <1>2, <1>7, <1>8 DEF Near, HybridThreshold
<1>10. \A u \in Near(after, top) \ {t} : u \in Near(before, top) \ {t}
  BY <1>8 DEF Near, HybridThreshold
<1>11. \A u \in Types \ {t} : Outranks(before, t, u) => Outranks(after, t, u)
  BY RankUnique DEF Outranks
<1>12. \A u \in Near(after, top) \ {t} : Outranks(after, t, u)
  BY <1>7, <1>10, <1>11 DEF Near
<1> QED BY <1>6, <1>7, <1>8, <1>9, <1>12, RecommendForm

-----------------------------------------------------------------------------
(***************************************************************************)
(* The scores of the signals, which detect_type.py adds up rule by rule.    *)
(***************************************************************************)
Known(signals) ==
    \A s \in signals : s.type \in Types /\ s.points \in Nat /\ s.times \in Nat
AllScores == [Types -> Nat]
NoPoints == [t \in Types |-> 0]
TotalPoints(signals) == FoldSet(Add, NoPoints, signals)

LEMMA PointsCount ==
    ASSUME NEW signals, Known(signals), NEW s \in signals
    PROVE  Points(s) \in Nat /\ s.type \in Types
<1>1. s.type \in Types /\ s.points \in Nat /\ s.times \in Nat
  BY DEF Known
<1>2. s.times * s.points \in Nat /\ s.points * s.times \in Nat
  BY <1>1
<1>3. \A n \in Nat : n \div 2 \in Nat
  OBVIOUS
<1>4. (s.times * s.points) \div 2 \in Nat /\ s.points \div 2 \in Nat
  BY <1>1, <1>2, <1>3
<1>5. (s.times * s.points) \div 2 + s.points \div 2 \in Nat
  BY <1>4
<1> HIDE DEF Known
<1> QED BY <1>1, <1>2, <1>5 DEF Points

LEMMA AddScores ==
    ASSUME NEW signals, Known(signals), NEW s \in signals, NEW scores \in AllScores
    PROVE  /\ Add(s, scores) \in AllScores
           /\ Add(s, scores)[s.type] = scores[s.type] + Points(s)
           /\ \A u \in Types \ {s.type} : Add(s, scores)[u] = scores[u]
BY PointsCount DEF Add, AllScores

\* Whatever the fold of the rules picks, it has the same total.
LEMMA TotalFolds ==
    ASSUME NEW S, IsFiniteSet(S), Known(S)
    PROVE  \E g \in [SUBSET S -> AllScores] :
               /\ \A s \in SUBSET S : TotalPoints(s) = g[s]
               /\ \A s \in SUBSET S : \A x \in s : g[s] = Add(x, g[s \ {x}])
<1> DEFINE pick == [s \in SUBSET S |-> CHOOSE x \in s : TRUE]
           step == [p \in S \X AllScores |-> Add(p[1], p[2])]
           Adds(h, s) == h = [u \in SUBSET s |-> IF u = {} THEN NoPoints
                                 ELSE LET x == CHOOSE x \in u : TRUE IN Add(x, h[u \ {x}])]
<1>1. Picks(pick, S)
  BY DEF Picks
<1>2. \A x \in S : \A a \in AllScores : step[<<x, a>>] = Add(x, a) /\ Add(x, a) \in AllScores
  BY AddScores
<1>3. StepsIn(step, S, AllScores)
  BY <1>2 DEF StepsIn
<1>4. NoPoints \in AllScores
  BY DEF NoPoints, AllScores
<1>5. Commute(step, S, AllScores)
  <2> SUFFICES ASSUME NEW x \in S, NEW y \in S, NEW a \in AllScores
               PROVE  step[<<x, step[<<y, a>>]>>] = step[<<y, step[<<x, a>>]>>]
    BY DEF Commute
  <2>1. step[<<x, step[<<y, a>>]>>] = Add(x, Add(y, a)) /\ step[<<y, step[<<x, a>>]>>] = Add(y, Add(x, a))
    BY <1>2
  <2>2. Add(x, a) \in AllScores /\ Add(y, a) \in AllScores /\ Add(x, Add(y, a)) \in AllScores /\ Add(y, Add(x, a)) \in AllScores
    BY AddScores
  <2>3. Points(x) \in Nat /\ Points(y) \in Nat /\ x.type \in Types /\ y.type \in Types
    BY PointsCount
  <2>4. \A u \in Types : Add(x, Add(y, a))[u] = Add(y, Add(x, a))[u]
    BY <2>2, <2>3, AddScores DEF AllScores
  <2>5. Add(x, Add(y, a)) = Add(y, Add(x, a))
    BY <2>2, <2>4 DEF AllScores
  <2> QED BY <2>1, <2>5
<1>6. PICK g \in [SUBSET S -> AllScores] : FoldsOver(g, S, NoPoints, pick, step)
  <2> HIDE DEF pick, step
  <2> QED BY <1>1, <1>3, <1>4, FoldExists
<1>7. AnyFirst(g, S, step)
  <2> HIDE DEF pick, step
  <2> QED BY <1>1, <1>5, <1>6, FoldAnyOrder
<1>8. ASSUME NEW s \in SUBSET S, NEW x \in s PROVE g[s] = Add(x, g[s \ {x}])
  <2>1. x \in S /\ g[s \ {x}] \in AllScores
    OBVIOUS
  <2>2. step[<<x, g[s \ {x}]>>] = Add(x, g[s \ {x}])
    BY <1>2, <2>1
  <2> HIDE DEF step
  <2> QED BY <1>7, <2>2 DEF AnyFirst
<1>9. ASSUME NEW s \in SUBSET S PROVE TotalPoints(s) = g[s]
  <2> DEFINE f == [u \in SUBSET s |-> g[u]]
  <2>1. g[{}] = NoPoints
    BY <1>6 DEF FoldsOver
  <2>2. ASSUME NEW u \in SUBSET s, u # {}
        PROVE  f[u] = Add(CHOOSE x \in u : TRUE, f[u \ {CHOOSE x \in u : TRUE}])
    BY <1>8, <2>2
  <2>3. Adds(f, s)
    BY <2>1, <2>2
  <2>4. ASSUME NEW h, Adds(h, s) PROVE h[s] = g[s]
    <3>1. h[{}] = g[{}]
      BY <2>1, <2>4
    <3>2. ASSUME NEW u \in SUBSET s, u # {}
          PROVE  pick[u] \in u /\ h[u] = Add(pick[u], h[u \ {pick[u]}]) /\ g[u] = Add(pick[u], g[u \ {pick[u]}])
      <4>1. pick[u] = (CHOOSE x \in u : TRUE) /\ pick[u] \in u
        BY <3>2
      <4> QED BY <1>8, <2>4, <3>2, <4>1
    <3> HIDE DEF pick, Adds
    <3>3. SameStep(h, g, s, pick)
      BY <3>1, <3>2 DEF SameStep
    <3>4. IsFiniteSet(s)
      BY FS_Subset
    <3> QED BY <3>3, <3>4, SameFold
  <2>5. TotalPoints(s) = (CHOOSE h : Adds(h, s))[s]
    BY DEF TotalPoints, FoldSet, MapThenFoldSet
  <2> HIDE DEF Adds, f
  <2>6. Adds(CHOOSE h : Adds(h, s), s)
    BY <2>3
  <2> QED BY <2>4, <2>5, <2>6
<1> QED BY <1>8, <1>9

(* One more signal adds its points to its type, and to no other.            *)
LEMMA OneMoreSignal ==
    ASSUME NEW signals, IsFiniteSet(signals), NEW s, s \notin signals, Known(signals \cup {s})
    PROVE  /\ TotalPoints(signals) \in AllScores /\ TotalPoints(signals \cup {s}) \in AllScores
           /\ TotalPoints(signals \cup {s})[s.type] >= TotalPoints(signals)[s.type]
           /\ \A u \in Types \ {s.type} : TotalPoints(signals \cup {s})[u] = TotalPoints(signals)[u]
<1> DEFINE more == signals \cup {s}
<1>1. IsFiniteSet(more)
  BY FS_AddElement
<1>2. PICK g \in [SUBSET more -> AllScores] :
          /\ \A u \in SUBSET more : TotalPoints(u) = g[u]
          /\ \A u \in SUBSET more : \A x \in u : g[u] = Add(x, g[u \ {x}])
  <2> HIDE DEF more
  <2> QED BY <1>1, TotalFolds DEF more
<1>3. signals \in SUBSET more /\ more \in SUBSET more /\ s \in more /\ more \ {s} = signals
  OBVIOUS
<1>4. Known(more)
  OBVIOUS
<1> HIDE DEF more
<1>5. TotalPoints(signals) \in AllScores /\ TotalPoints(more) \in AllScores /\ TotalPoints(more) = Add(s, TotalPoints(signals))
  BY <1>2, <1>3
<1>6. Points(s) \in Nat /\ s.type \in Types
  BY <1>3, <1>4, PointsCount
<1>7. TotalPoints(more)[s.type] = TotalPoints(signals)[s.type] + Points(s)
      /\ \A u \in Types \ {s.type} : TotalPoints(more)[u] = TotalPoints(signals)[u]
  BY <1>3, <1>4, <1>5, AddScores
<1>8. TotalPoints(signals)[s.type] \in Nat
  BY <1>5, <1>6 DEF AllScores
<1>9. TotalPoints(more)[s.type] >= TotalPoints(signals)[s.type]
  BY <1>6, <1>7, <1>8
<1> QED BY <1>5, <1>7, <1>9 DEF more

(* What detect_type.py has found is a finite set of its signals.            *)
Gathered == found \subseteq Evidence /\ IsFiniteSet(found) /\ Cardinality(found) <= MaxFound

\* Nothing but the project's growing changes what it shows.
LEMMA OnlyFindFinds == [SetupStep]_setupVars => (\E s \in Evidence : Find(s)) \/ found' = found
<1> SUFFICES ASSUME [SetupStep]_setupVars, ~ \E s \in Evidence : Find(s) PROVE found' = found
  OBVIOUS
<1>1. ASSUME NEW t \in Types, NEW inGit \in BOOLEAN, InitProject(t, inGit) PROVE found' = found
  BY <1>1 DEF InitProject
<1>2. ASSUME NEW scan \in BOOLEAN, NEW told \in BOOLEAN, NEW force \in BOOLEAN, Apply(scan, told, force)
      PROVE  found' = found
  BY <1>2 DEF Apply
<1>3. ASSUME NEW ts \in HandTypes, WriteType(ts) PROVE found' = found
  BY <1>3 DEF WriteType
<1>4. ASSUME NEW line \in {"absent", "true"}, Confirm(line) PROVE found' = found
  BY <1>4 DEF Confirm
<1>5. CASE InstallHook \/ Stage
  BY <1>5 DEF InstallHook, Stage
<1>6. CASE Commit \/ CommitUnjudged
  BY <1>6 DEF Commit, CommitUnjudged, Committing
<1>7. CASE UNCHANGED setupVars
  BY <1>7 DEF setupVars
<1> QED BY <1>1, <1>2, <1>3, <1>4, <1>5, <1>6, <1>7 DEF SetupStep

LEMMA GatheredKept ==
    /\ SetupInit => Gathered
    /\ Gathered /\ [SetupStep]_setupVars => Gathered'
<1>1. ASSUME SetupInit PROVE Gathered
  BY <1>1, FS_EmptySet, SetupAssumption DEF SetupInit, Gathered
<1>2. ASSUME Gathered, [SetupStep]_setupVars PROVE Gathered'
  <2>1. ASSUME NEW s \in Evidence, Find(s) PROVE Gathered'
    <3>1. found' = found \cup {s} /\ Cardinality(found) < MaxFound
      BY <2>1 DEF Find
    <3>2. Cardinality(found) \in Nat /\ IsFiniteSet(found \cup {s})
          /\ Cardinality(found \cup {s}) <= Cardinality(found) + 1
      <4>1. IsFiniteSet(found)
        BY <1>2 DEF Gathered
      <4>2. IsFiniteSet(found \cup {s})
            /\ Cardinality(found \cup {s}) = IF s \in found THEN Cardinality(found) ELSE Cardinality(found) + 1
        BY <4>1, FS_AddElement
      <4>3. Cardinality(found) \in Nat
        BY <4>1, FS_CardinalityType
      <4> QED BY <4>2, <4>3
    <3>3. Cardinality(found \cup {s}) \in Nat
      BY <3>2, FS_CardinalityType
    <3>4. Cardinality(found \cup {s}) <= MaxFound
      BY <3>1, <3>2, <3>3, SetupAssumption
    <3> QED BY <1>2, <3>1, <3>2, <3>4 DEF Gathered
  <2>2. CASE found' = found
    BY <1>2, <2>2 DEF Gathered
  <2>3. (\E s \in Evidence : Find(s)) \/ found' = found
    BY <1>2, OnlyFindFinds
  <2> QED BY <2>1, <2>2, <2>3
<1> QED BY <1>1, <1>2

LEMMA ReadIsTotal ==
    ASSUME Gathered, NEW scan, NEW told
    PROVE  Scores(found, scan, told) = TotalPoints(Read(found, scan, told)) /\ Scores(found, scan, told) \in AllScores
<1> DEFINE R == Read(found, scan, told)
<1>1. R \subseteq found /\ IsFiniteSet(R)
  BY FS_Subset DEF Gathered, Read
<1>2. Known(R)
  BY <1>1, SetupAssumption DEF Known, Gathered
<1> HIDE DEF R
<1>3. PICK g \in [SUBSET R -> AllScores] :
          /\ \A s \in SUBSET R : TotalPoints(s) = g[s]
          /\ \A s \in SUBSET R : \A x \in s : g[s] = Add(x, g[s \ {x}])
  BY <1>1, <1>2, TotalFolds
<1>4. TotalPoints(R) \in AllScores
  BY <1>3
<1>5. Scores(found, scan, told) = TotalPoints(Read(found, scan, told))
  BY DEF Scores, TotalPoints, NoPoints
<1> QED BY <1>4, <1>5 DEF R

(* One more signal, of whatever table, never takes the type it speaks for   *)
(* out of the recommendation of detect_type.py:_recommend.                  *)
THEOREM MoreEvidenceKept == SetupSpec => MoreEvidenceKeepsType
<1>1. ASSUME Gathered, Gathered', [SetupStep]_setupVars
      PROVE  \A t \in {s.type : s \in found' \ found} : t \in Recommended(found) => t \in Recommended(found')
  <2> SUFFICES ASSUME NEW s \in found' \ found, s.type \in Recommended(found)
               PROVE  s.type \in Recommended(found')
    OBVIOUS
  <2>1. found' = found \cup {s} /\ s \notin found
    <3>1. PICK e \in Evidence : Find(e)
      BY <1>1, OnlyFindFinds
    <3> QED BY <3>1 DEF Find
  <2>2. Read(found, TRUE, TRUE) = found /\ Read(found', TRUE, TRUE) = found'
    BY DEF Read
  <2>3. Recommended(found) = Recommend(TotalPoints(found)) /\ Recommended(found') = Recommend(TotalPoints(found'))
    BY <2>2 DEF Recommended, Scores, TotalPoints, NoPoints
  <2>4. Known(found \cup {s}) /\ IsFiniteSet(found) /\ s.type \in Types
    BY <1>1, <2>1, SetupAssumption DEF Known, Gathered
  <2>5. /\ TotalPoints(found) \in AllScores /\ TotalPoints(found \cup {s}) \in AllScores
        /\ TotalPoints(found \cup {s})[s.type] >= TotalPoints(found)[s.type]
        /\ \A u \in Types \ {s.type} : TotalPoints(found \cup {s})[u] = TotalPoints(found)[u]
    BY <2>1, <2>4, OneMoreSignal
  <2>6. s.type \in Recommend(TotalPoints(found \cup {s}))
    BY <2>3, <2>4, <2>5, MorePointsKeepType DEF AllScores
  <2> QED BY <2>1, <2>3, <2>6
<1>2. Gathered /\ Gathered' /\ [SetupStep]_setupVars
      => [\A t \in {s.type : s \in found' \ found} : t \in Recommended(found) => t \in Recommended(found')]_setupVars
  BY <1>1
<1> QED BY <1>2, GatheredKept, PTL DEF SetupSpec, MoreEvidenceKeepsType

-----------------------------------------------------------------------------
(* At most two types are recommended: the best one and the best of those    *)
(* near it.                                                                 *)
LEMMA AtMostTwo ==
    ASSUME NEW scores \in [Types -> Nat]
    PROVE  Recommend(scores) \subseteq Types /\ Cardinality(Recommend(scores)) <= 2
<1> DEFINE top == Best(scores, Types)
           second == {t \in Near(scores, top) : \A u \in Near(scores, top) \ {t} : Outranks(scores, t, u)}
<1>1. top \in Types
  BY TypeNames, BestIsBest
<1>2. second \subseteq Types /\ \A t, u \in second : t = u
  BY <1>1, OutranksTotal DEF Near
<1>3. second = {} \/ \E t \in Types : second = {t}
  <2> HIDE DEF second
  <2> QED BY <1>2
<1>4. Recommend(scores) = {top} \/ \E t \in Types : Recommend(scores) = {top} \cup {t}
  <2>1. Recommend(scores) = {top} \/ Recommend(scores) = {top} \cup second
    BY RecommendForm
  <2> HIDE DEF top, second
  <2> QED BY <1>3, <2>1
<1> HIDE DEF top
<1>5. IsFiniteSet({top}) /\ Cardinality({top}) = 1
  BY FS_Singleton
<1>6. ASSUME NEW t \in Types PROVE Cardinality({top} \cup {t}) <= 2
  <2>1. Cardinality({top} \cup {t}) = IF t \in {top} THEN Cardinality({top}) ELSE Cardinality({top}) + 1
    BY <1>5, FS_AddElement
  <2> QED BY <1>5, <2>1
<1>7. Cardinality(Recommend(scores)) <= 2
  BY <1>4, <1>5, <1>6
<1> QED BY <1>1, <1>4, <1>7

(* The fields of .project-starter.yml keep their types, and so does the     *)
(* rest of the project.                                                     *)
Files == [exists : BOOLEAN, typed : BOOLEAN, type : {T \in SUBSET Types : Cardinality(T) <= 2},
          confirmed : {"absent", "false", "true"}, adapter : {"none", "guess"}]
Indexes == [author: {"nobody", "guess", "person"}, current: BOOLEAN]
Commits == [author: {"nobody", "guess", "person"}, judged: {"this", "another", "none"}]
SetupTyped ==
    /\ Gathered /\ config \in Files
    /\ author \in {"nobody", "guess", "person"}
    /\ staged \in Indexes /\ committed \in Commits
    /\ ignored \in 0..1 /\ hooked \in BOOLEAN

LEMMA EmptyFile == NoFile \in Files /\ [NoFile EXCEPT !.exists = TRUE] \in Files
<1>1. {} \in {T \in SUBSET Types : Cardinality(T) <= 2}
  BY FS_EmptySet
<1> QED BY <1>1 DEF NoFile, Files

LEMMA SetupTypedKept == SetupTyped /\ [SetupStep]_setupVars => SetupTyped'
<1> SUFFICES ASSUME SetupTyped, [SetupStep]_setupVars PROVE SetupTyped'
  OBVIOUS
<1> DEFINE Others == /\ config' \in Files
                     /\ author' \in {"nobody", "guess", "person"}
                     /\ staged' \in Indexes /\ committed' \in Commits
                     /\ ignored' \in 0..1 /\ hooked' \in BOOLEAN
<1> SUFFICES Others
  BY GatheredKept DEF SetupTyped
<1>0. ConfigWritten => staged' \in Indexes
  <2> SUFFICES ASSUME ConfigWritten PROVE staged' \in Indexes
    OBVIOUS
  <2>1. staged' = [staged EXCEPT !.current = FALSE] /\ staged \in Indexes
    BY DEF ConfigWritten, SetupTyped
  <2> QED BY <2>1 DEF Indexes
<1>1. ASSUME NEW s \in Evidence, Find(s) PROVE Others
  BY <1>1 DEF Find, SetupTyped
<1>2. ASSUME NEW t \in Types, NEW inGit \in BOOLEAN, InitProject(t, inGit) PROVE Others
  <2>1. {t} \in {T \in SUBSET Types : Cardinality(T) <= 2}
    BY FS_Singleton
  <2>2. [NoFile EXCEPT !.exists = TRUE, !.typed = TRUE, !.type = {t}] \in Files
    BY <2>1 DEF NoFile, Files
  <2> QED BY <1>0, <1>2, <2>2 DEF InitProject, IgnoreBlocks, SetupTyped
<1>3. ASSUME NEW scan \in BOOLEAN, NEW told \in BOOLEAN, NEW force \in BOOLEAN, Apply(scan, told, force)
      PROVE  Others
  <2> DEFINE type == Recommend(Scores(found, scan, told))
  <2>1. type \in {T \in SUBSET Types : Cardinality(T) <= 2}
    BY ReadIsTotal, AtMostTwo DEF AllScores, SetupTyped
  <2>2. PICK suggested :
            /\ config' = Applied(type, suggested)
            /\ author' = IF config'.typed THEN "guess" ELSE author
            /\ ConfigWritten /\ UNCHANGED <<ignored, hooked, committed>>
    BY <1>3 DEF Apply
  <2> HIDE DEF type
  <2>3. Applied(type, suggested) \in Files
    <3>1. [config EXCEPT !.type = type] \in Files
      BY <2>1 DEF Files, SetupTyped
    <3>2. ASSUME NEW file \in Files PROVE MarkUnconfirmed(file) \in Files
      BY DEF MarkUnconfirmed, Files
    <3>3. [exists |-> TRUE, typed |-> TRUE, type |-> type, confirmed |-> "false",
           adapter |-> IF suggested THEN "guess" ELSE "none"] \in Files
      BY <2>1 DEF Files
    <3> QED BY <3>1, <3>2, <3>3 DEF Applied, SetupTyped
  <2> QED BY <1>0, <2>2, <2>3 DEF SetupTyped
<1>4. ASSUME NEW ts \in HandTypes, WriteType(ts) PROVE Others
  <2>1. [config EXCEPT !.exists = TRUE, !.typed = TRUE, !.type = ts] \in Files
    BY SetupAssumption DEF Files, SetupTyped
  <2> QED BY <1>0, <1>4, <2>1 DEF WriteType, SetupTyped
<1>5. ASSUME NEW line \in {"absent", "true"}, Confirm(line) PROVE Others
  <2>1. [config EXCEPT !.confirmed = line] \in Files
    BY DEF Files, SetupTyped
  <2> QED BY <1>0, <1>5, <2>1 DEF Confirm, SetupTyped
<1>6. CASE InstallHook
  BY <1>6 DEF InstallHook, SetupTyped
<1>7. CASE Stage
  BY <1>7 DEF Stage, SetupTyped, Indexes
<1>8. CASE Commit \/ CommitUnjudged
  <2>1. staged.author \in {"nobody", "guess", "person"}
    BY DEF SetupTyped, Indexes
  <2>2. PICK judged \in {"this", "another", "none"} : Committing(judged)
    BY <1>8 DEF Commit, CommitUnjudged
  <2> QED BY <2>1, <2>2 DEF Committing, SetupTyped, Commits
<1>9. CASE UNCHANGED setupVars
  BY <1>9 DEF setupVars, SetupTyped
<1> QED BY <1>1, <1>2, <1>3, <1>4, <1>5, <1>6, <1>7, <1>8, <1>9 DEF SetupStep

(* The state of init.py, detect_type.py and the files they write is typed:  *)
(* what --apply writes into project_type is one known type or two.           *)
THEOREM SetupTypes == SetupSpec => []SetupTypeOK
<1>1. SetupInit => SetupTyped
  <2>1. SetupInit => Gathered
    BY GatheredKept
  <2>2. SetupInit => config \in Files
    BY EmptyFile DEF SetupInit
  <2>3. SetupInit => ignored = 0 /\ author = "nobody" /\ staged \in Indexes /\ committed \in Commits
    BY DEF SetupInit, Indexes, Commits
  <2>4. SetupInit => hooked \in BOOLEAN
    BY Zenon DEF SetupInit
  <2> QED BY <2>1, <2>2, <2>3, <2>4 DEF SetupTyped
<1>2. SetupTyped => SetupTypeOK
  BY DEF SetupTyped, SetupTypeOK, Gathered, Files, Indexes, Commits
<1> QED BY <1>1, <1>2, SetupTypedKept, PTL DEF SetupSpec

-----------------------------------------------------------------------------
(***************************************************************************)
(* verify_acceptance.py, for any ids, rows, reports and types.  A scoped    *)
(* run of some ids finds nothing exactly if the documents say of these ids  *)
(* what Met says; the rest of what it asks does not depend on the ids.       *)
(***************************************************************************)
LEMMA NothingFound ==
    /\ \A what, which : Issue(what, which) = {} <=> which = {}
    /\ \A what, all, some : Issue(what, all \ some) = {} <=> all \subseteq some
    /\ \A what, holds : Problem(what, holds) = {} <=> ~ holds
BY DEF Issue, Problem

\* What a type asks for whatever the ids are.
SoundFor(type) ==
    /\ RealRows # {} /\ RequiredTestLevels[type] \subseteq levels
    /\ CheckTestReport(type) = {}
    /\ type \in ContractTypes => CheckPipelineContracts = {}
    /\ type = "llm-app" => CheckLlmEval = {}
    /\ type \in ApiContractTypes => CheckEdgeCases = {}

Met(only) ==
    /\ required \cap FR # {} /\ required \cap Numbered # {} /\ only # {}
    /\ only \cap AC \subseteq InScope
    /\ covers = {} \/ only \subseteq covers
    /\ \A type \in audited : SoundFor(type) /\ (scope.section => only \cap FR \subseteq InScope)

LEMMA PerTypeFinds ==
    ASSUME NEW type, NEW frs
    PROVE  PerType(type, frs) = {} <=> SoundFor(type) /\ (scope.section => frs \subseteq InScope)
<1>1. CheckTestPlan(type, frs) = {} <=>
          RealRows # {} /\ (scope.section => frs \subseteq InScope) /\ RequiredTestLevels[type] \subseteq levels
  <2>1. CheckTestPlan(type, frs) = {} <=>
            /\ Problem("no scope", RealRows = {}) = {}
            /\ scope.section => Issue("FR untested", frs \ InScope) = {}
            /\ Issue("level", RequiredTestLevels[type] \ levels) = {}
    BY DEF CheckTestPlan
  <2>2. Problem("no scope", RealRows = {}) = {} <=> RealRows # {}
    BY NothingFound
  <2>3. Issue("FR untested", frs \ InScope) = {} <=> frs \subseteq InScope
    BY NothingFound
  <2>4. Issue("level", RequiredTestLevels[type] \ levels) = {} <=> RequiredTestLevels[type] \subseteq levels
    BY NothingFound
  <2> QED BY <2>1, <2>2, <2>3, <2>4
<1>2. PerType(type, frs) = {} <=>
          /\ CheckTestPlan(type, frs) = {} /\ CheckTestReport(type) = {}
          /\ type \in ContractTypes => CheckPipelineContracts = {}
          /\ type = "llm-app" => CheckLlmEval = {}
          /\ type \in ApiContractTypes => CheckEdgeCases = {}
  BY DEF PerType
<1> QED BY <1>1, <1>2 DEF SoundFor

LEMMA AcceptedMeans ==
    \A only \in SUBSET required : Accepted(only) <=> Met(only)
<1> SUFFICES ASSUME NEW only \in SUBSET required PROVE Accepted(only) <=> Met(only)
  OBVIOUS
<1>1. Accepted(only) <=>
          /\ Problem("not an id", FALSE) = {} /\ Problem("no ids", only = {} /\ ~ FALSE) = {}
          /\ Issue("undeclared", only \ required) = {}
          /\ Audit(only \cap required, TRUE) = {}
  BY DEF Accepted, ScopedAudit
<1>2. only \cap required = only
  OBVIOUS
<1>3. Audit(only, TRUE) = {} <=>
          /\ CheckRequirements = {}
          /\ CheckAcCoverage(only \cap AC, TRUE) = {} /\ CheckPlanCoverage(only, TRUE) = {}
          /\ \A type \in audited : PerType(type, only \cap FR) = {}
  <2> DEFINE P(type) == PerType(type, only \cap FR)
             AcIssues == CheckAcCoverage(only \cap AC, TRUE)
             PlanIssues == CheckPlanCoverage(only, TRUE)
  <2>1. Audit(only, TRUE) = CheckRequirements \cup AcIssues \cup PlanIssues \cup UNION {P(type) : type \in audited}
    BY DEF Audit
  <2> HIDE DEF P, AcIssues, PlanIssues
  <2>2. UNION {P(type) : type \in audited} = {} <=> \A type \in audited : P(type) = {}
    OBVIOUS
  <2>3. Audit(only, TRUE) = {} <=>
            CheckRequirements = {} /\ AcIssues = {} /\ PlanIssues = {} /\ \A type \in audited : P(type) = {}
    BY <2>1, <2>2
  <2> QED BY <2>3 DEF P, AcIssues, PlanIssues
<1>4. CheckRequirements = {} <=> required \cap FR # {} /\ required \cap Numbered # {}
  <2>1. Problem("no FR", required \cap FR = {}) = {} <=> required \cap FR # {}
    BY NothingFound
  <2>2. Problem("no AC", required \cap Numbered = {}) = {} <=> required \cap Numbered # {}
    BY NothingFound
  <2> QED BY <2>1, <2>2 DEF CheckRequirements
<1>5. CheckAcCoverage(only \cap AC, TRUE) = {} <=> only \cap AC \subseteq InScope
  <2>1. CheckAcCoverage(only \cap AC, TRUE) = Issue("AC untested", (only \cap AC) \ InScope)
    BY DEF CheckAcCoverage
  <2>2. Issue("AC untested", (only \cap AC) \ InScope) = {} <=> only \cap AC \subseteq InScope
    <3>1. \A acs : Issue("AC untested", acs \ InScope) = {} <=> acs \subseteq InScope
      BY NothingFound
    <3> QED BY <3>1
  <2> QED BY <2>1, <2>2
<1>6. CheckPlanCoverage(only, TRUE) = {} <=> covers = {} \/ only \subseteq covers
  BY NothingFound DEF CheckPlanCoverage
<1>7. \A type \in audited :
          PerType(type, only \cap FR) = {} <=> SoundFor(type) /\ (scope.section => only \cap FR \subseteq InScope)
  BY PerTypeFinds
<1>8. Accepted(only) <=> only # {} /\ Audit(only, TRUE) = {}
  <2>1. Problem("not an id", FALSE) = {}
    BY NothingFound
  <2>2. Problem("no ids", only = {} /\ ~ FALSE) = {} <=> only # {}
    BY NothingFound
  <2>3. Issue("undeclared", only \ required) = {}
    BY NothingFound
  <2> QED BY <1>1, <1>2, <2>1, <2>2, <2>3
<1> QED BY <1>3, <1>4, <1>5, <1>6, <1>7, <1>8 DEF Met

(* verify_acceptance.py --only, requirement by requirement: when every id    *)
(* that is declared was in an accepted run, a whole run finds nothing but    *)
(* names that nothing declares.                                             *)
THEOREM ScopedRunsSuffice == AcceptanceSpec => []ScopedRunsSumUp
<1>1. ScopedRunsSumUp
  <2> DEFINE settled == {only \in SUBSET required : Accepted(only)}
  <2> SUFFICES ASSUME settled # {}, UNION settled = required
               PROVE  WholeAudit \subseteq Issue("stray", covers)
    BY DEF ScopedRunsSumUp
  <2>1. \A only \in settled : only \in SUBSET required /\ Met(only)
    BY AcceptedMeans
  <2> HIDE DEF settled
  <2>2. CheckRequirements = {}
    BY <2>1, NothingFound DEF CheckRequirements, Met
  <2>3. required \cap AC \subseteq InScope
    BY <2>1 DEF Met
  <2>4. CheckAcCoverage(required \cap AC, FALSE) = {}
    BY <2>3, NothingFound DEF CheckAcCoverage
  <2>5. covers = {} \/ required \subseteq covers
    BY <2>1 DEF Met
  <2>6. CheckPlanCoverage(required, FALSE) \subseteq Issue("stray", covers)
    <3>1. CASE covers = {}
      BY <3>1 DEF CheckPlanCoverage
    <3>2. CASE covers # {} /\ required \subseteq covers
      <4>1. Issue("unplanned", required \ covers) = {}
        BY <3>2, NothingFound
      <4>2. Issue("stray", covers \ required) \subseteq Issue("stray", covers)
        BY DEF Issue
      <4> QED BY <3>2, <4>1, <4>2 DEF CheckPlanCoverage
    <3> QED BY <2>5, <3>1, <3>2
  <2>7. ASSUME NEW type \in audited PROVE PerType(type, required \cap FR) = {}
    <3>1. SoundFor(type) /\ (scope.section => required \cap FR \subseteq InScope)
      BY <2>1 DEF Met
    <3> QED BY <3>1, PerTypeFinds
  <2>8. WholeAudit = CheckRequirements \cup CheckAcCoverage(required \cap AC, FALSE)
                     \cup CheckPlanCoverage(required, FALSE)
                     \cup UNION {PerType(type, required \cap FR) : type \in audited}
    BY DEF WholeAudit, Audit
  <2> QED BY <2>2, <2>4, <2>6, <2>7, <2>8
<1> QED BY <1>1, PTL

(* A requirement that was accepted stays so while others are declared,       *)
(* tested and planned.                                                      *)
LEMMA MetStays ==
    ASSUME [AcceptanceStep]_acceptanceVars, NEW only \in SUBSET required, Met(only),
           UNCHANGED <<levels, report, evals, adopted>>, covers = {} => covers' = {},
           scope'.inner = scope.inner
    PROVE  Met(only)' /\ only \in SUBSET required'
<1>1. audited' = audited /\ required \subseteq required' /\ covers \subseteq covers'
      /\ (scope' = scope \/ \E row : scope' = [section |-> TRUE, inner |-> scope.inner, rows |-> scope.rows \cup {row}])
  BY DEF AcceptanceStep, acceptanceVars, Declare, WriteRow, HeadInScope, WriteCovers, LogEval, AdoptCase, WriteReport, WriteStrategy
<1>2. RealRows \subseteq RealRows' /\ (scope.section => scope'.section /\ scope.rows \subseteq scope'.rows)
  BY <1>1 DEF RealRows
<1>3. InScope \subseteq InScope'
  BY <1>2 DEF InScope
<1>4. ASSUME NEW type \in audited PROVE SoundFor(type)' /\ only \cap FR \subseteq InScope'
  <2>1. SoundFor(type) /\ (scope.section => only \cap FR \subseteq InScope)
    BY <1>4 DEF Met
  <2>2. scope.section
    BY <2>1 DEF SoundFor, RealRows
  <2>3. CheckTestReport(type)' = CheckTestReport(type) /\ CheckPipelineContracts' = CheckPipelineContracts
        /\ CheckLlmEval' = CheckLlmEval
    BY DEF CheckTestReport, CheckPipelineContracts, CheckLlmEval, Problem
  <2>4. CheckEdgeCases = {} => CheckEdgeCases' = {}
    <3>1. \A which, more : which \subseteq more /\ Issue("EC untested", adopted \ which) = {} =>
              Issue("EC untested", adopted \ more) = {}
      BY DEF Issue
    <3>2. UNION {row.cases : row \in scope.rows} \subseteq UNION {row.cases : row \in scope'.rows}
      BY <1>2, <2>2
    <3> QED BY <1>2, <2>2, <3>1, <3>2 DEF CheckEdgeCases, Issue
  <2> QED BY <1>2, <1>3, <2>1, <2>2, <2>3, <2>4 DEF SoundFor
<1>5. covers' = {} \/ only \subseteq covers'
  BY <1>1 DEF Met
<1> QED BY <1>1, <1>3, <1>4, <1>5 DEF Met

(* verify_acceptance.py --only: a requirement that was accepted stays so     *)
(* while others are declared, planned and tested, for any ids and rows.     *)
THEOREM AcceptedForGood == AcceptanceSpec => AcceptedStaysAccepted
<1> DEFINE Understood == \A only \in SUBSET required : Accepted(only) <=> Met(only)
<1>1. []Understood
  BY AcceptedMeans, PTL
<1>2. Understood /\ Understood' /\ [AcceptanceStep]_acceptanceVars =>
          [ \A only \in SUBSET required :
                /\ Accepted(only)
                /\ UNCHANGED <<levels, report, evals, adopted>>
                /\ covers = {} => covers' = {}
                /\ scope'.inner = scope.inner
                => Accepted(only)' ]_acceptanceVars
  BY MetStays
<1> QED BY <1>1, <1>2, PTL DEF AcceptanceSpec, AcceptedStaysAccepted

(* The documents of an acceptance audit hold known ids, rows and results     *)
(* only, whatever is written into them.                                     *)
THEOREM AcceptanceTypes == AcceptanceSpec => []AcceptanceTypeOK
<1>1. AcceptanceInit => AcceptanceTypeOK
  BY AcceptanceAssumption DEF AcceptanceInit, AcceptanceTypeOK
<1>2. AcceptanceTypeOK /\ [AcceptanceStep]_acceptanceVars => AcceptanceTypeOK'
  <2> SUFFICES ASSUME AcceptanceTypeOK, [AcceptanceStep]_acceptanceVars PROVE AcceptanceTypeOK'
    OBVIOUS
  <2> USE DEF AcceptanceTypeOK
  <2>1. ASSUME NEW id \in Id, Declare(id) \/ WriteCovers(id) PROVE AcceptanceTypeOK'
    BY <2>1 DEF Declare, WriteCovers
  <2>2. ASSUME NEW row \in ScopeRows, WriteRow(row) PROVE AcceptanceTypeOK'
    <3>1. row \in ScopeRow
      BY AcceptanceAssumption
    <3> QED BY <2>2, <3>1 DEF WriteRow
  <2>8. ASSUME NEW below \in {{}, scope.rows}, HeadInScope(below) PROVE AcceptanceTypeOK'
    BY <2>8 DEF HeadInScope
  <2>3. ASSUME NEW result \in {"pass", "fail"}, LogEval(result) PROVE AcceptanceTypeOK'
    BY <2>3 DEF LogEval
  <2>4. ASSUME NEW case \in EdgeCase, AdoptCase(case) PROVE AcceptanceTypeOK'
    BY <2>4 DEF AdoptCase
  <2>5. ASSUME NEW new \in Reports, WriteReport(new) PROVE AcceptanceTypeOK'
    BY <2>5, AcceptanceAssumption DEF WriteReport
  <2>6. ASSUME NEW new \in Strategies, WriteStrategy(new) PROVE AcceptanceTypeOK'
    BY <2>6 DEF WriteStrategy
  <2>7. CASE UNCHANGED acceptanceVars
    BY <2>7 DEF acceptanceVars
  <2> QED BY <2>1, <2>2, <2>3, <2>4, <2>5, <2>6, <2>7, <2>8 DEF AcceptanceStep
<1> QED BY <1>1, <1>2, PTL DEF AcceptanceSpec

-----------------------------------------------------------------------------
(***************************************************************************)
(* The registry's two readers, for any registry that is written plainly and  *)
(* valid.  The line parser goes from entry to entry; what it has after the   *)
(* entries s is what the last of them with each key says.                   *)
(***************************************************************************)
LEMMA LastOne ==
    ASSUME NEW n \in Nat, NEW s \in SUBSET (1..n), s # {}
    PROVE  Max(s) \in s /\ \A i \in s : i <= Max(s)
<1> DEFINE T == {n - i : i \in s}
<1>1. T \in SUBSET Nat /\ T # {}
  <2>1. \A i \in s : n - i \in Nat
    OBVIOUS
  <2> QED BY <2>1
<1>2. PICK m \in T : \A k \in T : m <= k
  <2> HIDE DEF T
  <2> QED BY <1>1, LeastNat
<1>3. PICK x \in s : m = n - x
  BY <1>2
<1>4. \A i \in s : x >= i
  <2> TAKE i \in s
  <2>1. n - x <= n - i
    BY <1>2, <1>3
  <2> QED BY <2>1
<1> QED BY <1>4 DEF Max

LEMMA LastIs ==
    ASSUME NEW n \in Nat, NEW s \in SUBSET (1..n), NEW x \in s, \A i \in s : i <= x
    PROVE  Max(s) = x
<1>1. Max(s) \in s /\ \A i \in s : i <= Max(s)
  BY LastOne
<1>2. x \in Nat /\ Max(s) \in Nat
  <2>1. \A i \in s : i \in Nat
    OBVIOUS
  <2> QED BY <1>1, <2>1
<1>3. x <= Max(s) /\ Max(s) <= x
  BY <1>1
<1> QED BY <1>2, <1>3

Said(s, d) == {i \in s : text[i].doc = d}
ReadSoFar(s) ==
    IF s = {} THEN [current |-> "none", metas |-> <<>>]
    ELSE [current |-> text[Max(s)].doc,
          metas |-> [d \in {text[i].doc : i \in s} |-> Overridden(NoMeta, text[Max(Said(s, d))])]]

LEMMA EntryByEntry ==
    ASSUME text \in Registries, PlainText, NEW s \in SUBSET (DOMAIN text), s # {}
    PROVE  ReadSoFar(s) = HandStep(ReadSoFar(s \ {Max(s)}), text[Max(s)])
<1> DEFINE x == Max(s)
           rest == s \ {x}
           entry == text[x]
           before == ReadSoFar(rest).metas
<1>1. DOMAIN text = 1..Len(text) /\ Len(text) \in Nat
  BY RegistryAssumption
<1>2. x \in s /\ \A i \in s : i <= x
  BY <1>1, LastOne
<1>3. entry.key = "plain"
  BY <1>2 DEF PlainText, Range
<1> HIDE DEF x
<1>4. /\ DOMAIN before = {text[i].doc : i \in rest}
      /\ \A d \in DOMAIN before : before[d] = Overridden(NoMeta, text[Max(Said(rest, d))])
  <2>1. CASE rest = {}
    <3>1. before = <<>>
      BY <2>1 DEF ReadSoFar
    <3>2. DOMAIN before = {}
      BY <3>1
    <3> QED BY <2>1, <3>2
  <2>2. CASE rest # {}
    BY <2>2 DEF ReadSoFar
  <2> QED BY <2>1, <2>2
<1>5. DOMAIN before \cup {entry.doc} = {text[i].doc : i \in s}
  BY <1>2, <1>4
<1>6. ASSUME NEW d \in {text[i].doc : i \in s}
      PROVE  Overridden(NoMeta, text[Max(Said(s, d))]) =
                 IF d = entry.doc THEN Overridden(NoMeta, entry) ELSE before[d]
  <2>1. CASE d = entry.doc
    <3>1. Said(s, d) \in SUBSET (1..Len(text)) /\ x \in Said(s, d) /\ \A i \in Said(s, d) : i <= x
      BY <1>1, <1>2, <2>1 DEF Said
    <3>2. Max(Said(s, d)) = x
      BY <1>1, <3>1, LastIs
    <3> QED BY <2>1, <3>2
  <2>2. CASE d # entry.doc
    <3>1. Said(s, d) = Said(rest, d)
      BY <2>2 DEF Said
    <3>2. d \in DOMAIN before
      BY <1>5, <2>2
    <3> QED BY <1>4, <2>2, <3>1, <3>2
  <2> QED BY <2>1, <2>2
<1>7. HandStep(ReadSoFar(rest), entry) =
          [current |-> entry.doc,
           metas |-> [d \in DOMAIN before \cup {entry.doc} |->
                         IF d = entry.doc THEN Overridden(NoMeta, entry) ELSE before[d]]]
  BY <1>3 DEF HandStep
<1>8. ReadSoFar(s) =
          [current |-> entry.doc,
           metas |-> [d \in {text[i].doc : i \in s} |-> Overridden(NoMeta, text[Max(Said(s, d))])]]
  BY DEF ReadSoFar, x
<1> HIDE DEF before, entry, rest
<1>9. [d \in {text[i].doc : i \in s} |-> Overridden(NoMeta, text[Max(Said(s, d))])] =
      [d \in DOMAIN before \cup {entry.doc} |-> IF d = entry.doc THEN Overridden(NoMeta, entry) ELSE before[d]]
  BY <1>5, <1>6
<1>10. ReadSoFar(s) = HandStep(ReadSoFar(rest), entry)
  BY <1>7, <1>8, <1>9
<1> QED BY <1>10 DEF rest, entry, x

LEMMA HandReadsAll ==
    ASSUME text \in Registries, PlainText
    PROVE  HandRead = ReadSoFar(DOMAIN text).metas
<1> DEFINE S == DOMAIN text
           pick == [s \in SUBSET S |-> Max(s)]
           g == [s \in SUBSET S |-> ReadSoFar(s)]
           Reads(h) == h = [s \in SUBSET S |->
                               IF s = {} THEN [current |-> "none", metas |-> <<>>]
                               ELSE LET x == Max(s) IN HandStep(h[s \ {x}], text[x])]
<1>1. S = 1..Len(text) /\ Len(text) \in Nat /\ IsFiniteSet(S)
  <2>1. S = 1..Len(text) /\ Len(text) \in Nat
    BY RegistryAssumption
  <2> HIDE DEF S
  <2> QED BY <2>1, FS_Interval
<1>2. \A s \in SUBSET S : s # {} => Max(s) \in s
  BY <1>1, LastOne
<1>3. \A s \in SUBSET S : s # {} => ReadSoFar(s) = HandStep(ReadSoFar(s \ {Max(s)}), text[Max(s)])
  BY EntryByEntry
<1>4. ReadSoFar({}) = [current |-> "none", metas |-> <<>>]
  BY DEF ReadSoFar
<1>5. Reads(g)
  BY <1>2, <1>3, <1>4
<1>6. ASSUME NEW h, Reads(h) PROVE h[S] = g[S]
  <2>1. h[{}] = g[{}]
    BY <1>4, <1>6
  <2>2. ASSUME NEW s \in SUBSET S, s # {}
        PROVE  h[s] = HandStep(h[s \ {pick[s]}], text[pick[s]]) /\ g[s] = HandStep(g[s \ {pick[s]}], text[pick[s]])
    BY <1>5, <1>6, <2>2
  <2>3. \A s \in SUBSET S : s # {} => pick[s] \in s
    BY <1>2
  <2> HIDE DEF pick, Reads, g, S
  <2>4. SameStep(h, g, S, pick)
    BY <2>1, <2>2, <2>3 DEF SameStep
  <2> QED BY <1>1, <2>4, SameFold
<1>7. HandRead = (CHOOSE h : Reads(h))[S].metas
  BY DEF HandRead, FoldLeft, MapThenFoldSet
<1> HIDE DEF Reads
<1>8. Reads(CHOOSE h : Reads(h))
  BY <1>5
<1> QED BY <1>6, <1>7, <1>8


(* Plainly written, a field says the same to both readers.                   *)
LEMMA SameEntry ==
    ASSUME text \in Registries, PlainText, NEW entry \in Range(text)
    PROVE  /\ Overridden(NoMeta, entry) = [required |-> entry.required.value, optional |-> entry.optional.value,
                                          lite |-> YamlScalar(entry.lite)]
           /\ YamlScalar(entry.lite) \in {"none", "optional"}
<1>1. Plainly(entry.required) /\ Plainly(entry.optional) /\ Plainly(entry.lite)
  BY DEF PlainText
<1>2. \A field \in Fields(entry) : field.form = "absent" => field.value = {}
  BY RegistryAssumption
<1>3. ASSUME NEW field \in {entry.required, entry.optional}
      PROVE  (IF field.form = "absent" THEN {} ELSE HandList(field)) = field.value
  <2>1. Plainly(field) /\ field \in Fields(entry)
    BY <1>1 DEF Fields
  <2> QED BY <1>2, <2>1 DEF Plainly, HandList
<1>4. (IF entry.lite.form = "absent" THEN "none" ELSE HandScalar(entry.lite)) = YamlScalar(entry.lite)
  BY <1>1 DEF Plainly, HandScalar, YamlScalar
<1>5. /\ (IF entry.required.form = "absent" THEN {} ELSE HandList(entry.required)) = entry.required.value
      /\ (IF entry.optional.form = "absent" THEN {} ELSE HandList(entry.optional)) = entry.optional.value
  BY <1>3
<1>6. Overridden(NoMeta, entry) =
        [required |-> IF entry.required.form = "absent" THEN {} ELSE HandList(entry.required),
         optional |-> IF entry.optional.form = "absent" THEN {} ELSE HandList(entry.optional),
         lite |-> IF entry.lite.form = "absent" THEN "none" ELSE HandScalar(entry.lite)]
  BY DEF Overridden, NoMeta
<1> QED BY <1>4, <1>5, <1>6 DEF YamlScalar

LEMMA ReadersAgreeOnPlain ==
    ASSUME text \in Registries, PlainText
    PROVE  /\ HandRead = YamlRead
           /\ \A d \in DOMAIN YamlRead : \E entry \in Range(text) :
                 /\ YamlRead[d].required = entry.required.value
                 /\ YamlRead[d].lite \in {"none", "optional"}
<1> DEFINE n == Len(text)
           S == DOMAIN text
           LastOf(d) == Max(Said(S, d))
           Docs == {e.doc : e \in Range(text)}
<1>1. S = 1..n /\ n \in Nat
  BY RegistryAssumption
<1>2. Docs = {text[i].doc : i \in S}
  BY DEF Range
<1>3. ASSUME NEW d \in Docs
      PROVE  Said(S, d) # {} /\ LastOf(d) \in S
  <2>1. Said(S, d) # {} /\ Said(S, d) \in SUBSET (1..n)
    BY <1>1, <1>2 DEF Said
  <2>2. LastOf(d) \in Said(S, d)
    BY <1>1, <2>1, LastOne
  <2> QED BY <2>1, <2>2 DEF Said
<1>4. ASSUME NEW d \in Docs
      PROVE  SelectLastInSeq(text, LAMBDA e : e.doc = d) = LastOf(d)
  <2>1. {i \in 1..Len(text) : text[i].doc = d} = Said(S, d)
    BY <1>1 DEF Said
  <2> QED BY <1>3, <2>1 DEF SelectLastInSeq
<1>5. YamlRead = [d \in Docs |-> [required |-> text[LastOf(d)].required.value, optional |-> text[LastOf(d)].optional.value,
                                 lite |-> YamlScalar(text[LastOf(d)].lite)]]
  BY <1>4 DEF YamlRead
<1>6. ASSUME NEW d \in Docs
      PROVE  /\ text[LastOf(d)] \in Range(text)
             /\ Overridden(NoMeta, text[LastOf(d)]) =
                   [required |-> text[LastOf(d)].required.value, optional |-> text[LastOf(d)].optional.value,
                    lite |-> YamlScalar(text[LastOf(d)].lite)]
             /\ YamlScalar(text[LastOf(d)].lite) \in {"none", "optional"}
  <2>1. text[LastOf(d)] \in Range(text)
    BY <1>3 DEF Range
  <2> HIDE DEF Last
  <2> QED BY <2>1, SameEntry
<1>7. HandRead = [d \in Docs |-> Overridden(NoMeta, text[LastOf(d)])]
  <2>1. CASE S = {}
    <3>1. HandRead = <<>> /\ Docs = {}
      BY <1>2, <2>1, HandReadsAll DEF ReadSoFar
    <3>2. <<>> \in Seq({})
      OBVIOUS
    <3>3. <<>> \in [{} -> {}]
      BY <3>2
    <3>4. [d \in Docs |-> Overridden(NoMeta, text[LastOf(d)])] \in [{} -> {}]
      BY <3>1
    <3>5. \A f, g \in [{} -> {}] : f = g
      OBVIOUS
    <3> HIDE DEF Docs, Last
    <3> QED BY <3>1, <3>3, <3>4, <3>5
  <2>2. CASE S # {}
    BY <1>2, <2>2, HandReadsAll DEF ReadSoFar
  <2> QED BY <2>1, <2>2
<1> HIDE DEF LastOf, Docs
<1>8. HandRead = YamlRead
  BY <1>5, <1>6, <1>7
<1> QED BY <1>5, <1>6, <1>8

(* verify_docs.py, verify_content.py and build-context.py, on a registry     *)
(* that is plain and valid: what one gate misses the other misses, and it is *)
(* on the list an agent is told to read, for any registry, types and profile. *)
LEMMA AgreedGates ==
    ASSUME text \in Registries, declared \in Declarable
    PROVE  GatesAgree
<1> SUFFICES ASSUME PlainText, ValidRegistry
             PROVE  /\ Importable(HandRead)
                    /\ DocsStrict(HandRead) <=> ContentPresent(HandRead)
                    /\ RequiredDocs(HandRead) \subseteq ReadList(YamlRead, "unset")
  BY DEF GatesAgree
<1> DEFINE metas == HandRead
<1>1. metas = YamlRead
  BY ReadersAgreeOnPlain
<1>2. \A d \in DOMAIN metas : metas[d].lite \in {"none", "optional"} /\ metas[d].required \subseteq ProjectType
  BY <1>1, ReadersAgreeOnPlain DEF ValidRegistry, ValidEntry
<1>3. declared # {} /\ declared \subseteq ProjectType
  BY RegistryAssumption
<1> HIDE DEF metas
<1>4. Importable(metas)
  BY <1>2 DEF Importable
<1>5. ASSUME NEW d \in DOMAIN metas
      PROVE  EffectiveStatus(metas[d]) = "R" <=> ~ Dropped(metas[d]) /\ \E t \in declared : t \in metas[d].required
  <2>1. EffectiveStatus(metas[d]) = "R" <=> \E t \in declared : Rating(metas[d], t) = "R"
    BY DEF EffectiveStatus
  <2>2. \A t : Rating(metas[d], t) = "R" <=> t \in metas[d].required /\ ~ (lite /\ metas[d].lite = "optional")
    BY DEF Rating
  <2>3. Dropped(metas[d]) <=> lite /\ metas[d].lite = "optional"
    BY <1>2 DEF Dropped
  <2> QED BY <2>1, <2>2, <2>3
<1>6. RequiredDocs(metas) = ContentDocs(metas)
  <2>1. \A d \in UniversalDocs(metas) : d \in RequiredDocs(metas)
    BY <1>3, <1>5 DEF UniversalDocs, RequiredDocs
  <2>2. \A d : d \in UNION {TypeDocs(metas, t) : t \in declared} <=> d \in RequiredDocs(metas)
    BY <1>5 DEF TypeDocs, RequiredDocs
  <2> QED BY <2>1, <2>2 DEF ContentDocs
<1>7. DocsStrict(metas) <=> RequiredDocs(metas) \subseteq present
  <2>1. \A d \in DOMAIN metas :
            AuditRow(metas[d], d \in present) = "missing_required" <=>
                EffectiveStatus(metas[d]) = "R" /\ d \notin present
    BY DEF AuditRow
  <2> QED BY <2>1 DEF DocsStrict, RequiredDocs
<1>8. RequiredDocs(metas) \subseteq ReadList(metas, "unset")
  BY <1>5 DEF RequiredDocs, ReadList, Classify
<1> QED BY <1>1, <1>4, <1>6, <1>7, <1>8 DEF metas, ContentPresent

(* document-registry.yaml, for registries of any length: verify_docs.py,     *)
(* verify_content.py and the read list agree about which documents a gate   *)
(* asks for, when every entry is written plainly.                           *)
THEOREM GatesAlwaysAgree == RegistryRuns => []GatesAgree
<1> DEFINE Inv == text \in Registries /\ declared \in Declarable
<1>1. RegistryInit => Inv
  BY DEF RegistryInit
<1>2. Inv /\ [RegistryStep]_registryVars => Inv'
  BY DEF RegistryStep, WriteDocument, RemoveDocument, SwitchProfile, registryVars
<1>3. Inv => GatesAgree
  BY AgreedGates
<1> QED BY <1>1, <1>2, <1>3, PTL DEF RegistryRuns

-----------------------------------------------------------------------------
(***************************************************************************)
(* The validators of documents, for a document of any lines.                *)
(***************************************************************************)
DocumentTyped ==
    /\ name \in Names /\ types \in Projects[name]
    /\ doc \in Seq(Lines(Words)) /\ \A i \in DOMAIN doc : Linked(doc[i])

LEMMA DocumentKept ==
    /\ DocumentInit => DocumentTyped
    /\ DocumentTyped /\ [DocumentStep]_documentVars => DocumentTyped'
<1>1. ASSUME DocumentInit PROVE DocumentTyped
  BY <1>1, DocumentAssumption DEF DocumentInit, DocumentTyped
<1>2. ASSUME DocumentTyped, AddLine PROVE DocumentTyped'
  <2> PICK l \in Additions[name] : doc' = Append(doc, l)
    BY <1>2 DEF AddLine
  <2>1. l \in Lines(Words) /\ Linked(l) /\ name' = name /\ types' = types
    BY <1>2, DocumentAssumption DEF AddLine, DocumentTyped
  <2>2. doc' \in Seq(Lines(Words)) /\ \A i \in DOMAIN doc' : doc'[i] = l \/ (i \in DOMAIN doc /\ doc'[i] = doc[i])
    BY <1>2, <2>1 DEF DocumentTyped
  <2> QED BY <1>2, <2>1, <2>2 DEF DocumentTyped
<1>3. ASSUME DocumentTyped, FillIn PROVE DocumentTyped'
  <2>1. name' = name /\ types' = types
    BY <1>3 DEF FillIn
  <2>2. PICK i \in DOMAIN doc :
          \/ doc' = [doc EXCEPT ![i].fill = "real"]
          \/ \E k \in DOMAIN doc[i].cells : doc' = [doc EXCEPT ![i].cells[k] = "real"]
    BY <1>3 DEF FillIn
  <2>3. doc[i] \in Lines(Words) /\ Linked(doc[i])
    BY <1>3 DEF DocumentTyped
  <2>4. \E line \in Lines(Words) : doc' = [doc EXCEPT ![i] = line] /\ Linked(line)
    <3>1. CASE doc' = [doc EXCEPT ![i].fill = "real"]
      <4> DEFINE line == [doc[i] EXCEPT !.fill = "real"]
      <4>1. line \in Lines(Words)
        BY <2>3 DEF Lines, Fill
      <4>2. Linked(line)
        BY <2>3 DEF Lines, Linked
      <4> QED BY <3>1, <4>1, <4>2
    <3>2. ASSUME NEW k \in DOMAIN doc[i].cells, doc' = [doc EXCEPT ![i].cells[k] = "real"]
          PROVE  \E line \in Lines(Words) : doc' = [doc EXCEPT ![i] = line] /\ Linked(line)
      <4> DEFINE written == [doc[i].cells EXCEPT ![k] = "real"]
                 line == [doc[i] EXCEPT !.cells = written]
      <4>1. PICK n \in 0..3 : doc[i].cells \in [1..n -> Cell]
        BY <2>3 DEF Lines
      <4>2. written \in [1..n -> Cell] /\ written # NoCells /\ doc[i].cells # NoCells
        BY <3>2, <4>1 DEF Cell, Fill, NoCells
      <4>3. line \in Lines(Words)
        <5> HIDE DEF written
        <5> DEFINE AnyCells == UNION {[1..m -> Cell] : m \in 0..3}
                   AnyLine == [form : Forms, name : Words, level : 0..3, fill : Fill, cells : AnyCells]
        <5>1. written \in AnyCells
          BY <4>2
        <5>2. doc[i] \in AnyLine /\ doc[i].form = "row"
          BY <2>3, <4>2 DEF Lines
        <5> HIDE DEF AnyCells
        <5>3. line \in AnyLine /\ line.form = "row" /\ line.cells = written
          BY <5>1, <5>2
        <5> QED BY <4>2, <5>3 DEF Lines, AnyCells
      <4>4. Linked(line)
        BY <2>3 DEF Lines, Linked
      <4>5. doc' = [doc EXCEPT ![i] = line]
        BY <3>2
      <4> QED BY <4>3, <4>4, <4>5
    <3> QED BY <2>2, <3>1, <3>2
  <2>5. PICK line \in Lines(Words) : doc' = [doc EXCEPT ![i] = line] /\ Linked(line)
    BY <2>4
  <2>6. doc' \in Seq(Lines(Words)) /\ \A j \in DOMAIN doc' : doc'[j] = line \/ (j \in DOMAIN doc /\ doc'[j] = doc[j])
    BY <1>3, <2>5 DEF DocumentTyped
  <2> QED BY <1>3, <2>1, <2>5, <2>6 DEF DocumentTyped
<1>4. ASSUME DocumentTyped, UNCHANGED documentVars PROVE DocumentTyped'
  BY <1>4 DEF DocumentTyped, documentVars
<1> QED BY <1>1, <1>2, <1>3, <1>4 DEF DocumentStep

(* The first of several lines.                                              *)
LEMMA FirstIs ==
    ASSUME NEW S \in SUBSET Nat, S # {}
    PROVE  First(S) \in S /\ \A j \in S : First(S) <= j
BY LeastNat DEF First

Untouched == DocumentTyped /\ Unwritten /\ Bare

(* Nothing is written: no value, no cell, no label followed by a value.      *)
LEMMA LineForm ==
    ASSUME Untouched, NEW i \in DOMAIN doc
    PROVE  /\ i \in Nat /\ doc[i].form \in Forms /\ doc[i].fill \in {"blank", "bracketed", "prompt", "todo"}
           /\ ~ Filled(doc[i].fill)
           /\ \E n \in 0..3 : doc[i].cells \in [1..n -> {"blank", "bracketed", "prompt", "todo", "rule", "title"}]
           /\ \A k \in DOMAIN doc[i].cells : ~ Written(doc[i].cells[k])
<1>1. doc[i] \in Lines(Words) /\ i \in Nat
  BY DEF Untouched, DocumentTyped
<1>2. doc[i].form \in Forms /\ doc[i].fill \in {"blank", "bracketed", "prompt", "todo"}
  BY <1>1 DEF Untouched, Unwritten, Lines, Fill
<1>3. PICK n \in 0..3 : doc[i].cells \in [1..n -> Cell]
  BY <1>1 DEF Lines
<1>4. doc[i].cells \in [1..n -> {"blank", "bracketed", "prompt", "todo", "rule", "title"}]
  BY <1>3 DEF Untouched, Unwritten, Cell, Fill
<1>5. ~ Filled(doc[i].fill) /\ \A k \in DOMAIN doc[i].cells : ~ Written(doc[i].cells[k])
  BY <1>2, <1>4 DEF Filled, Placeholder, Written
<1> QED BY <1>1, <1>2, <1>4, <1>5

LEMMA NoRowWritten ==
    ASSUME Untouched
    PROVE  /\ \A n, m \in 1..3 : ~ AnyRow(doc, n, m)
           /\ \A n \in 1..3 : ~ AnyUnlinkedRow(doc, n)
           /\ ~ WordRow(doc)
           /\ \A i \in Rows(doc, 2) : ~ Written(doc[i].cells[1])
<1>1. ASSUME NEW n \in 1..3, NEW i \in Rows(doc, n) PROVE ~ Written(doc[i].cells[1])
  <2>1. i \in DOMAIN doc /\ Len(doc[i].cells) >= n
    BY DEF Rows
  <2>2. PICK m \in 0..3 : doc[i].cells \in [1..m -> {"blank", "bracketed", "prompt", "todo", "rule", "title"}]
    BY <2>1, LineForm
  <2>3. Len(doc[i].cells) = m
    BY <2>2
  <2> QED BY <2>1, <2>2, <2>3, LineForm
<1> QED BY <1>1 DEF AnyRow, AnyUnlinkedRow, WordRow

LEMMA NoValue ==
    ASSUME Untouched, NEW names, NEW forms \in SUBSET {"field", "bold", "labelled", "step"}
    PROVE  ~ AnyCaptured(doc, forms, names) /\ ~ FirstCaptured(doc, forms, names)
<1>1. ASSUME NEW i \in LabelLines(doc, forms, names) PROVE ~ Filled(Captured(doc, i))
  <2>1. i \in DOMAIN doc /\ doc[i].form \in forms
    BY DEF LabelLines
  <2>2. doc[i].form \in {"field", "step"} /\ doc[i].fill # "blank"
    BY <2>1 DEF Untouched, Bare
  <2>3. Captured(doc, i) = doc[i].fill
    BY <2>2 DEF Captured
  <2> QED BY <2>1, <2>3, LineForm
<1>2. ASSUME LabelLines(doc, forms, names) # {}
      PROVE  First(LabelLines(doc, forms, names)) \in LabelLines(doc, forms, names)
  <2>1. LabelLines(doc, forms, names) \in SUBSET Nat
    BY LineForm DEF LabelLines
  <2> QED BY <1>2, <2>1, FirstIs
<1> QED BY <1>1, <1>2 DEF AnyCaptured, FirstCaptured

LEMMA SectionStart ==
    ASSUME Untouched, NEW names, HasSection(doc, names)
    PROVE  LET start == First(SectionStarts(doc, names))
           IN  start \in DOMAIN doc /\ doc[start].form = "heading" /\ doc[start].fill = "blank"
<1>1. SectionStarts(doc, names) \in SUBSET Nat /\ SectionStarts(doc, names) # {}
  BY LineForm DEF SectionStarts, LabelLines, HasSection
<1>2. First(SectionStarts(doc, names)) \in SectionStarts(doc, names)
  BY <1>1, FirstIs
<1> QED BY <1>2 DEF SectionStarts, LabelLines, Untouched, Bare

(* No section has a line that counts.                                       *)
LEMMA SectionLine ==
    ASSUME Untouched, NEW names, HasSection(doc, names), NEW l \in SectionBody(doc, names)
    PROVE  l[1].form \in {"rest", "text"} /\ Stripped(l[1]) \in {"blank", "todo"}
<1> DEFINE start == First(SectionStarts(doc, names))
           ends == {j \in DOMAIN doc : doc[j].form = "heading" /\ doc[j].level <= doc[start].level}
           later == {s \in ends : s > start} \cup {Len(doc) + 1}
<1>1. start \in DOMAIN doc /\ doc[start].form = "heading" /\ doc[start].fill = "blank"
  BY SectionStart
<1>2. l = <<[doc[start] EXCEPT !.form = "rest"], start>>
      \/ \E j \in LinesAfter(doc, start, ends) : l = <<doc[j], j>>
  BY DEF SectionBody
<1>3. CASE l = <<[doc[start] EXCEPT !.form = "rest"], start>>
  <2>1. l[1] = [doc[start] EXCEPT !.form = "rest"] /\ doc[start] \in Lines(Words)
    BY <1>1, <1>3 DEF Untouched, DocumentTyped
  <2>2. l[1].form = "rest" /\ l[1].fill = "blank" /\ Marks(l[1]) = Marks(doc[start])
    BY <1>1, <2>1 DEF Lines, Marks
  <2> QED BY <2>2 DEF Stripped
<1>4. ASSUME NEW j \in LinesAfter(doc, start, ends), l = <<doc[j], j>>
      PROVE  l[1].form = "text" /\ Stripped(l[1]) \in {"blank", "todo"}
  <2>1. start \in Nat /\ Len(doc) \in Nat /\ DOMAIN doc = 1..Len(doc)
    BY <1>1 DEF Untouched, DocumentTyped
  <2>2. later \in SUBSET Nat /\ later # {} /\ Len(doc) + 1 \in later
    BY <2>1
  <2>3. First(later) \in Nat /\ First(later) <= Len(doc) + 1 /\ \A s \in ends : s > start => First(later) <= s
    <3> HIDE DEF later
    <3>1. First(later) \in later /\ \A s \in later : First(later) <= s
      BY <2>2, FirstIs
    <3> QED BY <2>2, <3>1 DEF later
  <2>4. j \in start + 1..First(later) - 1
    BY DEF LinesAfter
  <2>5. j \in DOMAIN doc /\ j > start /\ j \notin ends
    <3> HIDE DEF start, ends, later
    <3>1. PICK f \in Nat : f = First(later)
      BY <2>3
    <3>2. j \in start + 1..f - 1 /\ f <= Len(doc) + 1 /\ \A s \in ends : s > start => f <= s
      BY <2>3, <2>4, <3>1
    <3>3. j \in Nat /\ j > start /\ j < f /\ j <= Len(doc)
      BY <2>1, <3>2
    <3>4. j \in 1..Len(doc)
      BY <2>1, <3>3
    <3> QED BY <2>1, <3>2, <3>3, <3>4
  <2>6. doc[j].form # "heading"
    <3> SUFFICES ASSUME doc[j].form = "heading" PROVE FALSE
      OBVIOUS
    <3>1. start \in 1..j - 1
      BY <1>1, <2>1, <2>5
    <3>2. doc[j].level <= doc[start].level
      BY <1>1, <2>5, <3>1 DEF Untouched, Bare
    <3> QED BY <2>5, <3>2
  <2>7. doc[j].form = "text"
    BY <1>1, <2>5, <2>6 DEF Untouched, Bare
  <2>8. l[1] = doc[j] /\ doc[j].fill # "real"
    BY <1>4, <2>5, LineForm
  <2> QED BY <2>7, <2>8 DEF Stripped
<1> QED BY <1>2, <1>3, <1>4

LEMMA NoSection ==
    ASSUME Untouched
    PROVE  /\ \A names : ~ SectionFilled(doc, names)
           /\ \A names : HasSection(doc, names) => \A l \in SectionBody(doc, names) : l[1].form # "row" /\ ~ RealLine(l[1])
           /\ HasDiagram(doc) => \A p \in DiagramParts(doc) : p.form # "bare" /\ (p.form = "quoted" => ~ Filled(p.fill))
<1>1. ASSUME NEW names, HasSection(doc, names), NEW l \in SectionBody(doc, names)
      PROVE  l[1].form # "row" /\ ~ RealLine(l[1])
  BY <1>1, SectionLine DEF RealLine, Filled, Placeholder
<1>2. ASSUME NEW names PROVE ~ SectionFilled(doc, names)
  <2>1. CASE ~ HasSection(doc, names)
    BY <2>1 DEF SectionFilled, BodyLines
  <2>2. CASE HasSection(doc, names)
    <3>1. {l \in SectionBody(doc, names) : RealLine(l[1])} = {}
      BY <1>1, <2>2
    <3> QED BY <3>1, FS_EmptySet DEF SectionFilled, BodyLines
  <2> QED BY <2>1, <2>2
<1>3. ASSUME HasDiagram(doc), NEW p \in DiagramParts(doc) PROVE p.form # "bare" /\ (p.form = "quoted" => ~ Filled(p.fill))
  <2> DEFINE S == DiagramStarts(doc)
             ends == {e \in DOMAIN doc : doc[e].form = "end"}
             later == {s \in ends : s > First(S)} \cup {Len(doc) + 1}
  <2>1. DOMAIN doc = 1..Len(doc) /\ Len(doc) \in Nat
    BY DEF Untouched, DocumentTyped
  <2>2. S \in SUBSET Nat /\ S # {}
    BY <1>3, <2>1 DEF DiagramStarts, HasDiagram
  <2>3. First(S) \in Nat /\ First(S) >= 1
    <3> HIDE DEF S
    <3>1. First(S) \in S
      BY <2>2, FirstIs
    <3>2. First(S) \in DOMAIN doc
      BY <3>1 DEF S, DiagramStarts
    <3> QED BY <2>1, <3>2
  <2>4. later \in SUBSET Nat /\ Len(doc) + 1 \in later
    BY <2>1
  <2>5. First(later) \in Nat /\ First(later) <= Len(doc) + 1
    <3> HIDE DEF later
    <3> QED BY <2>4, FirstIs
  <2>6. PICK k \in First(S) + 1..First(later) - 1 : p = doc[k]
    BY <1>3 DEF DiagramParts, LinesAfter
  <2>7. k \in DOMAIN doc
    <3> HIDE DEF S, ends, later
    <3>1. PICK f, g \in Nat : f = First(S) /\ g = First(later)
      BY <2>3, <2>5
    <3> QED BY <2>1, <2>3, <2>5, <2>6, <3>1
  <2> QED BY <2>6, <2>7, LineForm DEF Untouched, Bare
<1> QED BY <1>1, <1>2, <1>3

(* verify_content.py: none of its checkers asks for less than a value,       *)
(* but those that look for a word.                                          *)
LEMMA CheckersFail ==
    ASSUME Untouched, name \in Checked, name \notin WordChecks,
           ~ (name \in {"deployment", "database"} /\ types \cap Pipelines # {})
    PROVE  ~ NoIssue(name, doc, types)
<1> USE NoRowWritten, NoSection
<1>2. \A names : /\ ~ AnyCaptured(doc, {"step"}, names) /\ ~ AnyCaptured(doc, {"labelled"}, names)
                 /\ ~ FirstCaptured(doc, {"labelled"}, names)
  BY NoValue
<1>3. \A label : ~ AnyField(doc, label)
  BY NoValue DEF AnyField, Field
<1>4. \A labels : ~ FirstField(doc, labels)
  BY NoValue DEF FirstField, Field
<1>5. \A i \in DOMAIN doc : doc[i].form = "heading" => doc[i].fill = "blank"
  BY DEF Untouched, Bare
<1>6. \A i \in DOMAIN doc : doc[i].fill # "real" /\ doc[i].name # "[p](x-prompt.md)"
  BY DEF Untouched, Unwritten, DocumentTyped, Linked
<1>0. ~ AnyRow(doc, 1, 1) /\ ~ AnyRow(doc, 2, 1) /\ ~ AnyRow(doc, 3, 1) /\ ~ AnyRow(doc, 3, 3)
      /\ ~ AnyUnlinkedRow(doc, 2) /\ ~ AnyUnlinkedRow(doc, 3)
  BY NoRowWritten
<1>7. CASE name \in {"architecture", "data-model", "topology"}
  BY <1>7 DEF NoIssue, Architecture, DataModel, Topology
<1>8. CASE name \in {"quickstart", "runbook", "business-rules", "distribution"}
  BY <1>2, <1>3, <1>8 DEF NoIssue, Quickstart, Runbook, BusinessRules, Distribution
<1>9. CASE name \in {"research", "pipeline-debug", "experiment-log", "drift-policy", "llm-contract"}
  BY <1>3, <1>4, <1>9 DEF NoIssue, Research, PipelineDebug, ExperimentLog, DriftPolicy, LlmContract
<1>10. CASE name \in {"api-contract", "permissions", "pipeline-contract", "compatibility-matrix", "service-catalog"}
  BY <1>0, <1>10 DEF NoIssue, ApiContract, Permissions, PipelineContract, CompatibilityMatrix, ServiceCatalog
<1>11. CASE name \in {"business-process", "business-objects", "deployment", "prompt-library"}
  BY <1>0, <1>6, <1>11 DEF NoIssue, BusinessProcess, BusinessObjects, Deployment, PromptLibrary, Mentions
<1>12. CASE name \in {"backend", "release-guide", "eval-spec", "frontend", "database"}
  BY <1>12 DEF NoIssue, Backend, ReleaseGuide, EvalSpec, Frontend, Database
<1>13. CASE name = "model-contract"
  BY <1>13 DEF NoIssue, ModelContract
<1>14. CASE name \in {"public-api", "cli-contract"}
  BY <1>5, <1>6, <1>14 DEF NoIssue, PublicApi, CliContract, Subcommand
<1>15. CASE name = "mobile-contract"
  <2>1. \A i \in DOMAIN doc : ~ Screen(doc[i])
    BY <1>5 DEF Screen, Filled
  <2> QED BY <1>15, <2>1 DEF NoIssue, MobileContract
<1> QED
  BY <1>7, <1>8, <1>9, <1>10, <1>11, <1>12, <1>13, <1>14, <1>15 DEF Checked, WordChecks

(* verify_module_docs.py: the same, for the types of modules.                *)
LEMMA ModulesFail ==
    ASSUME Untouched, name \in Buckets \ WordChecks
    PROVE  ModuleQuality(name, doc) = "fail"
<1>1. \A label, block : ~ FirstInBlock(doc, block, label)
  <2> SUFFICES ASSUME NEW label, NEW block, LabelLines(doc, {"field"}, {label}) \cap block # {}
               PROVE  ~ Filled(Captured(doc, First(LabelLines(doc, {"field"}, {label}) \cap block)))
    BY DEF FirstInBlock
  <2> DEFINE places == LabelLines(doc, {"field"}, {label}) \cap block
  <2>1. places \in SUBSET Nat /\ places # {}
    BY LineForm DEF LabelLines
  <2>2. First(places) \in places
    <3> HIDE DEF places
    <3> QED BY <2>1, FirstIs
  <2>3. First(places) \in DOMAIN doc /\ doc[First(places)].form = "field"
    BY <2>2 DEF LabelLines
  <2> HIDE DEF places
  <2>4. Captured(doc, First(places)) = doc[First(places)].fill
    BY <2>3 DEF Captured, Untouched, Bare
  <2> QED BY <2>3, <2>4, LineForm DEF places
<1>2. \A labels : ~ FirstField(doc, labels)
  BY NoValue DEF FirstField, Field
<1>3. name \in {"Pipeline Stage", "Background Job", "Shared Utility"}
  BY DEF Buckets, WordChecks
<1>4. ~ ModuleNoIssue(name, doc)
  <2>1. CASE name = "Pipeline Stage"
    BY <1>1, <2>1 DEF ModuleNoIssue, PipelineStage
  <2>2. CASE name = "Background Job"
    BY <1>2, <2>2 DEF ModuleNoIssue, BackgroundJob
  <2>3. CASE name = "Shared Utility"
    BY <2>3, NoRowWritten DEF ModuleNoIssue, SharedUtility
  <2> QED BY <1>3, <2>1, <2>2, <2>3
<1> QED BY <1>4 DEF ModuleQuality

(* verify_docs.py --content: no section has three filled lines.             *)
LEMMA ScanNotFull ==
    ASSUME Untouched
    PROVE  ScanStatus(doc, ScanSections) \in {"partial", "poor"}
<1>1. ASSUME NEW i \in UnderTitle(doc, "Rules") PROVE ~ FilledLine(doc[i])
  <2>1. i \in DOMAIN doc /\ \E h \in DOMAIN doc : doc[h].form = "heading"
    <3>1. PICK h \in 1..i - 1 : doc[h].form = "heading"
      BY DEF UnderTitle
    <3>2. i \in DOMAIN doc /\ DOMAIN doc = 1..Len(doc) /\ Len(doc) \in Nat
      BY DEF UnderTitle, Untouched, DocumentTyped
    <3> QED BY <3>1, <3>2
  <2>2. doc[i].form \in {"heading", "text"}
    BY <2>1 DEF Untouched, Bare
  <2>3. CASE doc[i].form = "heading"
    BY <2>3 DEF FilledLine, ContentLine
  <2>4. CASE doc[i].form = "text"
    BY <2>1, <2>4, LineForm DEF FilledLine, Whole, Filled, Placeholder
  <2> QED BY <2>2, <2>3, <2>4
<1>2. {i \in UnderTitle(doc, "Rules") : FilledLine(doc[i])} = {}
  BY <1>1
<1>3. Cardinality({i \in UnderTitle(doc, "Rules") : FilledLine(doc[i])}) < MinSectionLines
  BY <1>2, FS_EmptySet DEF MinSectionLines
<1> QED BY <1>3 DEF ScanStatus, ScanSections

(* verify_logs.py and verify_tests.py: a thin section warns, results without *)
(* a number fail.                                                          *)
LEMMA LogsWarn ==
    ASSUME Untouched, types \cap LoggingTypes # {}
    PROVE  Verdict(LoggingSpec(doc, types)) \in {"warn", "fail"}
<1> DEFINE FilledIn(line) == line.form # "heading" /\ Filled(Stripped(line))
           section == {"Log Output Format"}
<1>1. BodyLines(doc, section, FilledIn) = 0
  <2>1. CASE ~ HasSection(doc, section)
    BY <2>1 DEF BodyLines
  <2>2. CASE HasSection(doc, section)
    <3>1. \A l \in SectionBody(doc, section) : ~ FilledIn(l[1])
      BY <2>2, SectionLine DEF Filled, Placeholder
    <3>2. {l \in SectionBody(doc, section) : FilledIn(l[1])} = {}
      BY <3>1
    <3> QED BY <2>2, <3>2, FS_EmptySet DEF BodyLines
  <2> QED BY <2>1, <2>2
<1> DEFINE count == BodyLines(doc, section, FilledIn)
<1>2. Status(count >= MinSectionLines, "warn") \in LoggingSpec(doc, types)
  BY DEF LoggingSpec
<1>3. count = 0
  BY <1>1
<1> HIDE DEF count
<1>4. Status(count >= MinSectionLines, "warn") = "warn"
  BY <1>3 DEF Status, MinSectionLines
<1> QED BY <1>2, <1>4 DEF Verdict

LEMMA ReportFails ==
    ASSUME Untouched
    PROVE  Verdict(TestReport(doc, types)) = "fail"
<1>1. ASSUME NEW i \in SectionLines(doc, "Summary") PROVE ~ NumberRow(doc[i])
  <2> DEFINE start == First(SectionStarts(doc, {"Summary"}))
  <2>1. HasSection(doc, {"Summary"}) /\ \E l \in SectionBody(doc, {"Summary"}) : l[2] = i
    BY DEF SectionLines
  <2> PICK l \in SectionBody(doc, {"Summary"}) : l[2] = i
    BY <2>1
  <2>2. l = <<[doc[start] EXCEPT !.form = "rest"], start>> \/ \E j : l = <<doc[j], j>>
    BY DEF SectionBody
  <2>3. doc[start].form = "heading"
    BY <2>1, SectionStart
  <2> QED BY <2>1, <2>2, <2>3, SectionLine DEF NumberRow
<1>2. {i \in SectionLines(doc, "Summary") : NumberRow(doc[i])} = {}
  BY <1>1
<1>3. "fail" \in TestReport(doc, types)
  BY <1>2 DEF TestReport
<1> QED BY <1>3 DEF Verdict

(* verify_content.py, verify_module_docs.py, verify_docs.py --content,       *)
(* verify_logs.py and verify_tests.py: a document of placeholders that stand *)
(* alone, of whatever lines, is never taken for a filled one.               *)
THEOREM NothingWrittenFails == DocumentSpec => []BareDraftFails
<1>1. ASSUME DocumentTyped PROVE BareDraftFails
  <2> SUFFICES ASSUME Untouched, name \notin WordChecks,
                      ~ (name \in {"deployment", "database"} /\ types \cap Pipelines # {})
               PROVE  Grade < 2
    BY <1>1 DEF BareDraftFails, Untouched
  <2>1. CASE name \in Checked
    BY <2>1, CheckersFail DEF Grade, Quality
  <2>2. CASE name \in Buckets /\ name \notin Checked
    BY <2>2, ModulesFail DEF Grade
  <2>3. CASE name \in Graded /\ name \notin Checked /\ name \notin Buckets
    <3>1. name = "scan" => Grade < 2
      BY <2>3, ScanNotFull DEF Grade
    <3>2. name = "logging-spec" => Grade < 2
      <4> HAVE name = "logging-spec"
      <4>1. types \cap LoggingTypes # {}
        BY DocumentAssumption DEF Untouched, DocumentTyped
      <4> QED BY <2>3, <4>1, LogsWarn DEF Grade
    <3>3. name = "test-report" => Grade < 2
      BY <2>3, ReportFails DEF Grade
    <3> QED BY <2>3, <3>1, <3>2, <3>3 DEF Graded, WordChecks
  <2> QED BY <2>1, <2>2, <2>3 DEF Untouched, DocumentTyped, Names
<1> QED BY <1>1, DocumentKept, PTL DEF DocumentSpec

-----------------------------------------------------------------------------
(***************************************************************************)
(* Progress on a document: lines are added at its end, and placeholders are *)
(* replaced by real values.  Every check is made of parts that only get     *)
(* better by it: a first match stays the first, and a body, a block or a    *)
(* diagram keeps the lines it has.                                          *)
(***************************************************************************)
CellUp(u, v) == v = u \/ ((Placeholder(u) \/ u = "blank") /\ v = "real")
LineUp(l, m) ==
    /\ m.form = l.form /\ m.name = l.name /\ m.level = l.level
    /\ l.fill \in Fill /\ (m.fill = l.fill \/ (Placeholder(l.fill) /\ m.fill = "real"))
    /\ l.form # "row" => l.cells = NoCells
    /\ DOMAIN m.cells = DOMAIN l.cells /\ Len(m.cells) = Len(l.cells)
    /\ \A k \in DOMAIN l.cells : CellUp(l.cells[k], m.cells[k])
Progress(a, b) ==
    /\ a \in Seq(Lines(Words)) /\ b \in Seq(Lines(Words)) /\ Len(a) <= Len(b)
    /\ \A i \in DOMAIN a : LineUp(a[i], b[i])

LEMMA SameLine == ASSUME NEW l \in Lines(Words) PROVE LineUp(l, l)
BY DEF Lines, LineUp, CellUp

(* Filling a value in and adding a line are progress.                       *)
LEMMA StepIsProgress ==
    ASSUME DocumentTyped, DocumentTyped', AddLine \/ FillIn
    PROVE  Progress(doc, doc')
<1>1. doc \in Seq(Lines(Words)) /\ doc' \in Seq(Lines(Words)) /\ \A i \in DOMAIN doc : doc[i] \in Lines(Words)
  BY DEF DocumentTyped
<1>2. CASE AddLine
  <2> PICK l \in Additions[name] : doc' = Append(doc, l)
    BY <1>2 DEF AddLine
  <2>1. Len(doc') = Len(doc) + 1 /\ \A i \in DOMAIN doc : doc'[i] = doc[i]
    BY <1>1
  <2>2. Len(doc) <= Len(doc')
    BY <1>1, <2>1
  <2> QED BY <1>1, <2>1, <2>2, SameLine DEF Progress
<1>3. CASE FillIn
  <2> PICK i \in DOMAIN doc :
          \/ /\ doc[i].form # "row" /\ Placeholder(doc[i].fill)
             /\ doc' = [doc EXCEPT ![i].fill = "real"]
          \/ \E k \in DOMAIN doc[i].cells :
                /\ Placeholder(doc[i].cells[k]) \/ doc[i].cells[k] = "blank"
                /\ doc' = [doc EXCEPT ![i].cells[k] = "real"]
    BY <1>3 DEF FillIn
  <2>1. Len(doc') = Len(doc) /\ \A j \in DOMAIN doc : j # i => doc'[j] = doc[j]
    BY <1>1
  <2>2. LineUp(doc[i], doc'[i])
    <3>1. CASE Placeholder(doc[i].fill) /\ doc' = [doc EXCEPT ![i].fill = "real"]
      <4>1. doc'[i] = [doc[i] EXCEPT !.fill = "real"]
        BY <3>1
      <4> QED BY <1>1, <3>1, <4>1 DEF Lines, LineUp, CellUp
    <3>2. ASSUME NEW k \in DOMAIN doc[i].cells, Placeholder(doc[i].cells[k]) \/ doc[i].cells[k] = "blank",
                 doc' = [doc EXCEPT ![i].cells[k] = "real"]
          PROVE  LineUp(doc[i], doc'[i])
      <4> DEFINE written == [doc[i].cells EXCEPT ![k] = "real"]
      <4>1. PICK n \in 0..3 : doc[i].cells \in [1..n -> Cell]
        BY <1>1 DEF Lines
      <4>2. written \in [1..n -> Cell] /\ \A j \in 1..n : CellUp(doc[i].cells[j], written[j])
        BY <3>2, <4>1 DEF CellUp, Cell, Fill
      <4>3. doc'[i] = [doc[i] EXCEPT !.cells = written]
        BY <3>2
      <4>4. doc'[i].cells = written /\ doc'[i].form = doc[i].form /\ doc'[i].name = doc[i].name
            /\ doc'[i].level = doc[i].level /\ doc'[i].fill = doc[i].fill /\ doc[i].fill \in Fill
            /\ (doc[i].form # "row" => doc[i].cells = NoCells)
        BY <1>1, <4>3 DEF Lines
      <4> HIDE DEF written
      <4>5. Len(written) = n /\ Len(doc[i].cells) = n /\ DOMAIN written = 1..n /\ DOMAIN doc[i].cells = 1..n
        BY <4>1, <4>2
      <4> QED BY <4>2, <4>4, <4>5 DEF LineUp
    <3> QED BY <3>1, <3>2
  <2> QED BY <1>1, <2>1, <2>2, SameLine DEF Progress
<1> QED BY <1>2, <1>3

(* A line that counts keeps counting.                                       *)
LEMMA LineProgress ==
    ASSUME NEW l, NEW m, LineUp(l, m)
    PROVE  /\ (m.fill = "blank") = (l.fill = "blank") /\ (Filled(l.fill) => Filled(m.fill))
           /\ \A k \in DOMAIN l.cells : Written(l.cells[k]) => Written(m.cells[k])
           /\ Filled(Whole(l)) => Filled(Whole(m))
           /\ RealLine(l) => RealLine(m)
           /\ Stripped(l) # "blank" => Stripped(m) # "blank"
<1>1. l.fill \in Fill /\ (m.fill = l.fill \/ (Placeholder(l.fill) /\ m.fill = "real"))
  BY DEF LineUp
<1>2. ASSUME NEW v \in {"todo", "prompt"}, v \notin Marks(l) PROVE v \notin Marks(m)
  BY <1>1, <1>2 DEF Marks, LineUp, CellUp
<1>3. (m.fill = "blank") = (l.fill = "blank") /\ (Filled(l.fill) => Filled(m.fill)) /\ (l.fill = "real" => m.fill = "real")
  BY <1>1 DEF Placeholder, Filled
<1>4. \A k \in DOMAIN l.cells : Written(l.cells[k]) => Written(m.cells[k])
  BY DEF LineUp, CellUp, Written, Filled, Placeholder
<1>5. Filled(Whole(l)) => Filled(Whole(m))
  <2> HAVE Filled(Whole(l))
  <2>1. "todo" \notin Marks(l) /\ "prompt" \notin Marks(l)
    BY DEF Whole, Filled, Placeholder
  <2>2. Whole(m) = IF m.form = "text" THEN m.fill ELSE "real"
    BY <1>2, <2>1 DEF Whole
  <2>3. Whole(l) = IF l.form = "text" THEN l.fill ELSE "real"
    BY <2>1 DEF Whole
  <2>4. CASE l.form = "text"
    BY <1>3, <2>2, <2>3, <2>4 DEF LineUp
  <2>5. CASE l.form # "text"
    BY <2>2, <2>5 DEF LineUp, Filled, Placeholder
  <2> QED BY <2>4, <2>5
<1>6. Stripped(l) = "real" => Stripped(m) = "real"
  <2> HAVE Stripped(l) = "real"
  <2>1. "todo" \notin Marks(l) /\ ~ (l.form \in {"text", "rest"} /\ l.fill # "real")
    BY DEF Stripped
  <2> QED BY <1>2, <1>3, <2>1 DEF Stripped, LineUp
<1>7. Stripped(l) # "blank" => Stripped(m) # "blank"
  <2> SUFFICES ASSUME Stripped(m) = "blank" PROVE Stripped(l) = "blank"
    OBVIOUS
  <2>1. m.form \in {"text", "rest"} /\ m.fill # "real" /\ "todo" \notin Marks(m)
    BY DEF Stripped
  <2>2. l.form \in {"text", "rest"} /\ l.fill # "real" /\ l.fill = m.fill
    BY <1>1, <2>1 DEF LineUp
  <2>3. l.cells = NoCells
    BY <2>2 DEF LineUp
  <2>4. DOMAIN l.cells = {}
    BY <2>3 DEF NoCells
  <2>5. "todo" \notin Marks(l)
    BY <2>1, <2>2, <2>4 DEF Marks
  <2> QED BY <2>2, <2>5 DEF Stripped
<1> QED BY <1>3, <1>4, <1>5, <1>6, <1>7 DEF RealLine, Filled, Placeholder, Stripped

(* What is marked stays marked, its first line stays the first, and what    *)
(* runs from it to a stop runs at least as far.                             *)
LEMMA FirstStays ==
    ASSUME NEW a, NEW b, Progress(a, b), NEW S \in SUBSET DOMAIN a, S # {},
           NEW T \in SUBSET DOMAIN b, T \cap DOMAIN a = S
    PROVE  T # {} /\ First(T) = First(S) /\ First(S) \in S
<1>1. DOMAIN a = 1..Len(a) /\ DOMAIN b = 1..Len(b) /\ Len(a) \in Nat /\ Len(b) \in Nat
  BY DEF Progress
<1>2. S \in SUBSET Nat /\ T \in SUBSET Nat /\ T # {}
  BY <1>1
<1>3. First(S) \in S /\ \A j \in S : First(S) <= j
  BY <1>2, FirstIs
<1>4. First(T) \in T /\ \A j \in T : First(T) <= j
  BY <1>2, FirstIs
<1>5. First(T) <= First(S) /\ First(T) \in DOMAIN a
  BY <1>1, <1>2, <1>3, <1>4
<1>6. First(S) <= First(T) /\ First(S) \in Nat /\ First(T) \in Nat
  BY <1>2, <1>3, <1>4, <1>5
<1> QED BY <1>2, <1>3, <1>5, <1>6

LEMMA FurtherLines ==
    ASSUME NEW a, NEW b, Progress(a, b), NEW i \in DOMAIN a, NEW S \in SUBSET DOMAIN a,
           NEW T \in SUBSET DOMAIN b, T \cap DOMAIN a = S
    PROVE  /\ LinesAfter(a, i, S) \subseteq DOMAIN a /\ LinesAfter(b, i, T) \subseteq DOMAIN b
           /\ LinesAfter(a, i, S) = LinesAfter(b, i, T) \cap DOMAIN a
           /\ \A j \in LinesAfter(b, i, T) : j > i
<1> DEFINE s == {k \in S : k > i} \cup {Len(a) + 1}
           t == {k \in T : k > i} \cup {Len(b) + 1}
<1>1. DOMAIN a = 1..Len(a) /\ DOMAIN b = 1..Len(b) /\ Len(a) \in Nat /\ Len(b) \in Nat /\ Len(a) <= Len(b) /\ i \in Nat
  BY DEF Progress
<1>2. s \in SUBSET Nat /\ t \in SUBSET Nat /\ s # {} /\ t # {}
  BY <1>1
<1>3. PICK f \in Nat : f = First(s) /\ f \in s /\ \A j \in s : f <= j
  <2> HIDE DEF s
  <2> QED BY <1>2, FirstIs
<1>4. PICK g \in Nat : g = First(t) /\ g \in t /\ \A j \in t : g <= j
  <2> HIDE DEF t
  <2> QED BY <1>2, FirstIs
<1>5. LinesAfter(a, i, S) = i + 1..f - 1 /\ LinesAfter(b, i, T) = i + 1..g - 1
  BY <1>3, <1>4 DEF LinesAfter
<1>6. f <= Len(a) + 1 /\ g <= Len(b) + 1
  BY <1>3, <1>4
<1>7. g <= Len(a) => g = f
  <2> HAVE g <= Len(a)
  <2>1. g \in T /\ g > i /\ g >= 1
    BY <1>1, <1>4
  <2>2. g \in S
    BY <1>1, <2>1
  <2>3. f <= g /\ f <= Len(a) /\ f \in S /\ f > i
    BY <1>1, <1>3, <2>1, <2>2
  <2>4. f \in t
    BY <2>3
  <2> HIDE DEF s, t
  <2> QED BY <1>4, <2>3, <2>4
<1>8. g > Len(a) => f = Len(a) + 1
  <2> HAVE g > Len(a)
  <2> SUFFICES ASSUME f # Len(a) + 1 PROVE FALSE
    OBVIOUS
  <2>1. f \in t /\ f <= Len(a)
    BY <1>1, <1>3, <1>6
  <2> HIDE DEF s, t
  <2> QED BY <1>1, <1>4, <2>1
<1> HIDE DEF s, t
<1>9. g <= Len(a) \/ g > Len(a)
  BY <1>1, <1>4
<1>10. LinesAfter(a, i, S) = LinesAfter(b, i, T) \cap DOMAIN a
  <2>1. CASE g <= Len(a)
    BY <1>1, <1>3, <1>4, <1>5, <1>7, <2>1
  <2>2. CASE g > Len(a)
    BY <1>1, <1>3, <1>4, <1>5, <1>8, <2>2
  <2> QED BY <1>9, <2>1, <2>2
<1>11. LinesAfter(a, i, S) \subseteq DOMAIN a /\ LinesAfter(b, i, T) \subseteq DOMAIN b
  <2>1. f \in Nat /\ g \in Nat
    BY <1>3, <1>4
  <2>2. i + 1..f - 1 \subseteq 1..Len(a)
    BY <1>1, <1>6, <2>1
  <2>3. i + 1..g - 1 \subseteq 1..Len(b)
    BY <1>1, <1>6, <2>1
  <2> QED BY <1>1, <1>5, <2>2, <2>3
<1>12. \A j \in LinesAfter(b, i, T) : j > i
  BY <1>1, <1>4, <1>5
<1> QED BY <1>10, <1>11, <1>12

LEMMA MarkedLines ==
    ASSUME NEW a, NEW b, Progress(a, b)
    PROVE  /\ DOMAIN a \subseteq DOMAIN b
           /\ \A forms, names : /\ LabelLines(b, forms, names) \cap DOMAIN a = LabelLines(a, forms, names)
                                /\ LabelLines(a, forms, names) \subseteq DOMAIN a
                                /\ LabelLines(b, forms, names) \subseteq DOMAIN b
           /\ \A forms, names : LabelLines(a, forms, names) # {} =>
                  /\ LabelLines(b, forms, names) # {}
                  /\ First(LabelLines(b, forms, names)) = First(LabelLines(a, forms, names))
                  /\ First(LabelLines(a, forms, names)) \in LabelLines(a, forms, names)
           /\ \A word : Mentions(a, word) =>
                  /\ Mentions(b, word)
                  /\ First({i \in DOMAIN b : b[i].name = word}) = First({i \in DOMAIN a : a[i].name = word})
                  /\ First({i \in DOMAIN a : a[i].name = word}) \in DOMAIN a
<1>1. DOMAIN a \subseteq DOMAIN b /\ \A i \in DOMAIN a : b[i].form = a[i].form /\ b[i].name = a[i].name
  BY DEF Progress, LineUp
<1>2. \A forms, names : /\ LabelLines(b, forms, names) \cap DOMAIN a = LabelLines(a, forms, names)
                        /\ LabelLines(a, forms, names) \subseteq DOMAIN a
                        /\ LabelLines(b, forms, names) \subseteq DOMAIN b
  BY <1>1 DEF LabelLines
<1>3. ASSUME NEW forms, NEW names, LabelLines(a, forms, names) # {}
      PROVE  /\ LabelLines(b, forms, names) # {}
             /\ First(LabelLines(b, forms, names)) = First(LabelLines(a, forms, names))
             /\ First(LabelLines(a, forms, names)) \in LabelLines(a, forms, names)
  BY <1>2, <1>3, FirstStays
<1>4. ASSUME NEW word, Mentions(a, word)
      PROVE  /\ Mentions(b, word)
             /\ First({i \in DOMAIN b : b[i].name = word}) = First({i \in DOMAIN a : a[i].name = word})
             /\ First({i \in DOMAIN a : a[i].name = word}) \in DOMAIN a
  <2> DEFINE S == {i \in DOMAIN a : a[i].name = word}
             T == {i \in DOMAIN b : b[i].name = word}
  <2>1. S \in SUBSET DOMAIN a /\ T \in SUBSET DOMAIN b /\ T \cap DOMAIN a = S
    BY <1>1
  <2>2. S # {} /\ (T # {} => Mentions(b, word))
    BY <1>4 DEF Mentions
  <2> HIDE DEF S, T
  <2>3. T # {} /\ First(T) = First(S) /\ First(S) \in S
    BY <2>1, <2>2, FirstStays
  <2> QED BY <2>1, <2>2, <2>3 DEF S, T
<1> QED BY <1>1, <1>2, <1>3, <1>4

LEMMA FirstLabel ==
    ASSUME NEW a, NEW b, Progress(a, b), NEW forms, NEW names, LabelLines(a, forms, names) # {}
    PROVE  /\ LabelLines(b, forms, names) # {}
           /\ First(LabelLines(b, forms, names)) = First(LabelLines(a, forms, names))
           /\ First(LabelLines(a, forms, names)) \in DOMAIN a
BY MarkedLines

LEMMA SameForms ==
    ASSUME NEW a, NEW b, Progress(a, b), NEW i \in DOMAIN a
    PROVE  i \in DOMAIN b /\ b[i].form = a[i].form /\ b[i].name = a[i].name /\ b[i].level = a[i].level
           /\ (b[i].fill = "blank") = (a[i].fill = "blank")
BY MarkedLines, LineProgress DEF Progress, LineUp

(* A label whose value counts keeps one that counts.                        *)
LEMMA LabelsUp ==
    ASSUME NEW a, NEW b, Progress(a, b)
    PROVE  /\ \A i \in DOMAIN a : Filled(Captured(a, i)) => Filled(Captured(b, i))
           /\ \A forms, names : AnyCaptured(a, forms, names) => AnyCaptured(b, forms, names)
           /\ \A forms, names : FirstCaptured(a, forms, names) => FirstCaptured(b, forms, names)
<1>1. ASSUME NEW i \in DOMAIN a, Filled(Captured(a, i)) PROVE Filled(Captured(b, i))
  <2>1. LineUp(a[i], b[i]) /\ DOMAIN a = 1..Len(a) /\ Len(a) \in Nat /\ Len(b) \in Nat /\ Len(a) <= Len(b)
    BY DEF Progress
  <2>2. CASE a[i].form \in {"bold", "labelled"}
    <3>1. b[i].form \in {"bold", "labelled"}
      BY <2>1, <2>2 DEF LineUp
    <3> QED BY <1>1, <2>1, <2>2, <3>1, LineProgress DEF Captured
  <2>3. CASE a[i].form \notin {"bold", "labelled"} /\ a[i].fill # "blank"
    <3>1. b[i].form \notin {"bold", "labelled"} /\ b[i].fill # "blank"
      BY <2>1, <2>3, LineProgress DEF LineUp
    <3> QED BY <1>1, <2>1, <2>3, <3>1, LineProgress DEF Captured
  <2>4. CASE a[i].form \notin {"bold", "labelled"} /\ a[i].fill = "blank"
    <3>1. b[i].form \notin {"bold", "labelled"} /\ b[i].fill = "blank"
      BY <2>1, <2>4, LineProgress DEF LineUp
    <3>2. i < Len(a)
      BY <1>1, <2>4 DEF Captured, Filled
    <3>3. i + 1 \in DOMAIN a /\ i < Len(b)
      BY <2>1, <3>2
    <3>4. Captured(a, i) = Whole(a[i + 1]) /\ Captured(b, i) = Whole(b[i + 1])
      BY <2>4, <3>1, <3>2, <3>3 DEF Captured
    <3>5. LineUp(a[i + 1], b[i + 1])
      BY <3>3 DEF Progress
    <3> QED BY <1>1, <3>4, <3>5, LineProgress
  <2> QED BY <2>2, <2>3, <2>4
<1>2. \A forms, names : AnyCaptured(a, forms, names) => AnyCaptured(b, forms, names)
  BY <1>1, MarkedLines DEF AnyCaptured
<1>3. \A forms, names : FirstCaptured(a, forms, names) => FirstCaptured(b, forms, names)
  BY <1>1, MarkedLines DEF FirstCaptured
<1> QED BY <1>1, <1>2, <1>3

(* A row of a table that counts keeps counting.                             *)
LEMMA RowsUp ==
    ASSUME NEW a, NEW b, Progress(a, b)
    PROVE  /\ \A n : Rows(a, n) \subseteq Rows(b, n)
           /\ \A i \in DOMAIN a : \A k \in DOMAIN a[i].cells :
                  /\ Written(a[i].cells[k]) => Written(b[i].cells[k])
                  /\ Written(a[i].cells[k]) /\ a[i].cells[k] # "link" => b[i].cells[k] # "link"
           /\ \A i \in DOMAIN a : DOMAIN a[i].cells = 1..Len(a[i].cells) /\ Len(a[i].cells) \in Nat
           /\ AnyRow(a, 1, 1) => AnyRow(b, 1, 1)
           /\ AnyRow(a, 2, 1) => AnyRow(b, 2, 1)
           /\ AnyRow(a, 3, 1) => AnyRow(b, 3, 1)
           /\ AnyRow(a, 3, 3) => AnyRow(b, 3, 3)
           /\ AnyUnlinkedRow(a, 2) => AnyUnlinkedRow(b, 2)
           /\ AnyUnlinkedRow(a, 3) => AnyUnlinkedRow(b, 3)
           /\ WordRow(a) => WordRow(b)
<1>1. \A n : Rows(a, n) \subseteq Rows(b, n)
  BY MarkedLines DEF Rows, Progress, LineUp
<1>2. ASSUME NEW i \in DOMAIN a, NEW k \in DOMAIN a[i].cells
      PROVE  /\ Written(a[i].cells[k]) => Written(b[i].cells[k])
             /\ Written(a[i].cells[k]) /\ a[i].cells[k] # "link" => b[i].cells[k] # "link"
  <2>1. LineUp(a[i], b[i])
    BY DEF Progress
  <2> QED BY <2>1, LineProgress DEF LineUp, CellUp
<1>3. ASSUME NEW i \in DOMAIN a PROVE DOMAIN a[i].cells = 1..Len(a[i].cells) /\ Len(a[i].cells) \in Nat
  <2>1. a[i] \in Lines(Words)
    BY DEF Progress
  <2>2. PICK n \in 0..3 : a[i].cells \in [1..n -> Cell]
    BY <2>1 DEF Lines
  <2> QED BY <2>2
<1>4. \A n, i : i \in Rows(a, n) => i \in DOMAIN a /\ Len(a[i].cells) >= n
  BY DEF Rows
<1>5. \A n \in 1..3 : \A needed \in 1..n : AnyRow(a, n, needed) => AnyRow(b, n, needed)
  <2> SUFFICES ASSUME NEW n \in 1..3, NEW needed \in 1..n, AnyRow(a, n, needed) PROVE AnyRow(b, n, needed)
    OBVIOUS
  <2> PICK i \in Rows(a, n) : \A k \in 1..needed : Written(a[i].cells[k])
    BY DEF AnyRow
  <2>1. i \in DOMAIN a /\ 1..needed \subseteq DOMAIN a[i].cells
    BY <1>3, <1>4
  <2> QED BY <1>1, <1>2, <2>1 DEF AnyRow
<1>6. \A n \in 1..3 : AnyUnlinkedRow(a, n) => AnyUnlinkedRow(b, n)
  <2> SUFFICES ASSUME NEW n \in 1..3, AnyUnlinkedRow(a, n) PROVE AnyUnlinkedRow(b, n)
    OBVIOUS
  <2> PICK i \in Rows(a, n) : Written(a[i].cells[1]) /\ a[i].cells[1] # "link"
    BY DEF AnyUnlinkedRow
  <2>1. i \in DOMAIN a /\ 1 \in DOMAIN a[i].cells
    BY <1>3, <1>4
  <2> QED BY <1>1, <1>2, <2>1 DEF AnyUnlinkedRow
<1>7. WordRow(a) => WordRow(b)
  <2> HAVE WordRow(a)
  <2> PICK i \in Rows(a, 2) : Written(a[i].cells[1]) /\ a[i].cells[1] # "link" /\ Written(a[i].cells[2])
    BY DEF WordRow
  <2>1. i \in DOMAIN a /\ 1 \in DOMAIN a[i].cells /\ 2 \in DOMAIN a[i].cells
    BY <1>3, <1>4
  <2> QED BY <1>1, <1>2, <2>1 DEF WordRow
<1> QED BY <1>1, <1>2, <1>3, <1>5, <1>6, <1>7

LEMMA RowCells ==
    ASSUME NEW a, NEW b, Progress(a, b), NEW i \in Rows(a, 2)
    PROVE  i \in DOMAIN a /\ 1 \in DOMAIN a[i].cells /\ 2 \in DOMAIN a[i].cells
<1>1. i \in DOMAIN a /\ Len(a[i].cells) >= 2
  BY DEF Rows
<1>2. DOMAIN a[i].cells = 1..Len(a[i].cells) /\ Len(a[i].cells) \in Nat
  BY <1>1, RowsUp
<1> QED BY <1>1, <1>2

(* The body of a section keeps its lines, and so its count of those that    *)
(* count.                                                                   *)
LEMMA SectionUp ==
    ASSUME NEW a, NEW b, Progress(a, b), NEW names, HasSection(a, names)
    PROVE  /\ HasSection(b, names) /\ First(SectionStarts(b, names)) = First(SectionStarts(a, names))
           /\ \A l \in SectionBody(a, names) : \E m \in SectionBody(b, names) :
                  /\ m[2] = l[2] /\ LineUp(l[1], m[1]) /\ l[2] \in DOMAIN a
                  /\ a[l[2]] = b[l[2]] => m = l
           /\ \A l \in SectionBody(a, names) : \A m \in SectionBody(a, names) : l[2] = m[2] => l = m
           /\ \A m \in SectionBody(b, names) : m[2] \in DOMAIN b
           /\ IsFiniteSet(SectionBody(b, names))
           /\ \A l \in SectionBody(a, names) : Marks(l[1]) = Marks(a[l[2]])
<1> DEFINE start == First(SectionStarts(a, names))
           ends(d) == {j \in DOMAIN d : d[j].form = "heading" /\ d[j].level <= d[start].level}
           rest(d) == [d[start] EXCEPT !.form = "rest"]
<1>1. HasSection(b, names) /\ First(SectionStarts(b, names)) = start /\ start \in DOMAIN a
  BY MarkedLines DEF HasSection, SectionStarts
<1>2. DOMAIN a = 1..Len(a) /\ DOMAIN b = 1..Len(b) /\ Len(a) \in Nat /\ Len(b) \in Nat /\ DOMAIN a \subseteq DOMAIN b
      /\ \A i \in DOMAIN a : LineUp(a[i], b[i]) /\ a[i] \in Lines(Words)
  BY MarkedLines DEF Progress
<1>3. ends(a) \in SUBSET DOMAIN a /\ ends(b) \in SUBSET DOMAIN b /\ ends(b) \cap DOMAIN a = ends(a)
  BY <1>1, <1>2 DEF LineUp
<1>4. SectionBody(a, names) = {<<rest(a), start>>} \cup {<<a[j], j>> : j \in LinesAfter(a, start, ends(a))}
  BY DEF SectionBody
<1>5. SectionBody(b, names) = {<<rest(b), start>>} \cup {<<b[j], j>> : j \in LinesAfter(b, start, ends(b))}
  BY <1>1 DEF SectionBody
<1>6. LineUp(rest(a), rest(b)) /\ rest(a).form = "rest"
  <2>1. LineUp(a[start], b[start]) /\ a[start] \in Lines(Words) /\ b[start] \in Lines(Words)
    BY <1>1, <1>2 DEF Progress
  <2>0. a[start].form = "heading"
    <3>1. start \in SectionStarts(a, names)
      BY MarkedLines DEF HasSection, SectionStarts
    <3> HIDE DEF start
    <3> QED BY <3>1 DEF SectionStarts, LabelLines
  <2>4. a[start].cells = NoCells
    BY <2>0, <2>1 DEF LineUp
  <2>2. rest(a).form = "rest" /\ rest(a).name = a[start].name /\ rest(a).level = a[start].level
        /\ rest(a).fill = a[start].fill /\ rest(a).cells = a[start].cells
    BY <2>1 DEF Lines
  <2>3. rest(b).form = "rest" /\ rest(b).name = b[start].name /\ rest(b).level = b[start].level
        /\ rest(b).fill = b[start].fill /\ rest(b).cells = b[start].cells
    BY <2>1 DEF Lines
  <2> HIDE DEF rest, start
  <2> QED BY <2>1, <2>2, <2>3, <2>4 DEF LineUp
<1> HIDE DEF start, ends, rest
<1>7. /\ LinesAfter(a, start, ends(a)) \subseteq DOMAIN a /\ LinesAfter(b, start, ends(b)) \subseteq DOMAIN b
      /\ LinesAfter(a, start, ends(a)) \subseteq LinesAfter(b, start, ends(b))
      /\ \A j \in LinesAfter(b, start, ends(b)) : j > start
  BY <1>1, <1>3, FurtherLines
<1>8. ASSUME NEW l \in SectionBody(a, names)
      PROVE  \E m \in SectionBody(b, names) :
                 /\ m[2] = l[2] /\ LineUp(l[1], m[1]) /\ l[2] \in DOMAIN a
                 /\ a[l[2]] = b[l[2]] => m = l
  <2>1. CASE l = <<rest(a), start>>
    <3>1. <<rest(b), start>> \in SectionBody(b, names)
      BY <1>5
    <3>2. a[start] = b[start] => rest(a) = rest(b)
      BY DEF rest
    <3> QED BY <1>1, <1>6, <2>1, <3>1, <3>2
  <2>2. ASSUME NEW j \in LinesAfter(a, start, ends(a)), l = <<a[j], j>>
        PROVE  \E m \in SectionBody(b, names) :
                   /\ m[2] = l[2] /\ LineUp(l[1], m[1]) /\ l[2] \in DOMAIN a
                   /\ a[l[2]] = b[l[2]] => m = l
    <3>1. <<b[j], j>> \in SectionBody(b, names) /\ j \in DOMAIN a
      BY <1>5, <1>7
    <3> QED BY <1>2, <2>2, <3>1
  <2> QED BY <1>4, <2>1, <2>2
<1>9. \A l \in SectionBody(a, names) : \A m \in SectionBody(a, names) : l[2] = m[2] => l = m
  <2>1. \A j \in LinesAfter(a, start, ends(a)) : j # start
    BY <1>1, <1>2, <1>7
  <2> QED BY <1>4, <2>1
<1>10. \A m \in SectionBody(b, names) : m[2] \in DOMAIN b
  BY <1>1, <1>2, <1>5, <1>7
<1>11. IsFiniteSet(SectionBody(b, names))
  <2>1. IsFiniteSet(DOMAIN b)
    BY <1>2, FS_Interval
  <2> DEFINE place == [m \in SectionBody(b, names) |-> m[2]]
  <2>2. \A j \in LinesAfter(b, start, ends(b)) : j # start
    BY <1>1, <1>2, <1>7
  <2>3. place \in Injection(SectionBody(b, names), DOMAIN b)
    BY <1>5, <1>10, <2>2 DEF Injection, IsInjective
  <2> QED BY <2>1, <2>3, FS_Injection
<1>12. \A l \in SectionBody(a, names) : Marks(l[1]) = Marks(a[l[2]])
  <2>1. Marks(rest(a)) = Marks(a[start])
    BY <1>1, <1>2 DEF rest, Marks, Lines
  <2> QED BY <1>4, <2>1
<1> QED BY <1>1, <1>8, <1>9, <1>10, <1>11, <1>12 DEF start

LEMMA LinesUp ==
    ASSUME NEW a, NEW b, Progress(a, b), NEW names, HasSection(a, names), NEW l \in SectionBody(a, names)
    PROVE  /\ \E m \in SectionBody(b, names) :
                  /\ m[2] = l[2] /\ LineUp(l[1], m[1]) /\ l[2] \in DOMAIN a
                  /\ a[l[2]] = b[l[2]] => m = l
           /\ Marks(l[1]) = Marks(a[l[2]])
BY SectionUp

LEMMA CountUp ==
    ASSUME NEW a, NEW b, Progress(a, b), NEW names, HasSection(a, names),
           NEW A \in SUBSET SectionBody(a, names), NEW B \in SUBSET SectionBody(b, names),
           \A l \in A : \E m \in B : m[2] = l[2]
    PROVE  Cardinality(A) \in Nat /\ Cardinality(B) \in Nat /\ Cardinality(A) <= Cardinality(B)
<1> DEFINE there == [l \in A |-> CHOOSE m \in B : m[2] = l[2]]
<1>1. \A l \in A : there[l] \in B /\ there[l][2] = l[2]
  OBVIOUS
<1>2. \A l, m \in A : l[2] = m[2] => l = m
  BY SectionUp
<1>3. there \in Injection(A, B)
  BY <1>1, <1>2 DEF Injection, IsInjective
<1>4. IsFiniteSet(B)
  BY SectionUp, FS_Subset
<1>5. IsFiniteSet(A) /\ Cardinality(A) <= Cardinality(B)
  BY <1>3, <1>4, FS_Injection
<1> QED BY <1>4, <1>5, FS_CardinalityType

LEMMA BodiesUp ==
    ASSUME NEW a, NEW b, Progress(a, b), NEW names, HasSection(a, names)
    PROVE  /\ SectionFilled(a, names) => SectionFilled(b, names)
           /\ BodyLines(a, names, RealLine) >= 2 => BodyLines(b, names, RealLine) >= 2
           /\ Cardinality({l \in SectionBody(a, names) : Stripped(l[1]) # "blank"}) >= 3 =>
                  Cardinality({l \in SectionBody(b, names) : Stripped(l[1]) # "blank"}) >= 3
           /\ Cardinality({l \in SectionBody(a, names) : l[1].form # "heading" /\ Filled(Stripped(l[1]))}) >= 3 =>
                  Cardinality({l \in SectionBody(b, names) : l[1].form # "heading" /\ Filled(Stripped(l[1]))}) >= 3
<1> DEFINE R(d) == {l \in SectionBody(d, names) : RealLine(l[1])}
           N(d) == {l \in SectionBody(d, names) : Stripped(l[1]) # "blank"}
           F(d) == {l \in SectionBody(d, names) : l[1].form # "heading" /\ Filled(Stripped(l[1]))}
<1>1. HasSection(b, names) /\ \A l \in SectionBody(a, names) : \E m \in SectionBody(b, names) :
          m[2] = l[2] /\ LineUp(l[1], m[1])
  BY SectionUp
<1>2. \A l \in R(a) : \E m \in R(b) : m[2] = l[2] /\ m[1].form = l[1].form
  BY <1>1, LineProgress DEF LineUp
<1>3. \A l \in N(a) : \E m \in N(b) : m[2] = l[2]
  BY <1>1, LineProgress
<1>4. \A l \in F(a) : \E m \in F(b) : m[2] = l[2]
  BY <1>1, LineProgress DEF LineUp, RealLine
<1>5. R(a) \subseteq SectionBody(a, names) /\ N(a) \subseteq SectionBody(a, names) /\ F(a) \subseteq SectionBody(a, names)
      /\ R(b) \subseteq SectionBody(b, names) /\ N(b) \subseteq SectionBody(b, names) /\ F(b) \subseteq SectionBody(b, names)
  OBVIOUS
<1>6. BodyLines(a, names, RealLine) = Cardinality(R(a)) /\ BodyLines(b, names, RealLine) = Cardinality(R(b))
  BY <1>1 DEF BodyLines
<1> HIDE DEF R, N, F
<1>8. Cardinality(R(a)) \in Nat /\ Cardinality(R(b)) \in Nat /\ Cardinality(R(a)) <= Cardinality(R(b))
  BY <1>2, <1>5, CountUp
<1>9. Cardinality(N(a)) \in Nat /\ Cardinality(N(b)) \in Nat /\ Cardinality(N(a)) <= Cardinality(N(b))
  BY <1>3, <1>5, CountUp
<1>10. Cardinality(F(a)) \in Nat /\ Cardinality(F(b)) \in Nat /\ Cardinality(F(a)) <= Cardinality(F(b))
  BY <1>4, <1>5, CountUp
<1>11. (BodyLines(a, names, RealLine) > 0 => BodyLines(b, names, RealLine) > 0)
       /\ (BodyLines(a, names, RealLine) >= 2 => BodyLines(b, names, RealLine) >= 2)
  BY <1>6, <1>8
<1>12. (Cardinality(N(a)) >= 3 => Cardinality(N(b)) >= 3) /\ (Cardinality(F(a)) >= 3 => Cardinality(F(b)) >= 3)
  BY <1>9, <1>10
<1>13. SectionFilled(a, names) => SectionFilled(b, names)
  BY <1>11 DEF SectionFilled
<1> QED BY <1>11, <1>12, <1>13 DEF N, F

LEMMA RealLinesUp ==
    ASSUME NEW a, NEW b, Progress(a, b), NEW names, HasSection(a, names),
           NEW l \in SectionBody(a, names), RealLine(l[1])
    PROVE  \E m \in SectionBody(b, names) : RealLine(m[1]) /\ m[1].form = l[1].form
<1> PICK m \in SectionBody(b, names) : LineUp(l[1], m[1])
  BY LinesUp
<1> QED BY LineProgress DEF LineUp

LEMMA SectionsUp ==
    ASSUME NEW a, NEW b, Progress(a, b), NEW names
    PROVE  /\ SectionFilled(a, names) => SectionFilled(b, names)
           /\ BodyLines(a, names, RealLine) >= 2 => BodyLines(b, names, RealLine) >= 2
<1>1. ~ HasSection(a, names) => BodyLines(a, names, RealLine) = 0
  BY DEF BodyLines
<1>2. CASE ~ HasSection(a, names)
  BY <1>1, <1>2 DEF SectionFilled
<1>3. CASE HasSection(a, names)
  BY <1>3, BodiesUp
<1> QED BY <1>2, <1>3

(* A diagram keeps its lines.                                               *)
LEMMA DiagramUp ==
    ASSUME NEW a, NEW b, Progress(a, b), HasDiagram(a)
    PROVE  /\ HasDiagram(b)
           /\ \A p \in DiagramParts(a) : \E k \in DOMAIN a :
                  p = a[k] /\ b[k] \in DiagramParts(b) /\ LineUp(p, b[k])
<1>0. ASSUME NEW k \in DOMAIN a, NEW x \in SUBSET DOMAIN a, NEW y \in SUBSET DOMAIN b, y \cap DOMAIN a = x
      PROVE  LinesAfter(a, k, x) \subseteq DOMAIN a /\ LinesAfter(a, k, x) = LinesAfter(b, k, y) \cap DOMAIN a
  BY <1>0, FurtherLines
<1> DEFINE S(d) == {e \in DOMAIN d : d[e].form = "end"}
<1>1. DOMAIN a = 1..Len(a) /\ DOMAIN b = 1..Len(b) /\ Len(a) \in Nat /\ Len(b) \in Nat /\ Len(a) <= Len(b)
      /\ DOMAIN a \subseteq DOMAIN b /\ \A i \in DOMAIN a : LineUp(a[i], b[i]) /\ b[i].form = a[i].form
  BY MarkedLines DEF Progress, LineUp
<1>2. DiagramStarts(a) \subseteq DOMAIN a /\ DiagramStarts(b) \subseteq DOMAIN b /\ DiagramStarts(a) # {}
  BY DEF DiagramStarts, HasDiagram
<1>3. DiagramStarts(a) \subseteq DiagramStarts(b)
  <2> SUFFICES ASSUME NEW i \in DiagramStarts(a) PROVE i \in DiagramStarts(b)
    OBVIOUS
  <2>1. i \in DOMAIN a /\ a[i].form = "start" /\ \E j \in i + 1..Len(a) : a[j].form = "end"
    BY DEF DiagramStarts
  <2> PICK j \in i + 1..Len(a) : a[j].form = "end"
    BY <2>1
  <2>2. j \in DOMAIN a /\ j \in i + 1..Len(b)
    BY <1>1, <2>1
  <2> QED BY <1>1, <2>1, <2>2 DEF DiagramStarts
<1>4. PICK f \in DOMAIN a : f = First(DiagramStarts(a)) /\ f \in DiagramStarts(a) /\ \A j \in DiagramStarts(a) : f <= j
  <2>1. DiagramStarts(a) \in SUBSET Nat
    BY <1>1, <1>2
  <2> QED BY <1>2, <2>1, FirstIs
<1>5. PICK e \in f + 1..Len(a) : a[e].form = "end"
  BY <1>4 DEF DiagramStarts
<1>6. PICK g \in DOMAIN b : g = First(DiagramStarts(b)) /\ g \in DiagramStarts(b) /\ \A j \in DiagramStarts(b) : g <= j
  <2>1. DiagramStarts(b) \in SUBSET Nat /\ DiagramStarts(b) # {}
    BY <1>1, <1>2, <1>3
  <2> QED BY <1>2, <2>1, FirstIs
<1>7. g = f
  <2>1. g <= f /\ g \in DOMAIN a
    BY <1>1, <1>3, <1>4, <1>6
  <2>2. a[g].form = "start" /\ e \in g + 1..Len(a)
    BY <1>1, <1>5, <1>6, <2>1 DEF DiagramStarts
  <2>3. g \in DiagramStarts(a)
    BY <1>5, <2>1, <2>2 DEF DiagramStarts
  <2> QED BY <1>1, <1>4, <2>1, <2>3
<1>8. S(a) \in SUBSET DOMAIN a /\ S(b) \in SUBSET DOMAIN b /\ S(b) \cap DOMAIN a = S(a)
  BY <1>1
<1>9. DiagramParts(a) = {a[k] : k \in LinesAfter(a, f, S(a))} /\ DiagramParts(b) = {b[k] : k \in LinesAfter(b, f, S(b))}
  BY <1>4, <1>6, <1>7 DEF DiagramParts
<1> HIDE DEF S
<1>11. LinesAfter(a, f, S(a)) \subseteq DOMAIN a /\ LinesAfter(a, f, S(a)) = LinesAfter(b, f, S(b)) \cap DOMAIN a
  BY <1>0, <1>8
<1>10. LinesAfter(a, f, S(a)) \subseteq DOMAIN a /\ LinesAfter(a, f, S(a)) \subseteq LinesAfter(b, f, S(b))
  BY <1>11
<1> QED BY <1>1, <1>3, <1>2, <1>9, <1>10 DEF HasDiagram

(* The rows of a section have cells.                                        *)
LEMMA SectionRows ==
    ASSUME NEW a \in Seq(Lines(Words)), NEW names, HasSection(a, names),
           NEW l \in SectionBody(a, names), l[1].form = "row"
    PROVE  /\ DOMAIN l[1].cells = 1..Len(l[1].cells) /\ Len(l[1].cells) \in Nat /\ Len(l[1].cells) > 0
           /\ l[2] \in DOMAIN a /\ l[1] = a[l[2]]
<1> DEFINE start == First(SectionStarts(a, names))
           ends == {j \in DOMAIN a : a[j].form = "heading" /\ a[j].level <= a[start].level}
           rest == [a[start] EXCEPT !.form = "rest"]
<1>1. Progress(a, a)
  BY SameLine DEF Progress
<1>2. start \in DOMAIN a /\ ends \in SUBSET DOMAIN a
  BY <1>1, MarkedLines DEF HasSection, SectionStarts
<1>3. rest.form = "rest"
  <2>1. a[start] \in Lines(Words)
    BY <1>2
  <2> QED BY <2>1 DEF Lines
<1>9. SectionBody(a, names) = {<<rest, start>>} \cup {<<a[j], j>> : j \in LinesAfter(a, start, ends)}
  BY DEF SectionBody
<1> HIDE DEF rest
<1>4. PICK j \in LinesAfter(a, start, ends) : l = <<a[j], j>>
  <2>1. CASE l = <<rest, start>>
    <3>1. l[1] = rest
      BY <2>1
    <3> QED BY <1>3, <3>1
  <2> QED BY <1>9, <2>1
<1> HIDE DEF start, ends
<1>5. j \in DOMAIN a
  BY <1>1, <1>2, FurtherLines
<1>6. l[1] = a[j] /\ l[2] = j /\ a[j] \in Lines(Words) /\ a[j].form = "row"
  BY <1>4, <1>5
<1>7. PICK n \in 0..3 : a[j].cells \in [1..n -> Cell]
  BY <1>6 DEF Lines
<1>8. a[j].cells # NoCells
  BY <1>6 DEF Lines
<1>10. n # 0
  BY <1>7, <1>8 DEF NoCells
<1>11. Len(a[j].cells) = n /\ DOMAIN a[j].cells = 1..n
  BY <1>7
<1> QED BY <1>5, <1>6, <1>7, <1>10, <1>11

(* verify_content.py: a word in capitals, or a TODO nobody replaces, stays.  *)
LEMMA EnvVarsUp ==
    ASSUME NEW a, NEW b, Progress(a, b), EnvVars(a),
           \A i \in DOMAIN a : "todo" \in Marks(a[i]) => b[i] = a[i]
    PROVE  EnvVars(b)
<1> DEFINE Caps(line) == Stripped(line) = "todo" \/ (line.name = "ENV_VAR" /\ Stripped(line) = "real"
                                                  /\ line.fill = "real")
           section == {"Environment Variables"}
           C(d) == {l \in SectionBody(d, section) : Caps(l[1])}
<1>1. EnvVars(a) <=> BodyLines(a, section, Caps) > 0
  BY DEF EnvVars
<1>2. EnvVars(b) <=> BodyLines(b, section, Caps) > 0
  BY DEF EnvVars
<1>0. BodyLines(a, section, Caps) = IF HasSection(a, section) THEN Cardinality(C(a)) ELSE 0
  BY DEF BodyLines
<1> DEFINE count == BodyLines(a, section, Caps)
           marked == Cardinality(C(a))
<1>3. HasSection(a, section) /\ marked > 0
  <2>1. count > 0 /\ count = IF HasSection(a, section) THEN marked ELSE 0
    BY <1>0, <1>1
  <2> HIDE DEF count, marked, section
  <2> QED BY <2>1
<1>4. HasSection(b, section)
  BY <1>3, SectionUp
<1>5. ASSUME NEW l \in C(a) PROVE \E m \in C(b) : m[2] = l[2]
  <2>0. l \in SectionBody(a, section) /\ Caps(l[1])
    OBVIOUS
  <2> PICK m \in SectionBody(b, section) :
          /\ m[2] = l[2] /\ LineUp(l[1], m[1]) /\ l[2] \in DOMAIN a
          /\ a[l[2]] = b[l[2]] => m = l
    <3> HIDE DEF section, C
    <3> QED BY <1>3, <2>0, LinesUp
  <2>1. CASE Stripped(l[1]) = "todo"
    <3>1. "todo" \in Marks(l[1])
      BY <2>1 DEF Stripped
    <3>3. Marks(l[1]) = Marks(a[l[2]])
      <4> HIDE DEF section, C
      <4> QED BY <1>3, <2>0, LinesUp
    <3>2. b[l[2]] = a[l[2]]
      BY <3>1, <3>3
    <3> QED BY <3>2
  <2>2. CASE l[1].name = "ENV_VAR" /\ Stripped(l[1]) = "real" /\ l[1].fill = "real"
    <3>1. RealLine(l[1]) /\ RealLine(m[1])
      BY <2>2, LineProgress DEF RealLine, Filled, Placeholder
    <3>2. Stripped(m[1]) = "real"
      BY <3>1 DEF RealLine, Filled, Placeholder, Stripped
    <3>3. m[1].name = "ENV_VAR" /\ m[1].fill = "real"
      BY <2>2 DEF LineUp, Placeholder
    <3> QED BY <3>2, <3>3
  <2> QED BY <2>1, <2>2
<1>6. C(a) \in SUBSET SectionBody(a, section) /\ C(b) \in SUBSET SectionBody(b, section)
  OBVIOUS
<1>7. BodyLines(b, section, Caps) = Cardinality(C(b))
  BY <1>4 DEF BodyLines
<1> HIDE DEF C, section
<1>8. Cardinality(C(a)) \in Nat /\ Cardinality(C(b)) \in Nat /\ Cardinality(C(a)) <= Cardinality(C(b))
  BY <1>3, <1>5, <1>6, CountUp
<1>9. Cardinality(C(b)) > 0
  BY <1>3, <1>8
<1> QED BY <1>2, <1>7, <1>9

(* verify_content.py: the checkers that look at more than labels and rows.   *)
LEMMA BodyChecksUp ==
    ASSUME NEW a, NEW b, Progress(a, b)
    PROVE  /\ Quickstart(a) => Quickstart(b)
           /\ TestPlan(a) => TestPlan(b)
           /\ ModelContract(a) => ModelContract(b)
           /\ Architecture(a) => Architecture(b)
           /\ DataModel(a) => DataModel(b)
           /\ Topology(a) => Topology(b)
           /\ HasDiagram(a) /\ ShowsScreen(a) /\ (\A i \in DOMAIN a : a[i].name = "screen" => b[i] = a[i]) =>
                  ShowsScreen(b)
<1>1. \A word : Mentions(a, word) => Mentions(b, word)
  BY MarkedLines
<1>2. Quickstart(a) => Quickstart(b)
  <2> HAVE Quickstart(a)
  <2> DEFINE section == {"Prerequisites"}
  <2>1. HasSection(a, section) /\ \E l \in SectionBody(a, section) : l[1].form \in {"item", "step", "bold"} /\ RealLine(l[1])
    BY DEF Quickstart
  <2>2. HasSection(b, section)
    BY <2>1, SectionUp
  <2>3. \E m \in SectionBody(b, section) : m[1].form \in {"item", "step", "bold"} /\ RealLine(m[1])
    <3> HIDE DEF section
    <3> PICK l \in SectionBody(a, section) : l[1].form \in {"item", "step", "bold"} /\ RealLine(l[1])
      BY <2>1
    <3>1. \E m \in SectionBody(b, section) : RealLine(m[1]) /\ m[1].form = l[1].form
      BY <2>1, RealLinesUp
    <3> QED BY <3>1
  <2>4. AnyCaptured(b, {"step"}, {"step"}) /\ Mentions(b, "verify")
    BY <1>1, LabelsUp DEF Quickstart
  <2> QED BY <2>2, <2>3, <2>4 DEF Quickstart
<1>3. TestPlan(a) => TestPlan(b)
  <2> HAVE TestPlan(a)
  <2> DEFINE section == {"Testing Strategy"}
             NotBlank(line) == Stripped(line) # "blank"
             lines(d) == BodyLines(d, section, NotBlank)
  <2>1. lines(a) >= 3 /\ Mentions(a, "unit")
    BY DEF TestPlan
  <2>2. HasSection(a, section)
    <3>1. ~ HasSection(a, section) => lines(a) = 0
      BY DEF BodyLines
    <3> HIDE DEF lines, section
    <3> QED BY <2>1, <3>1
  <2>3. lines(a) = Cardinality({l \in SectionBody(a, section) : Stripped(l[1]) # "blank"})
    BY <2>2 DEF BodyLines
  <2>4. lines(b) = Cardinality({l \in SectionBody(b, section) : Stripped(l[1]) # "blank"})
    BY <2>2, SectionUp DEF BodyLines
  <2>5. TestPlan(b) <=> lines(b) >= 3 /\ Mentions(b, "unit")
    BY DEF TestPlan
  <2> DEFINE ones(d) == Cardinality({l \in SectionBody(d, section) : Stripped(l[1]) # "blank"})
  <2>7. ones(a) >= 3 => ones(b) >= 3
    <3> HIDE DEF section
    <3> QED BY <2>2, BodiesUp
  <2>8. lines(a) = ones(a) /\ lines(b) = ones(b)
    BY <2>3, <2>4
  <2> HIDE DEF lines, ones
  <2>6. lines(b) >= 3
    BY <2>1, <2>7, <2>8
  <2> QED BY <1>1, <2>1, <2>5, <2>6
<1>4. ModelContract(a) => ModelContract(b)
  <2> HAVE ModelContract(a)
  <2> DEFINE section == {"Input"}
             Given(line) ==
                 /\ line.form = "row"
                 /\ \/ line.cells[1] \in {"real", "link"}
                    \/ /\ line.cells[1] \in {"blank", "bracketed", "prompt"}
                       /\ Len(line.cells) > 1 /\ line.cells[2] # "todo"
  <2>1. HasSection(a, section) /\ \E l \in SectionBody(a, section) : Given(l[1])
    BY DEF ModelContract
  <2>2. HasSection(b, section)
    BY <2>1, SectionUp
  <2> PICK l \in SectionBody(a, section) : Given(l[1])
    BY <2>1
  <2> PICK m \in SectionBody(b, section) : LineUp(l[1], m[1]) /\ m[2] = l[2]
    BY <2>1, SectionUp
  <2>3. Given(m[1])
    <3>1. m[1].form = "row" /\ Len(m[1].cells) = Len(l[1].cells) /\ DOMAIN m[1].cells = DOMAIN l[1].cells
      BY DEF LineUp
    <3>2. \A k \in DOMAIN l[1].cells : CellUp(l[1].cells[k], m[1].cells[k])
      BY DEF LineUp
    <3>0. a \in Seq(Lines(Words)) /\ l[1].form = "row"
      BY DEF Progress
    <3>3. DOMAIN l[1].cells = 1..Len(l[1].cells) /\ Len(l[1].cells) \in Nat /\ Len(l[1].cells) > 0
      <4> HIDE DEF section, Given
      <4> QED BY <2>1, <3>0, SectionRows
    <3>4. CellUp(l[1].cells[1], m[1].cells[1])
      BY <3>2, <3>3
    <3>5. CASE l[1].cells[1] \in {"real", "link"}
      BY <3>1, <3>4, <3>5 DEF CellUp, Placeholder
    <3>6. CASE l[1].cells[1] \in {"blank", "bracketed", "prompt"} /\ Len(l[1].cells) > 1 /\ l[1].cells[2] # "todo"
      <4>1. CellUp(l[1].cells[2], m[1].cells[2])
        BY <3>2, <3>3, <3>6
      <4>2. m[1].cells[2] # "todo"
        BY <3>6, <4>1 DEF CellUp
      <4>3. m[1].cells[1] \in {"blank", "bracketed", "prompt", "real"}
        BY <3>4, <3>6 DEF CellUp
      <4> QED BY <3>1, <3>6, <4>2, <4>3
    <3> QED BY <3>5, <3>6
  <2>4. SectionFilled(b, {"Output"}) /\ Mentions(b, "threshold")
    BY <1>1, SectionsUp DEF ModelContract
  <2> QED BY <2>2, <2>3, <2>4 DEF ModelContract
<1>5. ASSUME HasDiagram(a), NEW p \in DiagramParts(a)
      PROVE  HasDiagram(b) /\ \E q \in DiagramParts(b) :
                 /\ q.form = p.form /\ q.name = p.name /\ (Filled(p.fill) => Filled(q.fill))
                 /\ p.fill \notin {"blank", "todo"} => q.fill \notin {"blank", "todo"}
                 /\ Filled(Whole(p)) => Filled(Whole(q))
  <2> PICK k \in DOMAIN a : p = a[k] /\ b[k] \in DiagramParts(b) /\ LineUp(p, b[k])
    BY <1>5, DiagramUp
  <2> QED BY <1>5, DiagramUp, LineProgress DEF LineUp
<1>6. (Architecture(a) => Architecture(b)) /\ (DataModel(a) => DataModel(b)) /\ (Topology(a) => Topology(b))
  BY <1>5 DEF Architecture, DataModel, Topology
<1>7. ASSUME HasDiagram(a), ShowsScreen(a), \A i \in DOMAIN a : a[i].name = "screen" => b[i] = a[i]
      PROVE  ShowsScreen(b)
  <2> PICK p \in DiagramParts(a) : /\ p.name = "screen"
                                   /\ p.form = "bare" \/ (p.form = "quoted" /\ p.fill \in {"bracketed", "prompt"})
    BY <1>7 DEF ShowsScreen
  <2> PICK k \in DOMAIN a : p = a[k] /\ b[k] \in DiagramParts(b)
    BY <1>7, DiagramUp
  <2> QED BY <1>7 DEF ShowsScreen
<1> QED BY <1>2, <1>3, <1>4, <1>6, <1>7

(* verify_content.py: a document without an issue gets none by progress.     *)
LEMMA CheckersUp ==
    ASSUME NEW a, NEW b, Progress(a, b), NEW n \in Checked, NEW ts,
           n = "architecture" => \A i \in DOMAIN a : a[i].name = "screen" => b[i] = a[i],
           n = "deployment" => \A i \in DOMAIN a : "todo" \in Marks(a[i]) => b[i] = a[i],
           NoIssue(n, a, ts)
    PROVE  NoIssue(n, b, ts)
<1>1. \A word : Mentions(a, word) => Mentions(b, word)
  BY MarkedLines
<1>2. \A label : AnyField(a, label) => AnyField(b, label)
  BY LabelsUp DEF AnyField
<1>3. \A labels : FirstField(a, labels) => FirstField(b, labels)
  BY LabelsUp DEF FirstField
<1>4. \A names : (SectionFilled(a, names) => SectionFilled(b, names))
                 /\ (BodyLines(a, names, RealLine) >= 2 => BodyLines(b, names, RealLine) >= 2)
  BY SectionsUp
<1>5. \A i \in DOMAIN a : i \in DOMAIN b /\ LineUp(a[i], b[i])
  BY MarkedLines DEF Progress
<1>6. CASE n \in {"architecture", "quickstart", "test-plan", "data-model", "model-contract", "topology"}
  <2>1. Architecture(a) => HasDiagram(a)
    BY DEF Architecture
  <2> QED BY <1>6, <2>1, BodyChecksUp DEF NoIssue
<1>7. CASE n \in {"research", "pipeline-debug", "experiment-log", "drift-policy", "llm-contract", "runbook"}
  BY <1>1, <1>2, <1>3, <1>4, <1>7, LabelsUp
     DEF NoIssue, Research, PipelineDebug, ExperimentLog, DriftPolicy, LlmContract, Runbook
<1>8. CASE n \in {"api-contract", "permissions", "pipeline-contract", "compatibility-matrix", "service-catalog",
                  "business-process", "business-objects"}
  BY <1>1, <1>8, RowsUp
     DEF NoIssue, ApiContract, Permissions, PipelineContract, CompatibilityMatrix, ServiceCatalog, BusinessProcess, BusinessObjects
<1>9. CASE n \in {"backend", "release-guide", "eval-spec", "frontend"}
  BY <1>1, <1>4, <1>9 DEF NoIssue, Backend, ReleaseGuide, EvalSpec, Frontend
<1>10. CASE n \in {"prompt-library", "distribution", "business-rules"}
  BY <1>1, <1>10, RowsUp, LabelsUp DEF NoIssue, PromptLibrary, Distribution, BusinessRules
<1>11. CASE n = "public-api"
  <2>0. \A i \in DOMAIN a : b[i].name = a[i].name /\ (a[i].fill = "real" => b[i].fill = "real")
    BY <1>5 DEF LineUp, Placeholder
  <2>1. PublicApi(a) => PublicApi(b)
    BY <1>5, <2>0 DEF PublicApi
  <2> QED BY <1>11, <2>1 DEF NoIssue
<1>12. CASE n = "cli-contract"
  <2>1. (\E i \in DOMAIN a : Subcommand(a[i])) => \E i \in DOMAIN b : Subcommand(b[i])
    BY <1>5 DEF Subcommand, LineUp, Placeholder
  <2> QED BY <1>1, <1>12, <2>1, RowsUp DEF NoIssue, CliContract
<1>13. CASE n = "mobile-contract"
  <2>1. \A i \in DOMAIN a : Screen(a[i]) => Screen(b[i])
    BY <1>5 DEF Screen, LineUp, Placeholder, Filled
  <2> QED BY <1>1, <1>5, <1>13, <2>1, RowsUp DEF NoIssue, MobileContract
<1>14. CASE n = "service-contract"
  <2>1. ASSUME NEW i \in Rows(a, 2), a[i].cells[1] = "real", a[i].cells[2] \in {"real", "prompt"}
        PROVE  i \in Rows(b, 2) /\ b[i].cells[1] = "real" /\ b[i].cells[2] \in {"real", "prompt"}
    <3>1. i \in DOMAIN a /\ Len(a[i].cells) >= 2
      BY DEF Rows
    <3>2. 1 \in DOMAIN a[i].cells /\ 2 \in DOMAIN a[i].cells
      BY <3>1, RowsUp
    <3>3. CellUp(a[i].cells[1], b[i].cells[1]) /\ CellUp(a[i].cells[2], b[i].cells[2])
      BY <1>5, <3>1, <3>2 DEF LineUp
    <3> QED BY <2>1, <3>3, RowsUp DEF CellUp, Placeholder
  <2>2. ServiceContract(a) => ServiceContract(b)
    BY <1>1, <2>1 DEF ServiceContract
  <2> QED BY <1>14, <2>2 DEF NoIssue
<1>15. CASE n = "deployment"
  <2>1. EnvVars(a) => EnvVars(b)
    BY <1>15, EnvVarsUp
  <2> QED BY <1>1, <1>15, <2>1, RowsUp DEF NoIssue, Deployment, DeploymentPipeline
<1>16. CASE n = "database"
  BY <1>1, <1>4, <1>16 DEF NoIssue, Database, DatabasePipeline
<1> QED
  BY <1>6, <1>7, <1>8, <1>9, <1>10, <1>11, <1>12, <1>13, <1>14, <1>15, <1>16 DEF Checked

(* verify_module_docs.py: what is looked for inside a block.                *)
LEMMA BlockUp ==
    ASSUME NEW a, NEW b, Progress(a, b), NEW label, NEW S \in SUBSET DOMAIN a, NEW T \in SUBSET DOMAIN b,
           T \cap DOMAIN a = S, LabelLines(a, {"field"}, {label}) # {}
    PROVE  /\ Block(a, label, S) \subseteq DOMAIN a /\ Block(b, label, T) \subseteq DOMAIN b
           /\ Block(b, label, T) \cap DOMAIN a = Block(a, label, S)
<1> DEFINE places(d) == LabelLines(d, {"field"}, {label})
<1>1. places(b) # {} /\ First(places(b)) = First(places(a)) /\ First(places(a)) \in DOMAIN a
  <2> DEFINE forms == {"field"}
             names == {label}
  <2>1. LabelLines(a, forms, names) # {}
    OBVIOUS
  <2> HIDE DEF forms, names
  <2>2. /\ LabelLines(b, forms, names) # {}
        /\ First(LabelLines(b, forms, names)) = First(LabelLines(a, forms, names))
        /\ First(LabelLines(a, forms, names)) \in DOMAIN a
    BY <2>1, FirstLabel
  <2> QED BY <2>2 DEF forms, names
<1>2. Block(a, label, S) = LinesAfter(a, First(places(a)), S) /\ Block(b, label, T) = LinesAfter(b, First(places(a)), T)
  BY <1>1 DEF Block
<1> HIDE DEF places
<1> QED BY <1>1, <1>2, FurtherLines

LEMMA InBlockUp ==
    ASSUME NEW a, NEW b, Progress(a, b), NEW label, NEW P \in SUBSET DOMAIN a, NEW Q \in SUBSET DOMAIN b,
           Q \cap DOMAIN a = P, FirstInBlock(a, P, label)
    PROVE  FirstInBlock(b, Q, label)
<1> DEFINE S == LabelLines(a, {"field"}, {label}) \cap P
           T == LabelLines(b, {"field"}, {label}) \cap Q
<1>1. S \in SUBSET DOMAIN a /\ T \in SUBSET DOMAIN b /\ T \cap DOMAIN a = S
  BY MarkedLines
<1>2. S # {} /\ Filled(Captured(a, First(S))) /\ (a[First(S)].fill = "blank" => First(S) + 1 \in P)
  BY DEF FirstInBlock
<1>3. FirstInBlock(b, Q, label) <=>
          T # {} /\ Filled(Captured(b, First(T))) /\ (b[First(T)].fill = "blank" => First(T) + 1 \in Q)
  BY DEF FirstInBlock
<1> HIDE DEF S, T
<1>4. T # {} /\ First(T) = First(S) /\ First(S) \in DOMAIN a
  BY <1>1, <1>2, FirstStays
<1>5. Filled(Captured(b, First(S))) /\ (b[First(S)].fill = "blank" => a[First(S)].fill = "blank")
  BY <1>2, <1>4, LabelsUp, LineProgress DEF Progress
<1> QED BY <1>2, <1>3, <1>4, <1>5

LEMMA ErrorHandlingUp ==
    ASSUME NEW a, NEW b, Progress(a, b), NEW cases, ErrorHandling(a, cases)
    PROVE  ErrorHandling(b, cases)
<1> DEFINE places(d) == LabelLines(d, {"field"}, {"Error Handling"})
           body(d) == Block(d, "Error Handling", TopHeadings(d))
           own(d) == IF places(d) # {} /\ d[First(places(d))].fill # "blank" THEN 1 ELSE 0
           size(d) == Cardinality(body(d))
<1>1. \A d : ErrorHandling(d, cases) <=>
          (\A c \in cases : \E i \in body(d) : d[i].name = c) /\ size(d) + own(d) >= 3
  BY DEF ErrorHandling
<1>2. places(a) # {}
  <2> SUFFICES ASSUME places(a) = {} PROVE FALSE
    OBVIOUS
  <2>1. body(a) = {} /\ own(a) = 0
    BY DEF Block
  <2>2. size(a) = 0
    BY <2>1, FS_EmptySet
  <2>3. ~ (size(a) + own(a) >= 3)
    <3> HIDE DEF size, own, body, places
    <3> QED BY <2>1, <2>2
  <2> HIDE DEF size, own, body
  <2> QED BY <1>1, <2>3
<1>3. TopHeadings(a) \in SUBSET DOMAIN a /\ TopHeadings(b) \in SUBSET DOMAIN b
      /\ TopHeadings(b) \cap DOMAIN a = TopHeadings(a)
  BY MarkedLines DEF TopHeadings, Progress, LineUp
<1>4. body(a) \subseteq body(b) /\ body(a) \subseteq DOMAIN a /\ body(b) \subseteq DOMAIN b
  <2>1. body(a) \subseteq DOMAIN a /\ body(b) \subseteq DOMAIN b /\ body(b) \cap DOMAIN a = body(a)
    BY <1>2, <1>3, BlockUp
  <2> QED BY <2>1
<1>5. own(a) = own(b) /\ own(a) \in {0, 1}
  <2>1. places(b) # {} /\ First(places(b)) = First(places(a)) /\ First(places(a)) \in DOMAIN a
    <3>1. LabelLines(a, {"field"}, {"Error Handling"}) # {}
      BY <1>2
    <3> DEFINE forms == {"field"}
               names == {"Error Handling"}
    <3> HIDE DEF forms, names
    <3>2. LabelLines(a, forms, names) # {} => LabelLines(b, forms, names) # {}
          /\ First(LabelLines(b, forms, names)) = First(LabelLines(a, forms, names))
          /\ First(LabelLines(a, forms, names)) \in DOMAIN a
      BY FirstLabel
    <3> QED BY <3>1, <3>2 DEF forms, names
  <2> DEFINE f == First(places(a))
  <2>2. (b[f].fill = "blank") = (a[f].fill = "blank")
    BY <2>1, LineProgress DEF Progress
  <2> HIDE DEF places
  <2> QED BY <1>2, <2>1, <2>2
<1>6. \A c \in cases : \E i \in body(b) : b[i].name = c
  <2>1. \A i \in body(a) : i \in body(b) /\ b[i].name = a[i].name
    BY <1>4 DEF Progress, LineUp
  <2>2. \A c \in cases : \E i \in body(a) : a[i].name = c
    BY <1>1
  <2> HIDE DEF body
  <2> QED BY <2>1, <2>2
<1>7. size(a) \in Nat /\ size(b) \in Nat /\ size(a) <= size(b)
  <2>1. DOMAIN b = 1..Len(b) /\ Len(b) \in Nat
    BY DEF Progress
  <2>2. IsFiniteSet(DOMAIN b)
    BY <2>1, FS_Interval
  <2> HIDE DEF body
  <2>3. IsFiniteSet(body(b))
    BY <1>4, <2>2, FS_Subset
  <2> QED BY <1>4, <2>3, FS_Subset, FS_CardinalityType
<1>8. size(a) + own(a) >= 3
  BY <1>1
<1> HIDE DEF size, own, body
<1> QED BY <1>1, <1>5, <1>6, <1>7, <1>8

(* verify_module_docs.py: a module's document without an issue gets none by  *)
(* progress, but for the two types that ask for a file once a function is    *)
(* named.                                                                   *)
LEMMA PipelineStageUp ==
    ASSUME NEW a, NEW b, Progress(a, b), PipelineStage(a)
    PROVE  PipelineStage(b)
<1> DEFINE Arrow(d) == {i \in DOMAIN d : d[i].name = "down arrow"}
           stops(d) == LabelLines(d, {"field"}, {"Output"}) \cup Arrow(d)
           ends(d) == LabelLines(d, {"field"}, {"Error Handling"}) \cup
                                       {i \in DOMAIN d : d[i].form = "heading" /\ d[i].level > 1}
           input(d) == Block(d, "Input", stops(d))
           output(d) == Block(d, "Output", ends(d))
           schema(d) == LabelLines(d, {"field"}, {"Schema"})
           Has(d) == \E i \in schema(d) \cap input(d) : d[i].fill # "blank" \/ i + 1 \in input(d)
           Whole4(d) == /\ FirstInBlock(d, input(d), "Source") /\ FirstInBlock(d, input(d), "Format")
                        /\ FirstInBlock(d, output(d), "Destination") /\ FirstInBlock(d, output(d), "Format")
<1>1. \A d : PipelineStage(d) <=> Whole4(d) /\ Has(d) /\ ErrorHandling(d, {"transient", "missing input"})
  BY DEF PipelineStage
<1>2. \A i \in DOMAIN a : i \in DOMAIN b /\ b[i].form = a[i].form /\ b[i].name = a[i].name /\ b[i].level = a[i].level
          /\ (b[i].fill = "blank") = (a[i].fill = "blank")
  BY SameForms
<1>3. stops(a) \in SUBSET DOMAIN a /\ stops(b) \in SUBSET DOMAIN b /\ stops(b) \cap DOMAIN a = stops(a)
  BY <1>2 DEF LabelLines
<1>4. ends(a) \in SUBSET DOMAIN a /\ ends(b) \in SUBSET DOMAIN b /\ ends(b) \cap DOMAIN a = ends(a)
  BY <1>2 DEF LabelLines
<1>5. ASSUME NEW d, NEW label, NEW z, NEW word, FirstInBlock(d, Block(d, label, z), word)
      PROVE  LabelLines(d, {"field"}, {label}) # {}
  BY <1>5 DEF FirstInBlock, Block
<1> HIDE DEF stops, ends
<1>6. input(a) \in SUBSET DOMAIN a /\ input(b) \in SUBSET DOMAIN b /\ input(b) \cap DOMAIN a = input(a)
  <2>1. LabelLines(a, {"field"}, {"Input"}) # {}
    BY <1>1, <1>5
  <2> QED BY <1>3, <2>1, BlockUp
<1>7. output(a) \in SUBSET DOMAIN a /\ output(b) \in SUBSET DOMAIN b /\ output(b) \cap DOMAIN a = output(a)
  <2>1. LabelLines(a, {"field"}, {"Output"}) # {}
    BY <1>1, <1>5
  <2> QED BY <1>4, <2>1, BlockUp
<1> HIDE DEF input, output
<1>8. Whole4(b)
  <2>1. Whole4(a)
    BY <1>1
  <2> QED BY <1>6, <1>7, <2>1, InBlockUp
<1>9. Has(b)
  <2>1. PICK i \in schema(a) \cap input(a) : a[i].fill # "blank" \/ i + 1 \in input(a)
    BY <1>1
  <2>2. i \in schema(b) \cap input(b) /\ i \in DOMAIN a
    BY <1>6, MarkedLines
  <2>3. b[i].fill # "blank" \/ i + 1 \in input(b)
    BY <1>2, <1>6, <2>1, <2>2
  <2> QED BY <2>2, <2>3
<1>10. ErrorHandling(b, {"transient", "missing input"})
  BY <1>1, ErrorHandlingUp
<1> HIDE DEF Whole4, Has
<1> QED BY <1>1, <1>8, <1>9, <1>10

LEMMA SharedUtilityUp ==
    ASSUME NEW a, NEW b, Progress(a, b), SharedUtility(a)
    PROVE  SharedUtility(b)
<1> DEFINE names == {"Used by"}
           used(d) == LabelLines(d, Field, names)
<1>1. HasDiagram(b)
  BY DiagramUp DEF SharedUtility
<1>2. ASSUME NEW p \in DiagramParts(a)
      PROVE  \E q \in DiagramParts(b) :
                 q.form = p.form /\ q.name = p.name /\ (Filled(Whole(p)) => Filled(Whole(q)))
  <2> PICK k \in DOMAIN a : p = a[k] /\ b[k] \in DiagramParts(b) /\ LineUp(p, b[k])
    BY DiagramUp DEF SharedUtility
  <2> QED BY LineProgress DEF LineUp
<1>3. (\E p \in DiagramParts(b) : p.name = "class") /\ (\E p \in DiagramParts(b) : p.form = "method" /\ Filled(Whole(p)))
  BY <1>2 DEF SharedUtility
<1>4. used(a) # {} /\ \E i \in Rows(a, 2) : i > First(used(a)) /\ Written(a[i].cells[1])
  BY DEF SharedUtility
<1>5. SharedUtility(b) <=>
          /\ HasDiagram(b)
          /\ (\E p \in DiagramParts(b) : p.name = "class") /\ (\E p \in DiagramParts(b) : p.form = "method" /\ Filled(Whole(p)))
          /\ used(b) # {} /\ \E i \in Rows(b, 2) : i > First(used(b)) /\ Written(b[i].cells[1])
  BY DEF SharedUtility
<1>6. used(b) # {} /\ First(used(b)) = First(used(a))
  <2> HIDE DEF names
  <2> QED BY <1>4, FirstLabel
<1> HIDE DEF used
<1>7. \E i \in Rows(b, 2) : i > First(used(b)) /\ Written(b[i].cells[1])
  <2> PICK i \in Rows(a, 2) : i > First(used(a)) /\ Written(a[i].cells[1])
    BY <1>4
  <2>1. i \in DOMAIN a /\ 1 \in DOMAIN a[i].cells
    BY RowCells
  <2> QED BY <1>6, <2>1, RowsUp
<1> QED BY <1>1, <1>3, <1>5, <1>6, <1>7

LEMMA ModulesUp ==
    ASSUME NEW a, NEW b, Progress(a, b), NEW n \in Buckets \ {"Feature", "Resource Group"},
           ModuleQuality(n, a) = "pass"
    PROVE  ModuleQuality(n, b) = "pass"
<1>1. ModuleNoIssue(n, a) /\ (ModuleNoIssue(n, b) => ModuleQuality(n, b) = "pass")
  BY DEF ModuleQuality
<1>2. CASE n = "Pipeline Stage"
  BY <1>1, <1>2, PipelineStageUp DEF ModuleNoIssue
<1>3. CASE n = "Background Job"
  <2>1. BackgroundJob(a)
    BY <1>1, <1>3 DEF ModuleNoIssue
  <2>2. FirstField(b, {"Trigger"}) /\ Mentions(b, "on success") /\ ErrorHandling(b, {"transient", "permanent"})
    BY <2>1, LabelsUp, MarkedLines, ErrorHandlingUp DEF BackgroundJob, FirstField
  <2> QED BY <1>1, <1>3, <2>2 DEF ModuleNoIssue, BackgroundJob
<1>4. CASE n = "Shared Utility"
  BY <1>1, <1>4, SharedUtilityUp DEF ModuleNoIssue
<1> QED BY <1>2, <1>3, <1>4 DEF Buckets

(* verify_docs.py --content: the share of filled lines does not fall while   *)
(* no line is left unfilled that was not before.                            *)
LEMMA ShareUp ==
    ASSUME NEW f \in Nat, NEW u \in Nat, NEW g \in Nat, NEW v \in Nat, f <= g, v <= u, f + u > 0
    PROVE  /\ (100 * f) \div (f + u) >= 80 => (100 * g) \div (g + v) >= 80
           /\ (100 * f) \div (f + u) >= 50 => (100 * g) \div (g + v) >= 50
<1>1. \A n \in Nat, d \in Nat : d > 0 =>
          /\ n \div d >= 80 <=> n >= 80 * d
          /\ n \div d >= 50 <=> n >= 50 * d
  <2> SUFFICES ASSUME NEW n \in Nat, NEW d \in Nat, d > 0
               PROVE  /\ n \div d >= 80 <=> n >= 80 * d
                      /\ n \div d >= 50 <=> n >= 50 * d
    OBVIOUS
  <2>1. PICK q \in Nat, r \in Nat : q = n \div d /\ n = d * q + r /\ r < d
    OBVIOUS
  <2>2. q >= 80 => d * q >= 80 * d
    OBVIOUS
  <2>3. q < 80 => d * q <= 79 * d
    OBVIOUS
  <2>4. q >= 50 => d * q >= 50 * d
    OBVIOUS
  <2>5. q < 50 => d * q <= 49 * d
    OBVIOUS
  <2>6. PICK m \in Nat : m = d * q
    OBVIOUS
  <2> QED BY <2>1, <2>2, <2>3, <2>4, <2>5, <2>6
<1>2. f > 0 => g + v > 0
  OBVIOUS
<1>3. CASE f = 0
  <2>1. 100 * f = 0 /\ ~ (100 * f >= 80 * (f + u)) /\ ~ (100 * f >= 50 * (f + u))
    BY <1>3
  <2> QED BY <1>1, <2>1
<1>4. CASE f > 0
  <2>1. (100 * f >= 80 * (f + u) => 100 * g >= 80 * (g + v)) /\ (100 * f >= 50 * (f + u) => 100 * g >= 50 * (g + v))
    OBVIOUS
  <2> QED BY <1>1, <1>2, <1>4, <2>1
<1> QED BY <1>3, <1>4

LEMMA FillPctUp ==
    ASSUME NEW a, NEW b, Progress(a, b),
           \A i \in DOMAIN b \ DOMAIN a : ContentLine(b[i]) => FilledLine(b[i])
    PROVE  (FillPct(a) >= 80 => FillPct(b) >= 80) /\ (FillPct(a) >= 50 => FillPct(b) >= 50)
<1> DEFINE content(d) == {i \in DOMAIN d : ContentLine(d[i])}
           filled(d) == {i \in content(d) : FilledLine(d[i])}
           open(d) == content(d) \ filled(d)
<1>1. ASSUME NEW i \in DOMAIN a
      PROVE  /\ i \in DOMAIN b /\ (FilledLine(a[i]) => FilledLine(b[i]))
             /\ ContentLine(b[i]) /\ ~ FilledLine(b[i]) => ContentLine(a[i])
  <2>1. LineUp(a[i], b[i]) /\ i \in DOMAIN b
    BY MarkedLines DEF Progress
  <2>2. ContentLine(a[i]) => ContentLine(b[i])
    BY <2>1 DEF ContentLine, LineUp
  <2>3. FilledLine(a[i]) => FilledLine(b[i])
    BY <2>1, <2>2, LineProgress DEF FilledLine
  <2>4. ASSUME ContentLine(b[i]), ~ ContentLine(a[i]) PROVE FilledLine(b[i])
    <3>1. b[i].form = "text" /\ b[i].fill = "real" /\ a[i].cells = NoCells /\ DOMAIN b[i].cells = DOMAIN a[i].cells
      BY <2>1, <2>4 DEF ContentLine, LineUp
    <3>2. DOMAIN b[i].cells = {}
      BY <3>1 DEF NoCells
    <3>3. Whole(b[i]) = "real"
      BY <3>1, <3>2 DEF Whole, Marks
    <3> QED BY <2>4, <3>3 DEF FilledLine, Filled, Placeholder
  <2> QED BY <2>1, <2>3, <2>4
<1>2. filled(a) \subseteq filled(b)
  BY <1>1 DEF FilledLine
<1>3. open(b) \subseteq open(a)
  <2> SUFFICES ASSUME NEW i \in open(b) PROVE i \in open(a)
    OBVIOUS
  <2>1. i \in DOMAIN b /\ ContentLine(b[i]) /\ ~ FilledLine(b[i])
    OBVIOUS
  <2> QED BY <1>1, <2>1
<1>4. DOMAIN a = 1..Len(a) /\ Len(a) \in Nat /\ DOMAIN b = 1..Len(b) /\ Len(b) \in Nat
  BY DEF Progress
<1>5. ASSUME NEW d, IsFiniteSet(DOMAIN d)
      PROVE  /\ IsFiniteSet(filled(d)) /\ IsFiniteSet(open(d)) /\ IsFiniteSet(content(d))
             /\ Cardinality(content(d)) = Cardinality(filled(d)) + Cardinality(open(d))
  <2>1. content(d) \subseteq DOMAIN d /\ filled(d) \subseteq DOMAIN d /\ open(d) \subseteq DOMAIN d
        /\ content(d) = filled(d) \cup open(d) /\ filled(d) \cap open(d) = {}
    OBVIOUS
  <2> HIDE DEF content, filled, open
  <2>2. IsFiniteSet(filled(d)) /\ IsFiniteSet(open(d)) /\ IsFiniteSet(content(d))
    BY <1>5, <2>1, FS_Subset
  <2>3. Cardinality(filled(d) \cup open(d)) = Cardinality(filled(d)) + Cardinality(open(d)) - Cardinality({})
    BY <2>1, <2>2, FS_Union
  <2>4. Cardinality({}) = 0 /\ Cardinality(filled(d)) \in Nat /\ Cardinality(open(d)) \in Nat
    BY <2>2, FS_EmptySet, FS_CardinalityType
  <2> QED BY <2>1, <2>2, <2>3, <2>4
<1>6. IsFiniteSet(DOMAIN a) /\ IsFiniteSet(DOMAIN b)
  BY <1>4, FS_Interval
<1>7. \A d : FillPct(d) = (100 * Cardinality(filled(d))) \div (IF content(d) = {} THEN 1 ELSE Cardinality(content(d)))
  BY DEF FillPct
<1>12. filled(a) \subseteq content(a) /\ filled(b) \subseteq content(b) /\ content(a) = filled(a) \cup open(a)
  OBVIOUS
<1> HIDE DEF content, filled, open
<1> DEFINE f == Cardinality(filled(a))
           g == Cardinality(filled(b))
           u == Cardinality(open(a))
           v == Cardinality(open(b))
<1>8. f \in Nat /\ g \in Nat /\ u \in Nat /\ v \in Nat /\ f <= g /\ v <= u
      /\ Cardinality(content(a)) = f + u /\ Cardinality(content(b)) = g + v
  BY <1>2, <1>3, <1>5, <1>6, FS_Subset, FS_CardinalityType
<1>9. CASE filled(a) = {}
  <2>1. f = 0
    BY <1>9, FS_EmptySet
  <2>2. content(a) # {} => f + u > 0
    BY <1>5, <1>6, <1>8, FS_EmptySet
  <2>3. FillPct(a) = 0
    <3>1. CASE content(a) = {}
      <4>1. FillPct(a) = (100 * f) \div 1
        BY <1>7, <3>1
      <4> HIDE DEF f
      <4> QED BY <2>1, <4>1
    <3>2. CASE content(a) # {}
      <4>1. FillPct(a) = (100 * f) \div (f + u)
        BY <1>7, <1>8, <3>2
      <4> HIDE DEF f, u
      <4>2. FillPct(a) = 0 \div (f + u) /\ f + u \in Nat /\ f + u > 0
        BY <1>8, <2>1, <2>2, <3>2, <4>1
      <4> QED BY <4>2
    <3> QED BY <3>1, <3>2
  <2> QED BY <2>3
<1>13. CASE filled(a) # {}
  <2>1. content(a) # {} /\ content(b) # {}
    BY <1>2, <1>12, <1>13
  <2>2. FillPct(a) = (100 * f) \div (f + u) /\ FillPct(b) = (100 * g) \div (g + v)
    BY <1>7, <1>8, <2>1
  <2>3. f > 0
    BY <1>5, <1>6, <1>8, <1>13, FS_EmptySet
  <2> HIDE DEF f, g, u, v
  <2>4. f + u > 0
    BY <1>8, <2>3
  <2> QED BY <1>8, <2>2, <2>4, ShareUp
<1> QED BY <1>9, <1>13

LEMMA ScanUp ==
    ASSUME NEW a, NEW b, Progress(a, b), NEW sections,
           \A i \in DOMAIN b \ DOMAIN a : ContentLine(b[i]) => FilledLine(b[i])
    PROVE  /\ ScanStatus(a, sections) = "full" => ScanStatus(b, sections) = "full"
           /\ ScanStatus(a, sections) = "partial" => ScanStatus(b, sections) \in {"full", "partial"}
<1> DEFINE lines(d, title) == {i \in UnderTitle(d, title) : FilledLine(d[i])}
           size(d, title) == Cardinality(lines(d, title))
           Thin(d) == {t \in sections : size(d, t) < MinSectionLines}
<1>1. ASSUME NEW title PROVE size(a, title) \in Nat /\ size(b, title) \in Nat /\ size(a, title) <= size(b, title)
  <2>1. lines(a, title) \subseteq lines(b, title)
    <3> SUFFICES ASSUME NEW i \in lines(a, title) PROVE i \in lines(b, title)
      OBVIOUS
    <3>1. i \in DOMAIN a /\ FilledLine(a[i]) /\ DOMAIN a = 1..Len(a) /\ Len(a) \in Nat
      BY DEF UnderTitle, Progress
    <3>2. PICK h \in 1..i - 1 :
              /\ a[h].form = "heading" /\ a[h].level = 2 /\ a[h].name = title /\ a[h].fill = "blank"
              /\ \A k \in h + 1..i : ~(a[k].form = "heading" /\ a[k].level = 2)
      BY DEF UnderTitle
    <3>3. h \in DOMAIN a /\ \A k \in h + 1..i : k \in DOMAIN a
      BY <3>1, <3>2
    <3>4. /\ b[h].form = "heading" /\ b[h].level = 2 /\ b[h].name = title /\ b[h].fill = "blank"
          /\ \A k \in h + 1..i : ~(b[k].form = "heading" /\ b[k].level = 2)
      BY <3>2, <3>3, SameForms
    <3>5. i \in UnderTitle(b, title)
      BY <3>1, <3>2, <3>4, SameForms DEF UnderTitle
    <3>6. FilledLine(b[i])
      BY <3>1, LineProgress DEF Progress, FilledLine, ContentLine, LineUp
    <3> QED BY <3>5, <3>6
  <2>2. lines(b, title) \subseteq DOMAIN b /\ DOMAIN b = 1..Len(b) /\ Len(b) \in Nat
    BY DEF UnderTitle, Progress
  <2> HIDE DEF lines
  <2>4. IsFiniteSet(DOMAIN b)
    BY <2>2, FS_Interval
  <2>3. IsFiniteSet(lines(b, title))
    BY <2>2, <2>4, FS_Subset
  <2> QED BY <2>1, <2>3, FS_Subset, FS_CardinalityType
<1>2. Thin(b) \subseteq Thin(a)
  <2>1. \A t : size(b, t) < MinSectionLines => size(a, t) < MinSectionLines
    <3> HIDE DEF size
    <3> QED BY <1>1 DEF MinSectionLines
  <2> QED BY <2>1
<1>3. \A d : ScanStatus(d, sections) = IF FillPct(d) >= 80 /\ Thin(d) = {} THEN "full"
                                       ELSE IF FillPct(d) >= 50 THEN "partial" ELSE "poor"
  BY DEF ScanStatus
<1> HIDE DEF Thin
<1> QED BY <1>2, <1>3, FillPctUp

(* verify_logs.py: no section gets thin and no field goes missing.           *)
LEMMA LogsUp ==
    ASSUME NEW a, NEW b, Progress(a, b), NEW ts
    PROVE  /\ "fail" \notin LoggingSpec(a, ts) => "fail" \notin LoggingSpec(b, ts)
           /\ "fail" \notin LoggingSpec(a, ts) /\ "warn" \notin LoggingSpec(a, ts) => "warn" \notin LoggingSpec(b, ts)
<1> DEFINE FilledIn(line) == line.form # "heading" /\ Filled(Stripped(line))
           sections == {"Log Output Format", "Required Log Points", "Module Naming Convention"}
           Full(d, s) == BodyLines(d, {s}, FilledIn) >= MinSectionLines
           thin(d) == {Status(Full(d, s), "warn") : s \in sections}
           Asked(d) ==
             (IF ts \cap TracedTypes = {} THEN {} ELSE {Status(Mentions(d, "trace_id"), "fail")})
             \cup (IF ts \cap PipelineTypes = {} THEN {} ELSE {Status(Mentions(d, "row count"), "warn")})
             \cup (IF "llm-app" \in ts THEN {Status(Mentions(d, "token"), "warn")} ELSE {})
<1>1. \A d : LoggingSpec(d, ts) = IF ts \cap LoggingTypes = {} THEN {} ELSE thin(d) \cup Asked(d)
  BY DEF LoggingSpec
<1>2. ASSUME NEW s, Full(a, s) PROVE Full(b, s)
  <2> DEFINE names == {s}
             count(d) == Cardinality({l \in SectionBody(d, names) : l[1].form # "heading" /\ Filled(Stripped(l[1]))})
             lines(d) == BodyLines(d, {s}, FilledIn)
  <2>1. \A d : lines(d) = IF HasSection(d, names) THEN count(d) ELSE 0
    BY DEF BodyLines
  <2>2. lines(a) >= 3
    BY <1>2 DEF MinSectionLines
  <2>3. Full(b, s) <=> lines(b) >= 3
    BY DEF MinSectionLines
  <2> HIDE DEF lines, Full
  <2>4. HasSection(a, names) /\ count(a) >= 3
    <3> HIDE DEF count, names
    <3> QED BY <2>1, <2>2
  <2>5. HasSection(b, names) /\ count(b) >= 3
    <3> HIDE DEF names
    <3> QED BY <2>4, SectionUp, BodiesUp
  <2> HIDE DEF count, names
  <2> QED BY <2>1, <2>3, <2>5
<1>3. \A word : Mentions(a, word) => Mentions(b, word)
  BY MarkedLines
<1>4. "fail" \notin thin(a) /\ "fail" \notin thin(b) /\ ("warn" \notin thin(a) => "warn" \notin thin(b))
  <2> HIDE DEF Full, sections
  <2> QED BY <1>2 DEF Status
<1>5. ("fail" \notin Asked(a) => "fail" \notin Asked(b)) /\ ("warn" \notin Asked(a) => "warn" \notin Asked(b))
  BY <1>3 DEF Status
<1> HIDE DEF thin, Asked
<1> QED BY <1>1, <1>4, <1>5

LEMMA ModuleLogUp ==
    ASSUME NEW a, NEW b, Progress(a, b), NEW ts, \A i \in DOMAIN b \ DOMAIN a : b[i].name # "print("
    PROVE  /\ "fail" \notin ModuleLog(a, ts) => "fail" \notin ModuleLog(b, ts)
           /\ "warn" \notin ModuleLog(a, ts) => "warn" \notin ModuleLog(b, ts)
<1>1. \A word : Mentions(a, word) => Mentions(b, word)
  BY MarkedLines
<1>2. Mentions(b, "print(") => Mentions(a, "print(")
  BY SameForms DEF Mentions
<1> QED BY <1>1, <1>2 DEF ModuleLog, Status

(* verify_tests.py: a number, a result and a word stay.                      *)
LEMMA ResultsUp ==
    ASSUME NEW a, NEW b, Progress(a, b), NEW P \in SUBSET DOMAIN a, NEW Q \in SUBSET DOMAIN b, P \subseteq Q,
           RealResults(a, P)
    PROVE  RealResults(b, Q)
<1> PICK i \in P : ResultRow(a, P, i)
  BY DEF RealResults
<1>1. \A j \in DOMAIN a : a[j].form = "row" => b[j].form = "row" /\ 1 \in DOMAIN a[j].cells
  <2> SUFFICES ASSUME NEW j \in DOMAIN a, a[j].form = "row" PROVE b[j].form = "row" /\ 1 \in DOMAIN a[j].cells
    OBVIOUS
  <2>1. a[j] \in Lines(Words) /\ b[j].form = "row"
    BY SameForms DEF Progress
  <2>2. PICK n \in 0..3 : a[j].cells \in [1..n -> Cell]
    BY <2>1 DEF Lines
  <2>3. a[j].cells # NoCells
    BY <2>1 DEF Lines
  <2>4. n # 0
    BY <2>2, <2>3 DEF NoCells
  <2> QED BY <2>1, <2>2, <2>4
<1>2. \A j \in DOMAIN a : \A k \in DOMAIN a[j].cells : CellUp(a[j].cells[k], b[j].cells[k]) /\ k \in DOMAIN b[j].cells
  BY DEF Progress, LineUp
<1>3. i \in DOMAIN a /\ a[i].form = "row" /\ a[i].cells[1] # "rule"
  BY DEF ResultRow
<1>4. b[i].form = "row" /\ b[i].cells[1] # "rule"
  BY <1>1, <1>2, <1>3 DEF CellUp
<1>5. \E r \in Q : r < i /\ b[r].form = "row" /\ b[r].cells[1] = "rule"
  <2> PICK r \in P : r < i /\ a[r].form = "row" /\ a[r].cells[1] = "rule"
    BY DEF ResultRow
  <2>1. b[r].form = "row" /\ b[r].cells[1] = "rule"
    BY <1>1, <1>2 DEF CellUp, Placeholder
  <2> QED BY <2>1
<1>6. \E k \in DOMAIN b[i].cells : b[i].cells[k] \notin {"blank", "bracketed", "prompt"}
  <2> PICK k \in DOMAIN a[i].cells : a[i].cells[k] \notin {"blank", "bracketed", "prompt"}
    BY DEF ResultRow
  <2> QED BY <1>2, <1>3 DEF CellUp
<1> QED BY <1>4, <1>5, <1>6 DEF RealResults, ResultRow

LEMMA NumbersUp ==
    ASSUME NEW a, NEW b, Progress(a, b), NEW i \in DOMAIN a, NumberRow(a[i])
    PROVE  /\ NumberRow(b[i])
           /\ (\E k \in DOMAIN a[i].cells : a[i].cells[k] = "1") => \E k \in DOMAIN b[i].cells : b[i].cells[k] = "1"
<1>1. /\ DOMAIN b[i].cells = DOMAIN a[i].cells /\ Len(b[i].cells) = Len(a[i].cells) /\ b[i].form = a[i].form
      /\ \A k \in DOMAIN a[i].cells : CellUp(a[i].cells[k], b[i].cells[k])
  BY DEF Progress, LineUp
<1>2. DOMAIN a[i].cells = 1..Len(a[i].cells) /\ Len(a[i].cells) \in Nat
  BY RowsUp
<1>3. PICK k \in 2..Len(a[i].cells) : a[i].cells[k] \in {"0", "1"} /\ a[i].cells[k - 1] \notin {"rule", "link", "todo"}
  BY DEF NumberRow
<1>4. k \in DOMAIN a[i].cells /\ k - 1 \in DOMAIN a[i].cells
  BY <1>2
<1>5. b[i].cells[k] \in {"0", "1"} /\ b[i].cells[k - 1] \notin {"rule", "link", "todo"}
  BY <1>1, <1>3, <1>4 DEF CellUp, Placeholder
<1>6. a[i].form = "row"
  BY DEF NumberRow
<1>7. NumberRow(b[i])
  BY <1>1, <1>5, <1>6 DEF NumberRow
<1>8. \A j \in DOMAIN a[i].cells : a[i].cells[j] = "1" => b[i].cells[j] = "1"
  BY <1>1 DEF CellUp, Placeholder
<1> QED BY <1>1, <1>7, <1>8

LEMMA ReportUp ==
    ASSUME NEW a, NEW b, Progress(a, b), NEW ts
    PROVE  /\ "fail" \notin TestReport(a, ts) => "fail" \notin TestReport(b, ts)
           /\ "fail" \notin TestReport(a, ts) /\ "warn" \notin TestReport(a, ts) => "warn" \notin TestReport(b, ts)
<1> DEFINE numbers(d) == {i \in SectionLines(d, "Summary") : NumberRow(d[i])}
           Positive(d) == \E i \in numbers(d) : \E k \in DOMAIN d[i].cells : d[i].cells[k] = "1"
           Shown(d, word) == Mentions(d, word) /\ RealResults(d, FromMention(d, word))
           Contract(d) == Mentions(d, "contract tests") /\
               \E i \in DOMAIN d : d[i].name = "success=" /\ d[i].fill = "real"
                        /\ i \in FromMention(d, "contract tests")
           modules(d) == SectionLines(d, "Results by Module")
           pipeline == ts \cap PipelineTypes # {}
           rest(d) == IF ~ pipeline
             THEN {Status(RealResults(d, modules(d)), "fail")}
             ELSE {Status(Shown(d, "fault injection"), "fail"),
                   IF Contract(d) THEN "pass" ELSE Status(Shown(d, "contract tests"), "fail")}
           first(d) == {IF numbers(d) = {} THEN "fail" ELSE Status(Positive(d), "warn"),
                        Status(Mentions(d, "overall status"), "fail")}
<1>1. \A d : TestReport(d, ts) = first(d) \cup rest(d)
  BY DEF TestReport
<1>2. \A word : Mentions(a, word) => Mentions(b, word)
  BY MarkedLines
<1>3. ASSUME NEW word
      PROVE  /\ SectionLines(a, word) \subseteq SectionLines(b, word)
             /\ SectionLines(a, word) \subseteq DOMAIN a /\ SectionLines(b, word) \subseteq DOMAIN b
  <2> DEFINE names == {word}
  <2> HIDE DEF names
  <2>1. CASE HasSection(a, names)
    <3>1. \A l \in SectionBody(a, names) : l[2] \in DOMAIN a /\ \E m \in SectionBody(b, names) : m[2] = l[2]
      BY <2>1, LinesUp
    <3>2. HasSection(b, names) /\ \A m \in SectionBody(b, names) : m[2] \in DOMAIN b
      BY <2>1, SectionUp
    <3> QED BY <2>1, <3>1, <3>2 DEF SectionLines, names
  <2>2. CASE ~ HasSection(a, names)
    <3>1. SectionLines(a, word) = {}
      BY <2>2 DEF SectionLines, names
    <3>2. SectionLines(b, word) \subseteq DOMAIN b
      <4>1. CASE ~ HasSection(b, names)
        BY <4>1 DEF SectionLines, names
      <4>2. CASE HasSection(b, names)
        <5>1. Progress(b, b)
          BY SameLine DEF Progress
        <5>2. \A m \in SectionBody(b, names) : m[2] \in DOMAIN b
          BY <4>2, <5>1, SectionUp
        <5> QED BY <4>2, <5>2 DEF SectionLines, names
      <4> QED BY <4>1, <4>2
    <3> QED BY <3>1, <3>2
  <2> QED BY <2>1, <2>2
<1>4. ASSUME NEW word, Mentions(a, word)
      PROVE  /\ FromMention(a, word) \subseteq FromMention(b, word)
             /\ FromMention(a, word) \subseteq DOMAIN a /\ FromMention(b, word) \subseteq DOMAIN b
  <2> DEFINE places(d) == {i \in DOMAIN d : d[i].name = word}
             top(d) == {i \in DOMAIN d : d[i].form = "heading" /\ d[i].level = 1}
  <2>1. First(places(b)) = First(places(a)) /\ First(places(a)) \in DOMAIN a
    BY <1>4, MarkedLines
  <2>2. top(a) \in SUBSET DOMAIN a /\ top(b) \in SUBSET DOMAIN b /\ top(b) \cap DOMAIN a = top(a)
    BY SameForms
  <2>3. FromMention(a, word) = LinesAfter(a, First(places(a)), top(a)) /\ FromMention(b, word) = LinesAfter(b, First(places(a)), top(b))
    BY <2>1 DEF FromMention
  <2> HIDE DEF places, top
  <2>4. /\ LinesAfter(a, First(places(a)), top(a)) \subseteq DOMAIN a /\ LinesAfter(b, First(places(a)), top(b)) \subseteq DOMAIN b
        /\ LinesAfter(a, First(places(a)), top(a)) = LinesAfter(b, First(places(a)), top(b)) \cap DOMAIN a
    BY <2>1, <2>2, FurtherLines
  <2> QED BY <2>3, <2>4
<1>5. ASSUME NEW word, Shown(a, word) PROVE Shown(b, word)
  BY <1>2, <1>4, <1>5, ResultsUp
<1>6. Contract(a) => Contract(b)
  <2> HAVE Contract(a)
  <2> PICK i \in DOMAIN a : a[i].name = "success=" /\ a[i].fill = "real" /\ i \in FromMention(a, "contract tests")
    OBVIOUS
  <2>1. i \in DOMAIN b /\ b[i].name = "success=" /\ b[i].fill = "real"
    BY SameForms DEF Progress, LineUp, Placeholder
  <2> QED BY <1>2, <1>4, <2>1
<1>7. numbers(a) \subseteq numbers(b) /\ (Positive(a) => Positive(b))
  <2> DEFINE lines(d) == SectionLines(d, "Summary")
  <2>1. lines(a) \subseteq DOMAIN a /\ lines(a) \subseteq lines(b)
    BY <1>3
  <2>2. numbers(a) = {i \in lines(a) : NumberRow(a[i])} /\ numbers(b) = {i \in lines(b) : NumberRow(b[i])}
    OBVIOUS
  <2> HIDE DEF lines
  <2>3. \A i \in numbers(a) : i \in numbers(b) /\ i \in DOMAIN a /\ NumberRow(a[i])
    BY <2>1, <2>2, NumbersUp
  <2> HIDE DEF numbers
  <2>4. Positive(a) => Positive(b)
    BY <2>3, NumbersUp
  <2> QED BY <2>3, <2>4
<1>8. RealResults(a, modules(a)) => RealResults(b, modules(b))
  BY <1>3, ResultsUp
<1> HIDE DEF numbers, Positive, Shown, Contract, modules, pipeline
<1>9. ("fail" \notin rest(a) => "fail" \notin rest(b)) /\ "warn" \notin rest(a) /\ "warn" \notin rest(b)
  BY <1>5, <1>6, <1>8 DEF Status
<1>10. /\ "fail" \notin first(a) => "fail" \notin first(b)
       /\ "fail" \notin first(a) /\ "warn" \notin first(a) => "warn" \notin first(b)
  BY <1>2, <1>7 DEF Status
<1> HIDE DEF rest, first
<1> QED BY <1>1, <1>9, <1>10

(* verify_content.py, verify_module_docs.py, verify_docs.py --content,       *)
(* verify_logs.py and verify_tests.py: a value filled in, or a line added at *)
(* the end, never makes the verdict on a document worse, for documents of    *)
(* any length, but in the three cases the property names.                   *)
THEOREM ProgressIsKept == DocumentSpec => ProgressNeverHurts
<1>1. ASSUME DocumentTyped, DocumentTyped', AddLine \/ FillIn, ~ NamesFunction, ~ UnbracketsScreen, ~ ReplacesTodo
      PROVE  Grade <= Grade'
  <2> DEFINE a == doc
             b == doc'
  <2>1. Progress(a, b) /\ name' = name /\ types' = types /\ name \in Names
    BY <1>1, StepIsProgress DEF AddLine, FillIn, DocumentTyped
  <2>2. \A i \in DOMAIN b \ DOMAIN a : b[i] \in Additions[name]
    <3>1. CASE AddLine
      <4> PICK l \in Additions[name] : doc' = Append(doc, l)
        BY <3>1 DEF AddLine
      <4> QED BY <1>1 DEF DocumentTyped
    <3>2. CASE FillIn
      <4>1. DOMAIN b = DOMAIN a
        BY <1>1, <3>2 DEF FillIn, DocumentTyped
      <4> QED BY <4>1
    <3> QED BY <1>1, <3>1, <3>2
  <2> HIDE DEF a, b
  <2>3. CASE name \in Checked
    <3>1. NoIssue(name, a, types) => NoIssue(name, b, types)
      <4>1. name = "architecture" => \A i \in DOMAIN a : a[i].name = "screen" => b[i] = a[i]
        BY <1>1 DEF UnbracketsScreen, a, b
      <4>2. name = "deployment" => \A i \in DOMAIN a : "todo" \in Marks(a[i]) => b[i] = a[i]
        BY <1>1 DEF ReplacesTodo, a, b
      <4> QED BY <2>1, <2>3, <4>1, <4>2, CheckersUp
    <3>2. Grade = IF NoIssue(name, a, types) THEN 2 ELSE 0
      BY <2>3 DEF Grade, Quality, a
    <3>3. Grade' = IF NoIssue(name, b, types) THEN 2 ELSE 0
      BY <2>1, <2>3 DEF Grade, Quality, b
    <3> QED BY <3>1, <3>2, <3>3
  <2>4. CASE name \in Buckets /\ name \notin Checked
    <3>1. ModuleQuality(name, a) = "pass" => ModuleQuality(name, b) = "pass"
      BY <1>1, <2>1, <2>4, ModulesUp DEF NamesFunction
    <3>2. ModuleQuality(name, a) \in {"pass", "fail"} /\ ModuleQuality(name, b) \in {"pass", "fail"}
      BY <2>4 DEF ModuleQuality
    <3>3. Grade = IF ModuleQuality(name, a) = "pass" THEN 2 ELSE 0
      BY <2>4, <3>2 DEF Grade, a
    <3>4. Grade' = IF ModuleQuality(name, b) = "pass" THEN 2 ELSE 0
      BY <2>1, <2>4, <3>2 DEF Grade, b
    <3> QED BY <3>1, <3>3, <3>4
  <2>5. CASE name \notin Checked /\ name \notin Buckets
    <3>1. CASE name = "scan"
      <4>1. \A i \in DOMAIN b \ DOMAIN a : ContentLine(b[i]) => FilledLine(b[i])
        BY <2>2, <3>1, DocumentAssumption
      <4> DEFINE status(d) == ScanStatus(d, ScanSections)
      <4>2. /\ status(a) = "full" => status(b) = "full"
            /\ status(a) = "partial" => status(b) \in {"full", "partial"}
        BY <2>1, <4>1, ScanUp
      <4>3. \A d : status(d) \in {"full", "partial", "poor"}
        BY DEF ScanStatus
      <4>4. Grade = IF status(a) \in {"fail", "poor"} THEN 0 ELSE IF status(a) \in {"warn", "partial"} THEN 1 ELSE 2
        BY <2>5, <3>1 DEF Grade, a
      <4>5. Grade' = IF status(b) \in {"fail", "poor"} THEN 0 ELSE IF status(b) \in {"warn", "partial"} THEN 1 ELSE 2
        BY <2>1, <2>5, <3>1 DEF Grade, b
      <4> HIDE DEF status
      <4> QED BY <4>2, <4>3, <4>4, <4>5
    <3>2. ASSUME NEW old, NEW new,
                 Grade = (IF Verdict(old) \in {"fail", "poor"} THEN 0 ELSE IF Verdict(old) \in {"warn", "partial"} THEN 1 ELSE 2),
                 Grade' = (IF Verdict(new) \in {"fail", "poor"} THEN 0 ELSE IF Verdict(new) \in {"warn", "partial"} THEN 1 ELSE 2),
                 "fail" \notin old => "fail" \notin new,
                 "fail" \notin old /\ "warn" \notin old => "warn" \notin new
          PROVE  Grade <= Grade'
      BY <3>2 DEF Verdict
    <3>3. CASE name = "logging-spec"
      <4>1. Grade = IF Verdict(LoggingSpec(a, types)) \in {"fail", "poor"} THEN 0
                    ELSE IF Verdict(LoggingSpec(a, types)) \in {"warn", "partial"} THEN 1 ELSE 2
        BY <2>5, <3>3 DEF Grade, a
      <4>2. Grade' = IF Verdict(LoggingSpec(b, types)) \in {"fail", "poor"} THEN 0
                    ELSE IF Verdict(LoggingSpec(b, types)) \in {"warn", "partial"} THEN 1 ELSE 2
        BY <2>1, <2>5, <3>3 DEF Grade, b
      <4> QED BY <2>1, <3>2, <4>1, <4>2, LogsUp
    <3>4. CASE name = "module-log"
      <4>1. Grade = IF Verdict(ModuleLog(a, types)) \in {"fail", "poor"} THEN 0
                    ELSE IF Verdict(ModuleLog(a, types)) \in {"warn", "partial"} THEN 1 ELSE 2
        BY <2>5, <3>4 DEF Grade, a
      <4>2. Grade' = IF Verdict(ModuleLog(b, types)) \in {"fail", "poor"} THEN 0
                    ELSE IF Verdict(ModuleLog(b, types)) \in {"warn", "partial"} THEN 1 ELSE 2
        BY <2>1, <2>5, <3>4 DEF Grade, b
      <4>3. \A i \in DOMAIN b \ DOMAIN a : b[i].name # "print("
        BY <2>2, <3>4, DocumentAssumption
      <4> QED BY <2>1, <3>2, <4>1, <4>2, <4>3, ModuleLogUp
    <3>5. CASE name = "test-report"
      <4>1. Grade = IF Verdict(TestReport(a, types)) \in {"fail", "poor"} THEN 0
                    ELSE IF Verdict(TestReport(a, types)) \in {"warn", "partial"} THEN 1 ELSE 2
        BY <2>5, <3>5 DEF Grade, a
      <4>2. Grade' = IF Verdict(TestReport(b, types)) \in {"fail", "poor"} THEN 0
                    ELSE IF Verdict(TestReport(b, types)) \in {"warn", "partial"} THEN 1 ELSE 2
        BY <2>1, <2>5, <3>5 DEF Grade, b
      <4> QED BY <2>1, <3>2, <4>1, <4>2, ReportUp
    <3> QED BY <2>1, <2>5, <3>1, <3>3, <3>4, <3>5 DEF Names, Graded
  <2> QED BY <2>3, <2>4, <2>5
<1>2. DocumentTyped /\ DocumentTyped' /\ [DocumentStep]_documentVars =>
          [NamesFunction \/ UnbracketsScreen \/ ReplacesTodo \/ Grade <= Grade']_documentVars
  BY <1>1 DEF DocumentStep
<1>3. DocumentSpec => []DocumentTyped
  BY DocumentKept, PTL DEF DocumentSpec
<1> QED BY <1>2, <1>3, PTL DEF DocumentSpec, ProgressNeverHurts

-----------------------------------------------------------------------------
(* One run explores the programs of a project side by side: every behaviour *)
(* of MCProject is one of each of its programs, by their own specifications. *)
LEMMA ProjectRuns == Spec => SetupSpec /\ PlanSpec /\ LogSpec /\ AcceptanceSpec /\ RegistryRuns /\ DocumentSpec
<1>1. Init => SetupInit /\ PlanInit /\ LogInit /\ AcceptanceInit /\ RegistryInit /\ DocumentInit
  BY DEF Init
<1>2. [Next]_vars => /\ [SetupStep]_setupVars /\ [PlanStep]_orchestrationVars /\ [LogStep]_logVars
                     /\ [AcceptanceStep]_acceptanceVars /\ [RegistryStep]_registryVars
                     /\ [DocumentStep]_documentVars
  <2> SUFFICES ASSUME [Next]_vars
               PROVE  /\ SetupStep \/ setupVars' = setupVars
                      /\ PlanStep \/ orchestrationVars' = orchestrationVars
                      /\ LogStep \/ logVars' = logVars
                      /\ AcceptanceStep \/ acceptanceVars' = acceptanceVars
                      /\ RegistryStep \/ registryVars' = registryVars
                      /\ DocumentStep \/ documentVars' = documentVars
    OBVIOUS
  <2>1. CASE DocumentTurn
    BY <2>1 DEF DocumentTurn
  <2>2. CASE SetupTurn
    BY <2>2 DEF SetupTurn
  <2>3. CASE PlanTurn
    BY <2>3 DEF PlanTurn
  <2>4. CASE RegistryTurn
    BY <2>4 DEF RegistryTurn
  <2>5. CASE LogTurn
    BY <2>5 DEF LogTurn
  <2>6. CASE AcceptanceTurn
    BY <2>6 DEF AcceptanceTurn
  <2>7. CASE UNCHANGED vars
    BY <2>7 DEF vars
  <2> QED BY <2>1, <2>2, <2>3, <2>4, <2>5, <2>6, <2>7 DEF Next
<1> QED
  BY <1>1, <1>2, PTL
     DEF Spec, SetupSpec, PlanSpec, LogSpec, AcceptanceSpec, RegistryRuns, DocumentSpec

(* Whatever program of a project runs, its state is typed: the file init.py *)
(* and detect_type.py write, the plan and the history of orchestrator.py,    *)
(* the logs, and what verify_acceptance.py is asked and answers.             *)
THEOREM ProjectTyped == Spec => []TypeOK
<1>1. SetupTypeOK /\ PlanTypeOK /\ LogTypeOK /\ AcceptanceTypeOK => TypeOK
  BY DEF TypeOK
<1> QED BY <1>1, ProjectRuns, SetupTypes, PlanTypes, LogTypes, AcceptanceTypes, PTL
===============================================================================
