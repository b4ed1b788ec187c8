---------------------------- MODULE Orchestration -----------------------------
(***************************************************************************)
(* orchestrator.py, the build-context.py it starts, and the files both     *)
(* share with the people and agents who work at the same time: the task in *)
(* current-state.md, the plan, the read list, the adapters' snapshots and  *)
(* the run counter.  Reads and writes of one file are steps of their own.  *)
(***************************************************************************)
EXTENDS Integers, FiniteSets

CONSTANTS
    Runner,      \* the processes that run orchestrator.py
    TaskName,    \* tasks current-state.md may name
    TaskType,    \* task types people may write
    Workflows,   \* the task types workflow-registry.yaml has an entry for
    Unset,       \* no task type
    NoTask,      \* no file, no task: "(unknown)"
    Options,     \* the ways to start it: --no-overwrite (keep), without --no-adapter (adapters)
    MaxRuns      \* bound: runs that are started

ASSUME OrchestrationAssumption ==
    /\ Unset \notin TaskType /\ NoTask \notin TaskName
    /\ Workflows \subseteq TaskType /\ MaxRuns \in Nat
    /\ Options \subseteq [keep : BOOLEAN, adapters : BOOLEAN]

VARIABLES
    task,       \* current-state.md: the name and the type of the task
    fallback,   \* task_type of .project-starter.yml
    at,         \* the step a runner is at
    mine,       \* what it has read: its number, task type, workflow and counter
    plan,       \* .ai/WORKFLOW.md: the run that wrote it, its task type and workflow
    context,    \* .ai/AI_CONTEXT.md: the run that wrote it and the task type it is for
    snapshot,   \* the adapters' files: the run that wrote them
    counter,    \* .orchestrator_runs.json: absent, "torn" or the task and its runs
    started,    \* runs started
    counted     \* runs that came to count a task

orchestrationVars == <<task, fallback, at, mine, plan, context, snapshot, counter, started, counted>>

TaskNames == TaskName \cup {NoTask}
Kinds == TaskType \cup {Unset}
Steps == {"idle", "resolved", "listed", "planned", "named", "loaded", "counting", "tracked"}
Runs == 0..MaxRuns
NoRuns == [name |-> NoTask, runs |-> 0]
Idle == [run |-> 0, kind |-> Unset, workflow |-> Unset, keep |-> FALSE, adapters |-> FALSE,
         name |-> NoTask, read |-> NoRuns]
Memory == [run : Runs, kind : Kinds, workflow : Workflows \cup {Unset}, keep : BOOLEAN, adapters : BOOLEAN,
           name : TaskNames, read : [name : TaskNames, runs : Runs]]

PlanTypeOK ==
    /\ task \in [name : TaskNames, kind : Kinds] /\ fallback \in Kinds
    /\ at \in [Runner -> Steps]
    /\ mine \in [Runner -> Memory]
    /\ plan \in [by : Runs, kind : Kinds, workflow : Workflows \cup {Unset}]
    /\ context \in [by : Runs, kind : Kinds]
    /\ snapshot \in Runs
    /\ counter \in [torn : BOOLEAN, name : TaskNames, runs : Runs]
    /\ started \in Runs /\ counted \in [TaskNames -> Runs]

PlanInit ==
    /\ task = [name |-> NoTask, kind |-> Unset] /\ fallback \in Kinds
    /\ at = [r \in Runner |-> "idle"] /\ mine = [r \in Runner |-> Idle]
    /\ plan = [by |-> 0, kind |-> Unset, workflow |-> Unset] /\ context = [by |-> 0, kind |-> Unset]
    /\ snapshot = 0
    /\ counter = [torn |-> FALSE, name |-> NoTask, runs |-> 0]
    /\ started = 0 /\ counted = [n \in TaskNames |-> 0]

(* current-state.md is rewritten, by a person or an agent, at any time.    *)
SwitchTask(name, kind) ==
    /\ task' = [name |-> name, kind |-> kind]
    /\ UNCHANGED <<fallback, at, mine, plan, context, snapshot, counter, started, counted>>

(* _resolve_task_type: the flag wins, then current-state.md, then the      *)
(* configuration.  A flag is one of the registry's own task types.         *)
Resolved(flag) == IF flag # Unset THEN flag ELSE IF task.kind # Unset THEN task.kind ELSE fallback

(* _build_workflow; a task type without an entry gets the default workflow. *)
Begun(run, kind, options) ==
    [run |-> run, kind |-> kind, workflow |-> IF kind \in Workflows THEN kind ELSE Unset,
     keep |-> options.keep, adapters |-> options.adapters, name |-> NoTask, read |-> NoRuns]
Resolve(r, flag, options) ==
    /\ at[r] = "idle" /\ started < MaxRuns
    /\ started' = started + 1
    /\ mine' = [mine EXCEPT ![r] = Begun(started', Resolved(flag), options)]
    /\ at' = [at EXCEPT ![r] = "resolved"]
    /\ UNCHANGED <<task, fallback, plan, context, snapshot, counter, counted>>

(* build-context.py takes the task type as a flag when there is one, and   *)
(* resolves it again when there is none.  Its flag admits only the task    *)
(* types of the registry: another one ends both programs.  Variant: without *)
(* a flag.                                                                 *)
NothingHandedOver(r) == Unset
HandedOver(r) == mine[r].kind
BuildContext(r) ==
    /\ at[r] = "resolved"
    /\ mine[r].kind \in Workflows \cup {Unset}
    /\ context' = [by |-> mine[r].run, kind |-> Resolved(HandedOver(r))]
    /\ at' = [at EXCEPT ![r] = "listed"]
    /\ UNCHANGED <<task, fallback, mine, plan, snapshot, counter, started, counted>>
ContextRefused(r) ==
    /\ at[r] = "resolved"
    /\ mine[r].kind \notin Workflows \cup {Unset}
    /\ at' = [at EXCEPT ![r] = "idle"] /\ mine' = [mine EXCEPT ![r] = Idle]
    /\ UNCHANGED <<task, fallback, plan, context, snapshot, counter, started, counted>>

WritePlan(r) ==
    /\ at[r] = "listed"
    /\ plan' = IF mine[r].keep /\ plan.by # 0 THEN plan
               ELSE [by |-> mine[r].run, kind |-> mine[r].kind, workflow |-> mine[r].workflow]
    /\ at' = [at EXCEPT ![r] = "planned"]
    /\ UNCHANGED <<task, fallback, mine, context, snapshot, counter, started, counted>>

(* _track_orchestrator_run: the name of the task is read anew, the counter *)
(* is read, truncated and written.  A truncated counter is read as none,   *)
(* and so is a short text over the longer one of another run.              *)
Torn == [torn |-> TRUE, name |-> NoTask, runs |-> 0]
ReadName(r) ==
    /\ at[r] = "planned"
    /\ mine' = [mine EXCEPT ![r].name = task.name]
    /\ counted' = [counted EXCEPT ![task.name] = @ + 1]
    /\ at' = [at EXCEPT ![r] = "named"]
    /\ UNCHANGED <<task, fallback, plan, context, snapshot, counter, started>>
ReadCounter(r) ==
    /\ at[r] = "named"
    /\ mine' = [mine EXCEPT ![r].read =
                    IF counter.torn THEN NoRuns ELSE [name |-> counter.name, runs |-> counter.runs]]
    /\ at' = [at EXCEPT ![r] = "loaded"]
    /\ UNCHANGED <<task, fallback, plan, context, snapshot, counter, started, counted>>
Truncate(r) ==
    /\ at[r] = "loaded"
    /\ counter' = Torn
    /\ at' = [at EXCEPT ![r] = "counting"]
    /\ UNCHANGED <<task, fallback, mine, plan, context, snapshot, started, counted>>
(* The total goes on only for the task it counts.  Variant: for any.        *)
TotalOfAny(name, read) == read.runs + 1
Total(name, read) == IF read.name = name THEN read.runs + 1 ELSE 1
WriteCounter(r) ==
    /\ at[r] = "counting"
    /\ \/ counter' = [torn |-> FALSE, name |-> mine[r].name, runs |-> Total(mine[r].name, mine[r].read)]
       \/ ~counter.torn /\ counter' = Torn
    /\ at' = [at EXCEPT ![r] = "tracked"]
    /\ UNCHANGED <<task, fallback, mine, plan, context, snapshot, started, counted>>

(* The adapters' files carry the plan of this run, also when --no-overwrite *)
(* kept the plan of another.                                               *)
RunAdapters(r) ==
    /\ at[r] = "tracked"
    /\ snapshot' = IF mine[r].adapters THEN mine[r].run ELSE snapshot
    /\ at' = [at EXCEPT ![r] = "idle"] /\ mine' = [mine EXCEPT ![r] = Idle]
    /\ UNCHANGED <<task, fallback, plan, context, counter, started, counted>>

(* The process is stopped between two steps.                               *)
Quit(r) ==
    /\ at[r] # "idle"
    /\ at' = [at EXCEPT ![r] = "idle"] /\ mine' = [mine EXCEPT ![r] = Idle]
    /\ UNCHANGED <<task, fallback, plan, context, snapshot, counter, started, counted>>

Advance(r) ==
    \/ BuildContext(r) \/ ContextRefused(r) \/ WritePlan(r) \/ ReadName(r) \/ ReadCounter(r) \/ Truncate(r)
    \/ WriteCounter(r) \/ RunAdapters(r)
PlanStep ==
    \/ \E n \in TaskNames, k \in Kinds : SwitchTask(n, k)
    \/ \E r \in Runner, flag \in Workflows \cup {Unset}, options \in Options :
            Resolve(r, flag, options)
    \/ \E r \in Runner : Advance(r) \/ Quit(r)

PlanSpec == PlanInit /\ [][PlanStep]_orchestrationVars

----------------------------------------------------------------------------
(* The plan and the read list a run left behind are for one task type,     *)
(* however often current-state.md changed in between and whoever else ran: *)
(* a type that was resolved is handed over, not resolved twice.            *)
PlanMatchesContext == plan.by = context.by /\ plan.kind # Unset => context.kind = plan.kind

(* No run is counted twice: whatever runs at the same time, switches tasks *)
(* or stops half-way, the counter never shows more runs of a task than     *)
(* came to be counted for it.                                              *)
NoRunCountedTwice == ~counter.torn => counter.runs <= counted[counter.name]
===============================================================================
