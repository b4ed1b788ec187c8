---------------------------- MODULE ProjectSetup ------------------------------
(***************************************************************************)
(* How a project gets its type: init.py writes the one a person asked for, *)
(* detect_type.py --apply writes a guess, people edit .project-starter.yml *)
(* by hand, and the pre-commit hook decides what may be committed.         *)
(***************************************************************************)
EXTENDS TypeDetection

CONSTANTS
    Evidence,    \* the signals a project may come to show
    HandTypes,   \* the types people write by hand
    MaxFound     \* bound: signals of one project

(* Signals are of known types; one type is written by hand, or two of them.   *)
ASSUME SetupAssumption ==
    /\ \A s \in Evidence : s.type \in Types /\ s.points \in Nat /\ s.times \in Nat
    /\ \A types \in HandTypes : types \subseteq Types /\ Cardinality(types) <= 2
    /\ MaxFound \in Nat

VARIABLES
    found,      \* the signals the project shows
    config,     \* .project-starter.yml
    author,     \* whose decision its type is: "nobody", "guess" or "person"
    ignored,    \* blocks of generated paths in .gitignore
    hooked,     \* the repository has the pre-commit hook
    staged,     \* whose decision the type in the index is, and whether that is
                \* the text on disk
    committed   \* that of the last commit, and which text the hook judged: "this",
                \* "another" or "none"

setupVars == <<found, config, author, ignored, hooked, staged, committed>>

NoFile == [exists |-> FALSE, typed |-> FALSE, type |-> {}, confirmed |-> "absent", adapter |-> "none"]

SetupTypeOK ==
    /\ found \subseteq Evidence /\ Cardinality(found) <= MaxFound
    /\ config.exists \in BOOLEAN /\ config.typed \in BOOLEAN
    /\ config.type \subseteq Types /\ Cardinality(config.type) <= 2
    /\ config.confirmed \in {"absent", "false", "true"} /\ config.adapter \in {"none", "guess"}
    /\ author \in {"nobody", "guess", "person"}
    /\ ignored \in 0..1 /\ hooked \in BOOLEAN
    /\ staged \in [author: {"nobody", "guess", "person"}, current: BOOLEAN]
    /\ committed \in [author: {"nobody", "guess", "person"}, judged: {"this", "another", "none"}]

SetupInit ==
    /\ found = {}
    /\ config \in {NoFile, [NoFile EXCEPT !.exists = TRUE]}    \* a file without project_type
    /\ author = "nobody" /\ ignored = 0 /\ hooked = FALSE
    /\ staged = [author |-> "nobody", current |-> FALSE]
    /\ committed = [author |-> "nobody", judged |-> "none"]

(* The project grows: a file, a dependency, a sentence of requirements.    *)
Find(signal) ==
    /\ Cardinality(found) < MaxFound
    /\ \A s \in found : ~(s.table = signal.table /\ s.type = signal.type /\ s.points = signal.points)
    /\ found' = found \cup {signal}
    /\ UNCHANGED <<config, author, ignored, hooked, staged, committed>>

(* The file has been written: what is in the index is no longer it.         *)
ConfigWritten == staged' = [staged EXCEPT !.current = FALSE]

(* The block is appended unless its marker is there.  Variant: without the  *)
(* look for the marker.                                                    *)
AlwaysAppended == ignored + 1
IgnoreBlocks == IF ignored = 0 THEN 1 ELSE ignored

(* init.py <type> <dest>: one valid type.  The configuration is written    *)
(* anew, the paths to ignore once, the hook only into a git repository.    *)
InitProject(type, inGit) ==
    /\ type \in Types
    /\ config' = [NoFile EXCEPT !.exists = TRUE, !.typed = TRUE, !.type = {type}]
    /\ author' = "person" /\ ConfigWritten
    /\ ignored' = IgnoreBlocks
    /\ hooked' = (hooked \/ inGit)
    /\ UNCHANGED <<found, committed>>

(* _mark_project_type_unconfirmed: a confirmation, given or asked for, is  *)
(* taken back, and a file without one is asked for it below its type.      *)
(* Variant: a confirmation that is there is left alone.                     *)
MarkIfAbsent(file) ==
    IF file.confirmed = "absent" /\ file.typed THEN [file EXCEPT !.confirmed = "false"] ELSE file
MarkUnconfirmed(file) ==
    IF file.confirmed # "absent" \/ file.typed THEN [file EXCEPT !.confirmed = "false"] ELSE file

(* The file after --apply: an existing one keeps its other settings.       *)
Applied(recommended, suggested) ==
    IF config.exists
    THEN MarkUnconfirmed(IF config.typed THEN [config EXCEPT !.type = recommended] ELSE config)
    ELSE [exists |-> TRUE, typed |-> TRUE, type |-> recommended, confirmed |-> "false",
          adapter |-> IF suggested THEN "guess" ELSE "none"]

(* detect_type.py --apply: refused on low confidence unless forced.  That   *)
(* changes nothing where the confidence is enough.                          *)
Apply(scan, told, force) ==
    LET scores == Scores(found, scan, told)
        recommended == Recommend(scores)
    IN  /\ force <=> ~ Authoritative(scores)
        /\ config' = Applied(recommended, SuggestSpecCode(found, scan, recommended))
        /\ author' = IF config'.typed THEN "guess" ELSE author
        /\ ConfigWritten
        /\ UNCHANGED <<found, ignored, hooked, committed>>

(* People write the type or blank it, and confirm a guess by setting the     *)
(* line to true or removing it.  Writing the type alone leaves the line.    *)
WriteType(type) ==
    /\ config' = [config EXCEPT !.exists = TRUE, !.typed = TRUE, !.type = type]
    /\ author' = (IF type = {} THEN "nobody" ELSE "person") /\ ConfigWritten
    /\ UNCHANGED <<found, ignored, hooked, committed>>
Confirm(line) ==
    /\ config.confirmed = "false"
    /\ config' = [config EXCEPT !.confirmed = line]
    /\ author' = (IF config.typed THEN "person" ELSE author) /\ ConfigWritten
    /\ UNCHANGED <<found, ignored, hooked, committed>>
InstallHook ==
    /\ hooked' = TRUE
    /\ UNCHANGED <<found, config, author, ignored, staged, committed>>
Stage ==
    /\ config.exists
    /\ staged' = [author |-> author, current |-> TRUE]
    /\ UNCHANGED <<found, config, author, ignored, hooked, committed>>

(* The hook reads the file on disk.  Without one, or with a blank type, it   *)
(* has nothing to verify and lets the commit pass; a file without a type     *)
(* line ends it in an error; a line that asks for confirmation refuses.      *)
NothingToVerify == config.exists => config.typed /\ config.type = {}
ConfirmationGuard == config.typed /\ config.confirmed # "false"

(* git commits the index, whatever the hook has read.                        *)
Committing(judged) ==
    /\ committed' = [author |-> staged.author, judged |-> judged]
    /\ UNCHANGED <<found, config, author, ignored, hooked, staged>>
Commit ==
    /\ hooked /\ ~ NothingToVerify /\ ConfirmationGuard
    /\ Committing(IF staged.current THEN "this" ELSE "another")

\* No hook, nothing for it to verify, or PROJECT_STARTER_SKIP_VERIFY, which is
\* always open to the developer.
CommitUnjudged == Committing("none")

SetupStep ==
    \/ \E s \in Evidence : Find(s)
    \/ \E t \in Types, inGit \in BOOLEAN : {t} \in HandTypes /\ InitProject(t, inGit)
    \/ \E scan, told, force \in BOOLEAN : Apply(scan, told, force)
    \/ \E ts \in HandTypes : WriteType(ts)
    \/ \E line \in {"absent", "true"} : Confirm(line)
    \/ InstallHook \/ Stage
    \/ Commit \/ CommitUnjudged

SetupSpec == SetupInit /\ [][SetupStep]_setupVars

----------------------------------------------------------------------------
(* pre-commit:323-332: the hook never passes a configuration whose type is   *)
(* detect_type.py's guess and that no person has looked at, whatever was     *)
(* confirmed before the guess, and however guesses, edits, confirmations,    *)
(* initialisations and git add alternate: such a guess is only committed     *)
(* when the hook judged nothing, or another text than the one staged.        *)
GuessNeverPasses == committed.judged = "this" => committed.author # "guess"

(* README.md:97-98: the hook blocks commits while the confirmation of a guess *)
(* is asked for, so one that it has let pass holds none.                     *)
GuessNeverCommits == committed.judged # "none" => committed.author # "guess"

(* More evidence for a type that is recommended never takes it out of the  *)
(* recommendation, although the other half of a hybrid is chosen by a      *)
(* ratio to the best score and ties are ranked.                            *)
Recommended(signals) == Recommend(Scores(signals, TRUE, TRUE))
MoreEvidenceKeepsType ==
    [][\A t \in {s.type : s \in found' \ found} : t \in Recommended(found) => t \in Recommended(found')]_setupVars
===============================================================================
