----------------------------- MODULE Generation -----------------------------
(***************************************************************************)
(* How a task gets its files: the plan, the stages the model is asked for, *)
(* up to three attempts while nothing comes back, the scaffold, the        *)
(* repairs and the validation.  The steps are those of plan_repo,          *)
(* run_staged_generation, generate_files and validate_mvp; the graph they  *)
(* are nodes of is Workflow, the calls behind a stage are LlmClient.       *)
(***************************************************************************)
EXTENDS Validation, Integers, SequencesExt

CONSTANTS
  Tasks,     \* the ideas that are submitted
  Replies    \* for every stage, the batches a live model may answer with

ASSUME TasksAssumption == Tasks \subseteq Ideas

IsFile(f) ==
  /\ f = [by |-> f.by, flaw |-> f.flaw, imports |-> f.imports, plain |-> f.plain]
  /\ f.flaw \in Flaws
  /\ f.plain \subseteq f.imports

(* A batch is files by name. *)
IsBatch(batch) == \A path \in DOMAIN batch : IsFile(batch[path])

(* Only in Python files are imports read that name a root alone. *)
NotPython == UiPaths \cup {"docs/DATABASE_SCHEMA.sql"}

IsReply(batch) ==
  /\ IsBatch(batch)
  /\ \A path \in DOMAIN batch \cap NotPython : BareRoot \notin batch[path].imports

ASSUME RepliesAssumption ==
  /\ DOMAIN Replies = Stages
  /\ \A stage \in Stages : \A batch \in Replies[stage] : IsReply(batch)

(* strict: a live model without stand-in; partial: a live model whose      *)
(* failures are made up for; mock: the deterministic client.               *)
Settings == {"strict", "partial", "mock"}

Modes == {"live", "degraded", "mock"}

Attempts == 3

Answers == [attempt : 1 .. Attempts, stage : Stages, mode : Modes]

VARIABLES
  idea, setting,
  phase,      \* the step the task is at
  attempt,    \* of run_staged_generation
  stages,     \* that are still to be asked for in the attempt
  answers,    \* every answer so far: its attempt, stage and mode
  written,    \* by the model, or in its place, in the attempt
  mode,       \* overall_mode
  files       \* the artifacts

vars == <<idea, setting, phase, attempt, stages, answers, written, mode, files>>

NoFiles == <<>>

Init ==
  /\ idea \in Tasks
  /\ setting \in Settings
  /\ phase = "plan"
  /\ attempt = 0
  /\ stages = <<>>
  /\ answers = <<>>
  /\ written = NoFiles
  /\ mode = "live"
  /\ files = NoFiles

-----------------------------------------------------------------------------
(* An attempt starts afresh. *)
Begin(n) ==
  /\ attempt' = n
  /\ stages' = GenerationStages(AttemptPlans(RepoPlan(idea))[n], idea.hackathon)
  /\ written' = NoFiles
  /\ mode' = "live"

PlanRepo ==
  /\ phase = "plan"
  /\ phase' = "stages"
  /\ Begin(1)
  /\ UNCHANGED <<idea, setting, answers, files>>

(* _merge: of two files with one name the later stays. *)
Together(earlier, later) == Completed(later, earlier)

(* A mutant: the mode of the last stage. *)
LatestMode(overall, answered) == answered

OverallMode(overall, answered) == IF answered = "live" THEN overall ELSE answered

Answered(batch, m) ==
  /\ phase' = phase
  /\ stages' = Tail(stages)
  /\ answers' = Append(answers, [attempt |-> attempt, stage |-> Head(stages), mode |-> m])
  /\ written' = Together(written, batch)
  /\ mode' = OverallMode(mode, m)

Raised ==
  /\ phase' = "raised"
  /\ UNCHANGED <<stages, answers, written, mode>>

(* A mutant: a stage that fails is always left out. *)
StageLeftOut == Answered(NoFiles, "degraded")

StageFails == IF setting = "strict" THEN Raised ELSE Answered(NoFiles, "degraded")

(* _run_stage: the answer of the model, what stands in for it, or neither. *)
AskStage ==
  /\ phase = "stages"
  /\ stages # <<>>
  /\ \/ /\ setting # "mock"
        /\ \/ \E batch \in Replies[Head(stages)] : Answered(batch, "live")
           \/ StageFails
     \/ setting = "partial" /\ Answered(DegradedBatch(idea, Head(stages)), "degraded")
     \/ setting = "mock" /\ Answered(MockBatch(Head(stages)), "mock")
  /\ UNCHANGED <<idea, setting, attempt, files>>

AskAgain ==
  /\ phase = "stages"
  /\ stages = <<>>
  /\ written = NoFiles
  /\ attempt < Attempts
  /\ phase' = phase
  /\ Begin(attempt + 1)
  /\ UNCHANGED <<idea, setting, answers, files>>

(* generate_files, from what the attempts have left. *)
Assembled(overall, batch) ==
  IF overall = "live" THEN Hydrated(idea, batch) ELSE Merged(idea, batch)

Repairs(scope, repaired) ==
  LET shown == WithFrontend(idea, repaired)
      planned == WithPlans(idea, scope, shown)
  IN  PlaceholderSafe(idea, planned)

GenerateFiles ==
  /\ phase = "stages"
  /\ stages = <<>>
  /\ written # NoFiles \/ attempt = Attempts
  /\ \E overall \in {IF written = NoFiles THEN "degraded" ELSE mode} :
     \E assembled \in {Assembled(overall, IF written = NoFiles THEN ScaffoldOf(idea) ELSE written)} :
     \E repaired \in {Repaired(assembled)} :
        /\ mode' = overall
        /\ files' = Repairs(Scope(idea.category, idea), repaired)
  /\ phase' = "generated"
  /\ UNCHANGED <<idea, setting, attempt, stages, answers, written>>

(* A mutant: the imports are not looked at again. *)
ValidatedUnrepaired(artifacts) == artifacts

RepairedAgain(artifacts) == Repaired(artifacts)

ValidateMvp ==
  /\ phase = "generated"
  /\ \E repaired \in {RepairedAgain(WithArchitecture(files))} :
     \E planned \in {WithPlans(idea, Scope(PlannedCategory(idea), idea), repaired)} :
     \E validated \in {PlaceholderSafe(idea, planned)} :
        /\ files' = validated
        /\ phase' = IF Passes(idea, validated) THEN "passed" ELSE "failed"
  /\ UNCHANGED <<idea, setting, attempt, stages, answers, written, mode>>

Next == PlanRepo \/ AskStage \/ AskAgain \/ GenerateFiles \/ ValidateMvp

Spec == Init /\ [][Next]_vars

-----------------------------------------------------------------------------
(* The state has its type: the phase, mode and answers range over their    *)
(* sets, and whatever is written or kept is a file.                        *)
TypeOK ==
  /\ idea \in Tasks /\ setting \in Settings
  /\ phase \in {"plan", "stages", "raised", "generated", "passed", "failed"}
  /\ attempt \in 0 .. Attempts
  /\ stages \in Seq(Stages)
  /\ answers \in Seq(Answers)
  /\ mode \in Modes
  /\ IsBatch(written)
  /\ IsBatch(files)

Validated == phase \in {"passed", "failed"}

InAttempt(n) == {answers[i] : i \in {j \in DOMAIN answers : answers[j].attempt = n}}

(* A task counts as live, which is what its report says and what later     *)
(* decides about its files, just when every stage of the attempt its files *)
(* are from was answered by the live model, with files.                    *)
LiveMeansEveryStageLive ==
  phase \in {"generated", "passed", "failed"} =>
    (mode = "live" <=> /\ written # NoFiles
                       /\ \A answer \in InAttempt(attempt) : answer.mode = "live")

(* A task that must be live gets the scaffold only when the live model     *)
(* answered every stage of three attempts without a single file; no        *)
(* failure is ever made up for.                                            *)
StrictDegradesOnlyOnEmptyReplies ==
  setting = "strict" /\ mode # "live" =>
    /\ attempt = Attempts
    /\ written = NoFiles
    /\ \A i \in DOMAIN answers : answers[i].mode = "live"

(* The frontend of the replies does not show the idea, or they have none;  *)
(* the schema is missing or thin.                                          *)
UiIsReplaced == HasFrontend(files) /\ ~Sound(written, "src/App.jsx")

SchemaIsReplaced == ~SchemaPlanned(ValidatedScope(idea), written)

(* A sound file of the live model is in the project that is validated as   *)
(* the model wrote it.  The scaffold takes its place only in a frontend    *)
(* whose App does not show the idea and, when the schema is no schema,     *)
(* among the files of the database; it is deleted only for an import of a  *)
(* bare root, and what is put in place later may need a stub of it.        *)
SoundLiveFilesSurvive ==
  Validated /\ mode = "live" =>
    \A path \in DOMAIN written :
      \/ written[path].flaw # "none"
      \/ path \in DOMAIN files /\ files[path] = written[path]
      \/ path \in UiPaths /\ UiIsReplaced
      \/ path \in SchemaPaths /\ SchemaIsReplaced
      \/ BareRoot \in written[path].imports

(* The file that is imported was deleted, for its import of a bare root. *)
Deleted(target) ==
  \E lost \in ({target} \cup AsPackage(target)) \cap (DOMAIN written \ DOMAIN files) :
    BareRoot \in written[lost].imports

(* The project that is validated has no import that leads nowhere, though  *)
(* files were replaced after the first repair; all that may be left is an  *)
(* import of a bare root, in a file the repairs do not delete, and a plain *)
(* import, which is no reference, of a file they did delete.               *)
RepairedImportsResolve ==
  Validated =>
    \A path \in DOMAIN files : \A target \in files[path].imports :
      \/ Resolves(target, DOMAIN files)
      \/ target = BareRoot
      \/ target \in files[path].plain /\ Deleted(target)

(* The repairs delete a file of the replies only for an import of a bare   *)
(* root, which no stub can satisfy; every other missing file is stubbed.   *)
OnlyBareRootImportersAreDeleted ==
  Validated =>
    \A path \in DOMAIN written \ DOMAIN files : BareRoot \in written[path].imports

WebCategories == {"multiplayer_game", "marketplace", "research_platform",
                  "sports_analytics", "web_app", "desktop_app", "ai_system"}

(* Whenever a task for a web product is not live, what the scaffold makes  *)
(* of it passes the validation, whatever the stages brought before: only   *)
(* an import of a bare root is beyond it, and a placeholder in a file the  *)
(* scaffold does not have.                                                 *)
WebScaffoldPasses ==
  phase = "failed" /\ mode # "live" /\ idea.category \in WebCategories =>
    \E path \in DOMAIN written :
      \/ BareRoot \in written[path].imports
      \/ written[path].flaw = "placeholder" /\ path \notin ScaffoldPaths(idea)

-----------------------------------------------------------------------------
(* What the repository says, and the program does not do *)

(* agent/project_generation.py:451: only unreferenced files are deleted, so *)
(* no file of the validated project imports one that is gone.              *)
OnlyUnreferencedAreDeleted ==
  Validated =>
    \A path \in DOMAIN files :
      files[path].imports \cap (DOMAIN written \ DOMAIN files) = {}

(* tests/test_code_generator.py:6-16: the stages of the blueprint decide    *)
(* which parts of the code the model is asked for.                         *)
PlannedCodeIsAskedFor ==
  phase = "stages" /\ attempt = 1 =>
    \A part \in DOMAIN StageHints :
      Hinted(ImplementationStages(PlannedCategory(idea)), part) =>
        \/ part \in ToSet(stages)
        \/ \E answer \in InAttempt(1) : answer.stage = part
=============================================================================
