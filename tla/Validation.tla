----------------------------- MODULE Validation -----------------------------
(***************************************************************************)
(* The repairs a generated project gets besides that of its imports, and   *)
(* the validation that decides whether it may be exported.  plan is the    *)
(* repo plan, whose checks say what the blueprint has validated.           *)
(***************************************************************************)
EXTENDS ImportRepair

Sound(files, path) == path \in DOMAIN files /\ files[path].flaw # "thin"

(* _detect_stack_from_artifacts *)
HasFrontend(files) ==
  DOMAIN files \cap {"package.json", "App.tsx", "src/main.jsx", "src/App.jsx",
                     "src/components/Board.jsx", "src/pages/LandingPage.jsx",
                     "src/pages/LoginPage.jsx", "src/pages/Dashboard.jsx"} # {}

(* What requires a web framework.  The requirements of a command line tool *)
(* do not; whatever brings a server brings its requirements, so the sample *)
(* of source files the code looks at as well decides nothing.              *)
HasWebBackend(idea, files) ==
  /\ "requirements.txt" \in DOMAIN files
  /\ files["requirements.txt"].by = "model" \/ Kind(idea) # "cli"

-----------------------------------------------------------------------------
(* The repairs.  Every one takes from the scaffold what it puts in place.  *)

Overlay(files, scaffold, paths) ==
  [path \in DOMAIN files \cup (paths \cap DOMAIN scaffold) |->
     IF path \in paths \cap DOMAIN scaffold THEN scaffold[path] ELSE files[path]]

(* A mutant: the documents are taken from the scaffold in any case. *)
HydratedAnyway(idea, files) == Overlay(files, ScaffoldOf(idea), GapPaths(idea))

(* hydrate_file_manifest *)
Hydrated(idea, files) == Completed(files, Restrict(ScaffoldOf(idea),
                                    GapPaths(idea) \cap ScaffoldPaths(idea)))

(* A mutant: the scaffold only fills gaps. *)
MergedGapsOnly(idea, files) == Completed(files, ScaffoldOf(idea))

(* merge_scaffold_over_model; a document that says less is also shorter. *)
Merged(idea, files) ==
  LET short == {path \in GapPaths(idea) \cap DOMAIN files : files[path].flaw = "thin"}
  IN  Overlay(files, ScaffoldOf(idea),
        PriorityPaths(idea) \cup short \cup (ScaffoldPaths(idea) \ DOMAIN files))

(* ensure_frontend_reflects_project *)
UiPaths == InterfacePaths

WithFrontend(idea, files) ==
  IF HasFrontend(files) /\ ~Sound(files, "src/App.jsx")
  THEN Overlay(files, ScaffoldOf(idea), PriorityPaths(idea) \cap UiPaths)
  ELSE files

(* _api_plan_present, _database_schema_present *)
ApiPlanned(scope, files) ==
  \/ ~scope.backend
  \/ /\ "docs/API_SPEC.md" \in DOMAIN files
     /\ scope.routes \/ Sound(files, "docs/API_SPEC.md")

SchemaPlanned(scope, files) == ~scope.database \/ Sound(files, "docs/DATABASE_SCHEMA.sql")

(* ensure_api_database_plans, for the scope it is called with. *)
SchemaPaths == {"docs/DATABASE_SCHEMA.sql", "backend/db.py", "scripts/seed_data.py",
                "data/seed.json"}

WithPlans(idea, scope, files) ==
  Overlay(files, ScaffoldOf(idea),
    (IF ApiPlanned(scope, files) THEN {} ELSE {"docs/API_SPEC.md"})
    \cup (IF SchemaPlanned(scope, files) THEN {} ELSE SchemaPaths))

(* ensure_architecture_doc_complete: what is missing is appended.  The repo *)
(* plan names no platform, so no project is exempt.                        *)
WithArchitecture(files) ==
  LET path == "docs/ARCHITECTURE.md"
      completed == IF path \in DOMAIN files THEN [files[path] EXCEPT !.flaw = "none"]
                   ELSE File("appendix", "none", {})
  IN  IF Sound(files, path) THEN files ELSE Overlay(files, [p \in {path} |-> completed], {path})

(* ensure_placeholder_safe_artifacts *)
PlaceholderSafe(idea, files) ==
  [path \in DOMAIN files |->
     CASE files[path].flaw = "todo" -> [files[path] EXCEPT !.flaw = "none"]
       [] files[path].flaw = "placeholder" /\ path \in ScaffoldPaths(idea) ->
            ScaffoldOf(idea)[path]
       [] OTHER -> files[path]]

-----------------------------------------------------------------------------
(* validate_project, and of validate_project_output the checks it keeps    *)
(* critical.  The title, the features and the user flows are those of the  *)
(* scope, which always has them.                                           *)

HasNoPlaceholder(files) ==
  \A path \in DOMAIN files : files[path].flaw \notin {"todo", "placeholder"}

DescribesTheIdea(idea, files) ==
  /\ Sound(files, "README.md")
  /\ idea.hackathon => Sound(files, "demo/script.md")

Testable(files) == {"tests/test_backend.py", "docs/DEPLOY.md"} \subseteq DOMAIN files

UiIsSpecific(files) == HasFrontend(files) => Sound(files, "src/App.jsx")

(* Without planned routes the check asks for one that nobody writes. *)
RoutesExist(scope, files) ==
  /\ DOMAIN files \cap {"backend/main.py", "app/main.py", "app.py", "index.js"} # {}
  /\ scope.routes
  /\ Sound(files, "backend/main.py") \/ Sound(files, "docs/API_SPEC.md")

ModelsUsed(files) ==
  /\ \A path \in {"backend/models.py", "backend/db.py", "docs/DATABASE_SCHEMA.sql"} :
        Sound(files, path)
  /\ "backend/main.py" \in DOMAIN files
  /\ "backend/models.py" \in files["backend/main.py"].imports

SeedDataPresent(files) == {"data/seed.json", "scripts/seed_data.py"} \subseteq DOMAIN files

(* The scope is classified anew, its routes are those of the plan. *)
ValidatedScope(idea) ==
  [Scope(PlannedCategory(idea), idea) EXCEPT !.routes = Scope(idea.category, idea).routes]

Passes(idea, files) ==
  LET profile == PlannedProfile(idea)
      checks == Checks(profile)
      scope == ValidatedScope(idea)
      served == checks.backend /\ HasWebBackend(idea, files)
  IN  /\ HasNoPlaceholder(files)
      /\ ImportsResolve(files)
      /\ DescribesTheIdea(idea, files)
      /\ Testable(files)
      /\ profile.frontend /\ checks.frontend => UiIsSpecific(files)
      /\ profile.backend /\ served => RoutesExist(scope, files)
      /\ profile.backend \/ profile.database =>
           ApiPlanned(scope, files) /\ SchemaPlanned(scope, files)
      /\ profile.database /\ checks.database =>
           /\ served => ModelsUsed(files)
           /\ checks.seed => SeedDataPresent(files)
=============================================================================
