------------------------------ MODULE Scaffold ------------------------------
(***************************************************************************)
(* The project GemPilot can write without a model: which files it has for  *)
(* a kind of project, what they import, and which of them may replace or   *)
(* complete the files of a model.                                          *)
(*                                                                         *)
(* A file is who wrote it, what is wrong with it, and what it imports:     *)
(*   thin         it does not say or do what the validation looks for in   *)
(*                it: the idea, the planned routes, the models;            *)
(*   todo         comment lines that mark work to do;                      *)
(*   placeholder  a marker in the code that cannot be taken out.           *)
(* An import is the file it is looked up as, or a directory that is named  *)
(* alone; plain are those imports that a file has in no other form than    *)
(* `import x.y' or by the alias of the frontend.  docs/PROJECT_PLAN.md stands for the documents no check reads,   *)
(* demo/script.md for the demo materials, popup.js for the popup; style    *)
(* sheets and the HTML shell are left out.                                 *)
(***************************************************************************)
EXTENDS RepoPlan, FiniteSets, TLC, Functions

Flaws == {"none", "thin", "todo", "placeholder"}

File(by, flaw, imports) ==
  [by |-> by, flaw |-> flaw, imports |-> imports, plain |-> {}]

(* The platform resolver. *)
Kind(idea) ==
  CASE idea.category = "mobile_app"        -> "mobile"
    [] idea.category = "portfolio_website" \/ idea.portfolio -> "portfolio"
    [] PlannedCategory(idea) = "api_service" -> "api"
    [] idea.category = "cli_tool"          -> "cli"
    [] idea.category = "browser_extension" -> "extension"
    [] OTHER                               -> "web"

CommonPaths == {"README.md", "docs/PROJECT_PLAN.md", "docs/ARCHITECTURE.md", "docs/DEPLOY.md"}

ServerPaths == {"backend/main.py", "backend/models.py", "backend/services.py",
                "requirements.txt", "docs/API_SPEC.md"}

InterfacePaths == {"src/main.jsx", "src/App.jsx", "src/lib/api.js", "src/state/projectState.js"}

CliPaths == {"cli/__init__.py", "cli/main.py", "pyproject.toml", "requirements.txt",
             "tests/test_cli.py"}

ExtensionPaths == {"manifest.json", "background.js", "popup.js", "content.js", "src/utils.js"}

KindPaths ==
  [mobile    |-> {"package.json", "App.tsx", "index.js", "src/lib/api.ts"},
   portfolio |-> {"frontend/index.html", "frontend/src/main.js"},
   web       |-> ServerPaths \cup InterfacePaths \cup {"package.json", "tests/test_backend.py"},
   api       |-> ServerPaths \cup {"tests/test_api.py"},
   cli       |-> CliPaths,
   extension |-> ExtensionPaths]

DatabasePaths(kind) ==
  {"data/seed.json"} \cup
  CASE kind = "web" -> {"backend/db.py", "scripts/seed_data.py", "docs/DATABASE_SCHEMA.sql"}
    [] kind = "api" -> {"backend/db.py", "docs/DATABASE_SCHEMA.sql"}
    [] OTHER        -> {}

ScaffoldPaths(idea) ==
  LET kind == Kind(idea)
      database == Scope(idea.category, idea).database
  IN  CommonPaths \cup KindPaths[kind]
      \cup (IF database THEN DatabasePaths(kind) ELSE {})
      \cup (IF idea.hackathon THEN {"demo/script.md"} ELSE {})

ClientImports(path) ==
  CASE path = "src/main.jsx" -> {"src/App.jsx"}
    [] path = "src/App.jsx"  -> {"src/lib/api.js", "src/state/projectState.js"}
    [] path = "index.js"     -> {"App.tsx"}
    [] OTHER                 -> {}

ServerImports(path, database) ==
  CASE path = "backend/main.py" /\ database -> {"backend/db.py", "backend/models.py"}
    [] path = "scripts/seed_data.py"        -> {"backend/db.py"}
    [] OTHER                                -> {}

TestImports(path) ==
  CASE path \in {"tests/test_backend.py", "tests/test_api.py"} -> {"backend/main.py"}
    [] path = "tests/test_cli.py"                              -> {"cli/main.py"}
    [] OTHER                                                   -> {}

ScaffoldImports(path, database) ==
  ClientImports(path) \cup ServerImports(path, database) \cup TestImports(path)

(* build_project_artifacts.  It classifies the scope anew; a specification *)
(* of no routes says nothing.                                              *)
ScaffoldFlaw(idea, path) ==
  IF path = "docs/API_SPEC.md" /\ ~Scope(PlannedCategory(idea), idea).routes
  THEN "thin" ELSE "none"

ScaffoldOf(idea) ==
  [path \in ScaffoldPaths(idea) |->
     File("scaffold", ScaffoldFlaw(idea, path),
          ScaffoldImports(path, Scope(idea.category, idea).database))]

-----------------------------------------------------------------------------
(* get_priority_paths, get_gap_fill_paths *)

PriorityPaths(idea) ==
  CASE Platform(idea) = "cli" ->
         {"cli/main.py", "cli/__init__.py", "pyproject.toml", "requirements.txt"}
    [] Platform(idea) = "extension" -> {"manifest.json", "background.js", "popup.js", "content.js"}
    [] Platform(idea) = "api" ->
         {"backend/main.py", "backend/models.py", "backend/services.py", "backend/db.py",
          "requirements.txt"}
    [] OTHER ->
         CommonPaths \cup InterfacePaths \cup (ServerPaths \ {"requirements.txt"})
         \cup {"backend/db.py", "scripts/seed_data.py", "docs/DATABASE_SCHEMA.sql",
               "data/seed.json", "demo/script.md"}

GapPaths(idea) ==
  CommonPaths \cup {"docs/API_SPEC.md"} \cup (IF idea.hackathon THEN {"demo/script.md"} ELSE {})

(* The part of the scaffold that answers for a stage. *)
StagePaths ==
  [database |-> {"backend/db.py", "backend/models.py", "docs/DATABASE_SCHEMA.sql",
                 "scripts/seed_data.py", "data/seed.json"},
   backend  |-> {"backend/main.py", "backend/services.py", "requirements.txt",
                 "tests/test_backend.py", "tests/test_api.py", "docs/API_SPEC.md",
                 "cli/__init__.py", "cli/main.py"},
   frontend |-> {"package.json", "App.tsx", "index.js", "src/main.jsx", "src/App.jsx",
                 "src/lib/api.js", "src/state/projectState.js", "frontend/index.html",
                 "frontend/src/main.js", "manifest.json", "background.js", "popup.js",
                 "content.js"},
   docs     |-> CommonPaths,
   demo     |-> {"demo/script.md"}]

(* project_generator_stage_batch *)
DegradedBatch(idea, stage) == Restrict(ScaffoldOf(idea), StagePaths[stage] \cap ScaffoldPaths(idea))

(* Files of a model: those that are thin, and what they import, if anything. *)
Reply(paths, thin, imports) ==
  [path \in paths |-> File("model", IF path \in thin THEN "thin" ELSE "none",
                           IF path \in DOMAIN imports THEN imports[path] ELSE {})]

(* The batches of the mock client: one small app, whatever the idea.  Its  *)
(* specification names routes, though not the planned ones, at length.     *)
MockDatabase ==
  Reply({"backend/db.py", "backend/models.py", "docs/DATABASE_SCHEMA.sql",
         "scripts/seed_data.py"}, {},
        ("backend/models.py" :> {"backend/db.py"})
        @@ ("scripts/seed_data.py" :> {"backend/db.py", "backend/models.py"}))

MockBackend ==
  Reply({"backend/main.py", "backend/auth.py", "requirements.txt", "tests/test_api.py"},
        {"backend/main.py"},
        ("backend/main.py" :> {"backend/routers.py"})
        @@ ("tests/test_api.py" :> {"backend/main.py"}))

MockFrontend ==
  Reply({"package.json", "src/main.jsx", "src/App.jsx", "src/lib/api.js",
         "src/pages/Dashboard.jsx"}, {"src/App.jsx"},
        ("src/main.jsx" :> {"src/App.jsx"})
        @@ ("src/App.jsx" :> {"src/pages/LandingPage.jsx", "src/pages/LoginPage.jsx",
                              "src/pages/Dashboard.jsx"})
        @@ ("src/pages/Dashboard.jsx" :> {"src/lib/api.js"}))

MockDocs ==
  Reply({"docs/API_SPEC.md", "README.md", "docs/ARCHITECTURE.md", "docs/DEPLOY.md"},
        {"README.md", "docs/ARCHITECTURE.md", "docs/DEPLOY.md"}, <<>>)

MockDemo == Reply({"demo/script.md"}, {"demo/script.md"}, <<>>)

MockBatch(stage) ==
  CASE stage = "database" -> MockDatabase
    [] stage = "backend"  -> MockBackend
    [] stage = "frontend" -> MockFrontend
    [] stage = "docs"     -> MockDocs
    [] stage = "demo"     -> MockDemo
=============================================================================
