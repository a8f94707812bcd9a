---------------------------- MODULE ImportRepair ----------------------------
(***************************************************************************)
(* ensure_imports_resolve: which files of a project fail to import others, *)
(* and what GemPilot makes of a project that has such files: package       *)
(* markers, stubs, and, for what those do not help, removal.               *)
(*                                                                         *)
(* An import is the file it is looked up as.  A package is looked up as    *)
(* its marker too; "app/" is a Python root imported by its bare name,      *)
(* which resolves when a file lies under it, but is stubbed as app.py.     *)
(* The alias of the frontend is taken to be the same wherever it is read.  *)
(***************************************************************************)
EXTENDS Scaffold

BareRoot == "app/"

UnderBareRoot == {"app/main.py"}

(* The Python files whose directories get a marker. *)
Packages ==
  [backend        |-> {"backend/main.py", "backend/models.py", "backend/services.py",
                       "backend/db.py", "backend/auth.py", "backend/routers.py",
                       "backend/cache.py", "backend/routes/items.py"},
   backend_routes |-> {"backend/routes/items.py"},
   scripts        |-> {"scripts/seed_data.py"},
   tests          |-> {"tests/test_backend.py", "tests/test_api.py", "tests/test_app.py",
                       "tests/test_cli.py"},
   cli            |-> {"cli/main.py"},
   app            |-> UnderBareRoot]

MarkerOf ==
  [backend |-> "backend/__init__.py", backend_routes |-> "backend/routes/__init__.py",
   scripts |-> "scripts/__init__.py", tests |-> "tests/__init__.py",
   cli |-> "cli/__init__.py", app |-> "app/__init__.py"]

(* The other file an import is looked up as. *)
AsPackage(target) ==
  IF target = "backend/routes.py" THEN {"backend/routes/__init__.py"} ELSE {}

StubPath(target) == IF target = BareRoot THEN "app.py" ELSE target

Resolves(target, paths) ==
  IF target = BareRoot
  THEN paths \cap (UnderBareRoot \cup {"app/__init__.py"}) # {}
  ELSE paths \cap ({target} \cup AsPackage(target)) # {}

(* _import_failure_paths *)
Failing(files) ==
  {path \in DOMAIN files :
     \E target \in files[path].imports : ~Resolves(target, DOMAIN files)}

ImportsResolve(files) == Failing(files) = {}

(* _find_referenced_paths: a plain import is no reference. *)
References(file) == file.imports \ file.plain

Referenced(files) ==
  DOMAIN files \cap
    UNION {{target} \cup AsPackage(target) :
             target \in UNION {References(files[path]) : path \in DOMAIN files}}

(* detect_project_manifest: entrypoints *)
Entrypoints(files) ==
  DOMAIN files \cap {"src/main.jsx", "frontend/src/main.jsx", "backend/main.py",
                     "app/main.py", "app.py", "index.js"}

-----------------------------------------------------------------------------
(* Files of g are added to f, never replacing one. *)
Completed(f, g) ==
  [path \in DOMAIN f \cup DOMAIN g |-> IF path \in DOMAIN f THEN f[path] ELSE g[path]]

WithMarkers(files) ==
  Completed(files,
    [path \in {MarkerOf[package] : package \in
                 {p \in DOMAIN Packages : Packages[p] \cap DOMAIN files # {}}} |->
       File("marker", "none", {})])

WithStubs(files) ==
  LET unresolved == {target \in UNION {files[path].imports : path \in Failing(files)} :
                       ~Resolves(target, DOMAIN files)}
  IN  Completed(files, [path \in {StubPath(target) : target \in unresolved} |->
                          File("stub", "thin", {})])

(* A mutant: what failed before the stubs counts as failing. *)
OrphansBeforeStubs(before, files) ==
  (Failing(before) \ Referenced(files)) \ Entrypoints(before)

(* What still fails although stubs were added to the files before. *)
Orphans(before, files) == (Failing(files) \ Referenced(files)) \ Entrypoints(before)

Without(files, paths) == Restrict(files, DOMAIN files \ paths)

Pruned(marked, stubbed) == Without(stubbed, Orphans(marked, stubbed))

Repaired(files) ==
  LET marked == WithMarkers(files)
      stubbed == WithStubs(marked)
  IN  IF ImportsResolve(files) THEN files
      ELSE IF ImportsResolve(marked) THEN marked
      ELSE Pruned(marked, stubbed)
=============================================================================
