---------------------------- MODULE MCGeneration ----------------------------
(***************************************************************************)
(* Generation for TLC: an idea of every category and the variants that are *)
(* planned differently; for every stage an empty batch, a good one and     *)
(* those that give the repairs work.                                       *)
(***************************************************************************)
EXTENDS Generation

Plain(category) == [category |-> category, ai |-> FALSE, server |-> FALSE,
                    database |-> "unset", platform |-> "open", hackathon |-> FALSE,
                    portfolio |-> FALSE]

MCTasks ==
  {Plain(category) : category \in Categories}
  \cup {[Plain("web_app") EXCEPT !.database = "no"],
        [Plain("marketplace") EXCEPT !.hackathon = TRUE],
        [Plain("data_pipeline") EXCEPT !.platform = "web"],
        [Plain("api_service") EXCEPT !.database = "yes"],
        [Plain("portfolio_website") EXCEPT !.ai = TRUE, !.server = TRUE],
        [Plain("cli_tool") EXCEPT !.portfolio = TRUE]}

Good(paths, imports) == Reply(paths, {}, imports)

DataLayer ==
  Good(SchemaPaths \cup {"backend/models.py"},
       ("backend/models.py" :> {"backend/db.py"})
       @@ ("scripts/seed_data.py" :> {"backend/db.py", "backend/models.py"}))

Server(imports) ==
  Good({"backend/main.py", "backend/services.py", "requirements.txt", "tests/test_backend.py"}
       \cup DOMAIN imports, imports)

PlainServer == Server(("backend/main.py" :> {"backend/db.py", "backend/models.py"})
                      @@ ("tests/test_backend.py" :> {"backend/main.py"}))

(* The routes are a package without a marker, one of them misses a module, *)
(* and the test imports the app by its bare name.                          *)
RoutedServer == Server(("backend/main.py" :> {"backend/models.py", "backend/routes.py"})
                       @@ ("backend/routes/items.py" :> {"backend/cache.py"})
                       @@ ("tests/test_backend.py" :> {BareRoot}))

(* Another test names a file of that root, which is then stubbed. *)
TwoTests == Server(("tests/test_backend.py" :> {BareRoot})
                   @@ ("tests/test_app.py" :> {"app/main.py"}))

UnfinishedServer ==
  [Server("tests/test_backend.py" :> {"backend/main.py"}) EXCEPT
     !["backend/main.py"] = File("model", "placeholder", {"backend/auth.py"})]

BareServer == Server("backend/main.py" :> {BareRoot})

(* The models import that root and are deleted; the main file of the       *)
(* scaffold, which replaces the unfinished one, imports them again.        *)
BareModels ==
  [Server("backend/models.py" :> {BareRoot}) EXCEPT
     !["backend/main.py"] = File("model", "placeholder", {})]

(* The models import that root; the sign-in, which does too, refers to     *)
(* them, the main file only names them plainly.  The first repair deletes  *)
(* the sign-in, the second the models.                                     *)
OrphanedModels ==
  [Server(("backend/auth.py" :> {BareRoot, "backend/models.py"})
          @@ ("backend/models.py" :> {BareRoot})
          @@ ("backend/main.py" :> {"backend/models.py"})) EXCEPT
     !["backend/main.py"].plain = {"backend/models.py"}]

(* The sign-in is no file of the scaffold. *)
UnfinishedSignIn ==
  [Server("backend/auth.py" :> {"backend/db.py"}) EXCEPT
     !["backend/auth.py"] = File("model", "placeholder", {"backend/db.py"})]

Client(app, imports) ==
  ("src/App.jsx" :> File("model", app, imports))
  @@ Good({"package.json", "src/main.jsx", "src/lib/api.js"}, "src/main.jsx" :> {"src/App.jsx"})

MCReplies ==
  [database |-> {NoFiles, DataLayer, Without(DataLayer, {"docs/DATABASE_SCHEMA.sql"})},
   backend  |-> {NoFiles, PlainServer, RoutedServer, TwoTests, UnfinishedServer, BareServer,
                BareModels, OrphanedModels, UnfinishedSignIn},
   frontend |-> {NoFiles, Client("none", {"src/lib/api.js"}),
                 Client("none", {"src/components/Board.jsx"}), Client("thin", {})},
   docs     |-> {NoFiles, Good(CommonPaths \cup {"docs/API_SPEC.md"}, <<>>),
                 Reply({"README.md", "docs/ARCHITECTURE.md"},
                       {"README.md", "docs/ARCHITECTURE.md"}, <<>>),
                 "README.md" :> File("model", "todo", {})},
   demo     |-> {NoFiles, Good({"demo/script.md"}, <<>>)}]
=============================================================================
