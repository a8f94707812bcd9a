------------------------------ MODULE RepoPlan ------------------------------
(***************************************************************************)
(* From an idea to a plan: how it is classified, what the classification   *)
(* makes of the scope, the blueprint of the repository and the stages of   *)
(* generation that follow from it.                                         *)
(*                                                                         *)
(* An idea is what the classifier finds in it: the category its keywords   *)
(* name, whether it mentions AI and a server, what the form says of a      *)
(* database, whether the form leaves the platform open or says "web app",  *)
(* the demo mode, and whether it mentions a portfolio, which the keywords  *)
(* of two categories are looked for before.                                *)
(***************************************************************************)
EXTENDS Sequences

Categories ==
  {"browser_extension", "cli_tool", "portfolio_website", "multiplayer_game",
   "marketplace", "research_platform", "api_service", "sports_analytics", "web_app",
   "mobile_app", "desktop_app", "data_pipeline", "library", "ai_system"}

Ideas ==
  {idea \in [category : Categories, ai : BOOLEAN, server : BOOLEAN, portfolio : BOOLEAN,
             database : {"unset", "yes", "no"}, platform : {"open", "web"},
             hackathon : BOOLEAN] :
     idea.portfolio =>
       idea.category \in {"browser_extension", "cli_tool", "portfolio_website"}}

-----------------------------------------------------------------------------
(* ProjectClassifier *)

Persistent == {"marketplace", "multiplayer_game", "research_platform", "sports_analytics",
               "web_app", "mobile_app", "ai_system"}

Headless == {"cli_tool", "api_service", "library", "data_pipeline"}

Routeless == {"cli_tool", "browser_extension", "portfolio_website", "library",
              "data_pipeline"}

Platform(idea) ==
  IF idea.platform = "web" THEN "web"
  ELSE CASE idea.category \in {"api_service", "data_pipeline"} -> "api"
         [] idea.category = "cli_tool"                        -> "cli"
         [] idea.category = "browser_extension"               -> "extension"
         [] OTHER                                             -> "web"

Profile(category, idea) ==
  [category |-> category,
   frontend |-> category \notin Headless,
   backend  |-> category # "portfolio_website" \/ (idea.ai /\ idea.server),
   database |-> IF idea.database = "unset" THEN category \in Persistent
                ELSE idea.database = "yes"]

(* apply_profile_to_requirements; routes says whether any are left. *)
Scope(category, idea) ==
  LET profile == Profile(category, idea)
  IN  [category |-> category, backend |-> profile.backend, database |-> profile.database,
       routes |-> category \notin Routeless /\ profile.backend]

(* The scope names the platform, and the platform "api" decides the        *)
(* category whenever the scope is classified again: a pipeline becomes an  *)
(* API service between the expansion and the plan.                         *)
PlannedCategory(idea) ==
  IF Platform(idea) = "api" THEN "api_service" ELSE idea.category

PlannedProfile(idea) == Profile(PlannedCategory(idea), idea)

-----------------------------------------------------------------------------
(* ArchitecturePlanner *)

ImplementationStages(category) ==
  CASE category = "browser_extension" -> {"extension_core", "popup_ui", "content_scripts"}
    [] category = "cli_tool"          -> {"cli_core", "commands", "tests"}
    [] category = "portfolio_website" -> {"static_site", "content_sections"}
    [] category = "multiplayer_game"  -> {"shared_protocol", "game_server", "game_client", "tests"}
    [] category = "research_platform" -> {"database", "backend", "search", "frontend", "tests"}
    [] category = "api_service"       -> {"api_core", "routes", "tests"}
    [] category = "sports_analytics"  -> {"database", "backend", "analytics_api", "frontend", "tests"}
    [] OTHER                          -> {"database", "backend", "frontend", "tests"}

(* The validation profile of a blueprint: which parts it has checked. *)
Serverless == {"browser_extension", "cli_tool", "portfolio_website"}

Checks(profile) ==
  LET c == profile.category
      complete == c \in {"marketplace", "research_platform", "sports_analytics"}
  IN  [frontend |-> \/ complete
                    \/ c \notin Serverless \cup {"multiplayer_game", "api_service"} /\ profile.frontend,
       backend  |-> \/ complete \/ c \in {"multiplayer_game", "api_service"}
                    \/ c \notin Serverless /\ profile.backend,
       database |-> \/ complete
                    \/ c \in Categories \ (Serverless \cup {"multiplayer_game"}) /\ profile.database,
       seed     |-> \/ c \in {"marketplace", "sports_analytics"}
                    \/ c \notin Serverless \cup {"api_service"} /\ profile.database]

(* architecture_plan_to_repo_plan: the stages of the blueprint become      *)
(* lines of prose, what generation reads as implementation_stages is not   *)
(* in the plan.                                                            *)
RepoPlan(idea) == [stages |-> {}, checks |-> Checks(PlannedProfile(idea))]

-----------------------------------------------------------------------------
(* The stages of generation *)

Stages == {"database", "backend", "frontend", "docs", "demo"}

StageHints ==
  [database |-> {"database"},
   backend  |-> {"backend", "cli_core", "commands", "analytics_api", "extension_core",
                 "content_scripts", "game_server", "api"},
   frontend |-> {"frontend", "static_site", "content_sections", "popup_ui", "game_client"}]

Hinted(stages, part) == stages \cap StageHints[part] # {}

GenerationStages(plan, hackathon) ==
  LET Included(part) ==
        IF plan.stages # {} THEN Hinted(plan.stages, part) ELSE plan.checks[part]
      Only(stage, included) == IF included THEN <<stage>> ELSE <<>>
  IN  Only("database", Included("database")) \o Only("backend", Included("backend"))
      \o Only("frontend", Included("frontend")) \o <<"docs">> \o Only("demo", hackathon)

NonEmpty(stages, otherwise) == IF stages = {} THEN otherwise ELSE stages

Simplified(plan) ==
  LET dropped == {"database", "frontend", "analytics_api", "popup_ui", "content_scripts"}
  IN  [stages |-> NonEmpty(plan.stages \ dropped, plan.stages),
       checks |-> [plan.checks EXCEPT !.database = FALSE]]

Minimal(plan) ==
  LET kept == {"docs", "demo", "cli_core", "commands", "api_core", "routes", "static_site"}
  IN  [stages |-> NonEmpty(plan.stages \cap kept, {"docs", "demo"}),
       checks |-> [plan.checks EXCEPT !.frontend = FALSE]]

(* The attempts of run_staged_generation. *)
AttemptPlans(plan) == <<plan, Simplified(plan), Minimal(plan)>>
=============================================================================
