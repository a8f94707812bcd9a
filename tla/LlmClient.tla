---- MODULE LlmClient ----
(***************************************************************************)
(* One structured call of the model client: ProviderModelClient.           *)
(* complete_structured with its retries and its degraded output, over      *)
(* generate_json of the provider facade, which asks a second provider when *)
(* the first one answers with an error.                                    *)
(*                                                                         *)
(* The settings a call depends on are chosen once, with every combination  *)
(* of keys and switches that an environment and a .env file can produce:   *)
(* Settings reads both, os.getenv in the facade only the environment.      *)
(*                                                                         *)
(* FallbackUnchecked, WithoutLiveOutputAnyway, AnotherAttemptInclusive and *)
(* AfterErrorAsRefusal are the definitions after them with a plausible     *)
(* bug; README.md names what each breaks.                                  *)
(***************************************************************************)
EXTENDS Naturals

CONSTANTS
    LlmMaxRetries,           \* LLM_MAX_RETRIES
    FileManifestMaxRetries,  \* LLM_FILE_MANIFEST_MAX_RETRIES
    RepoPlanMaxRetries,      \* LLM_REPO_PLAN_MAX_RETRIES
    FastFallbackMaxRetries   \* LLM_FAST_FALLBACK_MAX_RETRIES

ASSUME RetriesAssumption ==
    /\ LlmMaxRetries \in Nat
    /\ FileManifestMaxRetries \in Nat
    /\ RepoPlanMaxRetries \in Nat
    /\ FastFallbackMaxRetries \in Nat

VARIABLES
    settings,  \* the configuration the call is made under
    purpose,   \* what the call is for
    call       \* the progress of complete_structured

vars == <<settings, purpose, call>>

\* "gemini" stands for the two providers that may be backed by groq.
Providers == {"gemini", "groq"}
NoProvider == "none"

\* The purposes whose limits differ; "other" stands for all the rest.
Purposes == {"file_manifest", "plan_repo", "other"}

Settings == [
    provider: Providers,       \* LLM_PROVIDER
    keys: SUBSET Providers,    \* the providers with an API key in Settings
    exported: BOOLEAN,         \* those keys are in the process environment too
    allowPartial: BOOLEAN,     \* Settings.allow_idea_aware_partial
    envPartial: BOOLEAN,       \* ALLOW_IDEA_AWARE_PARTIAL in the environment
    fastFallback: BOOLEAN,     \* LLM_FAST_FALLBACK
    liveManifest: BOOLEAN]     \* REQUIRE_LIVE_FILE_MANIFEST

\* What one request can come to. "fits" and "misfit" are JSON that does and
\* does not validate against the response model; "faulty" is an error worth
\* a retry (429, a server error, no text, broken JSON), "refused" any other
\* error status or an answer of another shape, "lost" a timeout or a
\* transport error.
Replies == {"fits", "misfit", "faulty", "refused", "lost"}

Phases == {"start", "asking", "backoff", "done"}

----
(* Settings *)

LlmConfigured ==
    \/ settings.provider \in settings.keys
    \/ settings.provider # "groq" /\ "groq" \in settings.keys

FastFallbackActive == settings.allowPartial /\ settings.fastFallback

EffectiveMaxRetries ==
    IF FastFallbackActive THEN FastFallbackMaxRetries ELSE LlmMaxRetries

AtLeast(m, n) == IF m > n THEN m ELSE n

MaxRetriesFor(p) ==
    CASE p = "file_manifest" -> AtLeast(EffectiveMaxRetries, FileManifestMaxRetries)
      [] p = "plan_repo" -> AtLeast(EffectiveMaxRetries, RepoPlanMaxRetries)
      [] p = "other" -> EffectiveMaxRetries

AllowsPartialFallback ==
    /\ settings.allowPartial
    /\ ~(purpose = "file_manifest" /\ settings.liveManifest /\ LlmConfigured)

----
(* The provider facade: whom generate_json asks, and whom after an error. *)

EnvKeys == IF settings.exported THEN settings.keys ELSE {}

FallbackUnchecked ==
    IF settings.provider # "groq" /\ (settings.allowPartial \/ settings.envPartial)
    THEN "groq"
    ELSE NoProvider

\* The options name groq as the fallback only where partial output is
\* allowed; without them the facade looks at the environment itself.
FallbackProvider ==
    IF /\ settings.provider # "groq"
       /\ \/ settings.allowPartial /\ "groq" \in settings.keys
          \/ settings.envPartial /\ "groq" \in EnvKeys
    THEN "groq"
    ELSE NoProvider

FirstProvider ==
    IF settings.provider \in settings.keys THEN settings.provider ELSE FallbackProvider

NextProvider(p) ==
    IF p = settings.provider THEN FallbackProvider ELSE NoProvider

----
(* The call *)

Calls == [
    phase: Phases,
    attempt: Nat,
    asking: Providers \cup {NoProvider},
    asked: SUBSET Providers,   \* the providers a request was sent to
    requests: Nat,             \* the requests sent so far
    last: Replies \cup {"none"},
    result: {"none", "live", "degraded", "error"}]

Init ==
    /\ settings \in Settings
    /\ purpose \in Purposes
    /\ call = [phase |-> "start", attempt |-> 0, asking |-> NoProvider, asked |-> {},
               requests |-> 0, last |-> "none", result |-> "none"]

\* The operators below take the call c as it stands and give it back changed.
Ended(c, result) == [c EXCEPT !.phase = "done", !.asking = NoProvider, !.result = result]

WithoutLiveOutputAnyway(c) ==
    Ended(c, IF settings.allowPartial THEN "degraded" ELSE "error")

WithoutLiveOutput(c) == Ended(c, IF AllowsPartialFallback THEN "degraded" ELSE "error")

Asking(c, p) == [c EXCEPT !.phase = "asking", !.asking = p]

\* Resolving the options raises MissingLLMApiKeyError, which is not retried,
\* when neither the provider nor a fallback has a key.
Attempt(c) ==
    IF FirstProvider = NoProvider THEN WithoutLiveOutput(c) ELSE Asking(c, FirstProvider)

AnotherAttemptInclusive(c) ==
    IF c.attempt <= MaxRetriesFor(purpose)
    THEN [c EXCEPT !.phase = "backoff", !.asking = NoProvider]
    ELSE WithoutLiveOutput(c)

\* The loop over the attempts goes on, or the last one has failed.
AnotherAttempt(c) ==
    IF c.attempt < MaxRetriesFor(purpose)
    THEN [c EXCEPT !.phase = "backoff", !.asking = NoProvider]
    ELSE WithoutLiveOutput(c)

AfterErrorAsRefusal(c, retryable) ==
    IF NextProvider(c.asking) # NoProvider THEN Asking(c, NextProvider(c.asking))
    ELSE WithoutLiveOutput(c)

\* An error of the provider that was asked, one worth a retry or not: the
\* facade asks the next provider within the same attempt, if there is one.
AfterError(c, retryable) ==
    IF NextProvider(c.asking) # NoProvider THEN Asking(c, NextProvider(c.asking))
    ELSE IF retryable THEN AnotherAttempt(c) ELSE WithoutLiveOutput(c)

Begin ==
    /\ call.phase = "start"
    /\ call' = IF LlmConfigured THEN Attempt(call) ELSE WithoutLiveOutput(call)
    /\ UNCHANGED <<settings, purpose>>

Replied(r) == [call EXCEPT
    !.asked = @ \cup {call.asking}, !.requests = @ + 1, !.last = r]

Reply(r) ==
    /\ call.phase = "asking"
    /\ call' = CASE r = "fits" -> Ended(Replied(r), "live")
                 [] r \in {"misfit", "lost"} -> AnotherAttempt(Replied(r))
                 [] r \in {"faulty", "refused"} -> AfterError(Replied(r), r = "faulty")
    /\ UNCHANGED <<settings, purpose>>

\* The pause before the next attempt is over; it asks the first provider again.
Retry ==
    /\ call.phase = "backoff"
    /\ call' = Attempt([call EXCEPT !.attempt = @ + 1])
    /\ UNCHANGED <<settings, purpose>>

Finished == call.phase = "done" /\ UNCHANGED vars

Step == Begin \/ Retry \/ \E r \in Replies : Reply(r)

Next == Step \/ Finished

Spec == Init /\ [][Next]_vars

\* Every request has a timeout and every pause is bounded.
FairSpec == Spec /\ WF_vars(Step)

----
(* Properties *)

\* Every variable has its type; a call that is over is asking nobody and has a
\* result, and one that is not over has none.
TypeOK ==
    /\ settings \in Settings
    /\ purpose \in Purposes
    /\ call \in Calls
    /\ (call.phase = "asking") <=> (call.asking # NoProvider)
    /\ (call.phase = "done") <=> (call.result # "none")

RequestsPerAttempt ==
    IF FirstProvider # settings.provider \/ FallbackProvider = NoProvider THEN 1 ELSE 2

\* The retries of the client and the fallback of the facade multiply, and no
\* more than that: however the replies mix, a call sends at most one request
\* per attempt, two where a fallback stands behind a configured provider.
RequestsBounded == call.requests <= RequestsPerAttempt * (MaxRetriesFor(purpose) + 1)

\* No key, no request: a provider is asked only while the settings hold a key
\* for it, also one that the environment and not the options brought in.
AskedOnlyWithAKey == call.asked \cup {call.asking} \subseteq settings.keys \cup {NoProvider}

\* A call gives up on live output only for a reason: nobody can be asked, the
\* attempts are used up, or the last answer is a refusal with nobody behind who
\* was not asked. A timeout, a server error or an output that does not fit never
\* ends it early, nor does a refusal that another provider could make good.
GivesUpForAReason ==
    call.result \in {"degraded", "error"} =>
        \/ FirstProvider = NoProvider
        \/ call.attempt = MaxRetriesFor(purpose)
        \/ call.last = "refused" /\ FallbackProvider \in call.asked \cup {NoProvider}

\* The kinds of result the settings permit: live output if somebody can be
\* asked, and exactly one of the two ways to do without it.
PermittedResults ==
    (IF LlmConfigured /\ FirstProvider # NoProvider THEN {"live"} ELSE {})
        \cup {IF AllowsPartialFallback THEN "degraded" ELSE "error"}

Promise == INSTANCE StructuredCall WITH permitted <- PermittedResults, result <- call.result

\* However complete_structured gets to its end, through five places that fall
\* back or raise, it keeps what the workflow relies on: strict settings never
\* produce degraded output, permissive ones never raise, and the call returns.
KeepsThePromise == Promise!CallFairSpec

\* README.md:62: "Groq is used as a low-latency fallback for structured calls
\* when `GROQ_API_KEY` is set." A call that ends without live output has asked
\* groq, if groq has a key.
GroqStandsIn ==
    call.result \in {"degraded", "error"} /\ "groq" \in settings.keys => "groq" \in call.asked

====
