-------------------------- MODULE LlmClientProofs --------------------------
(***************************************************************************)
(* Theorems about LlmClient, for any limits on the retries.                *)
(***************************************************************************)
EXTENDS LlmClient, TLAPS

-----------------------------------------------------------------------------
(* What is chosen at the start stays as it is. *)

LEMMA SettingsStay ==
  ASSUME UNCHANGED <<settings, purpose>>
  PROVE  /\ FirstProvider' = FirstProvider
         /\ FallbackProvider' = FallbackProvider
         /\ MaxRetriesFor(purpose)' = MaxRetriesFor(purpose)
         /\ RequestsPerAttempt' = RequestsPerAttempt
         /\ AllowsPartialFallback' = AllowsPartialFallback
         /\ LlmConfigured' = LlmConfigured
BY DEF FirstProvider, FallbackProvider, EnvKeys, MaxRetriesFor, EffectiveMaxRetries,
       FastFallbackActive, RequestsPerAttempt, AllowsPartialFallback, LlmConfigured

LEMMA StepKeepsSettings == Next => UNCHANGED <<settings, purpose>>
BY DEF Next, Step, Begin, Retry, Reply, Finished, vars

LEMMA LimitsType ==
  ASSUME purpose \in Purposes
  PROVE  MaxRetriesFor(purpose) \in Nat
BY RetriesAssumption
   DEF MaxRetriesFor, EffectiveMaxRetries, AtLeast, Purposes

LEMMA ProvidersType ==
  ASSUME settings \in Settings
  PROVE  /\ settings.provider \in Providers
         /\ settings.keys \subseteq Providers
         /\ FallbackProvider \in {"groq", NoProvider}
         /\ FallbackProvider # NoProvider => settings.provider # "groq" /\ "groq" \in settings.keys
         /\ FirstProvider \in settings.keys \cup {NoProvider}
         /\ NoProvider \notin Providers
         /\ RequestsPerAttempt \in {1, 2}
BY DEF Settings, FallbackProvider, EnvKeys, FirstProvider, Providers, NoProvider,
       RequestsPerAttempt

-----------------------------------------------------------------------------
(* The requests of n attempts; written without a product. *)
RequestsOf(n) == IF RequestsPerAttempt = 1 THEN n ELSE n + n

(* What is so of a call in every phase. *)
Sound(c) ==
  /\ c \in Calls
  /\ c.attempt <= MaxRetriesFor(purpose)
  /\ c.asked \subseteq settings.keys
  /\ FirstProvider = NoProvider => c.asked = {}
  /\ c.requests <= RequestsOf(c.attempt + 1)

HasAReason(c) ==
  \/ FirstProvider = NoProvider
  \/ c.attempt = MaxRetriesFor(purpose)
  \/ c.last = "refused" /\ FallbackProvider \in c.asked \cup {NoProvider}

(* Who is asked is the first provider, or the one behind it.  The requests *)
(* sent before are those of the attempts before, and one more when the     *)
(* first provider of this attempt has answered.                            *)
Expects(c) ==
  \/ c.asking = FirstProvider /\ c.requests <= RequestsOf(c.attempt)
  \/ /\ c.asking = FallbackProvider
     /\ FirstProvider = settings.provider
     /\ c.requests <= RequestsOf(c.attempt) + 1

Good(c) ==
  /\ Sound(c)
  /\ (c.phase = "asking") <=> (c.asking # NoProvider)
  /\ (c.phase = "done") <=> (c.result # "none")
  /\ c.phase = "start" => c.requests = 0 /\ c.attempt = 0 /\ c.asked = {}
  /\ c.phase = "asking" => Expects(c)
  /\ c.phase = "backoff" => c.attempt < MaxRetriesFor(purpose)
  /\ c.result \in {"degraded", "error"} => HasAReason(c)

LlmInv == settings \in Settings /\ purpose \in Purposes /\ Good(call)

LEMMA LlmInit == Init => LlmInv
<1> SUFFICES ASSUME Init
             PROVE  LlmInv
  OBVIOUS
<1>1. settings \in Settings /\ purpose \in Purposes
  BY DEF Init
<1>2. Sound(call)
  BY <1>1, LimitsType, ProvidersType
     DEF Init, Sound, Calls, Phases, NoProvider, Replies, RequestsOf
<1> QED
  BY <1>1, <1>2 DEF Init, LlmInv, Good, NoProvider

(* The settings stay, and with them what a good call is. *)
LEMMA GoodStays ==
  ASSUME LlmInv, UNCHANGED <<settings, purpose>>, Good(call')
  PROVE  LlmInv'
BY SettingsStay
   DEF LlmInv, Good, Sound, HasAReason, Expects, RequestsOf

-----------------------------------------------------------------------------
(* The ways a call goes on, each from a call c that is sound. *)

LEMMA EndedGood ==
  ASSUME settings \in Settings, purpose \in Purposes, NEW c, Sound(c),
         NEW result \in {"live", "degraded", "error"},
         result \in {"degraded", "error"} => HasAReason(c)
  PROVE  Good(Ended(c, result))
<1> DEFINE d == Ended(c, result)
<1>1. /\ d \in Calls
      /\ d.phase = "done" /\ d.asking = NoProvider /\ d.result = result
      /\ d.attempt = c.attempt /\ d.asked = c.asked /\ d.requests = c.requests /\ d.last = c.last
  BY DEF Ended, Sound, Calls, Phases
<1> HIDE DEF d
<1>2. Good(d)
  BY <1>1 DEF Good, Sound, HasAReason
<1> QED
  BY <1>2 DEF d

LEMMA WithoutLiveOutputGood ==
  ASSUME settings \in Settings, purpose \in Purposes, NEW c, Sound(c), HasAReason(c)
  PROVE  Good(WithoutLiveOutput(c))
BY EndedGood DEF WithoutLiveOutput

LEMMA AskingGood ==
  ASSUME settings \in Settings, purpose \in Purposes, NEW c, Sound(c),
         c.result = "none", NEW p \in Providers,
         \/ p = FirstProvider /\ c.requests <= RequestsOf(c.attempt)
         \/ /\ p = FallbackProvider
            /\ FirstProvider = settings.provider
            /\ c.requests <= RequestsOf(c.attempt) + 1
  PROVE  Good(Asking(c, p))
<1> DEFINE d == Asking(c, p)
<1>1. /\ d \in Calls
      /\ d.phase = "asking" /\ d.asking = p /\ d.result = "none"
      /\ d.attempt = c.attempt /\ d.asked = c.asked /\ d.requests = c.requests /\ d.last = c.last
  BY DEF Asking, Sound, Calls, Phases
<1> HIDE DEF d
<1>2. p # NoProvider
  BY DEF Providers, NoProvider
<1>3. Good(d)
  BY <1>1, <1>2 DEF Good, Sound, Expects
<1> QED
  BY <1>3 DEF d

LEMMA AttemptGood ==
  ASSUME settings \in Settings, purpose \in Purposes, NEW c, Sound(c),
         c.result = "none", c.requests <= RequestsOf(c.attempt)
  PROVE  Good(Attempt(c))
<1>1. CASE FirstProvider = NoProvider
  BY <1>1, WithoutLiveOutputGood DEF Attempt, Sound, HasAReason
<1>2. CASE FirstProvider # NoProvider
  <2>1. FirstProvider \in Providers
    BY <1>2, ProvidersType
  <2> QED
    BY <1>2, <2>1, AskingGood DEF Attempt
<1> QED
  BY <1>1, <1>2

LEMMA AnotherAttemptGood ==
  ASSUME settings \in Settings, purpose \in Purposes, NEW c, Sound(c), c.result = "none"
  PROVE  Good(AnotherAttempt(c))
<1>1. CASE c.attempt < MaxRetriesFor(purpose)
  <2> DEFINE d == [c EXCEPT !.phase = "backoff", !.asking = NoProvider]
  <2>1. /\ d \in Calls
        /\ d.phase = "backoff" /\ d.asking = NoProvider /\ d.result = "none"
        /\ d.attempt = c.attempt /\ d.asked = c.asked /\ d.requests = c.requests
    BY DEF Sound, Calls, Phases
  <2> HIDE DEF d
  <2>2. Good(d)
    BY <1>1, <2>1 DEF Good, Sound
  <2> QED
    BY <1>1, <2>2 DEF AnotherAttempt, d
<1>2. CASE ~(c.attempt < MaxRetriesFor(purpose))
  <2>1. c.attempt = MaxRetriesFor(purpose)
    BY <1>2, LimitsType DEF Sound, Calls
  <2> QED
    BY <1>2, <2>1, WithoutLiveOutputGood DEF AnotherAttempt, HasAReason
<1> QED
  BY <1>1, <1>2

-----------------------------------------------------------------------------
(* The actions *)

LEMMA BeginInv ==
  ASSUME LlmInv, Begin
  PROVE  LlmInv'
<1>1. Sound(call) /\ call.result = "none" /\ call.asked = {}
  BY DEF LlmInv, Begin, Good
<1>2. call.requests <= RequestsOf(call.attempt)
  BY DEF LlmInv, Begin, Good, RequestsOf
<1>3. CASE LlmConfigured
  BY <1>1, <1>2, <1>3, AttemptGood, GoodStays DEF LlmInv, Begin
<1>4. CASE ~LlmConfigured
  <2>1. FirstProvider = NoProvider
    BY <1>4, ProvidersType DEF LlmInv, FirstProvider, LlmConfigured
  <2> QED
    BY <1>1, <1>4, <2>1, WithoutLiveOutputGood, GoodStays DEF LlmInv, Begin, HasAReason
<1> QED
  BY <1>3, <1>4

LEMMA RetryInv ==
  ASSUME LlmInv, Retry
  PROVE  LlmInv'
<1> DEFINE c == [call EXCEPT !.attempt = @ + 1]
<1>1. /\ Sound(call) /\ call.result = "none"
      /\ call.attempt < MaxRetriesFor(purpose)
  BY DEF LlmInv, Retry, Good
<1>2. /\ c \in Calls
      /\ c.attempt = call.attempt + 1 /\ c.result = "none"
      /\ c.asked = call.asked /\ c.requests = call.requests
  BY <1>1 DEF Sound, Calls
<1>3. call' = Attempt(c)
  BY DEF Retry
<1> HIDE DEF c
<1>4. MaxRetriesFor(purpose) \in Nat /\ call.attempt \in Nat /\ call.requests \in Nat
  BY <1>1, LimitsType DEF LlmInv, Sound, Calls
<1>5. /\ c.attempt <= MaxRetriesFor(purpose)
      /\ c.requests <= RequestsOf(c.attempt)
      /\ c.requests <= RequestsOf(c.attempt + 1)
  BY <1>1, <1>2, <1>4 DEF Sound, RequestsOf
<1>6. Sound(c)
  BY <1>1, <1>2, <1>5 DEF Sound
<1>7. Good(call')
  BY <1>2, <1>3, <1>5, <1>6, AttemptGood DEF LlmInv
<1> QED
  BY <1>7, GoodStays DEF Retry

LEMMA ReplyInv ==
  ASSUME LlmInv, NEW r \in Replies, Reply(r)
  PROVE  LlmInv'
<1> DEFINE c == Replied(r)
           n == NextProvider(call.asking)
<1>1. /\ settings \in Settings /\ purpose \in Purposes
      /\ Sound(call) /\ Expects(call) /\ call.result = "none"
      /\ call.asking # NoProvider
  BY DEF LlmInv, Reply, Good
<1>2. call.asking \in settings.keys /\ call.asking \in Providers
  BY <1>1, ProvidersType DEF Expects
<1>3. /\ c \in Calls
      /\ c.attempt = call.attempt /\ c.result = "none" /\ c.asking = call.asking
      /\ c.asked = call.asked \cup {call.asking}
      /\ c.requests = call.requests + 1 /\ c.last = r
  <2>1. call \in Calls
    BY <1>1 DEF Sound
  <2>2. call.asked \cup {call.asking} \in SUBSET Providers
    BY <1>2, <2>1 DEF Calls
  <2>3. call.requests + 1 \in Nat
    BY <2>1 DEF Calls
  <2>4. c = [call EXCEPT !.asked = call.asked \cup {call.asking},
                         !.requests = call.requests + 1, !.last = r]
    BY DEF Replied
  <2> HIDE DEF c
  <2>5. c \in Calls
    BY <2>1, <2>2, <2>3, <2>4 DEF Calls
  <2> QED
    BY <1>1, <2>1, <2>4, <2>5 DEF Calls
<1>4. c.requests <= RequestsOf(c.attempt + 1)
  BY <1>1, <1>3, ProvidersType DEF Expects, Sound, Calls, RequestsOf, RequestsPerAttempt
<1>5. FirstProvider # NoProvider
  BY <1>1, <1>2, ProvidersType DEF Expects, FirstProvider
<1>6. Sound(c)
  BY <1>1, <1>2, <1>3, <1>4, <1>5 DEF Sound
<1>7. \/ r = "fits" /\ call' = Ended(c, "live")
      \/ call' = AnotherAttempt(c)
      \/ r \in {"faulty", "refused"} /\ call' = AfterError(c, r = "faulty")
  BY DEF Reply, Replies
<1> HIDE DEF c
<1>8. CASE call' = Ended(c, "live")
  <2>1. Good(Ended(c, "live"))
    BY <1>1, <1>6, EndedGood
  <2> QED
    BY <1>8, <2>1, GoodStays DEF Reply
<1>9. CASE call' = AnotherAttempt(c)
  <2>1. Good(AnotherAttempt(c))
    BY <1>1, <1>3, <1>6, AnotherAttemptGood
  <2> QED
    BY <1>9, <2>1, GoodStays DEF Reply
<1>10. CASE n # NoProvider /\ call' = Asking(c, n)
  <2>1. /\ n = FallbackProvider /\ n \in Providers
        /\ call.asking = settings.provider /\ FallbackProvider # call.asking
    BY <1>1, <1>10, ProvidersType DEF NextProvider, Providers
  <2>2. FirstProvider = settings.provider /\ call.requests <= RequestsOf(call.attempt)
    BY <1>1, <1>2, <2>1, ProvidersType DEF Expects, FirstProvider
  <2>3. c.requests <= RequestsOf(c.attempt) + 1
    BY <1>1, <1>3, <2>2 DEF Sound, Calls, RequestsOf
  <2> HIDE DEF n
  <2>4. Good(Asking(c, n))
    BY <1>1, <1>3, <1>6, <2>1, <2>2, <2>3, AskingGood
  <2> QED
    BY <1>10, <2>4, GoodStays DEF Reply
<1>11. CASE n = NoProvider /\ r = "refused" /\ call' = WithoutLiveOutput(c)
  <2>1. FallbackProvider \in {call.asking, NoProvider}
    BY <1>1, <1>11, ProvidersType DEF NextProvider, Expects, FirstProvider
  <2>2. HasAReason(c)
    BY <1>3, <1>11, <2>1 DEF HasAReason
  <2>3. Good(WithoutLiveOutput(c))
    BY <1>1, <1>6, <2>2, WithoutLiveOutputGood
  <2> QED
    BY <1>11, <2>3, GoodStays DEF Reply
<1>12. CASE r \in {"faulty", "refused"} /\ call' = AfterError(c, r = "faulty")
  <2>1. CASE n # NoProvider
    BY <1>3, <1>10, <1>12, <2>1 DEF AfterError
  <2>2. CASE n = NoProvider /\ r = "faulty"
    BY <1>3, <1>9, <1>12, <2>2 DEF AfterError
  <2>3. CASE n = NoProvider /\ r = "refused"
    BY <1>3, <1>11, <1>12, <2>3 DEF AfterError
  <2> QED
    BY <1>12, <2>1, <2>2, <2>3
<1> QED
  BY <1>7, <1>8, <1>9, <1>12

LEMMA LlmStep == LlmInv /\ [Next]_vars => LlmInv'
<1> SUFFICES ASSUME LlmInv, [Next]_vars
             PROVE  LlmInv'
  OBVIOUS
<1>1. CASE UNCHANGED vars
  <2>1. Good(call') /\ UNCHANGED <<settings, purpose>>
    BY <1>1 DEF vars, LlmInv
  <2> QED
    BY <2>1, GoodStays
<1> QED
  BY <1>1, BeginInv, RetryInv, ReplyInv DEF Next, Step, Finished

LEMMA LlmInvImplies ==
  LlmInv => TypeOK /\ RequestsBounded /\ AskedOnlyWithAKey /\ GivesUpForAReason
<1> SUFFICES ASSUME LlmInv
             PROVE  TypeOK /\ RequestsBounded /\ AskedOnlyWithAKey /\ GivesUpForAReason
  OBVIOUS
<1>1. Sound(call) /\ settings \in Settings /\ purpose \in Purposes
  BY DEF LlmInv, Good
<1>2. TypeOK /\ GivesUpForAReason
  BY DEF LlmInv, Good, Sound, TypeOK, GivesUpForAReason, HasAReason
<1>3. AskedOnlyWithAKey
  <2>1. call.asking = NoProvider \/ Expects(call)
    BY DEF LlmInv, Good
  <2> QED
    BY <1>1, <2>1, ProvidersType DEF Sound, Expects, AskedOnlyWithAKey
<1>4. RequestsBounded
  <2>1. /\ call.attempt \in Nat /\ call.requests \in Nat
        /\ call.attempt <= MaxRetriesFor(purpose)
        /\ MaxRetriesFor(purpose) \in Nat
        /\ call.requests <= RequestsOf(call.attempt + 1)
    BY <1>1, LimitsType DEF Sound, Calls
  <2>2. CASE RequestsPerAttempt = 1
    <3>1. call.requests <= MaxRetriesFor(purpose) + 1
      BY <2>1, <2>2 DEF RequestsOf
    <3> QED
      BY <2>1, <2>2, <3>1 DEF RequestsBounded
  <2>3. CASE RequestsPerAttempt = 2
    <3>1. call.requests <= 2 * (MaxRetriesFor(purpose) + 1)
      BY <2>1, <2>3 DEF RequestsOf
    <3> QED
      BY <2>3, <3>1 DEF RequestsBounded
  <2> QED
    BY <1>1, <2>2, <2>3, ProvidersType
<1> QED
  BY <1>2, <1>3, <1>4

-----------------------------------------------------------------------------
(* Whatever the limits, a call that is over is asking nobody and has one   *)
(* result, and one that is not over has none.                              *)
THEOREM TypeCorrect == Spec => []TypeOK
BY LlmInit, LlmStep, LlmInvImplies, PTL DEF Spec

(* Whatever the limits, the retries of the client and the fallback of the  *)
(* facade send no more requests than their product.                        *)
THEOREM RequestsAreBounded == Spec => []RequestsBounded
BY LlmInit, LlmStep, LlmInvImplies, PTL DEF Spec

(* A provider is asked only while the settings hold a key for it. *)
THEOREM KeysAreNeeded == Spec => []AskedOnlyWithAKey
BY LlmInit, LlmStep, LlmInvImplies, PTL DEF Spec

(* A call gives up on live output only for a reason. *)
THEOREM GivingUpHasAReason == Spec => []GivesUpForAReason
BY LlmInit, LlmStep, LlmInvImplies, PTL DEF Spec

-----------------------------------------------------------------------------
(* The call is one step of what the workflow is promised. *)

LEMMA PermittedStay ==
  ASSUME UNCHANGED <<settings, purpose>>
  PROVE  PermittedResults' = PermittedResults
BY SettingsStay DEF PermittedResults

LEMMA PermittedKinds ==
  ASSUME LlmInv
  PROVE  /\ (IF AllowsPartialFallback THEN "degraded" ELSE "error") \in PermittedResults
         /\ FirstProvider # NoProvider => "live" \in PermittedResults
<1>1. FirstProvider # NoProvider => LlmConfigured
  BY ProvidersType DEF LlmInv, FirstProvider, LlmConfigured
<1> QED
  BY <1>1 DEF PermittedResults

LEMMA PromiseInit == Init => Promise!CallInit
<1>1. PermittedResults \subseteq Promise!Results /\ PermittedResults # {}
  BY DEF PermittedResults, Promise!Results
<1> QED
  BY <1>1 DEF Init, Promise!CallInit

(* A call changes its result once, to one of those permitted. *)
LEMMA ResultOnce ==
  ASSUME LlmInv, Next
  PROVE  \/ call'.result = call.result
         \/ call.result = "none" /\ call'.result \in PermittedResults
<1> DEFINE w == IF AllowsPartialFallback THEN "degraded" ELSE "error"
<1>1. call \in Calls
  BY DEF LlmInv, Good, Sound
<1>2. ASSUME NEW c \in Calls, c.result = call.result
      PROVE  /\ WithoutLiveOutput(c).result = w
             /\ Ended(c, "live").result = "live"
             /\ Attempt(c).result \in {call.result, w}
             /\ AnotherAttempt(c).result \in {call.result, w}
             /\ \A retryable : AfterError(c, retryable).result \in {call.result, w}
  <2>1. WithoutLiveOutput(c).result = w
    BY <1>2 DEF WithoutLiveOutput, Ended, Calls
  <2>2. Ended(c, "live").result = "live"
    BY <1>2 DEF Ended, Calls
  <2>3. \A p : Asking(c, p).result = call.result
    BY <1>2 DEF Asking, Calls
  <2>4. AnotherAttempt(c).result \in {call.result, w}
    BY <1>2, <2>1 DEF AnotherAttempt, Calls
  <2>5. Attempt(c).result \in {call.result, w}
    BY <2>1, <2>3 DEF Attempt
  <2>6. \A retryable : AfterError(c, retryable).result \in {call.result, w}
    BY <2>1, <2>3, <2>4 DEF AfterError
  <2> QED
    BY <2>1, <2>2, <2>4, <2>5, <2>6
<1>3. CASE Begin
  <2>1. call.result = "none"
    BY <1>3 DEF LlmInv, Good, Begin
  <2>2. call'.result \in {call.result, w}
    BY <1>1, <1>2, <1>3 DEF Begin
  <2> QED
    BY <2>1, <2>2, PermittedKinds
<1>4. CASE Retry
  <2>1. call.result = "none"
    BY <1>4 DEF LlmInv, Good, Retry
  <2> DEFINE c == [call EXCEPT !.attempt = @ + 1]
  <2>2. c \in Calls /\ c.result = call.result /\ call' = Attempt(c)
    BY <1>1, <1>4 DEF Retry, Calls
  <2> HIDE DEF c
  <2>3. call'.result \in {call.result, w}
    BY <1>2, <2>2
  <2> QED
    BY <2>1, <2>3, PermittedKinds
<1>5. ASSUME NEW r \in Replies, Reply(r)
      PROVE  call.result = "none" /\ call'.result \in {call.result} \cup PermittedResults
  <2> DEFINE c == Replied(r)
  <2>1. call.result = "none" /\ Expects(call) /\ call.asking # NoProvider
    BY <1>5 DEF LlmInv, Good, Reply
  <2>2. FirstProvider # NoProvider
    BY <2>1, ProvidersType DEF LlmInv, Expects, FirstProvider
  <2>3. call.asking \in Providers
    BY <2>1, ProvidersType DEF LlmInv, Expects
  <2>4. c \in Calls /\ c.result = call.result
    <3>1. call.asked \cup {call.asking} \in SUBSET Providers
      BY <1>1, <2>3 DEF Calls
    <3>2. call.requests + 1 \in Nat
      BY <1>1 DEF Calls
    <3>3. c = [call EXCEPT !.asked = call.asked \cup {call.asking},
                           !.requests = call.requests + 1, !.last = r]
      BY DEF Replied
    <3> HIDE DEF c
    <3> QED
      BY <1>1, <1>5, <3>1, <3>2, <3>3 DEF Calls
  <2>5. \/ call' = Ended(c, "live")
        \/ call' = AnotherAttempt(c)
        \/ call' = AfterError(c, r = "faulty")
    BY <1>5 DEF Reply, Replies
  <2> HIDE DEF c
  <2>6. call'.result \in {call.result, w, "live"}
    BY <1>2, <2>4, <2>5
  <2> QED
    BY <2>1, <2>2, <2>6, PermittedKinds
<1>6. CASE Finished
  BY <1>6 DEF Finished, vars
<1> QED
  BY <1>3, <1>4, <1>5, <1>6 DEF Next, Step

LEMMA PromiseStep ==
  LlmInv /\ [Next]_vars => [Promise!Answer]_(Promise!callVars)
<1> SUFFICES ASSUME LlmInv, [Next]_vars
             PROVE  [Promise!Answer]_(Promise!callVars)
  OBVIOUS
<1>1. PermittedResults' = PermittedResults
  BY StepKeepsSettings, PermittedStay DEF vars
<1>2. CASE UNCHANGED vars
  BY <1>1, <1>2 DEF vars, Promise!callVars
<1>3. CASE Next
  BY <1>1, <1>3, ResultOnce DEF Promise!Answer, Promise!callVars
<1> QED
  BY <1>2, <1>3

(* Whatever the limits and the replies, a call has one result, of a kind   *)
(* the settings permit; that it has one at last is checked, not proved.    *)
THEOREM ImplementsTheCall == Spec => Promise!CallSpec
BY LlmInit, LlmStep, PromiseInit, PromiseStep, PTL DEF Spec, Promise!CallSpec
=============================================================================
