SPECIFICATION FairSpec
CONSTANTS
    LlmMaxRetries = 2
    FileManifestMaxRetries = 3
    RepoPlanMaxRetries = 3
    FastFallbackMaxRetries = 0
INVARIANTS
    RequestsBounded
    AskedOnlyWithAKey
    GivesUpForAReason
PROPERTY
    KeepsThePromise
