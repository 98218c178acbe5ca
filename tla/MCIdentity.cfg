SPECIFICATION FairSpec
CONSTANTS
    phone = phone
    tablet = tablet
    member = member
    admin = admin
    Tokens <- mcTokens
    Callers = {1, 2, 3}
    TokenOf <- mcTokenOf
    Identities <- mcIdentities
    None = None
    TTL = 2
    NegativeTTL = 1
    CacheLimit = 1
CHECK_DEADLOCK FALSE
INVARIANT TypeOK
INVARIANT AnswerWasTrueLately
INVARIANT SingleFlight
INVARIANT CacheBounded
PROPERTY NoNeedlessQuestion
PROPERTY StuckOnlyBehindSilence
