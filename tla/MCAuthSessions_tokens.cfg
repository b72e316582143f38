SPECIFICATION FairSpec
CONSTANTS
    Users = {u1}
    Sessions = {s1}
    Tokens = {t1, t2, t3}
    Reqs = {r1, r2}
    NoUser = NoUser
    NoSession = NoSession
    NoToken = NoToken
    LegacyUsers = {u1}
    DbMayFail = TRUE
    TokensAge = TRUE
    MaxVersion = 1
INVARIANTS TypeOK OneTokenUnlessForked
PROPERTIES SignedOutIsFinal
