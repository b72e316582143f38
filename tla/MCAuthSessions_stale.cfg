SPECIFICATION FairSpec
CONSTANTS
    Users = {u1}
    Sessions = {s1, s2}
    Tokens = {t1, t2, t3}
    Reqs = {r1, r2}
    NoUser = NoUser
    NoSession = NoSession
    NoToken = NoToken
    LegacyUsers = {}
    DbMayFail = FALSE
    TokensAge = FALSE
    MaxVersion = 1
PROPERTIES OnlyResetDeviceLeft
