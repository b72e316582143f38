SPECIFICATION Spec
CONSTANTS
    Users = {u1, u2}
    Sessions = {s1, s2}
    Tokens = {t1, t2, t3}
    Reqs = {r1, r2}
    NoUser = NoUser
    NoSession = NoSession
    NoToken = NoToken
    LegacyUsers = {u1}
    DbMayFail = FALSE
    TokensAge = FALSE
    MaxVersion = 1
SYMMETRY Symmetry
INVARIANTS HealthyDeviceKeepsToken StaleSessionsRaced
PROPERTIES TokenLostOnlyToRefresh RevokeAnswersAreTrue DevicesSpec
