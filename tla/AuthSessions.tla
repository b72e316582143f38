---------------------------- MODULE AuthSessions ----------------------------
(***************************************************************************)
(* Device sessions and refresh tokens: the handlers of internal/auth that  *)
(* sign a device in, rotate its refresh token, sign devices out and replace *)
(* a password, with the middleware that asks on every authenticated request *)
(* whether the session is still live.                                      *)
(*                                                                         *)
(* Several requests are in flight at once.  A request is a record and a    *)
(* program counter; every SQL statement a handler sends is one action, so  *)
(* any other request may run between two of them.  A statement is atomic.  *)
(* What a request read before (the password hash, the stored token) stays  *)
(* in its record and may be stale when it is used.                         *)
(*                                                                         *)
(* Abstracted: request parsing, device headers, JWT encoding (an access    *)
(* token is the session it names), bcrypt (a hash is the number of times   *)
(* the user's password was replaced), and GetUserByID after the refresh    *)
(* token's delete and after the reset's revocation: users are never        *)
(* deleted, so it changes nothing but may fail like the next statement.    *)
(***************************************************************************)
EXTENDS Naturals, FiniteSets

CONSTANTS
    Users,          \* e-mail addresses, each at most one account
    Sessions,       \* ids of rows of the sessions table
    Tokens,         \* ids of rows of the refresh_tokens table
    Reqs,           \* request slots: requests that are in flight together
    NoUser, NoSession, NoToken,
    LegacyUsers,    \* users holding an access token without a session claim
    DbMayFail,      \* whether a statement may return an error
    TokensAge,      \* whether refresh tokens live long enough to expire
    MaxVersion      \* bound: no reset begins once a password was replaced this often

ASSUME NullAssumption ==
    /\ NoUser \notin Users
    /\ NoSession \notin Sessions
    /\ NoToken \notin Tokens
ASSUME LegacyAssumption == LegacyUsers \subseteq Users
ASSUME FaultAssumption == DbMayFail \in BOOLEAN /\ TokensAge \in BOOLEAN
ASSUME VersionAssumption == MaxVersion \in Nat

VARIABLES
    account,        \* users: how the account of an address signs in
    version,        \* users.password_hash, as a version number
    owed,           \* history: no RevokeAllSessions since the last UpdatePassword
    session,        \* sessions table
    token,          \* refresh_tokens table
    pc,             \* where each request is in its handler
    req,            \* what each request carries and has read
    reply           \* the last answer given in each slot

vars == <<account, version, owed, session, token, pc, req, reply>>

AccountKinds == {"none", "password", "google"}
SignInOps == {"google", "signup", "signin"}
DeviceOps == {"signout", "revoke", "others", "list"}
Ops == SignInOps \cup DeviceOps \cup {"none", "reset", "refresh"}
Replies == {"none", "ok", "refused", "notfound", "error"}

SessionRows == [st: {"none", "live", "revoked"}, user: Users \cup {NoUser},
                ver: Nat,           \* password version its sign-in had read
                issued: BOOLEAN,    \* its tokens reached a client
                raced: BOOLEAN,     \* created after that version was replaced
                forked: BOOLEAN]    \* two refreshes spent one token of it
TokenRows == [st: {"none", "live", "expired"}, user: Users \cup {NoUser},
              sid: Sessions \cup {NoSession}]
Requests == [op: Ops, user: Users \cup {NoUser}, sid: Sessions \cup {NoSession},
             tok: Tokens \cup {NoToken}, target: Sessions \cup {NoSession},
             ver: Nat]

\* Labels at which the next thing a request does is a fallible statement.
StatementPcs == {"lookup", "create_user", "create_session", "save", "update",
                 "revoke_all", "get", "delete", "touch", "check", "act"}
Pcs == StatementPcs \cup {"idle", "drop", "confirm"}

NoSessionRow == [st |-> "none", user |-> NoUser, ver |-> 0, issued |-> FALSE,
                 raced |-> FALSE, forked |-> FALSE]
NoTokenRow == [st |-> "none", user |-> NoUser, sid |-> NoSession]
NoRequest == [op |-> "none", user |-> NoUser, sid |-> NoSession,
              tok |-> NoToken, target |-> NoSession, ver |-> 0]

Init ==
    /\ account \in [Users -> AccountKinds]
    /\ \A u \in LegacyUsers : account[u] # "none"
    /\ version = [u \in Users |-> 0]
    /\ owed = [u \in Users |-> FALSE]
    /\ session = [s \in Sessions |-> NoSessionRow]
    /\ token = [t \in Tokens |-> NoTokenRow]
    /\ pc = [r \in Reqs |-> "idle"]
    /\ req = [r \in Reqs |-> NoRequest]
    /\ reply = [r \in Reqs |-> "none"]

-----------------------------------------------------------------------------
(* Requests arrive, move on and are answered.                              *)

Begin(r, p, q) ==
    /\ pc[r] = "idle"
    /\ pc' = [pc EXCEPT ![r] = p]
    /\ req' = [req EXCEPT ![r] = q]
    /\ reply' = [reply EXCEPT ![r] = "none"]
    /\ UNCHANGED <<account, version, owed, session, token>>

Goto(r, p) ==
    /\ pc' = [pc EXCEPT ![r] = p]
    /\ UNCHANGED reply

Answer(r, a) ==
    /\ pc' = [pc EXCEPT ![r] = "idle"]
    /\ req' = [req EXCEPT ![r] = NoRequest]
    /\ reply' = [reply EXCEPT ![r] = a]

Live(s) == session[s].st = "live"
Revoked(s) == session[s].st = "revoked"
Rows(s) == {t \in Tokens : token[t].st # "none" /\ token[t].sid = s}

\* A token id is free when no row and no request in flight holds it.
FreeToken(t) == token[t].st = "none" /\ \A r \in Reqs : req[r].tok # t

\* Bound: a request that will insert rows begins only while ids are left for
\* it and for those in flight.
TokenIdsLeft(t) ==
    Cardinality({x \in Tokens \ {t} : FreeToken(x)})
      > Cardinality({q \in Reqs : req[q].op \in SignInOps \cup {"reset", "refresh"}})
SessionIdsLeft ==
    Cardinality({s \in Sessions : session[s].st = "none"})
      > Cardinality({q \in Reqs : req[q].op \in SignInOps \cup {"reset"}
                                   /\ req[q].sid = NoSession})

BeginSignIn(r) == \E u \in Users, o \in SignInOps :
    /\ SessionIdsLeft /\ TokenIdsLeft(NoToken)
    /\ Begin(r, "lookup", [NoRequest EXCEPT !.op = o, !.user = u])

\* A reset whose code has just been consumed (PasswordReset models the code).
BeginReset(r) == \E u \in Users :
    /\ account[u] = "password"
    /\ version[u] < MaxVersion
    /\ SessionIdsLeft /\ TokenIdsLeft(NoToken)
    /\ Begin(r, "update", [NoRequest EXCEPT !.op = "reset", !.user = u])

\* Any token a client ever received may be presented, spent ones included.
BeginRefresh(r) == \E t \in Tokens :
    /\ TokenIdsLeft(t)
    /\ Begin(r, "get", [NoRequest EXCEPT !.op = "refresh", !.tok = t])

\* The session a device request is about: RevokeDevice takes any existing id,
\* or one that is nobody's (NoSession).
Targets(o) == IF o = "revoke"
              THEN {x \in Sessions : session[x].st # "none"} \cup {NoSession}
              ELSE {NoSession}

\* The access token names session s: the user in it is the session's.
BeginAuthed(r) == \E s \in Sessions, o \in DeviceOps : \E x \in Targets(o) :
    /\ session[s].issued
    /\ Begin(r, "check", [NoRequest EXCEPT !.op = o, !.user = session[s].user,
                          !.sid = s, !.target = x])

\* Without a session claim the middleware has nothing to check.
BeginLegacy(r) == \E u \in LegacyUsers, o \in DeviceOps : \E x \in Targets(o) :
    Begin(r, "act", [NoRequest EXCEPT !.op = o, !.user = u, !.target = x])

-----------------------------------------------------------------------------
(* Signing in: GoogleSignIn, EmailSignUp, EmailSignIn, then startSession.   *)

Accepts(r) ==
    /\ pc' = [pc EXCEPT ![r] = "create_session"]
    /\ req' = [req EXCEPT ![r].ver = version[req[r].user]]
    /\ UNCHANGED reply

\* GetUserByGoogleID.  An address that signed up by e-mail has no google_id.
GoogleLookup(r) ==
    /\ pc[r] = "lookup" /\ req[r].op = "google"
    /\ \/ account[req[r].user] = "google" /\ Accepts(r)
       \/ account[req[r].user] # "google" /\ Goto(r, "create_user") /\ UNCHANGED req
    /\ UNCHANGED <<account, version, owed, session, token>>

SignUpLookup(r) ==
    /\ pc[r] = "lookup" /\ req[r].op = "signup"
    /\ \/ account[req[r].user] # "none" /\ Answer(r, "refused")
       \/ account[req[r].user] = "none" /\ Goto(r, "create_user") /\ UNCHANGED req
    /\ UNCHANGED <<account, version, owed, session, token>>

\* The hash is read here and compared before the session is created; a wrong
\* password is refused.
SignInLookup(r) ==
    /\ pc[r] = "lookup" /\ req[r].op = "signin"
    /\ \/ account[req[r].user] = "password" /\ Accepts(r)
       \/ Answer(r, "refused")
    /\ UNCHANGED <<account, version, owed, session, token>>

\* Mutant: a Google sign-in on a taken address links the account.
CreateUserLinks(r) ==
    /\ pc[r] = "create_user"
    /\ account' = [account EXCEPT ![req[r].user] =
                     IF @ # "none" THEN "linked"
                     ELSE IF req[r].op = "google" THEN "google" ELSE "password"]
    /\ Accepts(r)
    /\ UNCHANGED <<version, owed, session, token>>

\* users.email and users.google_id are UNIQUE.
CreateUser(r) ==
    /\ pc[r] = "create_user"
    /\ \/ /\ account[req[r].user] = "none"
          /\ account' = [account EXCEPT ![req[r].user] =
                           IF req[r].op = "google" THEN "google" ELSE "password"]
          /\ Accepts(r)
       \/ /\ account[req[r].user] # "none"
          /\ Answer(r, "error")
          /\ UNCHANGED account
    /\ UNCHANGED <<version, owed, session, token>>

CreateSession(r) ==
    /\ pc[r] = "create_session"
    /\ \E s \in Sessions :
         /\ session[s].st = "none"
         /\ session' = [session EXCEPT ![s] =
              [NoSessionRow EXCEPT !.st = "live", !.user = req[r].user,
                !.ver = req[r].ver, !.raced = req[r].ver # version[req[r].user]]]
         /\ req' = [req EXCEPT ![r].sid = s]
    /\ Goto(r, "save")
    /\ UNCHANGED <<account, version, owed, token>>

\* issueTokens: the insert also purges the user's expired tokens.
SaveRefreshToken(r) ==
    /\ pc[r] = "save"
    /\ \E t \in Tokens :
         /\ FreeToken(t)
         /\ token' = [x \in Tokens |->
              IF x = t
              THEN [st |-> "live", user |-> req[r].user, sid |-> req[r].sid]
              ELSE IF token[x].st = "expired" /\ token[x].user = req[r].user
              THEN NoTokenRow
              ELSE token[x]]
    /\ session' = [session EXCEPT ![req[r].sid].issued = TRUE]
    /\ Answer(r, "ok")
    /\ UNCHANGED <<account, version, owed>>

-----------------------------------------------------------------------------
(* Refresh.                                                                *)

GetRefreshToken(r) ==
    /\ pc[r] = "get"
    /\ LET row == token[req[r].tok] IN
         \/ row.st = "none" /\ Answer(r, "refused")
         \/ /\ row.st # "none"
            /\ Goto(r, IF row.st = "expired" THEN "drop" ELSE "delete")
            /\ req' = [req EXCEPT ![r].user = row.user, ![r].sid = row.sid]
    /\ UNCHANGED <<account, version, owed, session, token>>

\* An expired token is deleted; an error of that delete is ignored.
DropExpired(r) ==
    /\ pc[r] = "drop"
    /\ \/ token' = [token EXCEPT ![req[r].tok] = NoTokenRow]
       \/ DbMayFail /\ UNCHANGED token
    /\ Answer(r, "refused")
    /\ UNCHANGED <<account, version, owed, session>>

\* Mutant: the spent token is not deleted.
RefreshKeepsToken(r) ==
    /\ pc[r] = "delete"
    /\ req' = [req EXCEPT ![r].tok = NoToken]
    /\ Goto(r, "touch")
    /\ UNCHANGED <<account, version, owed, session, token>>

\* The number of deleted rows is not looked at: a request that lost the race
\* for the token goes on just as well.
DeleteRefreshToken(r) ==
    /\ pc[r] = "delete"
    /\ token' = [token EXCEPT ![req[r].tok] = NoTokenRow]
    /\ session' = [session EXCEPT ![req[r].sid].forked =
                     @ \/ token[req[r].tok].st = "none"]
    /\ req' = [req EXCEPT ![r].tok = NoToken]
    /\ Goto(r, "touch")
    /\ UNCHANGED <<account, version, owed>>

\* Mutant: last_seen is bumped without looking at revoked_at.
TouchRevoked(r) ==
    /\ pc[r] = "touch"
    /\ Goto(r, "save")
    /\ UNCHANGED <<account, version, owed, session, token, req>>

TouchSession(r) ==
    /\ pc[r] = "touch"
    /\ \/ Live(req[r].sid) /\ Goto(r, "save") /\ UNCHANGED req
       \/ ~Live(req[r].sid) /\ Answer(r, "refused")
    /\ UNCHANGED <<account, version, owed, session, token>>

-----------------------------------------------------------------------------
(* Authenticated requests: the middleware, then the handler.               *)

\* Mutant: a valid signature is enough.
TokenIsValid(r) ==
    /\ pc[r] = "check"
    /\ Goto(r, "act")
    /\ UNCHANGED <<account, version, owed, session, token, req>>

IsSessionLive(r) ==
    /\ pc[r] = "check"
    /\ \/ Live(req[r].sid) /\ Goto(r, "act") /\ UNCHANGED req
       \/ ~Live(req[r].sid) /\ Answer(r, "refused")
    /\ UNCHANGED <<account, version, owed, session, token>>

\* UPDATE sessions SET revoked_at ... on the live sessions in S.
Revoke(S) ==
    session' = [s \in Sessions |->
                  IF s \in S /\ Live(s) THEN [session[s] EXCEPT !.st = "revoked"]
                  ELSE session[s]]
DeleteTokens(T) ==
    token' = [t \in Tokens |-> IF t \in T THEN NoTokenRow ELSE token[t]]

SessionsOf(u) == {s \in Sessions : session[s].user = u}
TokensOf(u) == {t \in Tokens : token[t].user = u}

\* Mutant: signing one device out drops every token of the user.
RevokeSessionAllTokens(r) ==
    /\ pc[r] = "act"
    /\ \/ req[r].op = "signout" /\ req[r].sid # NoSession
       \/ req[r].op = "revoke"
    /\ Revoke({x \in SessionsOf(req[r].user) : x \in {req[r].sid, req[r].target}})
    /\ DeleteTokens(TokensOf(req[r].user))
    /\ Answer(r, "ok")
    /\ UNCHANGED <<account, version, owed>>

\* Mutant: the number of deleted tokens is the answer.
RevokeSessionByCount(r) ==
    /\ pc[r] = "act"
    /\ \/ req[r].op = "signout" /\ req[r].sid # NoSession
       \/ req[r].op = "revoke"
    /\ LET s == IF req[r].op = "signout" THEN req[r].sid ELSE req[r].target
           hit == {x \in SessionsOf(req[r].user) : x = s /\ Live(x)}
           gone == UNION {Rows(x) : x \in hit}
       IN /\ Revoke(hit)
          /\ DeleteTokens(gone)
          /\ Answer(r, IF req[r].op = "revoke" /\ gone = {} THEN "notfound" ELSE "ok")
    /\ UNCHANGED <<account, version, owed>>

\* RevokeSession, called by SignOut on the caller's session and by RevokeDevice
\* on any id.  When no token row went with it the session is read again.
RevokeSession(r) ==
    /\ pc[r] = "act"
    /\ \/ req[r].op = "signout" /\ req[r].sid # NoSession
       \/ req[r].op = "revoke"
    /\ LET s == IF req[r].op = "signout" THEN req[r].sid ELSE req[r].target
           hit == {x \in SessionsOf(req[r].user) : x = s /\ Live(x)}
           gone == UNION {Rows(x) : x \in hit}
       IN /\ Revoke(hit)
          /\ DeleteTokens(gone)
          /\ \/ gone # {} /\ Answer(r, "ok")
             \/ gone = {} /\ Goto(r, "confirm") /\ UNCHANGED req
    /\ UNCHANGED <<account, version, owed>>

\* The second read of RevokeSession.  Its errors read as "no such session";
\* SignOut does not look at the result.
ConfirmRevoked(r) ==
    /\ pc[r] = "confirm"
    /\ \/ req[r].op = "signout" /\ Answer(r, "ok")
       \/ /\ req[r].op = "revoke"
          /\ Answer(r, IF /\ req[r].target \in SessionsOf(req[r].user)
                          /\ Revoked(req[r].target)
                       THEN "ok" ELSE "notfound")
       \/ req[r].op = "revoke" /\ DbMayFail /\ Answer(r, "notfound")
    /\ UNCHANGED <<account, version, owed, session, token>>

\* Mutant: the caller's own token goes too.
RevokeOthersAndTokens(r) ==
    /\ pc[r] = "act" /\ req[r].op = "others" /\ req[r].sid # NoSession
    /\ Revoke(SessionsOf(req[r].user) \ {req[r].sid})
    /\ DeleteTokens(TokensOf(req[r].user))
    /\ Answer(r, "ok")
    /\ UNCHANGED <<account, version, owed>>

RevokeOtherSessions(r) ==
    /\ pc[r] = "act" /\ req[r].op = "others" /\ req[r].sid # NoSession
    /\ Revoke(SessionsOf(req[r].user) \ {req[r].sid})
    /\ DeleteTokens({t \in TokensOf(req[r].user) : token[t].sid # req[r].sid})
    /\ Answer(r, "ok")
    /\ UNCHANGED <<account, version, owed>>

\* RevokeOtherDevices without a session claim: there is no "other".
RefuseOthers(r) ==
    /\ pc[r] = "act" /\ req[r].op = "others" /\ req[r].sid = NoSession
    /\ Answer(r, "refused")
    /\ UNCHANGED <<account, version, owed, session, token>>

\* ListDevices, or any handler that leaves these tables alone.
ListDevices(r) ==
    /\ pc[r] = "act" /\ req[r].op = "list"
    /\ Answer(r, "ok")
    /\ UNCHANGED <<account, version, owed, session, token>>

\* Mutant: a reset drops the tokens and leaves the sessions.
DropAllTokens(r) ==
    /\ \/ pc[r] = "act" /\ req[r].op = "signout" /\ req[r].sid = NoSession /\ Answer(r, "ok")
       \/ pc[r] = "revoke_all" /\ Goto(r, "create_session") /\ UNCHANGED req
    /\ DeleteTokens(TokensOf(req[r].user))
    /\ owed' = [owed EXCEPT ![req[r].user] = FALSE]
    /\ UNCHANGED <<account, version, session>>

\* SignOut with a token that predates sessions, and ResetPassword.
RevokeAllSessions(r) ==
    /\ \/ pc[r] = "act" /\ req[r].op = "signout" /\ req[r].sid = NoSession /\ Answer(r, "ok")
       \/ pc[r] = "revoke_all" /\ Goto(r, "create_session") /\ UNCHANGED req
    /\ Revoke(SessionsOf(req[r].user))
    /\ DeleteTokens(TokensOf(req[r].user))
    /\ owed' = [owed EXCEPT ![req[r].user] = FALSE]
    /\ UNCHANGED <<account, version>>

\* ResetPassword stores the new hash before it revokes.
UpdatePassword(r) ==
    /\ pc[r] = "update"
    /\ version' = [version EXCEPT ![req[r].user] = @ + 1]
    /\ owed' = [owed EXCEPT ![req[r].user] = TRUE]
    /\ req' = [req EXCEPT ![r].ver = version[req[r].user] + 1]
    /\ Goto(r, "revoke_all")
    /\ UNCHANGED <<account, session, token>>

-----------------------------------------------------------------------------
(* A statement that fails ends its request; what was done stays done.       *)

Fail(r) ==
    /\ DbMayFail
    /\ pc[r] \in StatementPcs
    /\ Answer(r, "error")
    /\ UNCHANGED <<account, version, owed, session, token>>

\* Refresh tokens age out on their own.
Expire(t) ==
    /\ TokensAge
    /\ token[t].st = "live"
    /\ token' = [token EXCEPT ![t].st = "expired"]
    /\ UNCHANGED <<account, version, owed, session, pc, req, reply>>

Arrive(r) ==
    BeginSignIn(r) \/ BeginReset(r) \/ BeginRefresh(r) \/ BeginAuthed(r) \/ BeginLegacy(r)

Step(r) ==
    \/ GoogleLookup(r) \/ SignUpLookup(r) \/ SignInLookup(r)
    \/ CreateUser(r) \/ CreateSession(r) \/ SaveRefreshToken(r)
    \/ GetRefreshToken(r) \/ DropExpired(r) \/ DeleteRefreshToken(r) \/ TouchSession(r)
    \/ IsSessionLive(r) \/ RevokeSession(r) \/ ConfirmRevoked(r)
    \/ RevokeOtherSessions(r) \/ RefuseOthers(r) \/ ListDevices(r)
    \/ RevokeAllSessions(r) \/ UpdatePassword(r)

Next ==
    \/ \E r \in Reqs : Arrive(r) \/ Step(r) \/ Fail(r)
    \/ \E t \in Tokens : Expire(t)

Spec == Init /\ [][Next]_vars

\* A handler that has started runs on: nothing waits on another request.
FairSpec == Spec /\ \A r \in Reqs : WF_vars(Step(r))

-----------------------------------------------------------------------------
(* Properties.                                                             *)

\* Every variable has the shape of its table or record.
TypeOK ==
    /\ account \in [Users -> AccountKinds]
    /\ version \in [Users -> Nat]
    /\ owed \in [Users -> BOOLEAN]
    /\ session \in [Sessions -> SessionRows]
    /\ token \in [Tokens -> TokenRows]
    /\ pc \in [Reqs -> Pcs]
    /\ req \in [Reqs -> Requests]
    /\ reply \in [Reqs -> Replies]

Minting(r, s) == req[r].sid = s /\ pc[r] \in {"touch", "save"}

\* A device holds one refresh token or is about to be given one, never two,
\* unless two refreshes overlapped on the same token: the DELETE of Refresh
\* ignores its row count, and that is the only way a session's tokens fork.
OneTokenUnlessForked ==
    \A s \in Sessions : ~session[s].forked =>
        /\ \A t1, t2 \in Rows(s) : t1 = t2
        /\ \A r1, r2 \in Reqs : Minting(r1, s) /\ Minting(r2, s) => r1 = r2
        /\ \A t \in Rows(s), r \in Reqs : ~Minting(r, s)

\* A live session opened with a password that was replaced since is one that
\* the reset is still about to revoke, or one whose sign-in had read the old
\* hash and inserted its row after the replacement.
StaleSessionsRaced ==
    \A s \in Sessions : Live(s) /\ ~session[s].raced =>
        \/ session[s].ver = version[session[s].user]
        \/ owed[session[s].user]

\* As long as no statement fails and no token ages out, a signed-in device
\* keeps a refresh token or has a request in flight that will save one: no
\* interleaving of refreshes and revocations locks out a listed device.
HealthyDeviceKeepsToken ==
    ~DbMayFail /\ ~TokensAge =>
        \A s \in Sessions : Live(s) =>
            Rows(s) # {} \/ \E r \in Reqs : Minting(r, s)

\* A step may take a usable refresh token from a device that stays signed in
\* only by spending it: sign-ins and revocations of other devices never do.
TokenLostOnlyToRefresh == [][
    \A t \in Tokens, s \in Sessions :
        /\ token[t].st = "live" /\ token[t].sid = s /\ token'[t].st = "none"
        /\ Live(s) /\ Live(s)'
        => \E r \in Reqs : pc[r] = "delete" /\ req[r].tok = t /\ pc'[r] = "touch" ]_vars

Answered(r, o, a) ==
    pc[r] # "idle" /\ pc'[r] = "idle" /\ req[r].op = o /\ reply'[r] = a

\* RevokeDevice tells the truth although the statement it is told by counts deleted
\* tokens: "signed out" is said of a revoked session of the caller, and "device not
\* found" of one that is not the caller's (sessions_store.go:186).
RevokeAnswersAreTrue == [][
    \A r \in Reqs :
        /\ Answered(r, "revoke", "ok") =>
             \E s \in Sessions : /\ s = req[r].target
                                 /\ session'[s].st = "revoked"
                                 /\ session'[s].user = req[r].user
        /\ Answered(r, "revoke", "notfound") =>
             \A s \in Sessions : s = req[r].target => session'[s].user # req[r].user ]_vars

\* When a reset has been answered, the device that did it is the only one of
\* the user left signed in, whatever sign-ins ran beside it, among the sessions
\* that proved a password (password_reset.go:239).
OnlyResetDeviceLeft == [][
    \A r \in Reqs : Answered(r, "reset", "ok") =>
        \A s \in SessionsOf(req[r].user) :
            Live(s) /\ s # req[r].sid => session[s].ver >= req[r].ver ]_vars

Serving(s) == \E r \in Reqs : req[r].sid = s /\ pc[r] \in {"act", "confirm", "save"}

\* Once a session is revoked, requests on its behalf die out: the ones already
\* past the check finish, no later one is admitted and no later refresh mints.
SignedOutIsFinal == \A s \in Sessions : Revoked(s) ~> []~Serving(s)

\* The sessions, and who acts for them, as the devices screen shows them.
DeviceOwner == [s \in Sessions |-> session[s].user]
DevicesLive == {s \in Sessions : Live(s)}
DeviceCaller == [r \in Reqs |-> IF pc[r] \in {"act", "confirm"} THEN req[r].sid ELSE NoSession]

\* All of it implements what DeviceAccess promises: sessions are opened once and
\* closed for good, by requests of their own user, and a handler runs for a
\* session only if the session was live when the middleware let it in.
Devices == INSTANCE DeviceAccess WITH
    owner <- DeviceOwner, live <- DevicesLive, caller <- DeviceCaller
DevicesSpec == Devices!Spec
=============================================================================
