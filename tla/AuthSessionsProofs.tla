------------------------- MODULE AuthSessionsProofs -------------------------
(***************************************************************************)
(* Proofs about AuthSessions, for any sets of users, sessions, tokens and  *)
(* request slots.                                                          *)
(***************************************************************************)
EXTENDS AuthSessions, TLAPS

\* What a request carries at each label: a user from the start, a session from
\* the moment it is read or created, a token only until it is spent.
ShapeOf(r) ==
    /\ pc[r] = "idle" <=> req[r].op = "none"
    /\ pc[r] = "idle" => req[r] = NoRequest
    /\ pc[r] \in {"lookup", "create_user", "create_session", "update", "revoke_all"} =>
         req[r].user \in Users /\ req[r].sid = NoSession /\ req[r].tok = NoToken
    /\ pc[r] = "get" => req[r].sid = NoSession /\ req[r].user = NoUser /\ req[r].tok \in Tokens
    /\ pc[r] \in {"delete", "drop"} =>
         req[r].user \in Users /\ req[r].sid \in Sessions /\ req[r].tok \in Tokens
    /\ pc[r] \in {"touch", "save", "check"} =>
         req[r].user \in Users /\ req[r].sid \in Sessions /\ req[r].tok = NoToken
    /\ pc[r] \in {"act", "confirm"} => req[r].user \in Users /\ req[r].tok = NoToken
Shape == \A r \in Reqs : ShapeOf(r)

\* A session row exists with its user or not at all; so does a token row, and
\* the session it names exists and is of the same user.
RowsOK ==
    /\ \A s \in Sessions :
         /\ session[s].st = "none" => session[s] = NoSessionRow
         /\ session[s].st # "none" => session[s].user \in Users
    /\ \A t \in Tokens :
         /\ token[t].st = "none" => token[t] = NoTokenRow
         /\ token[t].st # "none" =>
              /\ token[t].user \in Users /\ token[t].sid \in Sessions
              /\ session[token[t].sid].user = token[t].user

\* A request acts for a session of its own user, and the token it is about to
\* spend is still that session's if it is there at all.
ReqsOK == \A r \in Reqs :
    /\ req[r].sid # NoSession => session[req[r].sid].user = req[r].user
    /\ pc[r] = "delete" /\ token[req[r].tok].st # "none" =>
         token[req[r].tok].sid = req[r].sid

Assumptions == NullAssumption /\ LegacyAssumption

-----------------------------------------------------------------------------

\* The initial state satisfies every conjunct.
LEMMA InitOK == Init => TypeOK /\ Shape /\ RowsOK /\ ReqsOK
<1> SUFFICES ASSUME Init PROVE TypeOK /\ Shape /\ RowsOK /\ ReqsOK
  OBVIOUS
<1> USE DEF Init, NoSessionRow, NoTokenRow, NoRequest
<1>1. TypeOK
  BY DEF TypeOK, SessionRows, TokenRows, Requests, Ops, SignInOps, DeviceOps,
         Replies, Pcs, StatementPcs
<1>2. Shape
  BY DEF Shape, ShapeOf
<1>3. RowsOK
  BY NullAssumption DEF RowsOK
<1>4. ReqsOK
  BY NullAssumption DEF ReqsOK
<1> QED
  BY <1>1, <1>2, <1>3, <1>4


\* How a request arrives: its label, and a record that fits the label.
ArrivesAs(p, q) ==
    /\ q \in Requests /\ q.op # "none" /\ q.tok \in Tokens \cup {NoToken}
    /\ \/ p \in {"lookup", "update"} /\ q.user \in Users /\ q.sid = NoSession /\ q.tok = NoToken
       \/ p = "get" /\ q.user = NoUser /\ q.sid = NoSession /\ q.tok \in Tokens
       \/ p = "check" /\ q.user \in Users /\ q.sid \in Sessions /\ q.tok = NoToken
                      /\ session[q.sid].user = q.user
       \/ p = "act" /\ q.user \in Users /\ q.sid = NoSession /\ q.tok = NoToken

\* Every arrival is a Begin with such a record.
LEMMA Arrival ==
    ASSUME TypeOK, RowsOK, NEW r \in Reqs, Arrive(r)
    PROVE  \E p \in Pcs, q \in Requests : ArrivesAs(p, q) /\ Begin(r, p, q)
<1> USE DEF ArrivesAs, Requests, NoRequest, Pcs, StatementPcs, Ops, SignInOps, DeviceOps
<1>1. CASE BeginSignIn(r)
  <2>1. PICK u \in Users, o \in SignInOps :
          Begin(r, "lookup", [NoRequest EXCEPT !.op = o, !.user = u])
    BY <1>1 DEF BeginSignIn
  <2>2. ArrivesAs("lookup", [NoRequest EXCEPT !.op = o, !.user = u])
    OBVIOUS
  <2> QED
    BY <2>1, <2>2
<1>2. CASE BeginReset(r)
  <2>1. PICK u \in Users :
          Begin(r, "update", [NoRequest EXCEPT !.op = "reset", !.user = u])
    BY <1>2 DEF BeginReset
  <2>2. ArrivesAs("update", [NoRequest EXCEPT !.op = "reset", !.user = u])
    OBVIOUS
  <2> QED
    BY <2>1, <2>2
<1>3. CASE BeginRefresh(r)
  <2>1. PICK t \in Tokens :
          Begin(r, "get", [NoRequest EXCEPT !.op = "refresh", !.tok = t])
    BY <1>3 DEF BeginRefresh
  <2>2. ArrivesAs("get", [NoRequest EXCEPT !.op = "refresh", !.tok = t])
    OBVIOUS
  <2> QED
    BY <2>1, <2>2
<1>4. CASE BeginAuthed(r)
  <2>1. PICK s \in Sessions, o \in DeviceOps, x \in Sessions \cup {NoSession} :
          /\ session[s].issued
          /\ Begin(r, "check", [NoRequest EXCEPT !.op = o, !.user = session[s].user,
                                !.sid = s, !.target = x])
    BY <1>4 DEF BeginAuthed, Targets
  <2>2. session[s].user \in Users
    BY <2>1 DEF TypeOK, RowsOK, SessionRows, NoSessionRow
  <2>3. ArrivesAs("check", [NoRequest EXCEPT !.op = o, !.user = session[s].user,
                            !.sid = s, !.target = x])
    BY <2>2
  <2> QED
    BY <2>1, <2>3
<1>5. CASE BeginLegacy(r)
  <2>1. PICK u \in LegacyUsers, o \in DeviceOps, x \in Sessions \cup {NoSession} :
          Begin(r, "act", [NoRequest EXCEPT !.op = o, !.user = u, !.target = x])
    BY <1>5 DEF BeginLegacy, Targets
  <2>2. ArrivesAs("act", [NoRequest EXCEPT !.op = o, !.user = u, !.target = x])
    BY LegacyAssumption
  <2> QED
    BY <2>1, <2>2
<1> QED
  BY <1>1, <1>2, <1>3, <1>4, <1>5 DEF Arrive

-----------------------------------------------------------------------------

Base == TypeOK /\ Shape /\ RowsOK /\ ReqsOK

\* An arrival keeps the base invariant: it only fills an idle slot.
LEMMA ArriveBase == ASSUME Base, NEW r \in Reqs, Arrive(r) PROVE Base'
<1>1. PICK p \in Pcs, q \in Requests : ArrivesAs(p, q) /\ Begin(r, p, q)
  BY Arrival DEF Base
<1> USE <1>1 DEF Begin, Base
<1>2. TypeOK'
  BY DEF TypeOK, Replies
<1>3. Shape'
  BY DEF Shape, ShapeOf, ArrivesAs, TypeOK, Requests
<1>4. RowsOK'
  BY DEF RowsOK
<1>5. ReqsOK'
  BY NullAssumption DEF ReqsOK, ArrivesAs, TypeOK, Requests
<1> QED
  BY <1>2, <1>3, <1>4, <1>5

\* An answer empties the slot; the rest of the state may change with it.
LEMMA AnswerReqs ==
    ASSUME Base, NEW r \in Reqs, NEW a \in Replies, Answer(r, a)
    PROVE  /\ pc' \in [Reqs -> Pcs] /\ req' \in [Reqs -> Requests] /\ reply' \in [Reqs -> Replies]
           /\ Shape'
           /\ \A x \in Reqs \ {r} : req'[x] = req[x] /\ pc'[x] = pc[x]
           /\ req'[r] = NoRequest /\ pc'[r] = "idle" /\ req'[r].sid = NoSession
<1> USE DEF Answer, Base, TypeOK
<1>1. NoRequest \in Requests
  BY DEF NoRequest, Requests, Ops
<1>2. pc' \in [Reqs -> Pcs] /\ req' \in [Reqs -> Requests] /\ reply' \in [Reqs -> Replies]
  BY <1>1 DEF Pcs
<1>3. \A x \in Reqs \ {r} : req'[x] = req[x] /\ pc'[x] = pc[x]
  OBVIOUS
<1>4. req'[r] = NoRequest /\ pc'[r] = "idle" /\ req'[r].sid = NoSession
  BY DEF NoRequest
<1>5. Shape'
  BY <1>3, <1>4 DEF Shape, ShapeOf, NoRequest
<1> QED
  BY <1>2, <1>3, <1>4, <1>5

\* A request that is answered, while no table changes, keeps the base invariant.
LEMMA AnswerBase ==
    ASSUME Base, NEW r \in Reqs, NEW a \in Replies, Answer(r, a),
           UNCHANGED <<account, version, owed, session, token>>
    PROVE  Base'
<1> USE AnswerReqs
<1>1. TypeOK'
  BY DEF Base, TypeOK
<1>2. RowsOK'
  BY DEF Base, RowsOK
<1>3. ReqsOK'
  BY DEF Base, ReqsOK
<1> QED
  BY <1>1, <1>2, <1>3 DEF Base

\* A request that moves on, its record changed only in slot r, keeps Shape when
\* its new record fits its new label.
LEMMA MoveShape ==
    ASSUME Base, NEW r \in Reqs, NEW p \in Pcs, p # "idle", pc[r] # "idle",
           pc' = [pc EXCEPT ![r] = p], NEW q \in Requests,
           req' = [req EXCEPT ![r] = q], ShapeOf(r)', UNCHANGED reply
    PROVE  Shape' /\ pc' \in [Reqs -> Pcs] /\ req' \in [Reqs -> Requests] /\ reply' \in [Reqs -> Replies]
<1> USE DEF Base, TypeOK
<1>1. \A x \in Reqs \ {r} : req'[x] = req[x] /\ pc'[x] = pc[x]
  OBVIOUS
<1>2. \A x \in Reqs \ {r} : ShapeOf(x)'
  BY <1>1 DEF Shape, ShapeOf
<1> QED
  BY <1>2 DEF Shape

\* Signing in keeps the base invariant.
LEMMA SignInBase ==
    ASSUME Base, NEW r \in Reqs,
           \/ GoogleLookup(r) \/ SignUpLookup(r) \/ SignInLookup(r)
           \/ CreateUser(r) \/ UpdatePassword(r)
    PROVE  Base'
<1> USE DEF Base
<1>1. pc[r] \in {"lookup", "create_user", "update"} /\ ShapeOf(r) /\ req[r] \in Requests
      /\ req[r].user \in Users /\ version[req[r].user] \in Nat
      /\ req[r].sid = NoSession /\ req[r].tok = NoToken /\ req[r].op # "none"
  BY DEF GoogleLookup, SignUpLookup, SignInLookup, CreateUser, UpdatePassword,
         TypeOK, Shape, ShapeOf
<1>2. UNCHANGED <<session, token>> /\ account' \in [Users -> AccountKinds]
      /\ version' \in [Users -> Nat] /\ owed' \in [Users -> BOOLEAN]
  <2>1. CASE GoogleLookup(r) \/ SignUpLookup(r) \/ SignInLookup(r)
    BY <2>1 DEF GoogleLookup, SignUpLookup, SignInLookup, TypeOK
  <2>2. CASE CreateUser(r)
    <3>1. account' = account \/ \E k \in AccountKinds : account' = [account EXCEPT ![req[r].user] = k]
      BY <2>2 DEF CreateUser, AccountKinds
    <3> QED
      BY <2>2, <3>1 DEF CreateUser, TypeOK
  <2>3. CASE UpdatePassword(r)
    BY <2>3, <1>1 DEF UpdatePassword, TypeOK
  <2> QED
    BY <2>1, <2>2, <2>3
<1>3. CASE \E a \in Replies : Answer(r, a)
  BY <1>3, <1>2, AnswerReqs DEF TypeOK, RowsOK, ReqsOK
<1>4. ASSUME NEW p \in {"create_user", "create_session", "revoke_all"}, NEW v \in Nat,
             pc' = [pc EXCEPT ![r] = p], req' = [req EXCEPT ![r].ver = v], UNCHANGED reply
      PROVE  Base'
  <2> DEFINE q == [req[r] EXCEPT !.ver = v]
  <2>1. q \in Requests /\ req' = [req EXCEPT ![r] = q]
    BY <1>4, <1>1 DEF Requests, TypeOK
  <2>2. ShapeOf(r)'
    BY <1>4, <1>1, <2>1 DEF ShapeOf, TypeOK, Requests
  <2>3. Shape' /\ TypeOK'
    BY <1>4, <1>1, <1>2, <2>1, <2>2, MoveShape DEF TypeOK, Pcs, StatementPcs
  <2>4. RowsOK'
    BY <1>2 DEF RowsOK
  <2>5. \A x \in Reqs : req'[x].sid = req[x].sid /\ req'[x].user = req[x].user
                        /\ req'[x].tok = req[x].tok
    BY <1>4, <1>1 DEF TypeOK, Requests
  <2>6. ReqsOK'
    BY <1>1, <1>2, <1>4, <2>5 DEF ReqsOK, TypeOK
  <2> QED
    BY <2>3, <2>4, <2>6
<1>5. req = [req EXCEPT ![r].ver = req[r].ver] /\ req[r].ver \in Nat
  BY <1>1 DEF TypeOK, Requests
<1>6. CASE GoogleLookup(r)
  <2>1. CASE Accepts(r)
    BY <2>1, <1>1, <1>4 DEF Accepts
  <2>2. CASE Goto(r, "create_user") /\ UNCHANGED req
    BY <2>2, <1>5, <1>4 DEF Goto
  <2> QED
    BY <1>6, <2>1, <2>2 DEF GoogleLookup
<1>7. CASE SignUpLookup(r)
  <2>1. CASE Goto(r, "create_user") /\ UNCHANGED req
    BY <2>1, <1>5, <1>4 DEF Goto
  <2> QED
    BY <1>7, <2>1, <1>3 DEF SignUpLookup, Replies
<1>8. CASE SignInLookup(r)
  <2>1. CASE Accepts(r)
    BY <2>1, <1>1, <1>4 DEF Accepts
  <2> QED
    BY <1>8, <2>1, <1>3 DEF SignInLookup, Replies
<1>9. CASE CreateUser(r)
  <2>1. CASE Accepts(r)
    BY <2>1, <1>1, <1>4 DEF Accepts
  <2> QED
    BY <1>9, <2>1, <1>3 DEF CreateUser, Replies
<1>10. CASE UpdatePassword(r)
  <2>1. version[req[r].user] + 1 \in Nat
    BY <1>1
  <2> QED
    BY <1>10, <2>1, <1>4 DEF UpdatePassword, Goto
<1> QED
  BY <1>6, <1>7, <1>8, <1>9, <1>10

\* The new session row is the request's user's.
LEMMA CreateSessionBase == ASSUME Base, NEW r \in Reqs, CreateSession(r) PROVE Base'
<1> USE DEF Base
<1>1. PICK s \in Sessions :
        /\ session[s].st = "none"
        /\ session' = [session EXCEPT ![s] =
             [NoSessionRow EXCEPT !.st = "live", !.user = req[r].user,
               !.ver = req[r].ver, !.raced = req[r].ver # version[req[r].user]]]
        /\ req' = [req EXCEPT ![r].sid = s]
  BY DEF CreateSession
<1>2. /\ pc[r] = "create_session" /\ pc' = [pc EXCEPT ![r] = "save"] /\ ShapeOf(r)
      /\ UNCHANGED <<account, version, owed, token, reply>> /\ req[r] \in Requests
      /\ req[r].user \in Users /\ req[r].tok = NoToken /\ req[r].op # "none"
  BY DEF CreateSession, Goto, Shape, ShapeOf, TypeOK
<1> DEFINE q == [req[r] EXCEPT !.sid = s]
<1>3. q \in Requests /\ req' = [req EXCEPT ![r] = q]
  BY <1>1, <1>2 DEF Requests, TypeOK
<1>4. ShapeOf(r)'
  BY <1>2, <1>3 DEF ShapeOf, TypeOK, Requests
<1>5. /\ session'[s].st = "live" /\ session'[s].user = req[r].user
      /\ session'[s] \in SessionRows
      /\ \A x \in Sessions \ {s} : session'[x] = session[x]
  BY <1>1, <1>2 DEF TypeOK, SessionRows, NoSessionRow, Requests
<1>6. Shape' /\ TypeOK'
  <2>1. Shape' /\ pc' \in [Reqs -> Pcs] /\ req' \in [Reqs -> Requests] /\ reply' \in [Reqs -> Replies]
    BY <1>2, <1>3, <1>4, MoveShape DEF Pcs, StatementPcs
  <2>2. session' \in [Sessions -> SessionRows]
    BY <1>1, <1>5 DEF TypeOK
  <2> QED
    BY <1>2, <2>1, <2>2 DEF TypeOK
<1>7. session[s].user = NoUser
  BY <1>1 DEF RowsOK, NoSessionRow
<1>8. RowsOK'
  BY <1>2, <1>5, <1>7, NullAssumption DEF RowsOK
<1>9. ReqsOK'
  <2>1. \A x \in Reqs : x # r => req'[x] = req[x] /\ pc'[x] = pc[x]
    BY <1>2, <1>3 DEF TypeOK
  <2>2. req'[r].sid = s /\ req'[r].user = req[r].user /\ pc'[r] = "save"
    BY <1>2, <1>3 DEF TypeOK, Requests
  <2>3. \A x \in Reqs : x # r /\ req[x].sid # NoSession => req[x].sid # s
    <3> SUFFICES ASSUME NEW x \in Reqs, x # r, req[x].sid # NoSession, req[x].sid = s
                 PROVE  FALSE
      OBVIOUS
    <3>1. req[x].user \in Users
      BY NullAssumption DEF Shape, ShapeOf, TypeOK, Pcs, StatementPcs, NoRequest
    <3> QED
      BY <3>1, <1>7, NullAssumption DEF ReqsOK
  <2>4. \A x \in Reqs : x # r /\ req[x].sid # NoSession => req[x].sid \in Sessions
    BY DEF TypeOK, Requests
  <2> QED
    BY <2>1, <2>2, <2>3, <2>4, <1>2, <1>5 DEF ReqsOK
<1> QED
  BY <1>6, <1>8, <1>9

\* The new token row names the request's session and user.
LEMMA SaveBase == ASSUME Base, NEW r \in Reqs, SaveRefreshToken(r) PROVE Base'
<1> USE DEF Base
<1>1. PICK t \in Tokens :
        /\ FreeToken(t)
        /\ token' = [x \in Tokens |->
             IF x = t
             THEN [st |-> "live", user |-> req[r].user, sid |-> req[r].sid]
             ELSE IF token[x].st = "expired" /\ token[x].user = req[r].user
             THEN NoTokenRow
             ELSE token[x]]
  BY DEF SaveRefreshToken
<1>2. /\ pc[r] = "save" /\ Answer(r, "ok") /\ "ok" \in Replies
      /\ session' = [session EXCEPT ![req[r].sid].issued = TRUE]
      /\ UNCHANGED <<account, version, owed>>
      /\ req[r].user \in Users /\ req[r].sid \in Sessions
      /\ session[req[r].sid].user = req[r].user
  BY NullAssumption DEF SaveRefreshToken, Shape, ShapeOf, ReqsOK, Replies
<1>3. \A s \in Sessions : /\ session'[s].user = session[s].user
                          /\ session'[s].st = session[s].st
                          /\ session'[s] \in SessionRows
                          /\ s # req[r].sid => session'[s] = session[s]
  BY <1>2 DEF TypeOK, SessionRows
<1>4. TypeOK'
  <2>1. token' \in [Tokens -> TokenRows]
    BY <1>1, <1>2 DEF TypeOK, TokenRows, NoTokenRow
  <2>2. session' \in [Sessions -> SessionRows]
    BY <1>2, <1>3 DEF TypeOK
  <2> QED
    BY <2>1, <2>2, <1>2, AnswerReqs DEF TypeOK
<1>5. Shape'
  BY <1>2, AnswerReqs
<1>6. session[req[r].sid].st # "none"
  BY <1>2, NullAssumption DEF RowsOK, NoSessionRow
<1>7. RowsOK'
  BY <1>1, <1>2, <1>3, <1>6 DEF RowsOK, NoTokenRow, TypeOK
<1>8. ReqsOK'
  <2>1. \A x \in Reqs \ {r} : req'[x] = req[x] /\ pc'[x] = pc[x]
    BY <1>2, AnswerReqs
  <2>2. req'[r].sid = NoSession /\ pc'[r] = "idle"
    BY <1>2, AnswerReqs
  <2>3. \A x \in Reqs : pc[x] = "delete" => req[x].tok \in Tokens /\ req[x].tok # t
    BY <1>1 DEF FreeToken, Shape, ShapeOf
  <2>4. \A x \in Reqs : req[x].sid \in Sessions \cup {NoSession}
    BY DEF TypeOK, Requests
  <2> QED
    BY <2>1, <2>2, <2>3, <2>4, <1>1, <1>3 DEF ReqsOK, NoTokenRow
<1> QED
  BY <1>4, <1>5, <1>7, <1>8

\* A request past its checks that only moves to another label.
LEMMA GotoBase ==
    ASSUME Base, NEW r \in Reqs, NEW p \in Pcs, Goto(r, p), pc[r] # "idle",
           UNCHANGED <<account, version, owed, session, token, req>>, ShapeOf(r)',
           p # "idle", p # "delete"
    PROVE  Base'
<1> USE DEF Base
<1>1. req[r] \in Requests /\ req' = [req EXCEPT ![r] = req[r]]
  BY DEF TypeOK
<1>2. Shape' /\ TypeOK'
  BY <1>1, MoveShape DEF Goto, TypeOK
<1>3. RowsOK'
  BY DEF RowsOK
<1>4. ReqsOK'
  BY DEF ReqsOK, Goto, TypeOK
<1> QED
  BY <1>2, <1>3, <1>4

\* A token row that goes away, or is marked expired, disturbs nothing.
LEMMA TokenLossRows ==
    ASSUME Base, token' \in [Tokens -> TokenRows],
           \A t \in Tokens : \/ token'[t] = NoTokenRow
                             \/ /\ token[t].st # "none" /\ token'[t].st # "none"
                                /\ token'[t].user = token[t].user
                                /\ token'[t].sid = token[t].sid
                             \/ token'[t] = token[t],
           session' \in [Sessions -> SessionRows],
           \A s \in Sessions : /\ session'[s].user = session[s].user
                               /\ \/ session[s].st # "none" /\ session'[s].st # "none"
                                  \/ session'[s] = session[s]
    PROVE  RowsOK'
BY DEF Base, RowsOK, NoTokenRow

\* The refresh steps keep the base invariant.
LEMMA RefreshBase ==
    ASSUME Base, NEW r \in Reqs,
           GetRefreshToken(r) \/ DropExpired(r) \/ DeleteRefreshToken(r) \/ TouchSession(r)
    PROVE  Base'
<1> USE DEF Base
<1>1. CASE GetRefreshToken(r)
  <2> DEFINE row == token[req[r].tok]
  <2>1. /\ pc[r] = "get" /\ req[r] \in Requests /\ req[r].tok \in Tokens /\ row \in TokenRows
        /\ req[r].op # "none" /\ req[r].sid = NoSession
        /\ UNCHANGED <<account, version, owed, session, token>>
    BY <1>1 DEF GetRefreshToken, Shape, ShapeOf, TypeOK
  <2>2. CASE Answer(r, "refused")
    BY <2>1, <2>2, AnswerBase DEF Replies
  <2>3. ASSUME row.st # "none", NEW p \in {"drop", "delete"}, Goto(r, p),
               req' = [req EXCEPT ![r].user = row.user, ![r].sid = row.sid]
        PROVE  Base'
    <3> DEFINE q == [req[r] EXCEPT !.user = row.user, !.sid = row.sid]
    <3>1. row.user \in Users /\ row.sid \in Sessions /\ session[row.sid].user = row.user
      BY <2>1, <2>3 DEF RowsOK
    <3>2. q \in Requests /\ req' = [req EXCEPT ![r] = q]
      BY <2>1, <2>3, <3>1 DEF Requests, TypeOK
    <3>3. ShapeOf(r)'
      BY <2>1, <2>3, <3>1, <3>2 DEF ShapeOf, TypeOK, Requests, Goto
    <3>4. Shape' /\ TypeOK'
      BY <2>1, <2>3, <3>2, <3>3, MoveShape DEF TypeOK, Goto, Pcs, StatementPcs
    <3>5. RowsOK'
      BY <2>1 DEF RowsOK
    <3>6. \A x \in Reqs \ {r} : req'[x] = req[x] /\ pc'[x] = pc[x]
      BY <2>3 DEF TypeOK, Goto
    <3>7. req'[r].tok = req[r].tok /\ req'[r].user = row.user /\ req'[r].sid = row.sid
      BY <2>1, <3>2 DEF TypeOK, Requests
    <3>8. ReqsOK'
      BY <2>1, <3>1, <3>6, <3>7 DEF ReqsOK
    <3> QED
      BY <3>4, <3>5, <3>8
  <2>4. CASE row.st # "none" /\ row.st = "expired"
    BY <1>1, <2>2, <2>3, <2>4 DEF GetRefreshToken
  <2>5. CASE row.st # "none" /\ row.st # "expired"
    BY <1>1, <2>2, <2>3, <2>5 DEF GetRefreshToken
  <2> QED
    BY <1>1, <2>2, <2>4, <2>5 DEF GetRefreshToken
<1>2. CASE DropExpired(r)
  <2>1. /\ pc[r] = "drop" /\ Answer(r, "refused") /\ "refused" \in Replies
        /\ UNCHANGED <<account, version, owed, session>>
        /\ token' = [token EXCEPT ![req[r].tok] = NoTokenRow] \/ token' = token
    BY <1>2 DEF DropExpired, Replies
  <2>2. \A t \in Tokens : token'[t] = NoTokenRow \/ token'[t] = token[t]
    BY <2>1 DEF TypeOK
  <2>3. token' \in [Tokens -> TokenRows]
    BY <2>1 DEF TypeOK, TokenRows, NoTokenRow
  <2>4. TypeOK' /\ Shape'
    BY <2>1, <2>3, AnswerReqs DEF TypeOK
  <2>5. RowsOK'
    BY <2>1, <2>2, <2>3, TokenLossRows DEF TypeOK
  <2>6. ReqsOK'
    <3>1. \A x \in Reqs : pc[x] = "delete" => req[x].tok \in Tokens
      BY DEF Shape, ShapeOf
    <3> QED
      BY <2>1, <2>2, <3>1, AnswerReqs DEF ReqsOK, NoTokenRow
  <2> QED
    BY <2>4, <2>5, <2>6
<1>3. CASE DeleteRefreshToken(r)
  <2> DEFINE q == [req[r] EXCEPT !.tok = NoToken]
  <2>1. /\ pc[r] = "delete" /\ req[r] \in Requests /\ req[r].tok \in Tokens
        /\ req[r].sid \in Sessions /\ req[r].user \in Users /\ req[r].op # "none"
        /\ session[req[r].sid].user = req[r].user
        /\ session[req[r].sid].st # "none"
        /\ UNCHANGED <<account, version, owed, reply>> /\ pc' = [pc EXCEPT ![r] = "touch"]
        /\ token' = [token EXCEPT ![req[r].tok] = NoTokenRow]
        /\ session' = [session EXCEPT ![req[r].sid].forked =
                         @ \/ token[req[r].tok].st = "none"]
    BY <1>3, NullAssumption DEF DeleteRefreshToken, Goto, Shape, ShapeOf, TypeOK, ReqsOK,
                                RowsOK, NoSessionRow
  <2>2. q \in Requests /\ req' = [req EXCEPT ![r] = q]
    BY <1>3, <2>1 DEF DeleteRefreshToken, Requests, TypeOK
  <2>3. ShapeOf(r)'
    BY <2>1, <2>2 DEF ShapeOf, TypeOK, Requests
  <2>4. \A s \in Sessions : /\ session'[s].user = session[s].user
                            /\ session'[s].st = session[s].st
                            /\ session'[s] \in SessionRows
                            /\ s # req[r].sid => session'[s] = session[s]
    BY <2>1 DEF TypeOK, SessionRows
  <2>5. session' \in [Sessions -> SessionRows]
    BY <2>1, <2>4 DEF TypeOK
  <2>6. token' \in [Tokens -> TokenRows]
    BY <2>1 DEF TypeOK, TokenRows, NoTokenRow
  <2>7. Shape' /\ TypeOK'
    BY <2>1, <2>2, <2>3, <2>5, <2>6, MoveShape DEF TypeOK, Pcs, StatementPcs
  <2>8. \A t \in Tokens : token'[t] = NoTokenRow \/ token'[t] = token[t]
    BY <2>1 DEF TypeOK
  <2>9. RowsOK'
    BY <2>1, <2>4, <2>5, <2>6, <2>8, TokenLossRows
  <2>10. \A x \in Reqs : /\ req'[x].sid = req[x].sid /\ req'[x].user = req[x].user
                         /\ x # r => req'[x] = req[x] /\ pc'[x] = pc[x]
    BY <2>1, <2>2 DEF TypeOK, Requests
  <2>11. \A x \in Reqs : /\ pc[x] = "delete" => req[x].tok \in Tokens
                         /\ req[x].sid \in Sessions \cup {NoSession}
    BY DEF Shape, ShapeOf, TypeOK, Requests
  <2>12. pc'[r] = "touch"
    BY <2>1 DEF TypeOK
  <2>13. ReqsOK'
    BY <2>4, <2>8, <2>10, <2>11, <2>12 DEF ReqsOK, NoTokenRow
  <2> QED
    BY <2>7, <2>9, <2>13
<1>4. CASE TouchSession(r)
  <2>1. CASE Goto(r, "save") /\ UNCHANGED req
    <3>1. ShapeOf(r)' /\ pc[r] # "idle"
      BY <1>4, <2>1 DEF TouchSession, Goto, Shape, ShapeOf, TypeOK
    <3> QED
      BY <1>4, <2>1, <3>1, GotoBase DEF TouchSession, Pcs, StatementPcs
  <2>2. CASE Answer(r, "refused")
    BY <1>4, <2>2, AnswerBase DEF TouchSession, Replies
  <2> QED
    BY <1>4, <2>1, <2>2 DEF TouchSession
<1> QED
  BY <1>1, <1>2, <1>3, <1>4

\* What revoking the sessions in S and deleting the tokens in T does to the rows.
LEMMA RevokeRows ==
    ASSUME Base, NEW S, NEW T, Revoke(S), DeleteTokens(T)
    PROVE  /\ session' \in [Sessions -> SessionRows]
           /\ token' \in [Tokens -> TokenRows]
           /\ \A s \in Sessions :
                /\ session'[s].user = session[s].user /\ session'[s].ver = session[s].ver
                /\ session'[s].forked = session[s].forked /\ session'[s].raced = session[s].raced
                /\ session'[s].issued = session[s].issued
                /\ IF s \in S /\ Live(s) THEN session'[s].st = "revoked"
                                         ELSE session'[s] = session[s]
           /\ \A t \in Tokens : token'[t] = IF t \in T THEN NoTokenRow ELSE token[t]
           /\ RowsOK'
<1> USE DEF Base, TypeOK
<1>1. \A s \in Sessions :
        /\ session'[s] \in SessionRows
        /\ session'[s].user = session[s].user /\ session'[s].ver = session[s].ver
        /\ session'[s].forked = session[s].forked /\ session'[s].raced = session[s].raced
        /\ session'[s].issued = session[s].issued
        /\ IF s \in S /\ Live(s) THEN session'[s].st = "revoked"
                                 ELSE session'[s] = session[s]
  BY DEF Revoke, SessionRows, Live
<1>2. session' \in [Sessions -> SessionRows]
  BY <1>1 DEF Revoke
<1>3. token' \in [Tokens -> TokenRows]
  BY DEF DeleteTokens, TokenRows, NoTokenRow
<1>4. \A t \in Tokens : token'[t] = IF t \in T THEN NoTokenRow ELSE token[t]
  BY DEF DeleteTokens
<1>5. \A s \in Sessions : \/ session[s].st # "none" /\ session'[s].st # "none"
                          \/ session'[s] = session[s]
  BY <1>1 DEF Live
<1>6. RowsOK'
  BY <1>1, <1>2, <1>3, <1>4, <1>5, TokenLossRows
<1> QED
  BY <1>1, <1>2, <1>3, <1>4, <1>6

\* A revocation keeps the base invariant, answered or not.
LEMMA RevokeBase ==
    ASSUME Base, NEW r \in Reqs, NEW S, NEW T, Revoke(S), DeleteTokens(T),
           account' = account, version' = version, owed' \in [Users -> BOOLEAN],
           \/ \E a \in Replies : Answer(r, a)
           \/ \E p \in {"confirm", "create_session"} :
                Goto(r, p) /\ UNCHANGED req /\ ShapeOf(r)' /\ pc[r] # "idle"
    PROVE  Base'
<1> USE DEF Base
<1>1. Shape' /\ pc' \in [Reqs -> Pcs] /\ req' \in [Reqs -> Requests] /\ reply' \in [Reqs -> Replies]
  <2>1. CASE \E a \in Replies : Answer(r, a)
    BY <2>1, AnswerReqs
  <2>2. ASSUME NEW p \in {"confirm", "create_session"},
               Goto(r, p), UNCHANGED req, ShapeOf(r)', pc[r] # "idle"
        PROVE  Shape' /\ pc' \in [Reqs -> Pcs] /\ req' \in [Reqs -> Requests] /\ reply' \in [Reqs -> Replies]
    <3>1. req[r] \in Requests /\ req' = [req EXCEPT ![r] = req[r]]
      BY <2>2 DEF TypeOK
    <3> QED
      BY <2>2, <3>1, MoveShape DEF Goto, Pcs, StatementPcs
  <2> QED
    BY <2>1, <2>2
<1>2. TypeOK' /\ RowsOK'
  BY <1>1, RevokeRows DEF TypeOK
<1>3. \A x \in Reqs : /\ req'[x].sid # NoSession =>
                           req'[x].sid = req[x].sid /\ req'[x].user = req[x].user
                      /\ pc'[x] = "delete" => pc[x] = "delete" /\ req'[x] = req[x]
  <2>1. CASE \E a \in Replies : Answer(r, a)
    BY <2>1, AnswerReqs
  <2>2. CASE \E p \in {"confirm", "create_session"} : Goto(r, p) /\ UNCHANGED req
    BY <2>2 DEF Goto, TypeOK
  <2> QED
    BY <2>1, <2>2
<1>4. \A x \in Reqs : /\ pc[x] = "delete" => req[x].tok \in Tokens
                      /\ req[x].sid \in Sessions \cup {NoSession}
  BY DEF Shape, ShapeOf, TypeOK, Requests
<1>5. ReqsOK'
  BY <1>3, <1>4, RevokeRows DEF ReqsOK, NoTokenRow
<1> QED
  BY <1>1, <1>2, <1>5

\* The authenticated requests and the reset's revocation keep the base invariant.
LEMMA DeviceBase ==
    ASSUME Base, NEW r \in Reqs,
           \/ IsSessionLive(r) \/ RevokeSession(r) \/ ConfirmRevoked(r)
           \/ RevokeOtherSessions(r) \/ RefuseOthers(r) \/ ListDevices(r)
           \/ RevokeAllSessions(r)
    PROVE  Base'
<1> USE DEF Base
<1>1. CASE IsSessionLive(r)
  <2>1. CASE Goto(r, "act") /\ UNCHANGED req
    <3>1. ShapeOf(r)' /\ pc[r] # "idle"
      BY <1>1, <2>1 DEF IsSessionLive, Goto, Shape, ShapeOf, TypeOK
    <3> QED
      BY <1>1, <2>1, <3>1, GotoBase DEF IsSessionLive, Pcs, StatementPcs
  <2>2. CASE Answer(r, "refused")
    BY <1>1, <2>2, AnswerBase DEF IsSessionLive, Replies
  <2> QED
    BY <1>1, <2>1, <2>2 DEF IsSessionLive
<1>2. CASE RevokeSession(r)
  <2>1. PICK S, T : Revoke(S) /\ DeleteTokens(T)
    BY <1>2 DEF RevokeSession
  <2>2. CASE Answer(r, "ok")
    BY <1>2, <2>1, <2>2, RevokeBase DEF RevokeSession, Replies, TypeOK
  <2>3. CASE Goto(r, "confirm") /\ UNCHANGED req
    <3>1. ShapeOf(r)' /\ pc[r] # "idle"
      BY <1>2, <2>3 DEF RevokeSession, Goto, Shape, ShapeOf, TypeOK
    <3> QED
      BY <1>2, <2>1, <2>3, <3>1, RevokeBase DEF RevokeSession, TypeOK
  <2> QED
    BY <1>2, <2>2, <2>3 DEF RevokeSession
<1>3. CASE ConfirmRevoked(r)
  <2>1. PICK a \in Replies : Answer(r, a)
    BY <1>3 DEF ConfirmRevoked, Replies
  <2> QED
    BY <1>3, <2>1, AnswerBase DEF ConfirmRevoked
<1>4. CASE RevokeOtherSessions(r)
  BY <1>4, RevokeBase DEF RevokeOtherSessions, Replies, TypeOK
<1>5. CASE RefuseOthers(r)
  BY <1>5, AnswerBase DEF RefuseOthers, Replies
<1>6. CASE ListDevices(r)
  BY <1>6, AnswerBase DEF ListDevices, Replies
<1>7. CASE RevokeAllSessions(r)
  <2>1. PICK S, T : Revoke(S) /\ DeleteTokens(T)
    BY <1>7 DEF RevokeAllSessions
  <2>2. account' = account /\ version' = version /\ owed' \in [Users -> BOOLEAN]
    BY <1>7 DEF RevokeAllSessions, TypeOK
  <2>3. CASE Answer(r, "ok")
    BY <2>1, <2>2, <2>3, RevokeBase DEF Replies
  <2>4. CASE pc[r] = "revoke_all" /\ Goto(r, "create_session") /\ UNCHANGED req
    <3>1. ShapeOf(r)'
      BY <2>4 DEF Goto, Shape, ShapeOf, TypeOK
    <3> QED
      BY <2>1, <2>2, <2>4, <3>1, RevokeBase
  <2> QED
    BY <1>7, <2>3, <2>4 DEF RevokeAllSessions
<1> QED
  BY <1>1, <1>2, <1>3, <1>4, <1>5, <1>6, <1>7

\* Expiry of a refresh token keeps the base invariant.
LEMMA ExpireBase == ASSUME Base, NEW t \in Tokens, Expire(t) PROVE Base'
<1> USE DEF Base, Expire
<1>1. token'[t] \in TokenRows /\ token'[t].st = "expired" /\ token'[t].user = token[t].user
      /\ token'[t].sid = token[t].sid /\ \A x \in Tokens \ {t} : token'[x] = token[x]
  BY DEF TypeOK, TokenRows
<1>2. token' \in [Tokens -> TokenRows]
  BY <1>1 DEF TypeOK
<1>3. TypeOK' /\ Shape'
  BY <1>2 DEF TypeOK, Shape, ShapeOf
<1>4. RowsOK'
  BY <1>1, <1>2, TokenLossRows DEF TypeOK
<1>5. ReqsOK'
  <2>1. \A x \in Reqs : pc[x] = "delete" => req[x].tok \in Tokens
    BY DEF Shape, ShapeOf
  <2> QED
    BY <1>1, <2>1 DEF ReqsOK
<1> QED
  BY <1>3, <1>4, <1>5

\* The base invariant is inductive.
LEMMA BaseStep == Base /\ [Next]_vars => Base'
<1> SUFFICES ASSUME Base, [Next]_vars PROVE Base'
  OBVIOUS
<1>1. ASSUME NEW r \in Reqs, Arrive(r) PROVE Base'
  BY <1>1, ArriveBase
<1>2. ASSUME NEW r \in Reqs, Step(r) PROVE Base'
  BY <1>2, SignInBase, CreateSessionBase, SaveBase, RefreshBase, DeviceBase DEF Step
<1>3. ASSUME NEW r \in Reqs, Fail(r) PROVE Base'
  BY <1>3, AnswerBase DEF Fail, Replies
<1>4. ASSUME NEW t \in Tokens, Expire(t) PROVE Base'
  BY <1>4, ExpireBase
<1>5. CASE UNCHANGED vars
  BY <1>5 DEF vars, Base, TypeOK, Shape, ShapeOf, RowsOK, ReqsOK
<1> QED
  BY <1>1, <1>2, <1>3, <1>4, <1>5 DEF Next

\* The tables and the requests keep their types, and rows their owners.
THEOREM TypeCorrect == Spec => [](TypeOK /\ RowsOK /\ ReqsOK)
<1>1. Init => Base
  BY InitOK DEF Base
<1>2. Base => TypeOK /\ RowsOK /\ ReqsOK
  BY DEF Base
<1> QED
  BY <1>1, <1>2, BaseStep, PTL DEF Spec

-----------------------------------------------------------------------------
(* Which steps leave alone what the token and password invariants look at. *)

\* Token rows only go, nobody starts minting, and forks are remembered.
Quiet ==
    /\ \A s \in Sessions : Rows(s)' \subseteq Rows(s)
    /\ \A r \in Reqs, s \in Sessions : Minting(r, s)' => Minting(r, s)
    /\ \A s \in Sessions : session[s].forked => session'[s].forked

\* No session is opened, and none changes what it proved.
SessionsKept ==
    /\ UNCHANGED version
    /\ \A s \in Sessions :
         /\ Live(s)' => Live(s)
         /\ Live(s) => /\ session'[s].user = session[s].user /\ session'[s].ver = session[s].ver
                       /\ session'[s].raced = session[s].raced

\* An answer starts no minting.
LEMMA AnswerQuiet ==
    ASSUME Base, NEW r \in Reqs, NEW a \in Replies, Answer(r, a)
    PROVE  \A x \in Reqs, s \in Sessions : Minting(x, s)' => Minting(x, s)
BY AnswerReqs, NullAssumption DEF Minting

\* Arrivals, failures and expiry are quiet and keep the sessions.
LEMMA ArriveQuiet ==
    ASSUME Base,
           \/ \E r \in Reqs : Arrive(r) \/ Fail(r)
           \/ \E t \in Tokens : Expire(t)
           \/ UNCHANGED vars
    PROVE  Quiet /\ SessionsKept /\ UNCHANGED owed
<1>1. ASSUME NEW r \in Reqs, Arrive(r) PROVE Quiet /\ SessionsKept /\ UNCHANGED owed
  <2>1. PICK p \in Pcs, q \in Requests : ArrivesAs(p, q) /\ Begin(r, p, q)
    BY <1>1, Arrival DEF Base
  <2>2. p \notin {"touch", "save"}
    BY <2>1 DEF ArrivesAs
  <2>3. \A x \in Reqs, s \in Sessions : Minting(x, s)' => Minting(x, s)
    BY <2>1, <2>2 DEF Begin, Minting, Base, TypeOK
  <2> QED
    BY <2>1, <2>3 DEF Begin, Quiet, SessionsKept, Rows, Live
<1>2. ASSUME NEW r \in Reqs, Fail(r) PROVE Quiet /\ SessionsKept /\ UNCHANGED owed
  BY <1>2, AnswerQuiet DEF Fail, Replies, Quiet, SessionsKept, Rows, Live
<1>3. ASSUME NEW t \in Tokens, Expire(t) PROVE Quiet /\ SessionsKept /\ UNCHANGED owed
  <2>1. \A x \in Tokens : token'[x].sid = token[x].sid
                          /\ (token[x].st = "none" => token'[x].st = "none")
    BY <1>3 DEF Expire, Base, TypeOK, TokenRows
  <2> QED
    BY <1>3, <2>1 DEF Expire, Quiet, SessionsKept, Rows, Live, Minting
<1>4. CASE UNCHANGED vars
  BY <1>4 DEF vars, Quiet, SessionsKept, Rows, Live, Minting
<1> QED
  BY <1>1, <1>2, <1>3, <1>4

\* A request that moves without touching session and token rows, and not to a
\* minting label unless it was at one, is quiet.
LEMMA MoveQuiet ==
    ASSUME Base, NEW r \in Reqs, NEW p \in Pcs, NEW q,
           pc' = [pc EXCEPT ![r] = p], req' = [req EXCEPT ![r] = q],
           p \in {"touch", "save"} => pc[r] \in {"touch", "save"} /\ q = req[r],
           UNCHANGED <<session, token>>
    PROVE  Quiet
<1>1. \A x \in Reqs, s \in Sessions : Minting(x, s)' => Minting(x, s)
  BY DEF Minting, Base, TypeOK
<1> QED
  BY <1>1 DEF Quiet, Rows

\* The steps that read, decide and create accounts are quiet.
LEMMA ReadQuiet ==
    ASSUME Base, NEW r \in Reqs,
           \/ GoogleLookup(r) \/ SignUpLookup(r) \/ SignInLookup(r) \/ CreateUser(r)
           \/ UpdatePassword(r) \/ GetRefreshToken(r) \/ TouchSession(r)
           \/ IsSessionLive(r) \/ ConfirmRevoked(r) \/ RefuseOthers(r) \/ ListDevices(r)
    PROVE  Quiet /\ UNCHANGED session /\ (UpdatePassword(r) \/ UNCHANGED <<version, owed>>)
<1> USE DEF Replies, Pcs, StatementPcs
<1>1. UNCHANGED <<session, token>> /\ (UpdatePassword(r) \/ UNCHANGED <<version, owed>>)
  BY DEF GoogleLookup, SignUpLookup, SignInLookup, CreateUser, UpdatePassword,
         GetRefreshToken, TouchSession, IsSessionLive, ConfirmRevoked, RefuseOthers, ListDevices
<1>2. CASE \E a \in Replies : Answer(r, a)
  BY <1>1, <1>2, AnswerQuiet DEF Quiet, Rows
<1>3. CASE Accepts(r)
  BY <1>1, <1>3, MoveQuiet DEF Accepts
<1>4. CASE UNCHANGED req /\ \E p \in {"create_user", "act"} : Goto(r, p)
  <2>1. req' = [req EXCEPT ![r] = req[r]]
    BY <1>4 DEF Base, TypeOK
  <2> QED
    BY <1>1, <1>4, <2>1, MoveQuiet DEF Goto
<1>5. CASE GoogleLookup(r) \/ SignUpLookup(r) \/ SignInLookup(r)
  BY <1>1, <1>2, <1>3, <1>4, <1>5 DEF GoogleLookup, SignUpLookup, SignInLookup
<1>6. CASE CreateUser(r)
  BY <1>1, <1>2, <1>3, <1>6 DEF CreateUser
<1>7. CASE UpdatePassword(r)
  BY <1>1, <1>7, MoveQuiet DEF UpdatePassword, Goto
<1>8. CASE GetRefreshToken(r)
  <2>1. CASE Answer(r, "refused")
    BY <1>1, <1>2, <2>1
  <2>2. CASE \E p \in {"drop", "delete"} : \E q :
               Goto(r, p) /\ req' = [req EXCEPT ![r] = q]
    BY <1>1, <2>2, MoveQuiet DEF Goto
  <2>3. ASSUME ~Answer(r, "refused") PROVE \E p \in {"drop", "delete"} : \E q :
               Goto(r, p) /\ req' = [req EXCEPT ![r] = q]
    BY <1>8, <2>3 DEF GetRefreshToken
  <2> QED
    BY <2>1, <2>2, <2>3
<1>9. CASE TouchSession(r)
  <2>1. CASE Goto(r, "save") /\ UNCHANGED req
    <3>1. req' = [req EXCEPT ![r] = req[r]] /\ pc[r] = "touch"
      BY <1>9, <2>1 DEF Base, TypeOK, TouchSession
    <3> QED
      BY <1>1, <2>1, <3>1, MoveQuiet DEF Goto
  <2> QED
    BY <1>1, <1>2, <1>9, <2>1 DEF TouchSession
<1>10. CASE IsSessionLive(r)
  BY <1>1, <1>2, <1>4, <1>10 DEF IsSessionLive
<1>11. CASE ConfirmRevoked(r) \/ RefuseOthers(r) \/ ListDevices(r)
  BY <1>1, <1>2, <1>11 DEF ConfirmRevoked, RefuseOthers, ListDevices
<1> QED
  BY <1>5, <1>6, <1>7, <1>8, <1>9, <1>10, <1>11

\* So are the revocations and the delete of an expired token.
LEMMA RevokeQuiet ==
    ASSUME Base, NEW r \in Reqs,
           RevokeSession(r) \/ RevokeOtherSessions(r) \/ RevokeAllSessions(r) \/ DropExpired(r)
    PROVE  Quiet /\ SessionsKept
<1>1. \A x \in Reqs, s \in Sessions : Minting(x, s)' => Minting(x, s)
  <2>1. CASE \E a \in Replies : Answer(r, a)
    BY <2>1, AnswerQuiet
  <2>2. CASE UNCHANGED req /\ \E p \in {"confirm", "create_session"} : Goto(r, p)
    BY <2>2 DEF Goto, Minting, Base, TypeOK
  <2>3. (\E a \in Replies : Answer(r, a))
        \/ (UNCHANGED req /\ \E p \in {"confirm", "create_session"} : Goto(r, p))
    BY DEF RevokeSession, RevokeOtherSessions, RevokeAllSessions, DropExpired, Replies
  <2> QED
    BY <2>1, <2>2, <2>3
<1>2. CASE \E S, T : Revoke(S) /\ DeleteTokens(T)
  <2>1. UNCHANGED version
    BY <1>2 DEF RevokeSession, RevokeOtherSessions, RevokeAllSessions, DropExpired
  <2>2. PICK S, T : Revoke(S) /\ DeleteTokens(T)
    BY <1>2
  <2> QED
    BY <2>1, <2>2, <1>1, RevokeRows DEF Quiet, SessionsKept, Rows, Live, NoTokenRow
<1>3. CASE DropExpired(r)
  <2>1. \A t \in Tokens : token'[t] = NoTokenRow \/ token'[t] = token[t]
    BY <1>3 DEF DropExpired, Base, TypeOK
  <2> QED
    BY <1>1, <1>3, <2>1 DEF DropExpired, Quiet, SessionsKept, Rows, Live, NoTokenRow
<1> QED
  BY <1>2, <1>3 DEF RevokeSession, RevokeOtherSessions, RevokeAllSessions

\* Every step is quiet, opens a session, saves a token or spends one.
LEMMA StepKinds ==
    ASSUME Base, [Next]_vars
    PROVE  \/ Quiet
           \/ \E r \in Reqs : CreateSession(r) \/ SaveRefreshToken(r) \/ DeleteRefreshToken(r)
BY ArriveQuiet, ReadQuiet, RevokeQuiet DEF Next, Step

-----------------------------------------------------------------------------
(* One refresh token per session.                                          *)

\* The invariant is inductive on top of the base invariant.
LEMMA OneTokenStep == Base /\ OneTokenUnlessForked /\ [Next]_vars => OneTokenUnlessForked'
<1> SUFFICES ASSUME Base, OneTokenUnlessForked, [Next]_vars PROVE OneTokenUnlessForked'
  OBVIOUS
<1>1. CASE Quiet
  BY <1>1 DEF Quiet, OneTokenUnlessForked, Base, TypeOK, SessionRows
<1>2. ASSUME NEW r \in Reqs, CreateSession(r) PROVE OneTokenUnlessForked'
  <2>1. PICK s \in Sessions :
          /\ session[s].st = "none"
          /\ req' = [req EXCEPT ![r].sid = s]
          /\ \A x \in Sessions \ {s} : session'[x] = session[x]
    BY <1>2 DEF CreateSession, Base, TypeOK
  <2>2. UNCHANGED token /\ pc' = [pc EXCEPT ![r] = "save"]
    BY <1>2 DEF CreateSession, Goto
  <2>3. Rows(s) = {} /\ \A x \in Reqs : ~Minting(x, s)
    <3>1. session[s].user = NoUser
      BY <2>1 DEF Base, RowsOK, NoSessionRow
    <3>2. \A x \in Reqs : Minting(x, s) => req[x].user \in Users
      BY DEF Minting, Base, Shape, ShapeOf
    <3> QED
      BY <3>1, <3>2, NullAssumption DEF Base, RowsOK, ReqsOK, Rows, Minting
  <2>4. \A x \in Sessions : Rows(x)' = Rows(x)
    BY <2>2 DEF Rows
  <2>5. \A x \in Reqs, y \in Sessions :
          Minting(x, y)' => (IF x = r THEN y = s ELSE Minting(x, y) /\ y # s)
    BY <2>1, <2>2, <2>3 DEF Minting, Base, TypeOK, Requests
  <2> QED
    BY <2>1, <2>3, <2>4, <2>5 DEF OneTokenUnlessForked
<1>3. ASSUME NEW r \in Reqs, SaveRefreshToken(r) PROVE OneTokenUnlessForked'
  <2>1. PICK t \in Tokens :
          /\ token' = [x \in Tokens |->
               IF x = t
               THEN [st |-> "live", user |-> req[r].user, sid |-> req[r].sid]
               ELSE IF token[x].st = "expired" /\ token[x].user = req[r].user
               THEN NoTokenRow
               ELSE token[x]]
    BY <1>3 DEF SaveRefreshToken
  <2>2. Minting(r, req[r].sid) /\ req[r].sid \in Sessions
    BY <1>3 DEF SaveRefreshToken, Minting, Base, Shape, ShapeOf
  <2>3. \A x \in Sessions : session'[x].forked = session[x].forked
    BY <1>3, <2>2 DEF SaveRefreshToken, Base, TypeOK, SessionRows
  <2>4. \A x \in Reqs, y \in Sessions : Minting(x, y)' => Minting(x, y) /\ x # r
    BY <1>3, AnswerReqs, NullAssumption DEF SaveRefreshToken, Minting, Replies
  <2>5. \A y \in Sessions : Rows(y)' \subseteq Rows(y) \cup {x \in {t} : y = req[r].sid}
    BY <2>1 DEF Rows, NoTokenRow
  <2> QED
    BY <2>2, <2>3, <2>4, <2>5 DEF OneTokenUnlessForked
<1>4. ASSUME NEW r \in Reqs, DeleteRefreshToken(r) PROVE OneTokenUnlessForked'
  <2>0. PICK s \in Sessions, t \in Tokens : s = req[r].sid /\ t = req[r].tok
    BY <1>4 DEF DeleteRefreshToken, Base, Shape, ShapeOf
  <2>1. /\ pc[r] = "delete" /\ s = req[r].sid /\ t = req[r].tok /\ t \in Tokens /\ s \in Sessions
        /\ token' = [token EXCEPT ![t] = NoTokenRow]
        /\ pc' = [pc EXCEPT ![r] = "touch"]
        /\ req' = [req EXCEPT ![r].tok = NoToken]
    BY <1>4, <2>0 DEF DeleteRefreshToken, Goto, Base, Shape, ShapeOf
  <2>2. \A x \in Sessions : session'[x].forked =
          IF x = s THEN session[x].forked \/ token[t].st = "none" ELSE session[x].forked
    BY <1>4, <2>1 DEF DeleteRefreshToken, Base, TypeOK, SessionRows
  <2>3. \A x \in Reqs, y \in Sessions :
          Minting(x, y)' => (IF x = r THEN y = s ELSE Minting(x, y))
    BY <2>1 DEF Minting, Base, TypeOK, Requests
  <2>4. \A y \in Sessions : Rows(y)' = Rows(y) \ {t}
    BY <2>1 DEF Rows, NoTokenRow, Base, TypeOK
  <2>5. ASSUME token[t].st # "none" PROVE t \in Rows(s)
    BY <2>1, <2>5 DEF Rows, Base, ReqsOK
  <2>6. ASSUME NEW y \in Sessions, ~session'[y].forked, y # s
        PROVE  /\ \A t1, t2 \in Rows(y)' : t1 = t2
               /\ \A r1, r2 \in Reqs : Minting(r1, y)' /\ Minting(r2, y)' => r1 = r2
               /\ \A t1 \in Rows(y)', r1 \in Reqs : ~Minting(r1, y)'
    BY <2>2, <2>3, <2>4, <2>6 DEF OneTokenUnlessForked
  <2>7. ASSUME ~session'[s].forked
        PROVE  /\ Rows(s)' = {}
               /\ \A r1 \in Reqs : Minting(r1, s)' => r1 = r
    <3>1. t \in Rows(s) /\ ~session[s].forked
      BY <2>1, <2>2, <2>5, <2>7
    <3> QED
      BY <2>1, <2>3, <2>4, <3>1 DEF OneTokenUnlessForked
  <2>8. ASSUME NEW y \in Sessions, ~session'[y].forked
        PROVE  /\ \A t1, t2 \in Rows(y)' : t1 = t2
               /\ \A r1, r2 \in Reqs : Minting(r1, y)' /\ Minting(r2, y)' => r1 = r2
               /\ \A t1 \in Rows(y)', r1 \in Reqs : ~Minting(r1, y)'
    <3>1. CASE y = s
      BY <2>7, <2>8, <3>1
    <3> QED
      BY <2>6, <2>8, <3>1
  <2> QED
    BY <2>8 DEF OneTokenUnlessForked
<1> QED
  BY <1>1, <1>2, <1>3, <1>4, StepKinds

\* A session never has two refresh tokens unless two refreshes overlapped on one.
THEOREM OneToken == Spec => []OneTokenUnlessForked
<1>1. Init => Base /\ OneTokenUnlessForked
  BY InitOK DEF Base, Init, OneTokenUnlessForked, Rows, Minting, NoTokenRow, NoRequest
<1> QED
  BY <1>1, BaseStep, OneTokenStep, PTL DEF Spec

-----------------------------------------------------------------------------
(* Sessions opened with a password that was replaced since.                *)

\* The invariant is inductive on top of the base invariant.
LEMMA StaleStep == Base /\ StaleSessionsRaced /\ [Next]_vars => StaleSessionsRaced'
<1> SUFFICES ASSUME Base, StaleSessionsRaced, [Next]_vars PROVE StaleSessionsRaced'
  OBVIOUS
<1> USE DEF StaleSessionsRaced
<1>0. \A s \in Sessions : Live(s) => session[s].user \in Users
  BY DEF Live, Base, RowsOK
<1>1. CASE SessionsKept /\ UNCHANGED owed
  BY <1>1 DEF SessionsKept
<1>2. ASSUME NEW r \in Reqs,
             RevokeSession(r) \/ RevokeOtherSessions(r) \/ DropExpired(r)
      PROVE  StaleSessionsRaced'
  BY <1>1, <1>2, RevokeQuiet DEF RevokeSession, RevokeOtherSessions, DropExpired
<1>3. ASSUME NEW r \in Reqs, RevokeAllSessions(r) PROVE StaleSessionsRaced'
  <2>1. /\ version' = version /\ owed' = [owed EXCEPT ![req[r].user] = FALSE]
        /\ Revoke(SessionsOf(req[r].user)) /\ DeleteTokens(TokensOf(req[r].user))
    BY <1>3 DEF RevokeAllSessions
  <2>2. \A s \in Sessions :
          /\ session'[s].user = session[s].user /\ session'[s].ver = session[s].ver
          /\ session'[s].raced = session[s].raced
          /\ Live(s)' => Live(s) /\ session[s].user # req[r].user
    BY <2>1, RevokeRows DEF SessionsOf, Live
  <2> QED
    BY <1>0, <2>1, <2>2 DEF Base, TypeOK
<1>4. ASSUME NEW r \in Reqs, UpdatePassword(r) PROVE StaleSessionsRaced'
  <2>1. /\ version' = [version EXCEPT ![req[r].user] = @ + 1]
        /\ owed' = [owed EXCEPT ![req[r].user] = TRUE] /\ UNCHANGED session
    BY <1>4 DEF UpdatePassword
  <2> QED
    BY <1>0, <2>1 DEF Live, Base, TypeOK
<1>5. ASSUME NEW r \in Reqs, CreateSession(r) PROVE StaleSessionsRaced'
  <2>1. PICK s \in Sessions : session' = [session EXCEPT ![s] =
              [NoSessionRow EXCEPT !.st = "live", !.user = req[r].user,
                !.ver = req[r].ver, !.raced = req[r].ver # version[req[r].user]]]
    BY <1>5 DEF CreateSession
  <2>2. UNCHANGED <<version, owed>>
    BY <1>5 DEF CreateSession
  <2>3. \A x \in Sessions \ {s} : session'[x] = session[x]
    BY <2>1 DEF Base, TypeOK
  <2>4. /\ session'[s].user = req[r].user /\ session'[s].ver = req[r].ver
        /\ session'[s].raced = (req[r].ver # version[req[r].user])
    BY <2>1 DEF NoSessionRow, Base, TypeOK
  <2> QED
    BY <2>2, <2>3, <2>4 DEF Live
<1>6. ASSUME NEW r \in Reqs, SaveRefreshToken(r) \/ DeleteRefreshToken(r)
      PROVE  StaleSessionsRaced'
  <2>1. UNCHANGED <<version, owed>>
    BY <1>6 DEF SaveRefreshToken, DeleteRefreshToken
  <2>2. \A x \in Sessions :
          /\ session'[x].st = session[x].st /\ session'[x].user = session[x].user
          /\ session'[x].ver = session[x].ver /\ session'[x].raced = session[x].raced
    BY <1>6 DEF SaveRefreshToken, DeleteRefreshToken, Base, TypeOK, SessionRows
  <2> QED
    BY <2>1, <2>2 DEF Live
<1>7. CASE \E r \in Reqs : UNCHANGED <<version, owed, session>>
  BY <1>7 DEF Live
<1>8. CASE UNCHANGED vars
  BY <1>1, <1>8, ArriveQuiet
<1> QED
  BY <1>1, <1>2, <1>3, <1>4, <1>5, <1>6, <1>7, <1>8, ArriveQuiet, ReadQuiet DEF Next, Step

\* A live session proved the current password, is about to be revoked, or its
\* sign-in overlapped the replacement.
THEOREM StaleRaced == Spec => []StaleSessionsRaced
<1>1. Init => Base /\ StaleSessionsRaced
  BY InitOK DEF Base, Init, StaleSessionsRaced, Live, NoSessionRow
<1> QED
  BY <1>1, BaseStep, StaleStep, PTL DEF Spec

-----------------------------------------------------------------------------
(* Nothing locks a listed device out while statements succeed.             *)

\* Without ageing no token is ever marked expired, so none is dropped.
NoneExpired ==
    ~TokensAge => /\ \A t \in Tokens : token[t].st # "expired"
                  /\ \A r \in Reqs : pc[r] # "drop"

Kept(s) == Rows(s) # {} \/ \E r \in Reqs : Minting(r, s)

\* NoneExpired is inductive.
LEMMA NoneExpiredStep == Base /\ NoneExpired /\ [Next]_vars => NoneExpired'
<1> SUFFICES ASSUME Base, NoneExpired, [Next]_vars, ~TokensAge PROVE NoneExpired'
  BY DEF NoneExpired
<1> USE DEF NoneExpired
<1>1. ASSUME NEW r \in Reqs, NEW p \in Pcs \ {"drop"}, pc' = [pc EXCEPT ![r] = p],
             \A t \in Tokens : token'[t].st # "expired"
      PROVE  NoneExpired'
  BY <1>1 DEF Base, TypeOK
<1>2. ASSUME NEW r \in Reqs, Arrive(r) PROVE NoneExpired'
  <2>1. PICK p \in Pcs, q \in Requests : ArrivesAs(p, q) /\ Begin(r, p, q)
    BY <1>2, Arrival DEF Base
  <2> QED
    BY <1>1, <2>1 DEF ArrivesAs, Begin
<1>3. ASSUME NEW r \in Reqs, SaveRefreshToken(r) PROVE NoneExpired'
  <2>1. \A t \in Tokens : token'[t].st # "expired"
    BY <1>3 DEF SaveRefreshToken, NoTokenRow
  <2> QED
    BY <1>1, <1>3, <2>1 DEF SaveRefreshToken, Answer, Pcs
<1>4. ASSUME NEW r \in Reqs, DeleteRefreshToken(r) PROVE NoneExpired'
  <2>1. \A t \in Tokens : token'[t].st # "expired"
    BY <1>4 DEF DeleteRefreshToken, NoTokenRow, Base, TypeOK
  <2> QED
    BY <1>1, <1>4, <2>1 DEF DeleteRefreshToken, Goto, Pcs, StatementPcs
<1>5. ASSUME NEW r \in Reqs, NEW S, NEW T, Revoke(S), DeleteTokens(T),
             NEW p \in Pcs \ {"drop"}, pc' = [pc EXCEPT ![r] = p]
      PROVE  NoneExpired'
  <2>1. \A t \in Tokens : token'[t].st # "expired"
    BY <1>5 DEF DeleteTokens, NoTokenRow
  <2> QED
    BY <1>1, <1>5, <2>1
<1>6. ASSUME NEW r \in Reqs,
             RevokeSession(r) \/ RevokeOtherSessions(r) \/ RevokeAllSessions(r)
      PROVE  NoneExpired'
  <2>1. PICK S, T : Revoke(S) /\ DeleteTokens(T)
    BY <1>6 DEF RevokeSession, RevokeOtherSessions, RevokeAllSessions
  <2>2. PICK p \in Pcs \ {"drop"} : pc' = [pc EXCEPT ![r] = p]
    BY <1>6 DEF RevokeSession, RevokeOtherSessions, RevokeAllSessions, Answer, Goto,
                Pcs, StatementPcs
  <2> QED
    BY <1>5, <2>1, <2>2
<1>7. ASSUME NEW r \in Reqs, UNCHANGED token,
             \E p \in Pcs \ {"drop"} : pc' = [pc EXCEPT ![r] = p]
      PROVE  NoneExpired'
  BY <1>1, <1>7
<1>8. ASSUME NEW r \in Reqs,
             \/ GoogleLookup(r) \/ SignUpLookup(r) \/ SignInLookup(r) \/ CreateUser(r)
             \/ CreateSession(r) \/ UpdatePassword(r)
      PROVE  NoneExpired'
  BY <1>7, <1>8 DEF GoogleLookup, SignUpLookup, SignInLookup, CreateUser, CreateSession,
                    UpdatePassword, Answer, Accepts, Goto, Pcs, StatementPcs
<1>9. ASSUME NEW r \in Reqs,
             \/ TouchSession(r) \/ IsSessionLive(r) \/ ConfirmRevoked(r)
             \/ RefuseOthers(r) \/ ListDevices(r) \/ Fail(r)
      PROVE  NoneExpired'
  BY <1>7, <1>9 DEF TouchSession, IsSessionLive, ConfirmRevoked,
                    RefuseOthers, ListDevices, Fail, Answer, Goto, Pcs, StatementPcs
<1>10. ASSUME NEW r \in Reqs, GetRefreshToken(r) PROVE NoneExpired'
  <2>1. token[req[r].tok].st # "expired"
    BY <1>10 DEF GetRefreshToken, Base, Shape, ShapeOf
  <2> QED
    BY <1>7, <1>10, <2>1 DEF GetRefreshToken, Answer, Goto, Pcs, StatementPcs
<1>11. CASE UNCHANGED vars
  BY <1>11 DEF vars
<1> QED
  BY <1>2, <1>3, <1>4, <1>6, <1>8, <1>9, <1>10, <1>11 DEF Next, Step, DropExpired, Expire

\* A live session that had a token or a minting request still has one after a
\* step that takes no token of a live session and ends no minting.
LEMMA KeptStep ==
    ASSUME Base, NoneExpired, ~DbMayFail, ~TokensAge, Next, NEW s \in Sessions,
           Live(s), Live(s)', Kept(s)
    PROVE  Kept(s)'
<1> USE DEF Kept
<1>1. ASSUME \A x \in Reqs : Minting(x, s) => Minting(x, s)', Rows(s) \subseteq Rows(s)'
      PROVE  Kept(s)'
  BY <1>1
<1>2. ASSUME NEW r \in Reqs, pc[r] \notin {"touch", "save"}, NEW p, NEW q,
             pc' = [pc EXCEPT ![r] = p], req' = [req EXCEPT ![r] = q],
             Rows(s) \subseteq Rows(s)'
      PROVE  Kept(s)'
  BY <1>1, <1>2 DEF Minting, Base, TypeOK
<1>3. ASSUME NEW r \in Reqs, pc[r] \notin {"touch", "save"}, NEW p, NEW q,
             pc' = [pc EXCEPT ![r] = p], req' = [req EXCEPT ![r] = q],
             UNCHANGED token
      PROVE  Kept(s)'
  BY <1>2, <1>3 DEF Rows
<1>4. req = [x \in Reqs |-> req[x]] /\ \A r \in Reqs : req = [req EXCEPT ![r] = req[r]]
  BY DEF Base, TypeOK
<1>5. ASSUME NEW r \in Reqs, Arrive(r) PROVE Kept(s)'
  <2>1. PICK p \in Pcs, q \in Requests : Begin(r, p, q)
    BY <1>5, Arrival DEF Base
  <2> QED
    BY <1>3, <2>1 DEF Begin
<1>6. ASSUME NEW r \in Reqs,
             \/ GoogleLookup(r) \/ SignUpLookup(r) \/ SignInLookup(r) \/ CreateUser(r)
             \/ CreateSession(r) \/ UpdatePassword(r)
      PROVE  Kept(s)'
  BY <1>3, <1>4, <1>6 DEF GoogleLookup, SignUpLookup, SignInLookup, CreateUser,
                          CreateSession, UpdatePassword, Answer, Accepts, Goto
<1>7. ASSUME NEW r \in Reqs,
             \/ GetRefreshToken(r) \/ IsSessionLive(r) \/ ConfirmRevoked(r)
             \/ RefuseOthers(r) \/ ListDevices(r)
      PROVE  Kept(s)'
  BY <1>3, <1>4, <1>7 DEF GetRefreshToken, IsSessionLive, ConfirmRevoked,
                          RefuseOthers, ListDevices, Answer, Goto
<1>8. ASSUME NEW r \in Reqs, SaveRefreshToken(r) PROVE Kept(s)'
  <2>1. PICK t \in Tokens :
          /\ FreeToken(t)
          /\ token' = [x \in Tokens |->
               IF x = t
               THEN [st |-> "live", user |-> req[r].user, sid |-> req[r].sid]
               ELSE IF token[x].st = "expired" /\ token[x].user = req[r].user
               THEN NoTokenRow
               ELSE token[x]]
    BY <1>8 DEF SaveRefreshToken
  <2>2. Rows(s) \subseteq Rows(s)'
    BY <2>1 DEF Rows, NoneExpired, FreeToken
  <2>3. CASE req[r].sid = s
    BY <2>1, <2>3 DEF Rows
  <2>4. CASE req[r].sid # s
    BY <1>1, <1>8, <2>2, <2>4 DEF SaveRefreshToken, Answer, Minting, Base, TypeOK
  <2> QED
    BY <2>3, <2>4
<1>9. ASSUME NEW r \in Reqs, DeleteRefreshToken(r) PROVE Kept(s)'
  <2>1. PICK t \in Tokens : /\ t = req[r].tok /\ token' = [token EXCEPT ![t] = NoTokenRow]
                            /\ token[t].st # "none" => token[t].sid = req[r].sid
    BY <1>9 DEF DeleteRefreshToken, Base, Shape, ShapeOf, ReqsOK
  <2>2. /\ pc[r] = "delete" /\ pc' = [pc EXCEPT ![r] = "touch"]
        /\ req' = [req EXCEPT ![r] = [req[r] EXCEPT !.tok = NoToken]]
    BY <1>9 DEF DeleteRefreshToken, Goto
  <2>3. CASE req[r].sid = s
    BY <2>2, <2>3 DEF Minting, Base, TypeOK, Requests
  <2>4. CASE req[r].sid # s
    <3>1. Rows(s) \subseteq Rows(s)'
      BY <2>1, <2>4 DEF Rows, Base, TypeOK
    <3> QED
      BY <1>2, <2>2, <3>1
  <2> QED
    BY <2>3, <2>4
<1>10. ASSUME NEW r \in Reqs, TouchSession(r) PROVE Kept(s)'
  <2>1. CASE req[r].sid = s
    BY <1>10, <2>1 DEF TouchSession, Goto, Minting, Base, TypeOK
  <2>2. CASE req[r].sid # s
    <3>1. \A x \in Reqs \ {r} : req'[x] = req[x] /\ pc'[x] = pc[x]
      BY <1>10 DEF TouchSession, Goto, Answer, Base, TypeOK
    <3> QED
      BY <1>1, <1>10, <2>2, <3>1 DEF TouchSession, Minting, Rows
  <2> QED
    BY <2>1, <2>2
<1>11. ASSUME NEW r \in Reqs, NEW S, NEW T, Revoke(S), DeleteTokens(T),
              \A t \in T : t \in Tokens /\ token[t].sid = s => s \in S,
              \/ UNCHANGED req /\ \E p : Goto(r, p)
              \/ Answer(r, "ok"),
              pc[r] \in {"act", "revoke_all"}
       PROVE  Kept(s)'
  <2>1. s \notin S
    BY <1>11, RevokeRows DEF Live
  <2>2. Rows(s) \subseteq Rows(s)'
    BY <1>11, <2>1, RevokeRows DEF Rows
  <2> QED
    BY <1>2, <1>4, <1>11, <2>2 DEF Goto, Answer
<1>12. ASSUME NEW r \in Reqs, RevokeSession(r) PROVE Kept(s)'
  BY <1>11, <1>12 DEF RevokeSession, Rows
<1>13. ASSUME NEW r \in Reqs, req[r].user \in Users,
              NEW t \in TokensOf(req[r].user), token[t].sid = s
       PROVE  t \in Tokens /\ s \in SessionsOf(req[r].user)
  BY <1>13, NullAssumption DEF TokensOf, SessionsOf, Base, RowsOK, NoTokenRow
<1>14. ASSUME NEW r \in Reqs, RevokeOtherSessions(r) PROVE Kept(s)'
  <2>1. pc[r] = "act" /\ req[r].user \in Users /\ Answer(r, "ok")
        /\ Revoke(SessionsOf(req[r].user) \ {req[r].sid})
        /\ DeleteTokens({t \in TokensOf(req[r].user) : token[t].sid # req[r].sid})
    BY <1>14 DEF RevokeOtherSessions, Base, Shape, ShapeOf
  <2> QED
    BY <1>11, <1>13, <2>1
<1>15. ASSUME NEW r \in Reqs, RevokeAllSessions(r) PROVE Kept(s)'
  <2>1. pc[r] \in {"act", "revoke_all"} /\ req[r].user \in Users
        /\ (Answer(r, "ok") \/ (UNCHANGED req /\ \E p : Goto(r, p)))
        /\ Revoke(SessionsOf(req[r].user)) /\ DeleteTokens(TokensOf(req[r].user))
    BY <1>15 DEF RevokeAllSessions, Base, Shape, ShapeOf
  <2> QED
    BY <1>11, <1>13, <2>1
<1> QED
  BY <1>5, <1>6, <1>7, <1>8, <1>9, <1>10, <1>12, <1>14, <1>15
  DEF Next, Step, DropExpired, Fail, Expire, NoneExpired

\* The lock-out invariant is inductive on top of the others.
LEMMA HealthyStep ==
    Base /\ NoneExpired /\ HealthyDeviceKeepsToken /\ [Next]_vars => HealthyDeviceKeepsToken'
<1> SUFFICES ASSUME Base, NoneExpired, HealthyDeviceKeepsToken, [Next]_vars,
                    ~DbMayFail, ~TokensAge, NEW s \in Sessions, Live(s)'
             PROVE  Kept(s)'
  BY DEF HealthyDeviceKeepsToken, Kept
<1>1. CASE UNCHANGED vars
  BY <1>1 DEF vars, HealthyDeviceKeepsToken, Kept, Live, Rows, Minting
<1>2. CASE Next /\ Live(s)
  BY <1>2, KeptStep DEF HealthyDeviceKeepsToken, Kept
<1>3. CASE Next /\ ~Live(s)
  <2>1. ASSUME NEW r \in Reqs, ~CreateSession(r), Arrive(r) \/ Step(r) \/ Fail(r) PROVE ~Live(s)'
    <3>1. CASE SaveRefreshToken(r) \/ DeleteRefreshToken(r)
      BY <1>3, <3>1 DEF SaveRefreshToken, DeleteRefreshToken, Live, Base, TypeOK, SessionRows
    <3> QED
      BY <1>3, <2>1, <3>1, ArriveQuiet, ReadQuiet, RevokeQuiet DEF Step, SessionsKept, Live
  <2>2. ASSUME NEW t \in Tokens, Expire(t) PROVE ~Live(s)'
    BY <1>3, <2>2 DEF Expire, Live
  <2>3. PICK r \in Reqs : CreateSession(r)
    BY <1>3, <2>1, <2>2 DEF Next
  <2>4. req'[r].sid = s /\ pc'[r] = "save"
    BY <1>3, <2>3 DEF CreateSession, Goto, Live, Base, TypeOK, Requests
  <2> QED
    BY <2>4 DEF Kept, Minting
<1> QED
  BY <1>1, <1>2, <1>3

\* With statements that succeed and tokens that do not age, a listed device is
\* never locked out.
THEOREM HealthyDevice == Spec => []HealthyDeviceKeepsToken
<1>1. Init => Base /\ NoneExpired /\ HealthyDeviceKeepsToken
  BY InitOK DEF Base, Init, NoneExpired, HealthyDeviceKeepsToken, Live, NoSessionRow, NoTokenRow
<1> QED
  BY <1>1, BaseStep, NoneExpiredStep, HealthyStep, PTL DEF Spec

-----------------------------------------------------------------------------
(* The handlers implement DeviceAccess.                                    *)

\* How the abstract variables move.
LEMMA CallerKept ==
    ASSUME Base, NEW r \in Reqs, NEW p, NEW q,
           pc' = [pc EXCEPT ![r] = p], req' = [req EXCEPT ![r] = q]
    PROVE  DeviceCaller' = [DeviceCaller EXCEPT
             ![r] = IF p \in {"act", "confirm"} THEN q.sid ELSE NoSession]
BY DEF DeviceCaller, Base, TypeOK

\* An answer leaves no caller.
LEMMA AnswerCaller ==
    ASSUME Base, NEW r \in Reqs, NEW a, Answer(r, a)
    PROVE  DeviceCaller' = [DeviceCaller EXCEPT ![r] = NoSession]
<1>1. pc' = [pc EXCEPT ![r] = "idle"] /\ req' = [req EXCEPT ![r] = NoRequest]
  BY DEF Answer
<1>2. DeviceCaller' = [DeviceCaller EXCEPT
        ![r] = IF "idle" \in {"act", "confirm"} THEN NoRequest.sid ELSE NoSession]
  BY <1>1, CallerKept
<1> QED
  BY <1>2 DEF NoRequest

\* A step that neither opens nor closes a session, of a request that stays on
\* the same side of the middleware, is a stuttering step.
LEMMA DeviceStutter ==
    ASSUME Base, NEW r \in Reqs, pc[r] \notin {"act", "confirm"}, NEW p, NEW q,
           pc' = [pc EXCEPT ![r] = p], req' = [req EXCEPT ![r] = q],
           p \in {"act", "confirm"} => q.sid = NoSession,
           \A s \in Sessions : session'[s].user = session[s].user
                               /\ session'[s].st = session[s].st
    PROVE  UNCHANGED Devices!dvars
<1>1. DeviceOwner' = DeviceOwner /\ DevicesLive' = DevicesLive
  BY DEF DeviceOwner, DevicesLive, Live
<1>2. DeviceCaller' = DeviceCaller
  <2>1. (IF p \in {"act", "confirm"} THEN q.sid ELSE NoSession) = NoSession
    OBVIOUS
  <2> DEFINE c == IF p \in {"act", "confirm"} THEN q.sid ELSE NoSession
  <2>3. DeviceCaller' = [DeviceCaller EXCEPT ![r] = c]
    BY CallerKept
  <2> HIDE DEF c
  <2>4. c = NoSession
    BY <2>1 DEF c
  <2>2. DeviceCaller[r] = NoSession
    BY DEF DeviceCaller
  <2> QED
    BY <2>3, <2>4, <2>2 DEF DeviceCaller
<1> QED
  BY <1>1, <1>2 DEF Devices!dvars

\* So is an answer before the middleware has let the request in.
LEMMA AnswerStutter ==
    ASSUME Base, NEW r \in Reqs, pc[r] \notin {"act", "confirm"}, NEW a, Answer(r, a),
           \A s \in Sessions : session'[s].user = session[s].user
                               /\ session'[s].st = session[s].st
    PROVE  UNCHANGED Devices!dvars
BY DeviceStutter DEF Answer

\* A revocation by an admitted request, a legacy request or a reset is SignOut.
LEMMA DeviceSignOut ==
    ASSUME Base, NEW r \in Reqs, NEW u \in Users, req[r].user = u,
           NEW S \in SUBSET SessionsOf(u),
           \A s \in Sessions :
             /\ session'[s].user = session[s].user
             /\ Live(s)' <=> Live(s) /\ s \notin S,
           \/ DeviceCaller' = DeviceCaller
           \/ DeviceCaller' = [DeviceCaller EXCEPT ![r] = NoSession]
    PROVE  Devices!Next
<1> DEFINE D == {s \in S : Live(s)}
<1>1. DeviceOwner' = DeviceOwner
  BY DEF DeviceOwner
<1>2. D \in SUBSET Sessions /\ D \subseteq {s \in DevicesLive : DeviceOwner[s] = u}
  BY DEF DevicesLive, DeviceOwner, SessionsOf
<1>3. DevicesLive' = DevicesLive \ D
  BY DEF DevicesLive
<1>4. DeviceCaller[r] # NoSession => DeviceOwner[DeviceCaller[r]] = u
  <2>1. req[r].sid \in Sessions \cup {NoSession}
    BY DEF Base, TypeOK, Requests
  <2> QED
    BY <2>1 DEF DeviceCaller, DeviceOwner, Base, ReqsOK
<1>5. Devices!SignOut(r, u, D)
  BY <1>1, <1>2, <1>3, <1>4 DEF Devices!SignOut
<1> QED
  BY <1>2, <1>5 DEF Devices!Next

\* Every step of the handlers is a step of DeviceAccess or a stuttering step.
LEMMA DeviceStep == Base /\ [Next]_vars => [Devices!Next]_(Devices!dvars)
<1> SUFFICES ASSUME Base, [Next]_vars PROVE Devices!Next \/ UNCHANGED Devices!dvars
  OBVIOUS
<1>0. \A r \in Reqs : req = [req EXCEPT ![r] = req[r]]
  BY DEF Base, TypeOK
<1>1. ASSUME NEW r \in Reqs, Arrive(r) PROVE UNCHANGED Devices!dvars
  <2>1. PICK p \in Pcs, q \in Requests : ArrivesAs(p, q) /\ Begin(r, p, q)
    BY <1>1, Arrival DEF Base
  <2> QED
    BY <2>1, DeviceStutter DEF ArrivesAs, Begin
<1>2. ASSUME NEW r \in Reqs,
             \/ GoogleLookup(r) \/ SignUpLookup(r) \/ SignInLookup(r) \/ CreateUser(r)
             \/ UpdatePassword(r) \/ GetRefreshToken(r) \/ DropExpired(r) \/ TouchSession(r)
      PROVE  UNCHANGED Devices!dvars
  <2>1. pc[r] \notin {"act", "confirm"} /\ UNCHANGED session
    BY <1>2 DEF GoogleLookup, SignUpLookup, SignInLookup, CreateUser, UpdatePassword,
                GetRefreshToken, DropExpired, TouchSession
  <2>2. CASE Answer(r, "refused") \/ Answer(r, "error")
    BY <2>1, <2>2, AnswerStutter
  <2>3. ASSUME NEW p \in {"create_user", "create_session", "save", "revoke_all", "drop", "delete"},
               NEW q, pc' = [pc EXCEPT ![r] = p], req' = [req EXCEPT ![r] = q]
        PROVE  UNCHANGED Devices!dvars
    BY <2>1, <2>3, DeviceStutter
  <2>4. CASE Accepts(r)
    BY <2>3, <2>4 DEF Accepts
  <2>5. CASE UNCHANGED req /\ \E p \in {"create_user", "save"} : Goto(r, p)
    BY <1>0, <2>3, <2>5 DEF Goto
  <2>6. CASE UpdatePassword(r)
    BY <2>3, <2>6 DEF UpdatePassword, Goto
  <2>7. CASE GetRefreshToken(r) /\ ~Answer(r, "refused")
    BY <2>3, <2>7 DEF GetRefreshToken, Goto
  <2> QED
    BY <1>2, <2>2, <2>4, <2>5, <2>6, <2>7
    DEF GoogleLookup, SignUpLookup, SignInLookup, CreateUser, DropExpired, TouchSession
<1>3. ASSUME NEW r \in Reqs, SaveRefreshToken(r) \/ DeleteRefreshToken(r)
      PROVE  UNCHANGED Devices!dvars
  <2>1. \A s \in Sessions : session'[s].user = session[s].user /\ session'[s].st = session[s].st
    BY <1>3 DEF SaveRefreshToken, DeleteRefreshToken, Base, TypeOK, SessionRows
  <2>2. CASE SaveRefreshToken(r)
    BY <2>1, <2>2, AnswerStutter DEF SaveRefreshToken
  <2>3. CASE DeleteRefreshToken(r)
    <3>1. /\ pc[r] = "delete" /\ pc' = [pc EXCEPT ![r] = "touch"]
          /\ req' = [req EXCEPT ![r] = [req[r] EXCEPT !.tok = NoToken]]
      BY <2>3 DEF DeleteRefreshToken, Goto
    <3> QED
      BY <2>1, <3>1, DeviceStutter
  <2> QED
    BY <2>2, <2>3, <1>3
<1>4. ASSUME NEW r \in Reqs, CreateSession(r) PROVE Devices!Next
  <2>1. PICK s \in Sessions :
          /\ session[s].st = "none"
          /\ session' = [session EXCEPT ![s] =
               [NoSessionRow EXCEPT !.st = "live", !.user = req[r].user,
                 !.ver = req[r].ver, !.raced = req[r].ver # version[req[r].user]]]
          /\ req' = [req EXCEPT ![r].sid = s]
    BY <1>4 DEF CreateSession
  <2>2. pc[r] = "create_session" /\ pc' = [pc EXCEPT ![r] = "save"] /\ req[r].user \in Users
    BY <1>4 DEF CreateSession, Goto, Base, Shape, ShapeOf
  <2>3. DeviceCaller' = DeviceCaller
    BY <2>1, <2>2, CallerKept DEF DeviceCaller
  <2>4. session[s].user = NoUser
    BY <2>1 DEF Base, RowsOK, NoSessionRow
  <2>5. session'[s].user = req[r].user /\ session'[s].st = "live"
        /\ \A x \in Sessions \ {s} : session'[x] = session[x]
    BY <2>1 DEF Base, TypeOK, NoSessionRow
  <2>6. DeviceOwner' = [DeviceOwner EXCEPT ![s] = req[r].user] /\ DeviceOwner[s] = NoUser
    BY <2>4, <2>5 DEF DeviceOwner
  <2>7. DevicesLive' = DevicesLive \cup {s}
    BY <2>5 DEF DevicesLive, Live
  <2>8. Devices!SignIn(s, req[r].user)
    BY <2>3, <2>6, <2>7 DEF Devices!SignIn
  <2> QED
    BY <2>2, <2>8 DEF Devices!Next
<1>5. ASSUME NEW r \in Reqs, pc[r] \in {"act", "confirm"}, UNCHANGED session,
             NEW a, Answer(r, a)
      PROVE  Devices!Next
  <2>1. DeviceCaller' = [DeviceCaller EXCEPT ![r] = NoSession]
    BY <1>5, AnswerCaller
  <2>2. req[r].user \in Users
    BY <1>5 DEF Base, Shape, ShapeOf
  <2>3. {} \in SUBSET SessionsOf(req[r].user)
    OBVIOUS
  <2> QED
    BY <1>5, <2>1, <2>2, <2>3, DeviceSignOut DEF Live
<1>6. ASSUME NEW r \in Reqs, IsSessionLive(r) PROVE Devices!Next \/ UNCHANGED Devices!dvars
  <2>1. pc[r] = "check" /\ req[r].sid \in Sessions /\ UNCHANGED session
    BY <1>6 DEF IsSessionLive, Base, Shape, ShapeOf
  <2>2. CASE Answer(r, "refused")
    BY <2>1, <2>2, DeviceStutter DEF Answer
  <2>3. CASE Live(req[r].sid) /\ Goto(r, "act") /\ UNCHANGED req
    <3>1. DeviceCaller' = [DeviceCaller EXCEPT ![r] = req[r].sid] /\ DeviceCaller[r] = NoSession
      BY <1>0, <2>1, <2>3, CallerKept DEF Goto, DeviceCaller
    <3>2. DeviceOwner' = DeviceOwner /\ DevicesLive' = DevicesLive /\ req[r].sid \in DevicesLive
      BY <2>1, <2>3 DEF DeviceOwner, DevicesLive, Live
    <3>3. Devices!Admit(r, req[r].sid)
      BY <3>1, <3>2 DEF Devices!Admit
    <3> QED
      BY <2>1, <3>3 DEF Devices!Next
  <2> QED
    BY <1>6, <2>2, <2>3 DEF IsSessionLive
<1>7. ASSUME NEW r \in Reqs,
             RevokeSession(r) \/ RevokeOtherSessions(r) \/ RevokeAllSessions(r)
      PROVE  Devices!Next
  <2>1. req[r].user \in Users
    BY <1>7 DEF RevokeSession, RevokeOtherSessions, RevokeAllSessions, Base, Shape, ShapeOf
  <2>2. PICK S, T : S \in SUBSET SessionsOf(req[r].user) /\ Revoke(S) /\ DeleteTokens(T)
    BY <1>7 DEF RevokeSession, RevokeOtherSessions, RevokeAllSessions
  <2>3. DeviceCaller' \in {DeviceCaller, [DeviceCaller EXCEPT ![r] = NoSession]}
    <3>1. CASE Answer(r, "ok")
      <4>1. DeviceCaller' = [DeviceCaller EXCEPT ![r] = NoSession]
        BY <3>1, AnswerCaller
      <4> QED
        BY <4>1
    <3>2. CASE pc[r] = "act" /\ Goto(r, "confirm") /\ UNCHANGED req
      BY <1>0, <3>2, CallerKept DEF Goto, DeviceCaller
    <3>3. CASE pc[r] = "revoke_all" /\ Goto(r, "create_session") /\ UNCHANGED req
      BY <1>0, <3>3, CallerKept DEF Goto, DeviceCaller
    <3> QED
      BY <1>7, <3>1, <3>2, <3>3 DEF RevokeSession, RevokeOtherSessions, RevokeAllSessions
  <2>4. \A s \in Sessions : /\ session'[s].user = session[s].user
                            /\ Live(s)' <=> Live(s) /\ s \notin S
    BY <2>2, RevokeRows DEF Live
  <2> QED
    BY <2>1, <2>2, <2>3, <2>4, DeviceSignOut
<1>8. ASSUME NEW r \in Reqs, Fail(r) PROVE Devices!Next \/ UNCHANGED Devices!dvars
  <2>1. CASE pc[r] \in {"act", "confirm"}
    BY <1>5, <1>8, <2>1 DEF Fail
  <2>2. CASE pc[r] \notin {"act", "confirm"}
    BY <1>8, <2>2, DeviceStutter DEF Fail, Answer
  <2> QED
    BY <2>1, <2>2
<1>9. ASSUME NEW r \in Reqs, ConfirmRevoked(r) \/ RefuseOthers(r) \/ ListDevices(r)
      PROVE  Devices!Next
  BY <1>5, <1>9 DEF ConfirmRevoked, RefuseOthers, ListDevices
<1>10. ASSUME NEW t \in Tokens, Expire(t) PROVE UNCHANGED Devices!dvars
  BY <1>10 DEF Expire, Devices!dvars, DeviceOwner, DevicesLive, DeviceCaller, Live
<1>11. CASE UNCHANGED vars
  BY <1>11 DEF vars, Devices!dvars, DeviceOwner, DevicesLive, DeviceCaller, Live
<1> QED
  BY <1>1, <1>2, <1>3, <1>4, <1>6, <1>7, <1>8, <1>9, <1>10, <1>11 DEF Next, Step

\* The handlers, the middleware and the statements behind them implement the
\* atomic promise of DeviceAccess.
THEOREM Implements == Spec => DevicesSpec
<1>1. Init => Base /\ Devices!Init
  BY InitOK DEF Base, Init, Devices!Init, DeviceOwner, DevicesLive, DeviceCaller, Live,
                NoSessionRow
<1> QED
  BY <1>1, BaseStep, DeviceStep, PTL DEF Spec, DevicesSpec, Devices!Spec
-----------------------------------------------------------------------------
(* What a step may not do: lose a token that was not spent, or tell an      *)
(* owner something untrue about a revocation.                               *)

\* The token that a request is about to drop has expired, and stays so until
\* it is gone: its id is not given to a new row while the request holds it.
DropsExpired == \A r \in Reqs : pc[r] = "drop" => token[req[r].tok].st # "live"

\* A revocation is under way only past the middleware; its target was a row
\* when it came, and once nothing went with the target it is revoked, if it is
\* the caller's.
RevokesOK == \A r \in Reqs : req[r].op = "revoke" =>
    /\ pc[r] \in {"check", "act", "confirm"}
    /\ \A s \in Sessions : s = req[r].target =>
         /\ session[s].st # "none"
         /\ pc[r] = "confirm" /\ session[s].user = req[r].user => Revoked(s)

\* Rows of sessions stay, with their users, and revoked ones stay revoked.
RowsStay == \A s \in Sessions : session[s].st # "none" =>
    /\ session'[s].user = session[s].user
    /\ session'[s].st # "none"
    /\ Revoked(s) => session'[s].st = "revoked"

\* Every step leaves the rows of sessions that far.
LEMMA SessionsStay == Base /\ [Next]_vars => RowsStay
<1> SUFFICES ASSUME Base, [Next]_vars PROVE RowsStay
  OBVIOUS
<1>1. CASE UNCHANGED session
  BY <1>1 DEF RowsStay, Revoked
<1>2. ASSUME NEW r \in Reqs, CreateSession(r) PROVE RowsStay
  BY <1>2 DEF CreateSession, RowsStay, Revoked, Base, TypeOK
<1>3. ASSUME NEW r \in Reqs, SaveRefreshToken(r) \/ DeleteRefreshToken(r) PROVE RowsStay
  BY <1>3 DEF SaveRefreshToken, DeleteRefreshToken, RowsStay, Revoked, Base, TypeOK, SessionRows
<1>4. ASSUME NEW r \in Reqs,
             RevokeSession(r) \/ RevokeOtherSessions(r) \/ RevokeAllSessions(r)
      PROVE  RowsStay
  <2>1. PICK S, T : Revoke(S) /\ DeleteTokens(T)
    BY <1>4 DEF RevokeSession, RevokeOtherSessions, RevokeAllSessions
  <2> QED
    BY <2>1, RevokeRows DEF RowsStay, Revoked
<1>5. ASSUME NEW r \in Reqs, Arrive(r) PROVE UNCHANGED session
  BY <1>5, Arrival DEF Base, Begin
<1> QED
  BY <1>1, <1>2, <1>3, <1>4, <1>5, ReadQuiet
  DEF Next, Step, DropExpired, Fail, Expire, vars

\* A step of request r moves no other request, and r keeps its operation and
\* its target until it is answered.
LEMMA OthersWait ==
    ASSUME Base, NEW r \in Reqs, Step(r) \/ Fail(r)
    PROVE  /\ \A x \in Reqs \ {r} : pc'[x] = pc[x] /\ req'[x] = req[x]
           /\ \/ pc'[r] = "idle" /\ req'[r] = NoRequest
              \/ req'[r].op = req[r].op /\ req'[r].target = req[r].target
<1> DEFINE Others == \A x \in Reqs \ {r} : pc'[x] = pc[x] /\ req'[x] = req[x]
           Same == req'[r].op = req[r].op /\ req'[r].target = req[r].target
<1>1. ASSUME NEW a, Answer(r, a) PROVE Others /\ pc'[r] = "idle" /\ req'[r] = NoRequest
  BY <1>1 DEF Answer, Base, TypeOK
<1>2. ASSUME NEW p, Goto(r, p), UNCHANGED req PROVE Others /\ Same
  BY <1>2 DEF Goto, Base, TypeOK
<1>3. CASE Accepts(r)
  BY <1>3 DEF Accepts, Base, TypeOK, Requests
<1>4. CASE CreateSession(r) \/ DeleteRefreshToken(r) \/ UpdatePassword(r)
  BY <1>4 DEF CreateSession, DeleteRefreshToken, UpdatePassword, Goto, Base, TypeOK, Requests
<1>5. CASE GetRefreshToken(r)
  <2>1. CASE Answer(r, "refused")
    BY <1>1, <2>1
  <2>2. CASE ~Answer(r, "refused")
    BY <1>5, <2>2 DEF GetRefreshToken, Goto, Base, TypeOK, Requests
  <2> QED
    BY <2>1, <2>2
<1> HIDE DEF Others, Same
<1>6. CASE GoogleLookup(r) \/ SignUpLookup(r) \/ SignInLookup(r) \/ CreateUser(r)
  BY <1>1, <1>2, <1>3, <1>6 DEF GoogleLookup, SignUpLookup, SignInLookup, CreateUser, Others, Same
<1>7. CASE SaveRefreshToken(r) \/ DropExpired(r) \/ TouchSession(r) \/ IsSessionLive(r)
           \/ RevokeSession(r) \/ ConfirmRevoked(r) \/ RevokeOtherSessions(r)
           \/ RefuseOthers(r) \/ ListDevices(r) \/ RevokeAllSessions(r) \/ Fail(r)
  <2>1. (\E a : Answer(r, a)) \/ (UNCHANGED req /\ \E p : Goto(r, p))
    BY <1>7 DEF SaveRefreshToken, DropExpired, TouchSession, IsSessionLive, RevokeSession,
                ConfirmRevoked, RevokeOtherSessions, RefuseOthers, ListDevices,
                RevokeAllSessions, Fail
  <2> QED
    BY <1>1, <1>2, <2>1 DEF Others, Same
<1> QED
  BY <1>3, <1>4, <1>5, <1>6, <1>7 DEF Step, Others, Same

\* DropsExpired is inductive on top of the base invariant.
LEMMA DropsStep == Base /\ DropsExpired /\ [Next]_vars => DropsExpired'
<1> SUFFICES ASSUME Base, DropsExpired, [Next]_vars PROVE DropsExpired'
  OBVIOUS
<1>1. \A t \in Tokens : token'[t].st = "live" => token[t].st = "live" \/ FreeToken(t)
  <2>1. ASSUME NEW r \in Reqs, Arrive(r) PROVE UNCHANGED token
    BY <2>1, Arrival DEF Base, Begin
  <2>2. ASSUME NEW r \in Reqs, SaveRefreshToken(r)
        PROVE  \A t \in Tokens : token'[t].st = "live" => token[t].st = "live" \/ FreeToken(t)
    BY <2>2 DEF SaveRefreshToken, NoTokenRow
  <2>3. ASSUME NEW r \in Reqs, DropExpired(r) \/ DeleteRefreshToken(r)
        PROVE  \A t \in Tokens : token'[t].st = "live" => token[t].st = "live"
    BY <2>3 DEF DropExpired, DeleteRefreshToken, NoTokenRow, Base, TypeOK
  <2>4. ASSUME NEW r \in Reqs,
               RevokeSession(r) \/ RevokeOtherSessions(r) \/ RevokeAllSessions(r)
        PROVE  \A t \in Tokens : token'[t].st = "live" => token[t].st = "live"
    BY <2>4 DEF RevokeSession, RevokeOtherSessions, RevokeAllSessions, DeleteTokens, NoTokenRow
  <2>5. ASSUME NEW t \in Tokens, Expire(t)
        PROVE  \A x \in Tokens : token'[x].st = "live" => token[x].st = "live"
    BY <2>5 DEF Expire, Base, TypeOK, TokenRows
  <2>6. ASSUME NEW r \in Reqs,
               \/ GoogleLookup(r) \/ SignUpLookup(r) \/ SignInLookup(r)
               \/ CreateUser(r) \/ CreateSession(r) \/ GetRefreshToken(r) \/ TouchSession(r)
               \/ IsSessionLive(r) \/ ConfirmRevoked(r) \/ RefuseOthers(r) \/ ListDevices(r)
               \/ UpdatePassword(r) \/ Fail(r)
        PROVE  UNCHANGED token
    BY <2>6 DEF GoogleLookup, SignUpLookup, SignInLookup, CreateUser, CreateSession,
                GetRefreshToken, TouchSession, IsSessionLive, ConfirmRevoked, RefuseOthers,
                ListDevices, UpdatePassword, Fail
  <2> QED
    BY <2>1, <2>2, <2>3, <2>4, <2>5, <2>6 DEF Next, Step, vars
<1>2. \A x \in Reqs : pc'[x] = "drop" =>
        \/ pc[x] = "drop" /\ req'[x] = req[x]
        \/ UNCHANGED token /\ token[req'[x].tok].st = "expired"
  <2>1. ASSUME NEW r \in Reqs, Arrive(r)
        PROVE  \A x \in Reqs : pc'[x] = "drop" => pc[x] = "drop" /\ req'[x] = req[x]
    <3>1. PICK p \in Pcs, q \in Requests : ArrivesAs(p, q) /\ Begin(r, p, q)
      BY <2>1, Arrival DEF Base
    <3> QED
      BY <3>1 DEF ArrivesAs, Begin, Base, TypeOK
  <2>2. ASSUME NEW r \in Reqs, GetRefreshToken(r), pc'[r] = "drop"
        PROVE  UNCHANGED token /\ token[req'[r].tok].st = "expired"
    BY <2>2 DEF GetRefreshToken, Goto, Answer, Base, TypeOK, Requests
  <2>3. ASSUME NEW r \in Reqs, Step(r) \/ Fail(r), ~GetRefreshToken(r) PROVE pc'[r] # "drop"
    <3>1. ASSUME NEW a, Answer(r, a) PROVE pc'[r] = "idle"
      BY <3>1 DEF Answer, Base, TypeOK
    <3>2. ASSUME NEW p, Goto(r, p) PROVE pc'[r] = p
      BY <3>2 DEF Goto, Base, TypeOK
    <3>3. CASE Accepts(r)
      BY <3>3 DEF Accepts, Base, TypeOK
    <3> QED
      BY <2>3, <3>1, <3>2, <3>3
      DEF Step, Fail, GoogleLookup, SignUpLookup, SignInLookup, CreateUser, CreateSession,
          SaveRefreshToken, DropExpired, DeleteRefreshToken, TouchSession, IsSessionLive,
          RevokeSession, ConfirmRevoked, RevokeOtherSessions, RefuseOthers, ListDevices,
          RevokeAllSessions, UpdatePassword
  <2>4. ASSUME NEW t \in Tokens, Expire(t) PROVE UNCHANGED <<pc, req>>
    BY <2>4 DEF Expire
  <2> QED
    BY <2>1, <2>2, <2>3, <2>4, OthersWait DEF Next, vars
<1>3. \A x \in Reqs : pc[x] = "drop" => req[x].tok \in Tokens /\ ~FreeToken(req[x].tok)
  BY DEF Base, Shape, ShapeOf, FreeToken
<1> QED
  BY <1>1, <1>2, <1>3 DEF DropsExpired

\* Neither a sign-in nor the revocation of another device takes a usable token
\* from a device that stays signed in.
LEMMA TokenLostStep ==
    ASSUME Base, DropsExpired, Next, NEW t \in Tokens, NEW s \in Sessions,
           token[t].st = "live", token[t].sid = s, token'[t].st = "none", Live(s), Live(s)'
    PROVE  \E r \in Reqs : pc[r] = "delete" /\ req[r].tok = t /\ pc'[r] = "touch"
<1>0. token[t].user = session[s].user /\ token[t].user \in Users
  BY DEF Base, RowsOK
<1>1. ASSUME NEW r \in Reqs, SaveRefreshToken(r) PROVE FALSE
  BY <1>1 DEF SaveRefreshToken, FreeToken, NoTokenRow
<1>2. ASSUME NEW r \in Reqs, DropExpired(r) PROVE FALSE
  BY <1>2 DEF DropExpired, DropsExpired, Base, TypeOK
<1>3. ASSUME NEW r \in Reqs, NEW S, NEW T, Revoke(S), DeleteTokens(T), t \in T => s \in S
      PROVE  FALSE
  BY <1>3, RevokeRows DEF Live
<1>4. ASSUME NEW r \in Reqs, RevokeSession(r) PROVE FALSE
  <2>1. PICK S : Revoke(S) /\ DeleteTokens(UNION {Rows(x) : x \in S})
    BY <1>4 DEF RevokeSession
  <2> QED
    BY <1>3, <1>4, <2>1 DEF Rows
<1>5. ASSUME NEW r \in Reqs, RevokeOtherSessions(r) PROVE FALSE
  BY <1>0, <1>3, <1>5 DEF RevokeOtherSessions, SessionsOf, TokensOf
<1>6. ASSUME NEW r \in Reqs, RevokeAllSessions(r) PROVE FALSE
  BY <1>0, <1>3, <1>6 DEF RevokeAllSessions, SessionsOf, TokensOf
<1>7. ASSUME NEW r \in Reqs, DeleteRefreshToken(r)
      PROVE  pc[r] = "delete" /\ req[r].tok = t /\ pc'[r] = "touch"
  BY <1>7 DEF DeleteRefreshToken, Goto, Base, TypeOK
<1>8. ASSUME NEW x \in Tokens, Expire(x) PROVE FALSE
  BY <1>8 DEF Expire, Base, TypeOK, TokenRows
<1>9. ASSUME NEW r \in Reqs, Arrive(r) PROVE FALSE
  BY <1>9, Arrival DEF Base, Begin
<1>10. ASSUME NEW r \in Reqs,
              \/ GoogleLookup(r) \/ SignUpLookup(r) \/ SignInLookup(r)
              \/ CreateUser(r) \/ CreateSession(r) \/ GetRefreshToken(r) \/ TouchSession(r)
              \/ IsSessionLive(r) \/ ConfirmRevoked(r) \/ RefuseOthers(r) \/ ListDevices(r)
              \/ UpdatePassword(r) \/ Fail(r)
       PROVE  FALSE
  BY <1>10 DEF GoogleLookup, SignUpLookup, SignInLookup, CreateUser, CreateSession,
               GetRefreshToken, TouchSession, IsSessionLive, ConfirmRevoked, RefuseOthers,
               ListDevices, UpdatePassword, Fail
<1> QED
  BY <1>1, <1>2, <1>4, <1>5, <1>6, <1>7, <1>8, <1>9, <1>10 DEF Next, Step

\* A device that stays signed in loses a usable token only by spending it,
\* whatever requests run beside it.
THEOREM TokenLost == Spec => TokenLostOnlyToRefresh
<1>1. Init => Base /\ DropsExpired
  BY InitOK DEF Base, Init, DropsExpired
<1>2. Base /\ DropsExpired /\ [Next]_vars =>
        [\A t \in Tokens, s \in Sessions :
           /\ token[t].st = "live" /\ token[t].sid = s /\ token'[t].st = "none"
           /\ Live(s) /\ Live(s)'
           => \E r \in Reqs : pc[r] = "delete" /\ req[r].tok = t /\ pc'[r] = "touch"]_vars
  BY TokenLostStep
<1> QED
  BY <1>1, <1>2, BaseStep, DropsStep, PTL DEF Spec, TokenLostOnlyToRefresh

\* What an arrival asks to revoke is a row that exists.
LEMMA TargetsExist ==
    ASSUME Base, NEW r \in Reqs, Arrive(r), req'[r].op = "revoke"
    PROVE  /\ pc'[r] \in {"check", "act"}
           /\ \A s \in Sessions : s = req'[r].target => session[s].st # "none"
           /\ \A x \in Reqs \ {r} : pc'[x] = pc[x] /\ req'[x] = req[x]
           /\ UNCHANGED session
<1>1. ASSUME NEW p, NEW q, Begin(r, p, q)
      PROVE  /\ pc'[r] = p /\ req'[r] = q
             /\ \A x \in Reqs \ {r} : pc'[x] = pc[x] /\ req'[x] = req[x]
             /\ UNCHANGED session
  BY <1>1 DEF Begin, Base, TypeOK
<1>2. CASE BeginSignIn(r)
  <2>1. PICK u \in Users, o \in SignInOps :
          Begin(r, "lookup", [NoRequest EXCEPT !.op = o, !.user = u])
    BY <1>2 DEF BeginSignIn
  <2>2. req'[r].op = o
    BY <2>1 DEF Begin, NoRequest, Base, TypeOK
  <2> QED
    BY <2>2 DEF SignInOps
<1>3. CASE BeginReset(r) \/ BeginRefresh(r)
  <2>1. CASE BeginReset(r)
    BY <2>1 DEF BeginReset, Begin, NoRequest, Base, TypeOK
  <2>2. CASE BeginRefresh(r)
    BY <2>2 DEF BeginRefresh, Begin, NoRequest, Base, TypeOK
  <2> QED
    BY <1>3, <2>1, <2>2
<1>4. CASE BeginAuthed(r)
  <2>1. PICK s \in Sessions, o \in DeviceOps : \E x \in Targets(o) :
          Begin(r, "check", [NoRequest EXCEPT !.op = o, !.user = session[s].user,
                             !.sid = s, !.target = x])
    BY <1>4 DEF BeginAuthed
  <2>4. PICK x \in Targets(o) :
          Begin(r, "check", [NoRequest EXCEPT !.op = o, !.user = session[s].user,
                             !.sid = s, !.target = x])
    BY <2>1
  <2>2. req'[r].op = o /\ req'[r].target = x /\ pc'[r] = "check"
    BY <2>4 DEF Begin, NoRequest, Base, TypeOK
  <2>3. ASSUME o = "revoke" PROVE \A y \in Sessions : y = x => session[y].st # "none"
    BY <2>3, <2>4, NullAssumption DEF Targets
  <2> QED
    BY <1>1, <2>4, <2>2, <2>3
<1>5. CASE BeginLegacy(r)
  <2>1. PICK u \in LegacyUsers, o \in DeviceOps : \E x \in Targets(o) :
          Begin(r, "act", [NoRequest EXCEPT !.op = o, !.user = u, !.target = x])
    BY <1>5 DEF BeginLegacy
  <2>4. PICK x \in Targets(o) :
          Begin(r, "act", [NoRequest EXCEPT !.op = o, !.user = u, !.target = x])
    BY <2>1
  <2>2. req'[r].op = o /\ req'[r].target = x /\ pc'[r] = "act"
    BY <2>4 DEF Begin, NoRequest, Base, TypeOK
  <2>3. ASSUME o = "revoke" PROVE \A y \in Sessions : y = x => session[y].st # "none"
    BY <2>3, <2>4, NullAssumption DEF Targets
  <2> QED
    BY <1>1, <2>4, <2>2, <2>3
<1> QED
  BY <1>2, <1>3, <1>4, <1>5 DEF Arrive

\* RevokesOK is inductive on top of the base invariant.
LEMMA RevokesStep == Base /\ RevokesOK /\ [Next]_vars => RevokesOK'
<1> SUFFICES ASSUME Base, RevokesOK, [Next]_vars PROVE RevokesOK'
  OBVIOUS
<1> DEFINE Fine(x) == req[x].op = "revoke" =>
             /\ pc[x] \in {"check", "act", "confirm"}
             /\ \A s \in Sessions : s = req[x].target =>
                  /\ session[s].st # "none"
                  /\ pc[x] = "confirm" /\ session[s].user = req[x].user => Revoked(s)
<1>1. RowsStay
  BY SessionsStay
<1>2. ASSUME NEW x \in Reqs, pc'[x] = pc[x], req'[x] = req[x] PROVE Fine(x)'
  BY <1>1, <1>2 DEF RevokesOK, RowsStay, Revoked
<1>3. ASSUME NEW r \in Reqs, Arrive(r) PROVE RevokesOK'
  <2>1. \A x \in Reqs \ {r} : pc'[x] = pc[x] /\ req'[x] = req[x]
    BY <1>3, Arrival DEF Base, Begin, TypeOK
  <2>2. Fine(r)'
    BY <1>3, TargetsExist
  <2> QED
    BY <1>2, <2>1, <2>2 DEF RevokesOK
<1>4. ASSUME NEW r \in Reqs, Step(r) \/ Fail(r) PROVE RevokesOK'
  <2>1. \A x \in Reqs \ {r} : pc'[x] = pc[x] /\ req'[x] = req[x]
    BY <1>4, OthersWait
  <2>2. ASSUME req'[r].op # "revoke" PROVE Fine(r)'
    BY <2>2
  <2>3. ASSUME req'[r].op = "revoke" PROVE Fine(r)'
    <3>1. req[r].op = "revoke" /\ req'[r].target = req[r].target
      BY <1>4, <2>3, OthersWait DEF NoRequest
    <3>2. pc[r] \in {"check", "act", "confirm"}
      BY <3>1 DEF RevokesOK
    <3>3. \A a : ~Answer(r, a)
      BY <2>3 DEF Answer, NoRequest, Base, TypeOK
    <3>4. IsSessionLive(r) \/ RevokeSession(r)
      BY <1>4, <3>1, <3>2, <3>3
      DEF Step, Fail, GoogleLookup, SignUpLookup, SignInLookup, CreateUser, CreateSession,
          SaveRefreshToken, GetRefreshToken, DropExpired, DeleteRefreshToken, TouchSession,
          ConfirmRevoked, RevokeOtherSessions, RefuseOthers, ListDevices,
          RevokeAllSessions, UpdatePassword
    <3>5. ASSUME IsSessionLive(r) PROVE Fine(r)'
      <4>1. pc'[r] = "act"
        BY <3>3, <3>5 DEF IsSessionLive, Goto, Base, TypeOK
      <4> QED
        BY <1>1, <3>1, <4>1 DEF RevokesOK, RowsStay
    <3>6. ASSUME RevokeSession(r) PROVE Fine(r)'
      <4>1. pc'[r] = "confirm" /\ req'[r] = req[r] /\ req[r].user \in Users
        BY <3>3, <3>6 DEF RevokeSession, Goto, Base, TypeOK, Shape, ShapeOf
      <4>2. PICK T : /\ Revoke({x \in SessionsOf(req[r].user) : x = req[r].target /\ Live(x)})
                     /\ DeleteTokens(T)
        BY <3>1, <3>6 DEF RevokeSession
      <4>3. ASSUME NEW s \in Sessions, s = req[r].target, session'[s].user = req[r].user
            PROVE  session'[s].st = "revoked"
        <5>1. session[s].st # "none" /\ session[s].user = req[r].user
          BY <3>1, <4>2, <4>3, RevokeRows DEF RevokesOK
        <5>2. CASE Live(s)
          BY <4>2, <4>3, <5>1, <5>2, RevokeRows DEF SessionsOf
        <5>3. CASE ~Live(s)
          <6>1. session[s].st = "revoked"
            BY <5>1, <5>3 DEF Live, Base, TypeOK, SessionRows
          <6> QED
            BY <1>1, <5>1, <6>1 DEF RowsStay, Revoked
        <5> QED
          BY <5>2, <5>3
      <4> QED
        BY <1>1, <3>1, <4>1, <4>3 DEF RevokesOK, RowsStay, Revoked
    <3> QED
      BY <3>4, <3>5, <3>6
  <2> HIDE DEF Fine
  <2>4. Fine(r)'
    BY <2>2, <2>3
  <2>5. \A x \in Reqs : Fine(x)'
    BY <1>2, <2>1, <2>4
  <2> QED
    BY <2>5 DEF Fine, RevokesOK
<1>5. ASSUME NEW t \in Tokens, Expire(t) PROVE RevokesOK'
  BY <1>2, <1>5 DEF Expire, RevokesOK
<1>6. CASE UNCHANGED vars
  BY <1>2, <1>6 DEF vars, RevokesOK
<1> QED
  BY <1>3, <1>4, <1>5, <1>6 DEF Next

\* "Signed out" was said of a session that is the caller's and revoked.
OkIsTrue(r) == \E s \in Sessions : /\ s = req[r].target
                                   /\ session'[s].st = "revoked"
                                   /\ session'[s].user = req[r].user

\* The two answers of a revocation, the second while no statement fails.
LEMMA RevokeAnswerStep ==
    ASSUME Base, RevokesOK, Next, NEW r \in Reqs, req[r].op = "revoke",
           pc[r] # "idle", pc'[r] = "idle"
    PROVE  /\ reply'[r] = "ok" => OkIsTrue(r)
           /\ reply'[r] = "notfound" /\ ~DbMayFail =>
                \A s \in Sessions : s = req[r].target => session'[s].user # req[r].user
<1>1. pc[r] \in {"check", "act", "confirm"}
  BY DEF RevokesOK
<1>2. ASSUME NEW a, Answer(r, a) PROVE reply'[r] = a
  BY <1>2 DEF Answer, Base, TypeOK
<1>3. ASSUME NEW p, Goto(r, p), p # "idle" PROVE FALSE
  BY <1>3 DEF Goto, Base, TypeOK
<1>0. CASE Fail(r)
  BY <1>0, <1>2 DEF Fail
<1>4. Step(r) \/ Fail(r)
  <2>1. ASSUME NEW x \in Reqs, x # r, Step(x) \/ Fail(x) PROVE FALSE
    BY <2>1, OthersWait
  <2>2. ASSUME NEW x \in Reqs, Arrive(x) PROVE FALSE
    <3>1. PICK p \in Pcs, q \in Requests : ArrivesAs(p, q) /\ Begin(x, p, q)
      BY <2>2, Arrival DEF Base
    <3> QED
      BY <3>1 DEF ArrivesAs, Begin, Base, TypeOK
  <2>3. ASSUME NEW t \in Tokens, Expire(t) PROVE FALSE
    BY <2>3 DEF Expire
  <2> QED
    BY <2>1, <2>2, <2>3 DEF Next
<1>5. Step(r) => IsSessionLive(r) \/ RevokeSession(r) \/ ConfirmRevoked(r)
  BY <1>1
  DEF Step, GoogleLookup, SignUpLookup, SignInLookup, CreateUser, CreateSession,
      SaveRefreshToken, GetRefreshToken, DropExpired, DeleteRefreshToken, TouchSession,
      RevokeOtherSessions, RefuseOthers, ListDevices, RevokeAllSessions, UpdatePassword
<1>6. CASE IsSessionLive(r)
  BY <1>2, <1>3, <1>6 DEF IsSessionLive
<1>7. CASE RevokeSession(r)
  <2> DEFINE hit == {x \in SessionsOf(req[r].user) : x = req[r].target /\ Live(x)}
  <2>1. /\ Revoke(hit) /\ DeleteTokens(UNION {Rows(x) : x \in hit})
        /\ UNION {Rows(x) : x \in hit} # {} /\ Answer(r, "ok")
    BY <1>3, <1>7 DEF RevokeSession
  <2>2. PICK s \in Sessions : s \in hit
    BY <2>1 DEF SessionsOf
  <2>3. session'[s].st = "revoked" /\ session'[s].user = req[r].user
    BY <2>1, <2>2, RevokeRows DEF SessionsOf
  <2> QED
    BY <1>2, <2>1, <2>2, <2>3 DEF OkIsTrue
<1>8. CASE ConfirmRevoked(r)
  <2> DEFINE mine == req[r].target \in SessionsOf(req[r].user) /\ Revoked(req[r].target)
  <2>1. /\ pc[r] = "confirm" /\ UNCHANGED session
        /\ \/ Answer(r, IF mine THEN "ok" ELSE "notfound")
           \/ DbMayFail /\ Answer(r, "notfound")
    BY <1>8 DEF ConfirmRevoked
  <2>2. \/ reply'[r] = IF mine THEN "ok" ELSE "notfound"
        \/ DbMayFail /\ reply'[r] = "notfound"
    BY <1>2, <2>1
  <2>3. CASE mine
    BY <2>1, <2>2, <2>3 DEF SessionsOf, Revoked, OkIsTrue
  <2>4. CASE ~mine
    BY <2>1, <2>2, <2>4 DEF RevokesOK, SessionsOf
  <2> QED
    BY <2>3, <2>4
<1> QED
  BY <1>0, <1>4, <1>5, <1>6, <1>7, <1>8

\* Even while statements fail, RevokeDevice says "signed out" only of a session
\* of the caller that is revoked.
THEOREM RevokedWhenTold ==
    Spec => [][\A r \in Reqs : Answered(r, "revoke", "ok") => OkIsTrue(r)]_vars
<1>1. Init => Base /\ RevokesOK
  BY InitOK DEF Base, Init, RevokesOK, NoRequest
<1>2. Base /\ RevokesOK /\ [Next]_vars =>
        [\A r \in Reqs : Answered(r, "revoke", "ok") => OkIsTrue(r)]_vars
  BY RevokeAnswerStep DEF Answered
<1> QED
  BY <1>1, <1>2, BaseStep, RevokesStep, PTL DEF Spec

\* RevokeDevice tells the truth as long as no statement fails: an error of its
\* second read is reported as a device that is not there.
THEOREM RevokeAnswers == ~DbMayFail => (Spec => RevokeAnswersAreTrue)
<1> SUFFICES ASSUME ~DbMayFail PROVE Spec => RevokeAnswersAreTrue
  OBVIOUS
<1>1. Init => Base /\ RevokesOK
  BY InitOK DEF Base, Init, RevokesOK, NoRequest
<1>2. Base /\ RevokesOK /\ [Next]_vars =>
        [\A r \in Reqs :
           /\ Answered(r, "revoke", "ok") =>
                \E s \in Sessions : /\ s = req[r].target
                                    /\ session'[s].st = "revoked"
                                    /\ session'[s].user = req[r].user
           /\ Answered(r, "revoke", "notfound") =>
                \A s \in Sessions : s = req[r].target => session'[s].user # req[r].user]_vars
  BY RevokeAnswerStep DEF Answered, OkIsTrue
<1> QED
  BY <1>1, <1>2, BaseStep, RevokesStep, PTL DEF Spec, RevokeAnswersAreTrue
=============================================================================
