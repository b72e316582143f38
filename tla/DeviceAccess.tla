---------------------------- MODULE DeviceAccess ----------------------------
(***************************************************************************)
(* What the session machinery promises, without requests in flight, tokens *)
(* or statements: a device is signed in once, signed out for good, by its  *)
(* own user or for its own user only, and a request acts for a device only *)
(* if that device was signed in when the request was admitted.             *)
(***************************************************************************)
CONSTANTS Users, Sessions, Reqs, NoUser, NoSession

VARIABLES
    owner,      \* whose device a session is
    live,       \* the sessions that are signed in
    caller      \* the session each admitted request acts for

dvars == <<owner, live, caller>>

Init ==
    /\ owner = [s \in Sessions |-> NoUser]
    /\ live = {}
    /\ caller = [r \in Reqs |-> NoSession]

SignIn(s, u) ==
    /\ owner[s] = NoUser
    /\ owner' = [owner EXCEPT ![s] = u]
    /\ live' = live \cup {s}
    /\ UNCHANGED caller

Admit(r, s) ==
    /\ caller[r] = NoSession
    /\ s \in live
    /\ caller' = [caller EXCEPT ![r] = s]
    /\ UNCHANGED <<owner, live>>

\* A request, on behalf of no session or of one of u's, signs out devices of u
\* and may be done with that.
SignOut(r, u, S) ==
    /\ S \subseteq {s \in live : owner[s] = u}
    /\ caller[r] # NoSession => owner[caller[r]] = u
    /\ live' = live \ S
    /\ caller' \in {caller, [caller EXCEPT ![r] = NoSession]}
    /\ UNCHANGED owner

Next == \E r \in Reqs :
    \/ \E s \in Sessions, u \in Users : SignIn(s, u)
    \/ \E s \in Sessions : Admit(r, s)
    \/ \E u \in Users, S \in SUBSET Sessions : SignOut(r, u, S)

Spec == Init /\ [][Next]_dvars
=============================================================================
