---------------------------- MODULE PasswordReset ----------------------------
(***************************************************************************)
(* Reset codes of one account: ForgotPassword, which issues and mails a    *)
(* code, and ResetPassword up to the new password hash (AuthSessions takes *)
(* over there).  Every statement is scoped to one user, so accounts do not *)
(* meet.  Codes are numbered in the order of created_at.                   *)
(*                                                                         *)
(* Statements are atomic except CreatePasswordResetToken, whose UPDATE     *)
(* sees the rows committed when it began: it has a beginning and an end,   *)
(* and two of them may overlap.  Sending a mail is a call that may fail,   *)
(* the mail delivered or not.                                              *)
(*                                                                         *)
(* Time is the age of a row: 0 within resendInterval, 1 usable, 2 past     *)
(* PasswordResetTTL, 3 older than a day.  Two codes never have the same    *)
(* digits; bcrypt and the wording of answers are left out.                 *)
(***************************************************************************)
EXTENDS Naturals, FiniteSets

CONSTANTS
    MaxCodes,       \* bound: rows ever inserted
    Reqs,           \* request slots: requests that are in flight together
    NoReq,
    MaxAttempts,    \* maxResetAttempts
    MaxLost         \* bound: guesses that fail to be counted or to burn the code

ASSUME ResetAssumption ==
    /\ MaxCodes \in Nat
    /\ IsFiniteSet(Reqs) /\ NoReq \notin Reqs
    /\ MaxAttempts \in Nat \ {0}
    /\ MaxLost \in Nat

VARIABLES
    googleOnly,     \* whether the account has no password
    row,            \* password_reset_tokens
    issued,         \* how many ids were given out
    inbox,          \* codes that reached the owner
    changed,        \* history: codes that paid for a new password hash
    lost,           \* history: guesses not counted or not burnt for
    pc,             \* where each request is in its handler
    req             \* what it carries and has read

vars == <<googleOnly, row, issued, inbox, changed, lost, pc, req>>

Codes == 1..MaxCodes
NoCode == 0

\* "redeemed" and "retired" are both consumed_at: set by
\* ConsumePasswordResetToken, or by one of the other statements.
CodeRows == [st: {"none", "live", "redeemed", "retired"}, age: 0..3, gone: BOOLEAN,
             attempts: Nat,
             tried: Nat,                \* wrong guesses compared with it
             by: Reqs \cup {NoReq}]     \* the slot that issued it
Pcs == {"idle", "window", "notice", "create", "insert", "send", "retire",
        "read", "count", "burn", "consume", "update"}
Requests == [guess: Codes \cup {NoCode},    \* the code presented, NoCode a wrong one
             code: Codes \cup {NoCode},     \* the row the handler works on
             seen: SUBSET Codes]            \* live rows its UPDATE sees

NoRow == [st |-> "none", age |-> 0, gone |-> FALSE, attempts |-> 0, tried |-> 0,
          by |-> NoReq]
NewRow(r) == [st |-> "live", age |-> 0, gone |-> FALSE, attempts |-> 0, tried |-> 0,
              by |-> r]
NoRequest == [guess |-> NoCode, code |-> NoCode, seen |-> {}]

Init ==
    /\ googleOnly \in BOOLEAN
    /\ row = [c \in Codes |-> NoRow]
    /\ issued = 0
    /\ inbox = {} /\ changed = {}
    /\ lost = 0
    /\ pc = [r \in Reqs |-> "idle"]
    /\ req = [r \in Reqs |-> NoRequest]

-----------------------------------------------------------------------------
(* Requests.  BodyParser, the address and the new password are in order.   *)

Begin(r, p, q) ==
    /\ pc[r] = "idle"
    /\ pc' = [pc EXCEPT ![r] = p]
    /\ req' = [req EXCEPT ![r] = q]
    /\ UNCHANGED <<googleOnly, row, issued, inbox, changed, lost>>

Goto(r, p) == pc' = [pc EXCEPT ![r] = p] /\ UNCHANGED req

Answer(r) ==
    /\ pc' = [pc EXCEPT ![r] = "idle"]
    /\ req' = [req EXCEPT ![r] = NoRequest]

\* Rows of the table, and those GetLivePasswordResetToken may return.
Stored(c) == row[c].st # "none" /\ ~row[c].gone
Live(c) == row[c].st = "live" /\ ~row[c].gone
Usable(c) == Live(c) /\ row[c].age < 2

Newest(S) == {c \in S : \A d \in S : d <= c}

\* Bound: a code is asked for only while an id is left for it.
BeginForgot(r) ==
    /\ issued + Cardinality({q \in Reqs : pc[q] \in {"window", "create"}}) < MaxCodes
    /\ Begin(r, "window", NoRequest)

\* The owner presents a code that was mailed, current or not, or a wrong one.
BeginReset(r) == \E g \in inbox \cup {NoCode} :
    Begin(r, "read", [NoRequest EXCEPT !.guess = g])

-----------------------------------------------------------------------------
(* ForgotPassword.                                                         *)

\* Mutant: only a code that still works holds back the next one.
LastLiveSentAt(r) ==
    /\ pc[r] = "window"
    /\ \/ (\E c \in Newest({d \in Codes : Live(d)}) : row[c].age = 0) /\ Answer(r)
       \/ /\ \A c \in Newest({d \in Codes : Live(d)}) : row[c].age # 0
          /\ Goto(r, IF googleOnly THEN "notice" ELSE "create")
    /\ UNCHANGED <<googleOnly, row, issued, inbox, changed, lost>>

\* Mutant: an account without a password gets a code too.
LastSentAtForAll(r) ==
    /\ pc[r] = "window"
    /\ \/ (\E c \in Newest({d \in Codes : Stored(d)}) : row[c].age = 0) /\ Answer(r)
       \/ (\A c \in Newest({d \in Codes : Stored(d)}) : row[c].age # 0) /\ Goto(r, "create")
    /\ UNCHANGED <<googleOnly, row, issued, inbox, changed, lost>>

\* The newest row, consumed or not, holds back the next mail.  A Google-only
\* account has no rows: it is sent a notice.
LastPasswordResetSentAt(r) ==
    /\ pc[r] = "window"
    /\ \/ (\E c \in Newest({d \in Codes : Stored(d)}) : row[c].age = 0) /\ Answer(r)
       \/ /\ \A c \in Newest({d \in Codes : Stored(d)}) : row[c].age # 0
          /\ Goto(r, IF googleOnly THEN "notice" ELSE "create")
    /\ UNCHANGED <<googleOnly, row, issued, inbox, changed, lost>>

\* Delivered or not, the notice leaves no row, so nothing holds the next one back: the
\* window of LastPasswordResetSentAt never opens for an account without codes.
SendPasswordResetForGoogleAccount(r) ==
    /\ pc[r] = "notice"
    /\ Answer(r)
    /\ UNCHANGED <<googleOnly, row, issued, inbox, changed, lost>>

\* CreatePasswordResetToken begins: created_at and its snapshot are fixed.
CreateBegins(r) ==
    /\ pc[r] = "create"
    /\ issued' = issued + 1
    /\ pc' = [pc EXCEPT ![r] = "insert"]
    /\ req' = [req EXCEPT ![r].code = issued + 1, ![r].seen = {c \in Codes : Live(c)}]
    /\ UNCHANGED <<googleOnly, row, inbox, changed, lost>>

\* Mutant: the earlier codes stay live.
CreateEndsBeside(r) ==
    /\ pc[r] = "insert"
    /\ row' = [row EXCEPT ![req[r].code] = NewRow(r)]
    /\ Goto(r, "send")
    /\ UNCHANGED <<googleOnly, issued, inbox, changed, lost>>

\* It ends: the live rows it saw, if they still are, are superseded, rows
\* older than a day are purged, and the new row is there.
CreateEnds(r) ==
    /\ pc[r] = "insert"
    /\ row' = [c \in Codes |->
         IF c = req[r].code THEN NewRow(r)
         ELSE [row[c] EXCEPT
                 !.st = IF c \in req[r].seen /\ Live(c) THEN "retired" ELSE @,
                 !.gone = @ \/ row[c].age = 3]]
    /\ pc' = [pc EXCEPT ![r] = "send"]
    /\ req' = [req EXCEPT ![r].seen = {}]
    /\ UNCHANGED <<googleOnly, issued, inbox, changed, lost>>

SendPasswordReset(r) ==
    /\ pc[r] = "send"
    /\ \/ inbox' = inbox \cup {req[r].code} /\ Answer(r)
       \/ inbox' \in {inbox, inbox \cup {req[r].code}} /\ Goto(r, "retire")
    /\ UNCHANGED <<googleOnly, row, issued, changed, lost>>

\* ExpirePasswordResetTokens: an undelivered code is retired and a code guessed
\* at too often is burnt, with every other live code of the user.
ExpirePasswordResetTokens(r) ==
    /\ pc[r] \in {"retire", "burn"}
    /\ row' = [c \in Codes |-> IF Live(c) THEN [row[c] EXCEPT !.st = "retired"] ELSE row[c]]
    /\ Answer(r)
    /\ UNCHANGED <<googleOnly, issued, inbox, changed, lost>>

-----------------------------------------------------------------------------
(* ResetPassword.                                                          *)

\* The newest usable code is read and compared with the one presented.
GetLivePasswordResetToken(r) ==
    /\ pc[r] = "read"
    /\ \/ (\A c \in Codes : ~Usable(c)) /\ Answer(r) /\ UNCHANGED row
       \/ \E c \in Newest({d \in Codes : Usable(d)}) :
            /\ req' = [req EXCEPT ![r] = [NoRequest EXCEPT !.code = c]]
            /\ \/ /\ req[r].guess = c
                  /\ pc' = [pc EXCEPT ![r] = "consume"]
                  /\ UNCHANGED row
               \/ /\ req[r].guess # c
                  /\ pc' = [pc EXCEPT ![r] = "count"]
                  /\ row' = [row EXCEPT ![c].tried = @ + 1]
    /\ UNCHANGED <<googleOnly, issued, inbox, changed, lost>>

\* Mutant: the count runs down.
CountsDown(r) ==
    /\ pc[r] = "count"
    /\ row' = [row EXCEPT ![req[r].code].attempts = @ - 1]
    /\ IF row'[req[r].code].attempts = 0 THEN Goto(r, "burn") ELSE Answer(r)
    /\ UNCHANGED <<googleOnly, issued, inbox, changed, lost>>

\* Mutant: one guess too many before the code is burnt.
BurnsLate(r) ==
    /\ pc[r] = "count"
    /\ row' = [row EXCEPT ![req[r].code].attempts = @ + 1]
    /\ IF row'[req[r].code].attempts > MaxAttempts THEN Goto(r, "burn") ELSE Answer(r)
    /\ UNCHANGED <<googleOnly, issued, inbox, changed, lost>>

\* The UPDATE does not ask whether the code is still live.
IncrementPasswordResetAttempts(r) ==
    /\ pc[r] = "count"
    /\ \/ row[req[r].code].gone /\ Answer(r) /\ UNCHANGED row
       \/ /\ ~row[req[r].code].gone
          /\ row' = [row EXCEPT ![req[r].code].attempts = @ + 1]
          /\ IF row'[req[r].code].attempts >= MaxAttempts THEN Goto(r, "burn") ELSE Answer(r)
    /\ UNCHANGED <<googleOnly, issued, inbox, changed, lost>>

\* Mutant: a code that was live when it was read is redeemed.
ConsumeWhatWasRead(r) ==
    /\ pc[r] = "consume"
    /\ row' = [row EXCEPT ![req[r].code].st = "redeemed"]
    /\ Goto(r, "update")
    /\ UNCHANGED <<googleOnly, issued, inbox, changed, lost>>

\* Only the request whose UPDATE finds the row unconsumed goes on; whether the
\* code has expired since it was read is not asked.
ConsumePasswordResetToken(r) ==
    /\ pc[r] = "consume"
    /\ \/ /\ Live(req[r].code)
          /\ row' = [row EXCEPT ![req[r].code].st = "redeemed"]
          /\ Goto(r, "update")
       \/ ~Live(req[r].code) /\ Answer(r) /\ UNCHANGED row
    /\ UNCHANGED <<googleOnly, issued, inbox, changed, lost>>

UpdatePassword(r) ==
    /\ pc[r] = "update"
    /\ changed' = changed \cup {req[r].code}
    /\ Answer(r)
    /\ UNCHANGED <<googleOnly, row, issued, inbox, lost>>

-----------------------------------------------------------------------------
(* Failing statements, time.                                               *)

\* Every error ends the request.  A guess that is not counted, or that does not
\* burn the code, is lost.
Fail(r) ==
    /\ pc[r] \in Pcs \ {"idle", "notice", "create", "send"}
    /\ \/ pc[r] \notin {"count", "burn"} /\ UNCHANGED lost
       \/ pc[r] \in {"count", "burn"} /\ lost < MaxLost /\ lost' = lost + 1
    /\ Answer(r)
    /\ UNCHANGED <<googleOnly, row, issued, inbox, changed>>

\* Rows age in the order of created_at; an insert is quicker than any window.
Age(c) ==
    /\ Stored(c) /\ row[c].age < 3
    /\ \A d \in 1..(c - 1) :
         /\ Stored(d) => row[d].age > row[c].age
         /\ \A r \in Reqs : ~(pc[r] = "insert" /\ req[r].code = d)
    /\ row' = [row EXCEPT ![c].age = @ + 1]
    /\ UNCHANGED <<googleOnly, issued, inbox, changed, lost, pc, req>>

Step(r) ==
    \/ LastPasswordResetSentAt(r) \/ SendPasswordResetForGoogleAccount(r)
    \/ CreateBegins(r) \/ CreateEnds(r) \/ SendPasswordReset(r)
    \/ ExpirePasswordResetTokens(r)
    \/ GetLivePasswordResetToken(r) \/ IncrementPasswordResetAttempts(r)
    \/ ConsumePasswordResetToken(r) \/ UpdatePassword(r)

Next ==
    \/ \E r \in Reqs : BeginForgot(r) \/ BeginReset(r) \/ Step(r) \/ Fail(r)
    \/ \E c \in Codes : Age(c)

Spec == Init /\ [][Next]_vars

\* A handler that has started runs on.
FairSpec == Spec /\ \A r \in Reqs : WF_vars(Step(r))

-----------------------------------------------------------------------------
(* Properties.                                                             *)

\* Every variable has the shape of its table or record.
TypeOK ==
    /\ googleOnly \in BOOLEAN
    /\ row \in [Codes -> CodeRows]
    /\ issued \in 0..MaxCodes
    /\ inbox \subseteq Codes /\ changed \subseteq Codes
    /\ lost \in Nat
    /\ pc \in [Reqs -> Pcs]
    /\ req \in [Reqs -> Requests]

\* maxResetAttempts guesses burn a code (password_reset.go:22): the wrong guesses
\* compared with one code exceed it by no more than the other requests that were
\* in flight, plus the guesses whose statements failed.
WrongGuessesBounded ==
    \A c \in Codes : row[c].tried < MaxAttempts + Cardinality(Reqs) + lost

\* CreatePasswordResetToken supersedes any live code: two codes are live at once
\* only if the requests that issued them overlapped.
LiveCodesOverlapped ==
    \A c, d \in Codes : Live(c) /\ Live(d) /\ row[c].by = row[d].by => c = d

\* A code is issued within resendInterval (password_reset.go:27) of another only by
\* requests that overlapped, whatever became of the codes in between.  Of codes alone:
\* the notice to a Google-only account leaves no row and is not held back.
ResendOverlapped ==
    \A c, d \in Codes :
        /\ Stored(c) /\ row[c].age = 0
        /\ Stored(d) /\ row[d].age = 0
        /\ row[c].by = row[d].by
        => c = d

\* A reset never attaches a password to a Google-only account
\* (password_reset.go:115).
NoPasswordAttached == googleOnly => changed = {}

Redeemed == {c \in Codes : row[c].st = "redeemed"}
Holder == [r \in Reqs |-> IF pc[r] = "update" THEN req[r].code ELSE NoCode]

\* Once a reset went through with a code, no older code works: "only the newest
\* one in their inbox works" (store.go:44), and every live code is killed "after
\* a successful reset" (store.go:58).
OldCodesDead == \A c \in Codes, e \in Redeemed : Usable(c) => e < c

\* It implements what OneTimeCode promises, whatever requests race: one winner
\* per mailed code, and a password replaced by nobody else.
Promise == INSTANCE OneTimeCode WITH mailed <- inbox, spent <- Redeemed, holder <- Holder
PromiseSpec == Promise!Spec
=============================================================================
