----------------------------- MODULE ChatHistory -----------------------------
(***************************************************************************)
(* The stored conversation of one user: turns saved by Store.SaveTurn,     *)
(* messages hidden by SoftDelete, and a client that scrolls back through   *)
(* the pages of GetHistory while turns are saved and messages hidden.      *)
(*                                                                         *)
(* Both rows of a turn carry the time its transaction began and are seen   *)
(* once it commits, so turns may appear out of order.  Two turns, of two   *)
(* devices, may begin in the same microsecond.  A page is one SELECT.      *)
(* Content, lesson refs, prefills and feedback are left out.               *)
(***************************************************************************)
EXTENDS Integers, FiniteSets, FiniteSetsExt

CONSTANTS
    MaxTurns,       \* bound: turns begun
    Limits,         \* page sizes a client may ask for, clamped
    PromptLimit     \* messageHistoryLimit; 30 in the code

ASSUME HistoryAssumption ==
    MaxTurns \in Nat /\ Limits \subseteq Nat \ {0} /\ PromptLimit \in Nat

VARIABLES
    begun,          \* how many turns have begun
    clock,          \* the last created_at given out
    at,             \* created_at of each turn
    turn,           \* "none", "open", "saved" or "failed"
    hidden,         \* messages with deleted_at
    scroll          \* the client

historyVars == <<begun, clock, at, turn, hidden, scroll>>

Turns == 1..MaxTurns
Messages == Turns \X {"user", "assistant"}
Times == 0..MaxTurns
NoCursor == MaxTurns + 1

Scrolls == [st: {"idle", "loading", "root"}, limit: Nat,
            before: 0..NoCursor,        \* cursor of the next request
            due: SUBSET Messages,       \* history: visible when the scroll began
            seen: SUBSET Messages]
NoScroll == [st |-> "idle", limit |-> 0, before |-> NoCursor, due |-> {}, seen |-> {}]

HistoryInit ==
    /\ begun = 0 /\ clock = 0
    /\ at = [t \in Turns |-> 0]
    /\ turn = [t \in Turns |-> "none"]
    /\ hidden = {}
    /\ scroll = NoScroll

CreatedAt(m) == at[m[1]]
Saved == {m \in Messages : turn[m[1]] = "saved"}
Visible == Saved \ hidden

-----------------------------------------------------------------------------
(* SaveTurn: one transaction.                                              *)

BeginTurn ==
    /\ begun < MaxTurns
    /\ begun' = begun + 1
    /\ clock' \in {clock, clock + 1}
    /\ at' = [at EXCEPT ![begun + 1] = clock']
    /\ turn' = [turn EXCEPT ![begun + 1] = "open"]
    /\ UNCHANGED <<hidden, scroll>>

EndTurn(t) ==
    /\ turn[t] = "open"
    /\ turn' = [turn EXCEPT ![t] = "saved"] \/ turn' = [turn EXCEPT ![t] = "failed"]
    /\ UNCHANGED <<begun, clock, at, hidden, scroll>>

\* A message that is hidden already is not found.
SoftDelete(m) ==
    /\ m \in Visible
    /\ hidden' = hidden \cup {m}
    /\ UNCHANGED <<begun, clock, at, turn, scroll>>

-----------------------------------------------------------------------------
(* GetHistory.                                                             *)

\* ORDER BY created_at DESC, assistant first; rows equal in both, of turns that
\* tie, come in any order.
Precedes(m, n) ==
    \/ CreatedAt(m) > CreatedAt(n)
    \/ CreatedAt(m) = CreatedAt(n) /\ m[2] = "assistant" /\ n[2] = "user"

\* What LIMIT k may return of S.
FirstOf(S, k) ==
    {P \in kSubset(k, S) : \A m \in S \ P, n \in P : ~Precedes(m, n)}

\* Mutant: the cursor is compared with <=.
BelowOrAt(before) == {m \in Visible : CreatedAt(m) <= before}

Below(before) == {m \in Visible : CreatedAt(m) < before}

\* Mutant: the page is cut even when nothing is left of it.
CutToNothing(P, boundary) == {m \in P : CreatedAt(m) # boundary}

\* Mutant: the page ends wherever LIMIT ends it.
CutNothing(P, boundary) == P

\* The page of P when the row after it is of time boundary.
Cut(P, boundary) ==
    LET kept == {m \in P : CreatedAt(m) # boundary}
    IN IF kept = {} THEN P ELSE kept

\* The pages GetHistory may return, with has_more.
Pages(before, limit) ==
    LET S == Below(before) IN
    IF Cardinality(S) <= limit THEN {[rows |-> S, more |-> FALSE]}
    ELSE UNION { {[rows |-> Cut(P, CreatedAt(x)), more |-> TRUE] :
                     x \in {y \in S \ P : \A m \in S \ P : ~Precedes(m, y)}} :
                 P \in FirstOf(S, limit)}

\* A client opens the chat and asks for pages of one size.
OpenChat ==
    /\ scroll.st # "loading"
    /\ \E l \in Limits :
         scroll' = [NoScroll EXCEPT !.st = "loading", !.limit = l, !.due = Visible]
    /\ UNCHANGED <<begun, clock, at, turn, hidden>>

\* Mutant: the cursor is moved past the oldest message.
GetHistoryPast ==
    /\ scroll.st = "loading"
    /\ \E p \in Pages(scroll.before, scroll.limit) :
         scroll' = [scroll EXCEPT
             !.st = IF p.more THEN "loading" ELSE "root",
             !.before = IF p.rows = {} THEN @ ELSE Min({CreatedAt(m) : m \in p.rows}) - 1,
             !.seen = @ \cup p.rows]
    /\ UNCHANGED <<begun, clock, at, turn, hidden>>

\* Each page is asked for before the oldest message of the one before.
GetHistory ==
    /\ scroll.st = "loading"
    /\ \E p \in Pages(scroll.before, scroll.limit) :
         scroll' = [scroll EXCEPT
             !.st = IF p.more THEN "loading" ELSE "root",
             !.before = IF p.rows = {} THEN @ ELSE Min({CreatedAt(m) : m \in p.rows}),
             !.seen = @ \cup p.rows]
    /\ UNCHANGED <<begun, clock, at, turn, hidden>>

-----------------------------------------------------------------------------
(* What Build sends the model of the conversation: one SELECT as well.     *)

\* What LIMIT may return of S when rows of one time come in any order.
Latest(S) ==
    {P \in kSubset(Min({PromptLimit, Cardinality(S)}), S) :
        \A m \in S \ P, n \in P : CreatedAt(m) <= CreatedAt(n)}

\* Mutant: hidden messages are left out.
loadVisible == Latest(Visible)

loadHistory == Latest(Saved)

-----------------------------------------------------------------------------

HistoryNext ==
    \/ BeginTurn \/ OpenChat \/ GetHistory
    \/ \E t \in Turns : EndTurn(t)
    \/ \E m \in Messages : SoftDelete(m)

HistorySpec == HistoryInit /\ [][HistoryNext]_historyVars

\* A client that scrolls back goes on to the root.
FairHistorySpec == HistorySpec /\ WF_historyVars(GetHistory)

-----------------------------------------------------------------------------
(* Properties.                                                             *)

\* Every variable has the shape of its table or record.
HistoryTypeOK ==
    /\ begun \in 0..MaxTurns /\ clock \in Times
    /\ at \in [Turns -> Times]
    /\ turn \in [Turns -> {"none", "open", "saved", "failed"}]
    /\ hidden \subseteq Messages
    /\ scroll \in Scrolls

\* Rows that share a created_at fit on one page.
GroupsFit == \A x \in Times : Cardinality({m \in Saved : CreatedAt(m) = x}) <= scroll.limit

\* Scrolling back loses nothing (store.go:171): of what was visible when the scroll
\* began and is not hidden, all down to the cursor has been shown, and all of it
\* when the client is told that the root is reached.
NothingSkipped ==
    GroupsFit => \A m \in scroll.due \ hidden :
        scroll.st = "root" \/ CreatedAt(m) >= scroll.before => m \in scroll.seen

\* No message comes twice, and none newer than a page that was shown before it.
PagesGoBack == [][
    scroll.st = "loading" /\ scroll'.seen # scroll.seen
      => \A m \in scroll'.seen \ scroll.seen, n \in scroll.seen :
            CreatedAt(m) < CreatedAt(n) ]_historyVars

\* The scroll-back never stalls (store.go:188), whatever page size is asked for.
RootReached == scroll.st = "loading" ~> scroll.st = "root"

\* No two turns began in the same microsecond.
TurnsDiffer == \A t, u \in Turns :
    turn[t] = "saved" /\ turn[u] = "saved" /\ at[t] = at[u] => t = u

\* The model is never sent a question without its answer, or an answer without its
\* question, whatever was hidden: an even limit cuts between turns, because what
\* is hidden counts too (context.go:422).
PromptKeepsTurns ==
    TurnsDiffer /\ PromptLimit % 2 = 0 =>
        \A P \in loadHistory : \A m \in P, n \in Saved : n[1] = m[1] => n \in P
=============================================================================
