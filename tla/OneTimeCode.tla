----------------------------- MODULE OneTimeCode -----------------------------
(***************************************************************************)
(* What password reset promises: a request gets to replace the password    *)
(* only by redeeming a code that was mailed to the owner, each code is     *)
(* redeemed once, by one request, and buys at most one replacement.        *)
(***************************************************************************)
CONSTANTS Codes, Reqs, NoCode

VARIABLES
    mailed,     \* codes the owner may know
    spent,      \* codes redeemed
    holder,     \* the code each request redeemed and has not used yet
    changed     \* codes that bought a replacement

cvars == <<mailed, spent, holder, changed>>

Init ==
    /\ mailed = {} /\ spent = {} /\ changed = {}
    /\ holder = [r \in Reqs |-> NoCode]

Mail(c) ==
    /\ mailed' = mailed \cup {c}
    /\ UNCHANGED <<spent, holder, changed>>

Redeem(r, c) ==
    /\ holder[r] = NoCode
    /\ c \in mailed \ spent
    /\ spent' = spent \cup {c}
    /\ holder' = [holder EXCEPT ![r] = c]
    /\ UNCHANGED <<mailed, changed>>

Change(r) ==
    /\ holder[r] # NoCode
    /\ changed' = changed \cup {holder[r]}
    /\ holder' = [holder EXCEPT ![r] = NoCode]
    /\ UNCHANGED <<mailed, spent>>

\* The replacement failed; the code stays spent.
Lose(r) ==
    /\ holder' = [holder EXCEPT ![r] = NoCode]
    /\ UNCHANGED <<mailed, spent, changed>>

Next ==
    \/ \E c \in Codes : Mail(c)
    \/ \E r \in Reqs : Change(r) \/ Lose(r) \/ \E c \in Codes : Redeem(r, c)

Spec == Init /\ [][Next]_cvars
=============================================================================
