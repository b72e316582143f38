------------------------ MODULE PasswordResetProofs ------------------------
(***************************************************************************)
(* Proofs about PasswordReset, for any number of codes, request slots and  *)
(* attempts.                                                               *)
(***************************************************************************)
EXTENDS PasswordReset, FiniteSetTheorems, WellFoundedInduction, TLAPS

\* Requests that will be given an id, and the ids they count on.
Waiting == {q \in Reqs : pc[q] \in {"window", "create"}}
IdsLeft == issued + Cardinality(Waiting) <= MaxCodes

\* What a request holds at each label.
ShapeOf(r) ==
    /\ pc[r] = "read" => req[r].guess \in inbox \cup {NoCode}
    /\ pc[r] \in {"insert", "send", "count", "burn", "consume", "update"} => req[r].code \in Codes
    /\ pc[r] = "insert" => req[r].code <= issued /\ row[req[r].code].st = "none"
    /\ pc[r] \in {"send", "count", "burn", "consume", "update"} => row[req[r].code].st # "none"
    /\ pc[r] = "consume" => req[r].code \in inbox
    /\ pc[r] = "update" => row[req[r].code].st = "redeemed"

\* No two requests insert one row, and no two redeemed one code.
Apart == \A q, r \in Reqs : \A p \in {"insert", "update"} :
    pc[q] = p /\ pc[r] = p /\ req[q].code = req[r].code => q = r
Shape == (\A r \in Reqs : ShapeOf(r)) /\ Apart

\* A row that is there was given an id and has an issuer.
RowsOK == \A c \in Codes : row[c].st # "none" => c <= issued /\ row[c].by \in Reqs

Base == TypeOK /\ IdsLeft /\ Shape /\ RowsOK

\* Codes issued by one slot: the one being inserted supersedes the others.
LiveInv ==
    /\ LiveCodesOverlapped
    /\ \A r \in Reqs, c \in Codes :
         pc[r] = "insert" /\ Live(c) /\ row[c].by = r => c \in req[r].seen

\* A Google-only account has no rows and no request that works on one.
GoogleInv == googleOnly =>
    /\ \A c \in Codes : row[c].st = "none"
    /\ \A r \in Reqs : pc[r] \notin {"create", "insert", "send", "count", "consume", "update"}
    /\ changed = {}

-----------------------------------------------------------------------------

LEMMA InitBase == Init => Base
<1> SUFFICES ASSUME Init PROVE Base
  OBVIOUS
<1>1. Waiting = {}
  BY DEF Init, Waiting
<1>2. TypeOK /\ Shape /\ RowsOK
  BY ResetAssumption DEF Init, TypeOK, Shape, ShapeOf, Apart, RowsOK, NoRow, NoRequest,
     CodeRows, Requests, Pcs, Codes, NoCode
<1>3. IdsLeft
  BY <1>1, FS_EmptySet, ResetAssumption DEF Init, IdsLeft
<1> QED
  BY <1>2, <1>3 DEF Base

\* How many wait for an id: one more with a new request, one less when it is given.
LEMMA WaitingCount ==
    /\ IsFiniteSet(Waiting)
    /\ Cardinality(Waiting) \in Nat
    /\ \A r \in Reqs :
         /\ Cardinality(Waiting \cup {r}) \in Nat
         /\ Cardinality(Waiting \cup {r}) <= Cardinality(Waiting) + 1
         /\ r \in Waiting => Cardinality(Waiting \ {r}) = Cardinality(Waiting) - 1
<1>1. IsFiniteSet(Waiting)
  BY FS_Subset, ResetAssumption DEF Waiting
<1>2. Cardinality(Waiting) \in Nat
  BY <1>1, FS_CardinalityType
<1>3. ASSUME NEW r \in Reqs
      PROVE  /\ Cardinality(Waiting \cup {r}) \in Nat
             /\ Cardinality(Waiting \cup {r}) <= Cardinality(Waiting) + 1
  <2>1. Cardinality(Waiting \cup {r}) \in {Cardinality(Waiting), Cardinality(Waiting) + 1}
    BY <1>1, FS_AddElement
  <2> QED
    BY <1>2, <2>1
<1> QED
  BY <1>1, <1>2, <1>3, FS_RemoveElement

\* Fewer requests waiting for an id, none given: the ids still suffice.
LEMMA IdsLeftKept == ASSUME Base, issued' = issued, Waiting' \subseteq Waiting PROVE IdsLeft'
<1>1. Cardinality(Waiting') \in Nat /\ Cardinality(Waiting') <= Cardinality(Waiting)
  BY WaitingCount, FS_Subset, FS_CardinalityType
<1> QED
  BY <1>1, WaitingCount, ResetAssumption DEF Base, IdsLeft, TypeOK, Codes

LEMMA ForgotBase == ASSUME Base, NEW r \in Reqs, BeginForgot(r) PROVE Base'
<1>1. TypeOK' /\ Shape' /\ RowsOK'
  BY DEF BeginForgot, Begin, Base, TypeOK, Shape, ShapeOf, Apart, RowsOK, NoRequest, Requests, Pcs
<1>2. Waiting' = Waiting \cup {r}
  BY DEF BeginForgot, Begin, Waiting, Base, TypeOK
<1>3. issued \in Nat /\ issued' = issued /\ issued + Cardinality(Waiting) < MaxCodes
  BY DEF BeginForgot, Begin, Waiting, Base, TypeOK
<1>4. Cardinality(Waiting') \in Nat /\ Cardinality(Waiting') <= Cardinality(Waiting) + 1
  BY <1>2, WaitingCount
<1>5. issued + Cardinality(Waiting') <= MaxCodes
  BY <1>3, <1>4, WaitingCount, ResetAssumption
<1>6. IdsLeft'
  BY <1>3, <1>5 DEF IdsLeft
<1> QED
  BY <1>1, <1>6 DEF Base

LEMMA CreateBeginsBase == ASSUME Base, NEW r \in Reqs, CreateBegins(r) PROVE Base'
<1> USE DEF CreateBegins
<1>1. Waiting' = Waiting \ {r} /\ r \in Waiting
  BY DEF Waiting, Base, TypeOK
<1>2. issued < MaxCodes /\ IdsLeft'
  <2>1. Cardinality(Waiting') = Cardinality(Waiting) - 1 /\ Cardinality(Waiting) \in Nat
    BY <1>1, WaitingCount
  <2>2. issued \in Nat /\ issued' = issued + 1 /\ issued + Cardinality(Waiting) <= MaxCodes
    BY DEF Base, TypeOK, IdsLeft
  <2>3. Cardinality(Waiting') \in Nat
    BY <1>1, WaitingCount, FS_RemoveElement, FS_CardinalityType
  <2> HIDE DEF CreateBegins
  <2>4. issued < MaxCodes /\ issued' + Cardinality(Waiting') <= MaxCodes
    BY <2>1, <2>2, <2>3, ResetAssumption
  <2> QED
    BY <2>4 DEF IdsLeft
<1>3. issued + 1 \in Codes
  BY <1>2, ResetAssumption DEF Base, TypeOK, Codes
<1>4. row[issued + 1].st = "none"
  BY <1>3, ResetAssumption DEF Base, RowsOK, TypeOK, Codes
<1>5. TypeOK'
  <2>1. issued' \in 0..MaxCodes /\ pc' \in [Reqs -> Pcs]
    BY <1>2, ResetAssumption DEF Base, TypeOK, Pcs
  <2>2. {c \in Codes : Live(c)} \in SUBSET Codes
    OBVIOUS
  <2>3. req' \in [Reqs -> Requests]
    BY <1>3, <2>2 DEF Base, TypeOK, Requests
  <2> QED
    BY <2>1, <2>3 DEF Base, TypeOK
<1>6. Shape'
  <2>1. \A q \in Reqs : ShapeOf(q)'
    <3> TAKE q \in Reqs
    <3>1. CASE q = r
      BY <3>1, <1>3, <1>4, ResetAssumption DEF Base, TypeOK, ShapeOf, Codes
    <3>2. CASE q # r
      <4>1. pc'[q] = pc[q] /\ req'[q] = req[q] /\ ShapeOf(q)
        BY <3>2 DEF Base, TypeOK, Shape
      <4>2. req[q].code \in Codes /\ req[q].code <= issued => req[q].code <= issued'
        BY ResetAssumption DEF Base, TypeOK, Codes
      <4> QED
        BY <4>1, <4>2 DEF ShapeOf
    <3> QED
      BY <3>1, <3>2
  <2>2. Apart'
    BY <1>3, ResetAssumption DEF Base, TypeOK, Shape, ShapeOf, Apart, Requests, Codes
  <2> QED
    BY <2>1, <2>2 DEF Shape
<1>7. RowsOK'
  BY ResetAssumption DEF Base, RowsOK, TypeOK, Codes
<1> QED
  BY <1>2, <1>5, <1>6, <1>7 DEF Base

LEMMA CreateEndsBase == ASSUME Base, NEW r \in Reqs, CreateEnds(r) PROVE Base'
<1>1. req[r].code \in Codes /\ req[r].code <= issued /\ row[req[r].code].st = "none"
  BY DEF CreateEnds, Base, Shape, ShapeOf
<1>2. \A c \in Codes :
        row'[c] = IF c = req[r].code THEN NewRow(r)
                  ELSE [row[c] EXCEPT !.st = IF c \in req[r].seen /\ Live(c) THEN "retired" ELSE @,
                                      !.gone = @ \/ row[c].age = 3]
  BY DEF CreateEnds
<1>3. /\ pc'[r] = "send" /\ req'[r].code = req[r].code
      /\ \A q \in Reqs \ {r} : pc'[q] = pc[q] /\ req'[q] = req[q]
      /\ inbox' = inbox /\ issued' = issued
  BY DEF CreateEnds, Base, TypeOK, Requests
<1>4. TypeOK'
  <2>1. NewRow(r) \in CodeRows
    BY DEF NewRow, CodeRows
  <2>2. \A c \in Codes : row'[c] \in CodeRows
    <3> TAKE c \in Codes
    <3>1. CASE c = req[r].code
      BY <1>2, <2>1, <3>1
    <3>2. CASE c # req[r].code
      <4> DEFINE x == IF c \in req[r].seen /\ Live(c) THEN "retired" ELSE row[c].st
                 b == row[c].gone \/ row[c].age = 3
      <4>1. row[c] \in CodeRows
        BY DEF Base, TypeOK
      <4>2. x \in {"none", "live", "redeemed", "retired"} /\ b \in BOOLEAN
        BY <4>1 DEF CodeRows
      <4>3. row'[c] = [row[c] EXCEPT !.st = x, !.gone = b]
        BY <1>2, <3>2
      <4> HIDE DEF x, b
      <4> QED
        BY <4>1, <4>2, <4>3 DEF CodeRows
    <3> QED
      BY <3>1, <3>2
  <2>3. row' \in [Codes -> CodeRows]
    BY <2>2 DEF CreateEnds
  <2> QED
    BY <2>3 DEF CreateEnds, Base, TypeOK, Pcs, Requests
<1>5. ASSUME NEW c \in Codes, c # req[r].code
      PROVE  /\ row'[c].st = "none" <=> row[c].st = "none"
             /\ row'[c].st = "redeemed" <=> row[c].st = "redeemed"
             /\ row'[c].by = row[c].by
  <2>1. row[c] \in CodeRows /\ row'[c] \in CodeRows
    BY <1>4 DEF Base, TypeOK
  <2>2. row'[c] = [row[c] EXCEPT !.st = IF c \in req[r].seen /\ Live(c) THEN "retired" ELSE @,
                                 !.gone = @ \/ row[c].age = 3]
    BY <1>2, <1>5
  <2>3. /\ row'[c].st = IF c \in req[r].seen /\ Live(c) THEN "retired" ELSE row[c].st
        /\ row'[c].by = row[c].by
    BY <2>1, <2>2 DEF CodeRows
  <2> QED
    BY <2>3 DEF Live
<1>6. row'[req[r].code].st = "live" /\ row'[req[r].code].by = r
  <2>1. row'[req[r].code] = NewRow(r)
    BY <1>1, <1>2
  <2> QED
    BY <2>1 DEF NewRow
<1>7. Shape'
  <2>1. \A q \in Reqs : ShapeOf(q)'
    <3> TAKE q \in Reqs
    <3>1. CASE q = r
      BY <3>1, <1>1, <1>3, <1>6 DEF ShapeOf
    <3>2. CASE q # r
      <4>1. pc'[q] = pc[q] /\ req'[q] = req[q] /\ ShapeOf(q)
        BY <3>2, <1>3 DEF Base, Shape
      <4>2. pc[q] = "insert" => req[q].code # req[r].code
        BY <3>2 DEF CreateEnds, Base, Shape, Apart
      <4>3. pc[q] = "update" => req[q].code # req[r].code
        BY <1>1, <4>1 DEF ShapeOf
      <4>4. req[q].code \in Codes /\ row[req[q].code].st # "none" => row'[req[q].code].st # "none"
        BY <1>5, <1>6
      <4> QED
        BY <1>3, <1>5, <4>1, <4>2, <4>3, <4>4 DEF ShapeOf
    <3> QED
      BY <3>1, <3>2
  <2>2. Apart'
    BY <1>3 DEF Base, Shape, Apart
  <2> QED
    BY <2>1, <2>2 DEF Shape
<1>8. RowsOK'
  BY <1>1, <1>3, <1>5, <1>6 DEF Base, RowsOK
<1>9. Waiting' = Waiting
  BY DEF CreateEnds, Waiting, Base, TypeOK
<1> QED
  BY <1>3, <1>4, <1>7, <1>8, <1>9, IdsLeftKept DEF Base

\* What every other step leaves alone in the table.
RowsKept == \A c \in Codes :
    /\ row'[c].st = "none" <=> row[c].st = "none"
    /\ row'[c].by = row[c].by
    /\ row[c].st = "redeemed" => row'[c].st = "redeemed"

\* Request r moves to label p with record q, and inserts nothing.
Moves(r, p, q) ==
    /\ pc' = [pc EXCEPT ![r] = p] /\ req' = [req EXCEPT ![r] = q]
    /\ p \in Pcs \ {"insert"} /\ q \in Requests
    /\ p \in {"window", "create"} => pc[r] \in {"window", "create"}
    /\ p = "update" => \A o \in Reqs : pc[o] = "update" => req[o].code # q.code

\* Such a move keeps the base invariant if it keeps types and its own shape.
LEMMA MoveBase ==
    ASSUME Base, NEW r \in Reqs, NEW p, NEW q, Moves(r, p, q),
           RowsKept, issued' = issued, inbox \subseteq inbox', TypeOK', ShapeOf(r)'
    PROVE  Base'
<1>1. /\ pc'[r] = p /\ req'[r] = q
      /\ \A o \in Reqs \ {r} : pc'[o] = pc[o] /\ req'[o] = req[o]
  BY DEF Moves, Base, TypeOK
<1>2. \A o \in Reqs : ShapeOf(o)'
  <2> TAKE o \in Reqs
  <2>1. CASE o = r
    BY <2>1
  <2>2. CASE o # r
    <3>1. pc'[o] = pc[o] /\ req'[o] = req[o] /\ ShapeOf(o)
      BY <1>1, <2>2 DEF Base, Shape
    <3> QED
      BY <3>1 DEF ShapeOf, RowsKept
  <2> QED
    BY <2>1, <2>2
<1>3. Apart'
  BY <1>1 DEF Moves, Base, Shape, Apart
<1>4. RowsOK'
  BY DEF RowsKept, Base, RowsOK
<1>5. Waiting' \subseteq Waiting
  BY <1>1 DEF Moves, Waiting
<1> QED
  BY <1>2, <1>3, <1>4, <1>5, IdsLeftKept DEF Base, Shape

\* The codes below that are retired were not redeemed.
LEMMA ResetBase == ASSUME Base, NEW r \in Reqs, BeginReset(r) PROVE Base'
<1>1. PICK g \in inbox \cup {NoCode} : Begin(r, "read", [NoRequest EXCEPT !.guess = g])
  BY DEF BeginReset
<1>2. [NoRequest EXCEPT !.guess = g] \in Requests
  BY DEF NoRequest, Requests, Base, TypeOK
<1>3. TypeOK' /\ RowsKept /\ Moves(r, "read", [NoRequest EXCEPT !.guess = g])
  BY <1>1, <1>2 DEF Begin, Base, TypeOK, Pcs, RowsKept, Moves
<1>4. ShapeOf(r)'
  BY <1>1 DEF Begin, ShapeOf, NoRequest, Base, TypeOK
<1> QED
  BY <1>1, <1>3, <1>4, MoveBase DEF Begin

\* A request that is answered holds nothing.
LEMMA AnswerBase ==
    ASSUME Base, NEW r \in Reqs, Answer(r),
           RowsKept, issued' = issued, inbox \subseteq inbox', inbox' \subseteq Codes,
           row' \in [Codes -> CodeRows], changed' \subseteq Codes, lost' \in Nat,
           UNCHANGED googleOnly
    PROVE  Base'
<1>1. NoRequest \in Requests
  BY DEF NoRequest, Requests
<1>2. TypeOK' /\ Moves(r, "idle", NoRequest)
  BY <1>1 DEF Answer, Base, TypeOK, Pcs, Moves
<1>3. ShapeOf(r)'
  BY DEF Answer, ShapeOf, Base, TypeOK
<1> QED
  BY <1>2, <1>3, MoveBase

\* A request that only moves to another label keeps its record.
LEMMA GotoBase ==
    ASSUME Base, NEW r \in Reqs, NEW p \in Pcs \ {"insert", "update"}, Goto(r, p),
           p \in {"window", "create"} => pc[r] \in {"window", "create"},
           RowsKept, issued' = issued, inbox \subseteq inbox', inbox' \subseteq Codes,
           row' \in [Codes -> CodeRows], changed' \subseteq Codes, lost' \in Nat,
           UNCHANGED googleOnly, ShapeOf(r)'
    PROVE  Base'
<1>1. req[r] \in Requests /\ req' = [req EXCEPT ![r] = req[r]]
  BY DEF Goto, Base, TypeOK
<1>2. TypeOK' /\ Moves(r, p, req[r])
  BY <1>1 DEF Goto, Base, TypeOK, Pcs, Moves
<1> QED
  BY <1>2, MoveBase

LEMMA WindowBase == ASSUME Base, NEW r \in Reqs, LastPasswordResetSentAt(r) PROVE Base'
<1>1. RowsKept /\ row' \in [Codes -> CodeRows] /\ inbox \subseteq Codes /\ changed \subseteq Codes
      /\ lost \in Nat
  BY DEF LastPasswordResetSentAt, RowsKept, Base, TypeOK
<1>2. CASE Answer(r)
  BY <1>1, <1>2, AnswerBase DEF LastPasswordResetSentAt
<1>3. CASE Goto(r, "notice")
  <2>1. ShapeOf(r)'
    BY <1>3 DEF Goto, ShapeOf, Base, TypeOK
  <2> QED
    BY <1>1, <1>3, <2>1, GotoBase DEF LastPasswordResetSentAt, Pcs
<1>4. CASE Goto(r, "create")
  <2>1. ShapeOf(r)'
    BY <1>4 DEF Goto, ShapeOf, Base, TypeOK
  <2>2. pc[r] = "window"
    BY DEF LastPasswordResetSentAt
  <2> QED
    BY <1>1, <1>4, <2>1, <2>2, GotoBase DEF LastPasswordResetSentAt, Pcs
<1> QED
  BY <1>2, <1>3, <1>4 DEF LastPasswordResetSentAt

LEMMA SendBase == ASSUME Base, NEW r \in Reqs, SendPasswordReset(r) PROVE Base'
<1>1. req[r].code \in Codes /\ row[req[r].code].st # "none"
  BY DEF SendPasswordReset, Base, Shape, ShapeOf
<1>2. /\ RowsKept /\ row' \in [Codes -> CodeRows] /\ changed' \subseteq Codes /\ lost' \in Nat
      /\ inbox \subseteq inbox' /\ inbox' \subseteq Codes
      /\ UNCHANGED <<issued, googleOnly>>
  BY <1>1 DEF SendPasswordReset, RowsKept, Base, TypeOK
<1>3. CASE Answer(r)
  BY <1>2, <1>3, AnswerBase
<1>4. CASE Goto(r, "retire")
  <2>1. ShapeOf(r)'
    BY <1>4 DEF Goto, ShapeOf, Base, TypeOK
  <2> QED
    BY <1>2, <1>4, <2>1, GotoBase DEF Pcs
<1> QED
  BY <1>3, <1>4 DEF SendPasswordReset

LEMMA ExpireBase == ASSUME Base, NEW r \in Reqs, ExpirePasswordResetTokens(r) PROVE Base'
<1>1. ASSUME NEW c \in Codes
      PROVE  /\ row'[c] \in CodeRows
             /\ row'[c].st = "none" <=> row[c].st = "none"
             /\ row'[c].by = row[c].by
             /\ row[c].st = "redeemed" => row'[c].st = "redeemed"
  <2>1. row[c] \in CodeRows
    BY DEF Base, TypeOK
  <2>2. CASE Live(c)
    <3>1. row'[c] = [row[c] EXCEPT !.st = "retired"]
      BY <2>2 DEF ExpirePasswordResetTokens
    <3> QED
      BY <2>1, <2>2, <3>1 DEF CodeRows, Live
  <2>3. CASE ~Live(c)
    BY <2>1, <2>3 DEF ExpirePasswordResetTokens
  <2> QED
    BY <2>2, <2>3
<1>2. row' \in [Codes -> CodeRows]
  BY <1>1 DEF ExpirePasswordResetTokens
<1>3. RowsKept
  BY <1>1 DEF RowsKept
<1> QED
  BY <1>2, <1>3, AnswerBase DEF ExpirePasswordResetTokens, Base, TypeOK

LEMMA GetLiveBase == ASSUME Base, NEW r \in Reqs, GetLivePasswordResetToken(r) PROVE Base'
<1>1. CASE Answer(r) /\ UNCHANGED row
  BY <1>1, AnswerBase DEF GetLivePasswordResetToken, RowsKept, Base, TypeOK
<1>2. CASE ~(Answer(r) /\ UNCHANGED row)
  <2>1. PICK c \in Codes :
          /\ Usable(c)
          /\ req' = [req EXCEPT ![r] = [NoRequest EXCEPT !.code = c]]
          /\ \/ req[r].guess = c /\ pc' = [pc EXCEPT ![r] = "consume"] /\ UNCHANGED row
             \/ /\ req[r].guess # c /\ pc' = [pc EXCEPT ![r] = "count"]
                /\ row' = [row EXCEPT ![c].tried = @ + 1]
    BY <1>2 DEF GetLivePasswordResetToken, Newest
  <2> DEFINE q == [NoRequest EXCEPT !.code = c]
  <2>2. q \in Requests /\ q.code = c
    BY DEF NoRequest, Requests
  <2>3. row[c] \in CodeRows /\ row[c].st = "live"
    BY <2>1 DEF Base, TypeOK, Usable, Live
  <2>4. row' \in [Codes -> CodeRows] /\ RowsKept /\ row'[c].st = "live"
    <3>1. CASE UNCHANGED row
      BY <2>3, <3>1 DEF Base, TypeOK, RowsKept
    <3>2. CASE row' = [row EXCEPT ![c].tried = @ + 1]
      <4>1. [row[c] EXCEPT !.tried = @ + 1] \in CodeRows
        BY <2>3 DEF CodeRows
      <4> QED
        BY <2>3, <3>2, <4>1 DEF Base, TypeOK, RowsKept, CodeRows
    <3> QED
      BY <2>1, <3>1, <3>2
  <2>5. req'[r].code = c /\ c # NoCode
    BY <2>1, <2>2, ResetAssumption DEF Base, TypeOK, Codes, NoCode
  <2>6. UNCHANGED <<googleOnly, issued, inbox, changed, lost>> /\ pc[r] = "read"
    BY DEF GetLivePasswordResetToken
  <2>7. CASE pc' = [pc EXCEPT ![r] = "consume"] /\ req[r].guess = c
    <3>1. TypeOK' /\ Moves(r, "consume", q)
      BY <2>1, <2>2, <2>4, <2>6, <2>7 DEF Base, TypeOK, Pcs, Moves
    <3>2. c \in inbox
      BY <2>5, <2>6, <2>7 DEF Base, Shape, ShapeOf
    <3>3. pc'[r] = "consume"
      BY <2>7 DEF Base, TypeOK
    <3>4. ShapeOf(r)'
      BY <2>4, <2>5, <2>6, <3>2, <3>3 DEF ShapeOf
    <3> QED
      BY <2>4, <2>6, <3>1, <3>4, MoveBase
  <2>8. CASE pc' = [pc EXCEPT ![r] = "count"]
    <3>1. TypeOK' /\ Moves(r, "count", q)
      BY <2>1, <2>2, <2>4, <2>6, <2>8 DEF Base, TypeOK, Pcs, Moves
    <3>2. pc'[r] = "count"
      BY <2>8 DEF Base, TypeOK
    <3>3. ShapeOf(r)'
      BY <2>4, <2>5, <3>2 DEF ShapeOf
    <3> QED
      BY <2>4, <2>6, <3>1, <3>3, MoveBase
  <2> QED
    BY <2>1, <2>7, <2>8
<1> QED
  BY <1>1, <1>2

LEMMA IncrementBase == ASSUME Base, NEW r \in Reqs, IncrementPasswordResetAttempts(r) PROVE Base'
<1>1. req[r].code \in Codes /\ row[req[r].code] \in CodeRows /\ row[req[r].code].st # "none"
  BY DEF IncrementPasswordResetAttempts, Base, Shape, ShapeOf, TypeOK
<1>2. row' \in [Codes -> CodeRows] /\ RowsKept
  <2>1. CASE UNCHANGED row
    BY <2>1 DEF Base, TypeOK, RowsKept
  <2>2. CASE row' = [row EXCEPT ![req[r].code].attempts = @ + 1]
    <3>1. [row[req[r].code] EXCEPT !.attempts = @ + 1] \in CodeRows
      BY <1>1 DEF CodeRows
    <3> QED
      BY <1>1, <2>2, <3>1 DEF Base, TypeOK, RowsKept, CodeRows
  <2> QED
    BY <2>1, <2>2 DEF IncrementPasswordResetAttempts
<1>3. UNCHANGED <<googleOnly, issued, inbox, changed, lost>>
  BY DEF IncrementPasswordResetAttempts
<1>4. CASE Answer(r)
  BY <1>2, <1>3, <1>4, AnswerBase DEF Base, TypeOK
<1>5. CASE Goto(r, "burn")
  <2>1. ShapeOf(r)'
    BY <1>1, <1>2, <1>5 DEF Goto, ShapeOf, Base, TypeOK, RowsKept
  <2> QED
    BY <1>2, <1>3, <1>5, <2>1, GotoBase DEF Pcs, Base, TypeOK
<1> QED
  BY <1>4, <1>5 DEF IncrementPasswordResetAttempts

LEMMA ConsumeBase == ASSUME Base, NEW r \in Reqs, ConsumePasswordResetToken(r) PROVE Base'
<1> DEFINE c == req[r].code
<1>1. c \in Codes /\ row[c] \in CodeRows /\ req[r] \in Requests /\ pc[r] = "consume"
  BY DEF ConsumePasswordResetToken, Base, Shape, ShapeOf, TypeOK
<1>2. UNCHANGED <<googleOnly, issued, inbox, changed, lost>>
  BY DEF ConsumePasswordResetToken
<1>3. CASE Answer(r) /\ UNCHANGED row
  BY <1>2, <1>3, AnswerBase DEF Base, TypeOK, RowsKept
<1>4. CASE Live(c) /\ row' = [row EXCEPT ![c].st = "redeemed"] /\ Goto(r, "update")
  <2>1. [row[c] EXCEPT !.st = "redeemed"] \in CodeRows
    BY <1>1 DEF CodeRows
  <2>2. row' \in [Codes -> CodeRows] /\ row'[c].st = "redeemed" /\ RowsKept
    BY <1>1, <1>4, <2>1 DEF Base, TypeOK, RowsKept, CodeRows, Live
  <2>3. pc' = [pc EXCEPT ![r] = "update"] /\ req' = [req EXCEPT ![r] = req[r]]
    BY <1>1, <1>4 DEF Goto, Base, TypeOK
  <2>4. \A o \in Reqs : pc[o] = "update" => req[o].code # c
    BY <1>4 DEF Live, Base, Shape, ShapeOf
  <2>5. TypeOK' /\ Moves(r, "update", req[r])
    BY <1>1, <1>2, <2>2, <2>3, <2>4 DEF Base, TypeOK, Pcs, Moves
  <2>6. ShapeOf(r)'
    BY <1>1, <2>2, <2>3 DEF ShapeOf, Base, TypeOK
  <2> QED
    BY <1>2, <2>2, <2>5, <2>6, MoveBase
<1> QED
  BY <1>3, <1>4 DEF ConsumePasswordResetToken

\* Rows only age.
LEMMA AgeBase == ASSUME Base, NEW c \in Codes, Age(c) PROVE Base'
<1>1. row[c] \in CodeRows /\ row[c].age < 3 /\ row' = [row EXCEPT ![c].age = @ + 1]
  BY DEF Age, Base, TypeOK
<1>2. [row[c] EXCEPT !.age = @ + 1] \in CodeRows
  BY <1>1 DEF CodeRows
<1>3. row' \in [Codes -> CodeRows]
  BY <1>1, <1>2 DEF Base, TypeOK
<1>4. RowsKept
  BY <1>1 DEF RowsKept, Base, TypeOK, CodeRows
<1>5. UNCHANGED <<googleOnly, issued, inbox, changed, lost, pc, req>>
  BY DEF Age
<1>6. TypeOK'
  BY <1>3, <1>5 DEF Base, TypeOK
<1>7. Shape'
  BY <1>4, <1>5 DEF Base, Shape, ShapeOf, Apart, RowsKept
<1>8. RowsOK'
  BY <1>4, <1>5 DEF RowsKept, Base, RowsOK
<1>9. Waiting' = Waiting
  BY <1>5 DEF Waiting
<1> QED
  BY <1>5, <1>6, <1>7, <1>8, <1>9, IdsLeftKept DEF Base

LEMMA NextBase == Base /\ [Next]_vars => Base'
<1> SUFFICES ASSUME Base, [Next]_vars PROVE Base'
  OBVIOUS
<1>1. ASSUME NEW r \in Reqs, Step(r) PROVE Base'
  <2>1. CASE SendPasswordResetForGoogleAccount(r)
    BY <2>1, AnswerBase DEF SendPasswordResetForGoogleAccount, RowsKept, Base, TypeOK
  <2>2. CASE UpdatePassword(r)
    <3>1. req[r].code \in Codes
      BY <2>2 DEF UpdatePassword, Base, Shape, ShapeOf
    <3> QED
      BY <2>2, <3>1, AnswerBase DEF UpdatePassword, RowsKept, Base, TypeOK
  <2> QED
    BY <1>1, <2>1, <2>2, WindowBase, CreateBeginsBase, CreateEndsBase, SendBase, ExpireBase,
       GetLiveBase, IncrementBase, ConsumeBase DEF Step
<1>2. ASSUME NEW r \in Reqs, Fail(r) PROVE Base'
  BY <1>2, AnswerBase DEF Fail, RowsKept, Base, TypeOK
<1>3. CASE UNCHANGED vars
  <2>1. Waiting' = Waiting
    BY <1>3 DEF vars, Waiting
  <2> QED
    BY <1>3, <2>1, IdsLeftKept DEF vars, Base, TypeOK, Shape, ShapeOf, Apart, RowsOK
<1> QED
  BY <1>1, <1>2, <1>3, ForgotBase, ResetBase, AgeBase DEF Next

\* Types, ids and what requests hold: every reachable state is well formed.
THEOREM BaseCorrect == Spec => []Base
<1> QED
  BY InitBase, NextBase, PTL DEF Spec

\* TypeOK holds in every reachable state.
THEOREM TypeCorrect == Spec => []TypeOK
<1>1. Base => TypeOK
  BY DEF Base
<1> QED
  BY <1>1, BaseCorrect, PTL

-----------------------------------------------------------------------------
(* What the steps do to the rows, for the invariants below.                *)

\* Every step but CreateEnds: no row appears or comes back to life.
NoNewRow == \A c \in Codes :
    /\ row'[c].by = row[c].by
    /\ row'[c].st = "none" <=> row[c].st = "none"
    /\ Live(c)' => Live(c)

LEMMA QuietRows ==
    ASSUME Base, [Next]_vars, \A r \in Reqs : ~CreateEnds(r)
    PROVE  NoNewRow
<1>1. TypeOK /\ TypeOK'
  BY NextBase DEF Base
<1>2. CASE UNCHANGED row
  BY <1>2 DEF NoNewRow, Live
<1>3. ASSUME NEW r \in Reqs, ExpirePasswordResetTokens(r) PROVE NoNewRow
  <2> SUFFICES ASSUME NEW c \in Codes
               PROVE  /\ row'[c].by = row[c].by
                      /\ row'[c].st = "none" <=> row[c].st = "none"
                      /\ Live(c)' => Live(c)
    BY DEF NoNewRow
  <2>1. row[c] \in CodeRows
    BY <1>1 DEF TypeOK
  <2>2. CASE Live(c)
    <3>1. row'[c] = [row[c] EXCEPT !.st = "retired"]
      BY <1>3, <2>2 DEF ExpirePasswordResetTokens
    <3> QED
      BY <2>1, <2>2, <3>1 DEF CodeRows, Live
  <2>3. CASE ~Live(c)
    <3>1. row'[c] = row[c]
      BY <1>3, <2>3 DEF ExpirePasswordResetTokens
    <3> QED
      BY <2>3, <3>1 DEF Live
  <2> QED
    BY <2>2, <2>3
<1>4. ASSUME NEW r \in Reqs, GetLivePasswordResetToken(r) PROVE NoNewRow
  <2>1. UNCHANGED row \/ \E d \in Codes : row' = [row EXCEPT ![d].tried = @ + 1]
    BY <1>4 DEF GetLivePasswordResetToken, Newest
  <2> QED
    BY <1>1, <2>1 DEF NoNewRow, Live, TypeOK, CodeRows
<1>5. ASSUME NEW r \in Reqs, IncrementPasswordResetAttempts(r) PROVE NoNewRow
  BY <1>1, <1>5 DEF IncrementPasswordResetAttempts, NoNewRow, Live, TypeOK, CodeRows
<1>6. ASSUME NEW r \in Reqs, ConsumePasswordResetToken(r) PROVE NoNewRow
  BY <1>1, <1>6 DEF ConsumePasswordResetToken, NoNewRow, Live, TypeOK, CodeRows
<1>7. ASSUME NEW c \in Codes, Age(c) PROVE NoNewRow
  BY <1>1, <1>7 DEF Age, NoNewRow, Live, TypeOK, CodeRows
<1>8. ASSUME NEW r \in Reqs, Step(r) PROVE NoNewRow
  BY <1>2, <1>3, <1>4, <1>5, <1>6, <1>8 DEF Step, LastPasswordResetSentAt,
     SendPasswordResetForGoogleAccount, CreateBegins, SendPasswordReset, UpdatePassword
<1> QED
  BY <1>2, <1>7, <1>8 DEF Next, vars, BeginForgot, BeginReset, Begin, Fail

\* A request comes to insert a row only by CreateBegins, which sees what is live.
LEMMA InsertBegins ==
    ASSUME Base, [Next]_vars, NEW r \in Reqs, pc'[r] = "insert"
    PROVE  \/ CreateBegins(r)
           \/ pc[r] = "insert" /\ req'[r] = req[r]
<1>1. TypeOK
  BY DEF Base
<1>2. ASSUME NEW q \in Reqs, NEW p \in Pcs \ {"insert"}, pc' = [pc EXCEPT ![q] = p],
             \E x : req' = [req EXCEPT ![q] = x]
      PROVE  pc[r] = "insert" /\ req'[r] = req[r]
  BY <1>1, <1>2 DEF TypeOK
<1>3. ASSUME NEW q \in Reqs, Answer(q) PROVE pc[r] = "insert" /\ req'[r] = req[r]
  BY <1>2, <1>3 DEF Answer, Pcs
<1>4. ASSUME NEW q \in Reqs, NEW p \in Pcs \ {"insert"}, Goto(q, p)
      PROVE  pc[r] = "insert" /\ req'[r] = req[r]
  BY <1>1, <1>4 DEF Goto, TypeOK
<1>5. ASSUME NEW q \in Reqs, BeginForgot(q) \/ BeginReset(q)
      PROVE  pc[r] = "insert" /\ req'[r] = req[r]
  BY <1>1, <1>5 DEF BeginForgot, BeginReset, Begin, TypeOK
<1>6. ASSUME NEW q \in Reqs, Step(q), ~CreateBegins(q)
      PROVE  pc[r] = "insert" /\ req'[r] = req[r]
  <2>1. CASE CreateEnds(q)
    BY <1>1, <2>1 DEF CreateEnds, TypeOK
  <2>2. CASE GetLivePasswordResetToken(q)
    BY <1>1, <1>3, <2>2 DEF GetLivePasswordResetToken, TypeOK
  <2>3. CASE LastPasswordResetSentAt(q) \/ SendPasswordReset(q)
    BY <1>3, <1>4, <2>3 DEF LastPasswordResetSentAt, SendPasswordReset, Pcs
  <2>4. CASE IncrementPasswordResetAttempts(q) \/ ConsumePasswordResetToken(q)
    BY <1>3, <1>4, <2>4 DEF IncrementPasswordResetAttempts, ConsumePasswordResetToken, Pcs
  <2>5. CASE SendPasswordResetForGoogleAccount(q) \/ ExpirePasswordResetTokens(q) \/ UpdatePassword(q)
    BY <1>3, <2>5 DEF SendPasswordResetForGoogleAccount, ExpirePasswordResetTokens, UpdatePassword
  <2> QED
    BY <1>6, <2>1, <2>2, <2>3, <2>4, <2>5 DEF Step
<1>7. ASSUME NEW q \in Reqs, CreateBegins(q), q # r
      PROVE  pc[r] = "insert" /\ req'[r] = req[r]
  BY <1>1, <1>7 DEF CreateBegins, TypeOK
<1>8. ASSUME UNCHANGED <<pc, req>> PROVE pc[r] = "insert" /\ req'[r] = req[r]
  BY <1>8
<1> QED
  BY <1>3, <1>5, <1>6, <1>7, <1>8 DEF Next, vars, Fail, Age

\* The row that CreateEnds inserts, and the others.
LEMMA InsertEnds ==
    ASSUME Base, NEW r \in Reqs, CreateEnds(r)
    PROVE  /\ req[r].code \in Codes /\ row[req[r].code].st = "none"
           /\ row'[req[r].code] = NewRow(r)
           /\ \A c \in Codes \ {req[r].code} :
                /\ row'[c].st = IF c \in req[r].seen /\ Live(c) THEN "retired" ELSE row[c].st
                /\ row'[c].gone = (row[c].gone \/ row[c].age = 3)
                /\ row'[c].by = row[c].by /\ row'[c].age = row[c].age
                /\ row'[c].tried = row[c].tried /\ row'[c].attempts = row[c].attempts
           /\ pc' = [pc EXCEPT ![r] = "send"]
<1>1. req[r].code \in Codes /\ row[req[r].code].st = "none"
  BY DEF CreateEnds, Base, Shape, ShapeOf
<1>2. row'[req[r].code] = NewRow(r) /\ pc' = [pc EXCEPT ![r] = "send"]
  BY <1>1 DEF CreateEnds
<1>3. ASSUME NEW c \in Codes \ {req[r].code}
      PROVE  /\ row'[c].st = IF c \in req[r].seen /\ Live(c) THEN "retired" ELSE row[c].st
             /\ row'[c].gone = (row[c].gone \/ row[c].age = 3)
             /\ row'[c].by = row[c].by /\ row'[c].age = row[c].age
             /\ row'[c].tried = row[c].tried /\ row'[c].attempts = row[c].attempts
  <2> DEFINE x == IF c \in req[r].seen /\ Live(c) THEN "retired" ELSE row[c].st
             b == row[c].gone \/ row[c].age = 3
  <2>1. row[c] \in CodeRows
    BY DEF Base, TypeOK
  <2>2. row'[c] = [row[c] EXCEPT !.st = x, !.gone = b]
    BY DEF CreateEnds
  <2> HIDE DEF x, b
  <2>3. /\ row'[c].st = x /\ row'[c].gone = b
        /\ row'[c].by = row[c].by /\ row'[c].age = row[c].age
        /\ row'[c].tried = row[c].tried /\ row'[c].attempts = row[c].attempts
    BY <2>1, <2>2 DEF CodeRows
  <2> QED
    BY <2>3 DEF x, b
<1> QED
  BY <1>1, <1>2, <1>3

-----------------------------------------------------------------------------
(* Two live codes have overlapping issuers.                                *)

LEMMA LiveNext == Base /\ LiveInv /\ [Next]_vars => LiveInv'
<1> SUFFICES ASSUME Base, LiveInv, [Next]_vars PROVE LiveInv'
  OBVIOUS
<1>1. CASE \A r \in Reqs : ~CreateEnds(r)
  <2>1. NoNewRow
    BY <1>1, QuietRows
  <2>2. LiveCodesOverlapped'
    BY <2>1 DEF LiveInv, LiveCodesOverlapped, NoNewRow
  <2>3. ASSUME NEW r \in Reqs, NEW c \in Codes, pc'[r] = "insert", Live(c)', row'[c].by = r
        PROVE  c \in req'[r].seen
    <3>1. Live(c) /\ row[c].by = r
      BY <2>1, <2>3 DEF NoNewRow
    <3>2. CASE CreateBegins(r)
      <4>1. req'[r].seen = {d \in Codes : Live(d)}
        BY <3>2 DEF CreateBegins, Base, TypeOK, Requests
      <4> QED
        BY <3>1, <4>1
    <3>3. CASE pc[r] = "insert" /\ req'[r] = req[r]
      BY <3>1, <3>3 DEF LiveInv
    <3> QED
      BY <2>3, <3>2, <3>3, InsertBegins
  <2> QED
    BY <2>2, <2>3 DEF LiveInv
<1>2. ASSUME NEW r \in Reqs, CreateEnds(r) PROVE LiveInv'
  <2> DEFINE n == req[r].code
  <2>1. row'[n].by = r /\ pc[r] = "insert"
    BY <1>2, InsertEnds DEF NewRow, CreateEnds
  <2>2. ASSUME NEW c \in Codes \ {n}, Live(c)'
        PROVE  Live(c) /\ row'[c].by = row[c].by /\ row[c].by # r
    <3>1. Live(c) /\ c \notin req[r].seen /\ row'[c].by = row[c].by
      BY <1>2, <2>2, InsertEnds DEF Live
    <3> QED
      BY <2>1, <3>1 DEF LiveInv
  <2>3. LiveCodesOverlapped'
    BY <2>1, <2>2 DEF LiveInv, LiveCodesOverlapped
  <2>4. ASSUME NEW q \in Reqs, NEW c \in Codes, pc'[q] = "insert", Live(c)', row'[c].by = q
        PROVE  c \in req'[q].seen
    <3>1. q # r /\ pc[q] = "insert" /\ req'[q] = req[q]
      BY <1>2, <2>4, InsertEnds DEF CreateEnds, Base, TypeOK
    <3> QED
      BY <2>1, <2>2, <2>4, <3>1 DEF LiveInv
  <2> QED
    BY <2>3, <2>4 DEF LiveInv
<1> QED
  BY <1>1, <1>2

\* Codes live at once were issued by requests that overlapped, on every schedule.
THEOREM LiveOverlapped == Spec => []LiveCodesOverlapped
<1>1. Init => LiveInv
  BY DEF Init, LiveInv, LiveCodesOverlapped, Live, NoRow
<1>2. LiveInv => LiveCodesOverlapped
  BY DEF LiveInv
<1> QED
  BY <1>1, <1>2, LiveNext, BaseCorrect, PTL DEF Spec

-----------------------------------------------------------------------------
(* A Google-only account never gets a code, so never a password.           *)

LEMMA GoogleNext == Base /\ GoogleInv /\ [Next]_vars => GoogleInv'
<1> SUFFICES ASSUME Base, GoogleInv, [Next]_vars, googleOnly' PROVE GoogleInv'
  BY DEF GoogleInv
<1> DEFINE Barred == {"create", "insert", "send", "count", "consume", "update"}
<1>1. googleOnly
  BY DEF Next, vars, Step, LastPasswordResetSentAt, SendPasswordResetForGoogleAccount, CreateBegins,
     CreateEnds, SendPasswordReset, ExpirePasswordResetTokens, GetLivePasswordResetToken,
     IncrementPasswordResetAttempts, ConsumePasswordResetToken, UpdatePassword, Fail, Age,
     BeginForgot, BeginReset, Begin
<1>2. /\ TypeOK /\ changed = {}
      /\ \A c \in Codes : row[c].st = "none"
      /\ \A r \in Reqs : pc[r] \notin Barred
  BY <1>1 DEF Base, GoogleInv
<1>3. \A r \in Reqs : ~CreateEnds(r)
  BY <1>2 DEF CreateEnds
<1>4. \A c \in Codes : row'[c].st = "none"
  BY <1>2, <1>3, QuietRows DEF NoNewRow
<1>5. ASSUME NEW r \in Reqs, Answer(r) PROVE \A q \in Reqs : pc'[q] \notin Barred
  BY <1>2, <1>5 DEF Answer, TypeOK
<1>6. ASSUME NEW r \in Reqs, Step(r)
      PROVE  (\A q \in Reqs : pc'[q] \notin Barred) /\ changed' = {}
  <2>1. CASE LastPasswordResetSentAt(r)
    BY <1>1, <1>2, <1>5, <2>1 DEF LastPasswordResetSentAt, Goto, TypeOK
  <2>2. CASE SendPasswordResetForGoogleAccount(r) \/ ExpirePasswordResetTokens(r)
    BY <1>2, <1>5, <2>2 DEF SendPasswordResetForGoogleAccount, ExpirePasswordResetTokens
  <2>3. CASE GetLivePasswordResetToken(r)
    <3>1. \A c \in Codes : ~Usable(c)
      BY <1>2 DEF Usable, Live
    <3> QED
      BY <1>2, <1>5, <2>3, <3>1 DEF GetLivePasswordResetToken, Newest
  <2> QED
    BY <1>2, <1>6, <2>1, <2>2, <2>3 DEF Step, CreateBegins, CreateEnds, SendPasswordReset,
       IncrementPasswordResetAttempts, ConsumePasswordResetToken, UpdatePassword
<1>7. ASSUME NEW r \in Reqs, BeginForgot(r) \/ BeginReset(r) \/ Fail(r)
      PROVE  (\A q \in Reqs : pc'[q] \notin Barred) /\ changed' = {}
  BY <1>2, <1>5, <1>7 DEF BeginForgot, BeginReset, Begin, Fail, TypeOK
<1>8. (\A q \in Reqs : pc'[q] \notin Barred) /\ changed' = {}
  BY <1>2, <1>6, <1>7 DEF Next, vars, Age
<1> QED
  BY <1>4, <1>8 DEF GoogleInv

\* No schedule of requests gives a Google-only account a password.
THEOREM NoPassword == Spec => []NoPasswordAttached
<1>1. Init => GoogleInv
  BY DEF Init, GoogleInv, NoRow
<1>2. GoogleInv => NoPasswordAttached
  BY DEF GoogleInv, NoPasswordAttached
<1> QED
  BY <1>1, <1>2, GoogleNext, BaseCorrect, PTL DEF Spec

-----------------------------------------------------------------------------
(* Password reset implements OneTimeCode.                                  *)

\* A request that neither enters nor leaves "update" leaves Holder alone.
LEMMA HolderKept ==
    ASSUME NEW r \in Reqs, pc[r] # "update", pc'[r] # "update",
           \A q \in Reqs \ {r} : pc'[q] = pc[q] /\ req'[q] = req[q]
    PROVE  Holder' = Holder
<1>1. \A q \in Reqs : Holder'[q] = Holder[q]
  BY DEF Holder
<1> QED
  BY <1>1 DEF Holder

LEMMA AnswerHolder == ASSUME TypeOK, NEW r \in Reqs, Answer(r), pc[r] # "update" PROVE Holder' = Holder
<1>1. pc'[r] # "update" /\ \A q \in Reqs \ {r} : pc'[q] = pc[q] /\ req'[q] = req[q]
  BY DEF Answer, TypeOK
<1> QED
  BY <1>1, HolderKept

LEMMA GotoHolder ==
    ASSUME TypeOK, NEW r \in Reqs, NEW p, Goto(r, p), p # "update", pc[r] # "update"
    PROVE  Holder' = Holder
<1>1. pc'[r] # "update" /\ \A q \in Reqs \ {r} : pc'[q] = pc[q] /\ req'[q] = req[q]
  BY DEF Goto, TypeOK
<1> QED
  BY <1>1, HolderKept

\* A request that is answered while it holds a code gives it up.
LEMMA AnswerGivesUp ==
    ASSUME TypeOK, NEW r \in Reqs, Answer(r)
    PROVE  Holder' = [Holder EXCEPT ![r] = NoCode]
<1> DEFINE h == [q \in Reqs |-> IF q = r THEN NoCode ELSE Holder[q]]
<1>1. pc'[r] = "idle" /\ \A q \in Reqs \ {r} : pc'[q] = pc[q] /\ req'[q] = req[q]
  BY DEF Answer, TypeOK
<1>2. Holder' = h
  BY <1>1 DEF Holder
<1>3. h = [Holder EXCEPT ![r] = NoCode]
  BY DEF Holder
<1> QED
  BY <1>2, <1>3

\* Each step redeems, replaces or loses what OneTimeCode says, mails, or stutters.
LEMMA StepPromise == Base /\ [Next]_vars => [Promise!Next]_(Promise!cvars)
<1> SUFFICES ASSUME Base, [Next]_vars PROVE [Promise!Next]_(Promise!cvars)
  OBVIOUS
<1>1. TypeOK
  BY DEF Base
<1>2. ASSUME UNCHANGED inbox, Redeemed' = Redeemed, Holder' = Holder, UNCHANGED changed
      PROVE  UNCHANGED Promise!cvars
  BY <1>2 DEF Promise!cvars
<1>3. ASSUME UNCHANGED row PROVE Redeemed' = Redeemed
  BY <1>3 DEF Redeemed
<1>4. ASSUME NEW r \in Reqs, CreateEnds(r) PROVE UNCHANGED Promise!cvars
  <2>1. \A c \in Codes : row'[c].st = "redeemed" <=> row[c].st = "redeemed"
    <3> TAKE c \in Codes
    <3>1. CASE c = req[r].code
      <4>1. row'[c] = NewRow(r) /\ row[c].st = "none"
        BY <1>4, <3>1, InsertEnds
      <4>2. NewRow(r).st = "live"
        BY DEF NewRow
      <4> QED
        BY <4>1, <4>2
    <3>2. CASE c # req[r].code
      <4>1. row'[c].st = IF c \in req[r].seen /\ Live(c) THEN "retired" ELSE row[c].st
        BY <1>4, <3>2, InsertEnds
      <4> QED
        BY <4>1 DEF Live
    <3> QED
      BY <3>1, <3>2
  <2>2. pc[r] # "update" /\ pc'[r] # "update"
        /\ \A q \in Reqs \ {r} : pc'[q] = pc[q] /\ req'[q] = req[q]
    BY <1>1, <1>4 DEF CreateEnds, TypeOK
  <2> QED
    BY <1>2, <1>4, <2>1, <2>2, HolderKept DEF Redeemed, CreateEnds
<1>5. ASSUME NEW r \in Reqs, SendPasswordReset(r) PROVE [Promise!Next]_(Promise!cvars)
  <2>1. Redeemed' = Redeemed /\ UNCHANGED changed
    BY <1>3, <1>5 DEF SendPasswordReset
  <2>2. Holder' = Holder
    BY <1>1, <1>5, AnswerHolder, GotoHolder DEF SendPasswordReset
  <2>3. req[r].code \in Codes
    BY <1>5 DEF SendPasswordReset, Base, Shape, ShapeOf
  <2>4. CASE UNCHANGED inbox
    BY <1>2, <2>1, <2>2, <2>4
  <2>5. CASE inbox' = inbox \cup {req[r].code}
    BY <2>1, <2>2, <2>3, <2>5 DEF Promise!Next, Promise!Mail
  <2> QED
    BY <1>5, <2>4, <2>5 DEF SendPasswordReset
<1>6. ASSUME NEW r \in Reqs, ConsumePasswordResetToken(r) PROVE [Promise!Next]_(Promise!cvars)
  <2> DEFINE c == req[r].code
  <2>1. pc[r] = "consume" /\ c \in Codes /\ c \in inbox
    BY <1>6 DEF ConsumePasswordResetToken, Base, Shape, ShapeOf
  <2>2. UNCHANGED <<inbox, changed>>
    BY <1>6 DEF ConsumePasswordResetToken
  <2>3. CASE Answer(r) /\ UNCHANGED row
    BY <1>1, <1>2, <1>3, <2>1, <2>2, <2>3, AnswerHolder
  <2>4. CASE Live(c) /\ row' = [row EXCEPT ![c].st = "redeemed"] /\ Goto(r, "update")
    <3>1. c \notin Redeemed
      BY <2>4 DEF Redeemed, Live
    <3>2. Redeemed' = Redeemed \cup {c}
      BY <1>1, <2>1, <2>4 DEF Redeemed, TypeOK, CodeRows
    <3>3. pc' = [pc EXCEPT ![r] = "update"] /\ req' = req
      BY <2>4 DEF Goto
    <3>4. Holder[r] = NoCode /\ Holder' = [Holder EXCEPT ![r] = c]
      BY <1>1, <2>1, <3>3 DEF Holder, TypeOK
    <3>5. Promise!Redeem(r, c)
      BY <2>1, <2>2, <3>1, <3>2, <3>4 DEF Promise!Redeem
    <3> QED
      BY <2>1, <3>5 DEF Promise!Next
  <2> QED
    BY <1>6, <2>3, <2>4 DEF ConsumePasswordResetToken
<1>7. ASSUME NEW r \in Reqs, UpdatePassword(r) PROVE [Promise!Next]_(Promise!cvars)
  <2>1. Holder[r] = req[r].code /\ req[r].code # NoCode
    BY <1>7 DEF UpdatePassword, Base, Shape, ShapeOf, Holder, Codes, NoCode
  <2>2. Holder' = [Holder EXCEPT ![r] = NoCode]
    BY <1>1, <1>7, AnswerGivesUp DEF UpdatePassword
  <2>3. Promise!Change(r)
    BY <1>3, <1>7, <2>1, <2>2 DEF UpdatePassword, Promise!Change
  <2> QED
    BY <2>3 DEF Promise!Next
<1>8. ASSUME NEW r \in Reqs, Fail(r) PROVE [Promise!Next]_(Promise!cvars)
  <2>1. Holder' = [Holder EXCEPT ![r] = NoCode]
    BY <1>1, <1>8, AnswerGivesUp DEF Fail
  <2>2. Promise!Lose(r)
    BY <1>3, <1>8, <2>1 DEF Fail, Promise!Lose
  <2> QED
    BY <2>2 DEF Promise!Next
<1>9. ASSUME NEW r \in Reqs, BeginForgot(r) \/ BeginReset(r) \/ CreateBegins(r)
      PROVE  UNCHANGED Promise!cvars
  <2>1. pc[r] # "update" /\ pc'[r] # "update"
        /\ \A q \in Reqs \ {r} : pc'[q] = pc[q] /\ req'[q] = req[q]
    BY <1>1, <1>9 DEF BeginForgot, BeginReset, CreateBegins, Begin, TypeOK
  <2> QED
    BY <1>2, <1>3, <1>9, <2>1, HolderKept DEF BeginForgot, BeginReset, CreateBegins, Begin
<1>10. ASSUME NEW r \in Reqs, LastPasswordResetSentAt(r) \/ SendPasswordResetForGoogleAccount(r)
       PROVE  UNCHANGED Promise!cvars
  <2>1. Holder' = Holder
    BY <1>1, <1>10, AnswerHolder, GotoHolder DEF LastPasswordResetSentAt, SendPasswordResetForGoogleAccount
  <2> QED
    BY <1>2, <1>3, <1>10, <2>1 DEF LastPasswordResetSentAt, SendPasswordResetForGoogleAccount
<1>11. ASSUME NEW r \in Reqs, ExpirePasswordResetTokens(r) PROVE UNCHANGED Promise!cvars
  <2>1. Holder' = Holder
    BY <1>1, <1>11, AnswerHolder DEF ExpirePasswordResetTokens
  <2>2. \A c \in Codes : row'[c].st = "redeemed" <=> row[c].st = "redeemed"
    <3> TAKE c \in Codes
    <3>1. CASE Live(c)
      BY <1>1, <1>11, <3>1 DEF ExpirePasswordResetTokens, Live, TypeOK, CodeRows
    <3>2. CASE ~Live(c)
      BY <1>11, <3>2 DEF ExpirePasswordResetTokens
    <3> QED
      BY <3>1, <3>2
  <2> QED
    BY <1>2, <1>11, <2>1, <2>2 DEF ExpirePasswordResetTokens, Redeemed
<1>12. ASSUME NEW r \in Reqs, GetLivePasswordResetToken(r) PROVE UNCHANGED Promise!cvars
  <2>1. pc[r] # "update" /\ pc'[r] # "update"
        /\ \A q \in Reqs \ {r} : pc'[q] = pc[q] /\ req'[q] = req[q]
    BY <1>1, <1>12 DEF GetLivePasswordResetToken, Answer, TypeOK
  <2>2. UNCHANGED row \/ \E d \in Codes : row' = [row EXCEPT ![d].tried = @ + 1]
    BY <1>12 DEF GetLivePasswordResetToken, Newest
  <2>3. Redeemed' = Redeemed
    BY <1>1, <2>2 DEF Redeemed, TypeOK, CodeRows
  <2> QED
    BY <1>2, <1>12, <2>1, <2>3, HolderKept DEF GetLivePasswordResetToken
<1>13. ASSUME NEW r \in Reqs, IncrementPasswordResetAttempts(r) PROVE UNCHANGED Promise!cvars
  <2>1. Holder' = Holder
    BY <1>1, <1>13, AnswerHolder, GotoHolder DEF IncrementPasswordResetAttempts
  <2>2. UNCHANGED row \/ row' = [row EXCEPT ![req[r].code].attempts = @ + 1]
    BY <1>13 DEF IncrementPasswordResetAttempts
  <2>3. Redeemed' = Redeemed
    BY <1>1, <2>2 DEF Redeemed, TypeOK, CodeRows
  <2> QED
    BY <1>2, <1>13, <2>1, <2>3 DEF IncrementPasswordResetAttempts
<1>14. ASSUME NEW c \in Codes, Age(c) PROVE UNCHANGED Promise!cvars
  <2>1. Redeemed' = Redeemed /\ Holder' = Holder
    BY <1>1, <1>14 DEF Age, Redeemed, Holder, TypeOK, CodeRows
  <2> QED
    BY <1>2, <1>14, <2>1 DEF Age
<1>15. CASE UNCHANGED vars
  BY <1>15 DEF vars, Promise!cvars, Redeemed, Holder
<1>16. ASSUME NEW r \in Reqs, Step(r) PROVE [Promise!Next]_(Promise!cvars)
  BY <1>4, <1>5, <1>6, <1>7, <1>9, <1>10, <1>11, <1>12, <1>13, <1>16 DEF Step
<1> QED
  BY <1>8, <1>9, <1>14, <1>15, <1>16 DEF Next

\* Password reset implements OneTimeCode: whatever requests race, a mailed code
\* has one winner, and nobody else replaces the password.
THEOREM Implements == Spec => PromiseSpec
<1>1. Init => Promise!Init
  BY DEF Init, Promise!Init, Redeemed, Holder, NoRow
<1> QED
  BY <1>1, StepPromise, BaseCorrect, PTL DEF Spec, PromiseSpec, Promise!Spec

-----------------------------------------------------------------------------
(* Mails within the window: the invariant, and what the steps do to ages.  *)

\* A slot past the window check has no row within the window; ages follow ids,
\* and nothing newer than a row being inserted has aged.
Fresh(c) == Stored(c) /\ row[c].age = 0
ResendInv ==
    /\ ResendOverlapped
    /\ \A r \in Reqs, c \in Codes :
         pc[r] \in {"create", "insert"} /\ row[c].by = r => ~Fresh(c)
    /\ \A c, d \in Codes : Stored(c) /\ Stored(d) /\ d < c => row[c].age <= row[d].age
    /\ \A r \in Reqs, c \in Codes :
         pc[r] = "insert" /\ Stored(c) /\ req[r].code < c => row[c].age = 0

\* Rows keep their age and their issuer, and none appears or is purged.
AgesKept == \A c \in Codes :
    row'[c].age = row[c].age /\ row'[c].by = row[c].by /\ (Stored(c)' <=> Stored(c))

LEMMA AgesStill ==
    ASSUME Base, [Next]_vars, \A r \in Reqs : ~CreateEnds(r), \A c \in Codes : ~Age(c)
    PROVE  AgesKept
<1>1. TypeOK
  BY DEF Base
<1>2. CASE UNCHANGED row
  BY <1>2 DEF AgesKept, Stored
<1>3. ASSUME NEW r \in Reqs, ExpirePasswordResetTokens(r) PROVE AgesKept
  <2> SUFFICES ASSUME NEW c \in Codes
               PROVE  /\ row'[c].age = row[c].age /\ row'[c].by = row[c].by
                      /\ row'[c].gone = row[c].gone
                      /\ row'[c].st = "none" <=> row[c].st = "none"
    BY DEF AgesKept, Stored
  <2>1. row[c] \in CodeRows
    BY <1>1 DEF TypeOK
  <2>2. CASE Live(c)
    <3>1. row'[c] = [row[c] EXCEPT !.st = "retired"]
      BY <1>3, <2>2 DEF ExpirePasswordResetTokens
    <3> QED
      BY <2>1, <2>2, <3>1 DEF CodeRows, Live
  <2>3. CASE ~Live(c)
    BY <1>3, <2>3 DEF ExpirePasswordResetTokens
  <2> QED
    BY <2>2, <2>3
<1>4. ASSUME NEW r \in Reqs, GetLivePasswordResetToken(r) PROVE AgesKept
  <2>1. UNCHANGED row \/ \E d \in Codes : row' = [row EXCEPT ![d].tried = @ + 1]
    BY <1>4 DEF GetLivePasswordResetToken, Newest
  <2> QED
    BY <1>1, <2>1 DEF AgesKept, Stored, TypeOK, CodeRows
<1>5. ASSUME NEW r \in Reqs, IncrementPasswordResetAttempts(r) PROVE AgesKept
  BY <1>1, <1>5 DEF IncrementPasswordResetAttempts, AgesKept, Stored, TypeOK, CodeRows
<1>6. ASSUME NEW r \in Reqs, ConsumePasswordResetToken(r) PROVE AgesKept
  BY <1>1, <1>6 DEF ConsumePasswordResetToken, AgesKept, Stored, Live, TypeOK, CodeRows
<1>7. ASSUME NEW r \in Reqs, Step(r) PROVE AgesKept
  BY <1>2, <1>3, <1>4, <1>5, <1>6, <1>7 DEF Step, LastPasswordResetSentAt,
     SendPasswordResetForGoogleAccount, CreateBegins, SendPasswordReset, UpdatePassword
<1> QED
  BY <1>2, <1>7 DEF Next, vars, BeginForgot, BeginReset, Begin, Fail

\* A request comes to issue a code only past the window check.
LEMMA WindowPassed ==
    ASSUME Base, [Next]_vars, NEW r \in Reqs, pc'[r] \in {"create", "insert"}
    PROVE  \/ pc[r] \in {"create", "insert"}
           \/ LastPasswordResetSentAt(r) /\ pc'[r] = "create"
<1>1. TypeOK
  BY DEF Base
<1>2. CASE pc'[r] = "insert"
  BY <1>2, InsertBegins DEF CreateBegins
<1>3. ASSUME pc'[r] = "create", NEW q \in Reqs, NEW p \in Pcs \ {"create"},
             pc' = [pc EXCEPT ![q] = p]
      PROVE  pc[r] = "create"
  BY <1>1, <1>3 DEF TypeOK
<1>4. ASSUME pc'[r] = "create", NEW q \in Reqs, Answer(q) PROVE pc[r] = "create"
  BY <1>3, <1>4 DEF Answer, Pcs
<1>5. ASSUME pc'[r] = "create", NEW q \in Reqs, BeginForgot(q) \/ BeginReset(q) \/ Fail(q)
      PROVE  pc[r] = "create"
  BY <1>3, <1>4, <1>5 DEF BeginForgot, BeginReset, Begin, Fail, Pcs
<1>6. ASSUME pc'[r] = "create", NEW q \in Reqs, Step(q), ~LastPasswordResetSentAt(q)
      PROVE  pc[r] = "create"
  BY <1>3, <1>4, <1>6 DEF Step, SendPasswordResetForGoogleAccount, CreateBegins, CreateEnds,
     SendPasswordReset, ExpirePasswordResetTokens, GetLivePasswordResetToken,
     IncrementPasswordResetAttempts, ConsumePasswordResetToken, UpdatePassword, Goto, Pcs
<1>7. ASSUME pc'[r] = "create", NEW q \in Reqs, LastPasswordResetSentAt(q), q # r
      PROVE  pc[r] = "create"
  BY <1>1, <1>7 DEF LastPasswordResetSentAt, Answer, Goto, TypeOK
<1> QED
  BY <1>2, <1>5, <1>6, <1>7 DEF Next, vars, Age

\* A set of codes that is not empty has a newest one.
LEMMA NewestIsThere == ASSUME NEW S \in SUBSET Codes, S # {} PROVE Newest(S) # {}
<1> DEFINE R == {ss \in Nat \X Nat : ss[1] < ss[2]}
           T == {MaxCodes - c : c \in S}
<1>1. IsWellFoundedOn(R, Nat)
  BY NatLessThanWellFounded DEF OpToRel
<1>2. \A x, y \in Nat : y < x => <<y, x>> \in R
  OBVIOUS
<1> HIDE DEF R
<1>3. \A c \in S : c \in Nat /\ MaxCodes - c \in Nat
  BY ResetAssumption DEF Codes
<1>4. T \subseteq Nat /\ T # {}
  BY <1>3
<1>5. \E x \in T : \A y \in T : ~(<<y, x>> \in R)
  BY <1>1, <1>4, WFMin
<1>6. PICK c \in S : \A d \in S : ~(<<MaxCodes - d, MaxCodes - c>> \in R)
  BY <1>5
<1>7. \A d \in S : ~(MaxCodes - d < MaxCodes - c)
  BY <1>2, <1>3, <1>6
<1>8. \A d \in S : d <= c
  BY <1>3, <1>7, ResetAssumption
<1> QED
  BY <1>8 DEF Newest

-----------------------------------------------------------------------------
(* Two mails within the window have overlapping issuers.                   *)

\* The newest row is past the window: so are all, and the slot has none within it.
LEMMA WindowIsClear ==
    ASSUME Base, ResendInv, NEW r \in Reqs, LastPasswordResetSentAt(r), pc'[r] = "create"
    PROVE  \A c \in Codes : ~Fresh(c)
<1> DEFINE S == {d \in Codes : Stored(d)}
<1>1. \A c \in Newest(S) : row[c].age # 0
  BY DEF LastPasswordResetSentAt, Answer, Base, TypeOK
<1>2. ASSUME NEW c \in Codes, Fresh(c) PROVE FALSE
  <2>1. c \in S
    BY <1>2 DEF Fresh
  <2>2. PICK n \in Newest(S) : TRUE
    BY <2>1, NewestIsThere
  <2>3. n \in S /\ c <= n
    BY <2>1, <2>2 DEF Newest
  <2>4. row[n].age # 0
    BY <1>1, <2>2
  <2>5. n # c
    BY <1>2, <2>4 DEF Fresh
  <2>6. c < n /\ row[n].age \in 0..3 /\ row[c].age = 0
    BY <1>2, <2>3, <2>5 DEF Fresh, Base, TypeOK, CodeRows, Codes
  <2>7. row[n].age <= row[c].age
    BY <2>1, <2>3, <2>6 DEF ResendInv
  <2> QED
    BY <2>4, <2>6, <2>7
<1> QED
  BY <1>2

LEMMA StillResend ==
    ASSUME Base, ResendInv, [Next]_vars, AgesKept PROVE ResendInv'
<1>1. \A c \in Codes : Fresh(c)' <=> Fresh(c)
  BY DEF Fresh, AgesKept
<1>2. ResendOverlapped'
  BY DEF AgesKept, ResendInv, ResendOverlapped
<1>3. ASSUME NEW r \in Reqs, NEW c \in Codes, pc'[r] \in {"create", "insert"}, row'[c].by = r
      PROVE  ~Fresh(c)'
  <2>1. CASE pc[r] \in {"create", "insert"}
    BY <1>1, <1>3, <2>1 DEF AgesKept, ResendInv
  <2>2. CASE LastPasswordResetSentAt(r) /\ pc'[r] = "create"
    BY <1>1, <2>2, WindowIsClear
  <2> QED
    BY <1>3, <2>1, <2>2, WindowPassed
<1>4. ASSUME NEW c \in Codes, NEW d \in Codes, Stored(c)', Stored(d)', d < c
      PROVE  row'[c].age <= row'[d].age
  BY <1>4 DEF AgesKept, ResendInv
<1>5. ASSUME NEW r \in Reqs, NEW c \in Codes, pc'[r] = "insert", Stored(c)', req'[r].code < c
      PROVE  row'[c].age = 0
  <2>1. Stored(c) /\ row'[c].age = row[c].age
    BY <1>5 DEF AgesKept
  <2>2. CASE CreateBegins(r)
    <3>1. req'[r].code = issued + 1 /\ c <= issued
      BY <2>1, <2>2 DEF CreateBegins, Base, TypeOK, Requests, RowsOK, Stored
    <3> QED
      BY <1>5, <3>1 DEF Base, TypeOK, Codes
  <2>3. CASE pc[r] = "insert" /\ req'[r] = req[r]
    BY <1>5, <2>1, <2>3 DEF ResendInv
  <2> QED
    BY <1>5, <2>2, <2>3, InsertBegins
<1> QED
  BY <1>2, <1>3, <1>4, <1>5 DEF ResendInv

LEMMA AgeResend == ASSUME Base, ResendInv, NEW a \in Codes, Age(a) PROVE ResendInv'
<1>1. TypeOK /\ UNCHANGED <<pc, req>>
  BY DEF Base, Age
<1>2. /\ row'[a].age = row[a].age + 1 /\ row[a].age \in 0..3
      /\ \A c \in Codes \ {a} : row'[c] = row[c]
      /\ \A c \in Codes : (Stored(c)' <=> Stored(c)) /\ row'[c].by = row[c].by
  BY <1>1 DEF Age, TypeOK, CodeRows, Stored
<1>3. \A c \in Codes : Fresh(c)' => Fresh(c)
  BY <1>2 DEF Fresh
<1>4. ResendOverlapped'
  BY <1>2, <1>3 DEF Fresh, ResendInv, ResendOverlapped
<1>5. ASSUME NEW r \in Reqs, NEW c \in Codes, pc'[r] \in {"create", "insert"}, row'[c].by = r
      PROVE  ~Fresh(c)'
  BY <1>1, <1>2, <1>3, <1>5 DEF ResendInv
<1>6. ASSUME NEW c \in Codes, NEW d \in Codes, Stored(c)', Stored(d)', d < c
      PROVE  row'[c].age <= row'[d].age
  <2>1. /\ row[c].age <= row[d].age /\ Stored(c) /\ Stored(d)
        /\ row[c].age \in 0..3 /\ row[d].age \in 0..3
    BY <1>1, <1>2, <1>6 DEF ResendInv, TypeOK, CodeRows
  <2>2. CASE c = a
    <3>1. d \in 1..(c - 1) /\ d # a
      BY <1>6, <2>2, ResetAssumption DEF Codes
    <3>2. row[d].age > row[c].age
      BY <2>1, <2>2, <3>1 DEF Age
    <3> QED
      BY <1>2, <2>1, <2>2, <3>1, <3>2
  <2>3. CASE c # a
    BY <1>2, <2>1, <2>3
  <2> QED
    BY <2>2, <2>3
<1>7. ASSUME NEW r \in Reqs, NEW c \in Codes, pc'[r] = "insert", Stored(c)', req'[r].code < c
      PROVE  row'[c].age = 0
  <2>1. pc[r] = "insert" /\ req[r].code < c /\ Stored(c) /\ req[r].code \in Codes
    BY <1>1, <1>2, <1>7 DEF Base, Shape, ShapeOf
  <2>2. c # a
    BY <2>1, ResetAssumption DEF Age, Codes
  <2> QED
    BY <1>2, <2>1, <2>2 DEF ResendInv
<1> QED
  BY <1>4, <1>5, <1>6, <1>7 DEF ResendInv

LEMMA CreateResend == ASSUME Base, ResendInv, NEW r \in Reqs, CreateEnds(r) PROVE ResendInv'
<1>0. PICK n \in Codes : n = req[r].code
  BY InsertEnds
<1>1. /\ row[n].st = "none" /\ pc[r] = "insert"
      /\ Fresh(n)' /\ Stored(n)' /\ row'[n].age = 0 /\ row'[n].by = r
  <2>1. row[n].st = "none" /\ row'[n] = NewRow(r)
    BY <1>0, InsertEnds
  <2>2. pc[r] = "insert"
    BY DEF CreateEnds
  <2>3. row'[n].st = "live" /\ row'[n].gone = FALSE /\ row'[n].age = 0 /\ row'[n].by = r
    BY <2>1 DEF NewRow
  <2> QED
    BY <2>1, <2>2, <2>3 DEF Fresh, Stored
<1>2. ASSUME NEW c \in Codes \ {n}
      PROVE  /\ row'[c].age = row[c].age /\ row'[c].by = row[c].by
             /\ Stored(c)' => Stored(c)
             /\ Fresh(c)' => Fresh(c)
  <2>1. row'[c].age = row[c].age /\ row'[c].by = row[c].by
    BY <1>0, InsertEnds
  <2>2. row[c].st = "none" => row'[c].st = "none"
    BY <1>0, InsertEnds DEF Live
  <2>3. row'[c].gone = (row[c].gone \/ row[c].age = 3)
    BY <1>0, InsertEnds
  <2>4. Stored(c)' => Stored(c)
    BY <2>2, <2>3, Zenon DEF Stored
  <2> QED
    BY <2>1, <2>4 DEF Fresh
<1>3. ResendOverlapped'
  <2>1. ASSUME NEW c \in Codes \ {n}, Fresh(c)' PROVE row'[c].by # r /\ Fresh(c)
    BY <1>1, <1>2, <2>1 DEF ResendInv
  <2>2. ASSUME NEW c \in Codes, NEW d \in Codes, Fresh(c)', Fresh(d)', row'[c].by = row'[d].by
        PROVE  c = d
    <3>1. CASE c = n \/ d = n
      BY <1>1, <2>1, <2>2, <3>1
    <3>2. CASE c # n /\ d # n
      BY <1>2, <2>1, <2>2, <3>2 DEF ResendInv, ResendOverlapped, Fresh
    <3> QED
      BY <3>1, <3>2
  <2> QED
    BY <2>2 DEF ResendOverlapped, Fresh
<1>4. ASSUME NEW q \in Reqs, pc'[q] \in {"create", "insert"}
      PROVE  q # r /\ pc[q] = pc'[q] /\ req'[q] = req[q]
  BY <1>4, InsertEnds DEF CreateEnds, Base, TypeOK
<1>5. ASSUME NEW q \in Reqs, NEW c \in Codes, pc'[q] \in {"create", "insert"}, row'[c].by = q
      PROVE  ~Fresh(c)'
  BY <1>1, <1>2, <1>4, <1>5 DEF ResendInv
<1>6. ASSUME NEW c \in Codes, NEW d \in Codes, Stored(c)', Stored(d)', d < c
      PROVE  row'[c].age <= row'[d].age
  <2>1. CASE c = n
    <3>1. row'[d].age \in 0..3 /\ d # n
      BY <1>2, <1>6, <2>1 DEF Base, TypeOK, CodeRows, Codes
    <3> QED
      BY <1>1, <2>1, <3>1
  <2>2. CASE d = n
    <3>1. Stored(c) /\ c # n /\ row'[c].age = row[c].age
      BY <1>2, <1>6, <2>2 DEF Codes
    <3>2. row[c].age = 0
      BY <1>0, <1>1, <1>6, <2>2, <3>1 DEF ResendInv
    <3> QED
      BY <1>1, <2>2, <3>1, <3>2
  <2>3. CASE c # n /\ d # n
    BY <1>2, <1>6, <2>3 DEF ResendInv
  <2> QED
    BY <2>1, <2>2, <2>3
<1>7. ASSUME NEW q \in Reqs, NEW c \in Codes, pc'[q] = "insert", Stored(c)', req'[q].code < c
      PROVE  row'[c].age = 0
  BY <1>1, <1>2, <1>4, <1>7 DEF ResendInv
<1> QED
  BY <1>3, <1>5, <1>6, <1>7 DEF ResendInv

LEMMA ResendNext == Base /\ ResendInv /\ [Next]_vars => ResendInv'
<1> SUFFICES ASSUME Base, ResendInv, [Next]_vars PROVE ResendInv'
  OBVIOUS
<1>1. CASE \E r \in Reqs : CreateEnds(r)
  BY <1>1, CreateResend
<1>2. CASE \E c \in Codes : Age(c)
  BY <1>2, AgeResend
<1>3. CASE (\A r \in Reqs : ~CreateEnds(r)) /\ \A c \in Codes : ~Age(c)
  BY <1>3, AgesStill, StillResend
<1> QED
  BY <1>1, <1>2, <1>3

\* Two codes are issued within the window only by requests that overlapped, whatever
\* became of the codes in between; nothing is said of notices, which leave no row.
THEOREM ResendRaced == Spec => []ResendOverlapped
<1>1. Init => ResendInv
  BY DEF Init, ResendInv, ResendOverlapped, Fresh, Stored, NoRow
<1>2. ResendInv => ResendOverlapped
  BY DEF ResendInv
<1> QED
  BY <1>1, <1>2, ResendNext, BaseCorrect, PTL DEF Spec

-----------------------------------------------------------------------------
(* Wrong guesses.                                                          *)

Counting(c) == {r \in Reqs : pc[r] = "count" /\ req[r].code = c}
Guessing(c) == {r \in Reqs : pc[r] \in {"count", "burn"} /\ req[r].code = c}

\* Guesses at a live code are counted, being counted, or lost; past the limit
\* only requests that are about to burn it have added any.
GuessOf(c) ==
    /\ row[c].tried < MaxAttempts + Cardinality(Reqs) + lost
    /\ Live(c) =>
         /\ row[c].tried <= row[c].attempts + Cardinality(Counting(c)) + lost
         /\ row[c].tried < MaxAttempts + Cardinality(Guessing(c)) + lost

GuessInv == \A c \in Codes : GuessOf(c)

LEMMA WithoutOne ==
    ASSUME NEW S, S \subseteq Reqs, NEW r \in Reqs
    PROVE  /\ Cardinality(S \ {r}) \in Nat
           /\ Cardinality(S \ {r}) < Cardinality(Reqs)
           /\ r \in S => Cardinality(S) = Cardinality(S \ {r}) + 1
           /\ r \notin S => Cardinality(S) = Cardinality(S \ {r})
<1>1. IsFiniteSet(Reqs) /\ IsFiniteSet(S)
  BY ResetAssumption, FS_Subset
<1>2. IsFiniteSet(S \ {r}) /\ IsFiniteSet(Reqs \ {r})
  BY <1>1, FS_Subset
<1>3. Cardinality(S \ {r}) \in Nat /\ Cardinality(S) \in Nat /\ Cardinality(Reqs) \in Nat
  BY <1>1, <1>2, FS_CardinalityType
<1>4. Cardinality(Reqs \ {r}) = Cardinality(Reqs) - 1
  BY <1>1, FS_RemoveElement
<1>5. Cardinality(S \ {r}) <= Cardinality(Reqs \ {r})
  <2>1. S \ {r} \subseteq Reqs \ {r}
    OBVIOUS
  <2> QED
    BY <1>2, <2>1, FS_Subset
<1>6. r \in S => Cardinality(S) = Cardinality(S \ {r}) + 1
  <2>1. r \in S => Cardinality(S \ {r}) = Cardinality(S) - 1
    BY <1>1, FS_RemoveElement
  <2> QED
    BY <1>3, <2>1
<1>7. r \notin S => Cardinality(S) = Cardinality(S \ {r})
  <2>1. r \notin S => S \ {r} = S
    OBVIOUS
  <2> QED
    BY <2>1
<1>8. Cardinality(S \ {r}) < Cardinality(Reqs)
  BY <1>3, <1>4, <1>5
<1> QED
  BY <1>3, <1>6, <1>7, <1>8

\* The step of a request changes those at a code by this request at most.
Alone(r) == \A q \in Reqs \ {r} : pc'[q] = pc[q] /\ req'[q] = req[q]

LEMMA Guessers ==
    ASSUME NEW r \in Reqs, Alone(r), NEW c \in Codes
    PROVE  \E k, m \in Nat :
             /\ m < Cardinality(Reqs)
             /\ Cardinality(Counting(c)) = IF r \in Counting(c) THEN k + 1 ELSE k
             /\ Cardinality(Counting(c)') = IF r \in Counting(c)' THEN k + 1 ELSE k
             /\ Cardinality(Guessing(c)) = IF r \in Guessing(c) THEN m + 1 ELSE m
             /\ Cardinality(Guessing(c)') = IF r \in Guessing(c)' THEN m + 1 ELSE m
             /\ k <= m
<1>1. Counting(c)' \ {r} = Counting(c) \ {r} /\ Guessing(c)' \ {r} = Guessing(c) \ {r}
  BY DEF Alone, Counting, Guessing
<1>2. /\ Counting(c) \subseteq Reqs /\ Counting(c)' \subseteq Reqs
      /\ Guessing(c) \subseteq Reqs /\ Guessing(c)' \subseteq Reqs
  BY DEF Counting, Guessing
<1> DEFINE k == Cardinality(Counting(c) \ {r})
           m == Cardinality(Guessing(c) \ {r})
<1>3. k \in Nat /\ m \in Nat /\ m < Cardinality(Reqs)
  BY <1>2, WithoutOne
<1>4. /\ Cardinality(Counting(c)) = IF r \in Counting(c) THEN k + 1 ELSE k
      /\ Cardinality(Guessing(c)) = IF r \in Guessing(c) THEN m + 1 ELSE m
  BY <1>2, WithoutOne
<1>5. /\ Cardinality(Counting(c)') = IF r \in Counting(c)' THEN k + 1 ELSE k
      /\ Cardinality(Guessing(c)') = IF r \in Guessing(c)' THEN m + 1 ELSE m
  BY <1>1, <1>2, WithoutOne
<1>6. k <= m
  <2>1. Counting(c) \ {r} \subseteq Guessing(c) \ {r}
    BY DEF Counting, Guessing
  <2>2. IsFiniteSet(Guessing(c) \ {r})
    BY <1>2, ResetAssumption, FS_Subset
  <2> QED
    BY <2>1, <2>2, FS_Subset
<1> QED
  BY <1>3, <1>4, <1>5, <1>6

LEMMA Numbers ==
    ASSUME TypeOK, NEW c \in Codes
    PROVE  row[c].tried \in Nat /\ row[c].attempts \in Nat /\ lost \in Nat
           /\ MaxAttempts \in Nat /\ MaxAttempts > 0 /\ Cardinality(Reqs) \in Nat
BY ResetAssumption, FS_CardinalityType DEF TypeOK, CodeRows

\* A code that is not guessed at, with no request that gives up a guess unless it is lost.
LEMMA GuessKept ==
    ASSUME TypeOK, NEW r \in Reqs, Alone(r), NEW c \in Codes, GuessOf(c),
           row'[c].tried = row[c].tried, lost' \in {lost, lost + 1},
           Live(c)' =>
             /\ Live(c) /\ row'[c].attempts = row[c].attempts
             /\ r \in Counting(c) => r \in Counting(c)' \/ lost' = lost + 1
             /\ r \in Guessing(c) => r \in Guessing(c)' \/ lost' = lost + 1
    PROVE  GuessOf(c)'
<1>1. PICK k, m \in Nat :
         /\ m < Cardinality(Reqs)
         /\ Cardinality(Counting(c)) = IF r \in Counting(c) THEN k + 1 ELSE k
         /\ Cardinality(Counting(c)') = IF r \in Counting(c)' THEN k + 1 ELSE k
         /\ Cardinality(Guessing(c)) = IF r \in Guessing(c) THEN m + 1 ELSE m
         /\ Cardinality(Guessing(c)') = IF r \in Guessing(c)' THEN m + 1 ELSE m
  BY Guessers
<1>2. /\ row[c].tried \in Nat /\ row[c].attempts \in Nat /\ lost \in Nat
      /\ MaxAttempts \in Nat /\ Cardinality(Reqs) \in Nat
  BY Numbers
<1>3. row'[c].tried < MaxAttempts + Cardinality(Reqs) + lost'
  BY <1>2 DEF GuessOf
<1>4. ASSUME Live(c)'
      PROVE  row'[c].tried <= row'[c].attempts + Cardinality(Counting(c)') + lost'
  <2>1. row[c].tried <= row[c].attempts + Cardinality(Counting(c)) + lost
    BY <1>4 DEF GuessOf
  <2>2. CASE r \in Counting(c)' \/ r \notin Counting(c)
    BY <1>1, <1>2, <1>4, <2>1, <2>2
  <2>3. CASE r \in Counting(c) /\ r \notin Counting(c)'
    BY <1>1, <1>2, <1>4, <2>1, <2>3
  <2> QED
    BY <2>2, <2>3
<1>5. ASSUME Live(c)'
      PROVE  row'[c].tried < MaxAttempts + Cardinality(Guessing(c)') + lost'
  <2>1. row[c].tried < MaxAttempts + Cardinality(Guessing(c)) + lost
    BY <1>5 DEF GuessOf
  <2>2. CASE r \in Guessing(c)' \/ r \notin Guessing(c)
    BY <1>1, <1>2, <1>5, <2>1, <2>2
  <2>3. CASE r \in Guessing(c) /\ r \notin Guessing(c)'
    BY <1>1, <1>2, <1>5, <2>1, <2>3
  <2> QED
    BY <2>2, <2>3
<1> QED
  BY <1>3, <1>4, <1>5 DEF GuessOf

\* The same for a step of a request that has no guess at hand.
LEMMA QuietGuess ==
    ASSUME TypeOK, GuessInv, NEW r \in Reqs, Alone(r), pc[r] \notin {"count", "burn"}, lost' = lost,
           \A c \in Codes : /\ row'[c].tried = row[c].tried /\ row'[c].attempts = row[c].attempts
                            /\ Live(c)' => Live(c)
    PROVE  GuessInv'
<1>1. \A c \in Codes : r \notin Counting(c) /\ r \notin Guessing(c)
  BY DEF Counting, Guessing
<1>2. lost' \in {lost, lost + 1}
  OBVIOUS
<1>3. ASSUME NEW c \in Codes PROVE GuessOf(c)'
  BY <1>1, <1>2, GuessKept DEF GuessInv
<1> QED
  BY <1>3 DEF GuessInv

LEMMA AnswerAlone ==
    ASSUME TypeOK, NEW r \in Reqs
    PROVE  /\ Answer(r) => Alone(r) /\ pc'[r] = "idle"
           /\ \A p \in Pcs : Goto(r, p) => Alone(r) /\ pc'[r] = p /\ req'[r] = req[r]
BY DEF Answer, Goto, Alone, TypeOK

LEMMA FailGuess == ASSUME Base, GuessInv, NEW r \in Reqs, Fail(r) PROVE GuessInv'
<1>1. TypeOK /\ Alone(r) /\ UNCHANGED row
  BY AnswerAlone DEF Base, Fail
<1>2. CASE pc[r] \notin {"count", "burn"}
  <2>1. lost' = lost
    BY <1>2 DEF Fail
  <2>2. \A c \in Codes : Live(c)' => Live(c)
    BY <1>1 DEF Live
  <2> QED
    BY <1>1, <1>2, <2>1, <2>2, QuietGuess
<1>3. CASE pc[r] \in {"count", "burn"}
  <2>1. lost' = lost + 1 /\ lost' \in {lost, lost + 1}
    BY <1>3 DEF Fail
  <2>2. ASSUME NEW c \in Codes PROVE GuessOf(c)'
    <3>1. Live(c)' => Live(c)
      BY <1>1 DEF Live
    <3> QED
      BY <1>1, <2>1, <3>1, GuessKept DEF GuessInv
  <2> QED
    BY <2>2 DEF GuessInv
<1> QED
  BY <1>2, <1>3

LEMMA ExpireGuess ==
    ASSUME Base, GuessInv, NEW r \in Reqs, ExpirePasswordResetTokens(r) PROVE GuessInv'
<1>1. TypeOK /\ Alone(r) /\ lost' = lost /\ lost' \in {lost, lost + 1}
  BY AnswerAlone DEF Base, ExpirePasswordResetTokens
<1>2. ASSUME NEW c \in Codes PROVE GuessOf(c)'
  <2>1. row[c] \in CodeRows
    BY <1>1 DEF TypeOK
  <2>2. row'[c].tried = row[c].tried /\ ~Live(c)'
    <3>1. CASE Live(c)
      <4>1. row'[c] = [row[c] EXCEPT !.st = "retired"]
        BY <3>1 DEF ExpirePasswordResetTokens
      <4> QED
        BY <2>1, <4>1 DEF CodeRows, Live
    <3>2. CASE ~Live(c)
      <4>1. row'[c] = row[c]
        BY <3>2 DEF ExpirePasswordResetTokens
      <4> QED
        BY <3>2, <4>1 DEF Live
    <3> QED
      BY <3>1, <3>2
  <2> QED
    BY <1>1, <2>2, GuessKept DEF GuessInv
<1> QED
  BY <1>2 DEF GuessInv

LEMMA CreateGuess == ASSUME Base, GuessInv, NEW r \in Reqs, CreateEnds(r) PROVE GuessInv'
<1>1. PICK n \in Codes : n = req[r].code
  BY InsertEnds
<1>2. TypeOK /\ Alone(r) /\ pc[r] = "insert" /\ lost' = lost /\ lost' \in {lost, lost + 1}
  BY DEF Base, CreateEnds, Alone, TypeOK
<1>3. GuessOf(n)'
  <2>1. row'[n].tried = 0 /\ row'[n].attempts = 0
    <3>1. row'[n] = NewRow(r)
      BY <1>1, InsertEnds
    <3> QED
      BY <3>1 DEF NewRow
  <2>2. Cardinality(Counting(n)') \in Nat /\ Cardinality(Guessing(n)') \in Nat
    <3>1. Counting(n)' \subseteq Reqs /\ Guessing(n)' \subseteq Reqs
      BY DEF Counting, Guessing
    <3> QED
      BY <3>1, ResetAssumption, FS_Subset, FS_CardinalityType
  <2>3. lost' \in Nat /\ MaxAttempts \in Nat /\ MaxAttempts > 0 /\ Cardinality(Reqs) \in Nat
    BY <1>1, <1>2, Numbers
  <2>4. row'[n].tried < MaxAttempts + Cardinality(Reqs) + lost'
    BY <2>1, <2>3
  <2>5. row'[n].tried <= row'[n].attempts + Cardinality(Counting(n)') + lost'
    BY <2>1, <2>2, <2>3
  <2>6. row'[n].tried < MaxAttempts + Cardinality(Guessing(n)') + lost'
    BY <2>1, <2>2, <2>3
  <2> QED
    BY <2>4, <2>5, <2>6 DEF GuessOf
<1>4. ASSUME NEW c \in Codes \ {n} PROVE GuessOf(c)'
  <2>1. /\ row'[c].tried = row[c].tried /\ row'[c].attempts = row[c].attempts
        /\ Live(c)' => Live(c)
    <3>1. row'[c].tried = row[c].tried /\ row'[c].attempts = row[c].attempts
      BY <1>1, InsertEnds
    <3>2. row'[c].st = "live" => row[c].st = "live"
      BY <1>1, InsertEnds
    <3>3. row'[c].gone = (row[c].gone \/ row[c].age = 3)
      BY <1>1, InsertEnds
    <3>4. Live(c)' => Live(c)
      BY <3>2, <3>3, Zenon DEF Live
    <3> QED
      BY <3>1, <3>4
  <2>2. r \notin Counting(c) /\ r \notin Guessing(c)
    BY <1>2 DEF Counting, Guessing
  <2> QED
    BY <1>2, <2>1, <2>2, GuessKept DEF GuessInv
<1> QED
  BY <1>3, <1>4 DEF GuessInv

\* A wrong guess: one more was compared with the code, one more is at "count".
LEMMA GetLiveGuess ==
    ASSUME Base, GuessInv, NEW r \in Reqs, GetLivePasswordResetToken(r) PROVE GuessInv'
<1>1. TypeOK /\ pc[r] = "read" /\ lost' = lost /\ lost' \in {lost, lost + 1}
  BY DEF Base, GetLivePasswordResetToken
<1>2. Alone(r)
  <2>1. CASE Answer(r)
    BY <1>1, <2>1, AnswerAlone
  <2>2. CASE \E x, y : pc' = [pc EXCEPT ![r] = x] /\ req' = [req EXCEPT ![r] = y]
    BY <1>1, <2>2 DEF Alone, TypeOK
  <2> QED
    BY <2>1, <2>2 DEF GetLivePasswordResetToken
<1>3. CASE UNCHANGED row
  <2>1. \A c \in Codes : Live(c)' => Live(c)
    BY <1>3 DEF Live
  <2> QED
    BY <1>1, <1>2, <1>3, <2>1, QuietGuess
<1>4. ASSUME NEW d \in Codes, Usable(d), req' = [req EXCEPT ![r] = [NoRequest EXCEPT !.code = d]],
             pc' = [pc EXCEPT ![r] = "count"], row' = [row EXCEPT ![d].tried = @ + 1]
      PROVE  GuessInv'
  <2>1. pc'[r] = "count" /\ req'[r].code = d
    BY <1>1, <1>4 DEF TypeOK, NoRequest
  <2>2. /\ row'[d].tried = row[d].tried + 1 /\ row'[d].attempts = row[d].attempts
        /\ \A c \in Codes \ {d} : row'[c] = row[c]
    BY <1>1, <1>4 DEF TypeOK, CodeRows
  <2>3. ASSUME NEW c \in Codes \ {d} PROVE GuessOf(c)'
    <3>1. r \notin Counting(c) /\ r \notin Guessing(c)
      BY <1>1 DEF Counting, Guessing
    <3>2. row'[c] = row[c] /\ (Live(c)' => Live(c))
      BY <2>2 DEF Live
    <3> QED
      BY <1>1, <1>2, <3>1, <3>2, GuessKept DEF GuessInv
  <2>4. GuessOf(d)'
    <3>1. PICK k, m \in Nat :
             /\ m < Cardinality(Reqs)
             /\ Cardinality(Counting(d)) = IF r \in Counting(d) THEN k + 1 ELSE k
             /\ Cardinality(Counting(d)') = IF r \in Counting(d)' THEN k + 1 ELSE k
             /\ Cardinality(Guessing(d)) = IF r \in Guessing(d) THEN m + 1 ELSE m
             /\ Cardinality(Guessing(d)') = IF r \in Guessing(d)' THEN m + 1 ELSE m
      BY <1>2, Guessers
    <3>2. r \notin Counting(d) /\ r \in Counting(d)' /\ r \notin Guessing(d) /\ r \in Guessing(d)'
      BY <1>1, <2>1 DEF Counting, Guessing
    <3>3. /\ Cardinality(Counting(d)) = k /\ Cardinality(Counting(d)') = k + 1
          /\ Cardinality(Guessing(d)) = m /\ Cardinality(Guessing(d)') = m + 1
      BY <3>1, <3>2
    <3>4. /\ row[d].tried <= row[d].attempts + k + lost
          /\ row[d].tried < MaxAttempts + m + lost
      BY <1>4, <3>3 DEF Usable, GuessInv, GuessOf
    <3>5. /\ row[d].tried \in Nat /\ row[d].attempts \in Nat /\ lost \in Nat
          /\ MaxAttempts \in Nat /\ Cardinality(Reqs) \in Nat
      BY <1>1, Numbers
    <3>6. row'[d].tried <= row'[d].attempts + (k + 1) + lost'
      BY <1>1, <2>2, <3>4, <3>5
    <3>7. row'[d].tried < MaxAttempts + (m + 1) + lost'
      BY <1>1, <2>2, <3>4, <3>5
    <3>8. row'[d].tried < MaxAttempts + Cardinality(Reqs) + lost'
      BY <1>1, <2>2, <3>1, <3>4, <3>5
    <3> QED
      BY <3>3, <3>6, <3>7, <3>8 DEF GuessOf
  <2> QED
    BY <2>3, <2>4 DEF GuessInv
<1> QED
  BY <1>3, <1>4 DEF GetLivePasswordResetToken, Newest

\* A guess is counted: it is no longer at "count", and burns the code at the limit.
LEMMA IncrementGuess ==
    ASSUME Base, GuessInv, NEW r \in Reqs, IncrementPasswordResetAttempts(r) PROVE GuessInv'
<1>1. TypeOK /\ pc[r] = "count" /\ lost' = lost /\ lost' \in {lost, lost + 1}
  BY DEF Base, IncrementPasswordResetAttempts
<1>2. PICK d \in Codes : d = req[r].code
  BY <1>1 DEF Base, Shape, ShapeOf
<1>3. Alone(r)
  BY <1>1, AnswerAlone DEF IncrementPasswordResetAttempts, Pcs
<1>4. /\ \A c \in Codes : row'[c].tried = row[c].tried /\ (Live(c)' => Live(c))
      /\ \A c \in Codes \ {d} : row'[c] = row[c]
  BY <1>1, <1>2 DEF IncrementPasswordResetAttempts, TypeOK, CodeRows, Live
<1>5. ASSUME NEW c \in Codes \ {d} PROVE GuessOf(c)'
  <2>1. r \notin Counting(c) /\ r \notin Guessing(c)
    BY <1>2 DEF Counting, Guessing
  <2>2. row'[c] = row[c] /\ (Live(c)' => Live(c))
    BY <1>4
  <2> QED
    BY <1>1, <1>3, <2>1, <2>2, GuessKept DEF GuessInv
<1>6. CASE row[d].gone
  <2>1. ~Live(d)' /\ row'[d].tried = row[d].tried
    BY <1>4, <1>6 DEF Live
  <2>2. GuessOf(d)'
    BY <1>1, <1>3, <2>1, GuessKept DEF GuessInv
  <2> QED
    BY <1>5, <2>2 DEF GuessInv
<1>7. CASE ~row[d].gone
  <2>1. row'[d].attempts = row[d].attempts + 1
    BY <1>1, <1>2, <1>7 DEF IncrementPasswordResetAttempts, TypeOK, CodeRows
  <2>2. /\ row'[d].attempts >= MaxAttempts => pc'[r] = "burn" /\ req'[r] = req[r]
        /\ row'[d].attempts < MaxAttempts => pc'[r] = "idle"
        /\ pc'[r] \in {"burn", "idle"}
    <3>1. IF row'[d].attempts >= MaxAttempts THEN Goto(r, "burn") ELSE Answer(r)
      BY <1>2, <1>7 DEF IncrementPasswordResetAttempts
    <3>2. /\ Answer(r) => pc'[r] = "idle"
          /\ Goto(r, "burn") => pc'[r] = "burn" /\ req'[r] = req[r]
      BY <1>1, AnswerAlone DEF Pcs
    <3>3. row'[d].attempts < MaxAttempts => ~(row'[d].attempts >= MaxAttempts)
      BY <1>1, <2>1, Numbers
    <3> QED
      BY <3>1, <3>2, <3>3
  <2>3. PICK k, m \in Nat :
           /\ m < Cardinality(Reqs)
           /\ Cardinality(Counting(d)) = IF r \in Counting(d) THEN k + 1 ELSE k
           /\ Cardinality(Counting(d)') = IF r \in Counting(d)' THEN k + 1 ELSE k
           /\ Cardinality(Guessing(d)) = IF r \in Guessing(d) THEN m + 1 ELSE m
           /\ Cardinality(Guessing(d)') = IF r \in Guessing(d)' THEN m + 1 ELSE m
           /\ k <= m
    BY <1>3, Guessers
  <2>4. r \in Counting(d) /\ r \notin Counting(d)' /\ r \in Guessing(d)
    BY <1>1, <1>2, <2>2 DEF Counting, Guessing
  <2>5. /\ row[d].tried \in Nat /\ row[d].attempts \in Nat /\ lost \in Nat
        /\ MaxAttempts \in Nat /\ Cardinality(Reqs) \in Nat
    BY <1>1, Numbers
  <2>6. row'[d].tried < MaxAttempts + Cardinality(Reqs) + lost'
    BY <1>1, <1>4, <2>5 DEF GuessInv, GuessOf
  <2>7. ASSUME Live(d)'
        PROVE  row'[d].tried <= row'[d].attempts + Cardinality(Counting(d)') + lost'
    <3>1. row[d].tried <= row[d].attempts + (k + 1) + lost
      BY <1>4, <2>3, <2>4, <2>7 DEF GuessInv, GuessOf
    <3> QED
      BY <1>1, <1>4, <2>1, <2>3, <2>4, <2>5, <3>1
  <2>8. ASSUME Live(d)'
        PROVE  row'[d].tried < MaxAttempts + Cardinality(Guessing(d)') + lost'
    <3>1. CASE row'[d].attempts >= MaxAttempts
      <4>1. r \in Guessing(d)'
        BY <1>2, <2>2, <3>1 DEF Guessing
      <4>2. row[d].tried < MaxAttempts + (m + 1) + lost
        BY <1>4, <2>3, <2>4, <2>8 DEF GuessInv, GuessOf
      <4> QED
        BY <1>1, <1>4, <2>3, <4>1, <4>2
    <3>2. CASE row'[d].attempts < MaxAttempts
      <4>1. r \notin Guessing(d)'
        BY <2>2, <3>2 DEF Guessing
      <4>2. row'[d].tried <= row'[d].attempts + k + lost'
        BY <2>3, <2>4, <2>7, <2>8
      <4>3. Cardinality(Guessing(d)') = m
        BY <2>3, <4>1
      <4> QED
        BY <1>1, <1>4, <2>1, <2>3, <2>5, <3>2, <4>2, <4>3
    <3> QED
      BY <2>1, <2>5, <3>1, <3>2
  <2>9. GuessOf(d)'
    BY <2>6, <2>7, <2>8 DEF GuessOf
  <2> QED
    BY <1>5, <2>9 DEF GuessInv
<1> QED
  BY <1>6, <1>7

LEMMA GuessNext == Base /\ GuessInv /\ [Next]_vars => GuessInv'
<1> SUFFICES ASSUME Base, GuessInv, [Next]_vars PROVE GuessInv'
  OBVIOUS
<1>1. TypeOK
  BY DEF Base
<1>2. ASSUME UNCHANGED <<pc, req, lost>>,
             \A c \in Codes : /\ row'[c].tried = row[c].tried /\ row'[c].attempts = row[c].attempts
                              /\ Live(c)' => Live(c)
      PROVE  GuessInv'
  <2>1. \A c \in Codes : Counting(c)' = Counting(c) /\ Guessing(c)' = Guessing(c)
    BY <1>2 DEF Counting, Guessing
  <2> QED
    BY <1>2, <2>1 DEF GuessInv, GuessOf
<1>3. ASSUME UNCHANGED row
      PROVE  \A c \in Codes : /\ row'[c].tried = row[c].tried /\ row'[c].attempts = row[c].attempts
                              /\ Live(c)' => Live(c)
  BY <1>3 DEF Live
<1>4. CASE UNCHANGED vars
  BY <1>2, <1>3, <1>4 DEF vars
<1>5. ASSUME NEW a \in Codes, Age(a) PROVE GuessInv'
  <2>1. \A c \in Codes : /\ row'[c].tried = row[c].tried /\ row'[c].attempts = row[c].attempts
                         /\ Live(c)' => Live(c)
    BY <1>1, <1>5 DEF Age, TypeOK, CodeRows, Live
  <2> QED
    BY <1>2, <1>5, <2>1 DEF Age
<1>6. ASSUME NEW r \in Reqs, BeginForgot(r) \/ BeginReset(r) PROVE GuessInv'
  <2>1. Alone(r) /\ pc[r] = "idle" /\ UNCHANGED row /\ lost' = lost
    BY <1>1, <1>6 DEF BeginForgot, BeginReset, Begin, Alone, TypeOK
  <2> QED
    BY <1>1, <1>3, <2>1, QuietGuess
<1>7. ASSUME NEW r \in Reqs, Step(r) PROVE GuessInv'
  <2>1. CASE CreateBegins(r)
    <3>1. Alone(r) /\ pc[r] = "create" /\ UNCHANGED row /\ lost' = lost
      BY <1>1, <2>1 DEF CreateBegins, Alone, TypeOK
    <3> QED
      BY <1>1, <1>3, <3>1, QuietGuess
  <2>2. CASE \/ LastPasswordResetSentAt(r) \/ SendPasswordResetForGoogleAccount(r)
             \/ SendPasswordReset(r) \/ UpdatePassword(r)
    <3>1. Alone(r) /\ pc[r] \notin {"count", "burn"} /\ UNCHANGED row /\ lost' = lost
      BY <1>1, <2>2, AnswerAlone DEF LastPasswordResetSentAt, SendPasswordResetForGoogleAccount,
         SendPasswordReset, UpdatePassword, Pcs
    <3> QED
      BY <1>1, <1>3, <3>1, QuietGuess
  <2>3. CASE ConsumePasswordResetToken(r)
    <3>1. Alone(r) /\ pc[r] = "consume" /\ lost' = lost
      BY <1>1, <2>3, AnswerAlone DEF ConsumePasswordResetToken, Pcs
    <3>2. \A c \in Codes : /\ row'[c].tried = row[c].tried /\ row'[c].attempts = row[c].attempts
                           /\ Live(c)' => Live(c)
      BY <1>1, <2>3 DEF ConsumePasswordResetToken, TypeOK, CodeRows, Live
    <3> QED
      BY <1>1, <3>1, <3>2, QuietGuess
  <2> QED
    BY <1>7, <2>1, <2>2, <2>3, CreateGuess, ExpireGuess, GetLiveGuess, IncrementGuess DEF Step
<1> QED
  BY <1>4, <1>5, <1>6, <1>7, FailGuess DEF Next

\* The wrong guesses at one code are bounded, for any number of requests that race.
THEOREM GuessesBounded == Spec => []WrongGuessesBounded
<1>1. ASSUME Init PROVE GuessInv
  <2>1. TypeOK
    BY <1>1, InitBase DEF Base
  <2>2. \A c \in Codes : row[c].tried = 0 /\ ~Live(c) /\ lost = 0
    BY <1>1 DEF Init, NoRow, Live
  <2>3. \A c \in Codes : MaxAttempts + Cardinality(Reqs) + 0 > 0
    BY <2>1, Numbers
  <2> QED
    BY <2>2, <2>3 DEF GuessInv, GuessOf
<1>2. GuessInv => WrongGuessesBounded
  BY DEF GuessInv, GuessOf, WrongGuessesBounded
<1> QED
  BY <1>1, <1>2, GuessNext, BaseCorrect, PTL DEF Spec
=============================================================================
