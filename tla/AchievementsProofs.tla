------------------------- MODULE AchievementsProofs -------------------------
(***************************************************************************)
(* Proofs about Achievements and the Exam it composes, for any papers, any *)
(* number of matches, messages, attempts and requests.  The exam: what is  *)
(* stored was graded by the paper there is, a results screen agrees with   *)
(* itself, the license is shown to those who earned it.  The badges: the   *)
(* single pass over the log finds the badges that the whole log earned,    *)
(* by induction over the rows; a match that is logged takes no badge away; *)
(* what is unlocked is dated.                                              *)
(***************************************************************************)
EXTENDS Achievements, Induction, SequenceTheorems

\* An attempt is worth what its answers are.
Graded(a) ==
    /\ a.score = Cardinality(Right(a.sheet))
    /\ a.total = Cardinality(DOMAIN a.sheet)
    /\ a.passed <=> a.score >= PassingScore

\* It answers each question of the paper that is stored.
Fits(a) == a.paper = paper.n /\ paper.qs # {} /\ DOMAIN a.sheet = paper.qs

Shapes == [from: Nat, attempt: Attempts, after: Nat, seen: Papers, seeded: BOOLEAN]

\* What a request carries: if nothing was seeded since it began, what it read of the
\* paper and of an attempt is there still; an attempt about to be saved fits the
\* paper if it is of the same number.
ReqOK(p, q) ==
    /\ q.attempt.paper <= paper.n
    /\ p \in {"save", "latest_questions", "answers"} => Graded(q.attempt)
    /\ p = "save" /\ q.attempt.paper = paper.n /\ paper.qs # {} => Fits(q.attempt)
    /\ p \in {"latest_questions", "answers"} /\ ~q.seeded => Fits(q.attempt)
    /\ p = "answers" /\ ~q.seeded => q.seen = paper

Kept == \A i \in DOMAIN attempts : Graded(attempts[i]) /\ Fits(attempts[i])

ExamInv ==
    /\ paper \in Papers
    /\ attempts \in Seq(Attempts) /\ Kept
    /\ pc \in [Reqs -> Pcs]
    /\ req \in [Reqs -> Shapes]
    /\ \A r \in Reqs : ReqOK(pc[r], req[r])
    /\ ReviewAgrees

-----------------------------------------------------------------------------
(* Lemmas.                                                                 *)

\* What is inserted is there, and nothing else is new.
LEMMA Inserted ==
    ASSUME NEW S, NEW s \in Seq(S), NEW e \in S, NEW i \in 1..Len(s) + 1
    PROVE  /\ InsertAt(s, i, e) \in Seq(S)
           /\ \A j \in DOMAIN InsertAt(s, i, e) :
                InsertAt(s, i, e)[j] = e \/ \E k \in DOMAIN s : InsertAt(s, i, e)[j] = s[k]
<1> DEFINE a == SubSeq(s, 1, i - 1)
           b == SubSeq(s, i, Len(s))
<1>1. a \in Seq(S) /\ b \in Seq(S) /\ <<e>> \in Seq(S)
  OBVIOUS
<1>2. /\ \A j \in DOMAIN a : \E k \in DOMAIN s : a[j] = s[k]
      /\ \A j \in DOMAIN b : \E k \in DOMAIN s : b[j] = s[k]
  OBVIOUS
<1>3. InsertAt(s, i, e) = (a \o <<e>>) \o b
  BY DEF InsertAt
<1> HIDE DEF a, b
<1> DEFINE c == a \o <<e>>
<1>4. c \in Seq(S) /\ \A j \in DOMAIN c : c[j] = e \/ \E k \in DOMAIN a : c[j] = a[k]
  BY <1>1
<1> HIDE DEF c
<1>5. c \o b \in Seq(S) /\ \A j \in DOMAIN (c \o b) :
        (\E k \in DOMAIN c : (c \o b)[j] = c[k]) \/ \E k \in DOMAIN b : (c \o b)[j] = b[k]
  BY <1>1, <1>4
<1>6. InsertAt(s, i, e) = c \o b
  BY <1>3 DEF c
<1> QED
  BY <1>2, <1>4, <1>5, <1>6

LEMMA NoAttemptType == NoAttempt \in Attempts /\ NoSheet \in Sheets /\ NoRequest \in Shapes
<1>1. Cardinality(Questions) \in Nat /\ 1 \in 1..MaxPapers
  BY ExamAssumption, FS_CardinalityType
<1>2. NoSheet \in Sheets
  <2>1. NoSheet \in [{} -> Marks]
    BY DEF NoSheet
  <2> QED
    BY <2>1 DEF Sheets
<1>3. NoAttempt \in Attempts
  BY <1>1, <1>2 DEF NoAttempt, Attempts
<1>4. NoRequest \in Shapes
  BY <1>1, <1>3 DEF NoRequest, Shapes, Papers
<1> QED
  BY <1>2, <1>3, <1>4

\* Grading: the attempt is well formed, of this paper, and worth what its answers are.
LEMMA Grading ==
    ASSUME paper \in Papers, NEW from, NEW picks \in [Questions -> Picks], ~BadPick(from, picks, paper)
    PROVE  /\ gradeAttempt(from, picks, paper) \in Attempts
           /\ Graded(gradeAttempt(from, picks, paper))
           /\ paper.qs # {} => Fits(gradeAttempt(from, picks, paper))
           /\ gradeAttempt(from, picks, paper).paper = paper.n
<1> DEFINE sheet == [q \in paper.qs |-> PickOf(q, from, picks, paper)]
           score == Cardinality(Right(sheet))
           total == Cardinality(paper.qs)
           passed == score >= PassingScore
<1>1. paper.n \in 1..MaxPapers /\ paper.qs \subseteq Questions
  BY DEF Papers
<1>2. sheet \in Sheets
  <2>1. \A q \in paper.qs : PickOf(q, from, picks, paper) \in Marks
    BY <1>1 DEF BadPick, PickOf, Marks, Picks
  <2>2. sheet \in [paper.qs -> Marks]
    BY <2>1
  <2> QED
    BY <1>1, <2>2 DEF Sheets
<1>3. DOMAIN sheet = paper.qs /\ Right(sheet) \subseteq paper.qs
  BY DEF Right
<1>4. IsFiniteSet(paper.qs) /\ IsFiniteSet(Right(sheet)) /\ IsFiniteSet(Questions)
  BY <1>1, <1>3, ExamAssumption, FS_Subset
<1>5. total \in Nat /\ Cardinality(Questions) \in Nat /\ total <= Cardinality(Questions)
  BY <1>1, <1>4, FS_Subset, FS_CardinalityType
<1>6. score \in Nat /\ score <= total
  BY <1>3, <1>4, FS_Subset, FS_CardinalityType
<1>7. gradeAttempt(from, picks, paper) =
        [paper |-> paper.n, score |-> score, total |-> total, passed |-> passed, sheet |-> sheet]
  BY DEF gradeAttempt
<1>8. passed \in BOOLEAN
  OBVIOUS
<1> HIDE DEF sheet, score, total
<1>9. score \in 0..Cardinality(Questions) /\ total \in 0..Cardinality(Questions)
  BY <1>5, <1>6
<1> DEFINE a == gradeAttempt(from, picks, paper)
<1> HIDE DEF passed
<1>10. /\ a.paper = paper.n /\ a.score = score /\ a.total = total /\ a.sheet = sheet
       /\ a.passed = passed
  BY <1>7
<1>11. a.passed <=> score >= PassingScore
  BY <1>10, Zenon DEF passed
<1>12. a \in Attempts
  BY <1>1, <1>2, <1>7, <1>8, <1>9 DEF Attempts
<1> HIDE DEF a
<1>13. Graded(a)
  BY <1>3, <1>10, <1>11 DEF Graded, score, total
<1>14. paper.qs # {} => Fits(a)
  BY <1>3, <1>10 DEF Fits
<1> QED
  BY <1>10, <1>12, <1>13, <1>14 DEF a

-----------------------------------------------------------------------------
(* Requests.                                                               *)

\* One request goes on; papers and attempts stay.
LEMMA Moves ==
    ASSUME ExamInv, NEW r \in Reqs, NEW p \in Pcs, NEW q \in Shapes,
           pc' = [pc EXCEPT ![r] = p], req' = [req EXCEPT ![r] = q],
           UNCHANGED <<paper, attempts>>, ReqOK(p, q), ReviewAgrees'
    PROVE  ExamInv'
<1>1. \A x \in Reqs : pc'[x] = (IF x = r THEN p ELSE pc[x]) /\ req'[x] = (IF x = r THEN q ELSE req[x])
  BY DEF ExamInv
<1>2. pc' \in [Reqs -> Pcs] /\ req' \in [Reqs -> Shapes]
  BY DEF ExamInv
<1>3. \A x \in Reqs : ReqOK(pc[x], req[x])' <=> ReqOK(pc'[x], req'[x])
  BY DEF ReqOK, Graded, Fits
<1>4. \A x \in Reqs : ReqOK(pc[x], req[x])'
  BY <1>1, <1>3 DEF ExamInv
<1>5. Kept'
  BY DEF ExamInv, Kept, Graded, Fits
<1> QED
  BY <1>2, <1>4, <1>5 DEF ExamInv

LEMMA IdleOK == ASSUME ExamInv PROVE ReqOK("idle", NoRequest)
BY DEF ExamInv, Papers, ReqOK, NoRequest, NoAttempt

LEMMA GotoInv ==
    ASSUME ExamInv, NEW r \in Reqs, NEW p \in Pcs, NEW q \in Shapes, Goto(r, p, q),
           UNCHANGED <<paper, attempts>>, ReqOK(p, q)
    PROVE  ExamInv'
<1>1. ReviewAgrees'
  BY DEF Goto, NoAnswer, ReviewAgrees
<1> QED
  BY <1>1, Moves DEF Goto

LEMMA AnswerInv ==
    ASSUME ExamInv, NEW r \in Reqs, NEW code, NEW attempt, NEW review,
           Answer(r, code, attempt, review), UNCHANGED <<paper, attempts>>, ReviewAgrees'
    PROVE  ExamInv'
<1>1. "idle" \in Pcs
  BY DEF Pcs
<1> QED
  BY <1>1, IdleOK, NoAttemptType, Moves DEF Answer

LEMMA RefuseTells ==
    ASSUME NEW r \in Reqs, NEW code \in {"bad_pick", "error", "not_found"}, Refuse(r, code)
    PROVE  ReviewAgrees'
BY DEF Refuse, Answer, ReviewAgrees

LEMMA RefuseInv ==
    ASSUME ExamInv, NEW r \in Reqs, NEW code \in {"bad_pick", "error", "not_found"},
           Refuse(r, code), UNCHANGED <<paper, attempts>>
    PROVE  ExamInv'
BY RefuseTells, AnswerInv DEF Refuse

LEMMA BeginInv == ASSUME ExamInv, NEW r \in Reqs, BeginSubmit(r) \/ BeginLatest(r) PROVE ExamInv'
<1>1. CASE BeginLatest(r)
  <2>1. ReqOK("latest", NoRequest) /\ "latest" \in Pcs
    BY IdleOK DEF ReqOK, Pcs
  <2> QED
    BY <1>1, <2>1, NoAttemptType, GotoInv DEF BeginLatest
<1>2. CASE BeginSubmit(r)
  <2>1. PICK from \in 1..paper.n : Goto(r, "questions", [NoRequest EXCEPT !.from = from])
    BY <1>2 DEF BeginSubmit
  <2> DEFINE q == [NoRequest EXCEPT !.from = from]
  <2>2. from \in Nat
    BY DEF ExamInv, Papers
  <2>3. q \in Shapes /\ q.attempt = NoRequest.attempt
    BY <2>2, NoAttemptType DEF Shapes
  <2> HIDE DEF q
  <2>4. ReqOK("questions", q) /\ "questions" \in Pcs
    BY <2>3, IdleOK DEF ReqOK, Pcs
  <2>5. UNCHANGED <<paper, attempts>>
    BY <1>2 DEF BeginSubmit
  <2>6. Goto(r, "questions", q)
    BY <2>1 DEF q
  <2> QED
    BY <2>3, <2>4, <2>5, <2>6, GotoInv
<1> QED
  BY <1>1, <1>2

LEMMA GradeInv == ASSUME ExamInv, NEW r \in Reqs, GetQuestionsForReview(r) PROVE ExamInv'
<1>1. UNCHANGED <<paper, attempts>>
  BY DEF GetQuestionsForReview
<1>2. CASE Refuse(r, "error") \/ Refuse(r, "bad_pick")
  BY <1>1, <1>2, RefuseInv
<1>3. CASE ~(Refuse(r, "error") \/ Refuse(r, "bad_pick"))
  <2> DEFINE from == req[r].from
  <2>1. PICK picks \in [Questions -> Picks] :
          /\ paper.qs # {} /\ ~BadPick(from, picks, paper)
          /\ Goto(r, "save", [req[r] EXCEPT !.attempt = gradeAttempt(from, picks, paper),
                                        !.after = Len(attempts)])
    BY <1>3 DEF GetQuestionsForReview
  <2> DEFINE a == gradeAttempt(from, picks, paper)
             q == [req[r] EXCEPT !.attempt = a, !.after = Len(attempts)]
  <2>2. a \in Attempts /\ Graded(a) /\ Fits(a) /\ a.paper = paper.n
    BY <2>1, Grading DEF ExamInv
  <2> HIDE DEF a
  <2>3. Len(attempts) \in Nat /\ req[r] \in Shapes
    BY DEF ExamInv
  <2>4. q \in Shapes /\ q.attempt = a
    BY <2>2, <2>3 DEF Shapes
  <2> HIDE DEF q
  <2>5. paper.n <= paper.n
    BY DEF ExamInv, Papers
  <2>6. ReqOK("save", q) /\ "save" \in Pcs
    BY <2>2, <2>4, <2>5 DEF ReqOK, Pcs
  <2>7. Goto(r, "save", q)
    BY <2>1 DEF q, a
  <2> QED
    BY <1>1, <2>4, <2>6, <2>7, GotoInv
<1> QED
  BY <1>2, <1>3

\* The attempt that is stored was graded by the paper there is.
LEMMA SaveInv == ASSUME ExamInv, NEW r \in Reqs, SaveAttempt(r) PROVE ExamInv'
<1> DEFINE a == req[r].attempt
<1>1. pc[r] = "save" /\ ReqOK("save", req[r]) /\ a \in Attempts /\ req[r].after \in Nat /\ UNCHANGED paper
  BY DEF SaveAttempt, ExamInv, Shapes
<1>2. CASE UNCHANGED attempts /\ Refuse(r, "error")
  BY <1>1, <1>2, RefuseInv
<1>3. ASSUME paper.qs # {}, a.paper = paper.n,
             NEW i \in req[r].after + 1..Len(attempts) + 1, attempts' = InsertAt(attempts, i, a),
             Answer(r, "created", a, a.sheet) \/ Refuse(r, "error")
      PROVE  ExamInv'
  <2>1. Graded(a) /\ Fits(a)
    BY <1>1, <1>3 DEF ReqOK
  <2>2. attempts \in Seq(Attempts) /\ Len(attempts) \in Nat
    BY DEF ExamInv
  <2>3. i \in 1..Len(attempts) + 1
    BY <1>1, <2>2
  <2>4. /\ attempts' \in Seq(Attempts)
        /\ \A j \in DOMAIN attempts' : attempts'[j] = a \/ \E k \in DOMAIN attempts : attempts'[j] = attempts[k]
    BY <1>1, <1>3, <2>2, <2>3, Inserted
  <2>5. Kept'
    <3>1. ASSUME NEW j \in DOMAIN attempts' PROVE Graded(attempts'[j]) /\ Fits(attempts'[j])
      BY <2>1, <2>4 DEF ExamInv, Kept
    <3> QED
      BY <1>1, <3>1 DEF Kept, Graded, Fits
  <2>6. ReviewAgrees'
    <3>1. CASE Refuse(r, "error")
      BY <3>1, RefuseTells
    <3>2. CASE Answer(r, "created", a, a.sheet)
      <4>1. told'.attempt = a /\ told'.review = a.sheet
        BY <3>2 DEF Answer
      <4> QED
        BY <2>1, <4>1 DEF ReviewAgrees, Graded, Right
    <3> QED
      BY <1>3, <3>1, <3>2
  <2>7. pc' = [pc EXCEPT ![r] = "idle"] /\ req' = [req EXCEPT ![r] = NoRequest]
    BY <1>3 DEF Answer, Refuse
  <2>8. ASSUME NEW x \in Reqs PROVE ReqOK(pc[x], req[x])'
    <3>1. ReqOK(pc'[x], req'[x])
      BY <2>7, IdleOK DEF ExamInv
    <3> QED
      BY <1>1, <3>1 DEF ReqOK, Graded, Fits
  <2>9. pc' \in [Reqs -> Pcs] /\ req' \in [Reqs -> Shapes]
    BY <2>7, NoAttemptType DEF ExamInv, Pcs
  <2> QED
    BY <1>1, <2>4, <2>5, <2>6, <2>8, <2>9 DEF ExamInv
<1> QED
  BY <1>2, <1>3 DEF SaveAttempt

LEMMA LatestInv == ASSUME ExamInv, NEW r \in Reqs, ReadLatest(r) PROVE ExamInv'
<1>1. UNCHANGED <<paper, attempts>>
  BY DEF ReadLatest
<1>2. CASE Refuse(r, "not_found")
  BY <1>1, <1>2, RefuseInv
<1>3. CASE ~Refuse(r, "not_found")
  <2> DEFINE a == attempts[Len(attempts)]
             q == [req[r] EXCEPT !.attempt = a]
  <2>1. attempts # <<>> /\ Goto(r, "latest_questions", q)
    BY <1>3 DEF ReadLatest
  <2>2. a \in Attempts /\ Graded(a) /\ Fits(a)
    <3>1. attempts \in Seq(Attempts) /\ Len(attempts) \in DOMAIN attempts
      BY <2>1 DEF ExamInv
    <3> QED
      BY <3>1 DEF ExamInv, Kept
  <2>3. q \in Shapes /\ q.attempt = a
    <3> HIDE DEF a
    <3> QED
      BY <2>2 DEF ExamInv, Shapes
  <2> HIDE DEF a, q
  <2>4. a.paper <= paper.n
    BY <2>2 DEF Fits, ExamInv, Papers
  <2>5. ReqOK("latest_questions", q) /\ "latest_questions" \in Pcs
    BY <2>2, <2>3, <2>4 DEF ReqOK, Pcs
  <2> QED
    BY <1>1, <2>1, <2>3, <2>5, GotoInv
<1> QED
  BY <1>2, <1>3

LEMMA QuestionsInv == ASSUME ExamInv, NEW r \in Reqs, ReadQuestions(r) PROVE ExamInv'
<1> DEFINE q == [req[r] EXCEPT !.seen = paper]
<1>1. pc[r] = "latest_questions" /\ Goto(r, "answers", q) /\ UNCHANGED <<paper, attempts>>
  BY DEF ReadQuestions
<1>2. req[r] \in Shapes /\ ReqOK("latest_questions", req[r]) /\ paper \in Papers
  BY <1>1 DEF ExamInv
<1>3. q \in Shapes /\ q.attempt = req[r].attempt /\ q.seeded = req[r].seeded /\ q.seen = paper
  BY <1>2 DEF Shapes
<1> HIDE DEF q
<1>4. ReqOK("answers", q) /\ "answers" \in Pcs
  BY <1>2, <1>3 DEF ReqOK, Pcs
<1> QED
  BY <1>1, <1>3, <1>4, GotoInv

\* The results screen: if nothing was seeded, the answers are those of the attempt, one
\* for each question that was read.
LEMMA AnswersInv == ASSUME ExamInv, NEW r \in Reqs, ReadAnswers(r) PROVE ExamInv'
<1> DEFINE q == req[r]
           stored == paper.qs # {} /\ q.attempt.paper = paper.n
           review == ReviewOf(q.seen, IF stored /\ q.seen.n = paper.n THEN q.attempt.sheet ELSE NoSheet)
<1>1. pc[r] = "answers" /\ Answer(r, "ok", q.attempt, review) /\ UNCHANGED <<paper, attempts>>
  BY DEF ReadAnswers
<1>2. ReqOK("answers", q) /\ q \in Shapes
  BY <1>1 DEF ExamInv
<1>3. ASSUME ~q.seeded PROVE review = q.attempt.sheet
  <2>1. Fits(q.attempt) /\ q.seen = paper
    BY <1>2, <1>3 DEF ReqOK
  <2>2. review = ReviewOf(paper, q.attempt.sheet)
    BY <2>1 DEF Fits
  <2>3. q.attempt.sheet \in Sheets /\ DOMAIN q.attempt.sheet = paper.qs
    BY <1>2, <2>1 DEF Shapes, Attempts, Fits
  <2>4. ReviewOf(paper, q.attempt.sheet) = q.attempt.sheet
    BY <2>3 DEF ReviewOf, Sheets
  <2> QED
    BY <2>2, <2>4
<1>4. ReviewAgrees'
  <2>1. told'.attempt = q.attempt /\ told'.review = review /\ told'.seeded = q.seeded
    BY <1>1 DEF Answer
  <2> HIDE DEF review
  <2>2. ~q.seeded => Graded(q.attempt)
    BY <1>2 DEF ReqOK
  <2> QED
    BY <1>3, <2>1, <2>2 DEF ReviewAgrees, Graded, Right
<1> HIDE DEF review
<1> QED
  BY <1>1, <1>4, AnswerInv

-----------------------------------------------------------------------------
(* Seeding, and all steps.                                                 *)

\* A seeding leaves no attempt, and requests that it overtook know of it or carry an
\* attempt of an older number.
LEMMA SeedInv == ASSUME ExamInv, TruncateExam \/ InsertQuestions PROVE ExamInv'
<1>1. /\ paper.n \in Nat /\ paper.n < MaxPapers /\ paper.qs \subseteq Questions
      /\ MaxPapers \in Nat
  BY ExamAssumption DEF ExamInv, Papers, TruncateExam, InsertQuestions
<1>2. /\ paper' \in Papers /\ paper.n <= paper'.n
      /\ paper'.qs = {} \/ paper.n < paper'.n
      /\ attempts' = <<>>
  <2>1. CASE TruncateExam
    BY <1>1, <2>1 DEF TruncateExam, ExamInv, Papers
  <2>2. CASE InsertQuestions
    <3>1. paper.qs = {} /\ attempts' = attempts
      BY <2>2 DEF InsertQuestions
    <3>2. attempts = <<>>
      <4>1. DOMAIN attempts = {}
        BY <3>1 DEF ExamInv, Kept, Fits
      <4>2. attempts \in Seq(Attempts)
        BY DEF ExamInv
      <4> QED
        BY <4>1, <4>2
    <3>3. paper'.n = paper.n + 1 /\ paper' \in Papers
      BY <1>1, <2>2 DEF InsertQuestions, Papers
    <3> QED
      BY <1>1, <3>1, <3>2, <3>3
  <2> QED
    BY <2>1, <2>2
<1>3. Seeding
  BY DEF TruncateExam, InsertQuestions
<1>4. ASSUME NEW r \in Reqs
      PROVE  req'[r] \in Shapes /\ ReqOK(pc[r], req[r])'
  <2>1. req[r] \in Shapes /\ ReqOK(pc[r], req[r]) /\ pc'[r] = pc[r]
    BY <1>3 DEF ExamInv, Seeding
  <2>2. req[r].attempt.paper \in Nat /\ req[r].attempt.paper <= paper.n
    BY <2>1 DEF Shapes, Attempts, ReqOK
  <2>3. /\ req'[r] \in Shapes /\ req'[r].attempt = req[r].attempt
        /\ pc[r] = "idle" \/ req'[r].seeded
    BY <1>3, <2>1 DEF Seeding, Shapes
  <2>4. req[r].attempt.paper <= paper'.n
    BY <1>1, <1>2, <2>2 DEF Papers
  <2>5. req[r].attempt.paper = paper'.n => paper'.qs = {}
    BY <1>1, <1>2, <2>2 DEF Papers
  <2> QED
    BY <2>1, <2>3, <2>4, <2>5 DEF ReqOK, Graded
<1>5. pc' = pc /\ told' = NoAnswer
  BY <1>3 DEF Seeding
<1>6. ReviewAgrees'
  BY <1>5 DEF ReviewAgrees, NoAnswer
<1>7. req' \in [Reqs -> Shapes]
  BY <1>3, <1>4 DEF Seeding
<1>8. attempts' \in Seq(Attempts) /\ Kept'
  BY <1>2 DEF Kept
<1> QED
  BY <1>2, <1>4, <1>5, <1>6, <1>7, <1>8 DEF ExamInv

LEMMA IdleInv == ASSUME ExamInv, ExamIdle PROVE ExamInv'
<1>1. ReviewAgrees'
  BY DEF ExamIdle, NoAnswer, ReviewAgrees
<1>2. UNCHANGED <<paper, attempts, pc, req>>
  BY DEF ExamIdle
<1>3. Kept' /\ \A r \in Reqs : ReqOK(pc[r], req[r])'
  BY <1>2 DEF ExamInv, Kept, ReqOK, Graded, Fits
<1> QED
  BY <1>1, <1>2, <1>3 DEF ExamInv

LEMMA ExamNext == ExamInv /\ [Next]_vars => ExamInv'
<1> SUFFICES ASSUME ExamInv, [Next]_vars PROVE ExamInv'
  OBVIOUS
<1>1. CASE Exam
  <2>1. ASSUME NEW r \in Reqs, Fail(r) PROVE ExamInv'
    BY <2>1, RefuseInv DEF Fail
  <2> QED
    BY <1>1, <2>1, BeginInv, GradeInv, SaveInv, LatestInv, QuestionsInv, AnswersInv, SeedInv
       DEF Exam, BeginExamRequest, ExamStep
<1>2. CASE Next /\ ~Exam
  <2>1. ExamIdle
    BY <1>2 DEF Next, CreateMatch, UpdateMatch, SendMessage, SoftDelete, StartLook, Read,
       ReadMatches, ReadLatestScore, ReadPassed, CountMessages, ReadTenth, GetForUser, FailLook,
       EndLook
  <2> QED
    BY <2>1, IdleInv
<1>3. CASE UNCHANGED vars
  <2>1. UNCHANGED <<paper, attempts, pc, req, told>>
    BY <1>3 DEF vars, examVars
  <2>2. Kept' /\ (\A r \in Reqs : ReqOK(pc[r], req[r])') /\ ReviewAgrees'
    BY <2>1 DEF ExamInv, Kept, ReqOK, Graded, Fits, ReviewAgrees
  <2> QED
    BY <2>1, <2>2 DEF ExamInv
<1> QED
  BY <1>1, <1>2, <1>3

LEMMA Invariant == Spec => []ExamInv
<1>1. ASSUME Init PROVE ExamInv
  <2>1. /\ paper \in Papers /\ attempts = <<>> /\ told = NoAnswer
        /\ pc = [r \in Reqs |-> "idle"] /\ req = [r \in Reqs |-> NoRequest]
    BY <1>1, ExamAssumption DEF Init, ExamInit, Papers
  <2>2. ReqOK("idle", NoRequest)
    BY <2>1 DEF Papers, ReqOK, NoRequest, NoAttempt
  <2>3. ReviewAgrees /\ Kept
    BY <2>1 DEF ReviewAgrees, NoAnswer, Kept
  <2>4. pc \in [Reqs -> Pcs] /\ req \in [Reqs -> Shapes]
    BY <2>1, NoAttemptType DEF Pcs
  <2> QED
    BY <2>1, <2>2, <2>3, <2>4 DEF ExamInv
<1> QED
  BY <1>1, ExamNext, PTL DEF Spec

\* Every stored attempt was graded by the paper that is stored, though grading precedes
\* the transaction and the exam is seeded meanwhile.
THEOREM GradedRight == Spec => []GradedByItsPaper
<1>1. ASSUME ExamInv PROVE GradedByItsPaper
  <2>1. ASSUME NEW i \in DOMAIN attempts
        PROVE  /\ attempts[i].paper = paper.n /\ DOMAIN attempts[i].sheet = paper.qs
               /\ attempts[i].score = Cardinality({q \in paper.qs : attempts[i].sheet[q] = "right"})
               /\ attempts[i].passed <=> attempts[i].score >= PassingScore
    BY <1>1 DEF ExamInv, Kept, Graded, Fits, Right
  <2> QED
    BY <2>1 DEF GradedByItsPaper
<1> QED
  BY <1>1, Invariant, PTL

\* A results screen agrees with itself unless the exam was seeded during the request.
THEOREM ScreenAgrees == Spec => []ReviewAgrees
<1>1. ExamInv => ReviewAgrees
  BY DEF ExamInv
<1> QED
  BY <1>1, Invariant, PTL

-----------------------------------------------------------------------------
(* The license.                                                            *)

\* What a look has read of the attempts is true of them until they change.  Of the
\* types of its statistics only this is needed, that they have these fields.
LookOK ==
    /\ DOMAIN look = {"on", "at"} /\ DOMAIN look.at = {"todo", "stats", "hid", "moved"}
    /\ {"passed", "tried"} \subseteq DOMAIN look.at.stats
    /\ look.on /\ ~look.at.moved =>
         /\ "latest" \notin look.at.todo => look.at.stats.tried = (attempts # <<>>)
         /\ "passed" \notin look.at.todo => look.at.stats.passed = (PassedAt(attempts) # {})

LEMMA LookInit == Init => LookOK
BY DEF Init, LookOK, Off, NoLook, NoStats

LEMMA LookNext == LookOK /\ [Next]_vars => LookOK'
<1> SUFFICES ASSUME LookOK, [Next]_vars PROVE LookOK'
  OBVIOUS
<1>1. CASE Exam
  <2>1. look' = [look EXCEPT !.at.moved = @ \/ (look.on /\ attempts' # attempts)]
    BY <1>1 DEF Exam, Seen
  <2> DEFINE b == look.at.moved \/ (look.on /\ attempts' # attempts)
  <2> HIDE DEF b
  <2>2. /\ DOMAIN look' = {"on", "at"} /\ DOMAIN look'.at = {"todo", "stats", "hid", "moved"}
        /\ look'.on = look.on /\ look'.at.todo = look.at.todo /\ look'.at.stats = look.at.stats
        /\ look'.at.moved = b
    BY <2>1 DEF LookOK, b
  <2>3. look'.on /\ ~look'.at.moved => attempts' = attempts /\ ~look.at.moved
    BY <2>2 DEF b
  <2> QED
    BY <2>2, <2>3 DEF LookOK, PassedAt
<1>2. CASE StartLook
  <2>1. look' = [on |-> TRUE, at |-> [NoLook EXCEPT !.todo = Steps]]
    BY <1>2 DEF StartLook
  <2> QED
    BY <2>1 DEF LookOK, NoLook, NoStats, Steps
<1>3. CASE CreateMatch \/ UpdateMatch \/ SendMessage \/ UNCHANGED vars
  <2>1. UNCHANGED <<look, attempts>>
    BY <1>3 DEF CreateMatch, UpdateMatch, SendMessage, ExamIdle, vars, examVars, ownVars
  <2> QED
    BY <2>1 DEF LookOK, PassedAt
<1>4. CASE SoftDelete
  <2>1. look' = [look EXCEPT !.at.hid = look.on] /\ attempts' = attempts
    BY <1>4 DEF SoftDelete, ExamIdle
  <2> QED
    BY <2>1 DEF LookOK, PassedAt
<1>5. CASE GetForUser \/ FailLook
  <2>1. look' = Off
    BY <1>5 DEF GetForUser, FailLook, EndLook
  <2> QED
    BY <2>1 DEF LookOK, Off, NoLook, NoStats
<1>6. ASSUME NEW step, NEW todo, NEW stats, Read(step, todo, stats),
             {"passed", "tried"} \subseteq DOMAIN stats,
             "latest" \notin todo => stats.tried = (attempts # <<>>)
               \/ ("latest" \notin look.at.todo /\ stats.tried = look.at.stats.tried),
             "passed" \notin todo => stats.passed = (PassedAt(attempts) # {})
               \/ ("passed" \notin look.at.todo /\ stats.passed = look.at.stats.passed)
      PROVE  LookOK'
  <2>1. look' = [look EXCEPT !.at.todo = todo, !.at.stats = stats] /\ attempts' = attempts
    BY <1>6 DEF Read, ExamIdle
  <2>2. /\ DOMAIN look' = {"on", "at"} /\ DOMAIN look'.at = {"todo", "stats", "hid", "moved"}
        /\ look'.on = look.on /\ look'.at.todo = todo /\ look'.at.stats = stats
        /\ look'.at.moved = look.at.moved
    BY <2>1 DEF LookOK
  <2> QED
    BY <1>6, <2>1, <2>2 DEF LookOK, PassedAt
<1>7. CASE ReadMatches
  <2> DEFINE m == fillMatchStats(logs)
             stats == [look.at.stats EXCEPT
               !.matches = m.matches, !.wins = m.wins, !.longest = m.longest,
               !.comeback = m.comeback, !.firstWinAt = m.firstWinAt, !.diaristAt = m.diaristAt,
               !.streakAt = m.streakAt, !.comebackAt = m.comebackAt]
  <2>1. Read("match", look.at.todo \ {"match"}, stats)
    BY <1>7 DEF ReadMatches
  <2> HIDE DEF m
  <2>2. /\ DOMAIN stats = DOMAIN look.at.stats
        /\ stats.passed = look.at.stats.passed /\ stats.tried = look.at.stats.tried
    BY DEF LookOK
  <2> HIDE DEF stats
  <2> QED
    BY <1>6, <2>1, <2>2 DEF LookOK
<1>8. CASE ReadLatestScore
  <2> DEFINE b == attempts # <<>>
             stats == [look.at.stats EXCEPT !.tried = b]
  <2>1. Read("latest", look.at.todo \ {"latest"}, stats)
    BY <1>8 DEF ReadLatestScore
  <2> HIDE DEF b
  <2>2. /\ DOMAIN stats = DOMAIN look.at.stats
        /\ stats.passed = look.at.stats.passed /\ stats.tried = b
    BY DEF LookOK
  <2> HIDE DEF stats
  <2> QED
    BY <1>6, <2>1, <2>2 DEF LookOK, b
<1>9. CASE ReadPassed
  <2> DEFINE at == PassedAt(attempts)
             b == at # {}
             first == IF at = {} THEN 0 ELSE Min(at)
             stats == [look.at.stats EXCEPT !.passed = b, !.passedAt = first]
  <2>1. Read("passed", look.at.todo \ {"passed"}, stats)
    BY <1>9 DEF ReadPassed
  <2> HIDE DEF b, first
  <2>2. /\ DOMAIN stats = DOMAIN look.at.stats
        /\ stats.passed = b /\ stats.tried = look.at.stats.tried
    BY DEF LookOK
  <2> HIDE DEF stats
  <2> QED
    BY <1>6, <2>1, <2>2 DEF LookOK, b
<1>10. CASE CountMessages
  <2> DEFINE todo == look.at.todo \ (IF messages >= Target THEN {"count"} ELSE {"count", "tenth"})
             stats == [look.at.stats EXCEPT !.messages = messages]
  <2>1. Read("count", todo, stats)
    BY <1>10 DEF CountMessages
  <2>2. /\ DOMAIN stats = DOMAIN look.at.stats
        /\ stats.passed = look.at.stats.passed /\ stats.tried = look.at.stats.tried
        /\ "latest" \notin todo => "latest" \notin look.at.todo
        /\ "passed" \notin todo => "passed" \notin look.at.todo
    BY DEF LookOK
  <2> HIDE DEF stats, todo
  <2> QED
    BY <1>6, <2>1, <2>2 DEF LookOK
<1>11. CASE ReadTenth
  <2> DEFINE time == IF messages >= Target THEN Target ELSE 0
             stats == [look.at.stats EXCEPT !.curiousAt = time]
  <2>1. Read("tenth", look.at.todo \ {"tenth"}, stats)
    BY <1>11 DEF ReadTenth
  <2> HIDE DEF time
  <2>2. /\ DOMAIN stats = DOMAIN look.at.stats
        /\ stats.passed = look.at.stats.passed /\ stats.tried = look.at.stats.tried
    BY DEF LookOK
  <2> HIDE DEF stats
  <2> QED
    BY <1>6, <2>1, <2>2 DEF LookOK
<1> QED
  BY <1>1, <1>2, <1>3, <1>4, <1>5, <1>7, <1>8, <1>9, <1>10, <1>11 DEF Next

LEMMA LicenseNext == LookOK /\ LicenseIsEarned /\ [Next]_vars => LicenseIsEarned'
<1> SUFFICES ASSUME LookOK, LicenseIsEarned, [Next]_vars, shown'.code = "ok", ~shown'.moved
             PROVE  /\ shown'.badges["padel-license"].unlocked <=> \E i \in DOMAIN attempts' : attempts'[i].passed
                    /\ shown'.badges["padel-license"].unlocked => shown'.stats.tried
  BY DEF LicenseIsEarned
<1>1. CASE GetForUser
  <2> DEFINE s == look.at.stats
  <2>1. /\ look.on /\ look.at.todo = {} /\ attempts' = attempts
        /\ shown' = [code |-> "ok", badges |-> compute(s), stats |-> s,
                     hid |-> look.at.hid, moved |-> look.at.moved]
    BY <1>1 DEF GetForUser, EndLook, ExamIdle
  <2>2. shown'.badges = compute(s) /\ shown'.stats = s /\ shown'.moved = look.at.moved
    BY <2>1
  <2>3. s.tried = (attempts # <<>>) /\ s.passed = (PassedAt(attempts) # {})
    BY <2>1, <2>2 DEF LookOK
  <2>4. compute(s)["padel-license"] = [unlocked |-> s.passed, at |-> s.passedAt]
    BY DEF compute, Badges
  <2>5. shown'.badges["padel-license"].unlocked = s.passed
    BY <2>2, <2>4
  <2>6. PassedAt(attempts) # {} <=> \E i \in DOMAIN attempts : attempts[i].passed
    BY DEF PassedAt
  <2>7. PassedAt(attempts) # {} => attempts # <<>>
    BY DEF PassedAt
  <2>8. shown'.badges["padel-license"].unlocked <=> PassedAt(attempts) # {}
    BY <2>3, <2>5, Zenon
  <2>9. shown'.stats.tried <=> attempts # <<>>
    BY <2>2, <2>3, Zenon
  <2> QED
    BY <2>1, <2>6, <2>7, <2>8, <2>9
<1>2. CASE UNCHANGED vars
  BY <1>2 DEF LicenseIsEarned, vars, examVars, ownVars
<1>3. CASE Next /\ ~GetForUser
  <2>1. shown' = NoSummary \/ shown' = [NoSummary EXCEPT !.code = "error"]
    BY <1>3 DEF Next, Exam, Seen, CreateMatch, UpdateMatch, SendMessage, SoftDelete, StartLook, Read,
       ReadMatches, ReadLatestScore, ReadPassed, CountMessages, ReadTenth, FailLook, EndLook
  <2> QED
    BY <2>1 DEF NoSummary
<1> QED
  BY <1>1, <1>2, <1>3

\* The license is shown to those with a stored attempt that passed, however the reads of
\* the attempts fall, unless attempts change under the look.
THEOREM LicenseEarned == Spec => []LicenseIsEarned
<1>1. Init => LicenseIsEarned
  BY DEF Init, NoSummary, LicenseIsEarned
<1> QED
  BY <1>1, LookInit, LookNext, LicenseNext, PTL DEF Spec

-----------------------------------------------------------------------------
(* The pass over the log: what one row does to the statistics.             *)

\* The rows of the log.
LogRows == [result: Results, created: 1..MaxRows]

\* The statistics, of any size.
RawStats == [matches: Nat, wins: Nat, longest: Nat, comeback: BOOLEAN,
             firstWinAt: Nat, diaristAt: Nat, streakAt: Nat, comebackAt: Nat,
             streak: Nat, lossesBefore: Nat, messages: Nat, curiousAt: Nat,
             tried: BOOLEAN, passed: BOOLEAN, passedAt: Nat]

LEMMA NoStatsType == NoStats \in RawStats
BY DEF NoStats, RawStats

LEMMA CountedFields ==
    ASSUME NEW s \in RawStats, NEW m \in LogRows
    PROVE  LET c == Counted(s, m) IN
           /\ c \in RawStats
           /\ c.matches = s.matches + 1
           /\ c.diaristAt = IF s.matches + 1 = Target THEN m.created ELSE s.diaristAt
           /\ c.wins = s.wins /\ c.longest = s.longest /\ c.streak = s.streak
           /\ c.comeback = s.comeback /\ c.lossesBefore = s.lossesBefore
           /\ c.firstWinAt = s.firstWinAt /\ c.streakAt = s.streakAt /\ c.comebackAt = s.comebackAt
<1> DEFINE at == IF s.matches + 1 = Target THEN m.created ELSE s.diaristAt
<1>1. at \in Nat /\ s.matches + 1 \in Nat
  BY DEF RawStats, LogRows
<1>2. Counted(s, m) = [[s EXCEPT !.matches = s.matches + 1] EXCEPT !.diaristAt = at]
  BY DEF Counted, RawStats
<1> HIDE DEF at
<1> QED
  BY <1>1, <1>2 DEF RawStats, at

LEMMA LoseFields ==
    ASSUME NEW s \in RawStats
    PROVE  LET c == Lose(s) IN
           /\ c \in RawStats
           /\ c.streak = 0 /\ c.lossesBefore = s.lossesBefore + 1
           /\ c.matches = s.matches /\ c.diaristAt = s.diaristAt
           /\ c.wins = s.wins /\ c.longest = s.longest
           /\ c.comeback = s.comeback
           /\ c.firstWinAt = s.firstWinAt /\ c.streakAt = s.streakAt /\ c.comebackAt = s.comebackAt
<1>1. Lose(s) = [s EXCEPT !.streak = 0, !.lossesBefore = s.lossesBefore + 1]
  BY DEF Lose, RawStats
<1>2. s.lossesBefore + 1 \in Nat
  BY DEF RawStats
<1>3. Lose(s) \in RawStats
  <2> DEFINE half == [s EXCEPT !.streak = 0]
  <2>1. half \in RawStats /\ Lose(s) = [half EXCEPT !.lossesBefore = s.lossesBefore + 1]
    BY <1>1, <1>2 DEF RawStats
  <2> HIDE DEF half
  <2> QED
    BY <1>2, <2>1 DEF RawStats
<1> QED
  BY <1>1, <1>3 DEF RawStats

LEMMA DrawFields ==
    ASSUME NEW s \in RawStats
    PROVE  LET c == Draw(s) IN
           /\ c \in RawStats
           /\ c.streak = 0 /\ c.lossesBefore = s.lossesBefore
           /\ c.matches = s.matches /\ c.diaristAt = s.diaristAt
           /\ c.wins = s.wins /\ c.longest = s.longest
           /\ c.comeback = s.comeback
           /\ c.firstWinAt = s.firstWinAt /\ c.streakAt = s.streakAt /\ c.comebackAt = s.comebackAt
BY DEF Draw, RawStats

LEMMA WinFields ==
    ASSUME NEW s \in RawStats, NEW m \in LogRows
    PROVE  LET c == Win(s, m)
               back == s.lossesBefore >= 2 /\ ~s.comeback IN
           /\ c \in RawStats
           /\ c.matches = s.matches /\ c.diaristAt = s.diaristAt
           /\ c.wins = s.wins + 1
           /\ c.firstWinAt = IF s.firstWinAt = 0 THEN m.created ELSE s.firstWinAt
           /\ c.streak = s.streak + 1
           /\ c.longest = IF s.streak + 1 > s.longest THEN s.streak + 1 ELSE s.longest
           /\ c.streakAt = IF s.streak + 1 = 3 /\ s.streakAt = 0 THEN m.created ELSE s.streakAt
           /\ c.comeback = (s.comeback \/ back)
           /\ c.comebackAt = IF back THEN m.created ELSE s.comebackAt
           /\ c.lossesBefore = 0
<1> DEFINE back == s.lossesBefore >= 2 /\ ~s.comeback
           streak == s.streak + 1
           first == IF s.firstWinAt = 0 THEN m.created ELSE s.firstWinAt
           longest == IF streak > s.longest THEN streak ELSE s.longest
           at == IF streak = 3 /\ s.streakAt = 0 THEN m.created ELSE s.streakAt
           comeback == s.comeback \/ back
           backAt == IF back THEN m.created ELSE s.comebackAt
<1>1. /\ streak \in Nat /\ first \in Nat /\ longest \in Nat /\ at \in Nat
      /\ comeback \in BOOLEAN /\ backAt \in Nat /\ s.wins + 1 \in Nat
  BY DEF RawStats, LogRows
<1>2. Win(s, m) = [s EXCEPT !.wins = s.wins + 1, !.firstWinAt = first, !.streak = streak,
                            !.longest = longest, !.streakAt = at, !.comeback = comeback,
                            !.comebackAt = backAt, !.lossesBefore = 0]
  BY DEF Win, RawStats
<1> HIDE DEF back, streak, first, longest, at, comeback, backAt
<1>3. Win(s, m) \in RawStats
  <2> DEFINE w1 == [s EXCEPT !.wins = s.wins + 1, !.firstWinAt = first]
             w2 == [w1 EXCEPT !.streak = streak, !.longest = longest]
             w3 == [w2 EXCEPT !.streakAt = at, !.comeback = comeback]
             w4 == [w3 EXCEPT !.comebackAt = backAt, !.lossesBefore = 0]
  <2>1. w1 \in RawStats
    BY <1>1 DEF RawStats
  <2>2. w2 \in RawStats
    <3> HIDE DEF w1
    <3> QED BY <1>1, <2>1 DEF RawStats
  <2>3. w3 \in RawStats
    <3> HIDE DEF w2
    <3> QED BY <1>1, <2>2 DEF RawStats
  <2>4. w4 \in RawStats
    <3> HIDE DEF w3
    <3> QED BY <1>1, <2>3 DEF RawStats
  <2>5. Win(s, m) = w4
    BY <1>2 DEF RawStats
  <2> QED
    BY <2>4, <2>5
<1>4. LET c == Win(s, m) IN
      /\ c.matches = s.matches /\ c.diaristAt = s.diaristAt
      /\ c.wins = s.wins + 1 /\ c.firstWinAt = first /\ c.streak = streak
      /\ c.longest = longest /\ c.streakAt = at /\ c.comeback = comeback
      /\ c.comebackAt = backAt /\ c.lossesBefore = 0
  BY <1>1, <1>2 DEF RawStats
<1> QED
  BY <1>3, <1>4 DEF back, streak, first, longest, at, comeback, backAt

LEMMA ReadRowType ==
    ASSUME NEW s \in RawStats, NEW m \in LogRows
    PROVE  ReadRow(s, m) \in RawStats
BY CountedFields, WinFields, LoseFields, DrawFields DEF ReadRow, LogRows, Results

-----------------------------------------------------------------------------
(* fillMatchStats, row by row.                                             *)

\* h is what the pass over l has computed after each row.
Pass(l, h) ==
    /\ h \in [0..Len(l) -> RawStats]
    /\ h[0] = NoStats
    /\ \A k \in 0..Len(l) - 1 : h[k + 1] = ReadRow(h[k], l[k + 1])

LEMMA FoldIsPass ==
    ASSUME NEW l \in Seq(LogRows)
    PROVE  \E h : Pass(l, h) /\ FoldLeft(ReadRow, NoStats, l) = h[Len(l)]
<1> DEFINE n == Len(l)
           D == 1..n
           F == [i \in D |-> [x \in RawStats |-> ReadRow(x, l[i])]]
           iter == CHOOSE g : g = [s \in SUBSET D |->
                     IF s = {} THEN NoStats ELSE ReadRow(g[s \ {Max(s)}], l[Max(s)])]
<1>1. n \in Nat /\ DOMAIN l = D /\ \A i \in D : l[i] \in LogRows
  OBVIOUS
<1>2. FoldLeft(ReadRow, NoStats, l) = iter[D]
  BY <1>1 DEF FoldLeft, MapThenFoldSet
<1>3. F \in [1..n -> [RawStats -> RawStats]]
  BY <1>1, ReadRowType
<1>4. \A x \in RawStats, i \in D : F[i][x] = ReadRow(x, l[i])
  OBVIOUS
<1> HIDE DEF F
<1>5. \A s \in SUBSET D : s # {} => Max(s) \in D
  BY <1>1, MaxIsGreatest
<1>6. \E g : g = [s \in SUBSET D |->
               IF s = {} THEN NoStats ELSE ReadRow(g[s \ {Max(s)}], l[Max(s)])]
  <2>1. PICK g \in [SUBSET D -> RawStats] : Solves(g, n, NoStats, F)
    BY <1>1, <1>3, NoStatsType, FoldExists
  <2>2. ASSUME NEW s \in SUBSET D, NEW m, m = Max(s), s # {}
        PROVE  F[m][g[s \ {m}]] = ReadRow(g[s \ {m}], l[m])
    BY <1>4, <1>5, <2>2
  <2>3. g = [s \in SUBSET D |->
               IF s = {} THEN NoStats ELSE ReadRow(g[s \ {Max(s)}], l[Max(s)])]
    BY <2>1, <2>2 DEF Solves
  <2> QED
    BY <2>3
<1>7. iter = [s \in SUBSET D |->
                IF s = {} THEN NoStats ELSE ReadRow(iter[s \ {Max(s)}], l[Max(s)])]
  BY <1>6
<1> HIDE DEF iter
<1>8. IsFold(iter, n, RawStats, NoStats, F)
  <2>1. ASSUME NEW s \in SUBSET D, NEW m, m = Max(s), s # {}, iter[s \ {m}] \in RawStats
        PROVE  F[m][iter[s \ {m}]] = ReadRow(iter[s \ {m}], l[m])
    BY <1>4, <1>5, <2>1
  <2>2. {} \in SUBSET D
    OBVIOUS
  <2> QED
    BY <1>7, <2>1, <2>2 DEF IsFold
<1>9. PICK h : Takes(h, n, RawStats, NoStats, F) /\ h[n] = iter[D]
  BY <1>1, <1>3, <1>8, NoStatsType, FoldSteps
<1>10. \A k \in 0..n - 1 : h[k + 1] = ReadRow(h[k], l[k + 1])
  <2>1. \A k \in 0..n - 1 : k \in 0..n /\ k + 1 \in D
    BY <1>1
  <2> QED
    BY <1>4, <1>9, <2>1 DEF Takes
<1> QED
  BY <1>2, <1>9, <1>10 DEF Pass, Takes

-----------------------------------------------------------------------------
(* What the variables of the pass say of the rows read so far.             *)

Won(l, i) == l[i].result = "won"
Lost(l, i) == l[i].result = "lost"
Unbroken(l, i, k) == \A w \in i..k : l[w].result \in {"won", "none"}
Winless(l, i, k) == \A w \in i..k : ~Won(l, w)

\* The run of wins that ends with row k has at least one, two, three of them.
Run1(l, k) == \E i \in 1..k : Won(l, i) /\ Unbroken(l, i, k)
Run2(l, k) == \E i, j \in 1..k : i < j /\ Won(l, i) /\ Won(l, j) /\ Unbroken(l, i, k)
Run3(l, k) == \E i, j, m \in 1..k :
    i < j /\ j < m /\ Won(l, i) /\ Won(l, j) /\ Won(l, m) /\ Unbroken(l, i, k)

\* The matches lost since the last win are at least one, two.
Lost1(l, k) == \E i \in 1..k : Lost(l, i) /\ Winless(l, i, k)
Lost2(l, k) == \E i, j \in 1..k : i < j /\ Lost(l, i) /\ Lost(l, j) /\ Winless(l, i, k)

\* What the first k rows earn.
WinBy(l, k) == \E i \in 1..k : Won(l, i)
StreakBy(l, k) == \E i, j, m \in 1..k :
    i < j /\ j < m /\ Won(l, i) /\ Won(l, j) /\ Won(l, m) /\ Unbroken(l, i, m)
ComebackBy(l, k) == \E i, j, m \in 1..k :
    i < j /\ j < m /\ Lost(l, i) /\ Lost(l, j) /\ Won(l, m) /\ Winless(l, i, m - 1)

EarnedBy(b, l, k) ==
    CASE b = "first-win"     -> WinBy(l, k)
      [] b = "match-diarist" -> k >= Target
      [] b = "win-streak-3"  -> StreakBy(l, k)
      [] b = "comeback-kid"  -> ComebackBy(l, k)

LEMMA OneMore ==
    ASSUME NEW l, NEW k \in Nat, NEW i \in 1..k + 1
    PROVE  /\ Unbroken(l, i, k + 1) <=> Unbroken(l, i, k) /\ l[k + 1].result \in {"won", "none"}
           /\ Winless(l, i, k + 1) <=> Winless(l, i, k) /\ ~Won(l, k + 1)
<1>1. \A w : w \in i..k + 1 <=> w \in i..k \/ w = k + 1
  OBVIOUS
<1> QED
  BY <1>1 DEF Unbroken, Winless

\* A row that breaks the run or leaves it alone.
LEMMA RunAfterOther ==
    ASSUME NEW l, NEW k \in Nat, ~Won(l, k + 1)
    PROVE  LET none == l[k + 1].result = "none" IN
           /\ Run1(l, k + 1) <=> none /\ Run1(l, k)
           /\ Run2(l, k + 1) <=> none /\ Run2(l, k)
           /\ Run3(l, k + 1) <=> none /\ Run3(l, k)
           /\ WinBy(l, k + 1) <=> WinBy(l, k)
           /\ StreakBy(l, k + 1) <=> StreakBy(l, k)
           /\ ComebackBy(l, k + 1) <=> ComebackBy(l, k)
<1>1. \A i \in 1..k + 1 : i \in 1..k \/ i = k + 1
  OBVIOUS
<1>2. \A i \in 1..k : i \in 1..k + 1
  OBVIOUS
<1>3. l[k + 1].result \in {"won", "none"} <=> l[k + 1].result = "none"
  BY DEF Won
<1>4. \A i \in 1..k + 1 : Unbroken(l, i, k + 1) <=> Unbroken(l, i, k) /\ l[k + 1].result = "none"
  BY <1>3, OneMore
<1>5. \A i \in 1..k + 1 : Won(l, i) => i \in 1..k
  BY <1>1
<1>6. WinBy(l, k + 1) <=> WinBy(l, k)
  BY <1>2, <1>5 DEF WinBy
<1>7. StreakBy(l, k + 1) <=> StreakBy(l, k)
  BY <1>2, <1>5 DEF StreakBy
<1>8. Run1(l, k + 1) <=> l[k + 1].result = "none" /\ Run1(l, k)
  BY <1>2, <1>4, <1>5 DEF Run1
<1>9. Run2(l, k + 1) <=> l[k + 1].result = "none" /\ Run2(l, k)
  BY <1>2, <1>4, <1>5 DEF Run2
<1>10. Run3(l, k + 1) <=> l[k + 1].result = "none" /\ Run3(l, k)
  BY <1>2, <1>4, <1>5 DEF Run3
<1>11. ComebackBy(l, k + 1) <=> ComebackBy(l, k)
  <2>1. ASSUME NEW m \in 1..k + 1, Won(l, m), NEW i \in 1..k + 1, NEW j \in 1..k + 1, i < j, j < m
        PROVE  m \in 1..k /\ i \in 1..k /\ j \in 1..k
    BY <1>5, <2>1
  <2> QED
    BY <1>2, <2>1 DEF ComebackBy
<1> QED
  BY <1>6, <1>7, <1>8, <1>9, <1>10, <1>11

LEMMA RunAfterWin ==
    ASSUME NEW l, NEW k \in Nat, Won(l, k + 1)
    PROVE  /\ Run1(l, k + 1)
           /\ Run2(l, k + 1) <=> Run1(l, k)
           /\ Run3(l, k + 1) <=> Run2(l, k)
           /\ WinBy(l, k + 1)
           /\ StreakBy(l, k + 1) <=> StreakBy(l, k) \/ Run3(l, k + 1)
           /\ ComebackBy(l, k + 1) <=> ComebackBy(l, k) \/ Lost2(l, k)
           /\ ~Lost1(l, k + 1) /\ ~Lost2(l, k + 1)
<1>1. \A i \in 1..k : i \in 1..k + 1 /\ i < k + 1
  OBVIOUS
<1>2. \A i, j \in 1..k + 1 : i < j => i \in 1..k
  OBVIOUS
<1>3. \A i \in 1..k + 1 : (i \in 1..k \/ i = k + 1) /\ k + 1 \in i..k + 1
  OBVIOUS
<1>4. k + 1 \in 1..k + 1
  OBVIOUS
<1>5. \A i \in 1..k + 1 : Unbroken(l, i, k + 1) <=> Unbroken(l, i, k)
  BY OneMore DEF Won
<1>6. \A i \in 1..k + 1 : ~Winless(l, i, k + 1)
  BY OneMore
<1>7. Unbroken(l, k + 1, k + 1)
  BY DEF Unbroken, Won
<1>8. Run1(l, k + 1) /\ WinBy(l, k + 1)
  BY <1>4, <1>7 DEF Run1, WinBy
<1>9. Run2(l, k + 1) <=> Run1(l, k)
  <2>1. ASSUME Run1(l, k) PROVE Run2(l, k + 1)
    BY <1>1, <1>4, <1>5, <2>1 DEF Run1, Run2
  <2>2. ASSUME Run2(l, k + 1) PROVE Run1(l, k)
    BY <1>2, <1>5, <2>2 DEF Run1, Run2
  <2> QED
    BY <2>1, <2>2
<1>10. Run3(l, k + 1) <=> Run2(l, k)
  <2>1. ASSUME Run2(l, k) PROVE Run3(l, k + 1)
    BY <1>1, <1>4, <1>5, <2>1 DEF Run2, Run3
  <2>2. ASSUME Run3(l, k + 1) PROVE Run2(l, k)
    BY <1>2, <1>5, <2>2 DEF Run2, Run3
  <2> QED
    BY <2>1, <2>2
<1>11. StreakBy(l, k + 1) <=> StreakBy(l, k) \/ Run3(l, k + 1)
  <2>1. ASSUME StreakBy(l, k) PROVE StreakBy(l, k + 1)
    BY <1>1, <2>1 DEF StreakBy
  <2>2. ASSUME Run3(l, k + 1) PROVE StreakBy(l, k + 1)
    <3>1. PICK i, j, m \in 1..k + 1 : /\ i < j /\ j < m /\ Won(l, i) /\ Won(l, j) /\ Won(l, m)
                                      /\ Unbroken(l, i, k + 1)
      BY <2>2 DEF Run3
    <3>2. Unbroken(l, i, m)
      BY <3>1 DEF Unbroken
    <3> QED
      BY <3>1, <3>2 DEF StreakBy
  <2>3. ASSUME StreakBy(l, k + 1), ~StreakBy(l, k) PROVE Run3(l, k + 1)
    <3>1. PICK i, j, m \in 1..k + 1 : /\ i < j /\ j < m /\ Won(l, i) /\ Won(l, j) /\ Won(l, m)
                                      /\ Unbroken(l, i, m)
      BY <2>3 DEF StreakBy
    <3>2. m = k + 1
      <4>1. i \in 1..k /\ j \in 1..k
        BY <1>2, <3>1
      <4>2. m \notin 1..k
        BY <2>3, <3>1, <4>1 DEF StreakBy
      <4> QED
        BY <1>3, <4>2
    <3> QED
      BY <3>1, <3>2 DEF Run3
  <2> QED
    BY <2>1, <2>2, <2>3
<1>12. ComebackBy(l, k + 1) <=> ComebackBy(l, k) \/ Lost2(l, k)
  <2>1. ASSUME ComebackBy(l, k) PROVE ComebackBy(l, k + 1)
    BY <1>1, <2>1 DEF ComebackBy
  <2>2. ASSUME Lost2(l, k) PROVE ComebackBy(l, k + 1)
    <3>1. (k + 1) - 1 = k
      OBVIOUS
    <3> QED
      BY <1>1, <1>4, <2>2, <3>1 DEF ComebackBy, Lost2
  <2>3. ASSUME ComebackBy(l, k + 1), ~ComebackBy(l, k) PROVE Lost2(l, k)
    <3>1. PICK i, j, m \in 1..k + 1 : /\ i < j /\ j < m /\ Lost(l, i) /\ Lost(l, j) /\ Won(l, m)
                                      /\ Winless(l, i, m - 1)
      BY <2>3 DEF ComebackBy
    <3>2. i \in 1..k /\ j \in 1..k
      BY <1>2, <3>1
    <3>3. m = k + 1
      <4>1. m \notin 1..k
        BY <2>3, <3>1, <3>2 DEF ComebackBy
      <4> QED
        BY <1>3, <4>1
    <3>4. Winless(l, i, k)
      BY <3>1, <3>3
    <3> QED
      BY <3>1, <3>2, <3>4 DEF Lost2
  <2> QED
    BY <2>1, <2>2, <2>3
<1>13. ~Lost1(l, k + 1) /\ ~Lost2(l, k + 1)
  BY <1>6 DEF Lost1, Lost2
<1> QED
  BY <1>8, <1>9, <1>10, <1>11, <1>12, <1>13

LEMMA LostAfterOther ==
    ASSUME NEW l, NEW k \in Nat, ~Won(l, k + 1)
    PROVE  LET lost == Lost(l, k + 1) IN
           /\ Lost1(l, k + 1) <=> lost \/ Lost1(l, k)
           /\ Lost2(l, k + 1) <=> Lost2(l, k) \/ (lost /\ Lost1(l, k))
<1>1. \A i \in 1..k : i \in 1..k + 1 /\ i < k + 1
  OBVIOUS
<1>2. \A i, j \in 1..k + 1 : i < j => i \in 1..k
  OBVIOUS
<1>3. \A i \in 1..k + 1 : i \in 1..k \/ i = k + 1
  OBVIOUS
<1>4. k + 1 \in 1..k + 1
  OBVIOUS
<1>5. \A i \in 1..k + 1 : Winless(l, i, k + 1) <=> Winless(l, i, k)
  BY OneMore
<1>6. Winless(l, k + 1, k + 1)
  BY DEF Winless
<1>7. Lost1(l, k + 1) <=> Lost(l, k + 1) \/ Lost1(l, k)
  BY <1>1, <1>3, <1>4, <1>5, <1>6 DEF Lost1
<1>8. ASSUME Lost2(l, k) PROVE Lost2(l, k + 1)
  BY <1>1, <1>5, <1>8 DEF Lost2
<1>9. ASSUME Lost(l, k + 1), Lost1(l, k) PROVE Lost2(l, k + 1)
  BY <1>1, <1>4, <1>5, <1>9 DEF Lost1, Lost2
<1>10. ASSUME Lost2(l, k + 1) PROVE Lost2(l, k) \/ (Lost(l, k + 1) /\ Lost1(l, k))
  <2>1. PICK i, j \in 1..k + 1 : i < j /\ Lost(l, i) /\ Lost(l, j) /\ Winless(l, i, k + 1)
    BY <1>10 DEF Lost2
  <2>2. i \in 1..k /\ Winless(l, i, k)
    BY <1>2, <1>5, <2>1
  <2> QED
    BY <1>3, <2>1, <2>2 DEF Lost1, Lost2
<1> QED
  BY <1>7, <1>8, <1>9, <1>10

-----------------------------------------------------------------------------
(* The variables of the pass mean what the rows read so far earn.          *)

\* The variables of the pass after k rows.
Tally(s, l, k) ==
    /\ s.matches = k
    /\ s.wins >= 1 <=> WinBy(l, k)
    /\ s.streak >= 1 <=> Run1(l, k)
    /\ s.streak >= 2 <=> Run2(l, k)
    /\ s.streak >= 3 <=> Run3(l, k)
    /\ s.longest >= 3 <=> StreakBy(l, k)
    /\ s.lossesBefore >= 1 <=> Lost1(l, k)
    /\ s.lossesBefore >= 2 <=> Lost2(l, k)
    /\ s.comeback <=> ComebackBy(l, k)

At(s, b) ==
    CASE b = "first-win"     -> s.firstWinAt
      [] b = "match-diarist" -> s.diaristAt
      [] b = "win-streak-3"  -> s.streakAt
      [] b = "comeback-kid"  -> s.comebackAt

\* at is the time of the first row with which the badge was earned, 0 before.
Dated(at, b, l, k) ==
    /\ at # 0 <=> EarnedBy(b, l, k)
    /\ \A m \in 1..k : EarnedBy(b, l, m) /\ ~EarnedBy(b, l, m - 1) => at = l[m].created

LEMMA EarnedStays ==
    ASSUME NEW l, NEW b \in MatchBadges, NEW k \in Nat, NEW m \in 0..k, EarnedBy(b, l, m)
    PROVE  EarnedBy(b, l, k)
<1>1. \A i \in 1..m : i \in 1..k
  OBVIOUS
<1>2. CASE b = "first-win"
  BY <1>1, <1>2 DEF EarnedBy, WinBy
<1>3. CASE b = "match-diarist"
  BY <1>3, AchievementsAssumption DEF EarnedBy
<1>4. CASE b = "win-streak-3"
  BY <1>1, <1>4 DEF EarnedBy, StreakBy
<1>5. CASE b = "comeback-kid"
  BY <1>1, <1>5 DEF EarnedBy, ComebackBy
<1> QED
  BY <1>2, <1>3, <1>4, <1>5 DEF MatchBadges, Badges

LEMMA RowOf ==
    ASSUME NEW l \in Seq(LogRows), NEW k \in Nat, k + 1 <= Len(l)
    PROVE  l[k + 1] \in LogRows /\ l[k + 1].created # 0
<1>1. k + 1 \in 1..Len(l)
  OBVIOUS
<1>2. l[k + 1] \in LogRows
  BY <1>1
<1> QED
  BY <1>2 DEF LogRows

LEMMA NothingEarnedYet == ASSUME NEW l PROVE Tally(NoStats, l, 0) /\ \A b \in MatchBadges : Dated(At(NoStats, b), b, l, 0)
<1>1. 1..0 = {}
  OBVIOUS
<1>2. /\ ~WinBy(l, 0) /\ ~Run1(l, 0) /\ ~Run2(l, 0) /\ ~Run3(l, 0) /\ ~StreakBy(l, 0)
      /\ ~Lost1(l, 0) /\ ~Lost2(l, 0) /\ ~ComebackBy(l, 0)
  BY <1>1 DEF WinBy, Run1, Run2, Run3, StreakBy, Lost1, Lost2, ComebackBy
<1>3. ~(0 >= Target)
  BY AchievementsAssumption
<1>4. Tally(NoStats, l, 0)
  BY <1>2 DEF Tally, NoStats
<1>5. ASSUME NEW b \in MatchBadges PROVE ~EarnedBy(b, l, 0) /\ At(NoStats, b) = 0
  BY <1>2, <1>3 DEF EarnedBy, At, NoStats, MatchBadges, Badges
<1> QED
  BY <1>1, <1>4, <1>5 DEF Dated

\* One more row dates a badge if and only if it is earned with it.
LEMMA DateStep ==
    ASSUME NEW l \in Seq(LogRows), NEW b \in MatchBadges, NEW k \in Nat, k + 1 <= Len(l), NEW at, Dated(at, b, l, k),
           NEW new, new = IF EarnedBy(b, l, k + 1) /\ ~EarnedBy(b, l, k) THEN l[k + 1].created ELSE at
    PROVE  Dated(new, b, l, k + 1)
<1>1. l[k + 1] \in LogRows /\ l[k + 1].created # 0
  BY RowOf
<1>2. EarnedBy(b, l, k) => EarnedBy(b, l, k + 1)
  BY EarnedStays
<1>3. new # 0 <=> EarnedBy(b, l, k + 1)
  BY <1>1, <1>2 DEF Dated
<1>4. ASSUME NEW m \in 1..k + 1, EarnedBy(b, l, m), ~EarnedBy(b, l, m - 1) PROVE new = l[m].created
  <2>1. CASE m = k + 1
    <3>1. m - 1 = k
      BY <2>1
    <3> QED
      BY <1>4, <2>1, <3>1
  <2>2. CASE m \in 1..k
    <3>1. m \in 0..k
      BY <2>2
    <3>2. EarnedBy(b, l, k)
      BY <1>4, <3>1, EarnedStays
    <3> QED
      BY <1>4, <2>2, <3>2 DEF Dated
  <2>3. m = k + 1 \/ m \in 1..k
    OBVIOUS
  <2> QED
    BY <2>1, <2>2, <2>3
<1> QED
  BY <1>3, <1>4 DEF Dated

\* Reading one row keeps the tally and dates what it earns.
LEMMA TallyStep ==
    ASSUME NEW l \in Seq(LogRows), NEW k \in Nat, k + 1 <= Len(l),
           NEW s \in RawStats, Tally(s, l, k),
           \A b \in MatchBadges : At(s, b) # 0 <=> EarnedBy(b, l, k)
    PROVE  LET n == ReadRow(s, l[k + 1]) IN
           /\ Tally(n, l, k + 1)
           /\ \A b \in MatchBadges :
                At(n, b) = IF EarnedBy(b, l, k + 1) /\ ~EarnedBy(b, l, k)
                           THEN l[k + 1].created ELSE At(s, b)
<1> DEFINE m == l[k + 1]
           c == Counted(s, m)
           n == ReadRow(s, m)
<1>1. m \in LogRows /\ m.created # 0
  BY RowOf
<1>2. /\ c \in RawStats /\ c.matches = k + 1
      /\ c.diaristAt = IF k + 1 = Target THEN m.created ELSE s.diaristAt
      /\ c.wins = s.wins /\ c.longest = s.longest /\ c.streak = s.streak
      /\ c.comeback = s.comeback /\ c.lossesBefore = s.lossesBefore
      /\ c.firstWinAt = s.firstWinAt /\ c.streakAt = s.streakAt /\ c.comebackAt = s.comebackAt
  BY <1>1, CountedFields DEF Tally
<1>3. k + 1 = Target <=> k + 1 >= Target /\ ~(k >= Target)
  BY AchievementsAssumption
<1>4. s.streak \in Nat /\ s.longest \in Nat /\ s.lossesBefore \in Nat /\ s.wins \in Nat
  BY DEF RawStats
<1>5. /\ s.firstWinAt # 0 <=> WinBy(l, k)
      /\ s.streakAt # 0 <=> StreakBy(l, k)
  BY DEF MatchBadges, Badges, At, EarnedBy
<1>6. CASE m.result = "won"
  <2>1. n = Win(c, m) /\ Won(l, k + 1)
    BY <1>6 DEF ReadRow, Won
  <2>2. LET back == s.lossesBefore >= 2 /\ ~s.comeback IN
        /\ n.matches = k + 1 /\ n.diaristAt = c.diaristAt
        /\ n.wins = s.wins + 1
        /\ n.firstWinAt = IF s.firstWinAt = 0 THEN m.created ELSE s.firstWinAt
        /\ n.streak = s.streak + 1
        /\ n.longest = IF s.streak + 1 > s.longest THEN s.streak + 1 ELSE s.longest
        /\ n.streakAt = IF s.streak + 1 = 3 /\ s.streakAt = 0 THEN m.created ELSE s.streakAt
        /\ n.comeback = (s.comeback \/ back)
        /\ n.comebackAt = IF back THEN m.created ELSE s.comebackAt
        /\ n.lossesBefore = 0
    <3> HIDE DEF c, m, n
    <3> QED
      BY <1>1, <1>2, <2>1, WinFields
  <2> HIDE DEF c, m, n
  <2>3. /\ Run1(l, k + 1) /\ WinBy(l, k + 1)
        /\ Run2(l, k + 1) <=> Run1(l, k)
        /\ Run3(l, k + 1) <=> Run2(l, k)
        /\ StreakBy(l, k + 1) <=> StreakBy(l, k) \/ Run3(l, k + 1)
        /\ ComebackBy(l, k + 1) <=> ComebackBy(l, k) \/ Lost2(l, k)
        /\ ~Lost1(l, k + 1) /\ ~Lost2(l, k + 1)
    BY <2>1, RunAfterWin
  <2>4. Tally(n, l, k + 1)
    <3>1. n.streak >= 1 /\ n.wins >= 1 /\ ~(n.lossesBefore >= 1) /\ ~(n.lossesBefore >= 2)
      BY <1>4, <2>2
    <3>2. (n.streak >= 2 <=> s.streak >= 1) /\ (n.streak >= 3 <=> s.streak >= 2)
      BY <1>4, <2>2
    <3>3. n.longest >= 3 <=> s.longest >= 3 \/ n.streak >= 3
      BY <1>4, <2>2
    <3>4. n.comeback <=> s.comeback \/ s.lossesBefore >= 2
      BY <2>2
    <3> QED
      BY <2>2, <2>3, <3>1, <3>2, <3>3, <3>4 DEF Tally
  <2>5. Run3(l, k) => StreakBy(l, k)
    BY DEF Run3, StreakBy, Unbroken
  <2>6. s.streak + 1 = 3 /\ s.streakAt = 0 <=> StreakBy(l, k + 1) /\ ~StreakBy(l, k)
    BY <1>4, <1>5, <2>3, <2>5 DEF Tally
  <2>7. ASSUME NEW b \in MatchBadges
        PROVE  At(n, b) = IF EarnedBy(b, l, k + 1) /\ ~EarnedBy(b, l, k) THEN m.created ELSE At(s, b)
    <3>1. CASE b = "first-win"
      BY <1>5, <2>2, <2>3, <3>1 DEF At, EarnedBy
    <3>2. CASE b = "match-diarist"
      BY <1>2, <1>3, <2>2, <3>2 DEF At, EarnedBy
    <3>3. CASE b = "win-streak-3"
      BY <2>2, <2>6, <3>3 DEF At, EarnedBy
    <3>4. CASE b = "comeback-kid"
      BY <1>4, <2>2, <2>3, <3>4 DEF At, EarnedBy, Tally
    <3> QED
      BY <3>1, <3>2, <3>3, <3>4 DEF MatchBadges, Badges
  <2> QED
    BY <2>4, <2>7 DEF m, n
<1>7. CASE m.result # "won"
  <2> DEFINE lost == m.result = "lost"
             none == m.result = "none"
  <2>1. n = IF lost THEN Lose(c) ELSE IF none THEN c ELSE Draw(c)
    BY <1>1, <1>7 DEF ReadRow, LogRows, Results
  <2>2. /\ n.matches = k + 1 /\ n.diaristAt = c.diaristAt
        /\ n.wins = s.wins /\ n.longest = s.longest /\ n.comeback = s.comeback
        /\ n.firstWinAt = s.firstWinAt /\ n.streakAt = s.streakAt /\ n.comebackAt = s.comebackAt
        /\ n.streak = IF none THEN s.streak ELSE 0
        /\ n.lossesBefore = IF lost THEN s.lossesBefore + 1 ELSE s.lossesBefore
    <3> HIDE DEF c, m, n
    <3>1. CASE lost
      BY <1>2, <2>1, <3>1, LoseFields
    <3>2. CASE ~lost
      BY <1>2, <2>1, <3>2, DrawFields
    <3> QED
      BY <3>1, <3>2
  <2>3. LET rest == l[k + 1].result = "none" IN
        /\ Run1(l, k + 1) <=> rest /\ Run1(l, k)
        /\ Run2(l, k + 1) <=> rest /\ Run2(l, k)
        /\ Run3(l, k + 1) <=> rest /\ Run3(l, k)
        /\ WinBy(l, k + 1) <=> WinBy(l, k)
        /\ StreakBy(l, k + 1) <=> StreakBy(l, k)
        /\ ComebackBy(l, k + 1) <=> ComebackBy(l, k)
    BY <1>7, RunAfterOther DEF Won
  <2>4. /\ Lost1(l, k + 1) <=> lost \/ Lost1(l, k)
        /\ Lost2(l, k + 1) <=> Lost2(l, k) \/ (lost /\ Lost1(l, k))
    BY <1>7, LostAfterOther DEF Won, Lost
  <2>5. (l[k + 1].result = "none") <=> none
    OBVIOUS
  <2> HIDE DEF c, m, n, lost, none
  <2>6. Tally(n, l, k + 1)
    <3>1. Lost2(l, k) => Lost1(l, k)
      BY <1>4 DEF Tally
    <3> QED
      BY <1>4, <2>2, <2>3, <2>4, <2>5, <3>1 DEF Tally
  <2>7. ASSUME NEW b \in MatchBadges
        PROVE  At(n, b) = IF EarnedBy(b, l, k + 1) /\ ~EarnedBy(b, l, k) THEN m.created ELSE At(s, b)
    <3>1. CASE b = "match-diarist"
      BY <1>2, <1>3, <2>2, <3>1 DEF At, EarnedBy
    <3>2. CASE b # "match-diarist"
      BY <2>2, <2>3, <3>2 DEF At, EarnedBy, MatchBadges, Badges
    <3> QED
      BY <3>1, <3>2
  <2> QED
    BY <2>6, <2>7 DEF m, n
<1> QED
  BY <1>6, <1>7

\* After the pass, the variables say what all the rows earn, and when.
LEMMA PassFinds ==
    ASSUME NEW l \in Seq(LogRows)
    PROVE  LET s == FoldLeft(ReadRow, NoStats, l) IN
           /\ s \in RawStats /\ Tally(s, l, Len(l))
           /\ \A b \in MatchBadges : Dated(At(s, b), b, l, Len(l))
<1>1. PICK h : Pass(l, h) /\ FoldLeft(ReadRow, NoStats, l) = h[Len(l)]
  BY FoldIsPass
<1> DEFINE Good(k) == Tally(h[k], l, k) /\ \A b \in MatchBadges : Dated(At(h[k], b), b, l, k)
           T == {k \in 0..Len(l) : Good(k)}
<1>2. Len(l) \in Nat /\ Len(l) \in 0..Len(l) /\ 0 \in 0..Len(l)
  OBVIOUS
<1>3. Good(0)
  <2>1. h[0] = NoStats
    BY <1>1 DEF Pass
  <2> QED
    BY <2>1, NothingEarnedYet
<1>4. ASSUME NEW k \in 0..(Len(l) - 1), Good(k) PROVE Good(k + 1)
  <2>1. k \in Nat /\ k + 1 <= Len(l) /\ k \in 0..Len(l)
    BY <1>2
  <2>2. h[k] \in RawStats /\ h[k + 1] = ReadRow(h[k], l[k + 1])
    BY <1>1, <2>1 DEF Pass
  <2>3. \A b \in MatchBadges : At(h[k], b) # 0 <=> EarnedBy(b, l, k)
    BY <1>4 DEF Dated
  <2>4. Tally(h[k + 1], l, k + 1)
    BY <1>4, <2>1, <2>2, <2>3, TallyStep
  <2>5. ASSUME NEW b \in MatchBadges PROVE Dated(At(h[k + 1], b), b, l, k + 1)
    <3>1. At(h[k + 1], b) = IF EarnedBy(b, l, k + 1) /\ ~EarnedBy(b, l, k)
                            THEN l[k + 1].created ELSE At(h[k], b)
      BY <1>4, <2>1, <2>2, <2>3, TallyStep
    <3> QED
      BY <1>4, <2>1, <3>1, DateStep
  <2> QED
    BY <2>4, <2>5
<1>5. 0..Len(l) \subseteq T
  <2>1. 0 \in T /\ \A k \in 0..(Len(l) - 1) : k \in T => k + 1 \in T
    <3> HIDE DEF Good
    <3>1. \A k \in 0..(Len(l) - 1) : k + 1 \in 0..Len(l)
      BY <1>2
    <3> QED
      BY <1>2, <1>3, <1>4, <3>1
  <2> HIDE DEF T
  <2> QED
    BY <1>2, <2>1, InductionUpTo
<1>6. Good(Len(l)) /\ h[Len(l)] \in RawStats
  BY <1>1, <1>2, <1>5 DEF Pass
<1> QED
  BY <1>1, <1>6

\* Earned, asked of the first n rows.
LEMMA EarnedIsEarnedBy ==
    ASSUME NEW l \in Seq(LogRows), NEW b \in MatchBadges, NEW n \in 0..Len(l)
    PROVE  Earned(b, SubSeq(l, 1, n)) <=> EarnedBy(b, l, n)
<1> DEFINE p == SubSeq(l, 1, n)
<1>1. Len(p) = n /\ DOMAIN p = 1..n /\ \A i \in 1..n : p[i] = l[i]
  OBVIOUS
<1> HIDE DEF p
<1>2. \A i, k \in 1..n : \A w \in i..k : w \in 1..n
  OBVIOUS
<1>3. \A i, k \in 1..n : \A w \in i..k - 1 : w \in 1..n
  OBVIOUS
<1>4. CASE b = "first-win"
  BY <1>1, <1>4 DEF Earned, EarnedBy, WinBy, Won
<1>5. CASE b = "match-diarist"
  BY <1>1, <1>5 DEF Earned, EarnedBy
<1>6. CASE b = "win-streak-3"
  <2>1. Earned(b, p) <=> \E i, j, k \in 1..n :
          /\ i < j /\ j < k /\ p[i].result = "won" /\ p[j].result = "won" /\ p[k].result = "won"
          /\ \A w \in i..k : p[w].result \in {"won", "none"}
    BY <1>1, <1>6 DEF Earned
  <2>2. EarnedBy(b, l, n) <=> \E i, j, k \in 1..n :
          /\ i < j /\ j < k /\ l[i].result = "won" /\ l[j].result = "won" /\ l[k].result = "won"
          /\ \A w \in i..k : l[w].result \in {"won", "none"}
    BY <1>6 DEF EarnedBy, StreakBy, Won, Unbroken
  <2>3. \A i, k \in 1..n : (\A w \in i..k : p[w].result \in {"won", "none"})
                       <=> (\A w \in i..k : l[w].result \in {"won", "none"})
    BY <1>1, <1>2
  <2> QED
    BY <1>1, <2>1, <2>2, <2>3 DEF p
<1>7. CASE b = "comeback-kid"
  <2>1. Earned(b, p) <=> \E i, j, k \in 1..n :
          /\ i < j /\ j < k /\ p[i].result = "lost" /\ p[j].result = "lost" /\ p[k].result = "won"
          /\ \A w \in i..k - 1 : p[w].result # "won"
    BY <1>1, <1>7 DEF Earned
  <2>2. EarnedBy(b, l, n) <=> \E i, j, k \in 1..n :
          /\ i < j /\ j < k /\ l[i].result = "lost" /\ l[j].result = "lost" /\ l[k].result = "won"
          /\ \A w \in i..k - 1 : l[w].result # "won"
    BY <1>7 DEF EarnedBy, ComebackBy, Won, Lost, Winless
  <2>3. \A i, k \in 1..n : (\A w \in i..k - 1 : p[w].result # "won")
                       <=> (\A w \in i..k - 1 : l[w].result # "won")
    BY <1>1, <1>3
  <2> QED
    BY <1>1, <2>1, <2>2, <2>3 DEF p
<1> QED
  BY <1>4, <1>5, <1>6, <1>7 DEF MatchBadges, Badges, p

\* What compute shows of the badges for matches.
LEMMA BadgesShown ==
    ASSUME NEW l \in Seq(LogRows), NEW b \in MatchBadges
    PROVE  LET badge == compute(fillMatchStats(l))[b] IN
           /\ badge.unlocked <=> EarnedBy(b, l, Len(l))
           /\ Dated(badge.at, b, l, Len(l))
<1> DEFINE s == FoldLeft(ReadRow, NoStats, l)
           f == fillMatchStats(l)
           badge == compute(f)[b]
<1>1. /\ s \in RawStats /\ Tally(s, l, Len(l))
      /\ Dated(At(s, b), b, l, Len(l))
  BY PassFinds
<1> HIDE DEF s
<1>2. /\ f.matches = s.matches /\ f.wins = s.wins /\ f.longest = s.longest
      /\ f.comeback = s.comeback /\ f.firstWinAt = s.firstWinAt
      /\ f.diaristAt = s.diaristAt /\ f.streakAt = s.streakAt
      /\ f.comebackAt = s.comebackAt
  BY <1>1 DEF fillMatchStats, RawStats, s
<1> HIDE DEF f
<1>3. badge.at = At(s, b)
  BY <1>2 DEF compute, At, MatchBadges, Badges
<1>4. badge.unlocked <=> EarnedBy(b, l, Len(l))
  <2>1. CASE b = "first-win"
    BY <1>1, <1>2, <2>1 DEF compute, EarnedBy, Tally, Badges
  <2>2. CASE b = "match-diarist"
    BY <1>1, <1>2, <2>2 DEF compute, EarnedBy, Tally, Badges
  <2>3. CASE b = "win-streak-3"
    BY <1>1, <1>2, <2>3 DEF compute, EarnedBy, Tally, Badges
  <2>4. CASE b = "comeback-kid"
    BY <1>1, <1>2, <2>4 DEF compute, EarnedBy, Tally, Badges
  <2> QED
    BY <2>1, <2>2, <2>3, <2>4 DEF MatchBadges, Badges
<1> QED
  BY <1>1, <1>3, <1>4 DEF f

\* Of any log, the pass finds the badges that are earned, and dates them.
FoundByPass(l) ==
    LET badges == compute(fillMatchStats(l)) IN
    \A b \in MatchBadges :
      LET met == {n \in DOMAIN l : Earned(b, SubSeq(l, 1, n))} IN
      /\ badges[b].unlocked <=> met # {}
      /\ badges[b].at = IF met = {} THEN 0 ELSE l[Min(met)].created

LEMMA PassFindsBadges == ASSUME NEW l \in Seq(LogRows) PROVE FoundByPass(l)
<1> DEFINE badges == compute(fillMatchStats(l))
<1> SUFFICES ASSUME NEW b \in MatchBadges
             PROVE  LET met == {n \in DOMAIN l : Earned(b, SubSeq(l, 1, n))} IN
                    /\ badges[b].unlocked <=> met # {}
                    /\ badges[b].at = IF met = {} THEN 0 ELSE l[Min(met)].created
  BY DEF FoundByPass
<1> DEFINE met == {n \in DOMAIN l : Earned(b, SubSeq(l, 1, n))}
           size == Len(l)
<1>1. size \in Nat /\ DOMAIN l = 1..size
  OBVIOUS
<1>2. met = {n \in 1..size : EarnedBy(b, l, n)}
  BY <1>1, EarnedIsEarnedBy
<1>3. ~EarnedBy(b, l, 0)
  <2>1. Dated(At(NoStats, b), b, l, 0) /\ At(NoStats, b) = 0
    BY NothingEarnedYet DEF At, NoStats, MatchBadges, Badges
  <2> QED
    BY <2>1 DEF Dated
<1>4. badges[b].unlocked <=> EarnedBy(b, l, size)
  BY BadgesShown
<1>5. Dated(badges[b].at, b, l, size)
  BY BadgesShown
<1> HIDE DEF badges, met, size
<1>6. met # {} <=> EarnedBy(b, l, size)
  <2>1. ASSUME NEW n \in met PROVE EarnedBy(b, l, size)
    BY <1>1, <1>2, <2>1, EarnedStays
  <2>2. ASSUME EarnedBy(b, l, size) PROVE size \in met
    BY <1>1, <1>2, <1>3, <2>2
  <2> QED
    BY <2>1, <2>2
<1>7. ASSUME met # {} PROVE badges[b].at = l[Min(met)].created
  <2>1. met \in SUBSET Nat
    BY <1>1, <1>2
  <2>2. PICK n \in 1..size : n = Min(met) /\ n \in met /\ \A k \in met : n <= k
    BY <1>2, <1>7, <2>1, MinIsLeast
  <2>3. EarnedBy(b, l, n)
    BY <1>2, <2>2
  <2>4. ~EarnedBy(b, l, n - 1)
    <3>1. CASE n = 1
      BY <1>3, <3>1
    <3>2. CASE n # 1
      <4>1. n - 1 \in 1..size /\ ~(n <= n - 1)
        BY <1>1, <3>2
      <4>2. n - 1 \notin met
        BY <2>2, <4>1
      <4> QED
        BY <1>2, <4>1, <4>2
    <3> QED
      BY <3>1, <3>2
  <2> QED
    BY <1>5, <2>2, <2>3, <2>4 DEF Dated
<1>8. ASSUME met = {} PROVE badges[b].at = 0
  BY <1>5, <1>6, <1>8 DEF Dated
<1> QED
  BY <1>4, <1>6, <1>7, <1>8 DEF met, badges

\* No statistic of the pass is above the rows read, no time above those of the rows.
Small(s, k) ==
    /\ s.matches <= k /\ s.wins <= k /\ s.longest <= k /\ s.streak <= k
    /\ \A b \in MatchBadges : At(s, b) \in Times

LEMMA PassIsSmall ==
    ASSUME NEW l \in Seq(LogRows)
    PROVE  Small(FoldLeft(ReadRow, NoStats, l), Len(l))
<1>1. PICK h : Pass(l, h) /\ FoldLeft(ReadRow, NoStats, l) = h[Len(l)]
  BY FoldIsPass
<1> DEFINE T == {k \in 0..Len(l) : Small(h[k], k)}
<1>2. Len(l) \in Nat /\ Len(l) \in 0..Len(l) /\ 0 \in 0..Len(l) /\ MaxRows \in Nat
  BY AchievementsAssumption
<1>3. Small(h[0], 0)
  BY <1>1, <1>2 DEF Pass, Small, At, NoStats, Times, MatchBadges, Badges
<1>4. ASSUME NEW k \in 0..(Len(l) - 1), Small(h[k], k) PROVE Small(h[k + 1], k + 1)
  <2> DEFINE s == h[k]
             m == l[k + 1]
             c == Counted(s, m)
             n == ReadRow(s, m)
  <2>1. k \in Nat /\ k + 1 <= Len(l) /\ k \in 0..Len(l)
    BY <1>2
  <2>2. s \in RawStats /\ h[k + 1] = n
    BY <1>1, <2>1 DEF Pass
  <2>3. m \in LogRows /\ m.created \in Times
    <3>1. m \in LogRows
      BY <2>1, RowOf
    <3> HIDE DEF m
    <3> QED
      BY <1>2, <3>1 DEF LogRows, Times
  <2>4. /\ s.matches <= k /\ s.wins <= k /\ s.longest <= k /\ s.streak <= k
        /\ s.firstWinAt \in Times /\ s.diaristAt \in Times
        /\ s.streakAt \in Times /\ s.comebackAt \in Times
        /\ s.matches \in Nat /\ s.wins \in Nat /\ s.longest \in Nat /\ s.streak \in Nat
    BY <1>4, <2>2 DEF Small, At, MatchBadges, Badges, RawStats
  <2> HIDE DEF s, m
  <2>5. /\ c \in RawStats /\ c.matches <= k + 1 /\ c.wins <= k /\ c.longest <= k /\ c.streak <= k
        /\ c.firstWinAt \in Times /\ c.diaristAt \in Times
        /\ c.streakAt \in Times /\ c.comebackAt \in Times
        /\ c.matches \in Nat /\ c.wins \in Nat /\ c.longest \in Nat /\ c.streak \in Nat
    <3>1. /\ c \in RawStats /\ c.matches = s.matches + 1
          /\ c.diaristAt = IF s.matches + 1 = Target THEN m.created ELSE s.diaristAt
          /\ c.wins = s.wins /\ c.longest = s.longest /\ c.streak = s.streak
          /\ c.firstWinAt = s.firstWinAt /\ c.streakAt = s.streakAt /\ c.comebackAt = s.comebackAt
      BY <2>2, <2>3, CountedFields DEF s
    <3> HIDE DEF c
    <3> QED
      BY <2>1, <2>3, <2>4, <3>1
  <2> HIDE DEF c
  <2>6. n = Win(c, m) \/ n = Lose(c) \/ n = Draw(c) \/ n = c
    BY <2>3 DEF ReadRow, LogRows, Results, c
  <2> HIDE DEF n
  <2>7. /\ n.matches <= k + 1 /\ n.wins <= k + 1 /\ n.longest <= k + 1 /\ n.streak <= k + 1
        /\ n.firstWinAt \in Times /\ n.diaristAt \in Times
        /\ n.streakAt \in Times /\ n.comebackAt \in Times
    <3>1. CASE n = Win(c, m)
      <4> DEFINE back == c.lossesBefore >= 2 /\ ~c.comeback
      <4>1. /\ n.matches = c.matches /\ n.diaristAt = c.diaristAt /\ n.wins = c.wins + 1
            /\ n.firstWinAt = IF c.firstWinAt = 0 THEN m.created ELSE c.firstWinAt
            /\ n.streak = c.streak + 1
            /\ n.longest = IF c.streak + 1 > c.longest THEN c.streak + 1 ELSE c.longest
            /\ n.streakAt = IF c.streak + 1 = 3 /\ c.streakAt = 0 THEN m.created ELSE c.streakAt
            /\ n.comebackAt = IF back THEN m.created ELSE c.comebackAt
        BY <2>3, <2>5, <3>1, WinFields
      <4> HIDE DEF back
      <4>2. n.matches <= k + 1 /\ n.wins <= k + 1 /\ n.longest <= k + 1 /\ n.streak <= k + 1
        BY <2>1, <2>5, <4>1
      <4> QED
        BY <2>3, <2>5, <4>1, <4>2
    <3>2. CASE n = Lose(c)
      BY <2>1, <2>5, <3>2, LoseFields
    <3>3. CASE n = Draw(c)
      BY <2>1, <2>5, <3>3, DrawFields
    <3>4. CASE n = c
      BY <2>1, <2>5, <3>4
    <3> QED
      BY <2>6, <3>1, <3>2, <3>3, <3>4
  <2> QED
    BY <2>2, <2>7 DEF Small, At, MatchBadges, Badges
<1>5. 0..Len(l) \subseteq T
  <2>1. 0 \in T /\ \A k \in 0..(Len(l) - 1) : k \in T => k + 1 \in T
    <3>1. \A k \in 0..(Len(l) - 1) : k + 1 \in 0..Len(l)
      BY <1>2
    <3> QED
      BY <1>2, <1>3, <1>4, <3>1
  <2> HIDE DEF T
  <2> QED
    BY <1>2, <2>1, InductionUpTo
<1> QED
  BY <1>1, <1>2, <1>5

\* The statistics of the matches, as a look takes them over.
LEMMA MatchStats ==
    ASSUME NEW l \in Seq(LogRows), Len(l) <= MaxRows
    PROVE  LET m == fillMatchStats(l) IN
           /\ m.matches \in Times /\ m.wins \in Times /\ m.longest \in Times /\ m.comeback \in BOOLEAN
           /\ m.firstWinAt \in Times /\ m.diaristAt \in Times
           /\ m.streakAt \in Times /\ m.comebackAt \in Times
           /\ m.wins >= 1 <=> m.firstWinAt # 0
           /\ m.matches >= Target <=> m.diaristAt # 0
           /\ m.longest >= 3 <=> m.streakAt # 0
           /\ m.comeback <=> m.comebackAt # 0
<1> DEFINE s == FoldLeft(ReadRow, NoStats, l)
           m == fillMatchStats(l)
<1>1. s \in RawStats /\ Small(s, Len(l))
  BY PassFinds, PassIsSmall
<1>2. Len(l) \in Nat /\ MaxRows \in Nat
  BY AchievementsAssumption
<1>3. /\ m.matches = s.matches /\ m.wins = s.wins /\ m.longest = s.longest
      /\ m.comeback = s.comeback /\ m.firstWinAt = s.firstWinAt
      /\ m.diaristAt = s.diaristAt /\ m.streakAt = s.streakAt
      /\ m.comebackAt = s.comebackAt
  <2> HIDE DEF s
  <2> QED
    BY <1>1 DEF fillMatchStats, RawStats, s
<1>4. \A b \in MatchBadges : compute(m)[b].unlocked <=> compute(m)[b].at # 0
  BY BadgesShown DEF Dated
<1> HIDE DEF s, m
<1>5. /\ s.matches \in Times /\ s.wins \in Times /\ s.longest \in Times /\ s.comeback \in BOOLEAN
      /\ s.firstWinAt \in Times /\ s.diaristAt \in Times
      /\ s.streakAt \in Times /\ s.comebackAt \in Times
  <2>1. /\ s.firstWinAt \in Times /\ s.diaristAt \in Times
        /\ s.streakAt \in Times /\ s.comebackAt \in Times
    BY <1>1 DEF Small, At, MatchBadges, Badges, s
  <2>2. /\ s.matches \in Nat /\ s.wins \in Nat /\ s.longest \in Nat /\ s.comeback \in BOOLEAN
        /\ s.matches <= Len(l) /\ s.wins <= Len(l) /\ s.longest <= Len(l)
    BY <1>1 DEF Small, RawStats, s
  <2> QED
    BY <1>2, <2>1, <2>2 DEF Times
<1>6. /\ m.wins >= 1 <=> m.firstWinAt # 0
      /\ m.matches >= Target <=> m.diaristAt # 0
      /\ m.longest >= 3 <=> m.streakAt # 0
      /\ m.comeback <=> m.comebackAt # 0
  <2>1. m.wins >= 1 <=> m.firstWinAt # 0
    BY <1>4 DEF compute, MatchBadges, Badges
  <2>2. m.matches >= Target <=> m.diaristAt # 0
    BY <1>4 DEF compute, MatchBadges, Badges
  <2>3. m.longest >= 3 <=> m.streakAt # 0
    BY <1>4 DEF compute, MatchBadges, Badges
  <2>4. m.comeback <=> m.comebackAt # 0
    BY <1>4 DEF compute, MatchBadges, Badges
  <2> QED
    BY <2>1, <2>2, <2>3, <2>4
<1> QED
  BY <1>3, <1>5, <1>6 DEF m

LEMMA InsertedLen ==
    ASSUME NEW S, NEW s \in Seq(S), NEW e \in S, NEW i \in 1..Len(s) + 1
    PROVE  /\ Len(InsertAt(s, i, e)) = Len(s) + 1
           /\ \A k \in 1..Len(s) : \E j \in 1..Len(s) + 1 : InsertAt(s, i, e)[j] = s[k]
<1> DEFINE a == SubSeq(s, 1, i - 1)
           b == SubSeq(s, i, Len(s))
           c == a \o <<e>>
           d == c \o b
<1>1. /\ a \in Seq(S) /\ Len(a) = i - 1 /\ \A k \in 1..i - 1 : a[k] = s[k]
      /\ b \in Seq(S) /\ Len(b) = Len(s) - i + 1 /\ \A k \in 1..Len(b) : b[k] = s[i + k - 1]
      /\ <<e>> \in Seq(S) /\ Len(<<e>>) = 1
  OBVIOUS
<1>2. InsertAt(s, i, e) = d
  BY DEF InsertAt
<1> HIDE DEF a, b
<1>3. c \in Seq(S) /\ Len(c) = i /\ \A k \in 1..i : c[k] = IF k <= i - 1 THEN a[k] ELSE <<e>>[k - (i - 1)]
  BY <1>1, ConcatProperties
<1> HIDE DEF c
<1>4. Len(d) = i + Len(b) /\ \A k \in 1..i + Len(b) : d[k] = IF k <= i THEN c[k] ELSE b[k - i]
  BY <1>1, <1>3, ConcatProperties
<1> HIDE DEF d
<1>5. Len(d) = Len(s) + 1
  BY <1>1, <1>4
<1>6. ASSUME NEW k \in 1..Len(s) PROVE \E j \in 1..Len(s) + 1 : d[j] = s[k]
  <2>1. CASE k <= i - 1
    <3>1. k \in 1..i /\ k \in 1..i + Len(b) /\ k <= i /\ k \in 1..i - 1 /\ k \in 1..Len(s) + 1
      BY <1>1, <2>1
    <3>2. d[k] = c[k] /\ c[k] = a[k] /\ a[k] = s[k]
      BY <1>1, <1>3, <1>4, <2>1, <3>1
    <3> QED
      BY <3>1, <3>2
  <2>2. CASE ~(k <= i - 1)
    <3>1. PICK j \in 1..Len(s) + 1, n \in 1..Len(b) :
            j = k + 1 /\ n = j - i /\ i + n - 1 = k /\ j \in 1..i + Len(b) /\ ~(j <= i)
      BY <1>1, <2>2
    <3>2. d[j] = b[n] /\ b[n] = s[k]
      <4>1. d[j] = b[n]
        BY <1>4, <3>1
      <4>2. b[n] = s[i + n - 1]
        BY <1>1
      <4> QED
        BY <3>1, <4>1, <4>2
    <3> QED
      BY <3>1, <3>2
  <2> QED
    BY <2>1, <2>2
<1> QED
  BY <1>2, <1>5, <1>6

-----------------------------------------------------------------------------
(* Types and bounds.                                                       *)

Submitting(p) == p \in {"questions", "save"}

RowsInv ==
    /\ logs \in Seq(LogRows) /\ messages \in Nat
    /\ Len(logs) + messages + Len(attempts) + Submits <= MaxRows
    /\ Len(attempts) + Submits <= MaxAttempts
    /\ \A r \in Reqs : req[r].from \in 1..MaxPapers /\ req[r].after \in 0..MaxAttempts
    /\ told \in Answers

LEMMA SubmitsIsNat == ASSUME ExamInv PROVE Submits \in Nat /\ Len(attempts) \in Nat
<1>1. {r \in Reqs : pc[r] \in {"questions", "save"}} \subseteq Reqs
  OBVIOUS
<1>2. Submits \in Nat
  BY <1>1, ExamAssumption, FS_Subset, FS_CardinalityType DEF Submits
<1> QED
  BY <1>2 DEF ExamInv

\* How many papers are handed in, after one request has gone on.
LEMMA SubmitsMove ==
    ASSUME ExamInv, NEW r \in Reqs, NEW p, pc' = [pc EXCEPT ![r] = p]
    PROVE  /\ Submits' \in Nat
           /\ Submitting(p) /\ ~Submitting(pc[r]) => Submits' = Submits + 1
           /\ ~Submitting(p) /\ Submitting(pc[r]) => Submits' = Submits - 1
           /\ (Submitting(p) <=> Submitting(pc[r])) => Submits' = Submits
<1> DEFINE S == {x \in Reqs : Submitting(pc[x])}
           T == {x \in Reqs : Submitting(pc'[x])}
<1>1. Submits = Cardinality(S) /\ Submits' = Cardinality(T)
  BY DEF Submits, Submitting
<1>2. pc'[r] = p /\ \A x \in Reqs : x # r => pc'[x] = pc[x]
  BY DEF ExamInv
<1>3. S \subseteq Reqs /\ IsFiniteSet(S) /\ Cardinality(S) \in Nat
  BY ExamAssumption, FS_Subset, FS_CardinalityType
<1>7. Submits' \in Nat
  <2>1. T \subseteq Reqs
    OBVIOUS
  <2> QED
    BY <1>1, <2>1, ExamAssumption, FS_Subset, FS_CardinalityType
<1>4. CASE Submitting(p) /\ ~Submitting(pc[r])
  <2>1. T = S \cup {r} /\ r \notin S
    BY <1>2, <1>4
  <2> QED
    BY <1>1, <1>3, <1>4, <2>1, FS_AddElement
<1>5. CASE ~Submitting(p) /\ Submitting(pc[r])
  <2>1. T = S \ {r} /\ r \in S
    BY <1>2, <1>5
  <2> HIDE DEF S, T
  <2>2. Cardinality(T) = Cardinality(S) - 1
    BY <1>3, <2>1, FS_RemoveElement
  <2> QED
    BY <1>1, <1>3, <1>5, <1>7, <2>2
<1>6. CASE Submitting(p) <=> Submitting(pc[r])
  <2>1. T = S
    BY <1>2, <1>6
  <2> QED
    BY <1>1, <1>3, <1>6, <2>1
<1> QED
  BY <1>4, <1>5, <1>6, <1>7

\* Refusing stores nothing and leaves no paper handed in for the request.
LEMMA AnswerRows ==
    ASSUME ExamInv, NEW r \in Reqs, NEW code, NEW attempt \in Attempts, NEW review \in Sheets,
           code \in {"none", "created", "ok", "not_found", "bad_pick", "error"},
           Answer(r, code, attempt, review)
    PROVE  /\ Submits' \in Nat /\ Submits' <= Submits
           /\ Submitting(pc[r]) => Submits' = Submits - 1
           /\ told' \in Answers
           /\ \A x \in Reqs : req'[x] = NoRequest \/ req'[x] = req[x]
<1>1. Submits \in Nat
  BY SubmitsIsNat
<1>2. pc' = [pc EXCEPT ![r] = "idle"] /\ ~Submitting("idle")
  BY DEF Answer, Submitting
<1>3. /\ Submits' \in Nat /\ Submits' <= Submits
      /\ Submitting(pc[r]) => Submits' = Submits - 1
  <2>1. /\ Submits' \in Nat
        /\ Submitting(pc[r]) => Submits' = Submits - 1
        /\ ~Submitting(pc[r]) => Submits' = Submits
    BY <1>2, SubmitsMove
  <2> QED
    BY <1>1, <2>1
<1>4. req[r].seeded \in BOOLEAN
  BY DEF ExamInv, Shapes
<1>5. told' \in Answers
  BY <1>4 DEF Answer, Answers
<1>6. \A x \in Reqs : req'[x] = NoRequest \/ req'[x] = req[x]
  BY DEF Answer, ExamInv
<1> QED
  BY <1>1, <1>3, <1>5, <1>6

LEMMA NoAnswerType == NoAnswer \in Answers
BY NoAttemptType DEF NoAnswer, Answers

LEMMA GotoRows ==
    ASSUME ExamInv, NEW r \in Reqs, NEW p, NEW q, Goto(r, p, q), Submitting(p) => Submitting(pc[r])
    PROVE  /\ Submits' \in Nat /\ Submits' <= Submits /\ told' \in Answers
           /\ \A x \in Reqs : req'[x] = q \/ req'[x] = req[x]
<1>1. Submits \in Nat
  BY SubmitsIsNat
<1>2. Submits' \in Nat /\ Submits' <= Submits
  <2>1. pc' = [pc EXCEPT ![r] = p]
    BY DEF Goto
  <2>2. /\ Submits' \in Nat
        /\ Submitting(pc[r]) /\ ~Submitting(p) => Submits' = Submits - 1
        /\ (Submitting(p) <=> Submitting(pc[r])) => Submits' = Submits
    BY <2>1, SubmitsMove
  <2> QED
    BY <1>1, <2>2
<1>3. \A x \in Reqs : req'[x] = q \/ req'[x] = req[x]
  BY DEF Goto, ExamInv
<1> QED
  BY <1>2, <1>3, NoAnswerType DEF Goto

\* A request keeps to the bounds.
Kind(q) == q.from \in 1..MaxPapers /\ q.after \in 0..MaxAttempts

LEMMA NoRequestKind == Kind(NoRequest)
BY ExamAssumption DEF Kind, NoRequest

\* What one step of a request does to the rows.
LEMMA RequestRows ==
    ASSUME ExamInv, RowsInv, NEW r \in Reqs, ExamStep(r) \/ BeginLatest(r)
    PROVE  /\ Len(attempts') \in Nat
           /\ Len(attempts') + Submits' <= Len(attempts) + Submits
           /\ told' \in Answers
           /\ \A x \in Reqs : Kind(req'[x])
<1>1. Submits \in Nat /\ Len(attempts) \in Nat /\ attempts \in Seq(Attempts)
  BY SubmitsIsNat DEF ExamInv
<1>2. \A x \in Reqs : Kind(req[x])
  BY DEF RowsInv, Kind
<1>3. ASSUME NEW code \in {"not_found", "bad_pick", "error"}, Refuse(r, code), UNCHANGED attempts
      PROVE  /\ Submits' \in Nat /\ Submits' <= Submits /\ told' \in Answers
             /\ \A x \in Reqs : req'[x] = NoRequest \/ req'[x] = req[x]
  BY <1>3, AnswerRows, NoAttemptType DEF Refuse
<1>4. ASSUME NEW code \in {"not_found", "bad_pick", "error"}, Refuse(r, code), UNCHANGED attempts
      PROVE  /\ Len(attempts') + Submits' <= Len(attempts) + Submits /\ Len(attempts') \in Nat
             /\ told' \in Answers /\ \A x \in Reqs : Kind(req'[x])
  <2>1. /\ Submits' \in Nat /\ Submits' <= Submits /\ told' \in Answers
        /\ \A x \in Reqs : req'[x] = NoRequest \/ req'[x] = req[x]
    BY <1>3, <1>4
  <2>3. \A x \in Reqs : Kind(req'[x])
    BY <1>2, <2>1, NoRequestKind
  <2> QED
    BY <1>1, <1>4, <2>1, <2>3
<1>5. ASSUME NEW p, NEW q, Goto(r, p, q), UNCHANGED attempts, Submitting(p) => Submitting(pc[r]), Kind(q)
      PROVE  /\ Len(attempts') + Submits' <= Len(attempts) + Submits /\ Len(attempts') \in Nat
             /\ told' \in Answers /\ \A x \in Reqs : Kind(req'[x])
  <2>1. /\ Submits' \in Nat /\ Submits' <= Submits /\ told' \in Answers
        /\ \A x \in Reqs : req'[x] = q \/ req'[x] = req[x]
    BY <1>5, GotoRows
  <2>3. \A x \in Reqs : Kind(req'[x])
    BY <1>2, <1>5, <2>1
  <2> QED
    BY <1>1, <1>5, <2>1, <2>3
<1>6. req[r] \in Shapes /\ Kind(req[r])
  BY <1>2 DEF ExamInv
<1>7. CASE BeginLatest(r)
  <2>1. Goto(r, "latest", NoRequest) /\ UNCHANGED attempts /\ ~Submitting("latest")
    BY <1>7 DEF BeginLatest, Submitting
  <2> QED
    BY <1>5, <2>1, NoRequestKind
<1>8. CASE GetQuestionsForReview(r)
  <2>1. UNCHANGED attempts /\ Submitting(pc[r])
    BY <1>8 DEF GetQuestionsForReview, Submitting
  <2>2. CASE Refuse(r, "error") \/ Refuse(r, "bad_pick")
    BY <1>4, <2>1, <2>2
  <2>3. CASE ~(Refuse(r, "error") \/ Refuse(r, "bad_pick"))
    <3>1. PICK picks \in [Questions -> Picks] :
            Goto(r, "save", [req[r] EXCEPT !.attempt = gradeAttempt(req[r].from, picks, paper),
                                           !.after = Len(attempts)])
      BY <1>8, <2>3 DEF GetQuestionsForReview
    <3> DEFINE a == gradeAttempt(req[r].from, picks, paper)
    <3> HIDE DEF a
    <3> DEFINE q == [req[r] EXCEPT !.attempt = a, !.after = Len(attempts)]
    <3>2. Len(attempts) \in 0..MaxAttempts
      BY <1>1, ExamAssumption DEF RowsInv
    <3>3. Kind(q)
      BY <1>6, <3>2 DEF Kind, Shapes
    <3> HIDE DEF q
    <3>4. Goto(r, "save", q)
      BY <3>1 DEF q, a
    <3> QED
      BY <1>5, <2>1, <3>3, <3>4
  <2> QED
    BY <2>2, <2>3
<1>9. CASE SaveAttempt(r)
  <2> DEFINE a == req[r].attempt
  <2>1. Submitting(pc[r]) /\ a \in Attempts /\ a.sheet \in Sheets /\ Attempts # {} /\ req[r].after \in Nat
    BY <1>6, <1>9 DEF SaveAttempt, Submitting, Shapes, Attempts
  <2>2. CASE UNCHANGED attempts /\ Refuse(r, "error")
    BY <1>4, <2>2
  <2>3. ASSUME NEW i \in req[r].after + 1..Len(attempts) + 1, attempts' = InsertAt(attempts, i, a),
               Answer(r, "created", a, a.sheet) \/ Refuse(r, "error")
        PROVE  /\ Len(attempts') + Submits' <= Len(attempts) + Submits /\ Len(attempts') \in Nat
               /\ told' \in Answers /\ \A x \in Reqs : Kind(req'[x])
    <3>1. PICK code \in {"created", "error"}, b \in Attempts, v \in Sheets : Answer(r, code, b, v)
      BY <2>1, <2>3, NoAttemptType DEF Refuse
    <3>2. /\ Submits' = Submits - 1 /\ told' \in Answers
          /\ \A x \in Reqs : req'[x] = NoRequest \/ req'[x] = req[x]
      BY <2>1, <3>1, AnswerRows
    <3>3. Len(attempts') = Len(attempts) + 1
      <4>1. i \in 1..Len(attempts) + 1
        BY <1>1, <2>1
      <4> HIDE DEF a
      <4>2. Len(InsertAt(attempts, i, a)) = Len(attempts) + 1
        BY <1>1, <2>1, <4>1, InsertedLen
      <4> QED
        BY <2>3, <4>2
    <3>4. \A x \in Reqs : Kind(req'[x])
      BY <1>2, <3>2, NoRequestKind
    <3> QED
      BY <1>1, <3>2, <3>3, <3>4
  <2> QED
    BY <1>9, <2>2, <2>3 DEF SaveAttempt
<1>10. CASE ReadLatest(r)
  <2>1. UNCHANGED attempts /\ ~Submitting("latest_questions")
    BY <1>10 DEF ReadLatest, Submitting
  <2>2. CASE Refuse(r, "not_found")
    BY <1>4, <2>1, <2>2
  <2>3. CASE ~Refuse(r, "not_found")
    <3> DEFINE a == attempts[Len(attempts)]
    <3> HIDE DEF a
    <3> DEFINE q == [req[r] EXCEPT !.attempt = a]
    <3>1. Goto(r, "latest_questions", q)
      BY <1>10, <2>3 DEF ReadLatest, a
    <3>2. Kind(q)
      BY <1>6 DEF Kind, Shapes
    <3> HIDE DEF q
    <3> QED
      BY <1>5, <2>1, <3>1, <3>2
  <2> QED
    BY <2>2, <2>3
<1>11. CASE ReadQuestions(r)
  <2> DEFINE q == [req[r] EXCEPT !.seen = paper]
  <2>1. Goto(r, "answers", q) /\ UNCHANGED attempts /\ ~Submitting("answers")
    BY <1>11 DEF ReadQuestions, Submitting
  <2>2. Kind(q)
    BY <1>6 DEF Kind, Shapes
  <2> HIDE DEF q
  <2> QED
    BY <1>5, <2>1, <2>2
<1>12. CASE ReadAnswers(r)
  <2> DEFINE q == req[r]
             sheet == IF paper.qs # {} /\ q.attempt.paper = paper.n /\ q.seen.n = paper.n
                      THEN q.attempt.sheet ELSE NoSheet
             review == ReviewOf(q.seen, sheet)
  <2>1. Answer(r, "ok", q.attempt, review) /\ UNCHANGED attempts
    BY <1>12 DEF ReadAnswers
  <2>2. q.attempt \in Attempts /\ q.seen.qs \in SUBSET Questions /\ sheet \in Sheets
    BY <1>6, NoAttemptType DEF Shapes, Attempts, Papers
  <2> HIDE DEF q, sheet
  <2>3. review \in Sheets
    <3>1. \A x \in q.seen.qs : (IF x \in DOMAIN sheet THEN sheet[x] ELSE "none") \in Marks
      BY <2>2 DEF Sheets, Marks, Picks
    <3>2. review \in [q.seen.qs -> Marks]
      BY <3>1 DEF ReviewOf
    <3> QED
      BY <2>2, <3>2 DEF Sheets
  <2> HIDE DEF review
  <2>4. /\ Submits' \in Nat /\ Submits' <= Submits /\ told' \in Answers
        /\ \A x \in Reqs : req'[x] = NoRequest \/ req'[x] = req[x]
    BY <2>1, <2>2, <2>3, AnswerRows
  <2>6. \A x \in Reqs : Kind(req'[x])
    BY <1>2, <2>4, NoRequestKind
  <2> QED
    BY <1>1, <2>1, <2>4, <2>6
<1>13. CASE Fail(r)
  BY <1>4, <1>13 DEF Fail
<1> QED
  BY <1>7, <1>8, <1>9, <1>10, <1>11, <1>12, <1>13 DEF ExamStep

LEMMA RemovedLen ==
    ASSUME NEW S, NEW s \in Seq(S), NEW i \in 1..Len(s)
    PROVE  RemoveAt(s, i) \in Seq(S) /\ Len(RemoveAt(s, i)) = Len(s) - 1
<1> DEFINE a == SubSeq(s, 1, i - 1)
           b == SubSeq(s, i + 1, Len(s))
<1>1. a \in Seq(S) /\ Len(a) = i - 1 /\ b \in Seq(S) /\ Len(b) = Len(s) - i
  OBVIOUS
<1>2. RemoveAt(s, i) = a \o b
  BY DEF RemoveAt
<1> HIDE DEF a, b
<1>3. a \o b \in Seq(S) /\ Len(a \o b) = Len(a) + Len(b)
  BY <1>1, ConcatProperties
<1>4. Len(s) \in Nat /\ (i - 1) + (Len(s) - i) = Len(s) - 1
  OBVIOUS
<1> QED
  BY <1>1, <1>2, <1>3, <1>4

LEMMA SeedRows ==
    ASSUME ExamInv, RowsInv, TruncateExam \/ InsertQuestions
    PROVE  /\ Len(attempts') \in Nat
           /\ Len(attempts') + Submits' <= Len(attempts) + Submits
           /\ told' \in Answers
           /\ \A x \in Reqs : Kind(req'[x])
<1>1. Submits \in Nat /\ Len(attempts) \in Nat
  BY SubmitsIsNat
<1>2. Seeding /\ (attempts' = <<>> \/ attempts' = attempts)
  BY DEF TruncateExam, InsertQuestions
<1>3. Submits' = Submits /\ told' = NoAnswer
  BY <1>2 DEF Seeding, Submits
<1>4. ASSUME NEW x \in Reqs PROVE Kind(req'[x])
  <2>1. req[x] \in Shapes /\ Kind(req[x])
    BY DEF ExamInv, RowsInv, Kind
  <2> QED
    BY <1>2, <2>1 DEF Seeding, Shapes, Kind
<1>5. Len(attempts') \in Nat /\ Len(attempts') <= Len(attempts)
  BY <1>1, <1>2
<1> QED
  BY <1>1, <1>3, <1>4, <1>5, NoAnswerType

LEMMA BeginRows ==
    ASSUME ExamInv, RowsInv, NEW r \in Reqs, BeginSubmit(r)
    PROVE  /\ Submits' = Submits + 1 /\ attempts' = attempts
           /\ Len(attempts) + Submits < MaxAttempts
           /\ told' \in Answers
           /\ \A x \in Reqs : Kind(req'[x])
<1>1. PICK from \in 1..paper.n : Goto(r, "questions", [NoRequest EXCEPT !.from = from])
  BY DEF BeginSubmit
<1> DEFINE q == [NoRequest EXCEPT !.from = from]
<1>2. Kind(q)
  <2>1. from \in 1..MaxPapers
    BY ExamAssumption DEF ExamInv, Papers
  <2> QED
    BY <2>1, NoRequestKind DEF Kind, NoRequest
<1> HIDE DEF q
<1>3. Goto(r, "questions", q)
  BY <1>1 DEF q
<1>4. \A x \in Reqs : req'[x] = q \/ req'[x] = req[x]
  BY <1>3 DEF Goto, ExamInv
<1>5. pc[r] = "idle" /\ attempts' = attempts /\ Len(attempts) + Submits < MaxAttempts
  BY DEF BeginSubmit, Submits
<1>6. pc' = [pc EXCEPT ![r] = "questions"] /\ Submitting("questions") /\ ~Submitting("idle")
  BY <1>3 DEF Goto, Submitting
<1>7. Submits' = Submits + 1
  BY <1>5, <1>6, SubmitsMove
<1> QED
  BY <1>2, <1>3, <1>4, <1>5, <1>7, NoAnswerType DEF Goto, RowsInv, Kind

LEMMA RowsNext == ExamInv /\ RowsInv /\ [Next]_vars => RowsInv'
<1> SUFFICES ASSUME ExamInv, RowsInv, [Next]_vars PROVE RowsInv'
  OBVIOUS
<1> DEFINE A == Len(attempts) + Submits
           B == Len(logs) + messages
<1>1. /\ Submits \in Nat /\ Len(attempts) \in Nat /\ A \in Nat /\ Len(logs) \in Nat
      /\ B \in Nat /\ MaxRows \in Nat /\ MaxAttempts \in Nat
  BY SubmitsIsNat, ExamAssumption, AchievementsAssumption DEF RowsInv
<1>2. B + A <= MaxRows /\ A <= MaxAttempts /\ \A r \in Reqs : Kind(req[r])
  BY <1>1 DEF RowsInv, Kind
<1>3. CASE Exam
  <2>1. UNCHANGED <<logs, messages>>
    BY <1>3 DEF Exam, Seen
  <2>2. ASSUME Submits' \in Nat, Len(attempts') \in Nat, told' \in Answers,
               \A r \in Reqs : Kind(req'[r]),
               B + (Len(attempts') + Submits') <= MaxRows, Len(attempts') + Submits' <= MaxAttempts
        PROVE  RowsInv'
    BY <1>1, <2>1, <2>2 DEF RowsInv, Kind
  <2>3. Submits' \in Nat
    <3>1. ExamInv'
      BY ExamNext
    <3>2. {r \in Reqs : pc'[r] \in {"questions", "save"}} \subseteq Reqs
      OBVIOUS
    <3> QED
      BY <3>2, ExamAssumption, FS_Subset, FS_CardinalityType DEF Submits
  <2>4. ASSUME Len(attempts') \in Nat, Len(attempts') + Submits' <= A, told' \in Answers,
               \A r \in Reqs : Kind(req'[r])
        PROVE  RowsInv'
    BY <1>1, <1>2, <2>2, <2>3, <2>4
  <2>5. ASSUME NEW r \in Reqs, BeginLatest(r) \/ ExamStep(r) PROVE RowsInv'
    BY <2>4, <2>5, RequestRows
  <2>6. ASSUME NEW r \in Reqs, Room, BeginSubmit(r) PROVE RowsInv'
    <3>1. /\ Submits' = Submits + 1 /\ Len(attempts') = Len(attempts) /\ A < MaxAttempts
          /\ told' \in Answers /\ \A x \in Reqs : Kind(req'[x])
      BY <2>6, BeginRows
    <3>2. B + A < MaxRows
      BY <1>1, <2>6 DEF Room
    <3> QED
      BY <1>1, <2>2, <2>3, <3>1, <3>2
  <2>7. CASE TruncateExam \/ InsertQuestions
    BY <2>4, <2>7, SeedRows
  <2> QED
    BY <1>3, <2>5, <2>6, <2>7 DEF Exam, BeginExamRequest
<1>4. ASSUME ExamIdle \/ UNCHANGED vars, logs' \in Seq(LogRows), messages' \in Nat,
             Len(logs') + messages' + Len(attempts) + Submits <= MaxRows
      PROVE  RowsInv'
  <2>1. /\ attempts' = attempts /\ pc' = pc /\ req' = req
        /\ told' = told \/ told' = NoAnswer
    BY <1>4 DEF ExamIdle, vars, examVars
  <2>2. Submits' = Submits
    BY <2>1 DEF Submits
  <2> QED
    BY <1>4, <2>1, <2>2, NoAnswerType DEF RowsInv
<1>5. CASE CreateMatch
  <2>1. PICK result \in Results \ {"none"}, i \in 1..Len(logs) + 1 :
          logs' = InsertAt(logs, i, [result |-> result, created |-> Len(logs) + 1])
    BY <1>5 DEF CreateMatch
  <2> DEFINE m == [result |-> result, created |-> Len(logs) + 1]
  <2>2. Room /\ ExamIdle /\ messages' = messages
    BY <1>5 DEF CreateMatch
  <2>3. Len(logs) + messages + Len(attempts) + Submits < MaxRows
    BY <2>2 DEF Room
  <2>4. Len(logs) + 1 \in 1..MaxRows
    BY <1>1, <2>3 DEF RowsInv
  <2>5. m \in LogRows
    BY <2>4 DEF LogRows
  <2> HIDE DEF m
  <2>6. logs' = InsertAt(logs, i, m) /\ logs \in Seq(LogRows)
    BY <2>1 DEF m, RowsInv
  <2>7. logs' \in Seq(LogRows) /\ Len(logs') = Len(logs) + 1
    BY <2>5, <2>6, Inserted, InsertedLen
  <2> QED
    BY <1>1, <1>4, <2>2, <2>3, <2>7 DEF RowsInv
<1>6. CASE UpdateMatch
  <2>1. PICK i \in DOMAIN logs, result \in Results \ {"none"}, j \in DOMAIN logs :
          logs' = InsertAt(RemoveAt(logs, i), j, [logs[i] EXCEPT !.result = result])
    BY <1>6 DEF UpdateMatch
  <2> DEFINE m == [logs[i] EXCEPT !.result = result]
             rest == RemoveAt(logs, i)
  <2>2. ExamIdle /\ messages' = messages /\ logs \in Seq(LogRows)
    BY <1>6 DEF UpdateMatch, RowsInv
  <2>3. m \in LogRows
    <3>1. logs[i] \in LogRows
      BY <2>2
    <3> QED
      BY <3>1 DEF LogRows
  <2>4. rest \in Seq(LogRows) /\ Len(rest) = Len(logs) - 1 /\ j \in 1..(Len(logs) - 1) + 1
    BY <2>2, RemovedLen
  <2> HIDE DEF m, rest
  <2>5. logs' = InsertAt(rest, j, m)
    BY <2>1 DEF m, rest
  <2>6. logs' \in Seq(LogRows) /\ Len(logs') = Len(logs)
    BY <1>1, <2>3, <2>4, <2>5, Inserted, InsertedLen
  <2> QED
    BY <1>1, <1>4, <2>2, <2>6 DEF RowsInv
<1>7. CASE SendMessage
  <2>1. Room /\ ExamIdle /\ messages' = messages + 1 /\ logs' = logs
    BY <1>7 DEF SendMessage
  <2>2. Len(logs) + messages + Len(attempts) + Submits < MaxRows
    BY <2>1 DEF Room
  <2> QED
    BY <1>1, <1>4, <2>1, <2>2 DEF RowsInv
<1>8. CASE SoftDelete
  <2>1. ExamIdle /\ messages > 0 /\ messages' = messages - 1 /\ logs' = logs
    BY <1>8 DEF SoftDelete
  <2> QED
    BY <1>1, <1>4, <2>1 DEF RowsInv
<1>9. CASE \/ StartLook \/ ReadMatches \/ ReadLatestScore \/ ReadPassed \/ CountMessages
           \/ ReadTenth \/ GetForUser \/ FailLook
  <2>1. ExamIdle /\ UNCHANGED <<logs, messages>>
    BY <1>9 DEF StartLook, Read, ReadMatches, ReadLatestScore, ReadPassed, CountMessages,
       ReadTenth, GetForUser, FailLook, EndLook
  <2> QED
    BY <1>4, <2>1 DEF RowsInv
<1>10. CASE UNCHANGED vars
  <2>1. UNCHANGED <<logs, messages>>
    BY <1>10 DEF vars, ownVars
  <2> QED
    BY <1>4, <1>10, <2>1 DEF RowsInv
<1> QED
  BY <1>3, <1>5, <1>6, <1>7, <1>8, <1>9, <1>10 DEF Next

LEMMA RowsInit == Init => RowsInv
<1> SUFFICES ASSUME Init PROVE RowsInv
  OBVIOUS
<1>1. /\ attempts = <<>> /\ pc = [r \in Reqs |-> "idle"] /\ req = [r \in Reqs |-> NoRequest]
      /\ told = NoAnswer /\ messages = 0
      /\ logs \in {<<>>, <<[result |-> "none", created |-> 1]>>}
  BY DEF Init, ExamInit
<1>2. Submits = 0
  <2>1. {r \in Reqs : pc[r] \in {"questions", "save"}} = {}
    BY <1>1
  <2> QED
    BY <2>1, FS_EmptySet DEF Submits
<1>3. 1 \in 1..MaxRows /\ MaxRows \in Nat /\ MaxAttempts \in Nat /\ 1 <= MaxRows
  BY ExamAssumption, AchievementsAssumption
<1>4. [result |-> "none", created |-> 1] \in LogRows
  BY <1>3 DEF LogRows, Results
<1>5. logs \in Seq(LogRows) /\ (Len(logs) = 0 \/ Len(logs) = 1)
  <2> DEFINE m == [result |-> "none", created |-> 1]
  <2> HIDE DEF m
  <2>1. m \in LogRows /\ (logs = <<>> \/ logs = <<m>>)
    BY <1>1, <1>4 DEF m
  <2>2. CASE logs = <<>>
    BY <2>2
  <2>3. CASE logs = <<m>>
    <3>1. <<m>> \in Seq(LogRows) /\ Len(<<m>>) = 1
      BY <2>1
    <3> QED
      BY <2>3, <3>1
  <2> QED
    BY <2>1, <2>2, <2>3
<1>6. Len(attempts) = 0 /\ messages = 0 /\ \A r \in Reqs : Kind(req[r])
  BY <1>1, NoRequestKind
<1>7. Len(logs) + messages + Len(attempts) + Submits <= MaxRows /\ Len(attempts) + Submits <= MaxAttempts
  BY <1>2, <1>3, <1>5, <1>6
<1> QED
  BY <1>1, <1>5, <1>6, <1>7, NoAnswerType DEF RowsInv, Kind

LEMMA RowsInvariant == Spec => [](ExamInv /\ RowsInv)
BY Invariant, RowsInit, RowsNext, PTL DEF Spec

\* The single pass over the stored matches finds exactly the badges that the whole log
\* has earned, and dates each with the first match at which it was, for logs of any
\* length; what comeback-kid takes for earned is store.go:182, not the catalogue.
THEOREM OnePassCorrect == Spec => []OnePassFindsBadges
<1>1. RowsInv => OnePassFindsBadges
  <2> SUFFICES ASSUME RowsInv PROVE OnePassFindsBadges
    OBVIOUS
  <2>1. FoundByPass(logs)
    BY PassFindsBadges DEF RowsInv
  <2> QED
    BY <2>1 DEF FoundByPass, OnePassFindsBadges
<1> QED
  BY <1>1, RowsInvariant, PTL

-----------------------------------------------------------------------------
(* One more match.                                                         *)

\* What the first rows earn does not depend on the later ones.
LEMMA EarnedOfPrefix ==
    ASSUME NEW l, NEW t, NEW n \in Nat, \A i \in 1..n : t[i] = l[i],
           NEW b \in MatchBadges, NEW k \in 0..n
    PROVE  EarnedBy(b, t, k) <=> EarnedBy(b, l, k)
<1>1. \A i \in 1..k : i \in 1..n /\ t[i] = l[i]
  OBVIOUS
<1>2. \A i, j \in 1..k : \A w \in i..j : t[w] = l[w]
  <2>1. \A i, j \in 1..k : \A w \in i..j : w \in 1..k
    OBVIOUS
  <2> QED
    BY <1>1, <2>1
<1>3. \A i, j \in 1..k : \A w \in i..j - 1 : t[w] = l[w]
  <2>1. \A i, j \in 1..k : \A w \in i..j - 1 : w \in 1..k
    OBVIOUS
  <2> QED
    BY <1>1, <2>1
<1>4. \A i \in 1..k : (Won(t, i) <=> Won(l, i)) /\ (Lost(t, i) <=> Lost(l, i))
  BY <1>1 DEF Won, Lost
<1>5. \A i, j \in 1..k : Unbroken(t, i, j) <=> Unbroken(l, i, j)
  BY <1>2 DEF Unbroken
<1>6. \A i, j \in 1..k : Winless(t, i, j - 1) <=> Winless(l, i, j - 1)
  BY <1>3 DEF Winless, Won
<1>7. CASE b = "first-win"
  BY <1>4, <1>7 DEF EarnedBy, WinBy
<1>8. CASE b = "match-diarist"
  BY <1>8 DEF EarnedBy
<1>9. CASE b = "win-streak-3"
  BY <1>4, <1>5, <1>9 DEF EarnedBy, StreakBy
<1>10. CASE b = "comeback-kid"
  BY <1>4, <1>6, <1>10 DEF EarnedBy, ComebackBy
<1> QED
  BY <1>7, <1>8, <1>9, <1>10 DEF MatchBadges, Badges

\* A badge that is earned was earned with some row first.
LEMMA FirstEarned ==
    ASSUME NEW l, NEW b \in MatchBadges, NEW n \in Nat, EarnedBy(b, l, n)
    PROVE  \E k \in 1..n : EarnedBy(b, l, k) /\ ~EarnedBy(b, l, k - 1)
<1> DEFINE met == {k \in 0..n : EarnedBy(b, l, k)}
<1>1. n \in met /\ met \in SUBSET Nat
  OBVIOUS
<1>2. PICK k \in met : \A j \in met : k <= j
  BY <1>1, LeastNatural
<1>3. ~EarnedBy(b, l, 0)
  <2>1. Dated(At(NoStats, b), b, l, 0) /\ At(NoStats, b) = 0
    BY NothingEarnedYet DEF At, NoStats, MatchBadges, Badges
  <2> QED
    BY <2>1 DEF Dated
<1>4. k \in 1..n
  BY <1>2, <1>3
<1>5. k - 1 \in 0..n /\ k - 1 \notin met
  BY <1>2, <1>4
<1> QED
  BY <1>2, <1>4, <1>5

LEMMA BadgeEqual ==
    ASSUME NEW s, NEW t, NEW b \in MatchBadges,
           compute(s)[b].unlocked, compute(t)[b].unlocked, compute(s)[b].at = compute(t)[b].at,
           s.comeback \in BOOLEAN, t.comeback \in BOOLEAN
    PROVE  compute(t)[b] = compute(s)[b]
<1>1. CASE b = "first-win"
  BY <1>1 DEF compute, Badges
<1>2. CASE b = "match-diarist"
  BY <1>2 DEF compute, Badges
<1>3. CASE b = "win-streak-3"
  BY <1>3 DEF compute, Badges
<1>4. CASE b = "comeback-kid"
  BY <1>4 DEF compute, Badges
<1> QED
  BY <1>1, <1>2, <1>3, <1>4 DEF MatchBadges, Badges

LEMMA AppendedKeeps ==
    ASSUME NEW l \in Seq(LogRows), NEW t \in Seq(LogRows), IsPrefix(l, t),
           Len(l) <= MaxRows, Len(t) <= MaxRows,
           NEW b \in MatchBadges, compute(fillMatchStats(l))[b].unlocked
    PROVE  compute(fillMatchStats(t))[b] = compute(fillMatchStats(l))[b]
<1> DEFINE old == compute(fillMatchStats(l))[b]
           new == compute(fillMatchStats(t))[b]
           n == Len(l)
<1>1. n \in Nat /\ n <= Len(t) /\ Len(t) \in Nat /\ \A i \in 1..n : t[i] = l[i]
  BY DEF IsPrefix
<1>2. /\ EarnedBy(b, l, n) /\ Dated(old.at, b, l, n) /\ Dated(new.at, b, t, Len(t))
      /\ new.unlocked <=> EarnedBy(b, t, Len(t))
  BY BadgesShown
<1>3. \A k \in 0..n : EarnedBy(b, t, k) <=> EarnedBy(b, l, k)
  BY <1>1, EarnedOfPrefix
<1>4. new.unlocked
  <2>1. EarnedBy(b, t, n) /\ n \in 0..Len(t)
    BY <1>1, <1>2, <1>3
  <2> QED
    BY <1>1, <1>2, <2>1, EarnedStays
<1>5. old.at = new.at
  <2>1. PICK k \in 1..n : EarnedBy(b, l, k) /\ ~EarnedBy(b, l, k - 1)
    BY <1>1, <1>2, FirstEarned
  <2>2. k \in 0..n /\ k - 1 \in 0..n /\ k \in 1..Len(t)
    BY <1>1
  <2>3. EarnedBy(b, t, k) /\ ~EarnedBy(b, t, k - 1)
    BY <1>3, <2>1, <2>2
  <2>4. old.at = l[k].created /\ new.at = t[k].created
    BY <1>2, <2>1, <2>2, <2>3 DEF Dated
  <2> QED
    BY <1>1, <2>4
<1>6. fillMatchStats(l).comeback \in BOOLEAN /\ fillMatchStats(t).comeback \in BOOLEAN
  BY MatchStats
<1> QED
  BY <1>4, <1>5, <1>6, BadgeEqual

\* Badges that count matches or wins stay wherever the new row comes.
LEMMA InsertedKeeps ==
    ASSUME NEW l \in Seq(LogRows), NEW i \in 1..Len(l) + 1, NEW m \in LogRows,
           NEW b \in {"first-win", "match-diarist"}, compute(fillMatchStats(l))[b].unlocked
    PROVE  compute(fillMatchStats(InsertAt(l, i, m)))[b].unlocked
<1> DEFINE t == InsertAt(l, i, m)
<1>1. /\ t \in Seq(LogRows) /\ Len(t) = Len(l) + 1
      /\ \A k \in 1..Len(l) : \E j \in 1..Len(l) + 1 : t[j] = l[k]
  <2>1. t \in Seq(LogRows)
    BY Inserted
  <2> QED
    BY <2>1, InsertedLen
<1> HIDE DEF t
<1>2. b \in MatchBadges
  BY DEF MatchBadges, Badges
<1>3. EarnedBy(b, l, Len(l)) /\ (compute(fillMatchStats(t))[b].unlocked <=> EarnedBy(b, t, Len(t)))
  BY <1>1, <1>2, BadgesShown
<1>4. CASE b = "first-win"
  <2>1. PICK k \in 1..Len(l) : l[k].result = "won"
    BY <1>3, <1>4 DEF EarnedBy, WinBy, Won
  <2>2. \E j \in 1..Len(t) : t[j].result = "won"
    BY <1>1, <2>1
  <2> QED
    BY <1>3, <1>4, <2>2 DEF EarnedBy, WinBy, Won, t
<1>5. CASE b = "match-diarist"
  <2>1. Len(l) >= Target
    BY <1>3, <1>5 DEF EarnedBy
  <2>2. Len(l) + 1 >= Target
    BY <2>1, AchievementsAssumption
  <2> QED
    BY <1>1, <1>3, <1>5, <2>2 DEF EarnedBy, t
<1> QED
  BY <1>4, <1>5

\* The log grows only by a match that is logged.
LEMMA OnlyCreateGrows ==
    ASSUME RowsInv, [Next]_vars, Len(logs') > Len(logs)
    PROVE  CreateMatch
<1>1. Len(logs) \in Nat /\ logs \in Seq(LogRows)
  BY DEF RowsInv
<1>2. ASSUME UpdateMatch PROVE Len(logs') = Len(logs)
  <2>1. PICK i \in DOMAIN logs, result \in Results \ {"none"}, j \in DOMAIN logs :
          logs' = InsertAt(RemoveAt(logs, i), j, [logs[i] EXCEPT !.result = result])
    BY <1>2 DEF UpdateMatch
  <2> DEFINE m == [logs[i] EXCEPT !.result = result]
             rest == RemoveAt(logs, i)
  <2>2. m \in LogRows
    <3>1. logs[i] \in LogRows
      BY <1>1
    <3> QED
      BY <3>1 DEF LogRows
  <2>3. rest \in Seq(LogRows) /\ Len(rest) = Len(logs) - 1 /\ j \in 1..(Len(logs) - 1) + 1
    BY <1>1, RemovedLen
  <2> HIDE DEF m, rest
  <2>4. logs' = InsertAt(rest, j, m)
    BY <2>1 DEF m, rest
  <2> QED
    BY <1>1, <2>2, <2>3, <2>4, InsertedLen
<1>3. UpdateMatch \/ CreateMatch \/ logs' = logs
  BY DEF Next, Exam, Seen, SendMessage, SoftDelete, StartLook, Read, ReadMatches, ReadLatestScore,
     ReadPassed, CountMessages, ReadTenth, GetForUser, FailLook, EndLook, vars, ownVars
<1> QED
  BY <1>1, <1>2, <1>3

\* A match logged as the last one played takes no badge away and dates none anew; one
\* logged for an earlier day still takes no badge that counts matches or wins.
THEOREM LoggingKeeps == Spec => LoggingKeepsBadges
<1> DEFINE Step == Len(logs') > Len(logs) =>
             LET old == compute(fillMatchStats(logs))
                 new == compute(fillMatchStats(logs')) IN
             \A b \in MatchBadges : old[b].unlocked =>
               /\ IsPrefix(logs, logs') => new[b] = old[b]
               /\ b \in {"first-win", "match-diarist"} => new[b].unlocked
<1>1. ASSUME ExamInv, RowsInv, RowsInv', [Next]_vars PROVE Step
  <2> SUFFICES ASSUME Len(logs') > Len(logs), NEW b \in MatchBadges,
                      compute(fillMatchStats(logs))[b].unlocked
               PROVE  /\ IsPrefix(logs, logs') =>
                           compute(fillMatchStats(logs'))[b] = compute(fillMatchStats(logs))[b]
                      /\ b \in {"first-win", "match-diarist"} =>
                           compute(fillMatchStats(logs'))[b].unlocked
    OBVIOUS
  <2>1. CreateMatch
    BY <1>1, OnlyCreateGrows
  <2>2. PICK result \in Results \ {"none"}, i \in 1..Len(logs) + 1 :
          logs' = InsertAt(logs, i, [result |-> result, created |-> Len(logs) + 1])
    BY <2>1 DEF CreateMatch
  <2>3. logs \in Seq(LogRows) /\ logs' \in Seq(LogRows) /\ Len(logs) \in Nat /\ Len(logs') \in Nat
        /\ Len(logs) <= MaxRows /\ Len(logs') <= MaxRows
    <3>1. /\ Len(logs) \in Nat /\ messages \in Nat /\ Len(attempts) \in Nat /\ Submits \in Nat
          /\ Len(logs) + messages + Len(attempts) + Submits <= MaxRows /\ MaxRows \in Nat
      BY <1>1, SubmitsIsNat, AchievementsAssumption DEF RowsInv
    <3>2. Len(logs) <= MaxRows
      BY <3>1
    <3>3. Len(logs) + 1 <= MaxRows
      BY <2>1, <3>1 DEF CreateMatch, Room
    <3>4. logs \in Seq(LogRows) /\ logs' \in Seq(LogRows)
      BY <1>1 DEF RowsInv
    <3> DEFINE m == [result |-> result, created |-> Len(logs) + 1]
    <3>5. m \in LogRows
      BY <3>1, <3>3 DEF LogRows
    <3> HIDE DEF m
    <3>6. logs' = InsertAt(logs, i, m)
      BY <2>2 DEF m
    <3>7. Len(logs') = Len(logs) + 1
      BY <3>4, <3>5, <3>6, InsertedLen
    <3> QED
      BY <3>1, <3>2, <3>3, <3>4, <3>7
  <2>4. IsPrefix(logs, logs') =>
          compute(fillMatchStats(logs'))[b] = compute(fillMatchStats(logs))[b]
    BY <2>3, AppendedKeeps
  <2>5. b \in {"first-win", "match-diarist"} => compute(fillMatchStats(logs'))[b].unlocked
    <3> DEFINE m == [result |-> result, created |-> Len(logs) + 1]
    <3>1. m \in LogRows
      <4>1. Len(logs) + 1 <= MaxRows
        <5>1. /\ Len(logs) \in Nat /\ messages \in Nat /\ Len(attempts) \in Nat /\ Submits \in Nat /\ MaxRows \in Nat
          BY <1>1, SubmitsIsNat, AchievementsAssumption DEF RowsInv
        <5> QED
          BY <2>1, <5>1 DEF CreateMatch, Room
      <4> QED
        BY <2>3, <4>1, AchievementsAssumption DEF LogRows
    <3> HIDE DEF m
    <3>2. logs' = InsertAt(logs, i, m)
      BY <2>2 DEF m
    <3> QED
      BY <2>3, <3>1, <3>2, InsertedKeeps
  <2> QED
    BY <2>4, <2>5
<1>2. LoggingKeepsBadges <=> [][Step]_vars
  BY DEF LoggingKeepsBadges
<1> HIDE DEF Step
<1> QED
  BY <1>1, <1>2, RowsInvariant, PTL DEF Spec

-----------------------------------------------------------------------------
(* A look at the badges.                                                   *)

\* The badges of the matches and of the exam have a time if and only if they are earned.
Timed(s) ==
    /\ s.wins >= 1 <=> s.firstWinAt # 0
    /\ s.matches >= Target <=> s.diaristAt # 0
    /\ s.longest >= 3 <=> s.streakAt # 0
    /\ s.comeback <=> s.comebackAt # 0
    /\ s.passed <=> s.passedAt # 0

\* The tenth message is looked for only when the count was enough, and is still there
\* unless one was hidden.
Curious(at, on) ==
    /\ at.stats.curiousAt # 0 => at.stats.messages >= Target
    /\ "count" \in at.todo => at.stats.curiousAt = 0 /\ "tenth" \in at.todo
    /\ on /\ "count" \notin at.todo /\ "tenth" \in at.todo =>
         at.stats.messages >= Target /\ (at.hid \/ messages >= Target)
    /\ on /\ "count" \notin at.todo /\ "tenth" \notin at.todo /\ at.stats.messages >= Target =>
         at.stats.curiousAt # 0 \/ at.hid

LookInv ==
    /\ look \in [on: BOOLEAN, at: Looks]
    /\ Timed(look.at.stats)
    /\ Curious(look.at, look.on)

ShownInv ==
    /\ shown.code \in {"none", "ok", "error"}
    /\ shown.badges \in [Badges -> [unlocked: BOOLEAN, at: Times]] /\ shown.stats \in Stats
    /\ UnlockedHasTime

LEMMA NoStatsOK == NoStats \in Stats /\ Timed(NoStats) /\ NoLook \in Looks
<1>1. MaxRows \in Nat /\ 0 \in Times /\ ~(0 >= Target)
  BY AchievementsAssumption DEF Times
<1>2. NoStats \in Stats
  BY <1>1 DEF NoStats, Stats
<1>3. Timed(NoStats)
  BY <1>1 DEF NoStats, Timed
<1> QED
  BY <1>2, <1>3 DEF NoLook, Looks

LEMMA OffOK ==
    /\ Off \in [on: BOOLEAN, at: Looks] /\ ~Off.on
    /\ Timed(Off.at.stats) /\ Off.at.stats.curiousAt = 0 /\ Off.at.todo = {}
<1>1. Off.at = NoLook /\ ~Off.on /\ NoLook.stats = NoStats /\ NoLook.todo = {}
  BY DEF Off, NoLook
<1>2. NoStats.curiousAt = 0
  BY DEF NoStats
<1>3. Off \in [on: BOOLEAN, at: Looks]
  BY NoStatsOK DEF Off
<1> QED
  BY <1>1, <1>2, <1>3, NoStatsOK

LEMMA NoSummaryOK ==
    ASSUME shown' = NoSummary \/ shown' = [NoSummary EXCEPT !.code = "error"]
    PROVE  ShownInv'
<1>1. /\ shown'.code \in {"none", "error"} /\ shown'.stats = NoStats
      /\ shown'.badges = [b \in Badges |-> [unlocked |-> FALSE, at |-> 0]]
  <2>1. CASE shown' = NoSummary
    BY <2>1 DEF NoSummary
  <2>2. CASE shown' = [NoSummary EXCEPT !.code = "error"]
    BY <2>2 DEF NoSummary
  <2> QED
    BY <2>1, <2>2
<1>2. 0 \in Times
  BY AchievementsAssumption DEF Times
<1> QED
  BY <1>1, <1>2, NoStatsOK DEF ShownInv, UnlockedHasTime

\* One SELECT that leaves a look with todo and stats.
LEMMA ReadInv ==
    ASSUME LookInv, NEW step, NEW todo \in SUBSET Steps, NEW stats \in Stats,
           Read(step, todo, stats), Timed(stats),
           Curious([look.at EXCEPT !.todo = todo, !.stats = stats], TRUE)
    PROVE  LookInv' /\ ShownInv'
<1> DEFINE at == [look.at EXCEPT !.todo = todo, !.stats = stats]
<1>1. look' = [look EXCEPT !.at = at] /\ look.on /\ messages' = messages /\ shown' = NoSummary
  <2>1. look' = [look EXCEPT !.at.todo = todo, !.at.stats = stats]
    BY DEF Read
  <2>2. look \in [on: BOOLEAN, at: Looks]
    BY DEF LookInv
  <2>3. [look EXCEPT !.at.todo = todo, !.at.stats = stats] = [look EXCEPT !.at = at]
    BY <2>2 DEF Looks
  <2> QED
    BY <2>1, <2>3 DEF Read
<1>2. at \in Looks /\ at.stats = stats
  BY DEF LookInv, Looks
<1> HIDE DEF at
<1>3. look' \in [on: BOOLEAN, at: Looks] /\ look'.at = at /\ look'.on
  BY <1>1, <1>2 DEF LookInv
<1>4. Curious(at, TRUE)
  BY DEF at
<1>5. LookInv'
  BY <1>1, <1>2, <1>3, <1>4 DEF LookInv, Curious, Timed
<1> QED
  BY <1>1, <1>5, NoSummaryOK

\* What the curious have is not touched by the other reads.
LEMMA CuriousKept ==
    ASSUME LookInv, look.on, NEW step \in {"match", "latest", "passed"}, NEW stats \in Stats,
           stats.messages = look.at.stats.messages, stats.curiousAt = look.at.stats.curiousAt
    PROVE  /\ look.at.todo \ {step} \in SUBSET Steps
           /\ Curious([look.at EXCEPT !.todo = look.at.todo \ {step}, !.stats = stats], TRUE)
<1> DEFINE todo == look.at.todo \ {step}
           at == [look.at EXCEPT !.todo = todo, !.stats = stats]
<1>1. look.at \in Looks /\ Curious(look.at, TRUE)
  BY DEF LookInv
<1>2. /\ at.stats = stats /\ at.hid = look.at.hid /\ at.todo = todo
      /\ "count" \in todo <=> "count" \in look.at.todo
      /\ "tenth" \in todo <=> "tenth" \in look.at.todo
      /\ todo \in SUBSET Steps
  BY <1>1 DEF Looks
<1> HIDE DEF at, todo
<1> QED
  BY <1>1, <1>2 DEF Curious, at, todo

LEMMA MatchesInv == ASSUME LookInv, RowsInv, ExamInv, ReadMatches PROVE LookInv' /\ ShownInv'
<1> DEFINE m == fillMatchStats(logs)
           o == look.at.stats
           s1 == [o EXCEPT !.matches = m.matches, !.wins = m.wins]
           s2 == [s1 EXCEPT !.longest = m.longest, !.comeback = m.comeback]
           s3 == [s2 EXCEPT !.firstWinAt = m.firstWinAt, !.diaristAt = m.diaristAt]
           s4 == [s3 EXCEPT !.streakAt = m.streakAt, !.comebackAt = m.comebackAt]
           stats == [o EXCEPT
             !.matches = m.matches, !.wins = m.wins, !.longest = m.longest, !.comeback = m.comeback,
             !.firstWinAt = m.firstWinAt, !.diaristAt = m.diaristAt, !.streakAt = m.streakAt,
             !.comebackAt = m.comebackAt]
<1>1. Read("match", look.at.todo \ {"match"}, stats) /\ look.on
  BY DEF ReadMatches, Read
<1>2. logs \in Seq(LogRows) /\ Len(logs) <= MaxRows
  <2>1. /\ Len(logs) \in Nat /\ messages \in Nat /\ Len(attempts) \in Nat /\ Submits \in Nat
        /\ Len(logs) + messages + Len(attempts) + Submits <= MaxRows /\ MaxRows \in Nat
    BY SubmitsIsNat, AchievementsAssumption DEF RowsInv
  <2> QED
    BY <2>1 DEF RowsInv
<1>3. /\ m.matches \in Times /\ m.wins \in Times /\ m.longest \in Times /\ m.comeback \in BOOLEAN
      /\ m.firstWinAt \in Times /\ m.diaristAt \in Times
      /\ m.streakAt \in Times /\ m.comebackAt \in Times
      /\ m.wins >= 1 <=> m.firstWinAt # 0
      /\ m.matches >= Target <=> m.diaristAt # 0
      /\ m.longest >= 3 <=> m.streakAt # 0
      /\ m.comeback <=> m.comebackAt # 0
  BY <1>2, MatchStats
<1>4. o \in Stats /\ Timed(o)
  BY DEF LookInv, Looks
<1> HIDE DEF m, o
<1>5. s1 \in Stats
  BY <1>3, <1>4 DEF Stats
<1>6. s2 \in Stats
  <2> HIDE DEF s1
  <2> QED BY <1>3, <1>5 DEF Stats
<1>7. s3 \in Stats
  <2> HIDE DEF s2
  <2> QED BY <1>3, <1>6 DEF Stats
<1>8. s4 \in Stats
  <2> HIDE DEF s3
  <2> QED BY <1>3, <1>7 DEF Stats
<1>9. stats = s4
  BY <1>4 DEF Stats
<1>10. /\ stats.matches = m.matches /\ stats.wins = m.wins /\ stats.longest = m.longest
       /\ stats.comeback = m.comeback /\ stats.firstWinAt = m.firstWinAt
       /\ stats.diaristAt = m.diaristAt /\ stats.streakAt = m.streakAt
       /\ stats.comebackAt = m.comebackAt /\ stats.passed = o.passed /\ stats.passedAt = o.passedAt
       /\ stats.messages = o.messages /\ stats.curiousAt = o.curiousAt
  BY <1>4 DEF Stats
<1>11. stats \in Stats
  BY <1>8, <1>9
<1> HIDE DEF stats
<1>12. Timed(stats)
  BY <1>3, <1>4, <1>10 DEF Timed
<1> QED
  BY <1>1, <1>10, <1>11, <1>12, CuriousKept, ReadInv DEF o

LEMMA LatestScoreInv == ASSUME LookInv, ReadLatestScore PROVE LookInv' /\ ShownInv'
<1> DEFINE o == look.at.stats
           b == attempts # <<>>
           stats == [o EXCEPT !.tried = b]
<1>1. Read("latest", look.at.todo \ {"latest"}, stats) /\ look.on
  BY DEF ReadLatestScore, Read
<1>2. o \in Stats /\ Timed(o) /\ b \in BOOLEAN
  BY DEF LookInv, Looks
<1> HIDE DEF o, b
<1>3. stats \in Stats /\ stats.messages = o.messages /\ stats.curiousAt = o.curiousAt
  BY <1>2 DEF Stats
<1>4. Timed(stats)
  BY <1>2 DEF Timed, Stats
<1> HIDE DEF stats
<1> QED
  BY <1>1, <1>3, <1>4, CuriousKept, ReadInv DEF o

\* The first attempt that passed is among those stored.
LEMMA PassedInv == ASSUME LookInv, RowsInv, ExamInv, ReadPassed PROVE LookInv' /\ ShownInv'
<1> DEFINE o == look.at.stats
           at == PassedAt(attempts)
           b == at # {}
           first == IF at = {} THEN 0 ELSE Min(at)
           stats == [o EXCEPT !.passed = b, !.passedAt = first]
<1>1. Read("passed", look.at.todo \ {"passed"}, stats) /\ look.on
  BY DEF ReadPassed, Read
<1>2. o \in Stats /\ Timed(o) /\ b \in BOOLEAN
  BY DEF LookInv, Looks
<1>3. at \subseteq 1..Len(attempts) /\ Len(attempts) <= MaxRows /\ Len(attempts) \in Nat /\ MaxRows \in Nat
  <2>1. /\ Len(logs) \in Nat /\ messages \in Nat /\ Len(attempts) \in Nat /\ Submits \in Nat
        /\ Len(logs) + messages + Len(attempts) + Submits <= MaxRows /\ MaxRows \in Nat
    BY SubmitsIsNat, AchievementsAssumption DEF RowsInv
  <2>2. attempts \in Seq(Attempts)
    BY DEF ExamInv
  <2> QED
    BY <2>1, <2>2 DEF PassedAt
<1> HIDE DEF at, o
<1>4. first \in Times /\ (b <=> first # 0)
  <2>1. CASE at = {}
    BY <1>3, <2>1 DEF Times
  <2>2. CASE at # {}
    <3>1. at \in SUBSET Nat
      BY <1>3
    <3>2. Min(at) \in at
      BY <2>2, <3>1, MinIsLeast
    <3>3. Min(at) \in 1..Len(attempts)
      BY <1>3, <3>2
    <3>4. first = Min(at) /\ b
      BY <2>2
    <3> HIDE DEF first, b
    <3>5. first \in Nat /\ first <= MaxRows /\ first # 0
      BY <1>3, <3>3, <3>4
    <3> QED
      BY <3>4, <3>5, <1>3 DEF Times
  <2> QED
    BY <2>1, <2>2
<1> HIDE DEF b, first
<1>5. /\ stats \in Stats /\ stats.messages = o.messages /\ stats.curiousAt = o.curiousAt
      /\ stats.passed = b /\ stats.passedAt = first
      /\ stats.matches = o.matches /\ stats.wins = o.wins /\ stats.longest = o.longest
      /\ stats.comeback = o.comeback /\ stats.firstWinAt = o.firstWinAt
      /\ stats.diaristAt = o.diaristAt /\ stats.streakAt = o.streakAt
      /\ stats.comebackAt = o.comebackAt
  BY <1>2, <1>4 DEF Stats
<1> HIDE DEF stats
<1>6. Timed(stats)
  BY <1>2, <1>4, <1>5 DEF Timed
<1> QED
  BY <1>1, <1>5, <1>6, CuriousKept, ReadInv DEF o

LEMMA CountInv == ASSUME LookInv, RowsInv, ExamInv, CountMessages PROVE LookInv' /\ ShownInv'
<1> DEFINE o == look.at.stats
           todo == look.at.todo \ (IF messages >= Target THEN {"count"} ELSE {"count", "tenth"})
           stats == [o EXCEPT !.messages = messages]
           at == [look.at EXCEPT !.todo = todo, !.stats = stats]
<1>1. Read("count", todo, stats) /\ look.on /\ "count" \in look.at.todo
  BY DEF CountMessages, Read
<1>2. look.at \in Looks /\ o \in Stats /\ Timed(o) /\ Curious(look.at, TRUE)
  BY <1>1 DEF LookInv, Looks
<1>3. messages \in Times /\ Target \in Nat
  <2>1. /\ Len(logs) \in Nat /\ messages \in Nat /\ Len(attempts) \in Nat /\ Submits \in Nat
        /\ Len(logs) + messages + Len(attempts) + Submits <= MaxRows /\ MaxRows \in Nat
    BY SubmitsIsNat, AchievementsAssumption DEF RowsInv
  <2> QED
    BY <2>1, AchievementsAssumption DEF Times
<1>4. o.curiousAt = 0
  BY <1>1, <1>2 DEF Curious
<1> HIDE DEF o
<1>5. stats \in Stats /\ stats.messages = messages /\ stats.curiousAt = o.curiousAt
  BY <1>2, <1>3 DEF Stats
<1>6. Timed(stats)
  BY <1>2 DEF Timed, Stats
<1>7. /\ todo \in SUBSET Steps /\ "count" \notin todo
      /\ "tenth" \in todo => messages >= Target
  BY <1>2 DEF Looks
<1>8. "tenth" \notin todo => ~(messages >= Target)
  BY <1>1, <1>2 DEF Curious
<1>9. at.stats = stats /\ at.todo = todo
  BY <1>2 DEF Looks
<1> HIDE DEF stats, todo
<1>10. Curious(at, TRUE)
  <2> HIDE DEF at
  <2> QED
    BY <1>3, <1>4, <1>5, <1>7, <1>8, <1>9 DEF Curious
<1> QED
  BY <1>1, <1>5, <1>6, <1>7, <1>10, ReadInv

LEMMA TenthInv == ASSUME LookInv, RowsInv, ExamInv, ReadTenth PROVE LookInv' /\ ShownInv'
<1> DEFINE o == look.at.stats
           todo == look.at.todo \ {"tenth"}
           time == IF messages >= Target THEN Target ELSE 0
           stats == [o EXCEPT !.curiousAt = time]
           at == [look.at EXCEPT !.todo = todo, !.stats = stats]
<1>1. /\ Read("tenth", todo, stats) /\ look.on
      /\ "count" \notin look.at.todo /\ "tenth" \in look.at.todo
  BY DEF ReadTenth, Read
<1>2. look.at \in Looks /\ o \in Stats /\ Timed(o) /\ Curious(look.at, TRUE)
  BY <1>1 DEF LookInv, Looks
<1>3. time \in Times /\ (messages >= Target => time # 0)
  <2>1. /\ Len(logs) \in Nat /\ messages \in Nat /\ Len(attempts) \in Nat /\ Submits \in Nat
        /\ Len(logs) + messages + Len(attempts) + Submits <= MaxRows /\ MaxRows \in Nat
    BY SubmitsIsNat, AchievementsAssumption DEF RowsInv
  <2> QED
    BY <2>1, AchievementsAssumption DEF Times
<1>4. o.messages >= Target /\ (look.at.hid \/ messages >= Target)
  BY <1>1, <1>2 DEF Curious
<1> HIDE DEF o, time
<1>5. stats \in Stats /\ stats.messages = o.messages /\ stats.curiousAt = time
  BY <1>2, <1>3 DEF Stats
<1>6. Timed(stats)
  BY <1>2 DEF Timed, Stats
<1>7. todo \in SUBSET Steps /\ "count" \notin todo /\ "tenth" \notin todo
  BY <1>1, <1>2 DEF Looks
<1>8. at.stats = stats /\ at.todo = todo /\ at.hid = look.at.hid
  BY <1>2 DEF Looks
<1> HIDE DEF stats, todo
<1>9. Curious(at, TRUE)
  <2> HIDE DEF at
  <2> QED
    BY <1>3, <1>4, <1>5, <1>7, <1>8 DEF Curious
<1> QED
  BY <1>1, <1>5, <1>6, <1>7, <1>9, ReadInv

\* The summary is what the look has read.
LEMMA ShowInv == ASSUME LookInv, GetForUser PROVE LookInv' /\ ShownInv'
<1> DEFINE s == look.at.stats
<1>1. /\ look.on /\ look.at.todo = {} /\ look' = Off
      /\ shown' = [code |-> "ok", badges |-> compute(s), stats |-> s,
                   hid |-> look.at.hid, moved |-> look.at.moved]
  BY DEF GetForUser, EndLook
<1>2. s \in Stats /\ Timed(s) /\ Curious(look.at, TRUE)
  BY <1>1 DEF LookInv, Looks
<1>3. s.messages >= Target \/ s.curiousAt = 0
  BY <1>2 DEF Curious, Stats, Times
<1>4. s.messages >= Target => s.curiousAt # 0 \/ look.at.hid
  BY <1>1, <1>2 DEF Curious
<1>5. LookInv'
  BY <1>1, OffOK DEF LookInv, Curious, Timed
<1> HIDE DEF s
<1>6. compute(s) \in [Badges -> [unlocked: BOOLEAN, at: Times]]
  BY <1>2 DEF compute, Stats, Badges
<1>7. ASSUME NEW b \in Badges
      PROVE  /\ compute(s)[b].at # 0 => compute(s)[b].unlocked
             /\ compute(s)[b].unlocked => compute(s)[b].at # 0 \/ (b = "marcos-curious" /\ look.at.hid)
  <2>1. CASE b = "first-win"
    BY <1>2, <2>1 DEF compute, Timed, Badges
  <2>2. CASE b = "match-diarist"
    BY <1>2, <2>2 DEF compute, Timed, Badges
  <2>3. CASE b = "win-streak-3"
    BY <1>2, <2>3 DEF compute, Timed, Badges
  <2>4. CASE b = "comeback-kid"
    BY <1>2, <2>4 DEF compute, Timed, Badges
  <2>5. CASE b = "marcos-curious"
    BY <1>3, <1>4, <2>5 DEF compute, Badges
  <2>6. CASE b = "padel-license"
    BY <1>2, <2>6 DEF compute, Timed, Badges
  <2> QED
    BY <2>1, <2>2, <2>3, <2>4, <2>5, <2>6 DEF Badges
<1>8. /\ shown'.code = "ok" /\ shown'.badges = compute(s) /\ shown'.stats = s
      /\ shown'.hid = look.at.hid
  BY <1>1 DEF s
<1>9. UnlockedHasTime'
  BY <1>7, <1>8 DEF UnlockedHasTime
<1> QED
  BY <1>2, <1>5, <1>6, <1>8, <1>9 DEF ShownInv

LEMMA LookTypeNext == ExamInv /\ RowsInv /\ LookInv /\ ShownInv /\ [Next]_vars => LookInv' /\ ShownInv'
<1> SUFFICES ASSUME ExamInv, RowsInv, LookInv, ShownInv, [Next]_vars PROVE LookInv' /\ ShownInv'
  OBVIOUS
<1>1. look.at \in Looks /\ look.on \in BOOLEAN /\ look \in [on: BOOLEAN, at: Looks]
      /\ Curious(look.at, look.on)
  BY DEF LookInv
<1>2. CASE Exam
  <2> DEFINE b == look.at.moved \/ (look.on /\ attempts' # attempts)
  <2>1. look' = [look EXCEPT !.at.moved = b] /\ shown' = NoSummary /\ messages' = messages
    BY <1>2 DEF Exam, Seen
  <2>2. b \in BOOLEAN
    BY <1>1 DEF Looks
  <2> HIDE DEF b
  <2>3. /\ look' \in [on: BOOLEAN, at: Looks] /\ look'.on = look.on
        /\ look'.at.todo = look.at.todo /\ look'.at.stats = look.at.stats /\ look'.at.hid = look.at.hid
    BY <1>1, <2>1, <2>2 DEF Looks
  <2> QED
    BY <1>1, <2>1, <2>3, NoSummaryOK DEF LookInv, Curious, Timed
<1>3. CASE CreateMatch \/ UpdateMatch \/ SendMessage
  <2>1. look' = look /\ shown' = NoSummary /\ (messages' = messages \/ messages' = messages + 1)
    BY <1>3 DEF CreateMatch, UpdateMatch, SendMessage
  <2>2. messages' >= Target \/ ~(messages >= Target)
    BY <2>1, AchievementsAssumption DEF RowsInv
  <2> QED
    BY <1>1, <2>1, <2>2, NoSummaryOK DEF LookInv, Curious, Timed
<1>4. CASE SoftDelete
  <2>1. look' = [look EXCEPT !.at.hid = look.on] /\ shown' = NoSummary
    BY <1>4 DEF SoftDelete
  <2>2. /\ look' \in [on: BOOLEAN, at: Looks] /\ look'.on = look.on
        /\ look'.at.todo = look.at.todo /\ look'.at.stats = look.at.stats /\ look'.at.hid = look.on
    BY <1>1, <2>1 DEF Looks
  <2> QED
    BY <1>1, <2>1, <2>2, NoSummaryOK DEF LookInv, Curious, Timed
<1>5. CASE StartLook
  <2>1. look' = [on |-> TRUE, at |-> [NoLook EXCEPT !.todo = Steps]] /\ shown' = NoSummary
    BY <1>5 DEF StartLook
  <2>2. /\ look' \in [on: BOOLEAN, at: Looks] /\ look'.at.stats = NoStats /\ look'.at.todo = Steps
    BY <2>1, NoStatsOK DEF NoLook, Looks
  <2>3. NoStats.curiousAt = 0 /\ "count" \in Steps /\ "tenth" \in Steps
    BY DEF NoStats, Steps
  <2> QED
    BY <2>1, <2>2, <2>3, NoStatsOK, NoSummaryOK DEF LookInv, Curious, Timed
<1>6. CASE FailLook
  <2>1. look' = Off /\ shown' = [NoSummary EXCEPT !.code = "error"]
    BY <1>6 DEF FailLook, EndLook
  <2> QED
    BY <2>1, OffOK, NoSummaryOK DEF LookInv, Curious, Timed
<1>7. CASE UNCHANGED vars
  BY <1>7 DEF vars, ownVars, LookInv, ShownInv, Curious, Timed, UnlockedHasTime
<1> QED
  BY <1>2, <1>3, <1>4, <1>5, <1>6, <1>7, MatchesInv, LatestScoreInv, PassedInv, CountInv,
     TenthInv, ShowInv DEF Next

LEMMA BadgesInvariant == Spec => [](ExamInv /\ RowsInv /\ LookInv /\ ShownInv)
<1>1. Init => LookInv /\ ShownInv
  <2> SUFFICES ASSUME Init PROVE LookInv /\ ShownInv
    OBVIOUS
  <2>1. look = Off /\ shown = NoSummary
    BY DEF Init
  <2>2. 0 \in Times
    BY AchievementsAssumption DEF Times
  <2> QED
    BY <2>1, <2>2, OffOK, NoStatsOK DEF LookInv, Curious, ShownInv, NoSummary, UnlockedHasTime
<1> QED
  BY <1>1, RowsInvariant, LookTypeNext, PTL DEF Spec

\* The types, and the bounds that every state keeps to.
THEOREM AchievementsType == Spec => []TypeOK
<1>1. ASSUME ExamInv, RowsInv, LookInv, ShownInv PROVE TypeOK
  <2>1. /\ Len(logs) \in Nat /\ messages \in Nat /\ Len(attempts) \in Nat /\ Submits \in Nat
        /\ Len(logs) + messages + Len(attempts) + Submits <= MaxRows /\ MaxRows \in Nat
        /\ Len(attempts) + Submits <= MaxAttempts /\ MaxAttempts \in Nat
    BY <1>1, SubmitsIsNat, ExamAssumption, AchievementsAssumption DEF RowsInv
  <2>2. Len(logs) <= MaxRows /\ messages \in 0..MaxRows /\ Len(attempts) <= MaxAttempts
    BY <2>1
  <2>3. \A i \in DOMAIN logs : logs[i] \in [result: Results, created: 1..MaxRows]
    <3>1. logs \in Seq(LogRows)
      BY <1>1 DEF RowsInv
    <3>2. \A i \in DOMAIN logs : logs[i] \in LogRows
      BY <3>1
    <3> QED
      BY <3>2 DEF LogRows
  <2>4. \A i \in DOMAIN attempts : attempts[i] \in Attempts
    BY <1>1 DEF ExamInv
  <2>5. req \in [Reqs -> Requests]
    <3>1. ASSUME NEW r \in Reqs PROVE req[r] \in Requests
      <4>1. req[r] \in Shapes /\ req[r].from \in 1..MaxPapers /\ req[r].after \in 0..MaxAttempts
        BY <1>1 DEF ExamInv, RowsInv
      <4> QED
        BY <4>1 DEF Shapes, Requests
    <3> QED
      BY <1>1, <3>1 DEF ExamInv
  <2>6. ExamTypeOK
    BY <1>1, <2>2, <2>4, <2>5 DEF ExamTypeOK, ExamInv, RowsInv
  <2> QED
    BY <1>1, <2>2, <2>3, <2>6 DEF TypeOK, LookInv, ShownInv
<1> QED
  BY <1>1, BadgesInvariant, PTL

\* A badge is dated if and only if it is unlocked, however the reads of a look fall among
\* the writes; only the tenth message may be hidden before its time is read.
THEOREM DatedWhenUnlocked == Spec => []UnlockedHasTime
<1>1. ShownInv => UnlockedHasTime
  BY DEF ShownInv
<1> QED
  BY <1>1, BadgesInvariant, PTL
=============================================================================
