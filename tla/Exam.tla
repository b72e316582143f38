-------------------------------- MODULE Exam --------------------------------
(***************************************************************************)
(* The rules exam: one user hands in papers and looks at the last result   *)
(* while migrations/seed_exam.sql replaces the questions.  psql runs that  *)
(* file one statement at a time, so the exam is empty for a while; a       *)
(* TRUNCATE waits for the transactions on its tables.                      *)
(*                                                                         *)
(* Each seeding is a paper with questions of its own, whose ids no other   *)
(* paper has.  Attempts and answers are never updated: an attempt carries  *)
(* its answers, and is stored until its paper is truncated.  attempts is   *)
(* in the order of completed_at, the time its transaction began.  Of the   *)
(* options of a question only this is kept: which was right, and which     *)
(* are another question's.                                                 *)
(***************************************************************************)
EXTENDS Integers, FiniteSets, Sequences, SequencesExt

CONSTANTS
    Questions,      \* order_index of the questions a paper may have
    PassingScore,   \* 18 in the code
    MaxPapers,      \* bound: seedings
    MaxAttempts,    \* bound: attempts stored under one paper or about to be
    Reqs            \* request slots: requests that are in flight together

ASSUME ExamAssumption ==
    /\ IsFiniteSet(Questions) /\ IsFiniteSet(Reqs)
    /\ PassingScore \in Nat /\ MaxPapers \in Nat \ {0} /\ MaxAttempts \in Nat

VARIABLES
    paper,          \* exam_questions and exam_options
    attempts,       \* exam_attempts and exam_attempt_answers
    pc,             \* where each request is in its handler
    req,            \* what it carries and has read
    told            \* the answer given in this step

examVars == <<paper, attempts, pc, req, told>>

Picks == {"none", "right", "wrong", "foreign"}      \* of the options of a question
Marks == Picks \ {"foreign"}
Sheets == UNION {[Q -> Marks] : Q \in SUBSET Questions}
Papers == [n: 1..MaxPapers, qs: SUBSET Questions]
Attempts == [paper: 1..MaxPapers, score: 0..Cardinality(Questions),
             total: 0..Cardinality(Questions), passed: BOOLEAN, sheet: Sheets]
NoSheet == [q \in {} |-> "none"]
NoAttempt == [paper |-> 1, score |-> 0, total |-> 0, passed |-> FALSE, sheet |-> NoSheet]

Requests == [from: 1..MaxPapers,   \* the paper it picks on
             attempt: Attempts,
             after: 0..MaxAttempts,     \* attempts there were when it was graded
             seen: Papers,
             seeded: BOOLEAN]       \* a seeding ran since it began; history
NoRequest == [from |-> 1, attempt |-> NoAttempt, after |-> 0,
              seen |-> [n |-> 1, qs |-> {}], seeded |-> FALSE]

Pcs == {"idle", "questions", "save", "latest", "latest_questions", "answers"}
Answers == [code: {"none", "created", "ok", "not_found", "bad_pick", "error"},
            attempt: Attempts, review: Sheets, seeded: BOOLEAN]
NoAnswer == [code |-> "none", attempt |-> NoAttempt, review |-> NoSheet, seeded |-> FALSE]

ExamInit ==
    /\ paper \in {[n |-> 1, qs |-> Q] : Q \in SUBSET Questions}
    /\ attempts = <<>>
    /\ pc = [r \in Reqs |-> "idle"]
    /\ req = [r \in Reqs |-> NoRequest]
    /\ told = NoAnswer

-----------------------------------------------------------------------------
(* Grading.                                                                *)

Right(sheet) == {q \in DOMAIN sheet : sheet[q] = "right"}

\* Picks of questions that are not on the paper are ignored.
PickOf(q, from, picks, p) == IF from = p.n THEN picks[q] ELSE "none"

BadPick(from, picks, p) == \E q \in p.qs : PickOf(q, from, picks, p) = "foreign"

gradeAttempt(from, picks, p) ==
    LET sheet == [q \in p.qs |-> PickOf(q, from, picks, p)]
        score == Cardinality(Right(sheet)) IN
    [paper |-> p.n, score |-> score, total |-> Cardinality(p.qs),
     passed |-> score >= PassingScore, sheet |-> sheet]

-----------------------------------------------------------------------------
(* Steps of a request.                                                     *)

Goto(r, p, q) == pc' = [pc EXCEPT ![r] = p] /\ req' = [req EXCEPT ![r] = q] /\ told' = NoAnswer

Answer(r, code, attempt, review) ==
    /\ pc' = [pc EXCEPT ![r] = "idle"]
    /\ req' = [req EXCEPT ![r] = NoRequest]
    /\ told' = [code |-> code, attempt |-> attempt, review |-> review, seeded |-> req[r].seeded]

Refuse(r, code) == Answer(r, code, NoAttempt, NoSheet)

\* The client picked on a paper that ListQuestions once gave it.
BeginSubmit(r) == \E from \in 1..paper.n :
    /\ pc[r] = "idle"
    /\ Len(attempts) + Cardinality({s \in Reqs : pc[s] \in {"questions", "save"}}) < MaxAttempts
    /\ Goto(r, "questions", [NoRequest EXCEPT !.from = from])
    /\ UNCHANGED <<paper, attempts>>

\* What was picked matters here first, and is chosen here.
GetQuestionsForReview(r) == \E picks \in [Questions -> Picks] :
    /\ pc[r] = "questions"
    /\ LET from == req[r].from IN
       \/ paper.qs = {} /\ Refuse(r, "error")
       \/ paper.qs # {} /\ BadPick(from, picks, paper) /\ Refuse(r, "bad_pick")
       \/ /\ paper.qs # {} /\ ~BadPick(from, picks, paper)
          /\ Goto(r, "save", [req[r] EXCEPT !.attempt = gradeAttempt(from, picks, paper),
                                        !.after = Len(attempts)])
    /\ UNCHANGED <<paper, attempts>>

\* The foreign keys of the answers hold back an attempt at a paper that is gone.
\* Those that committed meanwhile may have begun before or after this one.
\* A COMMIT that returns an error may have committed.
SaveAttempt(r) ==
    /\ pc[r] = "save"
    /\ \/ /\ paper.qs = {} \/ req[r].attempt.paper # paper.n
          /\ Refuse(r, "error") /\ UNCHANGED attempts
       \/ /\ paper.qs # {} /\ req[r].attempt.paper = paper.n
          /\ \E i \in req[r].after + 1..Len(attempts) + 1 :
               attempts' = InsertAt(attempts, i, req[r].attempt)
          /\ \/ Answer(r, "created", req[r].attempt, req[r].attempt.sheet)
             \/ Refuse(r, "error")
    /\ UNCHANGED paper

-----------------------------------------------------------------------------
(* GetLatestAttempt: three statements.                                     *)

BeginLatest(r) ==
    /\ pc[r] = "idle" /\ Goto(r, "latest", NoRequest)
    /\ UNCHANGED <<paper, attempts>>

ReadLatest(r) ==
    /\ pc[r] = "latest"
    /\ \/ attempts = <<>> /\ Refuse(r, "not_found")
       \/ /\ attempts # <<>>
          /\ Goto(r, "latest_questions", [req[r] EXCEPT !.attempt = attempts[Len(attempts)]])
    /\ UNCHANGED <<paper, attempts>>

ReadQuestions(r) ==
    /\ pc[r] = "latest_questions"
    /\ Goto(r, "answers", [req[r] EXCEPT !.seen = paper])
    /\ UNCHANGED <<paper, attempts>>

\* A question without an answer is shown as unanswered and wrong.
ReviewOf(p, sheet) == [q \in p.qs |-> IF q \in DOMAIN sheet THEN sheet[q] ELSE "none"]

\* Mutant: the answers are those of the attempt that is the last by now.
ReadNewestAnswers(r) ==
    /\ pc[r] = "answers"
    /\ LET q == req[r]
           stored == paper.qs # {} /\ q.attempt.paper = paper.n IN
       Answer(r, "ok", q.attempt,
         ReviewOf(q.seen, IF stored /\ q.seen.n = paper.n
                            THEN attempts[Len(attempts)].sheet ELSE NoSheet))
    /\ UNCHANGED <<paper, attempts>>

\* The answers of the attempt, if it is stored still, to the questions that were read.
ReadAnswers(r) ==
    /\ pc[r] = "answers"
    /\ LET q == req[r]
           stored == paper.qs # {} /\ q.attempt.paper = paper.n IN
       Answer(r, "ok", q.attempt,
         ReviewOf(q.seen, IF stored /\ q.seen.n = paper.n
                            THEN q.attempt.sheet ELSE NoSheet))
    /\ UNCHANGED <<paper, attempts>>

-----------------------------------------------------------------------------
(* seed_exam.sql.                                                          *)

Seeding ==
    /\ req' = [r \in Reqs |-> IF pc[r] = "idle" THEN req[r] ELSE [req[r] EXCEPT !.seeded = TRUE]]
    /\ told' = NoAnswer
    /\ UNCHANGED pc

\* Mutant: the attempts stay.
TruncateQuestions ==
    /\ paper.qs # {} /\ paper.n < MaxPapers
    /\ paper' = [paper EXCEPT !.qs = {}]
    /\ Seeding
    /\ UNCHANGED attempts

TruncateExam ==
    /\ paper.qs # {} /\ paper.n < MaxPapers
    /\ paper' = [paper EXCEPT !.qs = {}]
    /\ attempts' = <<>>
    /\ Seeding

InsertQuestions == \E Q \in SUBSET Questions :
    /\ paper.qs = {} /\ paper.n < MaxPapers /\ Q # {}
    /\ paper' = [n |-> paper.n + 1, qs |-> Q]
    /\ Seeding
    /\ UNCHANGED attempts

-----------------------------------------------------------------------------

Fail(r) == pc[r] # "idle" /\ Refuse(r, "error") /\ UNCHANGED <<paper, attempts>>

ExamStep(r) ==
    \/ GetQuestionsForReview(r) \/ SaveAttempt(r)
    \/ ReadLatest(r) \/ ReadQuestions(r) \/ ReadAnswers(r)
    \/ Fail(r)

-----------------------------------------------------------------------------
(* Properties.                                                             *)

ExamTypeOK ==
    /\ paper \in Papers
    /\ Len(attempts) <= MaxAttempts /\ \A i \in DOMAIN attempts : attempts[i] \in Attempts
    /\ pc \in [Reqs -> Pcs]
    /\ req \in [Reqs -> Requests]
    /\ told \in Answers

\* Every stored attempt answers the paper that is stored, each of its questions, and
\* its score and pass mark are what its answers are worth, though it was graded
\* before its transaction began (store.go:96) and papers are replaced meanwhile.
GradedByItsPaper == \A i \in DOMAIN attempts :
    LET a == attempts[i] IN
    /\ a.paper = paper.n /\ DOMAIN a.sheet = paper.qs
    /\ a.score = Cardinality({q \in paper.qs : a.sheet[q] = "right"})
    /\ a.passed <=> a.score >= PassingScore

\* The results screen never disagrees with itself (seed_exam.sql:25): the score and
\* the total are those of the review below, unless the exam was seeded meanwhile.
ReviewAgrees == told.code \in {"created", "ok"} /\ ~told.seeded =>
    /\ told.attempt.score = Cardinality({q \in DOMAIN told.review : told.review[q] = "right"})
    /\ told.attempt.total = Cardinality(DOMAIN told.review)
=============================================================================
