# A TLA+ verification of marco-api

marco-api is the Go backend of a padel coaching app: a Fiber HTTP server over
PostgreSQL, the Anthropic API and SendGrid. This directory holds TLA+ modules
of its core, the TLC configurations that check them on small instances, and
TLAPS proofs for every value of the constants.

    tlc -config MCAuthSessions_tokens.cfg MCAuthSessions     (likewise the other runs)
    tlapm AuthSessionsProofs.tla                             (likewise the other *Proofs)

## 1. The system

Handlers run concurrently, one goroutine per request, and share nothing in
memory but the rate limiter's counters. They meet in the database, mostly
through single autocommitted statements: what a handler read before may be
stale when it is used. A request that fails in the middle leaves what it did.
There is no job, retry or recovery code in the server.

| Component | State | Operations | Interacts with | What makes it correct |
|---|---|---|---|---|
| device sessions, refresh tokens (`auth`, `middleware/auth.go`) | `sessions`, `refresh_tokens`, `users.password_hash` | GoogleSignIn, EmailSignUp, EmailSignIn, Refresh, SignOut, ListDevices, RevokeDevice, RevokeOtherDevices; IsSessionLive on each request | users, password reset | one token per device; revoked is final; a device is lost only by its owner; answers are true |
| password reset (`auth/password_reset.go`) | `password_reset_tokens` | ForgotPassword, ResetPassword | email, sessions | a mailed code has one winner; guesses are bounded; no password for a Google account |
| chat streaming (`chat/handler.go`, `anthropic`) | two channels, two goroutines, the connection | Post | prompt assembly, chat history | the client is told once how the reply ended; both goroutines end; only a finished reply is stored |
| chat history (`chat/store.go`) | `messages` | SaveTurn, GetHistory, SoftDelete, SetFeedback | chat streaming, prompt assembly | scrolling back misses and repeats nothing, and ends |
| prompt assembly (`marco/context.go`) | none | Build | every table | the conversation in the prompt keeps questions and answers together |
| reply tokens (`marco/lesson_refs.go`, `match_log.go`, `match_prep.go`) | none | ParseLessonRefs, ParseMatchLogToken, ParseMatchPrepToken, CleanContent | chat streaming, chat history | what the model meant by its tokens is what the client is offered, and no more than the prose is read later |
| match preparation | `match_preparation`, its drills | Create, List, Get, Update, ReplaceDrills, SetDrillCompleted, Delete, SuggestDrills | anthropic, marco | drills belong to their preparation; no update is half done; the percentage |
| match logs (`logs`) | `match_logs` | create, update, list, partners | chat history (`message_id`), achievements | validation; the order achievements read them in |
| exam | questions and options, attempts and answers | ListQuestions, SubmitAttempt, GetLatestAttempt, seed_exam.sql | achievements | a stored score is that of its answers to the paper there is; the results screen agrees with itself |
| lessons | `user_lesson_progress` | ListLessons, GetLesson, UpdateProgress | users (plan), seeder | progress is of a stored lesson, and of a premium one only when it was paid for; a list is of one curriculum; every request ends |
| seeder | the lesson tables | Parse (of the curriculum file), Seed (truncate, refill) | lessons | a row is stored for each section of the file or nothing is; progress goes with the lessons it names |
| achievements | none | GetForUser: gather, compute | lessons, exam, logs, chat | a badge is shown exactly when its criterion was met, with the time it was |
| users, email, routes, config, health, rate limiter, QA tools | profile fields; none | CRUD, sending, wiring | | |

The behaviours that are hard to test are the `hazards` of PROJECT.json, each at
its line. Most are of one kind: two requests interleave between the statements
of a handler. The others are a select over two channels, a client that leaves,
statements that fail half-way through a handler, page boundaries, answers read
beside or after the transaction they report, table locks that two statements
take in opposite orders, and the parsing of text that the model or an operator
wrote.

## 2. Modules

In the order in which they were written:

1. `AuthSessions` — sessions, tokens, the middleware; `DeviceAccess`, its abstract specification; `AuthSessionsProofs`.
2. `PasswordReset` — codes; `OneTimeCode`, its abstract specification; `PasswordResetProofs`.
3. `ChatStream` — one chat turn; `OneReply`, its abstract specification; `ChatStreamProofs`.
4. `ChatHistory` — saved turns, hidden messages, pages, the prompt's conversation; `ChatHistoryProofs`.
5. `MatchPreparation` — preparations and their drills under concurrent requests, with transactions and row locks; `MatchPreparationProofs`.
6. `Exam` — papers, attempts and the seeding of the exam; `Achievements` — composes it with match logs and messages into the badges; `AchievementsProofs`.
7. `ReplyTokens` — the parsers of a reply as operators; `ChatReply` — composes them with `ChatStream`.
8. `CurriculumFile` — the parser of the seeder as operators; `Curriculum` — lessons, progress and the plan gate beside the seed command; `LessonBadges` — composes them with the four badges for lessons; `CurriculumProofs`.

`Induction` holds what `AchievementsProofs` and `CurriculumProofs` share: induction
on naturals and the folds of the community modules.

What could follow: SuggestDrills with the repairs of validateDrills; the other
reads of Build.

`MCAuthSessions`, `MCPasswordReset` and `MCAchievements` add only the symmetry
sets of TLC, `MCLessonBadges` the files an operator may write. `MCChat` runs
`ChatReply` and `ChatHistory` as a sum: they share no variable, so a behaviour of
both is a shuffle of one of each and the product would show nothing new. Which of
the two moves is chosen in the initial state, and the other rests.

### AuthSessions

A request is a slot with a program counter `pc` and a record `req` of what it
carries and has read. Each label is one SQL statement of the handlers, so
requests interleave between statements and a statement is atomic; `Fail` lets
any statement return an error, which ends the request and undoes nothing.
Signing in is `GoogleLookup` / `SignUpLookup` / `SignInLookup`, `CreateUser`,
`CreateSession`, `SaveRefreshToken`; Refresh is `GetRefreshToken`,
`DropExpired` or `DeleteRefreshToken`, `TouchSession`, `SaveRefreshToken`; a
device request is `IsSessionLive` in the middleware, then `RevokeSession` with
its second read `ConfirmRevoked`, `RevokeOtherSessions`, `RefuseOthers`,
`ListDevices` or `RevokeAllSessions`; the end of ResetPassword is
`UpdatePassword`, `RevokeAllSessions`, `CreateSession`, `SaveRefreshToken`.

A password hash is the number of times the password was replaced, and a
session remembers the number its sign-in had read. `owed`, `raced`, `forked`
and `ver` are history: the code has no such columns, and no guard reads them.
An access token is the session it names; legacy tokens name none. GetUserByID
is folded into the statement after it: users are never deleted, so it only
adds one more point of failure, which `Fail` at that statement already is.

### PasswordReset

One account, since every statement is scoped to a user. Codes are numbered in
the order of `created_at`. Statements are atomic except CreatePasswordResetToken,
whose UPDATE works on the snapshot it began with: `CreateBegins` fixes the time
and the rows it sees, `CreateEnds` supersedes those, purges old rows and makes
the new row visible. `SendPasswordReset` may fail with the mail delivered or
not. Time is the age of a row in four steps (within `resendInterval`, usable,
past `PasswordResetTTL`, older than a day); rows age in order and an insert is
quicker than any window. `tried` counts the wrong guesses compared with a code
and `lost` the guesses whose statements failed; both are history, as are
`changed` and the slot `by` that issued a code. ResendOverlapped is about these
rows. A Google-only account is mailed a notice and gets no row
(`SendPasswordResetForGoogleAccount` changes nothing), so no window ever opens for
it: a finding, below.

### ChatStream

The goroutine of `anthropic.Client.Stream` (`pp`) and the body stream writer of
`Post` (`wp`) over an unbuffered channel, whose send and receive are one step,
and a channel that holds one error. Every receive of the writer's `select`,
every close and every write is an action. The context passed to Stream is
`c.UserContext()`, which nothing cancels, so `ctx.Done()` never fires. The
connection is a pipe that the server closes when the client has left, at any
time; fasthttp and the Anthropic SDK are external, taken as `Post` and `Stream`
use them.

### ReplyTokens and ChatReply

`ReplyTokens` has the functions that read a reply: two regular expressions and
one scan that counts braces outside strings. A text is a sequence of symbols,
one for each character the parsers look at, for each opening of a token, and for
all that is in between; white space is left out, and of JSON only the mode that
ParseMatchPrepToken insists on. Every loop is a fold: over the places of the text
where the code goes from character to character, and over as many turns as the text
has symbols for the loops of ParseMatchPrepToken and CleanMatchPrepTokens, of which
each turn before the last gets further in the text or makes it shorter.

The reference is what the model meant: a reply is made of pieces (prose, a
lesson reference, a match log, a match preparation), and `MeantLog`, `MeantPrep`,
`MeantRefs` and `ProseOf` say of pieces what the parsers must find in the text.

`ChatReply` extends `ChatStream` with the pieces and with the frames that
finishStream sends. The pieces are chosen where the code first looks at them,
when the writer receives the final text, which keeps the states of the stream
as few as they are without a text. The last piece may be any beginning of a
token, as the limit of tokens leaves it.

Two things the parsers do not promise, and the property leaves out. A token
whose braces never balance hides every valid one after it: match_prep.go:38
speaks of the last valid one, and the comment at match_prep.go:103 of an
unfinished token only, so an unfinished token is the last piece. And the
expression for match logs ends at the first "}", so a note that holds one spoils
its token; match_log.go:22 takes for granted that none does.

### ChatHistory

Turns are transactions that fix `created_at` when they begin and show their two
rows when they commit, in any order; two turns may begin in one microsecond. A
client opens the chat, asks for pages of one size before the oldest row it was
shown, and stops when `has_more` is false; messages are hidden all the while.
`Pages` gives the answers GetHistory may give, ties in any order.

`loadHistory` gives what Build may send the model: the last messages by
`created_at`, hidden ones as well, since the SELECT does not look at
`deleted_at`, and the two rows of a turn, which are of one time, in either
order. PromptKeepsTurns holds because the limit is even (30 in the code) and
because hidden rows count: the mutant that leaves them out, as the pages do,
splits a turn.

### MatchPreparation

The preparations of one user. Each label of a request is one SQL statement, but
Create, Update and ReplaceDrills are transactions: what they wrote shows at
their COMMIT (`Create`, `UpdateCommits`, `PutCommits`), and `lock` holds the
row locks of Update's UPDATE and ReplaceDrills' SELECT ... FOR UPDATE until
then. A drill that a transaction has deleted (`old`) makes a tick wait. Get and
List are two SELECTs without a transaction, and so is the answer of
ReplaceDrills, read after its COMMIT. Any statement may fail, a COMMIT also
after it took effect. A drill is named by the queue write that inserted it and
its place there, so a property can tell two queues apart; `told` is the answer
of the step just taken, with what the request had read. `note` stands for the
three text columns that a patch sets or leaves; the columns a patch also clears
have no such trouble and are left out, as are titles, durations and the call of
the model in SuggestDrills.

### Exam and Achievements

`Exam` has the exam's requests and seed_exam.sql; `Achievements` extends it with
the tables and the reads that make badges, and its `Next` composes the two.

SubmitAttempt is two steps, the read of the questions with the grading and then
the transaction, seen at its COMMIT; attempts are in the order of the times
their transactions began, so one may come in before another that is stored
already. GetLatestAttempt is its three SELECTs. psql runs seed_exam.sql
statement by statement: `TruncateExam` empties the exam with its attempts, and
`InsertQuestions` stores a paper whose questions have new ids. A question is
reduced to which option is right, and a pick to right, wrong, none or an option
of another question; what a client picks is chosen at the step that first looks
at it. A pick made on an older paper names ids that are gone and is ignored.

In `Achievements` the four groups of GetForUser are reads of one `look`, in any
order between groups. fillMatchStats is a fold over the rows in the order of its
ORDER BY, one operator per branch of its switch; `Earned` is the reference, the
criterion of each badge over all rows at once, and the date a badge should bear
is that of the first row whose prefix earns it. Times are row numbers. `hid` and
`moved` are history of the look, `seeded` of an exam request.

For comeback-kid the reference is what the pass says of itself: a draw "neither
extends nor breaks the comeback setup" (store.go:182). The catalogue asks for "two losses
in a row" (model.go:100), which is CatalogueComeback, and the code does not keep it.
So OnePassFindsBadges is about the pass, that its counters of prefixes find and date
what a look at the whole log would, and not about the wording of that one criterion.

### Curriculum and LessonBadges

`CurriculumFile` is Parse and validateLesson as a fold over lines. A file is
written in sections, one for each lesson, with the slips an operator makes: a
mistyped header, a missing text, a cue too few, a drill line that does not match. A
mistyped header is a line like any other, so what follows goes to the lesson
before and gives it too many cues; above the first good header it is dropped
without a word. What is stored is compared with the sections as written
(`SectionRows`), not with what the parser makes of them. SeedIsItsFile says that a
seeding of whole sections whose first header is good stores a row for each or nothing;
without that condition it is EverySectionSeeded, which the code does not keep. Nothing
is asked of a section that is not whole: it is refused, unless a mistyped header
joins it to the section above and each has what the other lacks.

`Curriculum` has the seed command and the requests of one user. The command
parses before it opens the database, so a file with an error changes nothing.
Seed is one transaction, seen at its commit, but its TRUNCATE takes locks in the
order in which it names the tables: cues, drills and progress first
(`TruncateChildren`), then lessons, for which it may have to queue
(`TruncateQueues`, `TruncateLessons`). A SELECT of lessons takes lessons first
(`LockLessons`) and the other tables when it runs (`SelectAll`,
`GetLessonBySlug`). So the two can wait for each other, and PostgreSQL ends one
of them (`DeadlockDetected`). `SeedInserts` stands for all INSERTs: nobody sees
one without the others; two titles with one slug break the UNIQUE constraint
and the command ends. A statement of a request that finds no lock is one step.
What a request asks for is chosen at the statement that first uses it.

An id is the pair of the seeding and the place in the file, since every
seeding draws new ids. `updated_at` is the number of writes of progress until
then: `now()` and the write are one step. `versions`, `paid` and `reseeded` are
history. The plan is written from outside, at any time.

`LessonBadges` adds GetForUser's two statements on lessons, `CountLessons` and
`ReadProgress`. fillLessonStats is a fold over the rows in any order, since the
SELECT has no ORDER BY, and `Earning` is the reference: the rows that earn a
badge, looked at all at once.

## 3. Runs

| Run | What it asks | Bounds |
|---|---|---|
| tokens | one token per device, and revoked is final (liveness), with failing statements and ageing tokens | 1 user, 1 session, 3 tokens, 2 requests, 1 reset, legacy tokens |
| owners | truthful revocations, no lock-out, a token lost only by spending it, no session that outlives a reset unnoticed, DeviceAccess | 2 users, 2 sessions, 3 tokens, 2 requests, 1 reset, legacy tokens, no faults |
| stale | *violated*: OnlyResetDeviceLeft | 1 user, 2 sessions, 2 requests |
| codes | guesses, windows and codes under two overlapping requests, OneTimeCode | 2 codes, 2 requests, 2 attempts, 1 lost guess |
| old_codes | *violated*: OldCodesDead | 2 codes, 2 requests |
| chat | OneReply, that both goroutines end, and that replies are read as they were meant; or that scrolling back skips and repeats nothing and reaches the root, and the prompt keeps turns together | replies of up to 3 pieces of 9 kinds, the last one cut off anywhere; 3 turns, pages of 1 to 4 rows, a prompt of 4 |
| gone | *violated*: SavedEvenIfClientDisconnects | replies of up to 2 pieces |
| queue | whole queues and true answers under two overlapping requests | 1 preparation, 3 queue writes of up to 2 drills, 2 requests |
| badges | stored attempts and results screens under reseeding; badges by the whole log, their dates, and reads without a snapshot | papers of up to 2 questions, 1 reseeding, 2 attempts, 4 rows in all, 2 requests (one may be the look), targets 2 for 10 |
| comeback | *violated*: CatalogueComeback | 4 matches |
| lessons | a row for each section or nothing, progress is earned, lists and badges are true, and every request ends beside the seed command | files of up to 2 sections of 6 kinds, 2 seedings, 2 writes of progress, 1 request beside a look, 2 cues to a lesson, 1 free lesson |
| dropped | *violated*: EverySectionSeeded | files of up to 2 sections, 1 seeding |

Two requests and two devices are enough for the races of this code: each is
between one statement of one handler and one of another, and a third request
adds no new pair. Three tokens let a device fork once and lose one more. Two
codes are a code and its successor, two attempts are one below and one at the
limit. In `codes` and `tokens` the bounds on ids keep a request from beginning
for which no id is left, so no behaviour is cut off in the middle. Three turns
make a page boundary fall before, within and after a group of rows that share a
time. In `chat`, three pieces
put a token before, after and between others of its kind. Two sections make a
slip in the first or in the second lesson, with a lesson before it or none; two
seedings are a curriculum and the one that replaces it; one request meets the
command and the look, and requests meet each other only in the upsert, which is
one statement. In `queue`, preparations share nothing but the slots of requests, so one is
enough; three writes are a Create and two PUTs that race, and two drills make a
queue that can be half of one write. In
`badges`, four rows are three wins and what may undo them, or two losses, a draw
and a win; a target of 2 is reached and passed like one of 10, a pass mark of 1
can be missed, met and exceeded. Matches are added or edited beside a look only
while there is at most one row, and not beside an exam request: the look reads
them in one statement, so more of them bring no new interleaving.
Where the proofs cover a property, the bounds do not matter. `chat` and `gone` do not
check for deadlock: a turn ends, a scroll ends at the root, and in `gone` the
producer may be left blocked, which is what the run is about.

Fairness. Handlers and goroutines that can move are scheduled: `WF` on the
steps of each request, of the producer and of the writer, and on the client's
next page while it is scrolling back. In `lessons` also `WF` on the steps of the
seed command, a process that runs on, and on `DeadlockDetected`, since
PostgreSQL ends a deadlock after its timeout; that the command commits or is
ended is all a request needs to get its locks. Elsewhere nothing blocks on
another request for longer than its transaction. The model is assumed to end its reply at last (it has a token limit).
New requests, faults, ageing, departures and new runs of the seed command carry
no fairness.

Findings (the violated runs):

* **OnlyResetDeviceLeft.** EmailSignIn that read the old hash creates its session after the reset's RevokeAllSessions. The comment at password_reset.go:239 calls the new session "the only one left standing". StaleSessionsRaced shows that this race is the only way.
* **OldCodesDead.** Two overlapping CreatePasswordResetToken statements leave two live codes, and nothing kills the older one after a reset with the newer, although store.go:43 and :58 say so. LiveCodesOverlapped shows that overlapping requests are the only way.
* **SavedEvenIfClientDisconnects.** A write to a connection whose client left ends the turn unsaved and leaves the producer blocked, where the comment at handler_test.go:302 expects both messages to be stored.
* **CatalogueComeback.** Lost, draw, lost, won unlocks comeback-kid, whose criterion is "two losses in a row" (model.go:100; "consecutive losses" at compute_test.go:242): a draw does not clear the count of losses.
* **EverySectionSeeded.** A file whose first header is mistyped is seeded without its first lesson and without an error (curriculum.go:109), although the file is "the single source of truth for lesson content" (curriculum.go:2) and the rows it replaces are truncated.

Three more disagreements show in single statements, and no run is needed to see them:

* `Create` of a match preparation stores the drills' `completed` flags. The comment at handler.go:50 says they are ignored on create, the one at store.go:106 that creates pass false, but validateDrills copies them for both callers (handler.go:609). The model follows the code: a created queue may be ticked.
* `Update` turns a blank partner, court or note into nil, commented "store NULL" (handler.go:192), and nil leaves the column: these fields can be changed but not emptied.
* The notice to a Google-only account is not throttled. resendInterval is there to stop the endpoint "being used to flood someone's inbox" (password_reset.go:27), but the window is read off rows and the notice leaves none (password_reset.go:114), so every request mails it.

## 4. Proofs

| Theorem | For every |
|---|---|
| AuthSessionsProofs: TypeCorrect, OneToken, StaleRaced, HealthyDevice, TokenLost, RevokeAnswers, RevokedWhenTold, Implements | number of users, sessions, tokens and requests, with and without faults |
| PasswordResetProofs: TypeCorrect, LiveOverlapped, NoPassword, Implements, ResendRaced, GuessesBounded | number of codes, requests, attempts |
| ChatStreamProofs: TypeCorrect, Implements, TextImplements, ReadBackCorrect | length of reply, and wherever the limit cuts it off |
| ChatHistoryProofs: TypeCorrect, NothingLost, NeverForward, PromptWhole | number of turns, size of pages and of the prompt |
| MatchPreparationProofs: TypeCorrect, QueueWhole, OneTransaction, AnswersTrue, HundredTrue | number of preparations, queue writes and requests, length of queue up to 20 |
| AchievementsProofs: AchievementsType, GradedRight, ScreenAgrees, LicenseEarned, OnePassCorrect, LoggingKeeps, DatedWhenUnlocked | papers, number of seedings, attempts, matches, messages and requests, any log of matches |
| CurriculumProofs: LessonBadgesType, EarnedAlways, WholeAlways, FileIsSeeded, LessonBadgesEarned | files of any length, number of requests, seedings, writes and cues |

The assumptions are those the modules name: null values are outside their sets,
bounds are naturals (`MaxRows` at least 1, so that there is something to look
at), `Reqs` is finite where requests or what they may write are counted.

*Induction.* A fold or a recursive function is by definition a function chosen to
satisfy its equation, so a theorem about it first shows that one exists. `Induction`
does that once: a set of naturals that holds 0 and successors holds all; a function
that is fixed by its value at 0 and by its steps exists; `FoldLeft` and `FoldRight`
over a sequence therefore take one step for each element, `MapThenFoldSet` one for
each member, `FlattenSeq` appends one sequence after the other. The theorems about
passes over rows, lines and cues are stated over the length of the prefix read.

*AuthSessions.* `Base` joins the types with what requests and rows look like at
each label: which label an operation may be at, that a request at `save` or
`touch` names a session of its user, that a token belongs to its session's user
and a session without tokens reached no client. OneTokenUnlessForked,
StaleSessionsRaced and HealthyDeviceKeepsToken are inductive relative to it
(the last with the fact that no token expires when tokens do not age). The
refinement maps `caller` to the session of requests past the check, and every
statement to a sign-in, an admission, a sign-out or a stutter. TokenLost needs that
the token a request is about to drop as expired is not one that has been issued since
under its id (`DropsExpired`). RevokeAnswers needs `RevokesOK`: the session named was
a row when the request came, and at the second read it is revoked if it is the
caller's, because rows of sessions stay and revoked ones stay revoked (`RowsStay`).
It holds while no statement fails, since an error of the second read is told as "not
found"; RevokedWhenTold is the half that needs no such condition.

*PasswordReset.* `Base` adds to the types that an id is left for every request
that will ask for one, what each label holds (a request at `consume` holds a
mailed code, one at `update` a redeemed one) and that no two requests insert
one row or redeemed one code. `LiveInv` adds that a request about to insert has
seen every live row of its own slot: the others would survive it. `GoogleInv`
adds that a Google-only account has no rows and no request past the window
check. The refinement maps redeemed rows to `spent` and requests at `update` to
holders of a code. `ResendInv` says that a slot past the window check has no row
within the window, and gets there by what age means: rows age in the order of
their ids, and nothing newer than a row being inserted has aged, so if the newest
row is past the window all are. `GuessInv` counts: the wrong guesses at a live
code are counted in `attempts`, about to be counted, or lost, and those beyond
the limit are of requests about to burn it, of which there is one to a slot.

*ChatStream.* `ProducerInv` ties the producer's label to the channels it has
closed, `WriterInv` says that a failed stream has its error in `errs` until the
writer returns, and `PiecesInv` that every piece said was shown or is in the
hand of one of the two. With these, an empty pair of closed channels means that
the reply ended, which is what OneReply asks.

*ChatReply.* Every step of the model with the text is a step of ChatStream, so what is
proved of that one holds (TextImplements). `TextInv` says what the pieces look like, all
but the last one finished, and that the frames are the ones meant as long as the writer
is about to send done. The rest of ReadBackCorrect is about operators, and follows the
parsers through a text of any length. `Laid` says where each piece ends in the text; only
the first symbol of a piece opens a token, and the piece is then that token or what the
limit left of it (`PieceSymbols`). So the two regular expressions match at the first
symbol of a whole token and nowhere else (`RefMatches`, `LogMatches`), and a pass that
replaces what they match replaces piece by piece (`ReplaceIsFlat`). The scan for braces is
walked through symbol by symbol for each preparation (`PrepScan`), whole or cut off: it
stops at the last brace if that is in the text, and nowhere otherwise, since a preparation
that is cut off is the last piece. The loop of ParseMatchPrepToken then has the invariant
that its cursor is between two pieces, with the last payload meant before it (`Turns`), and
the loop of CleanMatchPrepTokens that the text is the one of the same pieces, some
preparations taken out (`Cleanings`); a variant shows that the loops get to their end.

*MatchPreparation.* `Base` adds to the types `LocksOK`, that a row is locked by
exactly the request at a label inside its transaction; `Shape`, among it that a
PUT about to commit deletes the queue as it still is; and `Apart`, that no two
requests write under one number or create one row. The lemma `OthersKept` says
once what a step of one request must leave for the others to keep their shape:
the live rows they have locked and, at `put_commit`, the queues.

Three answers are about two moments, so the invariant speaks of
requests between them. `Kept` adds to `Base`: what an operation asks for at each
label (`OpOK`), that the drills a PUT replaced have a number which no stored
drill and no request about to write still has (`GoneOK`, so the read after its
COMMIT tells none of them), that what Update has read stays, but for ticks,
until it commits (`SeenOK`, by the row lock), and that drills of one write
belong to one preparation (`WritesApart`). HundredTrue needs arithmetic as well:
the rounded percentage of a queue with an open drill is below 100 for less than
200 drills, and validateDrills lets 20 through, which is the assumption
`MaxQueue <= 20`.

*ChatHistory.* `Base` adds to the types that a turn which has not begun is not
there, and that a page shows saved rows at or after the cursor. NothingSkipped
is inductive relative to it and to the fact that `GroupsFit` can only become
false while a scroll goes on: rows are added and keep their time. The step that matters, `GetHistory`,
rests on what LIMIT may return: rows that tie with the first row left out are
cut, so all that is kept is later than all that is not, unless a group alone
fills the page. PromptWhole is a counting argument: rows that the limit cuts off
are no later than the ones it keeps, so if one row of a turn is kept and the
other is not, the kept ones are that row and whole turns, an odd number.

*Exam and Achievements.* `ExamInv` says what a request carries (`ReqOK`): an attempt about to be
saved is worth what its answers are, and fits the paper if it is of the same
number; what GetLatestAttempt has read fits the paper unless an exam was seeded
since it began. A seeding leaves no attempt and no paper of the same number, so
an attempt that passes the foreign keys was graded by the paper there is.
`LookOK` says that what a look has read of the attempts is true of them until
they change.

The badges for matches are a pass over the log. The pass invariant (`Tally`) says of
each counter of fillMatchStats whether it has reached the numbers that matter (1, 2 or 3),
in terms of rows of the prefix read: a win by that row, a run of so many wins ending at or
before it, so many losses; and (`Dated`) each date is the time of the first prefix that
meets the criterion; both are kept by each step whatever the match, which makes
OnePassCorrect a statement about the whole log. LoggingKeeps compares two logs
of which one is the other with a row put in. DatedWhenUnlocked adds what a look has
read so far (`LookInv`): a count and a date that come from different statements may
differ only by a message hidden in between.

*Curriculum.* `Inv` says that whatever a request has read was stored once, that
a list in progress holds all of one curriculum, and that a request which goes on
to write progress on a premium lesson comes from a plan that was paid at some
time (`PlansPaid`, `UpdatesPaid`). Progress of a lesson that is gone cannot
appear, since the foreign key looks at the rows of that moment.

FileIsSeeded is first a theorem about the parser: after any number of lines its state
is an error, the lessons that the sections read so far stand for, those with the section
being read, or a lesson that has swallowed a mistyped header and so has too many cues
(`Good`); validateLesson refuses the last. If every section is whole and the first header
is good, a parse without an error therefore has a lesson for each section
(`ParseIsWhole`): none was swallowed and none came before the first. Then `StoreInv`
carries the lessons from the file to the tables: what the seed command holds is what
Parse makes of its file (`SeedHolds`), only the commit of a seeding changes the stored
lessons (`OnlySeedsChange`), and its rows are then those of the sections
(`RowsAreSections`). Rows have an id for each seeding that no earlier version has
(`LessonsHold`), and progress fits the lessons there are (`ProgressHolds`).

LessonBadgesEarned is a pass over rows that come in any order: what `fillLessonStats`
has counted is what the rows seen so far amount to (`Reports`), every row of the table
is seen once, and sums over the rows are sums over the table. `LookHolds` says that the
count of lessons a look has read is true of the rows it reads unless the curriculum was
seeded in between.

Model-checked only: the liveness properties (SignedOutIsFinal, BothEnd,
RootReached, RequestsEnd), which rest on fairness and are out of the prover's
reach. Every other property of a passing run is a theorem.

## 5. Not modelled

* SuggestDrills' call of the model and validateDrills' repairs of its reply: they write nothing, and what a client keeps of them comes back as a PUT.
* The reads of Build other than the conversation (profile, matches, lessons, preparations, exam): single SELECTs that only meet in the text of the prompt.
* The filter by level and the order of the list of lessons; the validation and listing of match logs; SetFeedback and UpdateUser, which write columns that nothing modelled reads.
* JWT and bcrypt; the text of prompts, mails and frames.
* The per-IP rate limiter, which no property here relies on; routes, configuration, database and health: wiring and I/O. The QA and smoke commands talk to a running server.

Isolation is PostgreSQL's READ COMMITTED taken per statement, with the one
statement that races with itself, CreatePasswordResetToken, in two steps, and
with the transactions of chat, exam, match preparation and the seeding seen at
their COMMIT.
