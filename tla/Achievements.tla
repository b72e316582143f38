---------------------------- MODULE Achievements ----------------------------
(***************************************************************************)
(* The badges of one user, derived on every read from the match logs, the  *)
(* exam attempts (module Exam) and the messages sent.  GetForUser reads    *)
(* the groups concurrently and without a snapshot, while matches are       *)
(* logged and edited, messages are sent and hidden, papers are handed in   *)
(* and the exam is seeded anew.  The badges for lessons: LessonBadges.     *)
(*                                                                         *)
(* logs is ordered as fillMatchStats reads it, by played_on and then       *)
(* created_at; a match may be logged for any day, so a new row may come    *)
(* anywhere.  created_at is the number of rows there were, plus one; the   *)
(* time of a badge is such a number, or 0 for nil.                         *)
(***************************************************************************)
EXTENDS Exam

CONSTANTS
    Target,         \* of match-diarist and marcos-curious; 10 in the code
    MaxRows,        \* bound: matches, visible messages and attempts together
    MaxBesideExam,  \* bound: matches and messages beside an exam request
    MaxBesideLook,  \* bound: the same, when one is written beside a look
    MaxInFlight     \* bound: exam requests and the look, together

ASSUME AchievementsAssumption ==
    /\ Target \in Nat \ {0} /\ MaxInFlight \in Nat
    /\ MaxRows \in Nat \ {0} /\ MaxBesideExam \in Nat /\ MaxBesideLook \in Nat

VARIABLES
    logs,           \* match_logs
    messages,       \* how many messages of the user are not deleted
    look,           \* the GET of the badges that is in flight, if any
    shown           \* the summary answered in this step

ownVars == <<logs, messages, look, shown>>
vars == <<examVars, ownVars>>

Badges == {"first-win", "match-diarist", "win-streak-3", "comeback-kid",
           "marcos-curious", "padel-license"}
Results == {"won", "lost", "draw", "none"}      \* none: stored before one was required
Times == 0..MaxRows
Stats == [matches: Times, wins: Times, longest: Times, comeback: BOOLEAN,
          firstWinAt: Times, diaristAt: Times, streakAt: Times, comebackAt: Times,
          streak: Times, lossesBefore: Times,       \* variables of fillMatchStats
          messages: Times, curiousAt: Times,
          tried: BOOLEAN, passed: BOOLEAN, passedAt: Times]
NoStats == [matches |-> 0, wins |-> 0, longest |-> 0, comeback |-> FALSE,
            firstWinAt |-> 0, diaristAt |-> 0, streakAt |-> 0, comebackAt |-> 0,
            streak |-> 0, lossesBefore |-> 0, messages |-> 0, curiousAt |-> 0,
            tried |-> FALSE, passed |-> FALSE, passedAt |-> 0]

Steps == {"match", "latest", "passed", "count", "tenth"}    \* its SELECTs
Looks == [todo: SUBSET Steps, stats: Stats,
          hid: BOOLEAN,         \* a message was hidden, attempts changed since
          moved: BOOLEAN]       \* it began; history
NoLook == [todo |-> {}, stats |-> NoStats, hid |-> FALSE, moved |-> FALSE]
Off == [on |-> FALSE, at |-> NoLook]
NoSummary == [code |-> "none", badges |-> [b \in Badges |-> [unlocked |-> FALSE, at |-> 0]],
              stats |-> NoStats, hid |-> FALSE, moved |-> FALSE]

Init ==
    /\ ExamInit
    /\ logs \in {<<>>, <<[result |-> "none", created |-> 1]>>}
    /\ messages = 0 /\ look = Off /\ shown = NoSummary

Submits == Cardinality({r \in Reqs : pc[r] \in {"questions", "save"}})
InExam == {r \in Reqs : pc[r] # "idle"}
Active == Cardinality(InExam) + (IF look.on THEN 1 ELSE 0)
Room == Len(logs) + messages + Len(attempts) + Submits < MaxRows
Beside(n) ==
    /\ InExam # {} => n <= MaxBesideExam
    /\ look.on => n <= MaxBesideLook

\* A step that leaves the exam alone.
ExamIdle == UNCHANGED <<paper, attempts, pc, req>> /\ told' = NoAnswer

-----------------------------------------------------------------------------
(* Match logs.                                                             *)

CreateMatch == \E result \in Results \ {"none"} :
    /\ Room /\ Beside(Len(logs) + messages + 1)
    /\ \E i \in 1..Len(logs) + 1 :
         logs' = InsertAt(logs, i, [result |-> result, created |-> Len(logs) + 1])
    /\ shown' = NoSummary /\ ExamIdle /\ UNCHANGED <<messages, look>>

\* An edit may move the match to another day.
UpdateMatch == \E i \in DOMAIN logs, result \in Results \ {"none"} :
    /\ Beside(Len(logs) + messages)
    /\ \E j \in DOMAIN logs :
         logs' = InsertAt(RemoveAt(logs, i), j, [logs[i] EXCEPT !.result = result])
    /\ logs' # logs
    /\ shown' = NoSummary /\ ExamIdle /\ UNCHANGED <<messages, look>>

-----------------------------------------------------------------------------
(* Messages.                                                               *)

SendMessage ==
    /\ Room /\ Beside(Len(logs) + messages + 1)
    /\ messages' = messages + 1
    /\ shown' = NoSummary /\ ExamIdle /\ UNCHANGED <<logs, look>>

\* Mutant: a message is hidden that is hidden already.
SoftDeleteTwice ==
    /\ messages' = messages - 1
    /\ look' = [look EXCEPT !.at.hid = look.on]
    /\ shown' = NoSummary /\ ExamIdle /\ UNCHANGED logs

SoftDelete ==
    /\ messages > 0 /\ messages' = messages - 1
    /\ look' = [look EXCEPT !.at.hid = look.on]
    /\ shown' = NoSummary /\ ExamIdle /\ UNCHANGED logs

-----------------------------------------------------------------------------
(* The statistics of the match logs.                                       *)

Counted(s, m) == [s EXCEPT !.matches = @ + 1,
    !.diaristAt = IF s.matches + 1 = Target THEN m.created ELSE @]

Win(s, m) ==
    LET streak == s.streak + 1
        back == s.lossesBefore >= 2 /\ ~s.comeback IN
    [s EXCEPT !.wins = @ + 1, !.firstWinAt = IF @ = 0 THEN m.created ELSE @,
      !.streak = streak, !.longest = IF streak > @ THEN streak ELSE @,
      !.streakAt = IF streak = 3 /\ @ = 0 THEN m.created ELSE @,
      !.comeback = @ \/ back, !.comebackAt = IF back THEN m.created ELSE @,
      !.lossesBefore = 0]

\* Mutant: the longest streak is the one that runs now.
LoseRecord(s) == [s EXCEPT !.streak = 0, !.longest = 0, !.lossesBefore = @ + 1]
Lose(s) == [s EXCEPT !.streak = 0, !.lossesBefore = @ + 1]

\* Mutant: a draw leaves the streak alone.
DrawIgnored(s) == s
Draw(s) == [s EXCEPT !.streak = 0]

ReadRow(s, m) ==
    LET c == Counted(s, m) IN
    CASE m.result = "won"  -> Win(c, m)
      [] m.result = "lost" -> Lose(c)
      [] m.result = "draw" -> Draw(c)
      [] m.result = "none" -> c

fillMatchStats(l) ==
    [FoldLeft(ReadRow, NoStats, l) EXCEPT !.streak = 0, !.lossesBefore = 0]

compute(s) == [b \in Badges |->
    CASE b = "first-win"      -> [unlocked |-> s.wins >= 1, at |-> s.firstWinAt]
      [] b = "match-diarist"  -> [unlocked |-> s.matches >= Target, at |-> s.diaristAt]
      [] b = "win-streak-3"   -> [unlocked |-> s.longest >= 3, at |-> s.streakAt]
      [] b = "comeback-kid"   -> [unlocked |-> s.comeback, at |-> s.comebackAt]
      [] b = "marcos-curious" -> [unlocked |-> s.messages >= Target, at |-> s.curiousAt]
      [] b = "padel-license"  -> [unlocked |-> s.passed, at |-> s.passedAt]]

-----------------------------------------------------------------------------
(* A look at the badges.                                                   *)

StartLook ==
    /\ ~look.on /\ Active < MaxInFlight
    /\ look' = [on |-> TRUE, at |-> [NoLook EXCEPT !.todo = Steps]]
    /\ shown' = NoSummary /\ ExamIdle /\ UNCHANGED <<logs, messages>>

\* One SELECT of a look; then the steps of the look that remain are todo.
Read(step, todo, stats) ==
    /\ look.on /\ step \in look.at.todo
    /\ look' = [look EXCEPT !.at.todo = todo, !.at.stats = stats]
    /\ shown' = NoSummary /\ ExamIdle /\ UNCHANGED <<logs, messages>>

ReadMatches ==
    LET m == fillMatchStats(logs) IN
    Read("match", look.at.todo \ {"match"},
      [look.at.stats EXCEPT
        !.matches = m.matches, !.wins = m.wins, !.longest = m.longest, !.comeback = m.comeback,
        !.firstWinAt = m.firstWinAt, !.diaristAt = m.diaristAt, !.streakAt = m.streakAt,
        !.comebackAt = m.comebackAt])

ReadLatestScore ==
    Read("latest", look.at.todo \ {"latest"},
      [look.at.stats EXCEPT !.tried = attempts # <<>>])

\* Mutant: the license goes by the latest attempt.
PassedAtLast(l) == IF l # <<>> /\ l[Len(l)].passed THEN {Len(l)} ELSE {}
PassedAt(l) == {i \in DOMAIN l : l[i].passed}

ReadPassed ==
    LET at == PassedAt(attempts) IN
    /\ "latest" \notin look.at.todo
    /\ Read("passed", look.at.todo \ {"passed"},
         [look.at.stats EXCEPT !.passed = at # {}, !.passedAt = IF at = {} THEN 0 ELSE Min(at)])

CountMessages ==
    Read("count", look.at.todo \ (IF messages >= Target THEN {"count"} ELSE {"count", "tenth"}),
      [look.at.stats EXCEPT !.messages = messages])

\* No tenth row is no error: the time stays nil.
\* Mutant: OFFSET 10 instead of 9.
ReadEleventh ==
    /\ "count" \notin look.at.todo
    /\ Read("tenth", look.at.todo \ {"tenth"},
         [look.at.stats EXCEPT !.curiousAt = IF messages >= Target + 1 THEN Target ELSE 0])

ReadTenth ==
    /\ "count" \notin look.at.todo
    /\ Read("tenth", look.at.todo \ {"tenth"},
         [look.at.stats EXCEPT !.curiousAt = IF messages >= Target THEN Target ELSE 0])

EndLook(summary) ==
    /\ look' = Off /\ shown' = summary /\ ExamIdle /\ UNCHANGED <<logs, messages>>

GetForUser ==
    /\ look.on /\ look.at.todo = {}
    /\ EndLook([code |-> "ok", badges |-> compute(look.at.stats), stats |-> look.at.stats,
                hid |-> look.at.hid, moved |-> look.at.moved])

\* The first error cancels the other groups.
FailLook == look.on /\ look.at.todo # {} /\ EndLook([NoSummary EXCEPT !.code = "error"])

-----------------------------------------------------------------------------

\* Steps of the exam under a look.
Seen ==
    /\ look' = [look EXCEPT !.at.moved = @ \/ (look.on /\ attempts' # attempts)]
    /\ shown' = NoSummary /\ UNCHANGED <<logs, messages>>

BeginExamRequest(r) ==
    /\ Active < MaxInFlight /\ Len(logs) + messages <= MaxBesideExam
    /\ BeginLatest(r) \/ (Room /\ BeginSubmit(r))

Exam ==
    /\ \/ \E r \in Reqs : BeginExamRequest(r) \/ ExamStep(r)
       \/ TruncateExam
       \/ InsertQuestions
    /\ Seen

Next ==
    \/ Exam
    \/ CreateMatch \/ UpdateMatch \/ SendMessage \/ SoftDelete
    \/ StartLook \/ ReadMatches \/ ReadLatestScore \/ ReadPassed
    \/ CountMessages \/ ReadTenth \/ GetForUser \/ FailLook

Spec == Init /\ [][Next]_vars

-----------------------------------------------------------------------------
(* Properties.                                                             *)

TypeOK ==
    /\ ExamTypeOK
    /\ Len(logs) <= MaxRows
    /\ \A i \in DOMAIN logs : logs[i] \in [result: Results, created: 1..MaxRows]
    /\ messages \in 0..MaxRows
    /\ look \in [on: BOOLEAN, at: Looks]
    /\ shown.code \in {"none", "ok", "error"}
    /\ shown.badges \in [Badges -> [unlocked: BOOLEAN, at: Times]] /\ shown.stats \in Stats

\* When a badge for matches is earned by the matches l, in the order they were played.
\* Three are the catalogue's criteria (model.go:64, 73 and 130).  comeback-kid is what the pass
\* says of itself: a draw "neither extends nor breaks the comeback setup"
\* (store.go:182); the catalogue asks for more, see CatalogueComeback.
Earned(b, l) ==
    LET Won(i) == l[i].result = "won"
        Lost(i) == l[i].result = "lost" IN
    CASE b = "first-win"     -> \E i \in DOMAIN l : Won(i)
      [] b = "match-diarist" -> Len(l) >= Target
      [] b = "win-streak-3"  -> \E i, j, k \in DOMAIN l :
            /\ i < j /\ j < k /\ Won(i) /\ Won(j) /\ Won(k)
            /\ \A w \in i..k : l[w].result \in {"won", "none"}
      [] b = "comeback-kid"  -> \E i, j, k \in DOMAIN l :
            /\ i < j /\ j < k /\ Lost(i) /\ Lost(j) /\ Won(k)
            /\ \A w \in i..k - 1 : ~Won(w)

MatchBadges == Badges \ {"marcos-curious", "padel-license"}

\* The single pass of fillMatchStats, with its streak, its record and its count of losses,
\* finds exactly the badges that the whole log has earned, and dates each with the
\* first match at which it was (store.go:143-183).
OnePassFindsBadges ==
    LET badges == compute(fillMatchStats(logs)) IN
    \A b \in MatchBadges :
      LET met == {n \in DOMAIN logs : Earned(b, SubSeq(logs, 1, n))} IN
      /\ badges[b].unlocked <=> met # {}
      /\ badges[b].at = IF met = {} THEN 0 ELSE logs[Min(met)].created

\* comeback-kid is for "a win after two losses in a row" (model.go:100; ">= 2 consecutive
\* losses", compute_test.go:242): no draw between the two, whatever comes after them.
CatalogueComeback ==
    compute(fillMatchStats(logs))["comeback-kid"].unlocked =>
        \E i, j, k \in DOMAIN logs :
            /\ i < j /\ j < k /\ logs[k].result = "won"
            /\ logs[i].result = "lost" /\ logs[j].result = "lost"
            /\ \A w \in i..j : logs[w].result \in {"lost", "none"}

\* A match that is logged as the last one played takes no badge away and dates none
\* anew; one logged for an earlier day still takes no badge that counts matches
\* or wins (store.go:143-183).
LoggingKeepsBadges == [][
    Len(logs') > Len(logs) =>
      LET old == compute(fillMatchStats(logs))
          new == compute(fillMatchStats(logs')) IN
      \A b \in MatchBadges : old[b].unlocked =>
        /\ IsPrefix(logs, logs') => new[b] = old[b]
        /\ b \in {"first-win", "match-diarist"} => new[b].unlocked]_vars

\* A badge is dated if and only if it is unlocked; only the tenth message may be hidden
\* between the count and the read of its time (store.go:240-253).
UnlockedHasTime == shown.code = "ok" =>
    \A b \in Badges :
      /\ shown.badges[b].at # 0 => shown.badges[b].unlocked
      /\ shown.badges[b].unlocked => shown.badges[b].at # 0 \/ (b = "marcos-curious" /\ shown.hid)

\* Unless attempts were stored or dropped during the look, the license is shown exactly
\* to those with a stored attempt that passed, however bad the later ones are, and
\* never above "Exam not attempted yet" (store.go:190-227).
LicenseIsEarned == shown.code = "ok" /\ ~shown.moved =>
    /\ shown.badges["padel-license"].unlocked <=> \E i \in DOMAIN attempts : attempts[i].passed
    /\ shown.badges["padel-license"].unlocked => shown.stats.tried
=============================================================================
