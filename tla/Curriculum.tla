----------------------------- MODULE Curriculum -----------------------------
(***************************************************************************)
(* The lessons and the progress of one user: ListLessons, GetLesson and    *)
(* UpdateProgress, beside the seed command, which replaces the whole       *)
(* curriculum in one transaction.                                          *)
(*                                                                         *)
(* TRUNCATE takes its tables' locks in the order it names them, lessons    *)
(* last; the SELECT of the lessons takes lessons first and lesson_cues     *)
(* and drills after it.  So the two may wait for each other, and           *)
(* PostgreSQL ends one of them.  A statement that waits for a lock that    *)
(* somebody waits for already queues behind it.                            *)
(*                                                                         *)
(* The id of a lesson is new with every seeding; updated_at is the number  *)
(* of statements that wrote progress until then.                           *)
(***************************************************************************)
EXTENDS CurriculumFile

CONSTANTS
    FreeLessonMax,  \* lessons 1..FreeLessonMax are free; 3 in the code
    Files,          \* the files the command may be run with
    Reqs,           \* slots of requests
    MaxSeeds,       \* bound: runs of the command that read their file
    MaxSaves        \* bound: writes of progress

ASSUME CurriculumAssumption ==
    /\ FreeLessonMax \in Nat /\ MaxSeeds \in Nat /\ MaxSaves \in Nat
    /\ \A file \in Files : file \in Seq(Sections)
    /\ IsFiniteSet(Reqs)

VARIABLES
    plan,           \* users.plan
    paid,           \* whether it ever was not "free"; history
    lessons,        \* lessons, with their cues and drills
    progress,       \* user_lesson_progress of the user
    saves,          \* writes of progress so far
    versions,       \* each curriculum that was stored; history
    seed,           \* the seed command
    seeds,          \* how often it read a file
    pc, req,        \* the requests
    told            \* the lessons that this step told a client of, as a list

reader == <<pc, req, told>>
curriculumVars == <<plan, paid, lessons, progress, saves, versions, seed, seeds, reader>>

Statuses == {"viewed", "learned", "mastered"}
Ids == (1..MaxSeeds) \X Nat
LessonRows == [id: Ids, slug: Slugs, free: BOOLEAN]
ProgressRows == [lesson: Ids, status: Statuses, at: 1..MaxSaves]

\* The command: parsed its file, holds the locks of the child tables, waits for
\* the lock of lessons too, has all of them, has inserted.
SeedPcs == {"idle", "parsed", "children", "waits", "insert", "commit"}
NoSeed == [st |-> "idle", file |-> <<>>, lessons |-> <<>>]

\* A request reads the user, waits for lessons, waits for the rest of its SELECT,
\* and goes on to the progress.
Pcs == {"idle", "user", "lessons", "select", "progress"}
\* What was asked for is chosen where it is first used.
NoReq == [op |-> "none", plan |-> "free", rows |-> {}]

CurriculumInit ==
    /\ plan = "free" /\ paid = FALSE
    /\ lessons = {} /\ progress = {} /\ saves = 0 /\ versions = {}
    /\ seed = NoSeed /\ seeds = 0
    /\ pc = [r \in Reqs |-> "idle"] /\ req = [r \in Reqs |-> NoReq] /\ told = {}

-----------------------------------------------------------------------------
(* The locks that TRUNCATE holds until the seeding ends.                   *)

ChildrenFree == seed.st \in {"idle", "parsed"}              \* cues, drills, progress
LessonsFree == seed.st \in {"idle", "parsed", "children"}   \* and nobody queues for it

-----------------------------------------------------------------------------
(* The seed command.                                                       *)

NoRequest == UNCHANGED <<plan, paid, saves, pc, req>> /\ told' = {}

\* A file that does not parse ends the command before it opens the database.
ParseFile ==
    /\ seed.st = "idle" /\ seeds < MaxSeeds
    /\ \E file \in Files :
         /\ Parse(file) # <<>>
         /\ seed' = [st |-> "parsed", file |-> file, lessons |-> Parse(file)]
    /\ seeds' = seeds + 1
    /\ NoRequest /\ UNCHANGED <<lessons, progress, versions>>

SeedGoes(from, to) ==
    /\ seed.st = from /\ seed' = [seed EXCEPT !.st = to]
    /\ NoRequest /\ UNCHANGED <<lessons, progress, versions, seeds>>

TruncateChildren == SeedGoes("parsed", "children")
TruncateQueues == SeedGoes("children", "waits")
TruncateLessons == (\A r \in Reqs : pc[r] # "select") /\ SeedGoes("waits", "insert")

Rows ==
    {[id |-> <<seeds, i>>, slug |-> seed.lessons[i].slug,
      free |-> seed.lessons[i].n <= FreeLessonMax] : i \in DOMAIN seed.lessons}

SlugsDiffer(ls) == \A i, j \in DOMAIN ls : ls[i].slug = ls[j].slug => i = j

\* Mutant: the rows are inserted one by one, without a transaction.
InsertsShow ==
    /\ SlugsDiffer(seed.lessons)
    /\ seed.st = "insert" /\ seed' = [seed EXCEPT !.st = "idle"]
    /\ progress' = {}
    /\ lessons' = {row \in Rows : row.id[2] = 1} /\ versions' = versions \cup {Rows}
    /\ NoRequest /\ UNCHANGED seeds

\* Mutant: the constraint is dropped.
SeedInsertsAll == SeedGoes("insert", "commit")

\* Two titles with one slug break the UNIQUE constraint.
SeedInserts == SlugsDiffer(seed.lessons) /\ SeedGoes("insert", "commit")

SeedCommits ==
    /\ seed.st = "commit" /\ seed' = NoSeed
    /\ lessons' = Rows /\ versions' = versions \cup {Rows}
    /\ progress' = {}
    /\ NoRequest /\ UNCHANGED seeds

\* Mutant: an error leaves the transaction open.
SeedLeft ==
    /\ seed.st = "parsed" /\ seed' = NoSeed
    /\ NoRequest /\ UNCHANGED <<lessons, progress, versions, seeds>>

\* Any statement may fail: the deferred Rollback gives the locks back.
SeedAborts ==
    /\ seed.st # "idle" /\ seed' = NoSeed
    /\ NoRequest /\ UNCHANGED <<lessons, progress, versions, seeds>>

-----------------------------------------------------------------------------
(* Requests.                                                               *)

NoSeeding == UNCHANGED <<lessons, versions, seed, seeds>>

Updates == {r \in Reqs : req[r].op = "update"}

Begin(r) ==
    /\ pc[r] = "idle" /\ pc' = [pc EXCEPT ![r] = "user"] /\ told' = {}
    /\ NoSeeding /\ UNCHANGED <<plan, paid, progress, saves, req>>

Goes(r, from, to, q) ==
    /\ pc[r] = from
    /\ pc' = [pc EXCEPT ![r] = to] /\ req' = [req EXCEPT ![r] = q]
    /\ told' = {}
    /\ NoSeeding /\ UNCHANGED <<plan, paid>>

Answer(r, list) ==
    /\ pc' = [pc EXCEPT ![r] = "idle"] /\ req' = [req EXCEPT ![r] = NoReq]
    /\ told' = list
    /\ NoSeeding /\ UNCHANGED <<plan, paid>>

currentUser(r) ==
    /\ Goes(r, "user", "lessons", [req[r] EXCEPT !.plan = plan])
    /\ UNCHANGED <<progress, saves>>

LockLessons(r) ==
    /\ LessonsFree /\ Goes(r, "lessons", "select", req[r])
    /\ UNCHANGED <<progress, saves>>

Locked(row, p) == ~row.free /\ p = "free"

\* The SELECT returned rows to an operation; the user is not looked at again.
Found(op, rows) == [op |-> op, plan |-> "free", rows |-> rows]

\* ListLessons.
SelectAll(r) ==
    /\ ChildrenFree
    /\ Goes(r, "select", "progress", Found("list", lessons))
    /\ UNCHANGED <<progress, saves>>

GetLessonBySlug(r) ==
    /\ pc[r] = "select" /\ ChildrenFree
    /\ \E slug \in Slugs :
         LET found == {row \in lessons : row.slug = slug} IN
         \/ found = {} /\ Answer(r, {})                   \* lesson not found
         \/ \E row \in found :
              IF Locked(row, req[r].plan) THEN Answer(r, {})     \* upgrade_required
              ELSE \E op \in {"get", "update"} :
                     /\ op = "update" => saves + Cardinality(Updates) < MaxSaves
                     /\ Goes(r, "select", "progress", Found(op, {row}))
    /\ UNCHANGED <<progress, saves>>

\* ListProgressByUserID, GetProgress: what is told of the progress.
TellProgress(r) ==
    /\ pc[r] = "progress" /\ req[r].op # "update" /\ ChildrenFree
    /\ Answer(r, IF req[r].op = "get" THEN {} ELSE req[r].rows)
    /\ UNCHANGED <<progress, saves>>

Saved(p, id, status, at) ==
    {q \in p : q.lesson # id} \cup {[lesson |-> id, status |-> status, at |-> at]}

\* Mutant: the lesson is looked up by its slug once more.
UpsertBySlug(r) ==
    /\ pc[r] = "progress" /\ req[r].op = "update" /\ ChildrenFree
    /\ saves' = saves + 1
    /\ Answer(r, {})
    /\ \E row \in req[r].rows, new \in lessons, status \in Statuses :
         /\ new.slug = row.slug
         /\ progress' = Saved(progress, new.id, status, saves')

\* A lesson that is gone breaks the foreign key.
UpsertProgress(r) ==
    /\ pc[r] = "progress" /\ req[r].op = "update" /\ ChildrenFree
    /\ Answer(r, {})
    /\ \E row \in req[r].rows, status \in Statuses :
         IF row \in lessons
         THEN /\ saves' = saves + 1
              /\ progress' = Saved(progress, row.id, status, saves')
         ELSE UNCHANGED <<progress, saves>>

Fail(r) ==
    /\ pc[r] # "idle"
    /\ Answer(r, {}) /\ UNCHANGED <<progress, saves>>

\* users.plan is written from outside.
SetPlan ==
    /\ plan' = IF plan = "free" THEN "paid" ELSE "free"
    /\ paid' = TRUE /\ told' = {}
    /\ NoSeeding /\ UNCHANGED <<progress, saves, pc, req>>

-----------------------------------------------------------------------------

SlugTaken == seed.st = "insert" /\ ~SlugsDiffer(seed.lessons) /\ SeedAborts

\* TRUNCATE waits for a SELECT that waits for TRUNCATE; one of them is ended.
Deadlocked(r) == seed.st = "waits" /\ pc[r] = "select"
DeadlockDetected == \E r \in Reqs : Deadlocked(r) /\ (SeedAborts \/ Fail(r))

Step(r) ==
    \/ currentUser(r) \/ LockLessons(r) \/ SelectAll(r) \/ GetLessonBySlug(r)
    \/ TellProgress(r) \/ UpsertProgress(r)

SeedStep ==
    \/ TruncateChildren \/ TruncateQueues \/ TruncateLessons
    \/ SeedInserts \/ SlugTaken \/ SeedCommits

CurriculumNext ==
    \/ ParseFile \/ SeedStep \/ SeedAborts \/ DeadlockDetected
    \/ \E r \in Reqs : Begin(r) \/ Step(r) \/ Fail(r)
    \/ SetPlan

\* A command and a handler that can go on do so, and PostgreSQL ends deadlocks.
CurriculumFair ==
    /\ WF_curriculumVars(SeedStep) /\ WF_curriculumVars(DeadlockDetected)
    /\ \A r \in Reqs : WF_curriculumVars(Step(r))

-----------------------------------------------------------------------------
(* Properties.                                                             *)

CurriculumTypeOK ==
    /\ plan \in {"free", "paid"} /\ paid \in BOOLEAN
    /\ \A row \in lessons : row \in LessonRows
    /\ \A row, other \in lessons : row.slug = other.slug => row = other
    /\ progress \subseteq ProgressRows /\ saves \in 0..MaxSaves
    /\ seeds \in 0..MaxSeeds /\ lessons \in versions \cup {{}}
    /\ seed.st \in SeedPcs
    /\ pc \in [Reqs -> Pcs]

\* The rows that the sections of a file stand for, one each.
SectionRows(file) ==
    {[id |-> <<seeds, n>>, slug |-> file[n].slug, free |-> n <= FreeLessonMax] :
        n \in DOMAIN file}

AllWhole(file) == \A n \in DOMAIN file : Whole(file[n])

\* What a seeding stores is its file: each section with its own number and title, or
\* nothing at all.  A mistyped header never makes one lesson of two and never gives a
\* lesson the number of another (curriculum.go:3), as long as the sections are whole
\* and the first header is typed well; see EverySectionSeeded.
SeedIsItsFile == [][
    lessons' # lessons /\ AllWhole(seed.file) /\ seed.file[1].header = "well"
        => lessons' = SectionRows(seed.file) ]_curriculumVars

\* "The markdown file is the single source of truth for lesson content"
\* (curriculum.go:2), whichever header is mistyped: a seeding that stores anything
\* stores a lesson for every section.
EverySectionSeeded == [][
    lessons' # lessons /\ AllWhole(seed.file)
        => \A n \in DOMAIN seed.file : \E row \in lessons' : row.slug = seed.file[n].slug
    ]_curriculumVars

\* Progress is that of a stored lesson, at most one row for each, and a lesson that is
\* not free has some only if the user once paid, however the curriculum and the plan
\* changed between the check and the write.
ProgressIsEarned ==
    \A p \in progress :
      /\ \E row \in lessons : row.id = p.lesson /\ (row.free \/ paid)
      /\ \A q \in progress : q.lesson = p.lesson => q = p

\* A list tells all lessons of one seeding, never of two or of half of one.
ListIsWhole == told # {} => told \in versions

\* No request waits for ever, whatever becomes of the seed command.
RequestsEnd == \A r \in Reqs : pc[r] # "idle" ~> pc[r] = "idle"
=============================================================================
