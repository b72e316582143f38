---------------------------- MODULE LessonBadges ----------------------------
(***************************************************************************)
(* The badges for lessons, which GetForUser derives from the lessons and   *)
(* the progress of module Curriculum: fillLessonStats counts the lessons   *)
(* in one statement and reads the progress in the next, in no order.       *)
(* A badge that is not unlocked, or has no time, is of time 0.             *)
(***************************************************************************)
EXTENDS Curriculum

CONSTANTS Bandeja, Vibora       \* slugs that contain these words

ASSUME BadgesAssumption == Bandeja \subseteq Slugs /\ Vibora \subseteq Slugs

VARIABLES
    look,           \* a look at the badges, between its statements
    shown           \* the badges answered in this step

vars == <<curriculumVars, look, shown>>

Badges == {"first-lesson", "bandeja-apprentice", "vibora-master", "half-mastery"}
NoLook == [st |-> "off", published |-> 0, reseeded |-> FALSE]
NoBadges == [b \in Badges |-> [unlocked |-> FALSE, at |-> 0]]
NotShown == [on |-> FALSE, reseeded |-> FALSE, badges |-> NoBadges]

Init == CurriculumInit /\ look = NoLook /\ shown = NotShown

-----------------------------------------------------------------------------
(* fillLessonStats.                                                        *)

NoStats == [learned |-> FALSE, firstAt |-> 0, mastered |-> 0, lastAt |-> 0,
            bandeja |-> "none", bandejaAt |-> 0, vibora |-> "none", viboraAt |-> 0]

\* "none" is the status of a lesson not read yet, an empty string.
Rank == [s \in {"none", "viewed", "learned", "mastered"} |->
    CASE s = "none" -> 0 [] s = "viewed" -> 1 [] s = "learned" -> 2 [] s = "mastered" -> 3]

\* Mutant: the status read last is kept.
lastStatus(existing, candidate) == candidate

highestStatus(existing, candidate) ==
    IF Rank[candidate] > Rank[existing] THEN candidate ELSE existing

Earlier(at, new) == IF at = 0 \/ new < at THEN new ELSE at

\* One row of the join: p, of a lesson whose slug is slug.
ReadRow(s, p, slug) ==
    LET learned == p.status \in {"learned", "mastered"}
        mastered == p.status = "mastered"
        counted == [s EXCEPT
            !.learned = @ \/ learned,
            !.firstAt = IF learned THEN Earlier(@, p.at) ELSE @,
            !.mastered = IF mastered THEN @ + 1 ELSE @,
            !.lastAt = IF mastered /\ p.at > @ THEN p.at ELSE @]
        inBandeja == IF slug \notin Bandeja THEN counted ELSE [counted EXCEPT
            !.bandeja = highestStatus(@, p.status),
            !.bandejaAt = IF learned THEN Earlier(@, p.at) ELSE @]
    IN IF slug \notin Vibora THEN inBandeja ELSE [inBandeja EXCEPT
            !.vibora = highestStatus(@, p.status),
            !.viboraAt = IF mastered THEN Earlier(@, p.at) ELSE @]

SlugOf(ls, id) == (CHOOSE row \in ls : row.id = id).slug

Stats(ls, rows) == FoldLeft(LAMBDA s, p : ReadRow(s, p, SlugOf(ls, p.lesson)), NoStats, rows)

-----------------------------------------------------------------------------
(* gather and compute.                                                     *)

Half(s, published) == published > 0 /\ s.mastered * 2 >= published

compute(s, published) ==
    [b \in Badges |->
        CASE b = "first-lesson" -> [unlocked |-> s.learned, at |-> s.firstAt]
          [] b = "bandeja-apprentice" ->
                [unlocked |-> s.bandeja \in {"learned", "mastered"}, at |-> s.bandejaAt]
          [] b = "vibora-master" -> [unlocked |-> s.vibora = "mastered", at |-> s.viboraAt]
          [] b = "half-mastery" -> [unlocked |-> Half(s, published),
                                    at |-> IF Half(s, published) THEN s.lastAt ELSE 0]]

CurriculumIdle ==
    /\ UNCHANGED <<plan, paid, lessons, progress, saves, versions, seed, seeds, pc, req>>
    /\ told' = {}

CountLessons ==
    /\ look.st = "off" /\ LessonsFree
    /\ look' = [NoLook EXCEPT !.st = "rows", !.published = Cardinality(lessons)]
    /\ shown' = NotShown /\ CurriculumIdle

\* The rows come in any order.
ReadProgress ==
    /\ look.st = "rows" /\ ChildrenFree
    /\ \E rows \in SetToSeqs(progress) :
         shown' = [on |-> TRUE, reseeded |-> look.reseeded,
                   badges |-> compute(Stats(lessons, rows), look.published)]
    /\ look' = NoLook /\ CurriculumIdle

FailLook ==
    /\ look.st = "rows"
    /\ look' = NoLook /\ shown' = NotShown /\ CurriculumIdle

-----------------------------------------------------------------------------

CurriculumMoves ==
    /\ CurriculumNext
    /\ look' = [look EXCEPT !.reseeded = look.st = "rows" /\ (@ \/ versions' # versions)]
    /\ shown' = NotShown

Next == CurriculumMoves \/ CountLessons \/ ReadProgress \/ FailLook

Spec == Init /\ [][Next]_vars
FairSpec == Spec /\ CurriculumFair

-----------------------------------------------------------------------------
(* Properties.                                                             *)

TypeOK ==
    /\ CurriculumTypeOK
    /\ look.st \in {"off", "rows"} /\ look.published \in Nat /\ look.reseeded \in BOOLEAN
    /\ shown.on \in BOOLEAN /\ shown.badges \in [Badges -> [unlocked: BOOLEAN, at: 0..MaxSaves]]

With(statuses, slugs) ==
    {p \in progress : p.status \in statuses /\ SlugOf(lessons, p.lesson) \in slugs}

\* The progress that earns a badge (the criteria in model.go:52-141); half-mastery asks
\* for half of the lessons.
Earning(b) ==
    CASE b = "first-lesson" -> With({"learned", "mastered"}, Slugs)
      [] b = "bandeja-apprentice" -> With({"learned", "mastered"}, Bandeja)
      [] b = "vibora-master" -> With({"mastered"}, Vibora)
      [] b = "half-mastery" ->
            LET S == With({"mastered"}, Slugs) IN
            IF lessons # {} /\ 2 * Cardinality(S) >= Cardinality(lessons) THEN S ELSE {}

\* In whatever order the rows are read, a badge is shown unlocked exactly when the
\* stored progress earns it, and dated with a row that does; a curriculum seeded
\* between the two statements may only mislead about half of it.
LessonBadgesAreEarned == shown.on =>
    \A b \in Badges : ~(b = "half-mastery" /\ shown.reseeded) =>
      /\ shown.badges[b].unlocked <=> Earning(b) # {}
      /\ shown.badges[b].unlocked <=> \E p \in Earning(b) : shown.badges[b].at = p.at
=============================================================================
