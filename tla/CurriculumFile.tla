--------------------------- MODULE CurriculumFile ---------------------------
(***************************************************************************)
(* The curriculum file as the seeder reads it.  Parse goes through the     *)
(* file line by line: a header opens a lesson and closes the one before    *)
(* it, the lines that follow fill in the lesson that is open.              *)
(*                                                                         *)
(* A file is written in sections, one for each lesson.  The header of a    *)
(* section may be mistyped: then it is a line like any other, and what     *)
(* follows goes to the lesson before, if there is one.  Titles count by    *)
(* the slug they give.  Tagline, focus and mistake are one line, texts, here.*)
(***************************************************************************)
EXTENDS Integers, Sequences, FiniteSets, SequencesExt

CONSTANTS
    Slugs,          \* what Slugify makes of the titles
    NoSlug,         \* no title
    Cues            \* cues of a lesson; 3 in the code

ASSUME FileAssumption == NoSlug \notin Slugs /\ Cues \in Nat \ {0}

Sections == [header: {"well", "mistyped"}, slug: Slugs, texts: BOOLEAN, cues: Nat,
             drill: {"whole", "mistyped", "none"}]

\* The lines of section number n.
Lines(section, n) ==
    << [kind |-> IF section.header = "well" THEN "header" ELSE "other", n |-> n],
       [kind |-> "title", slug |-> section.slug] >>
    \o (IF section.texts THEN <<[kind |-> "texts"]>> ELSE <<>>)
    \o [i \in 1..section.cues |-> [kind |-> "cue"]]
    \o (IF section.drill = "none" THEN <<>> ELSE <<[kind |-> "drill", read |-> section.drill]>>)

LinesOf(file) == FlattenSeq([n \in DOMAIN file |-> Lines(file[n], n)])

NoLesson == [n |-> 0, slug |-> NoSlug, texts |-> FALSE, cues |-> 0, drill |-> FALSE]
Start == [lessons |-> <<>>, open |-> FALSE, current |-> NoLesson, error |-> FALSE]

\* Mutant: further cues are let through.
ValidateAtLeast(l) == l.slug # NoSlug /\ l.texts /\ l.cues >= Cues /\ l.drill

validateLesson(l) == l.slug # NoSlug /\ l.texts /\ l.cues = Cues /\ l.drill

Flush(p) ==
    IF ~p.open THEN p
    ELSE IF validateLesson(p.current)
         THEN [p EXCEPT !.lessons = Append(@, p.current), !.open = FALSE]
         ELSE [p EXCEPT !.error = TRUE]

\* What is read of a line while a lesson is open.
Fill(p, line) ==
    CASE line.kind = "title" -> [p EXCEPT !.current.slug = line.slug]
      [] line.kind = "texts" -> [p EXCEPT !.current.texts = TRUE]
      [] line.kind = "cue"   -> [p EXCEPT !.current.cues = @ + 1]
      [] line.kind = "drill" -> [p EXCEPT !.current.drill = TRUE,
                                          !.error = line.read = "mistyped"]
      [] OTHER               -> p

ReadLine(p, line) ==
    IF p.error THEN p
    ELSE IF line.kind = "header"
         THEN [Flush(p) EXCEPT !.open = TRUE, !.current = [NoLesson EXCEPT !.n = line.n]]
         ELSE IF p.open THEN Fill(p, line) ELSE p

\* The lessons, or <<>> for an error: a file without lessons is one as well.
Parse(file) ==
    LET p == FoldLeft(ReadLine, Start, LinesOf(file))
        q == IF p.error THEN p ELSE Flush(p)
    IN IF q.error THEN <<>> ELSE q.lessons

Whole(section) == section.texts /\ section.cues = Cues /\ section.drill = "whole"
=============================================================================
