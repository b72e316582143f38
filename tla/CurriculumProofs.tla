-------------------------- MODULE CurriculumProofs --------------------------
(***************************************************************************)
(* Proofs about Curriculum and the LessonBadges over it, for any files,    *)
(* any number of requests, of seedings and of writes: what Parse makes of  *)
(* a file, by induction over its lines and its sections; no progress       *)
(* without a plan that allowed it and no list of lessons of two seedings;  *)
(* what the seed command stores; and the badges for lessons, by induction  *)
(* over the rows of the progress in whatever order they are read.          *)
(***************************************************************************)
EXTENDS LessonBadges, Induction, SequenceTheorems, FiniteSetTheorems, TLAPS

-----------------------------------------------------------------------------
(* One line of a file.                                                     *)

LineSet ==
    [kind: {"header", "other"}, n: Nat] \cup [kind: {"title"}, slug: Slugs]
    \cup [kind: {"texts", "cue"}] \cup [kind: {"drill"}, read: {"whole", "mistyped"}]

Read == [n: Nat, slug: Slugs \cup {NoSlug}, texts: BOOLEAN, cues: Nat, drill: BOOLEAN]
Valid == {l \in Read : validateLesson(l)}
States == [lessons: Seq(Valid), open: BOOLEAN, current: Read, error: BOOLEAN]

LEMMA StartType == Start \in States
<1>1. <<>> \in Seq(Valid)
  OBVIOUS
<1> QED
  BY <1>1 DEF Start, NoLesson, States, Read

\* What Flush does, field by field.
LEMMA FlushFields ==
    ASSUME NEW p \in States
    PROVE  /\ Flush(p) \in States
           /\ Flush(p).current = p.current
           /\ ~p.open => Flush(p) = p
           /\ p.open /\ validateLesson(p.current) =>
                Flush(p).lessons = Append(p.lessons, p.current) /\ ~Flush(p).open /\ Flush(p).error = p.error
           /\ p.open /\ ~validateLesson(p.current) => Flush(p).error
<1>1. CASE ~p.open
  BY <1>1 DEF Flush
<1>2. CASE p.open /\ validateLesson(p.current)
  <2> DEFINE ls == Append(p.lessons, p.current)
  <2>1. Flush(p) = [p EXCEPT !.lessons = ls, !.open = FALSE]
    BY <1>2 DEF Flush, States
  <2>2. p.lessons \in Seq(Valid) /\ p.current \in Valid
    BY <1>2 DEF States, Valid
  <2> HIDE DEF ls
  <2>3. ls \in Seq(Valid)
    BY <2>2 DEF ls
  <2>4. Flush(p) \in States
    BY <2>1, <2>3 DEF States
  <2> QED
    BY <1>2, <2>1, <2>4 DEF States, ls
<1>3. CASE p.open /\ ~validateLesson(p.current)
  <2>1. Flush(p) = [p EXCEPT !.error = TRUE]
    BY <1>3 DEF Flush
  <2> QED
    BY <1>3, <2>1 DEF States
<1> QED
  BY <1>1, <1>2, <1>3

\* What Fill does to the open lesson.
LEMMA FillFields ==
    ASSUME NEW p \in States, NEW line \in LineSet
    PROVE  LET q == Fill(p, line)
               c == p.current IN
           /\ q \in States
           /\ q.lessons = p.lessons /\ q.open = p.open /\ q.current.n = c.n
           /\ line.kind = "title" => q.current = [c EXCEPT !.slug = line.slug] /\ q.error = p.error
           /\ line.kind = "texts" => q.current = [c EXCEPT !.texts = TRUE] /\ q.error = p.error
           /\ line.kind = "cue" => q.current = [c EXCEPT !.cues = c.cues + 1] /\ q.error = p.error
           /\ line.kind = "drill" =>
                q.current = [c EXCEPT !.drill = TRUE] /\ q.error = (line.read = "mistyped")
           /\ line.kind = "other" => q = p
<1> DEFINE c == p.current
<1>1. c \in Read /\ p.lessons \in Seq(Valid)
  BY DEF States
<1>2. line.kind \in {"header", "other", "title", "texts", "cue", "drill"}
  BY DEF LineSet
<1>3. CASE line.kind = "title"
  <2> DEFINE d == [c EXCEPT !.slug = line.slug]
  <2>1. d \in Read /\ d.n = c.n
    BY <1>1, <1>3 DEF LineSet, Read
  <2>2. Fill(p, line) = [p EXCEPT !.current = d]
    BY <1>3 DEF Fill
  <2> HIDE DEF d
  <2>3. Fill(p, line) \in States /\ Fill(p, line).current = d
    BY <2>1, <2>2 DEF States
  <2> QED
    BY <1>3, <2>1, <2>2, <2>3 DEF States, d
<1>4. CASE line.kind = "texts"
  <2> DEFINE d == [c EXCEPT !.texts = TRUE]
  <2>1. d \in Read /\ d.n = c.n
    BY <1>1 DEF Read
  <2>2. Fill(p, line) = [p EXCEPT !.current = d]
    BY <1>4 DEF Fill
  <2> HIDE DEF d
  <2>3. Fill(p, line) \in States /\ Fill(p, line).current = d
    BY <2>1, <2>2 DEF States
  <2> QED
    BY <1>4, <2>1, <2>2, <2>3 DEF States, d
<1>5. CASE line.kind = "cue"
  <2> DEFINE d == [c EXCEPT !.cues = c.cues + 1]
  <2>1. d \in Read /\ d.n = c.n
    BY <1>1 DEF Read
  <2>2. Fill(p, line) = [p EXCEPT !.current = d]
    BY <1>1, <1>5 DEF Fill, Read
  <2> HIDE DEF d
  <2>3. Fill(p, line) \in States /\ Fill(p, line).current = d
    BY <2>1, <2>2 DEF States
  <2> QED
    BY <1>5, <2>1, <2>2, <2>3 DEF States, d
<1>6. CASE line.kind = "drill"
  <2> DEFINE d == [c EXCEPT !.drill = TRUE]
             e == line.read = "mistyped"
  <2>1. d \in Read /\ d.n = c.n /\ e \in BOOLEAN
    BY <1>1 DEF Read
  <2>2. Fill(p, line) = [p EXCEPT !.current = d, !.error = e]
    BY <1>6 DEF Fill, States
  <2> HIDE DEF d, e
  <2>3. Fill(p, line) \in States /\ Fill(p, line).current = d
    BY <2>1, <2>2 DEF States
  <2> QED
    BY <1>6, <2>1, <2>2, <2>3 DEF States, d, e
<1>7. CASE line.kind \in {"header", "other"}
  BY <1>7 DEF Fill
<1> QED
  BY <1>2, <1>3, <1>4, <1>5, <1>6, <1>7

\* A header opens a lesson, and closes the one before it.
Opened(n) == [NoLesson EXCEPT !.n = n]

LEMMA HeaderFields ==
    ASSUME NEW p \in States, ~p.error, NEW line \in LineSet, line.kind = "header"
    PROVE  LET q == ReadLine(p, line) IN
           /\ q \in States /\ q.open /\ q.current = Opened(line.n) /\ Opened(line.n) \in Read
           /\ q.lessons = Flush(p).lessons /\ q.error = Flush(p).error
<1> DEFINE f == Flush(p)
           q == ReadLine(p, line)
           o == Opened(line.n)
<1>1. f \in States
  BY FlushFields
<1>2. line.n \in Nat
  BY DEF LineSet
<1>3. o \in Read
  BY <1>2 DEF Opened, NoLesson, Read
<1>4. q = [f EXCEPT !.open = TRUE, !.current = o]
  BY <1>1 DEF ReadLine, Opened, States
<1> HIDE DEF f, o, q
<1>5. /\ q \in States /\ q.open /\ q.current = o
      /\ q.lessons = f.lessons /\ q.error = f.error
  BY <1>1, <1>3, <1>4 DEF States
<1> QED
  BY <1>3, <1>5 DEF f, o, q

LEMMA ReadLineType ==
    ASSUME NEW p \in States, NEW line \in LineSet
    PROVE  ReadLine(p, line) \in States
<1>1. CASE p.error
  BY <1>1 DEF ReadLine
<1>2. CASE ~p.error /\ line.kind = "header"
  BY <1>2, HeaderFields
<1>3. CASE ~p.error /\ line.kind # "header"
  BY <1>3, FillFields DEF ReadLine
<1> QED
  BY <1>1, <1>2, <1>3

-----------------------------------------------------------------------------
(* The lines one after the other.                                          *)

Run(p, l) == FoldLeft(ReadLine, p, l)

\* h is what the parser holds after each line.
ParsePass(p, l, h) ==
    /\ h \in [0..Len(l) -> States]
    /\ h[0] = p
    /\ \A k \in 0..Len(l) - 1 : h[k + 1] = ReadLine(h[k], l[k + 1])

LEMMA RunIsPass ==
    ASSUME NEW p \in States, NEW l \in Seq(LineSet)
    PROVE  \E h : ParsePass(p, l, h) /\ Run(p, l) = h[Len(l)]
<1> DEFINE n == Len(l)
           D == 1..n
           F == [i \in D |-> [x \in States |-> ReadLine(x, l[i])]]
           iter == CHOOSE g : g = [s \in SUBSET D |->
                     IF s = {} THEN p ELSE ReadLine(g[s \ {Max(s)}], l[Max(s)])]
<1>1. n \in Nat /\ DOMAIN l = D /\ \A i \in D : l[i] \in LineSet
  OBVIOUS
<1>2. Run(p, l) = iter[D]
  BY <1>1 DEF Run, FoldLeft, MapThenFoldSet
<1>3. F \in [1..n -> [States -> States]]
  BY <1>1, ReadLineType
<1>4. \A x \in States, i \in D : F[i][x] = ReadLine(x, l[i])
  OBVIOUS
<1> HIDE DEF F
<1>5. \A s \in SUBSET D : s # {} => Max(s) \in D
  BY <1>1, MaxIsGreatest
<1>6. \E g : g = [s \in SUBSET D |->
               IF s = {} THEN p ELSE ReadLine(g[s \ {Max(s)}], l[Max(s)])]
  <2>1. PICK g \in [SUBSET D -> States] : Solves(g, n, p, F)
    BY <1>1, <1>3, FoldExists
  <2>2. ASSUME NEW s \in SUBSET D, NEW m, m = Max(s), s # {}
        PROVE  F[m][g[s \ {m}]] = ReadLine(g[s \ {m}], l[m])
    BY <1>4, <1>5, <2>2
  <2>3. g = [s \in SUBSET D |->
               IF s = {} THEN p ELSE ReadLine(g[s \ {Max(s)}], l[Max(s)])]
    BY <2>1, <2>2 DEF Solves
  <2> QED
    BY <2>3
<1>7. iter = [s \in SUBSET D |->
                IF s = {} THEN p ELSE ReadLine(iter[s \ {Max(s)}], l[Max(s)])]
  BY <1>6
<1> HIDE DEF iter
<1>8. IsFold(iter, n, States, p, F)
  <2>1. ASSUME NEW s \in SUBSET D, NEW m, m = Max(s), s # {}, iter[s \ {m}] \in States
        PROVE  F[m][iter[s \ {m}]] = ReadLine(iter[s \ {m}], l[m])
    BY <1>4, <1>5, <2>1
  <2>2. {} \in SUBSET D
    OBVIOUS
  <2> QED
    BY <1>7, <2>1, <2>2 DEF IsFold
<1>9. PICK h : Takes(h, n, States, p, F) /\ h[n] = iter[D]
  BY <1>1, <1>3, <1>8, FoldSteps
<1>10. \A k \in 0..n - 1 : h[k + 1] = ReadLine(h[k], l[k + 1])
  <2>1. \A k \in 0..n - 1 : k \in 0..n /\ k + 1 \in D
    BY <1>1
  <2> QED
    BY <1>4, <1>9, <2>1 DEF Takes
<1> QED
  BY <1>2, <1>9, <1>10 DEF ParsePass, Takes

\* There is only one such pass.
LEMMA RunOf ==
    ASSUME NEW p \in States, NEW l \in Seq(LineSet), NEW h, ParsePass(p, l, h)
    PROVE  Run(p, l) = h[Len(l)] /\ Run(p, l) \in States
<1>1. PICK g : ParsePass(p, l, g) /\ Run(p, l) = g[Len(l)]
  BY RunIsPass
<1> DEFINE T == {k \in 0..Len(l) : g[k] = h[k]}
<1>2. Len(l) \in Nat /\ 0 \in T
  BY <1>1 DEF ParsePass
<1>3. \A k \in 0..(Len(l) - 1) : k \in T => k + 1 \in T
  BY <1>1 DEF ParsePass
<1>4. 0..Len(l) \subseteq T
  <2> HIDE DEF T
  <2> QED
    BY <1>2, <1>3, InductionUpTo
<1>5. Len(l) \in 0..Len(l)
  BY <1>2
<1> QED
  BY <1>1, <1>4, <1>5 DEF ParsePass

LEMMA RunType ==
    ASSUME NEW p \in States, NEW l \in Seq(LineSet)
    PROVE  Run(p, l) \in States
BY RunIsPass, RunOf

LEMMA RunNone == ASSUME NEW p \in States PROVE Run(p, <<>>) = p
<1>1. PICK h : ParsePass(p, <<>>, h) /\ Run(p, <<>>) = h[Len(<<>>)]
  <2>1. <<>> \in Seq(LineSet)
    OBVIOUS
  <2> QED
    BY <2>1, RunIsPass
<1> QED
  BY <1>1 DEF ParsePass

LEMMA RunOne ==
    ASSUME NEW p \in States, NEW line \in LineSet
    PROVE  Run(p, <<line>>) = ReadLine(p, line)
<1> DEFINE l == <<line>>
<1>1. l \in Seq(LineSet) /\ Len(l) = 1 /\ l[1] = line
  OBVIOUS
<1> HIDE DEF l
<1>2. PICK h : ParsePass(p, l, h) /\ Run(p, l) = h[Len(l)]
  BY <1>1, RunIsPass
<1>3. 0 \in 0..Len(l) - 1 /\ 0 + 1 = 1
  BY <1>1
<1>4. h[0 + 1] = ReadLine(h[0], l[0 + 1])
  BY <1>2, <1>3 DEF ParsePass
<1> QED
  BY <1>1, <1>2, <1>4 DEF ParsePass, l

LEMMA RunBoth ==
    ASSUME NEW p \in States, NEW a \in Seq(LineSet), NEW b \in Seq(LineSet)
    PROVE  Run(p, a \o b) = Run(Run(p, a), b)
<1> DEFINE l == a \o b
           n == Len(a)
           m == Len(b)
<1>1. /\ l \in Seq(LineSet) /\ Len(l) = n + m /\ n \in Nat /\ m \in Nat
      /\ \A i \in 1..n : l[i] = a[i]
      /\ \A i \in 1..m : l[n + i] = b[i]
  <2>1. /\ l \in Seq(LineSet) /\ Len(l) = n + m
        /\ \A i \in 1..n + m : l[i] = IF i <= n THEN a[i] ELSE b[i - n]
    BY ConcatProperties
  <2>2. n \in Nat /\ m \in Nat
    OBVIOUS
  <2> HIDE DEF n, m, l
  <2>3. \A i \in 1..n : i \in 1..n + m /\ i <= n
    BY <2>2
  <2>4. \A i \in 1..m : n + i \in 1..n + m /\ ~(n + i <= n) /\ (n + i) - n = i
    BY <2>2
  <2> QED
    BY <2>1, <2>2, <2>3, <2>4
<1>2. PICK h : ParsePass(p, l, h) /\ Run(p, l) = h[Len(l)]
  BY <1>1, RunIsPass
<1> HIDE DEF l
<1>3. ParsePass(p, a, [k \in 0..n |-> h[k]])
  BY <1>1, <1>2 DEF ParsePass
<1>4. Run(p, a) = h[n] /\ h[n] \in States
  BY <1>1, <1>3, RunOf
<1>5. ParsePass(h[n], b, [k \in 0..m |-> h[n + k]])
  <2> DEFINE g == [k \in 0..m |-> h[n + k]]
  <2>1. \A k \in 0..m : n + k \in 0..Len(l)
    BY <1>1
  <2>2. g \in [0..m -> States] /\ g[0] = h[n]
    BY <1>1, <1>2, <2>1 DEF ParsePass
  <2>3. ASSUME NEW k \in 0..m - 1 PROVE g[k + 1] = ReadLine(g[k], b[k + 1])
    <3>1. /\ n + k \in 0..Len(l) - 1 /\ (n + k) + 1 = n + (k + 1) /\ k + 1 \in 1..m
          /\ k + 1 \in 0..m /\ k \in 0..m
      BY <1>1
    <3>2. h[(n + k) + 1] = ReadLine(h[n + k], l[(n + k) + 1])
      BY <1>2, <3>1 DEF ParsePass
    <3>3. l[n + (k + 1)] = b[k + 1]
      BY <1>1, <3>1
    <3> QED
      BY <3>1, <3>2, <3>3
  <2> QED
    BY <2>2, <2>3 DEF ParsePass
<1>6. Run(h[n], b) = h[n + m]
  BY <1>1, <1>4, <1>5, RunOf
<1> QED
  BY <1>1, <1>2, <1>4, <1>6 DEF l

\* After an error nothing more is read.
LEMMA ErrorStays ==
    ASSUME NEW p \in States, p.error, NEW l \in Seq(LineSet)
    PROVE  Run(p, l) = p
<1> DEFINE h == [k \in 0..Len(l) |-> p]
<1>1. \A k \in 0..Len(l) - 1 : ReadLine(p, l[k + 1]) = p
  <2>1. \A k \in 0..Len(l) - 1 : k + 1 \in 1..Len(l)
    OBVIOUS
  <2> QED
    BY <2>1 DEF ReadLine
<1>2. ParsePass(p, l, h)
  <2>1. \A k \in 0..Len(l) - 1 : k \in 0..Len(l) /\ k + 1 \in 0..Len(l)
    OBVIOUS
  <2>2. 0 \in 0..Len(l)
    OBVIOUS
  <2> QED
    BY <1>1, <2>1, <2>2 DEF ParsePass
<1>3. Len(l) \in 0..Len(l)
  OBVIOUS
<1> QED
  BY <1>2, <1>3, RunOf

\* Nor is anything while no lesson is open, but a header.
LEMMA ClosedStays ==
    ASSUME NEW p \in States, ~p.open, NEW l \in Seq(LineSet),
           \A i \in 1..Len(l) : l[i].kind # "header"
    PROVE  Run(p, l) = p
<1> DEFINE h == [k \in 0..Len(l) |-> p]
<1>1. \A k \in 0..Len(l) - 1 : ReadLine(p, l[k + 1]) = p
  <2>1. \A k \in 0..Len(l) - 1 : k + 1 \in 1..Len(l)
    OBVIOUS
  <2> QED
    BY <2>1 DEF ReadLine
<1>2. ParsePass(p, l, h)
  <2>1. \A k \in 0..Len(l) - 1 : k \in 0..Len(l) /\ k + 1 \in 0..Len(l)
    OBVIOUS
  <2>2. 0 \in 0..Len(l)
    OBVIOUS
  <2> QED
    BY <1>1, <2>1, <2>2 DEF ParsePass
<1>3. Len(l) \in 0..Len(l)
  OBVIOUS
<1> QED
  BY <1>2, <1>3, RunOf

-----------------------------------------------------------------------------
(* The lines of a section.                                                 *)

HeaderOf(section, n) == [kind |-> IF section.header = "well" THEN "header" ELSE "other", n |-> n]
TitleOf(section) == [kind |-> "title", slug |-> section.slug]
TextsOf(section) == IF section.texts THEN <<[kind |-> "texts"]>> ELSE <<>>
CuesOf(c) == [i \in 1..c |-> [kind |-> "cue"]]
DrillOf(section) == IF section.drill = "none" THEN <<>> ELSE <<[kind |-> "drill", read |-> section.drill]>>

LEMMA PartsType ==
    ASSUME NEW section \in Sections, NEW n \in Nat
    PROVE  /\ HeaderOf(section, n) \in LineSet /\ TitleOf(section) \in LineSet
           /\ TextsOf(section) \in Seq(LineSet)
           /\ section.cues \in Nat
           /\ DrillOf(section) \in Seq(LineSet)
<1>1. section.slug \in Slugs /\ section.cues \in Nat /\ section.drill \in {"whole", "mistyped", "none"}
  BY DEF Sections
<1>2. HeaderOf(section, n) \in [kind: {"header", "other"}, n: Nat]
  BY DEF HeaderOf
<1>3. TitleOf(section) \in [kind: {"title"}, slug: Slugs]
  BY <1>1 DEF TitleOf
<1>4. [kind |-> "texts"] \in LineSet
  BY DEF LineSet
<1>5. section.drill # "none" => [kind |-> "drill", read |-> section.drill] \in LineSet
  BY <1>1 DEF LineSet
<1> DEFINE t == [kind |-> "texts"]
           d == [kind |-> "drill", read |-> section.drill]
<1>6. TextsOf(section) \in Seq(LineSet)
  <2> HIDE DEF t
  <2>1. TextsOf(section) = <<t>> \/ TextsOf(section) = <<>>
    BY DEF TextsOf, t
  <2>2. t \in LineSet
    BY <1>4 DEF t
  <2>3. <<t>> \in Seq(LineSet) /\ <<>> \in Seq(LineSet)
    BY <2>2
  <2> QED
    BY <2>1, <2>3, Zenon
<1>7. DrillOf(section) \in Seq(LineSet)
  <2> HIDE DEF d
  <2>1. (section.drill # "none" /\ DrillOf(section) = <<d>>) \/ DrillOf(section) = <<>>
    BY DEF DrillOf, d
  <2>2. section.drill # "none" => d \in LineSet
    BY <1>5 DEF d
  <2>3. (d \in LineSet => <<d>> \in Seq(LineSet)) /\ <<>> \in Seq(LineSet)
    OBVIOUS
  <2> QED
    BY <2>1, <2>2, <2>3, Zenon
<1> QED
  BY <1>1, <1>2, <1>3, <1>6, <1>7 DEF LineSet

LEMMA CuesType == ASSUME NEW c \in Nat PROVE CuesOf(c) \in Seq(LineSet)
<1> DEFINE line == [kind |-> "cue"]
<1>1. line \in LineSet
  BY DEF LineSet
<1> HIDE DEF line
<1>2. CuesOf(c) = [i \in 1..c |-> line]
  BY DEF CuesOf, line
<1> QED
  BY <1>1, <1>2

\* Reading a section is reading its parts.
LEMMA RunLines ==
    ASSUME NEW p \in States, NEW section \in Sections, NEW n \in Nat
    PROVE  /\ Lines(section, n) \in Seq(LineSet)
           /\ Run(p, Lines(section, n)) =
                Run(Run(Run(ReadLine(ReadLine(p, HeaderOf(section, n)), TitleOf(section)),
                            TextsOf(section)), CuesOf(section.cues)), DrillOf(section))
<1> DEFINE a == <<HeaderOf(section, n)>>
           b == <<TitleOf(section)>>
           t == TextsOf(section)
           c == CuesOf(section.cues)
           d == DrillOf(section)
<1>1. Lines(section, n) = ((<<HeaderOf(section, n), TitleOf(section)>> \o t) \o c) \o d
  BY DEF Lines, HeaderOf, TitleOf, TextsOf, CuesOf, DrillOf
<1>2. <<HeaderOf(section, n), TitleOf(section)>> = a \o b
  OBVIOUS
<1>3. /\ HeaderOf(section, n) \in LineSet /\ TitleOf(section) \in LineSet
      /\ t \in Seq(LineSet) /\ c \in Seq(LineSet) /\ d \in Seq(LineSet)
  BY PartsType, CuesType
<1>4. a \in Seq(LineSet) /\ b \in Seq(LineSet)
  BY <1>3
<1>5. Run(p, a) = ReadLine(p, HeaderOf(section, n)) /\ Run(p, a) \in States
  BY <1>3, RunOne, ReadLineType
<1>6. Run(Run(p, a), b) = ReadLine(Run(p, a), TitleOf(section))
  BY <1>3, <1>5, RunOne
<1> HIDE DEF a, b, t, c, d
<1>7. a \o b \in Seq(LineSet) /\ (a \o b) \o t \in Seq(LineSet) /\ ((a \o b) \o t) \o c \in Seq(LineSet)
  BY <1>3, <1>4
<1>8. (((a \o b) \o t) \o c) \o d \in Seq(LineSet)
  BY <1>3, <1>7
<1>9. Run(p, a \o b) = Run(Run(p, a), b)
  BY <1>4, RunBoth
<1>10. Run(p, (a \o b) \o t) = Run(Run(p, a \o b), t)
  BY <1>3, <1>7, RunBoth
<1>11. Run(p, ((a \o b) \o t) \o c) = Run(Run(p, (a \o b) \o t), c)
  BY <1>3, <1>7, RunBoth
<1>12. Run(p, (((a \o b) \o t) \o c) \o d) = Run(Run(p, ((a \o b) \o t) \o c), d)
  BY <1>3, <1>7, RunBoth
<1> QED
  BY <1>1, <1>2, <1>5, <1>6, <1>8, <1>9, <1>10, <1>11, <1>12 DEF t, c, d

\* The cues of an open lesson are counted.
LEMMA RunCues ==
    ASSUME NEW p \in States, p.open, ~p.error, NEW c \in Nat
    PROVE  LET q == Run(p, CuesOf(c)) IN
           /\ q \in States /\ q.open /\ ~q.error /\ q.lessons = p.lessons
           /\ q.current = [p.current EXCEPT !.cues = p.current.cues + c]
<1> DEFINE l == CuesOf(c)
           After(x, k) == /\ x \in States /\ x.open /\ ~x.error /\ x.lessons = p.lessons
                          /\ x.current = [p.current EXCEPT !.cues = p.current.cues + k]
<1>1. l \in Seq(LineSet) /\ Len(l) = c /\ \A i \in 1..c : l[i] = [kind |-> "cue"]
  <2>1. DOMAIN l = 1..c /\ \A i \in 1..c : l[i] = [kind |-> "cue"]
    BY DEF CuesOf
  <2>2. l \in Seq(LineSet)
    BY CuesType
  <2> HIDE DEF l
  <2> QED
    BY <2>1, <2>2
<1> HIDE DEF l
<1>2. PICK h : ParsePass(p, l, h) /\ Run(p, l) = h[Len(l)]
  BY <1>1, RunIsPass
<1>3. p.current \in Read /\ p.current.cues \in Nat
  BY DEF States, Read
<1>4. After(h[0], 0)
  BY <1>2, <1>3 DEF ParsePass, Read
<1>5. ASSUME NEW k \in 0..(c - 1), After(h[k], k) PROVE After(h[k + 1], k + 1)
  <2> DEFINE x == h[k]
             y == h[k + 1]
             line == l[k + 1]
  <2>1. k + 1 \in 1..c /\ k \in Nat
    OBVIOUS
  <2>2. y = ReadLine(x, line) /\ line = [kind |-> "cue"]
    BY <1>1, <1>2, <2>1 DEF ParsePass
  <2>3. line \in LineSet /\ line.kind = "cue" /\ line.kind # "header"
    BY <2>2 DEF LineSet
  <2>4. x \in States /\ x.open /\ ~x.error /\ x.lessons = p.lessons
    BY <1>5
  <2>5. x.current = [p.current EXCEPT !.cues = p.current.cues + k]
    BY <1>5
  <2> HIDE DEF x, y, line
  <2>6. y = Fill(x, line)
    BY <2>2, <2>3, <2>4 DEF ReadLine
  <2>7. /\ y \in States /\ y.open /\ ~y.error /\ y.lessons = p.lessons
        /\ y.current = [x.current EXCEPT !.cues = x.current.cues + 1]
    BY <2>3, <2>4, <2>6, FillFields
  <2>8. x.current.cues = p.current.cues + k
    BY <1>3, <2>5 DEF Read
  <2>9. y.current = [x.current EXCEPT !.cues = p.current.cues + (k + 1)]
    <3>1. (p.current.cues + k) + 1 = p.current.cues + (k + 1)
      BY <1>3, <2>1
    <3> QED
      BY <2>7, <2>8, <3>1
  <2>10. y.current = [p.current EXCEPT !.cues = p.current.cues + (k + 1)]
    BY <1>3, <2>5, <2>9 DEF Read
  <2> QED
    BY <2>7, <2>10 DEF y
<1>6. After(h[c], c)
  <2> DEFINE T == {k \in 0..c : After(h[k], k)}
  <2> HIDE DEF After
  <2>1. 0 \in T /\ \A k \in 0..(c - 1) : k \in T => k + 1 \in T
    <3>1. 0 \in 0..c /\ \A k \in 0..(c - 1) : k + 1 \in 0..c
      OBVIOUS
    <3> QED
      BY <1>4, <1>5, <3>1
  <2>2. 0..c \subseteq T
    <3> HIDE DEF T
    <3> QED
      BY <2>1, InductionUpTo
  <2> QED
    BY <2>2
<1> QED
  BY <1>1, <1>2, <1>6 DEF l

-----------------------------------------------------------------------------
(* A whole section.                                                        *)

\* What is meant by section n.
Meant(section, n) == [n |-> n, slug |-> section.slug, texts |-> TRUE, cues |-> Cues, drill |-> TRUE]

\* What follows the header, while a lesson is open.
LEMMA RunBody ==
    ASSUME NEW p \in States, p.open, ~p.error, NEW section \in Sections, Whole(section)
    PROVE  LET q == Run(Run(Run(ReadLine(p, TitleOf(section)), TextsOf(section)),
                            CuesOf(section.cues)), DrillOf(section)) IN
           /\ q \in States /\ q.open /\ ~q.error /\ q.lessons = p.lessons
           /\ q.current = [n |-> p.current.n, slug |-> section.slug, texts |-> TRUE,
                           cues |-> p.current.cues + Cues, drill |-> TRUE]
<1> DEFINE texts == [kind |-> "texts"]
           drill == [kind |-> "drill", read |-> "whole"]
           p1 == ReadLine(p, TitleOf(section))
           p2 == ReadLine(p1, texts)
           p3 == Run(p2, CuesOf(section.cues))
           p4 == ReadLine(p3, drill)
<1>1. TextsOf(section) = <<texts>> /\ section.cues = Cues /\ DrillOf(section) = <<drill>>
  BY DEF Whole, TextsOf, DrillOf
<1>2. /\ TitleOf(section) \in LineSet /\ TitleOf(section).kind = "title"
      /\ TitleOf(section).slug = section.slug
  BY PartsType DEF TitleOf
<1>3. /\ texts \in LineSet /\ texts.kind = "texts"
      /\ drill \in LineSet /\ drill.kind = "drill" /\ drill.read = "whole"
  BY DEF LineSet
<1>4. p.current \in Read /\ Cues \in Nat
  BY FileAssumption DEF States
<1> HIDE DEF texts, drill
<1>5. /\ p1 \in States /\ p1.open /\ ~p1.error /\ p1.lessons = p.lessons
      /\ p1.current = [p.current EXCEPT !.slug = section.slug]
  <2> DEFINE title == TitleOf(section)
  <2>1. p1 = Fill(p, title)
    BY <1>2 DEF ReadLine
  <2>2. title \in LineSet /\ title.kind = "title" /\ title.slug = section.slug
    BY <1>2
  <2> HIDE DEF p1, title
  <2>3. /\ p1 \in States /\ p1.lessons = p.lessons /\ p1.open = p.open /\ p1.error = p.error
        /\ p1.current = [p.current EXCEPT !.slug = title.slug]
    BY <2>1, <2>2, FillFields
  <2> QED
    BY <2>2, <2>3
<1> HIDE DEF p1
<1>6. /\ p2 \in States /\ p2.open /\ ~p2.error /\ p2.lessons = p.lessons
      /\ p2.current = [p1.current EXCEPT !.texts = TRUE]
  <2>1. p2 = Fill(p1, texts)
    BY <1>3, <1>5 DEF ReadLine
  <2> HIDE DEF p2
  <2> QED
    BY <1>3, <1>5, <2>1, FillFields
<1>7. Run(p1, TextsOf(section)) = p2
  BY <1>1, <1>3, <1>5, RunOne
<1> HIDE DEF p2
<1>8. /\ p3 \in States /\ p3.open /\ ~p3.error /\ p3.lessons = p.lessons
      /\ p3.current = [p2.current EXCEPT !.cues = p2.current.cues + Cues]
  BY <1>1, <1>4, <1>6, RunCues
<1> HIDE DEF p3
<1>9. /\ p4 \in States /\ p4.open /\ ~p4.error /\ p4.lessons = p.lessons
      /\ p4.current = [p3.current EXCEPT !.drill = TRUE]
  <2>1. p4 = Fill(p3, drill)
    BY <1>3, <1>8 DEF ReadLine
  <2> HIDE DEF p4
  <2>2. p4.error = (drill.read = "mistyped")
    BY <1>3, <1>8, <2>1, FillFields
  <2> QED
    BY <1>3, <1>8, <2>1, <2>2, FillFields
<1>10. Run(p3, DrillOf(section)) = p4
  BY <1>1, <1>3, <1>8, RunOne
<1> HIDE DEF p4
<1>11. p4.current = [n |-> p.current.n, slug |-> section.slug, texts |-> TRUE,
                     cues |-> p.current.cues + Cues, drill |-> TRUE]
  <2> DEFINE c == p.current
  <2>1. c \in Read /\ c.cues \in Nat /\ section.slug \in Slugs
    BY <1>4 DEF Read, Sections
  <2> HIDE DEF c
  <2>2. p1.current = [c EXCEPT !.slug = section.slug]
    BY <1>5 DEF c
  <2>3. p2.current = [c EXCEPT !.slug = section.slug, !.texts = TRUE]
    BY <1>6, <2>1, <2>2 DEF Read
  <2>4. p2.current.cues = c.cues
    BY <2>1, <2>3 DEF Read
  <2>5. p3.current = [c EXCEPT !.slug = section.slug, !.texts = TRUE, !.cues = c.cues + Cues]
    BY <1>8, <2>1, <2>3, <2>4 DEF Read
  <2>6. p4.current = [c EXCEPT !.slug = section.slug, !.texts = TRUE, !.cues = c.cues + Cues,
                               !.drill = TRUE]
    BY <1>9, <2>1, <2>5 DEF Read
  <2>7. p4.current = [n |-> c.n, slug |-> section.slug, texts |-> TRUE,
                      cues |-> c.cues + Cues, drill |-> TRUE]
    BY <2>1, <2>6 DEF Read
  <2> QED
    BY <2>7 DEF c
<1> QED
  BY <1>7, <1>9, <1>10, <1>11 DEF p1, p3

LEMMA RunWell ==
    ASSUME NEW p \in States, ~p.error, NEW section \in Sections, NEW n \in Nat,
           Whole(section), section.header = "well"
    PROVE  LET q == Run(p, Lines(section, n)) IN
           /\ q \in States
           /\ Flush(p).error => q.error
           /\ ~Flush(p).error =>
                ~q.error /\ q.open /\ q.lessons = Flush(p).lessons /\ q.current = Meant(section, n)
<1> DEFINE line == HeaderOf(section, n)
           o == ReadLine(p, line)
           q == Run(p, Lines(section, n))
<1>1. line \in LineSet /\ line.kind = "header" /\ line.n = n
  BY PartsType DEF HeaderOf
<1> HIDE DEF line
<1>2. /\ o \in States /\ o.open /\ o.current = Opened(n)
      /\ o.lessons = Flush(p).lessons /\ o.error = Flush(p).error
  BY <1>1, HeaderFields
<1>3. q = Run(Run(Run(ReadLine(o, TitleOf(section)), TextsOf(section)),
                  CuesOf(section.cues)), DrillOf(section))
  BY RunLines DEF line
<1>4. q \in States
  BY RunLines, RunType
<1> HIDE DEF o, q
<1>5. CASE Flush(p).error
  <2>1. o.error
    BY <1>2, <1>5
  <2>2. ReadLine(o, TitleOf(section)) = o
    BY <2>1 DEF ReadLine
  <2>3. TextsOf(section) \in Seq(LineSet) /\ CuesOf(section.cues) \in Seq(LineSet) /\ DrillOf(section) \in Seq(LineSet)
    BY PartsType, CuesType
  <2>4. q = o
    BY <1>2, <1>3, <2>1, <2>2, <2>3, ErrorStays
  <2> QED
    BY <1>4, <1>5, <2>1, <2>4 DEF q
<1>6. CASE ~Flush(p).error
  <2>1. ~o.error
    BY <1>2, <1>6
  <2>2. /\ q.open /\ ~q.error /\ q.lessons = o.lessons
        /\ q.current = [n |-> o.current.n, slug |-> section.slug, texts |-> TRUE,
                        cues |-> o.current.cues + Cues, drill |-> TRUE]
    BY <1>2, <1>3, <2>1, RunBody
  <2>3. o.current.n = n /\ o.current.cues + Cues = Cues
    BY <1>2, FileAssumption DEF Opened, NoLesson
  <2> QED
    BY <1>2, <1>4, <1>6, <2>2, <2>3 DEF Meant, q
<1> QED
  BY <1>5, <1>6

LEMMA RunMistyped ==
    ASSUME NEW p \in States, ~p.error, NEW section \in Sections, NEW n \in Nat,
           Whole(section), section.header = "mistyped"
    PROVE  LET q == Run(p, Lines(section, n)) IN
           /\ q \in States
           /\ ~p.open => q = p
           /\ p.open => ~q.error /\ q.open /\ q.current.cues = p.current.cues + Cues
<1> DEFINE line == HeaderOf(section, n)
           q == Run(p, Lines(section, n))
<1>1. line \in LineSet /\ line.kind = "other"
  BY PartsType DEF HeaderOf
<1> HIDE DEF line
<1>2. ReadLine(p, line) = p
  BY <1>1, FillFields DEF ReadLine
<1>3. q = Run(Run(Run(ReadLine(p, TitleOf(section)), TextsOf(section)),
                  CuesOf(section.cues)), DrillOf(section))
  BY <1>2, RunLines DEF line
<1>4. q \in States
  BY RunLines, RunType
<1>5. CASE p.open
  <2> HIDE DEF q
  <2>1. /\ ~q.error /\ q.open
        /\ q.current = [n |-> p.current.n, slug |-> section.slug, texts |-> TRUE,
                        cues |-> p.current.cues + Cues, drill |-> TRUE]
    BY <1>3, <1>5, RunBody
  <2> QED
    BY <1>4, <1>5, <2>1 DEF q
<1>6. CASE ~p.open
  <2>1. ReadLine(p, TitleOf(section)) = p
    BY <1>6 DEF ReadLine, TitleOf
  <2>2. Run(p, TextsOf(section)) = p
    <3>1. \A i \in 1..Len(TextsOf(section)) : TextsOf(section)[i].kind # "header"
      BY DEF TextsOf
    <3> QED
      BY <1>6, <3>1, PartsType, ClosedStays
  <2>3. Run(p, CuesOf(section.cues)) = p
    <3>1. section.cues \in Nat
      BY PartsType
    <3>2. \A i \in 1..Len(CuesOf(section.cues)) : CuesOf(section.cues)[i].kind # "header"
      BY <3>1 DEF CuesOf
    <3> QED
      BY <1>6, <3>1, <3>2, CuesType, ClosedStays
  <2>4. Run(p, DrillOf(section)) = p
    <3>1. \A i \in 1..Len(DrillOf(section)) : DrillOf(section)[i].kind # "header"
      BY DEF DrillOf
    <3> QED
      BY <1>6, <3>1, PartsType, ClosedStays
  <2> QED
    BY <1>3, <1>6, <2>1, <2>2, <2>3, <2>4
<1> QED
  BY <1>5, <1>6

-----------------------------------------------------------------------------
(* A file, section by section.                                             *)

LEMMA ParseSections ==
    ASSUME NEW file \in Seq(Sections)
    PROVE  \E s : /\ s \in [0..Len(file) -> States]
                 /\ s[0] = Start /\ s[Len(file)] = Run(Start, LinesOf(file))
                 /\ \A k \in 0..Len(file) - 1 :
                      s[k + 1] = Run(s[k], Lines(file[k + 1], k + 1))
<1> DEFINE n == Len(file)
           seqs == [i \in DOMAIN file |-> Lines(file[i], i)]
<1>1. n \in Nat /\ DOMAIN file = 1..n /\ \A i \in 1..n : file[i] \in Sections
  OBVIOUS
<1>2. seqs \in Seq(Seq(LineSet)) /\ Len(seqs) = n /\ \A i \in 1..n : seqs[i] = Lines(file[i], i)
  <2>1. \A i \in 1..n : Lines(file[i], i) \in Seq(LineSet)
    BY <1>1, RunLines, StartType
  <2> QED
    BY <1>1, <2>1
<1> HIDE DEF seqs
<1>3. PICK h : /\ h \in [0..n -> Seq(LineSet)]
               /\ h[0] = <<>> /\ h[n] = FlattenSeq(seqs)
               /\ \A k \in 0..n - 1 : h[k + 1] = h[k] \o seqs[k + 1]
  <2>1. PICK h : Appends(h, LineSet, seqs) /\ h[Len(seqs)] = FlattenSeq(seqs)
    BY <1>2, FlattenSteps
  <2> QED
    BY <1>2, <2>1 DEF Appends
<1>4. LinesOf(file) = h[n]
  BY <1>3 DEF LinesOf, seqs
<1> DEFINE s == [k \in 0..n |-> Run(Start, h[k])]
<1>5. s \in [0..n -> States] /\ s[0] = Start /\ s[n] = Run(Start, LinesOf(file))
  <2>1. 0 \in 0..n /\ n \in 0..n
    BY <1>1
  <2>2. \A k \in 0..n : Run(Start, h[k]) \in States
    BY <1>3, RunType, StartType
  <2> QED
    BY <1>3, <1>4, <2>1, <2>2, RunNone, StartType
<1>6. ASSUME NEW k \in 0..n - 1 PROVE s[k + 1] = Run(s[k], Lines(file[k + 1], k + 1))
  <2>1. k \in 0..n /\ k + 1 \in 0..n /\ k + 1 \in 1..n
    BY <1>1
  <2>2. h[k] \in Seq(LineSet) /\ seqs[k + 1] \in Seq(LineSet)
    <3>1. seqs[k + 1] \in Seq(LineSet)
      BY <1>2, <2>1
    <3> QED
      BY <1>3, <2>1, <3>1
  <2>3. Run(Start, h[k + 1]) = Run(Run(Start, h[k]), seqs[k + 1])
    <3>1. h[k + 1] = h[k] \o seqs[k + 1]
      BY <1>3
    <3>2. Run(Start, h[k] \o seqs[k + 1]) = Run(Run(Start, h[k]), seqs[k + 1])
      BY <2>2, RunBoth, StartType
    <3> QED
      BY <3>1, <3>2
  <2> QED
    BY <1>2, <2>1, <2>3
<1> HIDE DEF s
<1> QED
  BY <1>5, <1>6

\* What the parser may hold after k sections that are whole: nothing yet; the lessons of
\* the sections from the first well typed header on; or a lesson that has taken in the
\* cues of another.
Nothing(file, p, k) ==
    ~p.open /\ p.lessons = <<>> /\ \A i \in 1..k : file[i].header # "well"
From(file, f, k) ==
    f \in 1..k /\ \A i \in 1..k : file[i].header = "well" <=> i >= f
LessonAt(file, i) == Meant(file[i], i)
Faithful(file, p, k) ==
    /\ p.open
    /\ \E f \in 1..k : /\ From(file, f, k)
                       /\ p.lessons = [i \in 1..k - f |-> LessonAt(file, f + i - 1)]
                       /\ p.current = LessonAt(file, k)
Swollen(p) == p.open /\ p.current.cues > Cues
Good(file, p, k) == p.error \/ Nothing(file, p, k) \/ Faithful(file, p, k) \/ Swollen(p)

LEMMA MeantIsValid ==
    ASSUME NEW section \in Sections, NEW n \in Nat
    PROVE  Meant(section, n) \in Valid
<1>1. section.slug \in Slugs /\ section.slug # NoSlug /\ Cues \in Nat
  BY FileAssumption DEF Sections
<1> QED
  BY <1>1 DEF Meant, Valid, Read, validateLesson

LEMMA SectionStep ==
    ASSUME NEW file \in Seq(Sections), \A i \in DOMAIN file : Whole(file[i]),
           NEW k \in 0..Len(file) - 1, NEW p \in States, Good(file, p, k)
    PROVE  Good(file, Run(p, Lines(file[k + 1], k + 1)), k + 1)
<1> DEFINE n == k + 1
           section == file[n]
           q == Run(p, Lines(section, n))
<1>1. n \in DOMAIN file /\ n \in Nat /\ k \in Nat /\ section \in Sections /\ Whole(section)
  OBVIOUS
<1>2. \A i \in 1..n : i \in 1..k \/ i = n
  BY <1>1
<1>3. \A i \in 1..k : i \in 1..n /\ i \in DOMAIN file
  BY <1>1
<1>4. Cues \in Nat /\ Cues # 0
  BY FileAssumption
<1>5. section.header \in {"well", "mistyped"}
  BY <1>1 DEF Sections
<1>6. Lines(section, n) \in Seq(LineSet)
  BY <1>1, RunLines
<1>7. p.current.cues \in Nat
  BY DEF States, Read
<1> HIDE DEF q
<1>8. CASE p.error
  <2>1. q = p
    BY <1>6, <1>8, ErrorStays DEF q
  <2> QED
    BY <1>8, <2>1 DEF Good, q
<1>9. CASE ~p.error /\ Nothing(file, p, k)
  <2>1. Flush(p) = p
    BY <1>9, FlushFields DEF Nothing
  <2>2. CASE section.header = "well"
    <3>1. q.open /\ q.lessons = <<>> /\ q.current = Meant(section, n)
      BY <1>1, <1>9, <2>1, <2>2, RunWell DEF q, Nothing
    <3>2. From(file, n, n)
      BY <1>1, <1>2, <1>9, <2>2 DEF From, Nothing
    <3>3. n \in 1..n /\ <<>> = [i \in 1..n - n |-> LessonAt(file, n + i - 1)]
      BY <1>1
    <3>4. Faithful(file, q, n)
      BY <3>1, <3>2, <3>3 DEF Faithful, LessonAt
    <3> QED
      BY <3>4 DEF Good, q
  <2>3. CASE section.header = "mistyped"
    <3>1. q = p
      BY <1>1, <1>9, <2>3, RunMistyped DEF q, Nothing
    <3>2. Nothing(file, q, n)
      BY <1>2, <1>9, <2>3, <3>1 DEF Nothing
    <3> QED
      BY <3>2 DEF Good, q
  <2> QED
    BY <1>5, <2>2, <2>3
<1>10. CASE ~p.error /\ Faithful(file, p, k)
  <2>1. PICK f \in 1..k : /\ From(file, f, k)
                          /\ p.lessons = [i \in 1..k - f |-> LessonAt(file, f + i - 1)]
                          /\ p.current = LessonAt(file, k)
    BY <1>10 DEF Faithful
  <2>2. p.open
    BY <1>10 DEF Faithful
  <2>3. CASE section.header = "well"
    <3>1. LessonAt(file, k) \in Valid
      <4>1. k \in DOMAIN file /\ file[k] \in Sections
        BY <1>3, <2>1
      <4> QED
        BY <1>1, <4>1, MeantIsValid DEF LessonAt
    <3>2. validateLesson(p.current)
      BY <2>1, <3>1 DEF Valid
    <3>3. Flush(p).lessons = Append(p.lessons, p.current) /\ ~Flush(p).error
      BY <1>10, <2>2, <3>2, FlushFields
    <3>4. q.open /\ q.lessons = Append(p.lessons, LessonAt(file, k)) /\ q.current = Meant(section, n)
      BY <1>1, <1>10, <2>1, <2>3, <3>3, RunWell DEF q
    <3>5. From(file, f, n)
      BY <1>1, <1>2, <1>3, <2>1, <2>3 DEF From
    <3>6. q.lessons = [i \in 1..n - f |-> LessonAt(file, f + i - 1)]
      <4> DEFINE old == [i \in 1..k - f |-> LessonAt(file, f + i - 1)]
                 new == [i \in 1..n - f |-> LessonAt(file, f + i - 1)]
      <4>1. k - f \in Nat /\ n - f = (k - f) + 1 /\ f + ((k - f) + 1) - 1 = k
        BY <1>1, <2>1
      <4>2. p.lessons \in Seq(Valid) /\ Len(old) = k - f
        <5>1. p.lessons \in Seq(Valid) /\ DOMAIN p.lessons = 1..k - f /\ p.lessons = old
          BY <2>1 DEF States
        <5> HIDE DEF old
        <5> QED
          BY <4>1, <5>1
      <4>3. Append(old, LessonAt(file, k)) = new
        <5> DEFINE m == k - f
        <5>1. m \in Nat /\ n - f = m + 1 /\ f + (m + 1) - 1 = k
          BY <4>1
        <5>2. new = [i \in 1..m + 1 |-> LessonAt(file, f + i - 1)]
          BY <5>1
        <5> HIDE DEF m
        <5>3. old = [i \in 1..m |-> LessonAt(file, f + i - 1)] /\ Len(old) = m
          BY <4>2 DEF m
        <5>4. Append(old, LessonAt(file, k)) =
                [i \in 1..m + 1 |-> IF i = m + 1 THEN LessonAt(file, k) ELSE old[i]]
          BY <5>1, <5>3
        <5>5. ASSUME NEW i \in 1..m + 1
              PROVE  LessonAt(file, f + i - 1) = IF i = m + 1 THEN LessonAt(file, k) ELSE old[i]
          <6>1. CASE i = m + 1
            BY <5>1, <6>1
          <6>2. CASE i # m + 1
            <7>1. i \in 1..m
              BY <5>1, <6>2
            <7> QED
              BY <5>3, <6>2, <7>1
          <6> QED
            BY <6>1, <6>2
        <5> HIDE DEF old
        <5> QED
          BY <5>2, <5>4, <5>5
      <4> QED
        BY <2>1, <3>4, <4>3
    <3>7. f \in 1..n
      BY <1>3, <2>1
    <3>8. Faithful(file, q, n)
      BY <3>4, <3>5, <3>6, <3>7 DEF Faithful, LessonAt
    <3> QED
      BY <3>8 DEF Good, q
  <2>4. CASE section.header = "mistyped"
    <3>1. q.open /\ q.current.cues = p.current.cues + Cues
      BY <1>1, <1>10, <2>2, <2>4, RunMistyped DEF q
    <3>2. p.current.cues = Cues
      BY <2>1 DEF LessonAt, Meant
    <3>3. Swollen(q)
      BY <1>4, <3>1, <3>2 DEF Swollen
    <3> QED
      BY <3>3 DEF Good, q
  <2> QED
    BY <1>5, <2>3, <2>4
<1>11. CASE ~p.error /\ Swollen(p)
  <2>1. CASE section.header = "well"
    <3>1. ~validateLesson(p.current)
      BY <1>4, <1>7, <1>11 DEF Swollen, validateLesson
    <3>2. Flush(p).error
      BY <1>11, <3>1, FlushFields DEF Swollen
    <3>3. q.error
      BY <1>1, <1>11, <2>1, <3>2, RunWell DEF q
    <3> QED
      BY <3>3 DEF Good, q
  <2>2. CASE section.header = "mistyped"
    <3>1. q.open /\ q.current.cues = p.current.cues + Cues
      BY <1>1, <1>11, <2>2, RunMistyped DEF q, Swollen
    <3>2. Swollen(q)
      BY <1>4, <1>7, <1>11, <3>1 DEF Swollen
    <3> QED
      BY <3>2 DEF Good, q
  <2> QED
    BY <1>5, <2>1, <2>2
<1> QED
  BY <1>8, <1>9, <1>10, <1>11 DEF Good

LEMMA FileIsGood ==
    ASSUME NEW file \in Seq(Sections), \A i \in DOMAIN file : Whole(file[i])
    PROVE  Good(file, Run(Start, LinesOf(file)), Len(file))
<1> DEFINE n == Len(file)
<1>1. PICK s : /\ s \in [0..n -> States]
               /\ s[0] = Start /\ s[n] = Run(Start, LinesOf(file))
               /\ \A k \in 0..n - 1 : s[k + 1] = Run(s[k], Lines(file[k + 1], k + 1))
  BY ParseSections
<1> DEFINE T == {k \in 0..n : Good(file, s[k], k)}
<1>2. n \in Nat
  OBVIOUS
<1>3. 0 \in T
  <2>1. Nothing(file, Start, 0)
    BY DEF Nothing, Start
  <2> QED
    BY <1>1, <1>2, <2>1 DEF Good
<1>4. ASSUME NEW k \in 0..(n - 1), k \in T PROVE k + 1 \in T
  <2>1. k \in 0..n /\ k + 1 \in 0..n /\ k \in 0..n - 1
    BY <1>2
  <2>2. s[k] \in States /\ Good(file, s[k], k)
    BY <1>1, <1>4, <2>1
  <2>3. Good(file, Run(s[k], Lines(file[k + 1], k + 1)), k + 1)
    BY <2>1, <2>2, SectionStep
  <2> QED
    BY <1>1, <2>1, <2>3
<1>5. 0..n \subseteq T
  <2> HIDE DEF T, n
  <2> QED
    BY <1>2, <1>3, <1>4, InductionUpTo
<1>6. n \in 0..n
  BY <1>2
<1> QED
  BY <1>1, <1>5, <1>6

-----------------------------------------------------------------------------
(* What Parse makes of a file.                                             *)

LEMMA ParseType ==
    ASSUME NEW file \in Seq(Sections)
    PROVE  Parse(file) \in Seq(Valid)
<1> DEFINE p == Run(Start, LinesOf(file))
           q == IF p.error THEN p ELSE Flush(p)
<1>1. p \in States
  <2>1. Len(file) \in 0..Len(file)
    OBVIOUS
  <2> QED
    BY <2>1, ParseSections
<1>2. Parse(file) = IF q.error THEN <<>> ELSE q.lessons
  BY DEF Parse, Run
<1> HIDE DEF p
<1>3. q \in States
  BY <1>1, FlushFields
<1> HIDE DEF q
<1>4. <<>> \in Seq(Valid) /\ q.lessons \in Seq(Valid)
  BY <1>3 DEF States
<1> QED
  BY <1>2, <1>4

\* A file of whole sections gives a lesson for each section from the first well-typed
\* header on, or none.
LEMMA ParseIsMeant ==
    ASSUME NEW file \in Seq(Sections), AllWhole(file), Parse(file) # <<>>
    PROVE  \E f \in 1..Len(file) :
             /\ From(file, f, Len(file))
             /\ Parse(file) = [i \in 1..Len(file) - f + 1 |-> LessonAt(file, f + i - 1)]
<1> USE DEF AllWhole
<1> DEFINE p == Run(Start, LinesOf(file))
           q == IF p.error THEN p ELSE Flush(p)
           n == Len(file)
<1>1. p \in States /\ n \in Nat /\ DOMAIN file = 1..n
  <2>1. Len(file) \in 0..Len(file)
    OBVIOUS
  <2> QED
    BY <2>1, ParseSections
<1>2. Parse(file) = IF q.error THEN <<>> ELSE q.lessons
  BY DEF Parse, Run
<1>3. Good(file, p, n)
  BY FileIsGood
<1> HIDE DEF p
<1>4. ~p.error /\ ~Flush(p).error /\ Parse(file) = Flush(p).lessons
  BY <1>2
<1>5. ~Nothing(file, p, n)
  BY <1>1, <1>4, FlushFields DEF Nothing
<1>6. ~Swollen(p)
  <2>1. ASSUME Swollen(p) PROVE ~validateLesson(p.current)
    <3>1. p.current.cues \in Nat /\ Cues \in Nat
      BY <1>1, FileAssumption DEF States, Read
    <3> QED
      BY <2>1, <3>1 DEF Swollen, validateLesson
  <2> QED
    BY <1>1, <1>4, <2>1, FlushFields DEF Swollen
<1>7. Faithful(file, p, n)
  BY <1>3, <1>4, <1>5, <1>6 DEF Good
<1>8. PICK f \in 1..n : /\ From(file, f, n)
                        /\ p.lessons = [i \in 1..n - f |-> LessonAt(file, f + i - 1)]
                        /\ p.current = LessonAt(file, n)
  BY <1>7 DEF Faithful
<1> HIDE DEF n
<1>9. Parse(file) = Append(p.lessons, LessonAt(file, n))
  BY <1>1, <1>4, <1>7, <1>8, FlushFields DEF Faithful
<1> DEFINE m == n - f
<1>10. m \in Nat /\ n = f + m /\ f \in Nat
  BY <1>1, <1>8
<1> HIDE DEF m
<1>11. Append(p.lessons, LessonAt(file, n)) =
         [i \in 1..m + 1 |-> IF i = m + 1 THEN LessonAt(file, n) ELSE p.lessons[i]]
  <2>1. p.lessons \in Seq(Valid) /\ Len(p.lessons) = m
    <3>1. p.lessons \in Seq(Valid) /\ DOMAIN p.lessons = 1..m
      BY <1>1, <1>8 DEF States, m
    <3> QED
      BY <1>10, <3>1
  <2> QED
    BY <2>1
<1>12. ASSUME NEW i \in 1..m + 1
       PROVE  LessonAt(file, f + i - 1) = IF i = m + 1 THEN LessonAt(file, n) ELSE p.lessons[i]
  <2>1. CASE i = m + 1
    <3>1. f + i - 1 = n
      BY <1>10, <2>1
    <3> QED
      BY <2>1, <3>1
  <2>2. CASE i # m + 1
    <3>1. i \in 1..m
      BY <1>10, <2>2
    <3>2. p.lessons[i] = LessonAt(file, f + i - 1)
      BY <1>8, <3>1 DEF m
    <3> QED
      BY <2>2, <3>2
  <2> QED
    BY <2>1, <2>2
<1>13. Parse(file) = [i \in 1..m + 1 |-> LessonAt(file, f + i - 1)] /\ n - f + 1 = m + 1
  BY <1>9, <1>10, <1>11, <1>12
<1> QED
  BY <1>8, <1>13 DEF n

\* All of them when the first header is typed well.
LEMMA ParseIsWhole ==
    ASSUME NEW file \in Seq(Sections), AllWhole(file), Parse(file) # <<>>, file[1].header = "well"
    PROVE  /\ DOMAIN Parse(file) = DOMAIN file
           /\ \A i \in DOMAIN file : Parse(file)[i].n = i /\ Parse(file)[i].slug = file[i].slug
<1> DEFINE n == Len(file)
<1>1. PICK f \in 1..n : /\ From(file, f, n)
                        /\ Parse(file) = [i \in 1..n - f + 1 |-> LessonAt(file, f + i - 1)]
  BY ParseIsMeant
<1>2. n \in Nat /\ DOMAIN file = 1..n /\ f \in Nat /\ 1 \in 1..n
  BY <1>1
<1>3. f = 1
  BY <1>1, <1>2 DEF From
<1>4. n - f + 1 = n /\ \A i \in 1..n : f + i - 1 = i
  BY <1>2, <1>3
<1>5. Parse(file) = [i \in 1..n |-> LessonAt(file, i)]
  BY <1>1, <1>4
<1> HIDE DEF n
<1> QED
  BY <1>2, <1>5 DEF LessonAt, Meant

-----------------------------------------------------------------------------
(* What requests go by and what they show.                                 *)

\* The rows of a request were stored once, and those of a list are a whole curriculum.
Requests == [op: {"none", "list", "get", "update"}, plan: {"free", "paid"},
             rows: SUBSET UNION versions]
Stored(rows) == rows \in versions \cup {{}}
ListsWhole == \A r \in Reqs : req[r].op \in {"none", "list"} => Stored(req[r].rows)

\* What a request goes by was paid for, also when the plan is another by now.
PlansPaid ==
    /\ plan \in {"free", "paid"} /\ paid \in BOOLEAN
    /\ plan # "free" => paid
    /\ \A r \in Reqs : req[r].plan # "free" => paid
UpdatesPaid == \A r \in Reqs : req[r].op = "update" =>
    \A row \in req[r].rows : row.free \/ paid

Inv ==
    /\ req \in [Reqs -> Requests]
    /\ Stored(lessons) /\ ListsWhole
    /\ PlansPaid /\ UpdatesPaid
    /\ ProgressIsEarned /\ ListIsWhole

LEMMA InvInit == CurriculumInit => Inv
<1> SUFFICES ASSUME CurriculumInit PROVE Inv
  OBVIOUS
<1> USE DEF CurriculumInit
<1>1. req \in [Reqs -> Requests]
  BY DEF Requests, NoReq
<1>2. \A r \in Reqs : req[r] = NoReq
  OBVIOUS
<1>3. Stored(lessons) /\ ListsWhole
  BY <1>2 DEF Stored, ListsWhole, NoReq
<1>4. PlansPaid /\ UpdatesPaid
  BY <1>2 DEF PlansPaid, UpdatesPaid, NoReq
<1>5. ProgressIsEarned /\ ListIsWhole
  BY DEF ProgressIsEarned, ListIsWhole
<1> QED
  BY <1>1, <1>3, <1>4, <1>5 DEF Inv

-----------------------------------------------------------------------------
(* The seed command.                                                       *)

\* A step that touches nothing but the command and the client's screen.
LEMMA Quiet ==
    ASSUME Inv, UNCHANGED <<plan, paid, req, lessons, progress, versions>>, told' = {}
    PROVE  Inv'
BY DEF Inv, Requests, Stored, ListsWhole, PlansPaid, UpdatesPaid, ProgressIsEarned, ListIsWhole

\* The same when the request r goes on or answers.
LEMMA RequestMoves ==
    ASSUME Inv, NEW r \in Reqs, NEW q \in Requests, req' = [req EXCEPT ![r] = q],
           UNCHANGED <<plan, paid, lessons, versions>>,
           q.op \in {"none", "list"} => Stored(q.rows),
           q.plan # "free" => paid,
           q.op = "update" => \A row \in q.rows : row.free \/ paid,
           ListIsWhole', ProgressIsEarned'
    PROVE  Inv'
<1>1. req' \in [Reqs -> Requests] /\ Requests' = Requests
  BY DEF Inv, Requests
<1>2. \A s \in Reqs : req'[s] = IF s = r THEN q ELSE req[s]
  BY DEF Inv
<1>3. Stored(lessons)' /\ ListsWhole'
  BY <1>2 DEF Inv, Stored, ListsWhole
<1>4. PlansPaid'
  BY <1>2 DEF Inv, PlansPaid
<1>5. UpdatesPaid'
  BY <1>2 DEF Inv, UpdatesPaid
<1> QED
  BY <1>1, <1>3, <1>4, <1>5 DEF Inv

\* A seeding that commits keeps what it replaced in versions, and drops all progress.
LEMMA CommitKeeps == ASSUME Inv, SeedCommits PROVE Inv'
<1> USE DEF SeedCommits, NoRequest
<1>1. UNION versions \subseteq UNION versions'
  OBVIOUS
<1>2. req' \in [Reqs -> Requests']
  BY <1>1 DEF Inv, Requests
<1>3. Stored(lessons)' /\ ListsWhole'
  BY DEF Inv, Stored, ListsWhole
<1>4. PlansPaid' /\ UpdatesPaid'
  BY DEF Inv, PlansPaid, UpdatesPaid
<1>5. ProgressIsEarned' /\ ListIsWhole'
  BY DEF ProgressIsEarned, ListIsWhole
<1> QED
  BY <1>2, <1>3, <1>4, <1>5 DEF Inv

LEMMA SeedKeeps ==
    ASSUME Inv, ParseFile \/ SeedStep \/ SeedAborts PROVE Inv'
<1>1. CASE SeedCommits
  BY <1>1, CommitKeeps
<1>2. CASE ParseFile
  BY <1>2, Quiet DEF ParseFile, NoRequest
<1>3. CASE TruncateChildren \/ TruncateQueues
  BY <1>3, Quiet DEF TruncateChildren, TruncateQueues, SeedGoes, NoRequest
<1>4. CASE TruncateLessons \/ SeedInserts
  BY <1>4, Quiet DEF TruncateLessons, SeedInserts, SeedGoes, NoRequest
<1>5. CASE SeedAborts \/ SlugTaken
  BY <1>5, Quiet DEF SlugTaken, SeedAborts, NoRequest
<1> QED
  BY <1>1, <1>2, <1>3, <1>4, <1>5 DEF SeedStep

-----------------------------------------------------------------------------
(* Requests.                                                               *)

LEMMA RequestType == ASSUME Inv, NEW r \in Reqs PROVE req[r] \in Requests
BY DEF Inv

\* A step that neither writes progress nor shows a list.
LEMMA NothingTold ==
    ASSUME Inv, UNCHANGED <<lessons, progress, paid, versions>>, told' = {}
    PROVE  ListIsWhole' /\ ProgressIsEarned'
BY DEF Inv, ListIsWhole, ProgressIsEarned

\* A request that only goes on.
LEMMA GoesOn ==
    ASSUME Inv, NEW r \in Reqs, NEW from, NEW to, NEW q \in Requests,
           Goes(r, from, to, q), UNCHANGED progress,
           q.op \in {"none", "list"} => Stored(q.rows),
           q.plan # "free" => paid,
           q.op = "update" => \A row \in q.rows : row.free \/ paid
    PROVE  Inv'
<1>1. /\ req' = [req EXCEPT ![r] = q] /\ told' = {}
      /\ UNCHANGED <<plan, paid, lessons, versions>>
  BY DEF Goes, NoSeeding
<1>2. ListIsWhole' /\ ProgressIsEarned'
  BY <1>1, NothingTold
<1> QED
  BY <1>1, <1>2, RequestMoves

\* A request that answers.
LEMMA Answers ==
    ASSUME Inv, NEW r \in Reqs, NEW list, Answer(r, list), Stored(list), ProgressIsEarned'
    PROVE  Inv'
<1>1. NoReq \in Requests
  BY DEF NoReq, Requests
<1>2. NoReq.op = "none" /\ NoReq.plan = "free" /\ NoReq.rows = {}
  BY DEF NoReq
<1>3. /\ req' = [req EXCEPT ![r] = NoReq] /\ told' = list
      /\ UNCHANGED <<plan, paid, lessons, versions>>
  BY DEF Answer, NoSeeding
<1>4. ListIsWhole'
  BY <1>3 DEF ListIsWhole, Stored
<1>5. Stored(NoReq.rows)
  BY <1>2 DEF Stored
<1> QED
  BY <1>1, <1>2, <1>3, <1>4, <1>5, RequestMoves

LEMMA BeginKeeps == ASSUME Inv, NEW r \in Reqs, Begin(r) PROVE Inv'
BY Quiet DEF Begin, NoSeeding

LEMMA FailKeeps == ASSUME Inv, NEW r \in Reqs, Fail(r) PROVE Inv'
<1>1. Answer(r, {}) /\ UNCHANGED progress
  BY DEF Fail
<1>2. UNCHANGED <<lessons, paid, versions>> /\ told' = {}
  BY <1>1 DEF Answer, NoSeeding
<1>3. ProgressIsEarned'
  BY <1>1, <1>2, NothingTold
<1> QED
  BY <1>1, <1>3, Answers DEF Stored

LEMMA currentUserKeeps == ASSUME Inv, NEW r \in Reqs, currentUser(r) PROVE Inv'
<1> DEFINE q == [req[r] EXCEPT !.plan = plan]
<1>1. req[r] \in Requests
  BY RequestType
<1>2. q.op = req[r].op /\ q.rows = req[r].rows /\ q.plan = plan
  BY <1>1 DEF Requests
<1>3. q \in Requests
  BY <1>1 DEF Inv, PlansPaid, Requests
<1>4. Goes(r, "user", "lessons", q) /\ UNCHANGED progress
  BY DEF currentUser
<1>5. q.op \in {"none", "list"} => Stored(q.rows)
  BY <1>2 DEF Inv, ListsWhole
<1>6. q.plan # "free" => paid
  BY <1>2 DEF Inv, PlansPaid
<1>7. q.op = "update" => \A row \in q.rows : row.free \/ paid
  BY <1>2 DEF Inv, UpdatesPaid
<1> HIDE DEF q
<1> QED
  BY <1>3, <1>4, <1>5, <1>6, <1>7, GoesOn

LEMMA LockLessonsKeeps == ASSUME Inv, NEW r \in Reqs, LockLessons(r) PROVE Inv'
<1>1. Goes(r, "lessons", "select", req[r]) /\ UNCHANGED progress
  BY DEF LockLessons
<1>2. req[r] \in Requests
  BY RequestType
<1>3. req[r].op \in {"none", "list"} => Stored(req[r].rows)
  BY DEF Inv, ListsWhole
<1>4. req[r].plan # "free" => paid
  BY DEF Inv, PlansPaid
<1>5. req[r].op = "update" => \A row \in req[r].rows : row.free \/ paid
  BY DEF Inv, UpdatesPaid
<1> QED
  BY <1>1, <1>2, <1>3, <1>4, <1>5, GoesOn

\* What a SELECT finds was stored.
LEMMA FoundType ==
    ASSUME Inv, NEW op \in {"list", "get", "update"}, NEW rows \in SUBSET lessons
    PROVE  /\ Found(op, rows) \in Requests
           /\ Found(op, rows).op = op /\ Found(op, rows).rows = rows
           /\ Found(op, rows).plan = "free"
<1>1. rows \in SUBSET UNION versions
  BY DEF Inv, Stored
<1> QED
  BY <1>1 DEF Found, Requests

LEMMA SelectAllKeeps == ASSUME Inv, NEW r \in Reqs, SelectAll(r) PROVE Inv'
<1> DEFINE q == Found("list", lessons)
<1>1. Goes(r, "select", "progress", q) /\ UNCHANGED progress
  BY DEF SelectAll
<1>2. q \in Requests /\ q.op = "list" /\ q.rows = lessons /\ q.plan = "free"
  BY FoundType
<1>3. Stored(lessons)
  BY DEF Inv
<1> HIDE DEF q
<1> QED
  BY <1>1, <1>2, <1>3, GoesOn

\* An update goes on only if the lesson is free or the plan read before was paid for.
LEMMA GetLessonKeeps == ASSUME Inv, NEW r \in Reqs, GetLessonBySlug(r) PROVE Inv'
<1>1. CASE Answer(r, {}) /\ UNCHANGED progress
  <2>1. UNCHANGED <<lessons, paid, versions>> /\ told' = {}
    BY <1>1 DEF Answer, NoSeeding
  <2>2. ProgressIsEarned'
    BY <1>1, <2>1, NothingTold
  <2> QED
    BY <1>1, <2>2, Answers DEF Stored
<1>2. ASSUME NEW row \in lessons, ~Locked(row, req[r].plan), NEW op \in {"get", "update"},
             Goes(r, "select", "progress", Found(op, {row})), UNCHANGED progress
      PROVE  Inv'
  <2> DEFINE q == Found(op, {row})
  <2>1. q \in Requests /\ q.op = op /\ q.rows = {row} /\ q.plan = "free"
    BY FoundType
  <2>2. row.free \/ req[r].plan # "free"
    BY <1>2 DEF Locked
  <2>3. \A x \in q.rows : x.free \/ paid
    BY <2>1, <2>2 DEF Inv, PlansPaid
  <2>4. Goes(r, "select", "progress", q) /\ UNCHANGED progress
    BY <1>2
  <2> HIDE DEF q
  <2> QED
    BY <2>1, <2>3, <2>4, GoesOn
<1> QED
  BY <1>1, <1>2 DEF GetLessonBySlug

LEMMA TellProgressKeeps == ASSUME Inv, NEW r \in Reqs, TellProgress(r) PROVE Inv'
<1> DEFINE list == IF req[r].op = "get" THEN {} ELSE req[r].rows
<1>1. req[r].op # "update" /\ Answer(r, list) /\ UNCHANGED progress
  BY DEF TellProgress
<1>2. Stored(list)
  <2>1. CASE req[r].op = "get"
    BY <2>1 DEF Stored
  <2>2. CASE req[r].op \in {"none", "list"}
    BY <2>2 DEF Inv, ListsWhole
  <2> QED
    BY <1>1, <2>1, <2>2, RequestType DEF Requests
<1> HIDE DEF list
<1>3. ProgressIsEarned'
  BY <1>1 DEF Answer, NoSeeding, Inv, ProgressIsEarned
<1> QED
  BY <1>1, <1>2, <1>3, Answers

\* The upsert stores one row for its lesson, which is there and was paid for or free.
LEMMA UpsertKeeps == ASSUME Inv, NEW r \in Reqs, UpsertProgress(r) PROVE Inv'
<1>1. req[r].op = "update" /\ Answer(r, {})
  BY DEF UpsertProgress
<1>2. UNCHANGED <<lessons, paid>>
  BY <1>1 DEF Answer, NoSeeding
<1>3. ProgressIsEarned'
  <2>1. CASE UNCHANGED progress
    BY <1>2, <2>1 DEF Inv, ProgressIsEarned
  <2>2. ASSUME NEW row \in req[r].rows, row \in lessons, NEW status \in Statuses,
               progress' = Saved(progress, row.id, status, saves')
        PROVE  ProgressIsEarned'
    <3> DEFINE new == [lesson |-> row.id, status |-> status, at |-> saves']
    <3>1. progress' = {p \in progress : p.lesson # row.id} \cup {new}
      BY <2>2 DEF Saved
    <3>2. new.lesson = row.id
      OBVIOUS
    <3>3. row.free \/ paid
      BY <1>1 DEF Inv, UpdatesPaid
    <3> HIDE DEF new
    <3>4. ASSUME NEW p \in progress'
          PROVE  \E l \in lessons : l.id = p.lesson /\ (l.free \/ paid)
      BY <2>2, <3>1, <3>2, <3>3 DEF Inv, ProgressIsEarned
    <3>5. ASSUME NEW p \in progress', NEW q \in progress', q.lesson = p.lesson PROVE q = p
      BY <3>1, <3>2, <3>5 DEF Inv, ProgressIsEarned
    <3> QED
      BY <1>2, <3>4, <3>5 DEF ProgressIsEarned
  <2> QED
    BY <2>1, <2>2 DEF UpsertProgress
<1> QED
  BY <1>1, <1>3, Answers DEF Stored

\* A payment, or its end, leaves the rest alone.
LEMMA SetPlanKeeps == ASSUME Inv, SetPlan PROVE Inv'
<1> USE DEF SetPlan, NoSeeding
<1>1. paid' /\ plan' \in {"free", "paid"}
  OBVIOUS
<1>2. PlansPaid' /\ UpdatesPaid'
  BY <1>1 DEF PlansPaid, UpdatesPaid
<1>3. req' \in [Reqs -> Requests'] /\ Stored(lessons)' /\ ListsWhole' /\ ListIsWhole'
  BY DEF Inv, Requests, Stored, ListsWhole, ListIsWhole
<1>4. ProgressIsEarned'
  BY <1>1 DEF Inv, ProgressIsEarned
<1> QED
  BY <1>2, <1>3, <1>4 DEF Inv

LEMMA CurriculumKeeps == ASSUME Inv, CurriculumNext PROVE Inv'
<1>1. CASE ParseFile \/ SeedStep \/ SeedAborts
  BY <1>1, SeedKeeps
<1>2. ASSUME NEW r \in Reqs, Step(r) PROVE Inv'
  BY <1>2, currentUserKeeps, LockLessonsKeeps, SelectAllKeeps, GetLessonKeeps,
     TellProgressKeeps, UpsertKeeps DEF Step
<1>3. ASSUME NEW r \in Reqs, Begin(r) \/ Fail(r) PROVE Inv'
  BY <1>3, BeginKeeps, FailKeeps
<1>4. CASE DeadlockDetected
  BY <1>4, SeedKeeps, FailKeeps DEF DeadlockDetected
<1>5. CASE SetPlan
  BY <1>5, SetPlanKeeps
<1> QED
  BY <1>1, <1>2, <1>3, <1>4, <1>5 DEF CurriculumNext

LEMMA InvNext == ASSUME Inv, [Next]_vars PROVE Inv'
<1>1. CASE CurriculumMoves
  BY <1>1, CurriculumKeeps DEF CurriculumMoves
<1>2. CASE CountLessons \/ ReadProgress \/ FailLook
  BY <1>2, Quiet DEF CountLessons, ReadProgress, FailLook, CurriculumIdle
<1>3. CASE UNCHANGED vars
  <2>1. UNCHANGED <<plan, paid, req, lessons, progress, versions, told>>
    BY <1>3 DEF vars, curriculumVars, reader
  <2> QED
    BY <2>1 DEF Inv, Requests, Stored, ListsWhole, PlansPaid, UpdatesPaid, ProgressIsEarned,
       ListIsWhole
<1> QED
  BY <1>1, <1>2, <1>3 DEF Next

-----------------------------------------------------------------------------

\* The inductive invariant.
THEOREM InvAlways == Spec => []Inv
<1>1. Init => Inv
  BY InvInit DEF Init
<1>2. Inv /\ [Next]_vars => Inv'
  BY InvNext
<1> QED
  BY <1>1, <1>2, PTL DEF Spec

\* UpdateProgress checks the plan statements before it writes: all the same, a lesson
\* that is not free has progress only if the user once paid, no row outlives its lesson,
\* and the upsert keeps one row for each.
THEOREM EarnedAlways == Spec => []ProgressIsEarned
<1>1. Inv => ProgressIsEarned
  BY DEF Inv
<1> QED
  BY <1>1, InvAlways, PTL

\* ListLessons answers with the lessons of one seeding, whenever the seed command runs.
THEOREM WholeAlways == Spec => []ListIsWhole
<1>1. Inv => ListIsWhole
  BY DEF Inv
<1> QED
  BY <1>1, InvAlways, PTL

-----------------------------------------------------------------------------
(* The command, and the rows it stores.                                    *)

\* What the command has read is what Parse makes of its file, and it commits only slugs
\* that differ.
SeedHolds ==
    /\ seed \in [st: SeedPcs, file: Seq(Sections), lessons: Seq(Valid)]
    /\ seeds \in 0..MaxSeeds
    /\ seed.st # "idle" => /\ seeds \in 1..MaxSeeds
                           /\ seed.lessons # <<>> /\ seed.lessons = Parse(seed.file)
    /\ seed.st = "commit" => SlugsDiffer(seed.lessons)

\* The rows of a lesson are of one seeding, none of them of the one under way.
LessonsHold ==
    /\ lessons \subseteq LessonRows /\ IsFiniteSet(lessons)
    /\ \A row, other \in lessons : row.slug = other.slug => row = other
    /\ \A v \in versions : \A row \in v :
         row.id[1] \in 1..seeds /\ (seed.st # "idle" => row.id[1] # seeds)

\* Each update under way has its write left.
ProgressHolds ==
    /\ progress \subseteq ProgressRows /\ IsFiniteSet(progress)
    /\ saves \in Nat /\ saves + Cardinality(Updates) <= MaxSaves

\* A look knows how many lessons there are, unless they were seeded anew since.
LookHolds ==
    /\ look \in [st: {"off", "rows"}, published: Nat, reseeded: BOOLEAN]
    /\ look.st = "rows" /\ ~look.reseeded => look.published = Cardinality(lessons)

StoreInv ==
    /\ pc \in [Reqs -> Pcs]
    /\ SeedHolds /\ LessonsHold /\ ProgressHolds

-----------------------------------------------------------------------------
(* The command.                                                            *)

Seeding == ParseFile \/ SeedStep \/ SeedAborts

LEMMA NoSeedType ==
    /\ NoSeed \in [st: SeedPcs, file: Seq(Sections), lessons: Seq(Valid)]
    /\ NoSeed.st = "idle"
<1>1. <<>> \in Seq(Sections) /\ <<>> \in Seq(Valid)
  OBVIOUS
<1> QED
  BY <1>1 DEF NoSeed, SeedPcs

\* The command goes back to idle, with the rows there were.
LEMMA SeedEnds ==
    ASSUME SeedHolds, LessonsHold, seed' = NoSeed, UNCHANGED <<lessons, versions, seeds>>
    PROVE  SeedHolds' /\ LessonsHold'
<1>1. SeedHolds'
  BY NoSeedType DEF SeedHolds
<1>2. LessonsHold'
  BY NoSeedType DEF LessonsHold
<1> QED
  BY <1>1, <1>2

LEMMA ParseHolds ==
    ASSUME SeedHolds, LessonsHold, ParseFile
    PROVE  SeedHolds' /\ LessonsHold'
<1>1. PICK file \in Files :
        /\ Parse(file) # <<>>
        /\ seed' = [st |-> "parsed", file |-> file, lessons |-> Parse(file)]
  BY DEF ParseFile
<1>2. file \in Seq(Sections) /\ Parse(file) \in Seq(Valid)
  BY CurriculumAssumption, ParseType
<1>3. seed.st = "idle" /\ seeds < MaxSeeds /\ seeds' = seeds + 1 /\ UNCHANGED <<lessons, versions>>
  BY DEF ParseFile
<1> DEFINE new == [st |-> "parsed", file |-> file, lessons |-> Parse(file)]
<1>4. new \in [st: SeedPcs, file: Seq(Sections), lessons: Seq(Valid)]
  BY <1>2 DEF SeedPcs
<1>5. new.st = "parsed" /\ new.lessons = Parse(new.file) /\ new.lessons # <<>>
  BY <1>1
<1> HIDE DEF new
<1>6. seed' = new
  BY <1>1 DEF new
<1>7. seeds \in Nat /\ seeds + 1 \in 1..MaxSeeds /\ seeds + 1 \in 0..MaxSeeds
  BY <1>3, CurriculumAssumption DEF SeedHolds
<1>8. SeedHolds'
  BY <1>3, <1>4, <1>5, <1>6, <1>7 DEF SeedHolds
<1>9. ASSUME NEW v \in versions, NEW row \in v
      PROVE  row.id[1] \in 1..seeds + 1 /\ row.id[1] # seeds + 1
  <2>1. row.id[1] \in 1..seeds
    BY DEF LessonsHold
  <2> QED
    BY <1>7, <2>1
<1>10. LessonsHold'
  <2>1. lessons' \subseteq LessonRows /\ IsFiniteSet(lessons')
        /\ \A row, other \in lessons' : row.slug = other.slug => row = other
    BY <1>3 DEF LessonsHold
  <2> QED
    BY <1>3, <1>9, <2>1 DEF LessonsHold
<1> QED
  BY <1>8, <1>10

\* The command goes on.
LEMMA SeedGoesOn ==
    ASSUME SeedHolds, LessonsHold, NEW from \in SeedPcs, NEW to \in SeedPcs,
           from # "idle", to = "commit" => SlugsDiffer(seed.lessons),
           SeedGoes(from, to)
    PROVE  SeedHolds' /\ LessonsHold'
<1> DEFINE new == [seed EXCEPT !.st = to]
<1>1. /\ seed.st = from /\ seed' = new
      /\ UNCHANGED <<lessons, versions, seeds>>
  BY DEF SeedGoes
<1>2. /\ new \in [st: SeedPcs, file: Seq(Sections), lessons: Seq(Valid)]
      /\ new.st = to /\ new.file = seed.file /\ new.lessons = seed.lessons
  BY DEF SeedHolds
<1> HIDE DEF new
<1>3. SeedHolds'
  BY <1>1, <1>2 DEF SeedHolds, SlugsDiffer
<1>4. LessonsHold'
  BY <1>1, <1>2 DEF LessonsHold
<1> QED
  BY <1>3, <1>4

\* The rows of a seeding, whose slugs differ.
LEMMA RowsType ==
    ASSUME SeedHolds, seed.st = "commit"
    PROVE  /\ Rows \subseteq LessonRows /\ IsFiniteSet(Rows) /\ Rows # {}
           /\ \A row, other \in Rows : row.slug = other.slug => row = other
           /\ \A row \in Rows : row.id[1] = seeds
<1> DEFINE ls == seed.lessons
           n == Len(ls)
           RowAt(i) == [id |-> <<seeds, i>>, slug |-> ls[i].slug, free |-> ls[i].n <= FreeLessonMax]
<1>1. ls \in Seq(Valid) /\ ls # <<>> /\ SlugsDiffer(ls) /\ seeds \in 1..MaxSeeds
  BY DEF SeedHolds
<1>2. n \in Nat /\ n # 0 /\ DOMAIN ls = 1..n /\ \A i \in 1..n : ls[i] \in Valid
  BY <1>1
<1>3. Rows = {RowAt(i) : i \in 1..n}
  BY <1>2 DEF Rows
<1>4. ASSUME NEW i \in 1..n
      PROVE  /\ RowAt(i) \in LessonRows /\ RowAt(i).slug = ls[i].slug /\ RowAt(i).id[1] = seeds
  <2>1. ls[i] \in Read /\ ls[i].slug # NoSlug
    BY <1>2 DEF Valid, validateLesson
  <2>2. ls[i].slug \in Slugs /\ i \in Nat
    BY <2>1 DEF Read
  <2>3. <<seeds, i>> \in Ids
    BY <1>1, <2>2 DEF Ids
  <2>4. (ls[i].n <= FreeLessonMax) \in BOOLEAN
    OBVIOUS
  <2> QED
    BY <2>2, <2>3, <2>4 DEF LessonRows
<1>5. IsFiniteSet(Rows)
  <2>1. IsFiniteSet(1..n)
    BY <1>2, FS_Interval
  <2> DEFINE f == [i \in 1..n |-> RowAt(i)]
  <2> HIDE DEF RowAt, n
  <2>2. f \in Surjection(1..n, Rows)
    BY <1>3 DEF Surjection
  <2> HIDE DEF f
  <2> QED
    BY <2>1, <2>2, FS_Surjection
<1>6. RowAt(1) \in Rows
  BY <1>2, <1>3
<1> HIDE DEF RowAt, n
<1>7. ASSUME NEW row \in Rows, NEW other \in Rows, row.slug = other.slug PROVE row = other
  <2>1. PICK i \in 1..n : row = RowAt(i)
    BY <1>3
  <2>2. PICK j \in 1..n : other = RowAt(j)
    BY <1>3
  <2>3. i = j
    BY <1>1, <1>2, <1>4, <1>7, <2>1, <2>2 DEF SlugsDiffer
  <2> QED
    BY <2>1, <2>2, <2>3
<1>8. ASSUME NEW row \in Rows PROVE row \in LessonRows /\ row.id[1] = seeds
  <2>1. PICK i \in 1..n : row = RowAt(i)
    BY <1>3
  <2> QED
    BY <1>4, <2>1
<1> QED
  BY <1>5, <1>6, <1>7, <1>8

LEMMA CommitHolds ==
    ASSUME SeedHolds, LessonsHold, SeedCommits
    PROVE  SeedHolds' /\ LessonsHold' /\ versions' # versions
<1>1. /\ seed.st = "commit" /\ seed' = NoSeed /\ lessons' = Rows
      /\ versions' = versions \cup {Rows} /\ seeds' = seeds
  BY DEF SeedCommits
<1>2. SeedHolds'
  BY <1>1, NoSeedType DEF SeedHolds
<1>3. seeds \in 1..seeds
  BY <1>1, CurriculumAssumption DEF SeedHolds
<1>4. ASSUME NEW v \in versions', NEW row \in v PROVE row.id[1] \in 1..seeds
  BY <1>1, <1>3, RowsType DEF LessonsHold
<1>5. LessonsHold'
  BY <1>1, <1>4, NoSeedType, RowsType DEF LessonsHold
<1>6. Rows \notin versions
  BY <1>1, RowsType DEF LessonsHold
<1> QED
  BY <1>1, <1>2, <1>5, <1>6

LEMMA SeedingHolds ==
    ASSUME SeedHolds, LessonsHold, Seeding
    PROVE  SeedHolds' /\ LessonsHold'
<1>1. CASE ParseFile
  BY <1>1, ParseHolds
<1>2. CASE SeedAborts \/ SlugTaken
  BY <1>2, SeedEnds DEF SeedAborts, SlugTaken
<1>3. CASE TruncateChildren
  BY <1>3, SeedGoesOn DEF TruncateChildren, SeedPcs
<1>4. CASE TruncateQueues
  BY <1>4, SeedGoesOn DEF TruncateQueues, SeedPcs
<1>5. CASE TruncateLessons
  BY <1>5, SeedGoesOn DEF TruncateLessons, SeedPcs
<1>6. CASE SeedInserts
  BY <1>6, SeedGoesOn DEF SeedInserts, SeedPcs
<1>7. CASE SeedCommits
  BY <1>7, CommitHolds
<1> QED
  BY <1>1, <1>2, <1>3, <1>4, <1>5, <1>6, <1>7 DEF Seeding, SeedStep

-----------------------------------------------------------------------------
(* The requests and the progress they write.                               *)

LEMMA UpdatesFinite == IsFiniteSet(Updates) /\ Cardinality(Updates) \in Nat
<1>1. Updates \in SUBSET Reqs
  BY DEF Updates
<1> QED
  BY <1>1, CurriculumAssumption, FS_Subset, FS_CardinalityType

\* The updates under way when the request r goes on with q.
LEMMA UpdatesMove ==
    ASSUME req \in [Reqs -> Requests], NEW r \in Reqs, NEW q, req' = [req EXCEPT ![r] = q]
    PROVE  /\ Cardinality(Updates') \in Nat
           /\ Cardinality(Updates') <= Cardinality(Updates) + 1
           /\ q.op # "update" => Cardinality(Updates') <= Cardinality(Updates)
           /\ q.op = req[r].op => Updates' = Updates
           /\ q.op # "update" /\ req[r].op = "update" =>
                Cardinality(Updates') + 1 = Cardinality(Updates)
<1>1. \A s \in Reqs : req'[s] = IF s = r THEN q ELSE req[s]
  OBVIOUS
<1>2. Updates' = IF q.op = "update" THEN Updates \cup {r} ELSE Updates \ {r}
  BY <1>1 DEF Updates
<1>3. r \in Updates <=> req[r].op = "update"
  BY DEF Updates
<1>4. IsFiniteSet(Updates) /\ Cardinality(Updates) \in Nat
  BY UpdatesFinite
<1>5. /\ Cardinality(Updates \cup {r}) = IF r \in Updates THEN Cardinality(Updates) ELSE Cardinality(Updates) + 1
      /\ Cardinality(Updates \ {r}) = IF r \in Updates THEN Cardinality(Updates) - 1 ELSE Cardinality(Updates)
  BY <1>4, FS_AddElement, FS_RemoveElement
<1>6. Cardinality(Updates') \in Nat
  <2>1. IsFiniteSet(Updates \cup {r}) /\ IsFiniteSet(Updates \ {r})
    BY <1>4, FS_AddElement, FS_RemoveElement
  <2> QED
    BY <1>2, <2>1, FS_CardinalityType
<1>7. q.op = req[r].op => Updates' = Updates
  BY <1>2, <1>3
<1> DEFINE old == Cardinality(Updates)
           grown == Cardinality(Updates \cup {r})
           left == Cardinality(Updates \ {r})
           new == Cardinality(Updates')
           is == r \in Updates
<1>8. new = IF q.op = "update" THEN grown ELSE left
  BY <1>2
<1>9. old \in Nat /\ new \in Nat
  BY <1>4, <1>6
<1>10. grown = (IF is THEN old ELSE old + 1) /\ left = (IF is THEN old - 1 ELSE old)
  BY <1>5
<1>11. is <=> req[r].op = "update"
  BY <1>3
<1> HIDE DEF old, grown, left, new, is
<1>12. /\ new <= old + 1 /\ (q.op # "update" => new <= old)
       /\ (q.op # "update" /\ req[r].op = "update" => new + 1 = old)
  BY <1>8, <1>9, <1>10, <1>11
<1> QED
  BY <1>6, <1>7, <1>12 DEF old, new

RequestsHold == pc \in [Reqs -> Pcs] /\ ProgressHolds

LEMMA RequestGoes ==
    ASSUME Inv, RequestsHold, NEW r \in Reqs, NEW q, NEW to \in Pcs,
           pc' = [pc EXCEPT ![r] = to], req' = [req EXCEPT ![r] = q],
           UNCHANGED <<progress, saves>>,
           q.op = "update" => q.op = req[r].op \/ saves + Cardinality(Updates) < MaxSaves
    PROVE  RequestsHold'
<1>1. req \in [Reqs -> Requests]
  BY DEF Inv
<1>2. pc' \in [Reqs -> Pcs]
  BY DEF RequestsHold
<1>3. Cardinality(Updates) \in Nat /\ MaxSaves \in Nat /\ saves \in Nat
  BY UpdatesFinite, CurriculumAssumption DEF RequestsHold, ProgressHolds
<1>4. Cardinality(Updates') \in Nat
      /\ saves + Cardinality(Updates') <= MaxSaves
  <2>1. saves + Cardinality(Updates) <= MaxSaves
    BY DEF RequestsHold, ProgressHolds
  <2>2. CASE q.op # "update"
    <3>1. Cardinality(Updates') \in Nat /\ Cardinality(Updates') <= Cardinality(Updates)
      BY <1>1, <2>2, UpdatesMove
    <3> QED
      BY <1>3, <2>1, <3>1
  <2>3. CASE q.op = req[r].op
    <3>1. Cardinality(Updates') = Cardinality(Updates)
      BY <1>1, <2>3, UpdatesMove
    <3> QED
      BY <1>3, <2>1, <3>1
  <2>4. CASE saves + Cardinality(Updates) < MaxSaves
    <3>1. Cardinality(Updates') \in Nat /\ Cardinality(Updates') <= Cardinality(Updates) + 1
      BY <1>1, UpdatesMove
    <3> QED
      BY <1>3, <2>4, <3>1
  <2> QED
    BY <2>2, <2>3, <2>4
<1> QED
  BY <1>2, <1>3, <1>4 DEF RequestsHold, ProgressHolds

LEMMA AnswerHolds ==
    ASSUME Inv, RequestsHold, NEW r \in Reqs, NEW list, Answer(r, list),
           UNCHANGED <<progress, saves>>
    PROVE  RequestsHold'
<1>1. /\ pc' = [pc EXCEPT ![r] = "idle"] /\ req' = [req EXCEPT ![r] = NoReq]
      /\ NoReq.op # "update" /\ "idle" \in Pcs
  BY DEF Answer, NoReq, Pcs
<1> QED
  BY <1>1, RequestGoes

\* The upsert uses the write the update had left.
LEMMA UpsertHolds ==
    ASSUME Inv, LessonsHold, RequestsHold, NEW r \in Reqs, UpsertProgress(r)
    PROVE  RequestsHold'
<1>1. Answer(r, {}) /\ req[r].op = "update"
  BY DEF UpsertProgress
<1>2. CASE UNCHANGED <<progress, saves>>
  BY <1>1, <1>2, AnswerHolds
<1>3. ASSUME NEW row \in lessons, NEW status \in Statuses, saves' = saves + 1,
             progress' = Saved(progress, row.id, status, saves')
      PROVE  RequestsHold'
  <2> DEFINE new == [lesson |-> row.id, status |-> status, at |-> saves']
             kept == {p \in progress : p.lesson # row.id}
  <2>1. /\ pc' = [pc EXCEPT ![r] = "idle"] /\ req' = [req EXCEPT ![r] = NoReq]
        /\ NoReq.op # "update" /\ "idle" \in Pcs
    BY <1>1 DEF Answer, NoReq, Pcs
  <2>2. pc' \in [Reqs -> Pcs] /\ req \in [Reqs -> Requests]
    BY <2>1 DEF RequestsHold, Inv
  <2>3. Cardinality(Updates') \in Nat /\ Cardinality(Updates') + 1 = Cardinality(Updates)
    BY <1>1, <2>1, <2>2, UpdatesMove
  <2>4. saves \in Nat /\ MaxSaves \in Nat /\ saves + Cardinality(Updates) <= MaxSaves
    BY CurriculumAssumption DEF RequestsHold, ProgressHolds
  <2>5. saves' \in 1..MaxSaves /\ saves' \in Nat /\ saves' + Cardinality(Updates') <= MaxSaves
    BY <1>3, <2>3, <2>4
  <2>6. row.id \in Ids
    BY DEF LessonsHold, LessonRows
  <2>7. new \in ProgressRows
    BY <2>5, <2>6 DEF ProgressRows
  <2>8. progress' = kept \cup {new}
    BY <1>3 DEF Saved
  <2>9. kept \in SUBSET progress /\ progress \subseteq ProgressRows /\ IsFiniteSet(progress)
    BY DEF RequestsHold, ProgressHolds
  <2> HIDE DEF new, kept
  <2>10. IsFiniteSet(progress') /\ progress' \subseteq ProgressRows
    <3>1. IsFiniteSet(kept)
      BY <2>9, FS_Subset
    <3> QED
      BY <2>7, <2>8, <2>9, <3>1, FS_AddElement
  <2>11. ProgressRows' = ProgressRows
    BY DEF ProgressRows, Ids
  <2> QED
    BY <2>2, <2>5, <2>10 DEF RequestsHold, ProgressHolds
<1> QED
  BY <1>2, <1>3 DEF UpsertProgress

LEMMA FailHolds == ASSUME Inv, RequestsHold, NEW r \in Reqs, Fail(r) PROVE RequestsHold'
BY AnswerHolds DEF Fail

LEMMA GetLessonHolds ==
    ASSUME Inv, RequestsHold, NEW r \in Reqs, GetLessonBySlug(r)
    PROVE  RequestsHold'
<1>1. UNCHANGED <<progress, saves>>
  BY DEF GetLessonBySlug
<1>2. CASE Answer(r, {})
  BY <1>1, <1>2, AnswerHolds
<1>3. ASSUME NEW row, NEW op \in {"get", "update"},
             op = "update" => saves + Cardinality(Updates) < MaxSaves,
             Goes(r, "select", "progress", Found(op, {row}))
      PROVE  RequestsHold'
  <2> DEFINE q == Found(op, {row})
  <2>1. pc' = [pc EXCEPT ![r] = "progress"] /\ req' = [req EXCEPT ![r] = q] /\ "progress" \in Pcs
    BY <1>3 DEF Goes, Pcs
  <2>2. q.op = op
    BY DEF Found
  <2> HIDE DEF q
  <2> QED
    BY <1>1, <1>3, <2>1, <2>2, RequestGoes
<1> QED
  BY <1>2, <1>3 DEF GetLessonBySlug

LEMMA StepHolds ==
    ASSUME Inv, LessonsHold, RequestsHold, NEW r \in Reqs, Step(r)
    PROVE  RequestsHold'
<1>1. CASE currentUser(r)
  <2> DEFINE q == [req[r] EXCEPT !.plan = plan]
  <2>1. pc' = [pc EXCEPT ![r] = "lessons"] /\ req' = [req EXCEPT ![r] = q] /\ "lessons" \in Pcs
        /\ UNCHANGED <<progress, saves>>
    BY <1>1 DEF currentUser, Goes, Pcs
  <2>2. q.op = req[r].op
    <3>1. req[r] \in Requests
      BY RequestType
    <3> QED
      BY <3>1 DEF Requests
  <2> HIDE DEF q
  <2> QED
    BY <2>1, <2>2, RequestGoes
<1>2. CASE LockLessons(r)
  <2>1. pc' = [pc EXCEPT ![r] = "select"] /\ req' = [req EXCEPT ![r] = req[r]] /\ "select" \in Pcs
        /\ UNCHANGED <<progress, saves>>
    BY <1>2 DEF LockLessons, Goes, Pcs
  <2> QED
    BY <2>1, RequestGoes
<1>3. CASE SelectAll(r)
  <2> DEFINE q == Found("list", lessons)
  <2>1. pc' = [pc EXCEPT ![r] = "progress"] /\ req' = [req EXCEPT ![r] = q] /\ "progress" \in Pcs
        /\ UNCHANGED <<progress, saves>>
    BY <1>3 DEF SelectAll, Goes, Pcs
  <2>2. q.op # "update"
    BY DEF Found
  <2> HIDE DEF q
  <2> QED
    BY <2>1, <2>2, RequestGoes
<1>4. CASE GetLessonBySlug(r)
  BY <1>4, GetLessonHolds
<1>5. CASE TellProgress(r)
  BY <1>5, AnswerHolds DEF TellProgress
<1>6. CASE UpsertProgress(r)
  BY <1>6, UpsertHolds
<1> QED
  BY <1>1, <1>2, <1>3, <1>4, <1>5, <1>6 DEF Step

\* What touches neither requests nor the count of writes, and at most drops progress.
LEMMA RequestsStay ==
    ASSUME RequestsHold, UNCHANGED <<pc, req, saves>>, progress' = progress \/ progress' = {}
    PROVE  RequestsHold'
<1>1. Updates' = Updates
  BY DEF Updates
<1>2. IsFiniteSet({})
  BY FS_EmptySet
<1> QED
  BY <1>1, <1>2 DEF RequestsHold, ProgressHolds

LEMMA SeedingFrame ==
    ASSUME Seeding
    PROVE  /\ UNCHANGED <<pc, req, saves>> /\ (progress' = progress \/ progress' = {})
           /\ ~SeedCommits => UNCHANGED lessons
BY DEF Seeding, ParseFile, SeedStep, SeedAborts, TruncateChildren, TruncateQueues, TruncateLessons,
       SeedInserts, SlugTaken, SeedCommits, SeedGoes, NoRequest

\* A step of the curriculum is one of the command, or one that leaves its rows alone.
LEMMA StoreNext ==
    ASSUME Inv, StoreInv, CurriculumNext
    PROVE  StoreInv' /\ (versions' = versions => lessons' = lessons)
<1>1. SeedHolds /\ LessonsHold /\ RequestsHold
  BY DEF StoreInv, RequestsHold
<1>2. CASE Seeding
  <2>1. SeedHolds' /\ LessonsHold'
    BY <1>1, <1>2, SeedingHolds
  <2>2. RequestsHold'
    BY <1>1, <1>2, RequestsStay, SeedingFrame
  <2>3. versions' = versions => lessons' = lessons
    BY <1>1, <1>2, SeedingFrame, CommitHolds
  <2> QED
    BY <2>1, <2>2, <2>3 DEF StoreInv, RequestsHold
<1>3. ASSUME NoSeeding, RequestsHold' PROVE StoreInv' /\ lessons' = lessons
  <2>1. SeedHolds' /\ LessonsHold'
    BY <1>1, <1>3 DEF SeedHolds, LessonsHold, NoSeeding, SlugsDiffer
  <2> QED
    BY <1>3, <2>1 DEF StoreInv, RequestsHold, NoSeeding
<1>4. ASSUME NEW r \in Reqs, Step(r) PROVE NoSeeding /\ RequestsHold'
  <2>1. NoSeeding
    BY <1>4 DEF Step, currentUser, LockLessons, SelectAll, GetLessonBySlug, TellProgress,
                UpsertProgress, Goes, Answer
  <2> QED
    BY <1>1, <1>4, <2>1, StepHolds
<1>5. ASSUME NEW r \in Reqs, Fail(r) PROVE NoSeeding /\ RequestsHold'
  <2>1. NoSeeding
    BY <1>5 DEF Fail, Answer
  <2> QED
    BY <1>1, <1>5, <2>1, FailHolds
<1>6. ASSUME NEW r \in Reqs, Begin(r) PROVE NoSeeding /\ RequestsHold'
  <2>1. NoSeeding /\ UNCHANGED <<req, progress, saves>>
        /\ pc' = [pc EXCEPT ![r] = "user"] /\ "user" \in Pcs
    BY <1>6 DEF Begin, Pcs
  <2>2. pc' \in [Reqs -> Pcs]
    BY <1>1, <2>1 DEF RequestsHold
  <2>3. Updates' = Updates
    BY <2>1 DEF Updates
  <2> QED
    BY <1>1, <2>1, <2>2, <2>3 DEF RequestsHold, ProgressHolds
<1>7. CASE SetPlan
  <2>1. NoSeeding /\ UNCHANGED <<pc, req, progress, saves>>
    BY <1>7 DEF SetPlan
  <2> QED
    BY <1>1, <1>3, <2>1, RequestsStay
<1>8. CASE DeadlockDetected
  BY <1>2, <1>3, <1>5, <1>8 DEF DeadlockDetected, Seeding
<1> QED
  BY <1>2, <1>3, <1>4, <1>5, <1>6, <1>7, <1>8 DEF CurriculumNext, Seeding

LEMMA StoreInit == Init => StoreInv /\ LookHolds
<1> SUFFICES ASSUME Init PROVE StoreInv /\ LookHolds
  OBVIOUS
<1> USE DEF Init, CurriculumInit
<1>1. pc \in [Reqs -> Pcs]
  BY DEF Pcs
<1>2. SeedHolds
  BY NoSeedType, CurriculumAssumption DEF SeedHolds
<1>3. LessonsHold
  BY FS_EmptySet DEF LessonsHold
<1>4. ProgressHolds
  <2>1. Updates = {}
    BY DEF Updates, NoReq
  <2>2. saves + Cardinality(Updates) <= MaxSaves
    BY <2>1, FS_EmptySet, CurriculumAssumption
  <2> QED
    BY <2>2, FS_EmptySet DEF ProgressHolds
<1>5. LookHolds
  BY DEF LookHolds, NoLook
<1> QED
  BY <1>1, <1>2, <1>3, <1>4, <1>5 DEF StoreInv

LEMMA NoLookHolds ==
    ASSUME look' = NoLook PROVE LookHolds'
BY DEF LookHolds, NoLook

LEMMA AllNext ==
    ASSUME Inv, StoreInv, LookHolds, [Next]_vars
    PROVE  StoreInv' /\ LookHolds'
<1>1. CASE CurriculumMoves
  <2>1. StoreInv' /\ (versions' = versions => lessons' = lessons)
    BY <1>1, StoreNext DEF CurriculumMoves
  <2> DEFINE again == look.st = "rows" /\ (look.reseeded \/ versions' # versions)
  <2>2. look' = [look EXCEPT !.reseeded = again]
    BY <1>1 DEF CurriculumMoves, LookHolds
  <2>3. again \in BOOLEAN
    BY DEF LookHolds
  <2>4. look.st = "rows" /\ ~again => ~look.reseeded /\ versions' = versions
    OBVIOUS
  <2> HIDE DEF again
  <2>5. LookHolds'
    BY <2>1, <2>2, <2>3, <2>4 DEF LookHolds
  <2> QED
    BY <2>1, <2>5
<1>2. ASSUME UNCHANGED <<lessons, progress, saves, versions, seed, seeds, pc, req>> PROVE StoreInv'
  <2>1. Updates' = Updates
    BY <1>2 DEF Updates
  <2> QED
    BY <1>2, <2>1 DEF StoreInv, SeedHolds, LessonsHold, ProgressHolds, SlugsDiffer
<1>3. CASE CountLessons
  <2>1. StoreInv' /\ UNCHANGED lessons
    BY <1>2, <1>3 DEF CountLessons, CurriculumIdle
  <2>2. Cardinality(lessons) \in Nat
    BY FS_CardinalityType DEF StoreInv, LessonsHold
  <2>3. look' = [NoLook EXCEPT !.st = "rows", !.published = Cardinality(lessons)]
    BY <1>3 DEF CountLessons
  <2>4. LookHolds'
    BY <2>1, <2>2, <2>3 DEF LookHolds, NoLook
  <2> QED
    BY <2>1, <2>4
<1>4. CASE ReadProgress \/ FailLook
  BY <1>2, <1>4, NoLookHolds DEF ReadProgress, FailLook, CurriculumIdle
<1>5. CASE UNCHANGED vars
  BY <1>2, <1>5 DEF vars, curriculumVars, reader, LookHolds
<1> QED
  BY <1>1, <1>3, <1>4, <1>5 DEF Next

LEMMA StoreAlways == Spec => [](Inv /\ StoreInv /\ LookHolds)
<1>1. Init => Inv /\ StoreInv /\ LookHolds
  BY InvInit, StoreInit DEF Init
<1>2. (Inv /\ StoreInv /\ LookHolds) /\ [Next]_vars => (Inv /\ StoreInv /\ LookHolds)'
  BY InvNext, AllNext
<1> QED
  BY <1>1, <1>2, PTL DEF Spec

\* A step that changes the stored lessons is the commit of a seeding.
LEMMA OnlySeedsChange ==
    ASSUME Next, lessons' # lessons PROVE SeedCommits
<1>1. ~CountLessons /\ ~ReadProgress /\ ~FailLook
  BY DEF CountLessons, ReadProgress, FailLook, CurriculumIdle
<1>2. CurriculumNext
  BY <1>1 DEF Next, CurriculumMoves
<1>3. ~NoSeeding
  BY DEF NoSeeding
<1>4. Seeding => SeedCommits
  BY SeedingFrame
<1>5. ASSUME NEW r \in Reqs PROVE ~Begin(r) /\ ~Step(r) /\ ~Fail(r)
  BY <1>3 DEF Begin, Step, Fail, currentUser, LockLessons, SelectAll, GetLessonBySlug,
              TellProgress, UpsertProgress, Goes, Answer
<1>6. ~SetPlan
  BY <1>3 DEF SetPlan
<1>7. DeadlockDetected => Seeding
  BY <1>5 DEF DeadlockDetected, Seeding
<1> QED
  BY <1>2, <1>4, <1>5, <1>6, <1>7 DEF CurriculumNext, Seeding

\* The rows of a seeding whose file has whole sections and a first header typed well.
LEMMA RowsAreSections ==
    ASSUME SeedHolds, seed.st = "commit", AllWhole(seed.file), seed.file[1].header = "well"
    PROVE  Rows = SectionRows(seed.file)
<1>1. /\ seed.file \in Seq(Sections)
      /\ seed.lessons = Parse(seed.file) /\ Parse(seed.file) # <<>>
  BY DEF SeedHolds
<1>2. /\ DOMAIN seed.lessons = DOMAIN seed.file
      /\ \A i \in DOMAIN seed.file :
           seed.lessons[i].n = i /\ seed.lessons[i].slug = seed.file[i].slug
  BY <1>1, ParseIsWhole
<1> QED
  BY <1>2 DEF Rows, SectionRows

\* Of a file whose sections are whole and whose first header is typed well, a seeding
\* stores a row for each section, with its own number and title, or nothing, for files
\* of any length, whatever other headers are mistyped, and any number of seedings.
THEOREM FileIsSeeded == Spec => SeedIsItsFile
<1>1. ASSUME StoreInv, [Next]_vars, lessons' # lessons,
             AllWhole(seed.file), seed.file[1].header = "well"
      PROVE  lessons' = SectionRows(seed.file)
  <2>1. SeedCommits
    <3>1. ~UNCHANGED vars
      BY <1>1 DEF vars, curriculumVars
    <3> QED
      BY <1>1, <3>1, OnlySeedsChange
  <2>2. seed.st = "commit" /\ lessons' = Rows
    BY <2>1 DEF SeedCommits
  <2> QED
    BY <1>1, <2>2, RowsAreSections DEF StoreInv
<1>2. StoreInv /\ [Next]_vars =>
        [lessons' # lessons /\ AllWhole(seed.file) /\ seed.file[1].header = "well"
           => lessons' = SectionRows(seed.file)]_curriculumVars
  BY <1>1
<1> QED
  BY <1>2, StoreAlways, PTL DEF Spec, SeedIsItsFile

-----------------------------------------------------------------------------
(* The badges for lessons: what one row of the pass does.                  *)

Whens == 0..MaxSaves
Grades == {"none", "viewed", "learned", "mastered"}
LessonStats ==
    [learned: BOOLEAN, firstAt: Whens, mastered: Nat, lastAt: Whens,
     bandeja: Grades, bandejaAt: Whens, vibora: Grades, viboraAt: Whens]

LEMMA NoStatsHolds == NoStats \in LessonStats
BY CurriculumAssumption DEF NoStats, LessonStats, Whens, Grades

LEMMA HighestOf ==
    ASSUME NEW g \in Grades, NEW c \in Statuses
    PROVE  /\ highestStatus(g, c) \in Grades
           /\ highestStatus(g, c) = "mastered" <=> g = "mastered" \/ c = "mastered"
           /\ highestStatus(g, c) \in {"learned", "mastered"} <=>
                g \in {"learned", "mastered"} \/ c \in {"learned", "mastered"}
<1>1. Rank["none"] = 0 /\ Rank["viewed"] = 1 /\ Rank["learned"] = 2 /\ Rank["mastered"] = 3
  BY DEF Rank
<1> QED
  BY <1>1 DEF highestStatus, Grades, Statuses

\* Learned, mastered: what a row of this status counts for.
LearnedBy(p) == p.status \in {"learned", "mastered"}
MasteredBy(p) == p.status = "mastered"

LEMMA ReadRowFields ==
    ASSUME NEW s \in LessonStats, NEW p \in ProgressRows, NEW slug
    PROVE  LET n == ReadRow(s, p, slug) IN
           /\ n \in LessonStats
           /\ n.learned <=> s.learned \/ LearnedBy(p)
           /\ n.firstAt = IF LearnedBy(p) THEN Earlier(s.firstAt, p.at) ELSE s.firstAt
           /\ n.mastered = IF MasteredBy(p) THEN s.mastered + 1 ELSE s.mastered
           /\ n.lastAt = IF MasteredBy(p) /\ p.at > s.lastAt THEN p.at ELSE s.lastAt
           /\ n.bandeja = IF slug \in Bandeja THEN highestStatus(s.bandeja, p.status) ELSE s.bandeja
           /\ n.bandejaAt = IF slug \in Bandeja /\ LearnedBy(p)
                            THEN Earlier(s.bandejaAt, p.at) ELSE s.bandejaAt
           /\ n.vibora = IF slug \in Vibora THEN highestStatus(s.vibora, p.status) ELSE s.vibora
           /\ n.viboraAt = IF slug \in Vibora /\ MasteredBy(p)
                           THEN Earlier(s.viboraAt, p.at) ELSE s.viboraAt
<1> DEFINE learned == LearnedBy(p)
           mastered == MasteredBy(p)
           l1 == s.learned \/ learned
           f1 == IF learned THEN Earlier(s.firstAt, p.at) ELSE s.firstAt
           m1 == IF mastered THEN s.mastered + 1 ELSE s.mastered
           a1 == IF mastered /\ p.at > s.lastAt THEN p.at ELSE s.lastAt
           b2 == highestStatus(s.bandeja, p.status)
           c2 == IF learned THEN Earlier(s.bandejaAt, p.at) ELSE s.bandejaAt
           b3 == highestStatus(s.vibora, p.status)
           c3 == IF mastered THEN Earlier(s.viboraAt, p.at) ELSE s.viboraAt
           c == [s EXCEPT !.learned = l1, !.firstAt = f1, !.mastered = m1, !.lastAt = a1]
           d == IF slug \notin Bandeja THEN c ELSE [c EXCEPT !.bandeja = b2, !.bandejaAt = c2]
           e == IF slug \notin Vibora THEN d ELSE [d EXCEPT !.vibora = b3, !.viboraAt = c3]
<1>1. p.at \in Whens /\ p.status \in Statuses /\ learned \in BOOLEAN /\ mastered \in BOOLEAN
  <2>1. MaxSaves \in Nat
    BY CurriculumAssumption
  <2> QED
    BY <2>1 DEF ProgressRows, Whens, LearnedBy, MasteredBy
<1>2. /\ s.learned \in BOOLEAN /\ s.firstAt \in Whens /\ s.mastered \in Nat /\ s.lastAt \in Whens
      /\ s.bandeja \in Grades /\ s.bandejaAt \in Whens /\ s.vibora \in Grades /\ s.viboraAt \in Whens
  BY DEF LessonStats
<1>3. /\ l1 \in BOOLEAN /\ f1 \in Whens /\ m1 \in Nat /\ a1 \in Whens
      /\ b2 \in Grades /\ c2 \in Whens /\ b3 \in Grades /\ c3 \in Whens
  <2>1. b2 \in Grades /\ b3 \in Grades
    BY <1>1, <1>2, HighestOf
  <2> HIDE DEF learned, mastered
  <2>2. f1 \in Whens /\ m1 \in Nat /\ a1 \in Whens /\ c2 \in Whens /\ c3 \in Whens
    BY <1>1, <1>2 DEF Earlier
  <2>3. l1 \in BOOLEAN
    BY <1>1, <1>2
  <2> QED
    BY <2>1, <2>2, <2>3
<1>4. ReadRow(s, p, slug) = e
  <2>1. [s EXCEPT !.learned = @ \/ learned,
                  !.firstAt = IF learned THEN Earlier(@, p.at) ELSE @,
                  !.mastered = IF mastered THEN @ + 1 ELSE @,
                  !.lastAt = IF mastered /\ p.at > @ THEN p.at ELSE @] = c
    BY DEF LessonStats
  <2> QED
    BY <2>1 DEF ReadRow, LearnedBy, MasteredBy, LessonStats
<1> HIDE DEF l1, f1, m1, a1, b2, c2, b3, c3
<1>5. /\ c \in LessonStats
      /\ c.learned = l1 /\ c.firstAt = f1 /\ c.mastered = m1 /\ c.lastAt = a1
      /\ c.bandeja = s.bandeja /\ c.bandejaAt = s.bandejaAt
      /\ c.vibora = s.vibora /\ c.viboraAt = s.viboraAt
  BY <1>3 DEF LessonStats
<1> HIDE DEF c
<1>6. /\ d \in LessonStats
      /\ d.learned = l1 /\ d.firstAt = f1 /\ d.mastered = m1 /\ d.lastAt = a1
      /\ d.bandeja = (IF slug \in Bandeja THEN b2 ELSE s.bandeja)
      /\ d.bandejaAt = (IF slug \in Bandeja THEN c2 ELSE s.bandejaAt)
      /\ d.vibora = s.vibora /\ d.viboraAt = s.viboraAt
  <2>1. CASE slug \notin Bandeja
    BY <1>5, <2>1
  <2>2. CASE slug \in Bandeja
    <3> DEFINE x == [c EXCEPT !.bandeja = b2, !.bandejaAt = c2]
    <3>1. /\ x \in LessonStats
          /\ x.learned = c.learned /\ x.firstAt = c.firstAt /\ x.mastered = c.mastered /\ x.lastAt = c.lastAt
          /\ x.bandeja = b2 /\ x.bandejaAt = c2 /\ x.vibora = c.vibora /\ x.viboraAt = c.viboraAt
      BY <1>3, <1>5 DEF LessonStats
    <3> HIDE DEF x
    <3>2. d = x
      BY <2>2 DEF x
    <3> HIDE DEF d
    <3> QED
      BY <1>5, <2>2, <3>1, <3>2
  <2> QED
    BY <2>1, <2>2
<1> HIDE DEF d
<1>7. /\ e \in LessonStats
      /\ e.learned = l1 /\ e.firstAt = f1 /\ e.mastered = m1 /\ e.lastAt = a1
      /\ e.bandeja = d.bandeja /\ e.bandejaAt = d.bandejaAt
      /\ e.vibora = (IF slug \in Vibora THEN b3 ELSE s.vibora)
      /\ e.viboraAt = (IF slug \in Vibora THEN c3 ELSE s.viboraAt)
  <2>1. CASE slug \notin Vibora
    BY <1>6, <2>1
  <2>2. CASE slug \in Vibora
    <3> DEFINE x == [d EXCEPT !.vibora = b3, !.viboraAt = c3]
    <3>1. /\ x \in LessonStats
          /\ x.learned = d.learned /\ x.firstAt = d.firstAt /\ x.mastered = d.mastered /\ x.lastAt = d.lastAt
          /\ x.bandeja = d.bandeja /\ x.bandejaAt = d.bandejaAt /\ x.vibora = b3 /\ x.viboraAt = c3
      BY <1>3, <1>6 DEF LessonStats
    <3> HIDE DEF x
    <3>2. e = x
      BY <2>2 DEF x
    <3> HIDE DEF e
    <3> QED
      BY <1>6, <2>2, <3>1, <3>2
  <2> QED
    BY <2>1, <2>2
<1> HIDE DEF e
<1> QED
  BY <1>4, <1>6, <1>7 DEF l1, f1, m1, a1, b2, c2, b3, c3

-----------------------------------------------------------------------------
(* The rows one after the other.                                           *)

\* h is what the pass holds after each row.
StatsPass(ls, rows, h) ==
    /\ h \in [0..Len(rows) -> LessonStats]
    /\ h[0] = NoStats
    /\ \A k \in 0..Len(rows) - 1 :
         h[k + 1] = ReadRow(h[k], rows[k + 1], SlugOf(ls, rows[k + 1].lesson))

LEMMA StatsIsPass ==
    ASSUME NEW ls, NEW rows \in Seq(ProgressRows)
    PROVE  \E h : StatsPass(ls, rows, h) /\ Stats(ls, rows) = h[Len(rows)]
<1> DEFINE n == Len(rows)
           D == 1..n
           Read1(s, i) == ReadRow(s, rows[i], SlugOf(ls, rows[i].lesson))
           F == [i \in D |-> [x \in LessonStats |-> Read1(x, i)]]
           iter == CHOOSE g : g = [s \in SUBSET D |->
                     IF s = {} THEN NoStats ELSE Read1(g[s \ {Max(s)}], Max(s))]
<1>1. n \in Nat /\ DOMAIN rows = D /\ \A i \in D : rows[i] \in ProgressRows
  OBVIOUS
<1>2. Stats(ls, rows) = iter[D]
  BY <1>1 DEF Stats, FoldLeft, MapThenFoldSet
<1>3. \A i \in D, x \in LessonStats : Read1(x, i) \in LessonStats
  BY <1>1, ReadRowFields
<1> HIDE DEF Read1
<1>4. F \in [1..n -> [LessonStats -> LessonStats]]
  BY <1>3
<1>5. \A x \in LessonStats, i \in D : F[i][x] = Read1(x, i)
  OBVIOUS
<1> HIDE DEF F
<1>6. \A s \in SUBSET D : s # {} => Max(s) \in D
  BY <1>1, MaxIsGreatest
<1>7. \E g : g = [s \in SUBSET D |-> IF s = {} THEN NoStats ELSE Read1(g[s \ {Max(s)}], Max(s))]
  <2>1. PICK g \in [SUBSET D -> LessonStats] : Solves(g, n, NoStats, F)
    BY <1>1, <1>4, NoStatsHolds, FoldExists
  <2>2. ASSUME NEW s \in SUBSET D, NEW m, m = Max(s), s # {}
        PROVE  F[m][g[s \ {m}]] = Read1(g[s \ {m}], m)
    BY <1>5, <1>6, <2>2
  <2>3. g = [s \in SUBSET D |-> IF s = {} THEN NoStats ELSE Read1(g[s \ {Max(s)}], Max(s))]
    BY <2>1, <2>2 DEF Solves
  <2> QED
    BY <2>3
<1>8. iter = [s \in SUBSET D |-> IF s = {} THEN NoStats ELSE Read1(iter[s \ {Max(s)}], Max(s))]
  BY <1>7
<1> HIDE DEF iter
<1>9. IsFold(iter, n, LessonStats, NoStats, F)
  <2>1. ASSUME NEW s \in SUBSET D, NEW m, m = Max(s), s # {}, iter[s \ {m}] \in LessonStats
        PROVE  F[m][iter[s \ {m}]] = Read1(iter[s \ {m}], m)
    BY <1>5, <1>6, <2>1
  <2>2. {} \in SUBSET D
    OBVIOUS
  <2> QED
    BY <1>8, <2>1, <2>2 DEF IsFold
<1>10. PICK h : Takes(h, n, LessonStats, NoStats, F) /\ h[n] = iter[D]
  <2> HIDE DEF n
  <2> QED
    BY <1>1, <1>4, <1>9, NoStatsHolds, FoldSteps
<1>11. \A k \in 0..n - 1 : h[k + 1] = Read1(h[k], k + 1)
  <2>1. \A k \in 0..n - 1 : k \in 0..n /\ k + 1 \in D
    BY <1>1
  <2> QED
    BY <1>5, <1>10, <2>1 DEF Takes
<1> QED
  BY <1>2, <1>10, <1>11 DEF StatsPass, Takes, Read1

\* One of the first k rows is in I.
Seen(I, rows, k) == \E i \in 1..k : rows[i] \in I

\* at is the time of one of them, or 0 if there is none.
Tells(at, I, rows, k) ==
    /\ Seen(I, rows, k) => \E i \in 1..k : rows[i] \in I /\ at = rows[i].at
    /\ ~Seen(I, rows, k) => at = 0

\* The rows of these lessons in these states.
Counts(statuses, slugs) ==
    {p \in ProgressRows : p.status \in statuses /\ SlugOf(lessons, p.lesson) \in slugs}
Learned == Counts({"learned", "mastered"}, Slugs)
Mastered == Counts({"mastered"}, Slugs)
BandejaRows == Counts({"learned", "mastered"}, Bandeja)
ViboraRows == Counts({"mastered"}, Vibora)

\* The variables of the pass after k rows.
Reports(s, rows, k) ==
    /\ s.learned <=> Seen(Learned, rows, k)
    /\ Tells(s.firstAt, Learned, rows, k)
    /\ s.mastered = Cardinality({i \in 1..k : rows[i] \in Mastered})
    /\ Tells(s.lastAt, Mastered, rows, k)
    /\ s.bandeja \in {"learned", "mastered"} <=> Seen(BandejaRows, rows, k)
    /\ Tells(s.bandejaAt, BandejaRows, rows, k)
    /\ s.vibora = "mastered" <=> Seen(ViboraRows, rows, k)
    /\ Tells(s.viboraAt, ViboraRows, rows, k)

LEMMA SeenStep ==
    ASSUME NEW I, NEW rows, NEW k \in Nat
    PROVE  Seen(I, rows, k + 1) <=> Seen(I, rows, k) \/ rows[k + 1] \in I
<1>1. \A i : i \in 1..k + 1 <=> i \in 1..k \/ i = k + 1
  OBVIOUS
<1> QED
  BY <1>1 DEF Seen

LEMMA TellsStep ==
    ASSUME NEW I, NEW rows, NEW k \in Nat, NEW at, Tells(at, I, rows, k), NEW new,
           rows[k + 1] \in I => new = rows[k + 1].at \/ (new = at /\ at # 0),
           rows[k + 1] \notin I => new = at
    PROVE  Tells(new, I, rows, k + 1)
<1>1. \A i : i \in 1..k + 1 <=> i \in 1..k \/ i = k + 1
  OBVIOUS
<1>2. Seen(I, rows, k + 1) <=> Seen(I, rows, k) \/ rows[k + 1] \in I
  BY SeenStep
<1>3. CASE rows[k + 1] \notin I
  BY <1>1, <1>2, <1>3 DEF Tells
<1>4. CASE rows[k + 1] \in I /\ new = rows[k + 1].at
  BY <1>1, <1>2, <1>4 DEF Tells
<1>5. CASE rows[k + 1] \in I /\ new = at /\ at # 0
  BY <1>1, <1>2, <1>5 DEF Tells
<1> QED
  BY <1>3, <1>4, <1>5

LEMMA CountStep ==
    ASSUME NEW I, NEW rows, NEW k \in Nat
    PROVE  LET Of(n) == Cardinality({i \in 1..n : rows[i] \in I}) IN
           Of(k + 1) = IF rows[k + 1] \in I THEN Of(k) + 1 ELSE Of(k)
<1> DEFINE S == {i \in 1..k : rows[i] \in I}
           T == {i \in 1..k + 1 : rows[i] \in I}
<1>1. IsFiniteSet(S)
  <2>1. IsFiniteSet(1..k) /\ S \in SUBSET (1..k)
    BY FS_Interval
  <2> HIDE DEF S
  <2> QED
    BY <2>1, FS_Subset
<1>2. \A i : i \in 1..k + 1 <=> i \in 1..k \/ i = k + 1
  OBVIOUS
<1>3. k + 1 \notin S
  OBVIOUS
<1>4. T = IF rows[k + 1] \in I THEN S \cup {k + 1} ELSE S
  BY <1>2
<1> HIDE DEF S, T
<1>5. Cardinality(S \cup {k + 1}) = Cardinality(S) + 1
  BY <1>1, <1>3, FS_AddElement
<1>6. Cardinality(T) = IF rows[k + 1] \in I THEN Cardinality(S) + 1 ELSE Cardinality(S)
  BY <1>4, <1>5
<1> QED
  BY <1>6 DEF S, T

LEMMA ReportsStep ==
    ASSUME NEW rows, NEW k \in Nat, NEW s \in LessonStats, Reports(s, rows, k),
           rows[k + 1] \in ProgressRows, SlugOf(lessons, rows[k + 1].lesson) \in Slugs
    PROVE  Reports(ReadRow(s, rows[k + 1], SlugOf(lessons, rows[k + 1].lesson)), rows, k + 1)
<1> DEFINE p == rows[k + 1]
           slug == SlugOf(lessons, p.lesson)
           n == ReadRow(s, p, slug)
<1>1. /\ p \in Learned <=> LearnedBy(p)
      /\ p \in Mastered <=> MasteredBy(p)
      /\ p \in BandejaRows <=> slug \in Bandeja /\ LearnedBy(p)
      /\ p \in ViboraRows <=> slug \in Vibora /\ MasteredBy(p)
  BY DEF Learned, Mastered, BandejaRows, ViboraRows, Counts, LearnedBy, MasteredBy
<1>2. /\ n \in LessonStats
      /\ n.learned <=> s.learned \/ LearnedBy(p)
      /\ n.firstAt = IF LearnedBy(p) THEN Earlier(s.firstAt, p.at) ELSE s.firstAt
      /\ n.mastered = IF MasteredBy(p) THEN s.mastered + 1 ELSE s.mastered
      /\ n.lastAt = IF MasteredBy(p) /\ p.at > s.lastAt THEN p.at ELSE s.lastAt
      /\ n.bandeja = IF slug \in Bandeja THEN highestStatus(s.bandeja, p.status) ELSE s.bandeja
      /\ n.bandejaAt = IF slug \in Bandeja /\ LearnedBy(p)
                       THEN Earlier(s.bandejaAt, p.at) ELSE s.bandejaAt
      /\ n.vibora = IF slug \in Vibora THEN highestStatus(s.vibora, p.status) ELSE s.vibora
      /\ n.viboraAt = IF slug \in Vibora /\ MasteredBy(p)
                      THEN Earlier(s.viboraAt, p.at) ELSE s.viboraAt
  BY ReadRowFields
<1>3. p.at \in Whens /\ p.at # 0 /\ p.status \in Statuses
  BY CurriculumAssumption DEF ProgressRows, Whens
<1>4. /\ s.firstAt \in Whens /\ s.lastAt \in Whens /\ s.bandejaAt \in Whens /\ s.viboraAt \in Whens
      /\ s.bandeja \in Grades /\ s.vibora \in Grades
  BY DEF LessonStats
<1>5. \A at \in Whens : Earlier(at, p.at) = p.at \/ (Earlier(at, p.at) = at /\ at # 0)
  BY DEF Earlier
<1> HIDE DEF slug, n
<1>6. n.learned <=> Seen(Learned, rows, k + 1)
  BY <1>1, <1>2, SeenStep DEF Reports
<1>7. Tells(n.firstAt, Learned, rows, k + 1)
  <2>1. Tells(s.firstAt, Learned, rows, k)
    BY DEF Reports
  <2> QED
    BY <1>1, <1>2, <1>4, <1>5, <2>1, TellsStep
<1>8. n.mastered = Cardinality({i \in 1..k + 1 : rows[i] \in Mastered})
  <2>1. s.mastered = Cardinality({i \in 1..k : rows[i] \in Mastered})
    BY DEF Reports
  <2> QED
    BY <1>1, <1>2, <2>1, CountStep
<1>9. Tells(n.lastAt, Mastered, rows, k + 1)
  <2>1. Tells(s.lastAt, Mastered, rows, k)
    BY DEF Reports
  <2>2. MaxSaves \in Nat
    BY CurriculumAssumption
  <2>3. MasteredBy(p) => n.lastAt = p.at \/ (n.lastAt = s.lastAt /\ s.lastAt # 0)
    BY <1>2, <1>3, <1>4, <2>2 DEF Whens
  <2> QED
    BY <1>1, <1>2, <2>1, <2>3, TellsStep
<1>10. n.bandeja \in {"learned", "mastered"} <=> Seen(BandejaRows, rows, k + 1)
  <2>1. s.bandeja \in {"learned", "mastered"} <=> Seen(BandejaRows, rows, k)
    BY DEF Reports
  <2>2. highestStatus(s.bandeja, p.status) \in {"learned", "mastered"} <=>
          s.bandeja \in {"learned", "mastered"} \/ LearnedBy(p)
    BY <1>3, <1>4, HighestOf DEF LearnedBy
  <2> QED
    BY <1>1, <1>2, <2>1, <2>2, SeenStep
<1>11. Tells(n.bandejaAt, BandejaRows, rows, k + 1)
  <2>1. Tells(s.bandejaAt, BandejaRows, rows, k)
    BY DEF Reports
  <2> QED
    BY <1>1, <1>2, <1>4, <1>5, <2>1, TellsStep
<1>12. n.vibora = "mastered" <=> Seen(ViboraRows, rows, k + 1)
  <2>1. s.vibora = "mastered" <=> Seen(ViboraRows, rows, k)
    BY DEF Reports
  <2>2. highestStatus(s.vibora, p.status) = "mastered" <=> s.vibora = "mastered" \/ MasteredBy(p)
    BY <1>3, <1>4, HighestOf DEF MasteredBy
  <2> QED
    BY <1>1, <1>2, <2>1, <2>2, SeenStep
<1>13. Tells(n.viboraAt, ViboraRows, rows, k + 1)
  <2>1. Tells(s.viboraAt, ViboraRows, rows, k)
    BY DEF Reports
  <2> QED
    BY <1>1, <1>2, <1>4, <1>5, <2>1, TellsStep
<1>14. Reports(n, rows, k + 1)
  BY <1>6, <1>7, <1>8, <1>9, <1>10, <1>11, <1>12, <1>13 DEF Reports
<1> QED
  BY <1>14 DEF n, slug

LEMMA NothingReported == ASSUME NEW rows PROVE Reports(NoStats, rows, 0)
<1>1. 1..0 = {}
  OBVIOUS
<1>2. \A I : ~Seen(I, rows, 0)
  BY <1>1 DEF Seen
<1>3. Cardinality({i \in 1..0 : rows[i] \in Mastered}) = 0
  <2>1. {i \in 1..0 : rows[i] \in Mastered} = {}
    BY <1>1
  <2> QED
    BY <2>1, FS_EmptySet
<1> QED
  BY <1>2, <1>3 DEF Reports, Tells, NoStats

\* After the pass.
LEMMA StatsReport ==
    ASSUME NEW rows \in Seq(ProgressRows),
           \A i \in DOMAIN rows : SlugOf(lessons, rows[i].lesson) \in Slugs
    PROVE  Stats(lessons, rows) \in LessonStats /\ Reports(Stats(lessons, rows), rows, Len(rows))
<1> DEFINE m == Len(rows)
<1>1. PICK h : StatsPass(lessons, rows, h) /\ Stats(lessons, rows) = h[m]
  BY StatsIsPass
<1>2. m \in Nat /\ DOMAIN rows = 1..m /\ \A i \in 1..m : rows[i] \in ProgressRows
  OBVIOUS
<1> DEFINE T == {k \in 0..m : Reports(h[k], rows, k)}
<1>3. 0 \in T
  BY <1>1, <1>2, NothingReported DEF StatsPass
<1>4. ASSUME NEW k \in 0..(m - 1), k \in T PROVE k + 1 \in T
  <2>1. k \in Nat /\ k \in 0..m /\ k + 1 \in 0..m /\ k + 1 \in 1..m /\ k \in 0..m - 1
    BY <1>2
  <2>2. /\ h[k] \in LessonStats
        /\ h[k + 1] = ReadRow(h[k], rows[k + 1], SlugOf(lessons, rows[k + 1].lesson))
    BY <1>1, <2>1 DEF StatsPass
  <2>3. Reports(h[k], rows, k)
    BY <1>4
  <2>4. Reports(h[k + 1], rows, k + 1)
    BY <1>2, <2>1, <2>2, <2>3, ReportsStep
  <2> QED
    BY <2>1, <2>4
<1>5. 0..m \subseteq T
  <2> HIDE DEF T, m
  <2> QED
    BY <1>2, <1>3, <1>4, InductionUpTo
<1>6. m \in 0..m
  BY <1>2
<1> QED
  BY <1>1, <1>5, <1>6 DEF StatsPass

-----------------------------------------------------------------------------
(* All rows of the progress, in any order.                                 *)

LEMMA InAnyOrder ==
    ASSUME IsFiniteSet(progress), progress \subseteq ProgressRows, NEW rows \in SetToSeqs(progress)
    PROVE  /\ rows \in Seq(ProgressRows) /\ DOMAIN rows = 1..Len(rows)
           /\ \A i \in 1..Len(rows) : rows[i] \in progress
           /\ \A p \in progress : \E i \in 1..Len(rows) : rows[i] = p
           /\ \A i, j \in 1..Len(rows) : rows[i] = rows[j] => i = j
<1> DEFINE n == Cardinality(progress)
<1>1. n \in Nat
  BY FS_CardinalityType
<1>2. rows \in [1..n -> progress] /\ \A i, j \in 1..n : i # j => rows[i] # rows[j]
  BY DEF SetToSeqs
<1>3. rows \in Injection(1..n, progress)
  BY <1>2 DEF Injection, IsInjective
<1>4. Cardinality(1..n) = n
  BY <1>1, FS_Interval
<1>5. rows \in Surjection(1..n, progress)
  BY <1>3, <1>4, FS_Injection
<1>6. \A p \in progress : \E i \in 1..n : rows[i] = p
  BY <1>5 DEF Surjection
<1> HIDE DEF n
<1>7. rows \in Seq(ProgressRows) /\ DOMAIN rows = 1..n
  <2>1. rows \in [1..n -> ProgressRows]
    BY <1>2
  <2> QED
    BY <1>1, <2>1
<1>8. Len(rows) = n
  BY <1>1, <1>7
<1> QED
  BY <1>2, <1>6, <1>7, <1>8

\* What the pass has read of all rows, in terms of the progress there is.
Amounts(rows, statuses, slugs) ==
    LET I == Counts(statuses, slugs)
        W == With(statuses, slugs)
        n == Len(rows) IN
    /\ Seen(I, rows, n) <=> W # {}
    /\ \A at : Tells(at, I, rows, n) => (W # {} => \E p \in W : at = p.at)
    /\ IsFiniteSet(W) /\ Cardinality({i \in 1..n : rows[i] \in I}) = Cardinality(W)

LEMMA SeenAll ==
    ASSUME IsFiniteSet(progress), progress \subseteq ProgressRows, NEW rows \in SetToSeqs(progress),
           NEW statuses, NEW slugs
    PROVE  Amounts(rows, statuses, slugs)
<1> DEFINE I == Counts(statuses, slugs)
           W == With(statuses, slugs)
           n == Len(rows)
           K == {i \in 1..n : rows[i] \in I}
<1>1. /\ \A i \in 1..n : rows[i] \in progress
      /\ \A p \in progress : \E i \in 1..n : rows[i] = p
      /\ \A i, j \in 1..n : rows[i] = rows[j] => i = j
  BY InAnyOrder
<1>2. W = I \cap progress
  BY DEF With, Counts
<1>3. W \in SUBSET progress /\ IsFiniteSet(W)
  <2>1. W \in SUBSET progress
    BY <1>2
  <2> HIDE DEF W
  <2> QED
    BY <2>1, FS_Subset
<1> HIDE DEF I, W, n
<1>4. \A i \in 1..n : rows[i] \in I <=> rows[i] \in W
  BY <1>1, <1>2
<1>5. Seen(I, rows, n) <=> W # {}
  BY <1>1, <1>2, <1>4 DEF Seen
<1>6. ASSUME NEW at, Tells(at, I, rows, n)
      PROVE  W # {} => \E p \in W : at = p.at
  BY <1>4, <1>5, <1>6 DEF Tells
<1>7. Cardinality(K) = Cardinality(W)
  <2> DEFINE f == [i \in K |-> rows[i]]
  <2>1. f \in [K -> W] /\ \A i \in K : f[i] = rows[i]
    BY <1>4
  <2>2. \A i \in K : i \in 1..n
    OBVIOUS
  <2>3. \A p \in W : \E i \in K : rows[i] = p
    BY <1>1, <1>2
  <2> HIDE DEF f, K
  <2>4. f \in Injection(K, W)
    BY <1>1, <2>1, <2>2 DEF Injection, IsInjective
  <2>5. f \in Surjection(K, W)
    BY <2>1, <2>3 DEF Surjection
  <2> QED
    BY <1>3, <2>4, <2>5, FS_Injection
<1> QED
  BY <1>3, <1>5, <1>6, <1>7 DEF Amounts, I, W, n

\* What is answered.
LEMMA ReadShows ==
    ASSUME Inv, StoreInv, LookHolds, ReadProgress
    PROVE  LessonBadgesAreEarned' /\ shown'.badges \in [Badges -> [unlocked: BOOLEAN, at: Whens]]
           /\ shown'.on = TRUE
<1>1. PICK rows \in SetToSeqs(progress) :
        shown' = [on |-> TRUE, reseeded |-> look.reseeded,
                  badges |-> compute(Stats(lessons, rows), look.published)]
  BY DEF ReadProgress
<1>2. look.st = "rows" /\ UNCHANGED <<lessons, progress>>
  BY DEF ReadProgress, CurriculumIdle
<1>3. IsFiniteSet(progress) /\ progress \subseteq ProgressRows
  BY DEF StoreInv, ProgressHolds
<1>4. ASSUME NEW p \in progress PROVE SlugOf(lessons, p.lesson) \in Slugs
  <2>1. \E row \in lessons : row.id = p.lesson
    BY DEF Inv, ProgressIsEarned
  <2>2. (CHOOSE row \in lessons : row.id = p.lesson) \in lessons
    BY <2>1
  <2>3. lessons \subseteq LessonRows
    BY DEF StoreInv, LessonsHold
  <2> QED
    BY <2>2, <2>3 DEF SlugOf, LessonRows
<1> DEFINE s == Stats(lessons, rows)
           published == look.published
           badges == compute(s, published)
           n == Len(rows)
<1>5. s \in LessonStats /\ Reports(s, rows, n)
  <2>1. rows \in Seq(ProgressRows) /\ DOMAIN rows = 1..n /\ \A i \in 1..n : rows[i] \in progress
    BY <1>3, InAnyOrder
  <2> QED
    BY <1>4, <2>1, StatsReport
<1> HIDE DEF s
<1>6. published \in Nat
  BY DEF LookHolds
<1>7. 0 \in Whens /\ MaxSaves \in Nat
  BY CurriculumAssumption DEF Whens
<1>8. /\ badges["first-lesson"] = [unlocked |-> s.learned, at |-> s.firstAt]
      /\ badges["bandeja-apprentice"] =
           [unlocked |-> s.bandeja \in {"learned", "mastered"}, at |-> s.bandejaAt]
      /\ badges["vibora-master"] = [unlocked |-> s.vibora = "mastered", at |-> s.viboraAt]
      /\ badges["half-mastery"] = [unlocked |-> Half(s, published),
                                   at |-> IF Half(s, published) THEN s.lastAt ELSE 0]
      /\ DOMAIN badges = Badges
      /\ badges = [b \in Badges |-> badges[b]]
  BY DEF compute, Badges
<1>9. badges \in [Badges -> [unlocked: BOOLEAN, at: Whens]]
  <2> HIDE DEF badges, published
  <2>1. /\ s.learned \in BOOLEAN /\ s.firstAt \in Whens /\ s.bandejaAt \in Whens
        /\ s.viboraAt \in Whens /\ s.lastAt \in Whens
    BY <1>5 DEF LessonStats
  <2>2. Half(s, published) \in BOOLEAN
    BY DEF Half
  <2>3. ASSUME NEW b \in Badges PROVE badges[b] \in [unlocked: BOOLEAN, at: Whens]
    <3>1. CASE b = "first-lesson"
      BY <1>8, <2>1, <3>1
    <3> DEFINE bandeja == s.bandeja \in {"learned", "mastered"}
               vibora == s.vibora = "mastered"
    <3>0. bandeja \in BOOLEAN /\ vibora \in BOOLEAN
      OBVIOUS
    <3>2. CASE b = "bandeja-apprentice"
      <4>1. badges[b] = [unlocked |-> bandeja, at |-> s.bandejaAt]
        BY <1>8, <3>2
      <4> HIDE DEF bandeja
      <4> QED
        BY <2>1, <3>0, <4>1
    <3>3. CASE b = "vibora-master"
      <4>1. badges[b] = [unlocked |-> vibora, at |-> s.viboraAt]
        BY <1>8, <3>3
      <4> HIDE DEF vibora
      <4> QED
        BY <2>1, <3>0, <4>1
    <3>4. CASE b = "half-mastery"
      BY <1>7, <1>8, <2>1, <2>2, <3>4
    <3> QED
      BY <3>1, <3>2, <3>3, <3>4 DEF Badges
  <2> QED
    BY <1>8, <2>3
<1> DEFINE Fits(b) ==
             /\ badges[b].unlocked <=> Earning(b) # {}
             /\ badges[b].unlocked <=> \E p \in Earning(b) : badges[b].at = p.at
<1>10. Fits("first-lesson")
  <2> DEFINE W == With({"learned", "mastered"}, Slugs)
             I == Counts({"learned", "mastered"}, Slugs)
  <2>1. (Seen(I, rows, n) <=> W # {}) /\ (Tells(s.firstAt, I, rows, n) => (W # {} => \E p \in W : s.firstAt = p.at))
    <3>1. Amounts(rows, {"learned", "mastered"}, Slugs)
      BY <1>3, SeenAll
    <3> HIDE DEF n
    <3> QED
      BY <3>1 DEF Amounts, n
  <2>2. (s.learned <=> Seen(I, rows, n)) /\ Tells(s.firstAt, I, rows, n)
    BY <1>5 DEF Reports, Learned
  <2> HIDE DEF W, I
  <2>3. (s.learned <=> W # {}) /\ (W # {} => \E p \in W : s.firstAt = p.at)
    BY <2>1, <2>2
  <2>4. badges["first-lesson"].unlocked = (s.learned) /\ badges["first-lesson"].at = s.firstAt
    BY <1>8
  <2>5. Earning("first-lesson") = W
    BY DEF Earning, W
  <2> HIDE DEF badges
  <2> QED
    BY <2>3, <2>4, <2>5
<1>11. Fits("bandeja-apprentice")
  <2> DEFINE W == With({"learned", "mastered"}, Bandeja)
             I == Counts({"learned", "mastered"}, Bandeja)
  <2>1. (Seen(I, rows, n) <=> W # {}) /\ (Tells(s.bandejaAt, I, rows, n) => (W # {} => \E p \in W : s.bandejaAt = p.at))
    <3>1. Amounts(rows, {"learned", "mastered"}, Bandeja)
      BY <1>3, SeenAll
    <3> HIDE DEF n
    <3> QED
      BY <3>1 DEF Amounts, n
  <2>2. (s.bandeja \in {"learned", "mastered"} <=> Seen(I, rows, n)) /\ Tells(s.bandejaAt, I, rows, n)
    BY <1>5 DEF Reports, BandejaRows
  <2> HIDE DEF W, I
  <2>3. (s.bandeja \in {"learned", "mastered"} <=> W # {}) /\ (W # {} => \E p \in W : s.bandejaAt = p.at)
    BY <2>1, <2>2
  <2>4. badges["bandeja-apprentice"].unlocked = (s.bandeja \in {"learned", "mastered"}) /\ badges["bandeja-apprentice"].at = s.bandejaAt
    BY <1>8
  <2>5. Earning("bandeja-apprentice") = W
    BY DEF Earning, W
  <2> HIDE DEF badges
  <2> QED
    BY <2>3, <2>4, <2>5
<1>12. Fits("vibora-master")
  <2> DEFINE W == With({"mastered"}, Vibora)
             I == Counts({"mastered"}, Vibora)
  <2>1. (Seen(I, rows, n) <=> W # {}) /\ (Tells(s.viboraAt, I, rows, n) => (W # {} => \E p \in W : s.viboraAt = p.at))
    <3>1. Amounts(rows, {"mastered"}, Vibora)
      BY <1>3, SeenAll
    <3> HIDE DEF n
    <3> QED
      BY <3>1 DEF Amounts, n
  <2>2. (s.vibora = "mastered" <=> Seen(I, rows, n)) /\ Tells(s.viboraAt, I, rows, n)
    BY <1>5 DEF Reports, ViboraRows
  <2> HIDE DEF W, I
  <2>3. (s.vibora = "mastered" <=> W # {}) /\ (W # {} => \E p \in W : s.viboraAt = p.at)
    BY <2>1, <2>2
  <2>4. badges["vibora-master"].unlocked = (s.vibora = "mastered") /\ badges["vibora-master"].at = s.viboraAt
    BY <1>8
  <2>5. Earning("vibora-master") = W
    BY DEF Earning, W
  <2> HIDE DEF badges
  <2> QED
    BY <2>3, <2>4, <2>5
<1>13. ASSUME ~look.reseeded PROVE Fits("half-mastery")
  <2> DEFINE S == With({"mastered"}, Slugs)
             half == Half(s, published)
  <2>1. published = Cardinality(lessons)
    BY <1>2, <1>13 DEF LookHolds
  <2>2. /\ s.mastered = Cardinality(S) /\ IsFiniteSet(S)
        /\ S # {} => \E p \in S : s.lastAt = p.at
    <3>1. Amounts(rows, {"mastered"}, Slugs)
      BY <1>3, SeenAll
    <3> HIDE DEF n
    <3>2. /\ s.mastered = Cardinality({i \in 1..n : rows[i] \in Mastered})
          /\ Tells(s.lastAt, Mastered, rows, n)
      BY <1>5 DEF Reports
    <3> QED
      BY <3>1, <3>2 DEF Amounts, n, Mastered
  <2>3. IsFiniteSet(lessons)
    BY DEF StoreInv, LessonsHold
  <2> HIDE DEF S
  <2>4. /\ Cardinality(S) \in Nat /\ (Cardinality(S) = 0 <=> S = {})
        /\ (Cardinality(lessons) = 0 <=> lessons = {})
    BY <2>2, <2>3, FS_EmptySet, FS_CardinalityType
  <2>5. half <=> lessons # {} /\ 2 * Cardinality(S) >= Cardinality(lessons)
    BY <1>6, <2>1, <2>2, <2>4 DEF Half
  <2>6. half => S # {}
    BY <1>6, <2>1, <2>2, <2>4 DEF Half
  <2>7. Earning("half-mastery") = IF half THEN S ELSE {}
    BY <2>5 DEF Earning, S
  <2> HIDE DEF half
  <2>8. badges["half-mastery"] = [unlocked |-> half, at |-> IF half THEN s.lastAt ELSE 0]
    BY <1>8 DEF half
  <2> QED
    BY <2>2, <2>6, <2>7, <2>8
<1>14. \A b \in Badges : ~(b = "half-mastery" /\ look.reseeded) => Fits(b)
  <2> HIDE DEF Fits
  <2> QED
    BY <1>10, <1>11, <1>12, <1>13 DEF Badges
<1> HIDE DEF badges
<1>15. shown'.reseeded = look.reseeded /\ shown'.badges = badges /\ shown'.on = TRUE
  BY <1>1 DEF badges, s
<1>16. \A b : Earning(b)' = Earning(b)
  BY <1>2 DEF Earning, With
<1>17. LessonBadgesAreEarned'
  BY <1>14, <1>15, <1>16 DEF LessonBadgesAreEarned
<1> QED
  BY <1>9, <1>15, <1>17

-----------------------------------------------------------------------------

ShownHolds ==
    /\ shown.on \in BOOLEAN /\ shown.badges \in [Badges -> [unlocked: BOOLEAN, at: Whens]]
    /\ LessonBadgesAreEarned

LEMMA NotShownHolds ==
    /\ shown = NotShown => ShownHolds
    /\ shown' = NotShown => ShownHolds'
<1>1. NotShown.on = FALSE /\ NotShown.badges \in [Badges -> [unlocked: BOOLEAN, at: Whens]]
  <2>1. 0 \in Whens
    BY CurriculumAssumption DEF Whens
  <2> QED
    BY <2>1 DEF NotShown, NoBadges
<1> QED
  BY <1>1 DEF ShownHolds, LessonBadgesAreEarned

LEMMA ShownNext ==
    ASSUME Inv, StoreInv, LookHolds, ShownHolds, [Next]_vars
    PROVE  ShownHolds'
<1>1. CASE ReadProgress
  BY <1>1, ReadShows DEF ShownHolds
<1>2. CASE CurriculumMoves \/ CountLessons \/ FailLook
  BY <1>2, NotShownHolds DEF CurriculumMoves, CountLessons, FailLook
<1>3. CASE UNCHANGED vars
  <2>1. UNCHANGED <<shown, lessons, progress>>
    BY <1>3 DEF vars, curriculumVars
  <2>2. \A b : Earning(b)' = Earning(b)
    BY <2>1 DEF Earning, With
  <2> QED
    BY <2>1, <2>2 DEF ShownHolds, LessonBadgesAreEarned
<1> QED
  BY <1>1, <1>2, <1>3 DEF Next

LEMMA ShownAlways == Spec => [](Inv /\ StoreInv /\ LookHolds /\ ShownHolds)
<1>1. Init => ShownHolds
  BY NotShownHolds DEF Init
<1>2. (Inv /\ StoreInv /\ LookHolds /\ ShownHolds) /\ [Next]_vars => ShownHolds'
  BY ShownNext
<1> QED
  BY <1>1, <1>2, StoreAlways, PTL DEF Spec

\* In whatever order the rows of the progress are read, a badge for lessons is shown
\* unlocked exactly when the progress that is stored meets its criterion, with the time
\* of a row that does; only half-mastery may be misled, by a curriculum that is seeded
\* between the two statements of GetForUser.
THEOREM LessonBadgesEarned == Spec => []LessonBadgesAreEarned
<1>1. ShownHolds => LessonBadgesAreEarned
  BY DEF ShownHolds
<1> QED
  BY <1>1, ShownAlways, PTL

\* The types of the curriculum, the progress, the requests and the looks; with them
\* that slugs stay unique and that updates never write more than they may.
THEOREM LessonBadgesType == Spec => []TypeOK
<1>1. Inv /\ StoreInv /\ LookHolds /\ ShownHolds => TypeOK
  <2> SUFFICES ASSUME Inv, StoreInv, LookHolds, ShownHolds PROVE TypeOK
    OBVIOUS
  <2>1. plan \in {"free", "paid"} /\ paid \in BOOLEAN /\ lessons \in versions \cup {{}}
    BY DEF Inv, PlansPaid, Stored
  <2>2. saves \in 0..MaxSaves
    <3>1. Cardinality(Updates) \in Nat
      BY UpdatesFinite
    <3> QED
      BY <3>1, CurriculumAssumption DEF StoreInv, ProgressHolds
  <2>3. /\ \A row \in lessons : row \in LessonRows
        /\ \A row, other \in lessons : row.slug = other.slug => row = other
        /\ progress \subseteq ProgressRows /\ seeds \in 0..MaxSeeds /\ seed.st \in SeedPcs
        /\ pc \in [Reqs -> Pcs]
    BY DEF StoreInv, LessonsHold, ProgressHolds, SeedHolds
  <2>4. look.st \in {"off", "rows"} /\ look.published \in Nat /\ look.reseeded \in BOOLEAN
    BY DEF LookHolds
  <2>5. shown.on \in BOOLEAN /\ shown.badges \in [Badges -> [unlocked: BOOLEAN, at: 0..MaxSaves]]
    BY DEF ShownHolds, Whens
  <2> QED
    BY <2>1, <2>2, <2>3, <2>4, <2>5 DEF TypeOK, CurriculumTypeOK
<1> QED
  BY <1>1, ShownAlways, PTL
=============================================================================
