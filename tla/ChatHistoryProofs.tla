------------------------- MODULE ChatHistoryProofs -------------------------
(***************************************************************************)
(* Proofs about ChatHistory, for any number of turns and any page sizes.   *)
(***************************************************************************)
EXTENDS ChatHistory, FiniteSetTheorems, WellFoundedInduction, TLAPS

\* A turn that has not begun is not there, and a page shows what was saved.
Begun == clock <= begun /\ \A t \in Turns : t > begun => turn[t] = "none"
ScrollOK ==
    /\ scroll.limit \in Nat /\ (scroll.st = "loading" => scroll.limit > 0)
    /\ scroll.due \subseteq Saved /\ scroll.seen \subseteq Saved
    /\ \A m \in scroll.seen : CreatedAt(m) >= scroll.before

Base == HistoryTypeOK /\ Begun /\ ScrollOK

-----------------------------------------------------------------------------
(* Lemmas.                                                                 *)

LEMMA Smallest ==
    ASSUME NEW S \in SUBSET Nat, S # {}
    PROVE  Min(S) \in S /\ \A x \in S : Min(S) <= x
<1> DEFINE R == {ss \in Nat \X Nat : ss[1] < ss[2]}
<1>1. IsWellFoundedOn(R, Nat)
  BY NatLessThanWellFounded DEF OpToRel
<1>2. \A x, y \in Nat : y < x => <<y, x>> \in R
  OBVIOUS
<1> HIDE DEF R
<1>3. \E x \in S : \A y \in S : ~(<<y, x>> \in R)
  BY <1>1, WFMin
<1>4. \E x \in S : \A y \in S : x <= y
  <2>1. PICK x \in S : \A y \in S : ~(<<y, x>> \in R)
    BY <1>3
  <2>2. \A y \in S : ~(y < x)
    BY <1>2, <2>1
  <2> QED
    BY <2>2
<1> QED
  BY <1>4 DEF Min

\* Saved messages keep their time: only turns that have not begun get one.
LEMMA SavedKept ==
    ASSUME Base, [HistoryNext]_historyVars
    PROVE  Saved \subseteq Saved' /\ \A m \in Saved : CreatedAt(m)' = CreatedAt(m)
<1>1. ASSUME NEW t \in Turns, turn[t] = "saved" PROVE turn'[t] = "saved" /\ at'[t] = at[t]
  <2>1. CASE BeginTurn
    <3>1. t # begun + 1
      BY <1>1, HistoryAssumption DEF Base, Begun, HistoryTypeOK, Turns
    <3> QED
      BY <1>1, <2>1, <3>1 DEF BeginTurn, Base, HistoryTypeOK
  <2>2. ASSUME NEW u \in Turns, EndTurn(u) PROVE turn'[t] = "saved" /\ at'[t] = at[t]
    BY <1>1, <2>2 DEF EndTurn, Base, HistoryTypeOK
  <2>3. CASE UNCHANGED <<at, turn>>
    BY <1>1, <2>3
  <2> QED
    BY <2>1, <2>2, <2>3 DEF HistoryNext, OpenChat, GetHistory, SoftDelete, historyVars
<1> QED
  BY <1>1 DEF Saved, CreatedAt, Messages

-----------------------------------------------------------------------------
(* Pages.                                                                  *)

LEMMA TimeType == ASSUME HistoryTypeOK, NEW m \in Saved PROVE CreatedAt(m) \in Times /\ CreatedAt(m) \in Nat
BY HistoryAssumption DEF HistoryTypeOK, Saved, Messages, CreatedAt, Times

LEMMA SavedFinite == IsFiniteSet(Messages) /\ IsFiniteSet(Saved)
<1>1. IsFiniteSet(Turns)
  BY HistoryAssumption, FS_Interval DEF Turns
<1>2. IsFiniteSet({"user", "assistant"})
  <2>1. {"user", "assistant"} = {"user"} \cup {"assistant"}
    OBVIOUS
  <2>2. IsFiniteSet({"user"})
    BY FS_Singleton
  <2> QED
    BY <2>1, <2>2, FS_AddElement
<1>3. IsFiniteSet(Messages)
  BY <1>1, <1>2, FS_Product DEF Messages
<1> QED
  BY <1>3, FS_Subset DEF Saved

\* A page that is not the last is not empty.
LEMMA PageRows ==
    ASSUME HistoryTypeOK, NEW before, NEW limit \in Nat, limit > 0, NEW p \in Pages(before, limit)
    PROVE  /\ p.rows \subseteq Below(before) /\ p.more \in BOOLEAN
           /\ p.more => p.rows # {}
<1> DEFINE S == Below(before)
<1>1. CASE p = [rows |-> S, more |-> FALSE]
  BY <1>1
<1>2. ASSUME NEW P \in FirstOf(S, limit), NEW x \in S \ P,
             p = [rows |-> Cut(P, CreatedAt(x)), more |-> TRUE]
      PROVE  p.rows \subseteq S /\ p.more /\ p.rows # {}
  <2>1. P \subseteq S /\ Cardinality(P) = limit
    BY DEF FirstOf, kSubset
  <2>2. P # {}
    BY <2>1, FS_EmptySet
  <2>3. Cut(P, CreatedAt(x)) \subseteq P /\ Cut(P, CreatedAt(x)) # {}
    BY <2>2 DEF Cut
  <2> QED
    BY <1>2, <2>1, <2>3
<1>3. \/ p = [rows |-> S, more |-> FALSE]
      \/ \E P \in FirstOf(S, limit) : \E x \in S \ P :
           p = [rows |-> Cut(P, CreatedAt(x)), more |-> TRUE]
  BY DEF Pages
<1> QED
  BY <1>1, <1>2, <1>3

\* When the rows of one time fit on a page, what is left out of a page is below it.
LEMMA PageWhole ==
    ASSUME HistoryTypeOK, NEW before, NEW limit \in Nat, limit > 0, NEW p \in Pages(before, limit),
           \A x \in Times : Cardinality({m \in Saved : CreatedAt(m) = x}) <= limit,
           NEW m \in Below(before), m \notin p.rows
    PROVE  p.more /\ \A n \in p.rows : CreatedAt(m) < CreatedAt(n)
<1> DEFINE S == Below(before)
<1>0. S \subseteq Saved /\ \A n \in S : CreatedAt(n) \in Nat /\ CreatedAt(n) \in Times
  BY TimeType DEF Below, Visible
<1>1. CASE p = [rows |-> S, more |-> FALSE]
  BY <1>1
<1>2. ASSUME NEW P \in FirstOf(S, limit), NEW x \in S \ P, \A n \in S \ P : ~Precedes(n, x),
             p = [rows |-> Cut(P, CreatedAt(x)), more |-> TRUE]
      PROVE  p.more /\ \A n \in p.rows : CreatedAt(m) < CreatedAt(n)
  <2> DEFINE kept == {n \in P : CreatedAt(n) # CreatedAt(x)}
  <2>1. P \subseteq S /\ Cardinality(P) = limit /\ \A n \in P : CreatedAt(x) <= CreatedAt(n)
    BY <1>0 DEF FirstOf, kSubset, Precedes
  <2>2. \A n \in S \ P : CreatedAt(n) <= CreatedAt(x)
    BY <1>0, <1>2 DEF Precedes
  <2>3. kept # {}
    <3> SUFFICES ASSUME kept = {} PROVE FALSE
      OBVIOUS
    <3> DEFINE G == {n \in Saved : CreatedAt(n) = CreatedAt(x)}
    <3>1. P \cup {x} \subseteq G
      BY <1>0, <2>1
    <3>2. IsFiniteSet(G) /\ IsFiniteSet(P)
      BY <1>0, <2>1, SavedFinite, FS_Subset
    <3>3. Cardinality(P \cup {x}) = limit + 1
      BY <2>1, <3>2, FS_AddElement
    <3>4. Cardinality(P \cup {x}) <= Cardinality(G)
      BY <3>1, <3>2, FS_Subset
    <3>5. Cardinality(G) <= limit /\ Cardinality(G) \in Nat
      BY <1>0, <3>2, FS_CardinalityType
    <3> QED
      BY <3>3, <3>4, <3>5
  <2>4. p.rows = kept /\ p.more
    BY <1>2, <2>3 DEF Cut
  <2>5. \A n \in kept : CreatedAt(n) > CreatedAt(x)
    BY <1>0, <2>1
  <2>6. CreatedAt(m) <= CreatedAt(x)
    BY <1>0, <2>2, <2>4
  <2> QED
    BY <1>0, <2>1, <2>4, <2>5, <2>6
<1>3. \/ p = [rows |-> S, more |-> FALSE]
      \/ \E P \in FirstOf(S, limit) : \E x \in S \ P :
           /\ \A n \in S \ P : ~Precedes(n, x)
           /\ p = [rows |-> Cut(P, CreatedAt(x)), more |-> TRUE]
  BY DEF Pages
<1> QED
  BY <1>1, <1>2, <1>3

-----------------------------------------------------------------------------
(* Steps.                                                                  *)

\* What a page does to the scroll.
Turned(p) == [scroll EXCEPT
    !.st = IF p.more THEN "loading" ELSE "root",
    !.before = IF p.rows = {} THEN @ ELSE Min({CreatedAt(m) : m \in p.rows}),
    !.seen = @ \cup p.rows]

LEMMA PageTurned ==
    ASSUME Base, scroll.st = "loading", NEW p \in Pages(scroll.before, scroll.limit),
           scroll' = Turned(p)
    PROVE  /\ p.rows \subseteq Below(scroll.before) /\ p.rows \subseteq Saved
           /\ p.more \in BOOLEAN /\ scroll \in Scrolls /\ scroll' \in Scrolls
           /\ scroll'.st = IF p.more THEN "loading" ELSE "root"
           /\ scroll'.limit = scroll.limit /\ scroll'.due = scroll.due
           /\ scroll'.seen = scroll.seen \cup p.rows
           /\ scroll'.before \in Int
           /\ scroll.before \in Int /\ scroll'.before <= scroll.before
           /\ \A m \in p.rows : CreatedAt(m) \in Int /\ CreatedAt(m) >= scroll'.before
           /\ p.rows # {} => \E m \in p.rows : CreatedAt(m) = scroll'.before
<1>1. /\ scroll \in Scrolls /\ scroll.limit \in Nat /\ scroll.limit > 0
      /\ scroll.before \in 0..NoCursor
  BY DEF Base, HistoryTypeOK, ScrollOK, Scrolls
<1>2. p.rows \subseteq Below(scroll.before) /\ p.more \in BOOLEAN
  BY <1>1, PageRows DEF Base
<1>3. /\ p.rows \subseteq Saved
      /\ \A m \in p.rows : CreatedAt(m) \in Times /\ CreatedAt(m) \in Nat /\ CreatedAt(m) < scroll.before
  BY <1>2, TimeType DEF Base, Below, Visible
<1> DEFINE T == {CreatedAt(m) : m \in p.rows}
           b == IF p.rows = {} THEN scroll.before ELSE Min(T)
           st == IF p.more THEN "loading" ELSE "root"
<1>4. p.rows # {} => Min(T) \in T /\ \A x \in T : Min(T) <= x
  <2>1. T \in SUBSET Nat
    BY <1>3
  <2>2. p.rows # {} => T # {}
    OBVIOUS
  <2> HIDE DEF T
  <2> QED
    BY <2>1, <2>2, Smallest
<1>5. /\ b \in 0..NoCursor /\ b <= scroll.before
      /\ \A m \in p.rows : CreatedAt(m) >= b
      /\ p.rows # {} => \E m \in p.rows : CreatedAt(m) = b
  <2>1. CASE p.rows = {}
    BY <1>1, <2>1
  <2>2. CASE p.rows # {}
    <3>1. b = Min(T)
      BY <2>2
    <3>2. PICK m \in p.rows : Min(T) = CreatedAt(m)
      BY <1>4, <2>2
    <3>3. \A n \in p.rows : b <= CreatedAt(n)
      BY <1>4, <2>2, <3>1
    <3> HIDE DEF b, T
    <3>4. b \in 0..NoCursor /\ b <= scroll.before
      BY <1>1, <1>3, <3>1, <3>2, HistoryAssumption DEF Times, NoCursor
    <3> QED
      BY <1>3, <3>1, <3>2, <3>3, <3>4
  <2> QED
    BY <2>1, <2>2
<1>6. scroll' = [scroll EXCEPT !.st = st, !.before = b, !.seen = scroll.seen \cup p.rows]
  BY DEF Turned
<1>7. st \in {"loading", "root"} /\ scroll.seen \cup p.rows \subseteq Messages
  BY <1>1, <1>3 DEF Scrolls, Saved
<1> HIDE DEF b, st, T
<1>8. /\ scroll'.st = st /\ scroll'.before = b /\ scroll'.seen = scroll.seen \cup p.rows
      /\ scroll'.limit = scroll.limit /\ scroll'.due = scroll.due /\ scroll' \in Scrolls
  BY <1>1, <1>5, <1>6, <1>7 DEF Scrolls
<1> QED
  BY <1>1, <1>2, <1>3, <1>5, <1>8 DEF st

LEMMA BaseInit == HistoryInit => Base
<1> SUFFICES ASSUME HistoryInit PROVE Base
  OBVIOUS
<1>1. NoScroll \in Scrolls /\ NoScroll.st = "idle" /\ NoScroll.due = {} /\ NoScroll.seen = {}
      /\ NoScroll.limit = 0
  BY HistoryAssumption DEF NoScroll, Scrolls, NoCursor
<1>2. HistoryTypeOK
  BY <1>1, HistoryAssumption DEF HistoryInit, HistoryTypeOK, Times
<1> QED
  BY <1>1, <1>2 DEF Base, Begun, ScrollOK, HistoryInit

LEMMA BaseNext == ASSUME Base, [HistoryNext]_historyVars PROVE Base'
<1>1. Saved \subseteq Saved' /\ \A m \in Saved : CreatedAt(m)' = CreatedAt(m)
  BY SavedKept
<1>2. ASSUME scroll' = scroll PROVE ScrollOK'
  BY <1>1, <1>2 DEF Base, ScrollOK
<1>3. CASE BeginTurn
  <2>1. /\ begun < MaxTurns /\ begun' = begun + 1 /\ clock' \in {clock, clock + 1}
        /\ at' = [at EXCEPT ![begun + 1] = clock']
        /\ turn' = [turn EXCEPT ![begun + 1] = "open"]
        /\ hidden' = hidden /\ scroll' = scroll /\ begun \in Nat
    BY <1>3 DEF BeginTurn, Base, HistoryTypeOK
  <2>2. begun' \in 0..MaxTurns /\ begun + 1 \in Turns
    BY <2>1, HistoryAssumption DEF Turns
  <2>3. turn' \in [Turns -> {"none", "open", "saved", "failed"}]
    BY <2>1 DEF Base, HistoryTypeOK
  <2>4. \A t \in Turns : t > begun' => turn'[t] = "none"
    BY <2>1, <2>2 DEF Base, HistoryTypeOK, Begun, Turns
  <2>5. clock' \in Times /\ clock' <= begun'
    BY <2>1, HistoryAssumption DEF Base, HistoryTypeOK, Begun, Times
  <2>6. at' \in [Turns -> Times]
    BY <2>1, <2>2, <2>5 DEF Base, HistoryTypeOK
  <2> QED
    BY <1>2, <2>1, <2>2, <2>3, <2>4, <2>5, <2>6 DEF Base, HistoryTypeOK, Begun
<1>4. ASSUME NEW t \in Turns, EndTurn(t) PROVE Base'
  <2>1. /\ turn[t] = "open" /\ UNCHANGED <<begun, clock, at, hidden, scroll>>
        /\ \E e \in {"saved", "failed"} : turn' = [turn EXCEPT ![t] = e]
    BY <1>4 DEF EndTurn
  <2>2. HistoryTypeOK'
    BY <2>1 DEF Base, HistoryTypeOK
  <2>3. Begun'
    BY <2>1 DEF Base, HistoryTypeOK, Begun
  <2> QED
    BY <1>2, <2>1, <2>2, <2>3 DEF Base
<1>5. ASSUME NEW m \in Messages, SoftDelete(m) PROVE Base'
  BY <1>2, <1>5 DEF SoftDelete, Base, HistoryTypeOK, Begun
<1>6. CASE OpenChat
  <2>1. PICK l \in Limits :
          scroll' = [NoScroll EXCEPT !.st = "loading", !.limit = l, !.due = Visible]
    BY <1>6 DEF OpenChat
  <2>2. UNCHANGED <<begun, clock, at, turn, hidden>>
    BY <1>6 DEF OpenChat
  <2>3. /\ scroll'.st = "loading" /\ scroll'.limit = l /\ scroll'.due = Visible
        /\ scroll'.before = NoCursor /\ scroll'.seen = {} /\ l \in Nat /\ l > 0
    BY <2>1, HistoryAssumption DEF NoScroll
  <2>4. NoScroll \in Scrolls /\ Visible \subseteq Messages
    BY HistoryAssumption DEF NoScroll, Scrolls, NoCursor, Visible, Saved
  <2>5. scroll' \in Scrolls
    BY <2>1, <2>3, <2>4 DEF Scrolls
  <2>6. ScrollOK'
    BY <1>1, <2>3 DEF ScrollOK, Visible
  <2> QED
    BY <2>2, <2>5, <2>6 DEF Base, HistoryTypeOK, Begun
<1>7. CASE GetHistory
  <2>1. PICK p \in Pages(scroll.before, scroll.limit) : scroll' = Turned(p)
    BY <1>7 DEF GetHistory, Turned
  <2>2. scroll.st = "loading" /\ UNCHANGED <<begun, clock, at, turn, hidden>>
    BY <1>7 DEF GetHistory
  <2>3. /\ scroll' \in Scrolls /\ p.rows \subseteq Saved
        /\ scroll'.limit = scroll.limit /\ scroll'.due = scroll.due
        /\ scroll'.seen = scroll.seen \cup p.rows
        /\ scroll'.before \in Int /\ scroll.before \in Int /\ scroll'.before <= scroll.before
        /\ \A m \in p.rows : CreatedAt(m) >= scroll'.before
    BY <2>1, <2>2, PageTurned
  <2>4. \A m \in Saved : CreatedAt(m) \in Nat
    BY TimeType DEF Base
  <2>5. \A m \in scroll'.seen : CreatedAt(m) >= scroll'.before
    BY <2>3, <2>4 DEF Base, ScrollOK
  <2>6. scroll'.limit \in Nat /\ scroll'.limit > 0 /\ scroll'.due \subseteq Saved
        /\ scroll'.seen \subseteq Saved
    BY <2>2, <2>3 DEF Base, ScrollOK
  <2>7. ScrollOK'
    BY <1>1, <2>2, <2>5, <2>6 DEF ScrollOK
  <2> QED
    BY <2>2, <2>3, <2>7 DEF Base, HistoryTypeOK, Begun
<1>8. CASE UNCHANGED historyVars
  BY <1>2, <1>8 DEF historyVars, Base, HistoryTypeOK, Begun
<1> QED
  BY <1>3, <1>4, <1>5, <1>6, <1>7, <1>8 DEF HistoryNext

\* The rows of one time still fit if they fit after the step.
LEMMA GroupsFitted ==
    ASSUME Base, [HistoryNext]_historyVars, scroll'.limit = scroll.limit, GroupsFit' PROVE GroupsFit
<1> SUFFICES ASSUME NEW x \in Times
             PROVE  Cardinality({m \in Saved : CreatedAt(m) = x}) <= scroll.limit
  BY DEF GroupsFit
<1> DEFINE G == {m \in Saved : CreatedAt(m) = x}
           H == {m \in Saved' : CreatedAt(m)' = x}
<1>1. G \in SUBSET H
  BY SavedKept
<1>2. IsFiniteSet(Messages) /\ H \subseteq Messages
  BY SavedFinite DEF Saved
<1>3. IsFiniteSet(H)
  BY <1>2, FS_Subset
<1>4. IsFiniteSet(G) /\ Cardinality(G) <= Cardinality(H)
  BY <1>1, <1>3, FS_Subset
<1>5. Cardinality(H) <= scroll.limit
  BY DEF GroupsFit
<1>6. Cardinality(G) \in Nat /\ Cardinality(H) \in Nat /\ scroll.limit \in Nat
  BY <1>3, <1>4, FS_CardinalityType DEF Base, ScrollOK
<1> QED
  BY <1>4, <1>5, <1>6

LEMMA NothingNext == ASSUME Base, NothingSkipped, [HistoryNext]_historyVars PROVE NothingSkipped'
<1>1. Saved \subseteq Saved' /\ \A m \in Saved : CreatedAt(m)' = CreatedAt(m)
  BY SavedKept
<1>2. hidden \subseteq hidden'
  BY DEF HistoryNext, BeginTurn, OpenChat, GetHistory, EndTurn, SoftDelete, historyVars
<1>3. CASE scroll' = scroll
  <2>1. GroupsFit' => GroupsFit
    BY <1>3, GroupsFitted
  <2> QED
    BY <1>1, <1>2, <1>3, <2>1 DEF NothingSkipped, Base, ScrollOK
<1>4. CASE OpenChat
  <2>1. scroll'.st = "loading" /\ scroll'.before = NoCursor /\ scroll'.due = Visible
    BY <1>4 DEF OpenChat, NoScroll
  <2>2. \A m \in Visible : CreatedAt(m)' < NoCursor
    BY <1>1, TimeType, HistoryAssumption DEF Base, Visible, Times, NoCursor
  <2>3. \A m \in Visible : CreatedAt(m)' \in Nat /\ NoCursor \in Nat
    BY <1>1, TimeType, HistoryAssumption DEF Base, Visible, NoCursor
  <2> QED
    BY <2>1, <2>2, <2>3 DEF NothingSkipped
<1>5. CASE GetHistory
  <2>1. PICK p \in Pages(scroll.before, scroll.limit) : scroll' = Turned(p)
    BY <1>5 DEF GetHistory, Turned
  <2>2. scroll.st = "loading" /\ UNCHANGED <<begun, clock, at, turn, hidden>>
    BY <1>5 DEF GetHistory
  <2>3. /\ scroll'.st = (IF p.more THEN "loading" ELSE "root")
        /\ scroll'.limit = scroll.limit /\ scroll'.due = scroll.due
        /\ scroll'.seen = scroll.seen \cup p.rows
        /\ scroll.before \in Int /\ scroll'.before \in Int
        /\ p.rows # {} => \E m \in p.rows : CreatedAt(m) = scroll'.before
    BY <2>1, <2>2, PageTurned
  <2> SUFFICES ASSUME GroupsFit', NEW m \in scroll'.due \ hidden',
                      scroll'.st = "root" \/ CreatedAt(m)' >= scroll'.before
               PROVE  m \in scroll'.seen
    BY DEF NothingSkipped
  <2>4. GroupsFit /\ m \in scroll.due \ hidden /\ m \in Saved /\ CreatedAt(m)' = CreatedAt(m)
        /\ CreatedAt(m) \in Nat
    BY <1>1, <2>2, <2>3, GroupsFitted, TimeType DEF Base, ScrollOK
  <2>5. CASE CreatedAt(m) >= scroll.before
    BY <2>3, <2>4, <2>5 DEF NothingSkipped
  <2>6. CASE CreatedAt(m) < scroll.before
    <3>1. m \in Below(scroll.before)
      BY <2>4, <2>6 DEF Below, Visible
    <3>2. SUFFICES ASSUME m \notin p.rows PROVE FALSE
      BY <2>3
    <3>3. scroll.limit \in Nat /\ scroll.limit > 0
      BY <2>2 DEF Base, ScrollOK
    <3>4. p.more /\ \A n \in p.rows : CreatedAt(m) < CreatedAt(n)
      BY <2>4, <3>1, <3>2, <3>3, PageWhole DEF Base, GroupsFit
    <3>5. p.rows # {}
      BY <3>3, <3>4, PageRows DEF Base
    <3>6. CreatedAt(m) < scroll'.before /\ scroll'.st = "loading"
      BY <2>3, <3>4, <3>5
    <3> QED
      BY <2>3, <2>4, <3>6
  <2> QED
    BY <2>3, <2>4, <2>5, <2>6
<1> QED
  BY <1>3, <1>4, <1>5 DEF HistoryNext, BeginTurn, EndTurn, SoftDelete, historyVars

-----------------------------------------------------------------------------
(* Theorems.                                                               *)

\* The inductive invariant: a page shows what was saved, down to the cursor.
THEOREM Invariant == HistorySpec => []Base
<1>1. HistoryInit => Base
  BY BaseInit
<1>2. Base /\ [HistoryNext]_historyVars => Base'
  BY BaseNext
<1> QED
  BY <1>1, <1>2, PTL DEF HistorySpec

\* Every variable keeps the shape of its table or record, however pages are cut.
THEOREM TypeCorrect == HistorySpec => []HistoryTypeOK
<1>1. Base => HistoryTypeOK
  BY DEF Base
<1> QED
  BY <1>1, Invariant, PTL

\* GetHistory loses no message between two pages: as long as the rows of one time
\* fit on a page, all that stays visible is shown down to the cursor, whatever is
\* saved or hidden meanwhile.
THEOREM NothingLost == HistorySpec => []NothingSkipped
<1>1. HistoryInit => NothingSkipped
  BY DEF HistoryInit, NoScroll, NothingSkipped
<1>2. Base /\ NothingSkipped /\ [HistoryNext]_historyVars => NothingSkipped'
  BY NothingNext
<1> QED
  BY <1>1, <1>2, Invariant, PTL DEF HistorySpec

\* A page never shows again, nor anything newer than, what a page before it showed.
THEOREM NeverForward == HistorySpec => PagesGoBack
<1> DEFINE Older == scroll.st = "loading" /\ scroll'.seen # scroll.seen
             => \A m \in scroll'.seen \ scroll.seen, n \in scroll.seen : CreatedAt(m) < CreatedAt(n)
<1>1. ASSUME Base, [HistoryNext]_historyVars, scroll.st = "loading", scroll'.seen # scroll.seen,
             NEW m \in scroll'.seen \ scroll.seen, NEW n \in scroll.seen
      PROVE  CreatedAt(m) < CreatedAt(n)
  <2>1. GetHistory
    BY <1>1 DEF HistoryNext, BeginTurn, OpenChat, EndTurn, SoftDelete, historyVars
  <2>2. PICK p \in Pages(scroll.before, scroll.limit) : scroll' = Turned(p)
    BY <2>1 DEF GetHistory, Turned
  <2>3. m \in p.rows /\ p.rows \subseteq Below(scroll.before) /\ scroll.before \in Int
    BY <1>1, <2>2, PageTurned
  <2>4. CreatedAt(m) < scroll.before /\ m \in Saved
    BY <2>3 DEF Below, Visible
  <2>5. CreatedAt(n) >= scroll.before /\ n \in Saved
    BY <1>1 DEF Base, ScrollOK
  <2> QED
    BY <1>1, <2>3, <2>4, <2>5, TimeType DEF Base
<1>2. Base /\ [HistoryNext]_historyVars => [Older]_historyVars
  BY <1>1
<1> QED
  BY <1>2, Invariant, PTL DEF HistorySpec, PagesGoBack

-----------------------------------------------------------------------------
(* The prompt's history.                                                   *)

Roles == {"user", "assistant"}

LEMMA TwoEach ==
    ASSUME NEW S, IsFiniteSet(S)
    PROVE  /\ IsFiniteSet(S \X Roles)
           /\ Cardinality(S) \in Nat /\ Cardinality(S \X Roles) = 2 * Cardinality(S)
<1>1. Roles = {"user"} \cup {"assistant"}
  BY DEF Roles
<1>2. IsFiniteSet({"user"}) /\ Cardinality({"user"}) = 1
  BY FS_Singleton
<1>3. IsFiniteSet(Roles) /\ Cardinality(Roles) = 2
  BY <1>1, <1>2, FS_AddElement
<1>4. IsFiniteSet(S \X Roles) /\ Cardinality(S \X Roles) = Cardinality(S) * Cardinality(Roles)
  BY <1>3, FS_Product
<1>5. Cardinality(S) \in Nat
  BY FS_CardinalityType
<1> QED
  BY <1>3, <1>4, <1>5

\* The latest messages, an even number of them, are whole turns: above a turn that was
\* cut in two there are whole turns only.
LEMMA WholeTurns ==
    ASSUME HistoryTypeOK, TurnsDiffer, PromptLimit % 2 = 0,
           NEW P \in loadHistory, NEW m \in P, NEW n \in Saved, n[1] = m[1]
    PROVE  n \in P
<1> SUFFICES ASSUME n \notin P PROVE FALSE
  OBVIOUS
<1> DEFINE T == {t \in Turns : turn[t] = "saved"}
           L == {t \in T : at[t] > at[m[1]]}
           c == Cardinality(Saved)
           k == Min({PromptLimit, c})
<1>1. Saved = T \X Roles
  BY DEF Saved, Messages, Roles
<1>2. IsFiniteSet(T) /\ IsFiniteSet(L)
  <2>1. IsFiniteSet(Turns)
    BY HistoryAssumption, FS_Interval DEF Turns
  <2> QED
    BY <2>1, FS_Subset
<1>3. c \in Nat /\ c % 2 = 0
  <2>1. Cardinality(T) \in Nat /\ c = 2 * Cardinality(T)
    BY <1>1, <1>2, TwoEach
  <2> HIDE DEF c, T
  <2> QED
    BY <2>1
<1>4. k \in Nat /\ k % 2 = 0
  <2> HIDE DEF c
  <2>1. {PromptLimit, c} \in SUBSET Nat /\ {PromptLimit, c} # {}
    BY <1>3, HistoryAssumption
  <2>2. k \in {PromptLimit, c}
    BY <2>1, Smallest
  <2> QED
    BY <1>3, <2>2, HistoryAssumption
<1>5. /\ P \subseteq Saved /\ Cardinality(P) = k
      /\ \A x \in Saved \ P, q \in P : CreatedAt(x) <= CreatedAt(q)
  BY DEF loadHistory, Latest, kSubset
<1> HIDE DEF k, c
<1>6. \A t \in T : at[t] \in Nat
  BY HistoryAssumption DEF HistoryTypeOK, Times
<1>7. m[1] \in T /\ m \in T \X Roles /\ n \in T \X Roles
  BY <1>1, <1>5
<1>8. P \ {m} = L \X Roles
  <2>1. ASSUME NEW q \in P, q # m PROVE q \in L \X Roles
    <3>1. q \in T \X Roles
      BY <1>1, <1>5
    <3>2. q[1] # m[1]
      BY <1>7, <2>1, <3>1 DEF Roles
    <3>3. at[q[1]] # at[m[1]]
      BY <1>7, <3>1, <3>2 DEF TurnsDiffer
    <3>4. at[n[1]] <= at[q[1]]
      BY <1>5 DEF CreatedAt
    <3>5. at[q[1]] > at[m[1]]
      BY <1>6, <1>7, <3>1, <3>3, <3>4
    <3> QED
      BY <3>1, <3>5
  <2>2. ASSUME NEW q \in L \X Roles PROVE q \in P /\ q # m
    <3>1. q[1] \in T /\ q \in Saved /\ at[q[1]] > at[m[1]]
      BY <1>1, <2>2
    <3>2. ~(CreatedAt(q) <= CreatedAt(m))
      BY <1>6, <1>7, <3>1 DEF CreatedAt
    <3> QED
      BY <1>5, <1>6, <1>7, <3>1, <3>2
  <2> QED
    BY <2>1, <2>2
<1>9. Cardinality(L) \in Nat /\ Cardinality(P \ {m}) = 2 * Cardinality(L)
  BY <1>2, <1>8, TwoEach
<1>10. IsFiniteSet(P)
  BY <1>5, SavedFinite, FS_Subset
<1>11. Cardinality(P \ {m}) = k - 1
  BY <1>5, <1>10, FS_RemoveElement
<1> DEFINE l == Cardinality(L)
<1>12. l \in Nat /\ k = 2 * l + 1
  BY <1>4, <1>9, <1>11
<1> HIDE DEF l
<1> QED
  BY <1>4, <1>12

\* Build never sends the model half a turn, for any even limit, however much the user
\* has hidden.
THEOREM PromptWhole == HistorySpec => []PromptKeepsTurns
<1>1. HistoryTypeOK => PromptKeepsTurns
  BY WholeTurns DEF PromptKeepsTurns
<1> QED
  BY <1>1, TypeCorrect, PTL
=============================================================================
