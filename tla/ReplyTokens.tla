----------------------------- MODULE ReplyTokens -----------------------------
(***************************************************************************)
(* The tokens in a reply of the model and the functions that read them:    *)
(* lesson references, match logs and match preparations.                   *)
(*                                                                         *)
(* A text is a sequence of symbols: the openings "[REF:", "[LOG:" and      *)
(* "[PREP:", the characters that the parsers look at, braces and quotes by *)
(* name, and words for all that is between them.  White space is left out. *)
(***************************************************************************)
EXTENDS Integers, Sequences, SequencesExt

None == <<>>

\* The place of the first symbol s of text from place i on, or 0.
Index(text, s, i) == SelectInSubSeq(text, i, Len(text), LAMBDA x : x = s)

At(text, i) == IF i \in DOMAIN text THEN text[i] ELSE "end"

-----------------------------------------------------------------------------
(* Match preparations: a scan that counts braces.                          *)

\* Before the first character.
Scanned == [depth |-> 0, inString |-> FALSE, escaped |-> FALSE, close |-> 0]

\* A character in a string.
ScanString(s, ch) ==
    IF s.escaped THEN [s EXCEPT !.escaped = FALSE]
    ELSE [s EXCEPT !.escaped = (ch = "\\"), !.inString = (ch # "quote")]

\* Character ch, at place i, outside of strings.
ScanBrace(s, ch, i) ==
    CASE ch = "quote" -> [s EXCEPT !.inString = TRUE]
      [] ch = "lbrace" -> [s EXCEPT !.depth = @ + 1]
      [] ch = "rbrace" -> [s EXCEPT !.depth = @ - 1, !.close = IF s.depth = 1 THEN i ELSE 0]
      [] OTHER -> s

\* Mutant: braces in strings count.
balancedAll(text, open) ==
    LET Step(s, i) == IF i < open \/ s.close > 0 THEN s ELSE ScanBrace(s, text[i], i)
    IN FoldLeftDomain(Step, Scanned, text).close

\* The place of the "}" for the "{" at place open, or 0; those in strings do not count.
balancedBraces(text, open) ==
    LET Step(s, i) ==
            IF i < open \/ s.close > 0 THEN s
            ELSE IF s.inString THEN ScanString(s, text[i]) ELSE ScanBrace(s, text[i], i)
    IN FoldLeftDomain(Step, Scanned, text).close

\* The braces of the first token from place from on; a place is 0 if there is none.
findMatchPrepPayloadFrom(text, from) ==
    LET start == Index(text, "[PREP:", from)
        open  == IF start = 0 THEN 0 ELSE Index(text, "lbrace", start)
        close == IF open = 0 THEN 0 ELSE balancedBraces(text, open)
    IN [start |-> start, open |-> open, close |-> close]

\* json.Unmarshal, and the mode it must find.
ValidPrep(payload) == Len(payload) > 2 /\ payload[2] \in {"adjust", "create"}

\* The last payload that is valid.  The loop ends when a token is not found; each turn
\* of it before that moves the cursor on.
ParseMatchPrepToken(text) ==
    LET Turn(s, x) ==
            LET p == findMatchPrepPayloadFrom(text, s.cursor)
                raw == SubSeq(text, p.open, p.close)
            IN IF p.close = 0 THEN s
               ELSE [cursor |-> p.close + 1, last |-> IF ValidPrep(raw) THEN raw ELSE s.last]
    IN FoldLeft(Turn, [cursor |-> 1, last |-> None], text).last

RemoveMatchPrep(text) ==
    LET p == findMatchPrepPayloadFrom(text, 1)
        end == IF p.close = 0 THEN 0 ELSE Index(text, "]", p.close)
    IN IF end = 0 THEN text
       ELSE SubSeq(text, 1, p.start - 1) \o SubSeq(text, end + 1, Len(text))

\* The loop ends when a token is not found or not closed; each turn of it before that
\* takes some of the text away.
CleanMatchPrepTokens(text) == FoldLeft(LAMBDA t, x : RemoveMatchPrep(t), text, text)

-----------------------------------------------------------------------------
(* Lesson references and match logs: regular expressions.                  *)

\* The length of what lessonRefRegex matches at place i: an id and a title.
lessonRefRegex(text, i) ==
    IF /\ At(text, i) = "[REF:" /\ At(text, i + 2) = "|" /\ At(text, i + 3) = "quote"
       /\ At(text, i + 5) = "quote" /\ At(text, i + 6) = "]"
    THEN 7 ELSE 0

\* Of matchLogRegex: the first "}" ends the object, and "]" must follow.
matchLogRegex(text, i) ==
    LET close == Index(text, "rbrace", i)
    IN IF /\ At(text, i) = "[LOG:" /\ At(text, i + 1) = "lbrace"
          /\ close > i + 2 /\ At(text, close + 1) = "]"
       THEN close + 2 - i ELSE 0

\* text with instead[i] for what a regular expression matches at place i, length[i] symbols.
ReplaceMatches(text, length, instead) ==
    LET Step(p, i) ==
            IF i < p.next THEN p
            ELSE IF length[i] = 0 THEN [out |-> Append(p.out, text[i]), next |-> i + 1]
            ELSE [out |-> p.out \o instead[i], next |-> i + length[i]]
    IN FoldLeftDomain(Step, [out |-> <<>>, next |-> 1], text).out

\* The first match, without the opening and "]".
ParseMatchLogToken(text) ==
    LET places == {i \in DOMAIN text : matchLogRegex(text, i) > 0} IN
    IF places = {} THEN None
    ELSE LET i == Min(places) IN SubSeq(text, i + 1, i + matchLogRegex(text, i) - 2)

ParseLessonRefs(text) ==
    FoldLeftDomain(LAMBDA refs, i :
        IF lessonRefRegex(text, i) = 0 THEN refs ELSE Append(refs, <<text[i + 1], text[i + 4]>>),
        <<>>, text)

\* A reference leaves its title.
CleanContent(text) ==
    LET titled == ReplaceMatches(text, [i \in DOMAIN text |-> lessonRefRegex(text, i)],
                                 [i \in DOMAIN text |-> <<At(text, i + 4)>>])
        unlogged == ReplaceMatches(titled, [i \in DOMAIN titled |-> matchLogRegex(titled, i)],
                                   [i \in DOMAIN titled |-> <<>>])
    IN CleanMatchPrepTokens(unlogged)

-----------------------------------------------------------------------------
(* What the model means by a reply: its pieces, each written in symbols.   *)

Prose == {<<"lbrace", "quote">>, <<"word", "]">>}
Refs == {<<"[REF:", "id", "|", "quote", "title", "quote", "]">>}
Logs == {<<"[LOG:", "lbrace", r, "rbrace", "]">> : r \in {"won", "lost"}}

\* An object has its mode first; then, a brace in a string, an escaped quote before one,
\* and an object in the object.
Preps == {
    <<"[PREP:", "lbrace", "adjust", "rbrace", "]">>,
    <<"[PREP:", "lbrace", "create", "quote", "rbrace", "quote", "rbrace", "]">>,
    <<"[PREP:", "lbrace", "create", "quote", "\\", "quote", "lbrace", "quote",
      "lbrace", "word", "rbrace", "rbrace", "]">>,
    <<"[PREP:", "lbrace", "edit", "rbrace", "]">>}

Wholes == Prose \cup Refs \cup Logs \cup Preps

\* A token that the limit cut off before its "]" alone has its payload.
WithPayload(piece) == IF piece \in Wholes THEN piece ELSE Append(piece, "]")
Payload(token) == SubSeq(token, 2, Len(token) - 1)

\* The first match log, the last preparation to create or adjust.
MeantLog(pieces) ==
    LET logs == {n \in DOMAIN pieces : pieces[n] \in Logs}
    IN IF logs = {} THEN None ELSE Payload(pieces[Min(logs)])
MeantPrep(pieces) ==
    LET preps == {n \in DOMAIN pieces :
                    WithPayload(pieces[n]) \in Preps /\ WithPayload(pieces[n])[3] # "edit"}
    IN IF preps = {} THEN None ELSE Payload(WithPayload(pieces[Max(preps)]))
MeantRefs(pieces) ==
    FlattenSeq([n \in DOMAIN pieces |->
        IF pieces[n] \in Refs THEN <<<<pieces[n][2], pieces[n][5]>>>> ELSE <<>>])

\* The payload, if there is one, as the frame that hands it over.
FrameOf(payload) == IF payload = None THEN <<>> ELSE <<payload>>

\* What is read of a piece: of tokens only the title of a reference.
ProseOf(piece) ==
    IF piece \in Refs THEN <<piece[5]>> ELSE IF piece \in Logs \cup Preps THEN <<>> ELSE piece
=============================================================================
