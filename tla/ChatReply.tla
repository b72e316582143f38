------------------------------ MODULE ChatReply ------------------------------
(***************************************************************************)
(* ChatStream with the text of the reply, for what finishStream offers the *)
(* client and what GetHistory tells of the turn later.                     *)
(*                                                                         *)
(* The model writes prose and tokens, one to a piece, and may be cut off   *)
(* by its limit of tokens within the last piece.  What it wrote is chosen  *)
(* where it is first looked at, when the writer receives the final text.   *)
(***************************************************************************)
EXTENDS ChatStream, ReplyTokens

VARIABLES
    pieces,         \* what the final text is put together from
    frames          \* the payloads of match_log and match_prep handed over

allVars == <<vars, pieces, frames>>

Beginnings == (UNION {Prefixes(p) : p \in Wholes}) \ (Wholes \cup {<<>>})

Text == FlattenSeq(pieces)

ReplyInit == Init /\ pieces = <<>> /\ frames = <<>>

-----------------------------------------------------------------------------

ReceiveText ==
    /\ ReceiveFinal
    /\ \E last \in Wholes \cup Beginnings, before \in [1..(said - 1) -> Wholes] :
         pieces' = IF said = 0 THEN <<>> ELSE Append(before, last)
    /\ UNCHANGED frames

\* The two frames, each if the text has such a token.
SendFrames ==
    /\ SendPrefills
    /\ frames' = IF pipe = "closed" THEN <<>>
                 ELSE FrameOf(ParseMatchLogToken(Text)) \o FrameOf(ParseMatchPrepToken(Text))
    /\ offered' = (frames' # <<>>)
    /\ UNCHANGED pieces

TextProduce == Produce /\ UNCHANGED <<pieces, frames>>

TextWrite ==
    \/ ReceiveText \/ SendFrames
    \/ /\ Build \/ ReceiveChunk \/ WriteChunk \/ ReceiveError
          \/ ErrsClosed \/ ChunksClosed \/ SaveTurn \/ SendDone
       /\ UNCHANGED <<pieces, frames>>

TextPipeCloses == PipeCloses /\ UNCHANGED <<pieces, frames>>

TextNext == TextProduce \/ TextWrite \/ TextPipeCloses

\* The fairness of ChatStream; what the model writes holds nobody up.
FairTextSpec == ReplyInit /\ [][TextNext]_allVars /\ WF_vars(Produce) /\ WF_vars(Write)

-----------------------------------------------------------------------------
(* Properties.                                                             *)

\* The frames open what the user means now: the first match log and the last
\* preparation that is to be made or changed (match_prep.go:41), whatever braces its
\* notes hold; and the history tells prose, with every whole token taken out and the
\* references kept.  A note of a match log has no "}" (match_log.go:22), and only the
\* last token of a reply may be unfinished.
RepliesReadBack == wp = "done" /\ pieces # <<>> =>
    /\ pipe = "open" =>
         frames = FrameOf(MeantLog(pieces)) \o FrameOf(MeantPrep(pieces))
    /\ kept => /\ CleanContent(Text) = FlattenSeq([i \in DOMAIN pieces |-> ProseOf(pieces[i])])
               /\ ParseLessonRefs(Text) = MeantRefs(pieces)
=============================================================================
