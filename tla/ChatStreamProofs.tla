-------------------------- MODULE ChatStreamProofs --------------------------
(***************************************************************************)
(* Proofs about ChatStream and ChatReply, for replies of any length.       *)
(*                                                                         *)
(* ChatStream: an inductive invariant relates where the producer and the   *)
(* writer are, and the steps of the stream are steps of OneReply.          *)
(*                                                                         *)
(* ChatReply: the text is laid out piece by piece, only the first symbol   *)
(* of a piece opens a token, and each function that reads the text is a    *)
(* pass over its places.  What is known of a pass after each piece says    *)
(* what the function finds in the whole text.                              *)
(***************************************************************************)
EXTENDS ChatReply, Induction

\* Where the producer is tells how the model's stream stands and which channels
\* are closed.
ProducerInv ==
    /\ pp \in {"none", "next", "send"} => upstream = "talking"
    /\ pp = "final" => upstream = "ended"
    /\ pp \in {"close_errs", "close_chunks", "exited"} => upstream # "talking"
    /\ ~errsOpen => pp \in {"close_chunks", "exited"}
    /\ ~chunksOpen => pp = "exited"
    /\ errBuf => upstream = "failed"
    /\ pp = "none" => wp \in {"build", "returned"}
    /\ wp = "build" => pp = "none"

\* The writer has nothing of a failed stream but its error: a channel it found
\* closed had nothing left.
WriterInv ==
    /\ upstream = "failed" => errBuf \/ wp = "returned"
    /\ wp \in {"build", "select", "write", "save", "prefill", "done"} => outcome = "none"
    /\ wp \in {"save", "prefill", "done"} => ~wchunks /\ ~werrs
    /\ ~werrs => upstream = "ended"
    /\ ~wchunks => pp = "exited"
    /\ wp = "save" => finalText > 0
    /\ kept => wp \in {"prefill", "done", "returned"}
    /\ ids => kept

\* Every piece is shown, or is in the hand of one of the two.
PiecesInv ==
    /\ wp # "returned" =>
         said = shown + (IF pp = "send" THEN 1 ELSE 0) + (IF wp = "write" THEN 1 ELSE 0)
    /\ finalText # 0 => finalText = said /\ upstream = "ended"

StreamInv == TypeOK /\ ProducerInv /\ WriterInv /\ PiecesInv

LEMMA InitInv == Init => StreamInv
<1> SUFFICES ASSUME Init PROVE StreamInv
  OBVIOUS
<1> USE ChunksAssumption DEF Init
<1>1. TypeOK
  <2>1. 0 \in 0..MaxChunks
    OBVIOUS
  <2> QED
    BY <2>1, Zenon DEF TypeOK, ProducerPcs, WriterPcs
<1>2. ProducerInv /\ WriterInv
  BY DEF ProducerInv, WriterInv
<1>3. PiecesInv
  BY DEF PiecesInv
<1> QED
  BY <1>1, <1>2, <1>3 DEF StreamInv

LEMMA NextInv == StreamInv /\ [Next]_vars => StreamInv'
<1> SUFFICES ASSUME StreamInv, [Next]_vars PROVE StreamInv'
  OBVIOUS
<1> USE ChunksAssumption DEF StreamInv, TypeOK, ProducerInv, WriterInv, PiecesInv, ProducerPcs,
        WriterPcs, producer, writer
<1>1. CASE Build
  BY <1>1 DEF Build
<1>2. CASE NextDelta
  BY <1>2 DEF NextDelta
<1>3. CASE NextEnds
  BY <1>3 DEF NextEnds
<1>4. CASE NextFails
  BY <1>4 DEF NextFails
<1>5. CASE CloseErrs
  <2>1. TypeOK' /\ PiecesInv'
    BY <1>5 DEF CloseErrs
  <2>2. ProducerInv'
    BY <1>5 DEF CloseErrs
  <2>3. WriterInv'
    BY <1>5 DEF CloseErrs
  <2> QED
    BY <2>1, <2>2, <2>3
<1>6. CASE CloseChunks
  <2>1. TypeOK' /\ PiecesInv'
    BY <1>6 DEF CloseChunks
  <2>2. ProducerInv'
    BY <1>6 DEF CloseChunks
  <2>3. WriterInv'
    BY <1>6 DEF CloseChunks
  <2> QED
    BY <2>1, <2>2, <2>3
<1>7. CASE ReceiveChunk
  BY <1>7 DEF ReceiveChunk
<1>8. CASE WriteChunk
  BY <1>8 DEF WriteChunk
<1>9. CASE ReceiveFinal
  BY <1>9 DEF ReceiveFinal
<1>10. CASE ReceiveError
  BY <1>10 DEF ReceiveError
<1>11. CASE ErrsClosed
  <2>1. upstream = "ended" /\ outcome = "none" /\ ~kept /\ ~ids
    BY <1>11 DEF ErrsClosed
  <2>2. wp' \in {"select", "save", "done"} /\ pp = pp' /\ ~werrs'
    BY <1>11 DEF ErrsClosed, AfterLoop
  <2>3. wp' # "select" => ~wchunks
    BY <1>11 DEF ErrsClosed, AfterLoop
  <2>4. wp' = "save" => finalText > 0
    BY <1>11 DEF ErrsClosed, AfterLoop
  <2>5. TypeOK' /\ ProducerInv'
    BY <1>11, <2>2 DEF ErrsClosed
  <2>6. WriterInv'
    BY <1>11, <2>1, <2>2, <2>3, <2>4 DEF ErrsClosed
  <2>7. PiecesInv'
    BY <1>11, <2>2 DEF ErrsClosed
  <2> QED
    BY <2>5, <2>6, <2>7
<1>12. CASE ChunksClosed
  <2>1. pp = "exited" /\ outcome = "none" /\ ~kept /\ ~ids
    BY <1>12 DEF ChunksClosed
  <2>2. wp' \in {"select", "save", "done"} /\ pp = pp' /\ ~wchunks'
    BY <1>12 DEF ChunksClosed, AfterLoop
  <2>3. wp' # "select" => ~werrs
    BY <1>12 DEF ChunksClosed, AfterLoop
  <2>4. wp' = "save" => finalText > 0
    BY <1>12 DEF ChunksClosed, AfterLoop
  <2>5. TypeOK' /\ ProducerInv'
    BY <1>12, <2>2 DEF ChunksClosed
  <2>6. WriterInv'
    BY <1>12, <2>1, <2>2, <2>3, <2>4 DEF ChunksClosed
  <2>7. PiecesInv'
    BY <1>12, <2>2 DEF ChunksClosed
  <2> QED
    BY <2>5, <2>6, <2>7
<1>13. CASE SaveTurn
  <2>1. kept' \in BOOLEAN /\ ids' \in BOOLEAN /\ (ids' => kept') /\ wp' = "prefill"
    <3>1. ~kept /\ ~ids
      BY <1>13 DEF SaveTurn
    <3>2. CASE kept' = TRUE /\ ids' \in BOOLEAN
      BY <1>13, <3>2, Zenon DEF SaveTurn
    <3>3. CASE UNCHANGED <<kept, ids>>
      BY <1>13, <3>1, <3>3 DEF SaveTurn
    <3> QED
      BY <1>13, <3>2, <3>3 DEF SaveTurn
  <2>2. TypeOK' /\ ProducerInv'
    BY <1>13, <2>1 DEF SaveTurn
  <2>3. WriterInv' /\ PiecesInv'
    BY <1>13, <2>1 DEF SaveTurn
  <2> QED
    BY <2>2, <2>3
<1>14. CASE SendPrefills
  BY <1>14 DEF SendPrefills
<1>15. CASE SendDone
  BY <1>15 DEF SendDone
<1>16. CASE PipeCloses
  BY <1>16 DEF PipeCloses
<1>17. CASE UNCHANGED vars
  BY <1>17 DEF vars
<1> QED
  BY <1>1, <1>2, <1>3, <1>4, <1>5, <1>6, <1>7, <1>8, <1>9, <1>10, <1>11, <1>12, <1>13, <1>14,
     <1>15, <1>16, <1>17 DEF Next, Produce, Write

\* The invariant holds in every reachable state.
THEOREM StreamCorrect == Spec => []StreamInv
<1> QED
  BY InitInv, NextInv, PTL DEF Spec

\* TypeOK holds in every reachable state.
THEOREM TypeCorrect == Spec => []TypeOK
<1>1. StreamInv => TypeOK
  BY DEF StreamInv
<1> QED
  BY <1>1, StreamCorrect, PTL

-----------------------------------------------------------------------------
(* The stream implements OneReply.                                         *)

LEMMA StepReply == StreamInv /\ [Next]_vars => [Reply!Next]_(Reply!rvars)
<1> SUFFICES ASSUME StreamInv, [Next]_vars PROVE [Reply!Next]_(Reply!rvars)
  OBVIOUS
<1> USE DEF producer, writer
<1>1. CASE Build \/ ReceiveChunk \/ ReceiveFinal \/ ErrsClosed \/ ChunksClosed \/ CloseErrs
           \/ CloseChunks \/ SendPrefills \/ PipeCloses \/ UNCHANGED vars
  BY <1>1 DEF Build, ReceiveChunk, ReceiveFinal, ErrsClosed, ChunksClosed, CloseErrs, CloseChunks,
     SendPrefills, PipeCloses, vars, Reply!rvars
<1>2. CASE NextDelta
  BY <1>2 DEF NextDelta, StreamInv, ProducerInv, Reply!Next, Reply!Say
<1>3. CASE NextEnds \/ NextFails
  BY <1>3 DEF NextEnds, NextFails, StreamInv, ProducerInv, Reply!Next, Reply!Stop
<1>4. CASE WriteChunk
  <2>1. outcome = "none" /\ ~kept /\ shown < said
    BY <1>4 DEF WriteChunk, StreamInv, TypeOK, WriterInv, PiecesInv
  <2> QED
    BY <1>4, <2>1 DEF WriteChunk, Reply!Next, Reply!Show, Reply!rvars
<1>5. CASE ReceiveError
  <2>1. upstream = "failed" /\ outcome = "none"
    BY <1>5 DEF ReceiveError, StreamInv, ProducerInv, WriterInv
  <2>2. UNCHANGED <<upstream, said, shown, kept>>
    BY <1>5 DEF ReceiveError
  <2>3. CASE pipe = "open"
    BY <1>5, <2>1, <2>2, <2>3 DEF ReceiveError, Reply!Next, Reply!Tell
  <2>4. CASE pipe # "open"
    BY <1>5, <2>2, <2>4 DEF ReceiveError, Reply!rvars
  <2> QED
    BY <2>3, <2>4
<1>6. CASE wp \in {"save", "done"}
  \* The reply is over and all of it was shown.
  <2>1. upstream = "ended" /\ pp = "exited" /\ outcome = "none"
    BY <1>6 DEF StreamInv, WriterInv
  <2>2. shown = said
    BY <1>6, <2>1 DEF StreamInv, TypeOK, PiecesInv
  <2>3. Reply!Complete
    BY <2>1, <2>2 DEF Reply!Complete
  <2>4. CASE SaveTurn
    <3>1. ~kept /\ said > 0
      BY <2>4 DEF SaveTurn, StreamInv, TypeOK, WriterInv, PiecesInv
    <3>2. UNCHANGED <<upstream, said, shown, outcome>>
      BY <2>4 DEF SaveTurn
    <3>3. CASE kept' = TRUE
      BY <2>3, <3>1, <3>2, <3>3 DEF Reply!Next, Reply!Keep
    <3>4. CASE kept' = kept
      BY <3>2, <3>4 DEF Reply!rvars
    <3> QED
      BY <2>4, <3>3, <3>4 DEF SaveTurn
  <2>5. CASE SendDone
    <3>1. UNCHANGED <<upstream, said, shown, kept>>
      BY <2>5 DEF SendDone
    <3>2. ids => kept
      BY DEF StreamInv, WriterInv
    <3>3. CASE pipe = "closed"
      BY <2>5, <3>1, <3>3 DEF SendDone, Reply!rvars
    <3>4. CASE pipe # "closed"
      BY <2>3, <2>5, <3>1, <3>2, <3>4 DEF SendDone, Reply!Next, Reply!Tell
    <3> QED
      BY <3>3, <3>4
  <2> QED
    BY <1>1, <1>2, <1>3, <1>6, <2>4, <2>5 DEF Next, Produce, Write, ReceiveError, WriteChunk
<1> QED
  BY <1>1, <1>2, <1>3, <1>4, <1>5, <1>6 DEF Next, Produce, Write, SaveTurn, SendDone

\* The stream implements OneReply, for replies of any length: a failed stream is
\* never taken for a finished reply, and only what was shown in full is kept.
THEOREM Implements == Spec => ReplySpec
<1>1. Init => Reply!Init
  BY DEF Init, Reply!Init
<1> QED
  BY <1>1, StepReply, StreamCorrect, PTL DEF Spec, ReplySpec, Reply!Spec

-----------------------------------------------------------------------------
(* Where the pieces of a text are in it.                                   *)

\* Where a place of s \o t comes from.
LEMMA ConcatPlaces ==
    ASSUME NEW A, NEW s \in Seq(A), NEW t \in Seq(A)
    PROVE  /\ Len(s \o t) = Len(s) + Len(t)
           /\ \A i \in 1..Len(s) : i \in 1..Len(s \o t) /\ (s \o t)[i] = s[i]
           /\ \A j \in 1..Len(t) : (s \o t)[Len(s) + j] = t[j]
<1>1. Len(s) \in Nat /\ Len(t) \in Nat
  OBVIOUS
<1>2. Len(s \o t) = Len(s) + Len(t)
      /\ \A i \in 1..Len(s) + Len(t) : (s \o t)[i] = IF i <= Len(s) THEN s[i] ELSE t[i - Len(s)]
  BY ConcatProperties
<1>3. ASSUME NEW i \in 1..Len(s) PROVE i \in 1..Len(s \o t) /\ (s \o t)[i] = s[i]
  <2>1. i \in 1..Len(s) + Len(t) /\ i <= Len(s)
    BY <1>1
  <2> QED
    BY <1>2, <2>1
<1>4. ASSUME NEW j \in 1..Len(t) PROVE (s \o t)[Len(s) + j] = t[j]
  <2>1. Len(s) + j \in 1..Len(s) + Len(t) /\ ~(Len(s) + j <= Len(s)) /\ (Len(s) + j) - Len(s) = j
    BY <1>1
  <2> QED
    BY <1>2, <2>1
<1> QED
  BY <1>2, <1>3, <1>4

\* Piece k of seqs ends at place off[k] of text.
Layout(off, seqs, text) ==
    /\ off \in [0..Len(seqs) -> Nat] /\ off[0] = 0 /\ Len(text) = off[Len(seqs)]
    /\ \A k \in 1..Len(seqs) :
         /\ off[k] = off[k - 1] + Len(seqs[k])
         /\ \A j \in 1..Len(seqs[k]) : text[off[k - 1] + j] = seqs[k][j]

\* The ends of pieces are in order.
LEMMA EndsGrow ==
    ASSUME NEW A, NEW seqs \in Seq(Seq(A)), NEW text, NEW off, Layout(off, seqs, text),
           NEW k \in 0..Len(seqs)
    PROVE  \A m \in k..Len(seqs) : off[k] <= off[m]
<1> DEFINE n == Len(seqs)
           T == {d \in 0..(n - k) : off[k] <= off[k + d]}
<1>1. n \in Nat /\ \A m \in 1..n : Len(seqs[m]) \in Nat
  OBVIOUS
<1>2. off \in [0..n -> Nat] /\ \A m \in 1..n : off[m] = off[m - 1] + Len(seqs[m])
  BY DEF Layout
<1> HIDE DEF n
<1>3. k \in 0..n
  BY DEF n
<1>4. 0 \in T
  BY <1>1, <1>2, <1>3
<1>5. ASSUME NEW d \in 0..((n - k) - 1), d \in T PROVE d + 1 \in T
  <2>1. k + d + 1 \in 1..n /\ k + d \in 0..n /\ (k + d + 1) - 1 = k + d /\ d + 1 \in 0..(n - k)
    BY <1>1, <1>3
  <2>2. off[k + d + 1] = off[k + d] + Len(seqs[k + d + 1])
    BY <1>2, <2>1
  <2>3. off[k] \in Nat /\ off[k + d] \in Nat /\ Len(seqs[k + d + 1]) \in Nat
    BY <1>1, <1>2, <1>3, <2>1
  <2> QED
    BY <1>5, <2>1, <2>2, <2>3
<1>6. 0..(n - k) \subseteq T
  <2>1. n - k \in Nat
    BY <1>1, <1>3
  <2> HIDE DEF T
  <2> QED
    BY <1>4, <1>5, <2>1, InductionUpTo
<1>7. ASSUME NEW m \in k..n PROVE off[k] <= off[m]
  <2>1. m - k \in 0..(n - k) /\ k + (m - k) = m
    BY <1>1, <1>3
  <2> QED
    BY <1>6, <2>1
<1> QED
  BY <1>7 DEF n

\* Every place of the text is in a piece.
LEMMA PlaceInPiece ==
    ASSUME NEW A, NEW seqs \in Seq(Seq(A)), NEW text, NEW off, Layout(off, seqs, text),
           NEW i \in 1..Len(text)
    PROVE  \E k \in 1..Len(seqs) : \E j \in 1..Len(seqs[k]) : i = off[k - 1] + j
<1> DEFINE n == Len(seqs)
           F == {k \in 0..n : off[k] >= i}
<1>1. n \in Nat /\ \A m \in 1..n : Len(seqs[m]) \in Nat
  OBVIOUS
<1>2. off \in [0..n -> Nat] /\ off[0] = 0 /\ off[n] = Len(text)
      /\ \A m \in 1..n : off[m] = off[m - 1] + Len(seqs[m])
  BY DEF Layout
<1> HIDE DEF n
<1>3. n \in F /\ F \in SUBSET Nat
  BY <1>1, <1>2
<1>4. PICK k \in F : \A m \in F : k <= m
  BY <1>3, LeastNatural
<1>5. off[n] \in Nat /\ i \in Nat /\ i >= 1
  BY <1>1, <1>2
<1>6. k # 0 /\ k \in 1..n
  BY <1>1, <1>2, <1>4, <1>5
<1>7. k - 1 \in 0..n /\ k - 1 \notin F
  BY <1>1, <1>4, <1>6
<1>8. off[k - 1] < i /\ off[k] >= i /\ off[k - 1] \in Nat /\ off[k] = off[k - 1] + Len(seqs[k])
      /\ Len(seqs[k]) \in Nat
  BY <1>1, <1>2, <1>4, <1>5, <1>6, <1>7
<1>9. i - off[k - 1] \in 1..Len(seqs[k]) /\ i = off[k - 1] + (i - off[k - 1])
  BY <1>5, <1>8, SMTT(20)
<1> QED
  BY <1>6, <1>9 DEF n

\* FlattenSeq lays the pieces out so.
LEMMA FlatIsLaid ==
    ASSUME NEW A, NEW seqs \in Seq(Seq(A))
    PROVE  FlattenSeq(seqs) \in Seq(A) /\ \E off : Layout(off, seqs, FlattenSeq(seqs))
<1> DEFINE n == Len(seqs)
           text == FlattenSeq(seqs)
<1>1. PICK h : Appends(h, A, seqs) /\ h[n] = text
  BY FlattenSteps
<1>2. n \in Nat /\ \A k \in 1..n : seqs[k] \in Seq(A) /\ Len(seqs[k]) \in Nat
  OBVIOUS
<1>3. h \in [0..n -> Seq(A)] /\ h[0] = <<>>
      /\ \A k \in 0..n - 1 : h[k + 1] = h[k] \o seqs[k + 1]
  BY <1>1 DEF Appends
<1> DEFINE off == [k \in 0..n |-> Len(h[k])]
<1> HIDE DEF n, text
<1>4. text \in Seq(A) /\ \A k \in 0..n : h[k] \in Seq(A) /\ Len(h[k]) \in Nat
  <2>1. \A k \in 0..n : h[k] \in Seq(A)
    BY <1>3
  <2>2. n \in 0..n
    BY <1>2
  <2> QED
    BY <1>1, <2>1, <2>2
<1>5. ASSUME NEW k \in 1..n PROVE h[k] = h[k - 1] \o seqs[k] /\ h[k - 1] \in Seq(A)
  <2>1. k - 1 \in 0..n - 1 /\ (k - 1) + 1 = k /\ k - 1 \in 0..n
    BY <1>2
  <2> QED
    BY <1>3, <1>4, <2>1
<1>6. off \in [0..n -> Nat] /\ off[0] = 0 /\ Len(text) = off[n]
  <2>1. 0 \in 0..n /\ n \in 0..n
    BY <1>2
  <2> QED
    BY <1>1, <1>3, <1>4, <2>1
<1>7. ASSUME NEW k \in 1..n
      PROVE  /\ off[k] = off[k - 1] + Len(seqs[k])
             /\ \A j \in 1..Len(seqs[k]) : h[k][off[k - 1] + j] = seqs[k][j]
  <2>1. k \in 0..n /\ k - 1 \in 0..n
    BY <1>2
  <2>2. off[k] = Len(h[k]) /\ off[k - 1] = Len(h[k - 1])
    BY <2>1
  <2>3. seqs[k] \in Seq(A) /\ h[k - 1] \in Seq(A) /\ h[k] = h[k - 1] \o seqs[k]
    BY <1>2, <1>5
  <2> HIDE DEF off
  <2>4. ASSUME NEW a \in Seq(A), NEW b \in Seq(A), h[k - 1] = a, seqs[k] = b
        PROVE  Len(h[k]) = Len(a) + Len(b) /\ \A j \in 1..Len(b) : h[k][Len(a) + j] = b[j]
    BY <2>3, <2>4, ConcatPlaces, SMTT(20)
  <2> QED
    BY <2>2, <2>3, <2>4, ZenonT(30)
\* What is appended later leaves it there.
<1>8. ASSUME NEW k \in 0..n PROVE \A i \in 1..off[k] : text[i] = h[k][i]
  <2> DEFINE T == {d \in 0..(n - k) : \A i \in 1..off[k] : i \in 1..off[k + d] /\ h[k + d][i] = h[k][i]}
  <2>1. 0 \in T
    BY <1>2
  <2>2. ASSUME NEW d \in 0..((n - k) - 1), d \in T PROVE d + 1 \in T
    <3>1. k + d + 1 \in 1..n /\ (k + d + 1) - 1 = k + d /\ k + d \in 0..n /\ k + d + 1 \in 0..n
          /\ k + (d + 1) = k + d + 1 /\ d + 1 \in 0..(n - k)
      BY <1>2
    <3>2. h[k + d + 1] = h[k + d] \o seqs[k + d + 1] /\ h[k + d] \in Seq(A)
          /\ seqs[k + d + 1] \in Seq(A)
      BY <1>2, <1>5, <3>1
    <3>3. off[k + d] = Len(h[k + d]) /\ off[k + d + 1] = Len(h[k + d + 1])
      BY <3>1
    <3> HIDE DEF off
    <3>4. \A i \in 1..off[k + d] : i \in 1..off[k + d + 1] /\ h[k + d + 1][i] = h[k + d][i]
      <4>1. ASSUME NEW a \in Seq(A), NEW b \in Seq(A), h[k + d] = a, seqs[k + d + 1] = b
            PROVE  \A i \in 1..Len(a) : i \in 1..Len(h[k + d + 1]) /\ h[k + d + 1][i] = a[i]
        BY <3>2, <4>1, ConcatPlaces
      <4> QED
        BY <3>2, <3>3, <4>1
    <3> QED
      BY <2>2, <3>1, <3>4
  <2>3. 0..(n - k) \subseteq T
    <3>1. n - k \in Nat
      BY <1>2
    <3> HIDE DEF T
    <3> QED
      BY <2>1, <2>2, <3>1, InductionUpTo
  <2>4. n - k \in 0..(n - k) /\ k + (n - k) = n
    BY <1>2
  <2> HIDE DEF off
  <2> QED
    BY <1>1, <2>3, <2>4
<1>9. ASSUME NEW k \in 1..n, NEW j \in 1..Len(seqs[k])
      PROVE  text[off[k - 1] + j] = seqs[k][j]
  <2>1. k \in 0..n /\ k - 1 \in 0..n
    BY <1>2
  <2>2. off[k - 1] \in Nat /\ off[k] = off[k - 1] + Len(seqs[k]) /\ Len(seqs[k]) \in Nat
    BY <1>2, <1>6, <1>7, <2>1
  <2> HIDE DEF off
  <2>3. off[k - 1] + j \in 1..off[k]
    BY <2>2
  <2> QED
    BY <1>7, <1>8, <2>1, <2>3
<1>10. Layout(off, seqs, text)
  <2> HIDE DEF off
  <2> QED
    BY <1>6, <1>7, <1>9 DEF Layout, n
<1>11. \E o : Layout(o, seqs, text)
  <2> HIDE DEF off
  <2> QED
    BY <1>10
<1> QED
  BY <1>4, <1>11 DEF text

\* A text with that layout is what FlattenSeq makes.
LEMMA LaidIsFlat ==
    ASSUME NEW A, NEW seqs \in Seq(Seq(A)), NEW text \in Seq(A), NEW off, Layout(off, seqs, text)
    PROVE  text = FlattenSeq(seqs)
<1> DEFINE n == Len(seqs)
           flat == FlattenSeq(seqs)
<1>1. PICK o : Layout(o, seqs, flat)
  BY FlatIsLaid
<1>2. flat \in Seq(A)
  BY FlatIsLaid
<1>3. n \in Nat
  OBVIOUS
<1> HIDE DEF n, flat
<1> DEFINE T == {k \in 0..n : off[k] = o[k]}
<1>4. 0 \in T
  BY <1>1, <1>3 DEF Layout, n
<1>5. ASSUME NEW k \in 0..(n - 1), k \in T PROVE k + 1 \in T
  <2>1. k + 1 \in 1..n /\ (k + 1) - 1 = k /\ k + 1 \in 0..n
    BY <1>3
  <2> QED
    BY <1>1, <1>5, <2>1 DEF Layout, n
<1>6. 0..n \subseteq T
  <2> HIDE DEF T
  <2> QED
    BY <1>3, <1>4, <1>5, InductionUpTo
<1>7. Len(text) = Len(flat)
  BY <1>1, <1>3, <1>6 DEF Layout, n
<1>8. ASSUME NEW i \in 1..Len(text) PROVE text[i] = flat[i]
  <2>1. PICK k \in 1..n : \E j \in 1..Len(seqs[k]) : i = off[k - 1] + j
    BY PlaceInPiece DEF n
  <2>2. PICK j \in 1..Len(seqs[k]) : i = off[k - 1] + j
    BY <2>1
  <2>3. k - 1 \in 0..n
    BY <1>3
  <2>4. off[k - 1] = o[k - 1]
    BY <1>6, <2>3
  <2> QED
    BY <1>1, <2>2, <2>4 DEF Layout, n
<1> QED
  BY <1>2, <1>7, <1>8, SeqEqual DEF flat

-----------------------------------------------------------------------------
(* The pieces, symbol by symbol.                                           *)

\* All symbols, and the ones that open a token.
Symbols == {"[REF:", "[LOG:", "[PREP:", "lbrace", "rbrace", "quote", "|", "\\", "]", "word", "id",
            "title", "won", "lost", "adjust", "create", "edit", "end"}
Openings == {"[REF:", "[LOG:", "[PREP:"}

\* The tokens that the model writes.
Ref == <<"[REF:", "id", "|", "quote", "title", "quote", "]">>
Won == <<"[LOG:", "lbrace", "won", "rbrace", "]">>
Lost == <<"[LOG:", "lbrace", "lost", "rbrace", "]">>
Adjust == <<"[PREP:", "lbrace", "adjust", "rbrace", "]">>
Create == <<"[PREP:", "lbrace", "create", "quote", "rbrace", "quote", "rbrace", "]">>
Drills == <<"[PREP:", "lbrace", "create", "quote", "\\", "quote", "lbrace", "quote", "lbrace",
            "word", "rbrace", "rbrace", "]">>
Edit == <<"[PREP:", "lbrace", "edit", "rbrace", "]">>

\* The tokens of the model by name.
LEMMA TokenSymbols == Refs = {Ref} /\ Logs = {Won, Lost} /\ Preps = {Adjust, Create, Drills, Edit}
BY DEF Refs, Ref, Logs, Won, Lost, Preps, Adjust, Create, Drills, Edit

\* Only the first symbol of a piece opens a token.
LEMMA WholeSymbols ==
    ASSUME NEW w \in Wholes
    PROVE  /\ w \in Seq(Symbols) /\ Len(w) >= 2
           /\ \A j \in 1..Len(w) : w[j] \in Openings => j = 1
           /\ w[1] = "[REF:" => w = Ref
           /\ w[1] = "[LOG:" => w \in {Won, Lost}
           /\ w[1] = "[PREP:" => w \in {Adjust, Create, Drills, Edit}
<1>1. w \in {<<"lbrace", "quote">>, <<"word", "]">>, Ref, Won, Lost, Adjust, Create, Drills, Edit}
  BY TokenSymbols DEF Wholes, Prose
<1>2. CASE w = <<"lbrace", "quote">>
  BY <1>2 DEF Symbols, Openings
<1>3. CASE w = <<"word", "]">>
  BY <1>3 DEF Symbols, Openings
<1>4. CASE w = Ref
  BY <1>4 DEF Symbols, Openings, Ref
<1>5. CASE w = Won
  BY <1>5 DEF Symbols, Openings, Won
<1>6. CASE w = Lost
  BY <1>6 DEF Symbols, Openings, Lost
<1>7. CASE w = Adjust
  BY <1>7 DEF Symbols, Openings, Adjust
<1>8. CASE w = Create
  BY <1>8 DEF Symbols, Openings, Create
<1>9. CASE w = Drills
  BY <1>9 DEF Symbols, Openings, Drills
<1>10. CASE w = Edit
  BY <1>10 DEF Symbols, Openings, Edit
<1> QED
  BY <1>1, <1>2, <1>3, <1>4, <1>5, <1>6, <1>7, <1>8, <1>9, <1>10

\* p is w, or was cut off within it.
Begins(p, w) == p \in Seq(Symbols) /\ Len(p) <= Len(w) /\ \A j \in 1..Len(p) : p[j] = w[j]

\* What a text may be made of as CleanContent goes on.
Finished == Wholes \cup {<<"title">>, <<>>}

\* What the limit may leave of the last piece.
LEMMA BeginningsAre ==
    \A p : p \in Beginnings <=> (\E w \in Wholes : p \in Prefixes(w)) /\ p \notin Wholes /\ p # <<>>
<1> DEFINE U == UNION {Prefixes(p) : p \in Wholes}
<1>1. Beginnings = U \ (Wholes \cup {<<>>})
  BY Zenon DEF Beginnings
<1>2. \A p : p \in U <=> \E w \in Wholes : p \in Prefixes(w)
  BY Zenon
<1> HIDE DEF U
<1> QED
  BY <1>1, <1>2

\* It is a proper beginning of a piece.
LEMMA CutPieces ==
    ASSUME NEW p \in Beginnings
    PROVE  \E w \in Wholes : Begins(p, w) /\ Len(p) \in 1..(Len(w) - 1)
<1>1. PICK w \in Wholes : p \in Prefixes(w) /\ p \notin Wholes /\ p # <<>>
  BY BeginningsAre
<1>2. PICK m \in 0..Len(w) : p = SubSeq(w, 1, m)
  BY <1>1 DEF Prefixes
<1>3. w \in Seq(Symbols)
  BY WholeSymbols
<1>4. Len(w) \in Nat
  BY <1>3
<1>5. m # 0
  BY <1>1, <1>2, <1>3, <1>4
<1>6. m # Len(w)
  BY <1>1, <1>2, <1>3, SubSeqFull
<1>7. p \in Seq(Symbols) /\ Len(p) = m /\ \A j \in 1..m : p[j] = w[j]
  BY <1>2, <1>3, <1>4
<1> QED
  BY <1>4, <1>5, <1>6, <1>7 DEF Begins

\* A piece opens a token with its first symbol or not at all, and it is then that
\* token or begins it.
LEMMA PieceSymbols ==
    ASSUME NEW p \in Finished \cup Beginnings
    PROVE  /\ p \in Seq(Symbols)
           /\ \A j \in 1..Len(p) : p[j] \in Openings =>
                j = 1 /\ \E w \in Wholes : /\ Begins(p, w) /\ w[1] = p[1]
                                           /\ p \in Finished => p = w
                                           /\ p \in Beginnings => Len(p) < Len(w)
<1>1. CASE p \in Wholes
  <2>1. p \in Seq(Symbols) /\ Len(p) \in Nat
    BY <1>1, WholeSymbols
  <2>2. Begins(p, p)
    BY <2>1 DEF Begins
  <2>3. p \notin Beginnings
    BY <1>1, BeginningsAre
  <2> QED
    BY <1>1, <2>1, <2>2, <2>3, WholeSymbols
<1>2. CASE p = <<"title">> \/ p = <<>>
  <2>1. <<>> \in Seq(Symbols) /\ <<"title">> \in Seq(Symbols)
    BY DEF Symbols
  <2>2. Len(<<>>) = 0 /\ Len(<<"title">>) = 1 /\ <<"title">>[1] \notin Openings
    BY DEF Openings
  <2>3. \A j \in 1..Len(p) : p[j] \notin Openings
    <3>1. CASE p = <<>>
      BY <2>2, <3>1
    <3>2. CASE p = <<"title">>
      BY <2>2, <3>2
    <3> QED
      BY <1>2, <3>1, <3>2
  <2> QED
    BY <1>2, <2>1, <2>3
<1>3. CASE p \in Beginnings
  <2>1. PICK w \in Wholes : Begins(p, w) /\ Len(p) \in 1..(Len(w) - 1)
    BY <1>3, CutPieces
  <2>2. p \in Seq(Symbols) /\ Len(p) \in Nat /\ Len(w) \in Nat
    BY <2>1, WholeSymbols DEF Begins
  <2>4. ASSUME NEW j \in 1..Len(p), p[j] \in Openings
        PROVE  j = 1 /\ w[1] = p[1]
    <3>1. j \in 1..Len(w) /\ w[j] = p[j]
      BY <2>1, <2>2 DEF Begins
    <3> QED
      BY <2>4, <3>1, WholeSymbols
  <2>5. p = <<"title">> => \A j \in 1..Len(p) : p[j] \notin Openings
    BY DEF Openings
  <2>6. Len(p) < Len(w)
    BY <2>1, <2>2
  <2>3. p \notin Wholes /\ p # <<>>
    BY <1>3, BeginningsAre
  <2> QED
    BY <1>3, <2>1, <2>2, <2>3, <2>4, <2>5, <2>6 DEF Finished
<1> QED
  BY <1>1, <1>2, <1>3 DEF Finished

\* All pieces of a text but the last one are finished.
Pieces == {s \in Seq(Finished \cup Beginnings) : \A k \in 1..Len(s) - 1 : s[k] \in Finished}

\* ps are the pieces of text, and off tells where they end.
Laid(ps, text, off) == ps \in Pieces /\ text \in Seq(Symbols) /\ Layout(off, ps, text)

\* Pieces are sequences of symbols.
LEMMA PiecesAreSequences == ASSUME NEW ps \in Pieces PROVE ps \in Seq(Seq(Symbols))
<1>1. \A p \in Finished \cup Beginnings : p \in Seq(Symbols)
  BY PieceSymbols
<1>2. ps \in Seq(Finished \cup Beginnings)
  BY DEF Pieces
<1> QED
  BY <1>1, <1>2

\* Pieces are the pieces of the text they are put together to.
LEMMA PiecesAreLaid ==
    ASSUME NEW ps \in Pieces PROVE \E off : Laid(ps, FlattenSeq(ps), off)
BY PiecesAreSequences, FlatIsLaid DEF Laid

\* What is known of piece k and its places.
LEMMA PieceAt ==
    ASSUME NEW ps, NEW text, NEW off, Laid(ps, text, off), NEW k \in 1..Len(ps)
    PROVE  /\ ps[k] \in Seq(Symbols) /\ Len(ps[k]) \in Nat /\ Len(ps) \in Nat /\ Len(text) \in Nat
           /\ off[k - 1] \in Nat /\ off[k] \in Nat /\ off[k] = off[k - 1] + Len(ps[k])
           /\ off[k] <= Len(text)
           /\ \A j \in 1..Len(ps[k]) : /\ off[k - 1] + j \in 1..Len(text)
                                      /\ text[off[k - 1] + j] = ps[k][j]
           /\ ps[k] \in Finished \/ (ps[k] \in Beginnings /\ k = Len(ps) /\ off[k] = Len(text))
<1>1. ps \in Seq(Seq(Symbols)) /\ ps \in Pieces /\ Layout(off, ps, text) /\ text \in Seq(Symbols)
  BY PiecesAreSequences DEF Laid
<1>2. Len(ps) \in Nat /\ Len(text) \in Nat /\ ps[k] \in Seq(Symbols) /\ Len(ps[k]) \in Nat
  BY <1>1
<1>3. k - 1 \in 0..Len(ps) /\ k \in 0..Len(ps) /\ Len(ps) \in k..Len(ps)
  BY <1>2
<1>4. off[k - 1] \in Nat /\ off[k] \in Nat /\ off[k] = off[k - 1] + Len(ps[k])
  BY <1>1, <1>3 DEF Layout
<1>5. off[k] <= Len(text)
  <2>1. off[k] <= off[Len(ps)]
    BY <1>1, <1>3, EndsGrow
  <2> QED
    BY <1>1, <2>1 DEF Layout
<1>6. ASSUME NEW j \in 1..Len(ps[k])
      PROVE  off[k - 1] + j \in 1..Len(text) /\ text[off[k - 1] + j] = ps[k][j]
  <2>1. off[k - 1] + j \in 1..Len(text)
    BY <1>2, <1>4, <1>5
  <2> QED
    BY <1>1, <2>1 DEF Layout
<1>7. ps[k] \in Finished \/ (ps[k] \in Beginnings /\ k = Len(ps) /\ off[k] = Len(text))
  <2>1. ps \in Seq(Finished \cup Beginnings) /\ \A m \in 1..Len(ps) - 1 : ps[m] \in Finished
    BY <1>1 DEF Pieces
  <2>2. ps[k] \in Finished \cup Beginnings
    BY <2>1
  <2>3. CASE k = Len(ps)
    BY <1>1, <2>2, <2>3 DEF Layout
  <2>4. CASE k # Len(ps)
    <3>1. k \in 1..Len(ps) - 1
      BY <1>2, <2>4
    <3> QED
      BY <2>1, <3>1
  <2> QED
    BY <2>3, <2>4
<1> QED
  BY <1>2, <1>4, <1>5, <1>6, <1>7

\* The symbols of piece k stand in the text.
Placed(ps, text, off, k) ==
    \A j \in 1..Len(ps[k]) : off[k - 1] + j \in 1..Len(text) /\ text[off[k - 1] + j] = ps[k][j]

\* Those of every piece do.
LEMMA PlacedAt ==
    ASSUME NEW ps, NEW text, NEW off, Laid(ps, text, off), NEW k \in 1..Len(ps)
    PROVE  Placed(ps, text, off, k)
<1>1. ASSUME NEW j \in 1..Len(ps[k])
      PROVE  off[k - 1] + j \in 1..Len(text) /\ text[off[k - 1] + j] = ps[k][j]
  BY PieceAt
<1> QED
  BY <1>1, Zenon DEF Placed

\* The token that a piece opens: w, whole or cut off where the text ends.
Opens(ps, text, off, k, w) ==
    /\ w \in Wholes /\ w \in Seq(Symbols) /\ Len(w) \in Nat
    /\ Len(ps[k]) >= 1 /\ ps[k][1] = w[1]
    /\ \A j \in 1..Len(ps[k]) : j \in 1..Len(w) /\ text[off[k - 1] + j] = w[j]
    /\ ps[k] = w \/ (off[k] = Len(text) /\ Len(ps[k]) < Len(w))

\* An opening in the text is the first symbol of a piece, which opens a token.
LEMMA OpeningOf ==
    ASSUME NEW ps, NEW text, NEW off, Laid(ps, text, off), NEW k \in 1..Len(ps),
           NEW j \in 1..Len(ps[k]), ps[k][j] \in Openings
    PROVE  j = 1 /\ ps[k] \notin {<<"title">>, <<>>} /\ \E w : Opens(ps, text, off, k, w)
<1> DEFINE p == ps[k]
<1>1. p \in Finished \cup Beginnings /\ Len(p) \in Nat /\ p \in Seq(Symbols)
  BY PieceAt
<1>2. j = 1 /\ \E w \in Wholes : /\ Begins(p, w) /\ w[1] = p[1]
                                 /\ p \in Finished => p = w
                                 /\ p \in Beginnings => Len(p) < Len(w)
  BY <1>1, PieceSymbols
<1>3. PICK w \in Wholes : /\ Begins(p, w) /\ w[1] = p[1]
                          /\ p \in Finished => p = w
                          /\ p \in Beginnings => Len(p) < Len(w)
  BY <1>2
<1>4. w \in Seq(Symbols) /\ Len(w) \in Nat
  BY WholeSymbols
<1>5. \A m \in 1..Len(p) : m \in 1..Len(w) /\ text[off[k - 1] + m] = w[m]
  BY <1>1, <1>3, <1>4, PieceAt DEF Begins
<1>6. p = w \/ (off[k] = Len(text) /\ Len(p) < Len(w))
  BY <1>3, PieceAt
<1>7. Len(p) >= 1
  BY <1>1
<1>8. Opens(ps, text, off, k, w)
  BY <1>3, <1>4, <1>5, <1>6, <1>7 DEF Opens
<1>9. p \notin {<<"title">>, <<>>}
  <2>1. Len(<<>>) = 0 /\ Len(<<"title">>) = 1 /\ <<"title">>[1] \notin Openings
    BY DEF Openings
  <2>2. p = <<"title">> => p[1] \notin Openings
    BY <2>1
  <2> QED
    BY <1>2, <1>7, <2>1, <2>2
<1> QED
  BY <1>2, <1>8, <1>9

\* A text has no end within it.
LEMMA AtPlace ==
    ASSUME NEW text \in Seq(Symbols), NEW i \in Nat
    PROVE  /\ i \in 1..Len(text) => At(text, i) = text[i]
           /\ i > Len(text) => At(text, i) = "end"
BY DEF At

\* The regular expression of references finds the whole ones.
LEMMA RefMatches ==
    ASSUME NEW ps, NEW text, NEW off, Laid(ps, text, off), NEW k \in 1..Len(ps),
           NEW j \in 1..Len(ps[k])
    PROVE  lessonRefRegex(text, off[k - 1] + j) = IF j = 1 /\ ps[k] \in Refs THEN 7 ELSE 0
<1> DEFINE i == off[k - 1] + j
<1>1. /\ i \in 1..Len(text) /\ i \in Nat /\ text[i] = ps[k][j] /\ text \in Seq(Symbols)
      /\ Len(text) \in Nat /\ Len(ps[k]) \in Nat /\ off[k - 1] \in Nat /\ off[k] \in Nat
      /\ off[k] = off[k - 1] + Len(ps[k])
  BY PieceAt DEF Laid
<1>2. CASE ps[k][j] # "[REF:"
  <2>1. lessonRefRegex(text, i) = 0
    BY <1>1, <1>2, AtPlace DEF lessonRefRegex
  <2>2. ~(j = 1 /\ ps[k] \in Refs)
    BY <1>2, TokenSymbols DEF Ref
  <2> QED
    BY <2>1, <2>2
<1>3. CASE ps[k][j] = "[REF:"
  <2>1. j = 1 /\ \E w : Opens(ps, text, off, k, w)
    BY <1>3, OpeningOf DEF Openings
  <2>2. PICK w : Opens(ps, text, off, k, w)
    BY <2>1
  <2>3. w = Ref /\ Len(Ref) = 7
    BY <1>3, <2>1, <2>2, WholeSymbols DEF Opens, Ref
  <2>4. CASE ps[k] = Ref
    <3>1. PICK o \in Nat : o = off[k - 1]
      BY <1>1
    <3>2. \A m \in 1..7 : (o + m) \in 1..Len(text) /\ text[o + m] = Ref[m]
      <4>1. \A m \in 1..Len(ps[k]) :
              off[k - 1] + m \in 1..Len(text) /\ text[off[k - 1] + m] = ps[k][m]
        BY PieceAt
      <4>2. Len(ps[k]) = 7
        BY <2>3, <2>4
      <4> QED
        BY <2>4, <3>1, <4>1, <4>2
    <3>3. \A m \in 1..7 : At(text, o + m) = Ref[m]
      <4>1. \A m \in 1..7 : o + m \in Nat
        OBVIOUS
      <4> QED
        BY <1>1, <3>2, <4>1, AtPlace
    <3>4. lessonRefRegex(text, o + 1) = 7
      <4>1. /\ (o + 1) + 2 = o + 3 /\ (o + 1) + 3 = o + 4 /\ (o + 1) + 5 = o + 6
            /\ (o + 1) + 6 = o + 7
        OBVIOUS
      <4>2. Ref[1] = "[REF:" /\ Ref[3] = "|" /\ Ref[4] = "quote" /\ Ref[6] = "quote" /\ Ref[7] = "]"
        BY DEF Ref
      <4>3. /\ At(text, o + 1) = "[REF:" /\ At(text, o + 3) = "|" /\ At(text, o + 4) = "quote"
            /\ At(text, o + 6) = "quote" /\ At(text, o + 7) = "]"
        BY <3>3, <4>2, SMTT(20)
      <4> QED
        BY <4>1, <4>3 DEF lessonRefRegex
    <3> QED
      BY <2>1, <2>4, <3>1, <3>4, TokenSymbols
  <2>5. CASE ps[k] # Ref
    <3>1. i + 6 > Len(text) /\ i + 6 \in Nat
      BY <1>1, <2>1, <2>2, <2>3, <2>5, SMTT(20) DEF Opens
    <3>2. At(text, i + 6) # "]"
      BY <1>1, <3>1, AtPlace
    <3>3. lessonRefRegex(text, i) = 0
      BY <3>2 DEF lessonRefRegex
    <3> QED
      BY <2>5, <3>3, TokenSymbols
  <2> QED
    BY <2>4, <2>5
<1> QED
  BY <1>2, <1>3

\* The first place of a symbol, if it is known.
LEMMA IndexIs ==
    ASSUME NEW text \in Seq(Symbols), NEW s, NEW i \in Nat, i >= 1, NEW c \in i..Len(text), text[c] = s,
           \A x \in i..(c - 1) : text[x] # s
    PROVE  Index(text, s, i) = c
<1> DEFINE I == {x \in i..Len(text) : text[x] = s}
<1>1. c \in I /\ I \in SUBSET Nat /\ \A x \in I : c <= x
  <2>1. Len(text) \in Nat
    OBVIOUS
  <2> QED
    BY <2>1
<1>2. Index(text, s, i) = IF I # {} THEN Min(I) ELSE 0
  BY DEF Index, SelectInSubSeq
<1> HIDE DEF I
<1>3. Min(I) \in I /\ \A x \in I : Min(I) <= x
  BY <1>1, MinIsLeast
<1>4. Min(I) = c
  <2>1. Min(I) \in Nat /\ c \in Nat /\ c <= Min(I) /\ Min(I) <= c
    BY <1>1, <1>3
  <2> QED
    BY <2>1
<1> QED
  BY <1>1, <1>2, <1>4

\* The symbol is not there.
LEMMA IndexIsNone ==
    ASSUME NEW text \in Seq(Symbols), NEW s, NEW i \in Nat, \A x \in i..Len(text) : text[x] # s
    PROVE  Index(text, s, i) = 0
BY DEF Index, SelectInSubSeq

\* The regular expression of match logs finds the whole ones: their first "}" is
\* the last symbol before "]".
LEMMA LogMatches ==
    ASSUME NEW ps, NEW text, NEW off, Laid(ps, text, off), NEW k \in 1..Len(ps),
           NEW j \in 1..Len(ps[k])
    PROVE  matchLogRegex(text, off[k - 1] + j) = IF j = 1 /\ ps[k] \in Logs THEN 5 ELSE 0
<1>1. PICK o \in Nat : o = off[k - 1]
  BY PieceAt
<1> DEFINE i == o + j
<1>2. /\ i \in 1..Len(text) /\ i \in Nat /\ i >= 1 /\ text[i] = ps[k][j] /\ text \in Seq(Symbols)
      /\ Len(text) \in Nat /\ Len(ps[k]) \in Nat /\ off[k] \in Nat /\ off[k] = o + Len(ps[k])
  <2>1. text \in Seq(Symbols)
    BY DEF Laid
  <2>2. o + j \in 1..Len(text) /\ text[o + j] = ps[k][j] /\ Len(ps[k]) \in Nat
    BY <1>1, PieceAt
  <2>3. Len(text) \in Nat /\ off[k] \in Nat /\ off[k] = o + Len(ps[k])
    BY <1>1, PieceAt
  <2> QED
    BY <2>1, <2>2, <2>3
<1>3. CASE ps[k][j] # "[LOG:"
  <2>1. matchLogRegex(text, i) = 0
    BY <1>2, <1>3, AtPlace DEF matchLogRegex
  <2>2. ~(j = 1 /\ ps[k] \in Logs)
    BY <1>3, TokenSymbols DEF Won, Lost
  <2> QED
    BY <1>1, <2>1, <2>2
<1>4. CASE ps[k][j] = "[LOG:"
  <2>1. j = 1 /\ \E w : Opens(ps, text, off, k, w)
    BY <1>4, OpeningOf DEF Openings
  <2>2. PICK w : Opens(ps, text, off, k, w)
    BY <2>1
  <2>3. w \in {Won, Lost}
    BY <1>4, <2>1, <2>2, WholeSymbols DEF Opens
  <2>4. /\ Len(w) = 5 /\ w[1] = "[LOG:" /\ w[2] = "lbrace" /\ w[3] # "rbrace" /\ w[4] = "rbrace"
        /\ w[5] = "]"
    BY <2>3 DEF Won, Lost
  <2>5. \A m \in 1..Len(ps[k]) : text[o + m] = w[m]
    BY <1>1, <2>2 DEF Opens
  <2>6. i = o + 1
    BY <2>1
  <2> HIDE DEF i
  <2>7. CASE ps[k] = w
    <3>1. text[o + 1] = "[LOG:" /\ text[o + 2] = "lbrace" /\ text[o + 3] # "rbrace"
          /\ text[o + 4] = "rbrace" /\ text[o + 5] = "]" /\ o + 5 <= Len(text)
      <4>1. off[k] <= Len(text) /\ Len(ps[k]) = 5
        BY <2>4, <2>7, PieceAt
      <4>2. o + 5 <= Len(text)
        BY <1>2, <4>1
      <4>3. \A m \in 1..5 : text[o + m] = w[m]
        BY <2>5, <4>1
      <4> QED
        BY <2>4, <4>2, <4>3
    <3>2. Index(text, "rbrace", i) = o + 4
      <4>1. o + 4 \in i..Len(text)
        BY <1>2, <2>6, <3>1
      <4>2. \A x \in i..((o + 4) - 1) : x = o + 1 \/ x = o + 2 \/ x = o + 3
        BY <2>6
      <4>3. \A x \in i..((o + 4) - 1) : text[x] # "rbrace"
        BY <3>1, <4>2
      <4> QED
        BY <1>2, <3>1, <4>1, <4>3, IndexIs
    <3>3. At(text, i) = "[LOG:" /\ At(text, i + 1) = "lbrace" /\ At(text, (o + 4) + 1) = "]"
      <4>1. i + 1 = o + 2 /\ (o + 4) + 1 = o + 5 /\ o + 2 \in 1..Len(text) /\ o + 5 \in 1..Len(text)
            /\ o + 2 \in Nat /\ o + 5 \in Nat
        BY <1>2, <2>6, <3>1
      <4> QED
        BY <1>2, <2>6, <3>1, <4>1, AtPlace
    <3>4. (o + 4) > i + 2 /\ (o + 4) + 2 - i = 5
      BY <2>6
    <3>5. matchLogRegex(text, i) = 5
      BY <3>2, <3>3, <3>4 DEF matchLogRegex
    <3> QED
      BY <1>1, <2>1, <2>3, <2>6, <2>7, <3>5, TokenSymbols DEF i
  <2>8. CASE ps[k] # w
    <3>1. off[k] = Len(text) /\ Len(ps[k]) < 5 /\ Len(ps[k]) >= 1
      BY <2>2, <2>4, <2>8 DEF Opens
    <3>2. matchLogRegex(text, i) = 0
      <4>1. CASE Len(ps[k]) = 4
        <5>1. text[o + 1] = "[LOG:" /\ text[o + 2] = "lbrace" /\ text[o + 3] # "rbrace"
              /\ text[o + 4] = "rbrace" /\ o + 4 = Len(text)
          BY <1>2, <2>4, <2>5, <3>1, <4>1
        <5>2. Index(text, "rbrace", i) = o + 4
          <6>1. o + 4 \in i..Len(text)
            BY <1>2, <2>6, <5>1
          <6>2. \A x \in i..((o + 4) - 1) : x = o + 1 \/ x = o + 2 \/ x = o + 3
            BY <2>6
          <6>3. \A x \in i..((o + 4) - 1) : text[x] # "rbrace"
            BY <5>1, <6>2
          <6> QED
            BY <1>2, <5>1, <6>1, <6>3, IndexIs, SMTT(30)
        <5>3. At(text, (o + 4) + 1) = "end"
          <6>1. (o + 4) + 1 > Len(text) /\ (o + 4) + 1 \in Nat
            BY <5>1
          <6> QED
            BY <1>2, <6>1, AtPlace
        <5> QED
          BY <5>2, <5>3 DEF matchLogRegex
      <4>2. CASE Len(ps[k]) # 4
        <5>1. \A x \in i..Len(text) : x = o + 1 \/ (x = o + 2 /\ Len(ps[k]) >= 2)
                                                \/ (x = o + 3 /\ Len(ps[k]) = 3)
          <6>1. PICK n \in Nat : n = Len(ps[k])
            BY <1>2
          <6>2. n \in 1..3 /\ Len(text) = o + n /\ i = o + 1
            <7>1. n < 5 /\ n >= 1 /\ n # 4
              BY <3>1, <4>2, <6>1
            <7>2. Len(text) = o + n
              BY <1>2, <3>1, <6>1
            <7> QED
              BY <2>6, <7>1, <7>2
          <6>3. \A x \in (o + 1)..(o + n) : x = o + 1 \/ (x = o + 2 /\ n >= 2) \/ (x = o + 3 /\ n = 3)
            BY <6>2
          <6> QED
            BY <6>1, <6>2, <6>3
        <5>2. \A x \in i..Len(text) : text[x] # "rbrace"
          <6>1. \A m \in {1, 2, 3} : m <= Len(ps[k]) => text[o + m] = w[m] /\ w[m] # "rbrace"
            BY <1>2, <2>4, <2>5, SMTT(20)
          <6> QED
            BY <1>2, <3>1, <5>1, <6>1, SMTT(20)
        <5>3. Index(text, "rbrace", i) = 0
          BY <1>2, <5>2, IndexIsNone
        <5>4. ~(0 > i + 2)
          BY <1>2
        <5> QED
          BY <5>3, <5>4 DEF matchLogRegex
      <4> QED
        BY <4>1, <4>2
    <3>3. ps[k] \notin Logs
      <4>1. Len(Won) = 5 /\ Len(Lost) = 5
        BY DEF Won, Lost
      <4>2. Len(ps[k]) # 5
        <5>1. PICK n \in Nat : n = Len(ps[k])
          BY <1>2
        <5>2. n < 5
          BY <3>1, <5>1
        <5>3. n # 5
          BY <5>2
        <5> QED
          BY <5>1, <5>3, Zenon
      <4>3. ps[k] # Won /\ ps[k] # Lost
        BY <4>1, <4>2, Zenon
      <4> QED
        BY <4>3, TokenSymbols
    <3> QED
      BY <1>1, <3>2, <3>3 DEF i
  <2> QED
    BY <2>7, <2>8
<1> QED
  BY <1>3, <1>4

-----------------------------------------------------------------------------
(* ReplaceMatches.                                                         *)

\* A turn of ReplaceMatches: what is put out, and where to read on.
Replaced == [out : Seq(Symbols), next : Int]
ReplaceStep(text, length, instead, p, i) ==
    IF i < p.next THEN p
    ELSE IF length[i] = 0 THEN [out |-> Append(p.out, text[i]), next |-> i + 1]
    ELSE [out |-> p.out \o instead[i], next |-> i + length[i]]

\* h is what has been read after each place.
ReplacePass(text, length, instead, h) ==
    /\ h \in [0..Len(text) -> Replaced] /\ h[0] = [out |-> <<>>, next |-> 1]
    /\ \A i \in 1..Len(text) : h[i] = ReplaceStep(text, length, instead, h[i - 1], i)

\* ReplaceMatches reads the text from place to place.
LEMMA ReplaceIsPass ==
    ASSUME NEW text \in Seq(Symbols), NEW length \in [DOMAIN text -> Int],
           NEW instead \in [DOMAIN text -> Seq(Symbols)]
    PROVE  \E h : /\ ReplacePass(text, length, instead, h)
                  /\ ReplaceMatches(text, length, instead) = h[Len(text)].out
<1> DEFINE n == Len(text)
           D == 1..n
           base == [out |-> <<>>, next |-> 1]
           Op(x, i) == ReplaceStep(text, length, instead, x, i)
           F == [i \in D |-> [x \in Replaced |-> Op(x, i)]]
           idx == [i \in DOMAIN text |-> i]
           iter == CHOOSE g : g = [s \in SUBSET (DOMAIN idx) |->
                     IF s = {} THEN base ELSE Op(g[s \ {Max(s)}], idx[Max(s)])]
<1>1. n \in Nat /\ DOMAIN text = D /\ DOMAIN idx = D /\ \A i \in D : text[i] \in Symbols
  OBVIOUS
<1>2. ReplaceMatches(text, length, instead) = iter[DOMAIN idx].out
  BY DEF ReplaceMatches, FoldLeftDomain, FoldLeft, MapThenFoldSet, ReplaceStep
<1>3. base \in Replaced /\ \A x \in Replaced, i \in D : Op(x, i) \in Replaced
  <2>1. <<>> \in Seq(Symbols)
    OBVIOUS
  <2>2. ASSUME NEW x \in Replaced, NEW i \in D PROVE Op(x, i) \in Replaced
    <3>1. Append(x.out, text[i]) \in Seq(Symbols) /\ x.out \o instead[i] \in Seq(Symbols)
      BY <1>1, SMTT(20) DEF Replaced
    <3>2. i + 1 \in Int /\ i + length[i] \in Int
      BY <1>1
    <3> QED
      BY <3>1, <3>2 DEF ReplaceStep, Replaced
  <2> QED
    BY <2>1, <2>2 DEF Replaced
<1> HIDE DEF base, Op
<1>4. F \in [1..n -> [Replaced -> Replaced]] /\ \A x \in Replaced, i \in D : F[i][x] = Op(x, i)
  BY <1>3
<1> HIDE DEF F
<1>5. \A s \in SUBSET D : s # {} => Max(s) \in D
  BY <1>1, MaxIsGreatest
<1>6. \E g : g = [s \in SUBSET (DOMAIN idx) |->
               IF s = {} THEN base ELSE Op(g[s \ {Max(s)}], idx[Max(s)])]
  <2>1. PICK g \in [SUBSET D -> Replaced] : Solves(g, n, base, F)
    BY <1>1, <1>3, <1>4, FoldExists
  <2>2. ASSUME NEW s \in SUBSET D, NEW m, m = Max(s), s # {}
        PROVE  F[m][g[s \ {m}]] = Op(g[s \ {m}], idx[m])
    BY <1>1, <1>4, <1>5, <2>2
  <2>3. g = [s \in SUBSET D |-> IF s = {} THEN base ELSE Op(g[s \ {Max(s)}], idx[Max(s)])]
    BY <2>1, <2>2 DEF Solves
  <2> QED
    BY <1>1, <2>3
<1>7. iter = [s \in SUBSET D |-> IF s = {} THEN base ELSE Op(iter[s \ {Max(s)}], idx[Max(s)])]
  BY <1>1, <1>6
<1> HIDE DEF iter
<1>8. IsFold(iter, n, Replaced, base, F)
  <2>1. ASSUME NEW s \in SUBSET D, NEW m, m = Max(s), s # {}, iter[s \ {m}] \in Replaced
        PROVE  F[m][iter[s \ {m}]] = Op(iter[s \ {m}], idx[m])
    BY <1>1, <1>4, <1>5, <2>1
  <2>2. {} \in SUBSET D
    OBVIOUS
  <2> QED
    BY <1>7, <2>1, <2>2 DEF IsFold
<1>9. PICK h : Takes(h, n, Replaced, base, F) /\ h[n] = iter[D]
  <2> HIDE DEF n, idx
  <2> QED
    BY <1>1, <1>3, <1>4, <1>8, FoldSteps
<1>10. ASSUME NEW i \in 1..n PROVE h[i] = Op(h[i - 1], i)
  <2> HIDE DEF n, idx
  <2>1. i - 1 \in 0..n - 1 /\ (i - 1) + 1 = i /\ i - 1 \in 0..n /\ i \in D
    BY <1>1
  <2>2. h[i] = F[i][h[i - 1]] /\ h[i - 1] \in Replaced
    BY <1>9, <2>1 DEF Takes
  <2> QED
    BY <1>4, <2>1, <2>2
<1>11. ReplacePass(text, length, instead, h)
  BY <1>9, <1>10 DEF Takes, ReplacePass, base, Op
<1> QED
  BY <1>1, <1>2, <1>9, <1>11

\* Piece k of text becomes outs[k]: nothing in it matches, or all of it does.
BecomesPiece(ps, off, length, instead, outs, k) ==
    \/ outs[k] = ps[k] /\ \A j \in 1..Len(ps[k]) : length[off[k - 1] + j] = 0
    \/ /\ Len(ps[k]) >= 1 /\ length[off[k - 1] + 1] = Len(ps[k])
       /\ instead[off[k - 1] + 1] = outs[k]

\* One symbol more of s.
LEMMA SubSeqGrows ==
    ASSUME NEW A, NEW s \in Seq(A), NEW j \in Nat, j + 1 \in 1..Len(s)
    PROVE  SubSeq(s, 1, j + 1) = Append(SubSeq(s, 1, j), s[j + 1])
OBVIOUS

\* The next symbol of s, after x and the ones before.
LEMMA ConcatGrows ==
    ASSUME NEW A, NEW x \in Seq(A), NEW s \in Seq(A), NEW j \in Nat, j + 1 \in 1..Len(s)
    PROVE  Append(x \o SubSeq(s, 1, j), s[j + 1]) = x \o SubSeq(s, 1, j + 1)
<1>1. SubSeq(s, 1, j) \in Seq(A) /\ s[j + 1] \in A
  OBVIOUS
<1>2. ASSUME NEW y \in Seq(A), NEW e \in A PROVE Append(x \o y, e) = x \o Append(y, e)
  BY SMTT(20)
<1> QED
  BY <1>1, <1>2, SubSeqGrows

\* So does every piece of text.
Becomes(ps, text, off, length, instead, outs) ==
    /\ Laid(ps, text, off) /\ outs \in Seq(Seq(Symbols)) /\ Len(outs) = Len(ps)
    /\ length \in [DOMAIN text -> Int] /\ instead \in [DOMAIN text -> Seq(Symbols)]
    /\ \A k \in 1..Len(ps) : BecomesPiece(ps, off, length, instead, outs, k)

\* Then the whole of it becomes outs.
LEMMA ReplaceIsFlat ==
    ASSUME NEW ps, NEW text, NEW off, NEW length, NEW instead, NEW outs,
           Becomes(ps, text, off, length, instead, outs)
    PROVE  ReplaceMatches(text, length, instead) = FlattenSeq(outs)
<1>0. /\ Laid(ps, text, off) /\ outs \in Seq(Seq(Symbols)) /\ Len(outs) = Len(ps)
      /\ length \in [DOMAIN text -> Int] /\ instead \in [DOMAIN text -> Seq(Symbols)]
      /\ \A k \in 1..Len(ps) : BecomesPiece(ps, off, length, instead, outs, k)
  BY DEF Becomes
<1>1. text \in Seq(Symbols) /\ Len(text) \in Nat /\ Len(ps) \in Nat /\ off[Len(ps)] = Len(text)
      /\ off[0] = 0
  BY <1>0, PiecesAreSequences DEF Laid, Layout
<1>2. PICK h : ReplacePass(text, length, instead, h)
               /\ ReplaceMatches(text, length, instead) = h[Len(text)].out
  BY <1>0, <1>1, ReplaceIsPass
<1>3. PICK H : Appends(H, Symbols, outs) /\ H[Len(outs)] = FlattenSeq(outs)
  BY <1>0, FlattenSteps
<1> DEFINE n == Len(ps)
           At0(k) == h[off[k]] = [out |-> H[k], next |-> off[k] + 1]
           T == {k \in 0..n : At0(k)}
<1>4. 0 \in T
  BY <1>0, <1>1, <1>2, <1>3 DEF ReplacePass, Appends
<1>5. ASSUME NEW k \in 0..(n - 1), k \in T PROVE k + 1 \in T
  <2> DEFINE q == k + 1
             p == ps[q]
  <2>1. q \in 1..n /\ q - 1 = k /\ q \in 0..n
    BY <1>1
  <2>2. /\ off[k] \in Nat /\ Len(p) \in Nat /\ off[q] = off[k] + Len(p) /\ off[q] <= Len(text)
        /\ p \in Seq(Symbols)
        /\ \A j \in 1..Len(p) : off[k] + j \in 1..Len(text) /\ text[off[k] + j] = p[j]
    <3> HIDE DEF q
    <3>1. \A j \in 1..Len(p) : off[q - 1] + j \in 1..Len(text) /\ text[off[q - 1] + j] = p[j]
      <4>1. q \in 1..Len(ps) /\ Laid(ps, text, off)
        BY <1>0, <2>1
      <4>2. Placed(ps, text, off, q)
        BY <4>1, PlacedAt, Zenon
      <4> QED
        BY <4>2, Zenon DEF Placed
    <3>2. /\ off[q - 1] \in Nat /\ Len(p) \in Nat /\ off[q] = off[q - 1] + Len(p)
          /\ off[q] <= Len(text) /\ p \in Seq(Symbols)
      BY <1>0, <2>1, PieceAt, SMTT(30)
    <3> QED
      BY <2>1, <3>1, <3>2
  <2> DEFINE o == off[k]
             m == Len(p)
  <2>3. o \in Nat /\ m \in Nat
    BY <2>2
  <2>4. off[q] = o + m /\ o + m <= Len(text) /\ p \in Seq(Symbols)
        /\ \A j \in 1..m : o + j \in 1..Len(text) /\ text[o + j] = p[j]
    BY <2>2
  <2>20. o = off[k] /\ m = Len(p)
    OBVIOUS
  <2> HIDE DEF o, m
  <2> USE <2>3
  <2>5. h[o] = [out |-> H[k], next |-> o + 1] /\ H[k] \in Seq(Symbols) /\ H[q] = H[k] \o outs[q]
        /\ outs[q] \in Seq(Symbols)
    <3>1. k \in 0..Len(outs) - 1 /\ k \in 0..Len(outs) /\ q \in 1..Len(outs)
      BY <1>0, <1>1, <2>1
    <3>2. h[o] = [out |-> H[k], next |-> o + 1]
      BY <1>5, <2>20
    <3>3. H[k] \in Seq(Symbols) /\ H[k + 1] = H[k] \o outs[k + 1]
      BY <1>3, <3>1 DEF Appends
    <3> QED
      BY <1>0, <3>1, <3>2, <3>3
  <2>6. BecomesPiece(ps, off, length, instead, outs, q)
    BY <1>0, <2>1
  <2>7. ASSUME NEW j \in 1..m
        PROVE  h[o + j] = ReplaceStep(text, length, instead, h[o + (j - 1)], o + j)
    <3>1. o + j \in 1..Len(text) /\ (o + j) - 1 = o + (j - 1)
      BY <2>4
    <3> QED
      BY <1>2, <3>1 DEF ReplacePass
  <2>8. CASE outs[q] = p /\ \A j \in 1..m : length[o + j] = 0
    <3> DEFINE So(j) == h[o + j] = [out |-> H[k] \o SubSeq(p, 1, j), next |-> o + j + 1]
               U == {j \in 0..m : So(j)}
    <3>1. 0 \in U
      <4>1. SubSeq(p, 1, 0) = <<>> /\ H[k] \o <<>> = H[k]
        BY <2>4, <2>5
      <4>2. o + 0 = o /\ 0 \in 0..m
        OBVIOUS
      <4>3. So(0)
        BY <2>5, <4>1, <4>2
      <4> HIDE DEF So
      <4> QED
        BY <4>2, <4>3
    <3>2. ASSUME NEW j \in 0..(m - 1), j \in U PROVE j + 1 \in U
      <4>1. j + 1 \in 1..m /\ (j + 1) - 1 = j /\ j + 1 \in 0..m /\ ~(o + (j + 1) < o + j + 1)
            /\ o + (j + 1) = o + j + 1
        BY <2>3
      <4>2. h[o + (j + 1)] = ReplaceStep(text, length, instead, h[o + j], o + (j + 1))
        BY <2>7, <4>1
      <4>3. h[o + j] = [out |-> H[k] \o SubSeq(p, 1, j), next |-> o + j + 1]
        BY <3>2
      <4>4. h[o + (j + 1)] = [out |-> Append(H[k] \o SubSeq(p, 1, j), text[o + (j + 1)]),
                              next |-> (o + (j + 1)) + 1]
        <5> DEFINE x == H[k] \o SubSeq(p, 1, j)
        <5>1. h[o + j] = [out |-> x, next |-> o + j + 1]
          BY <4>3
        <5>2. length[o + (j + 1)] = 0
          BY <2>8, <4>1
        <5> HIDE DEF x
        <5>3. h[o + (j + 1)] = [out |-> Append(x, text[o + (j + 1)]), next |-> (o + (j + 1)) + 1]
          BY <4>1, <4>2, <5>1, <5>2 DEF ReplaceStep
        <5> QED
          BY <5>3 DEF x
      <4>5. text[o + (j + 1)] = p[j + 1]
        BY <2>4, <4>1
      <4>6. Append(H[k] \o SubSeq(p, 1, j), p[j + 1]) = H[k] \o SubSeq(p, 1, j + 1)
        <5>1. j + 1 \in 1..Len(p) /\ j \in Nat
          BY <2>3, <2>20, <4>1
        <5> HIDE DEF p
        <5>2. ASSUME NEW x \in Seq(Symbols), NEW s \in Seq(Symbols), x = H[k], s = p
              PROVE  Append(x \o SubSeq(s, 1, j), s[j + 1]) = x \o SubSeq(s, 1, j + 1)
          <6>1. j + 1 \in 1..Len(s)
            BY <5>1, <5>2
          <6> QED
            BY <5>1, <6>1, ConcatGrows
        <5> QED
          BY <2>4, <2>5, <5>2
      <4> QED
        BY <4>1, <4>4, <4>5, <4>6
    <3>3. m \in U
      <4> HIDE DEF U
      <4> QED
        BY <3>1, <3>2, InductionTo
    <3>4. SubSeq(p, 1, m) = p
      BY <2>4, <2>20, SubSeqFull
    <3> QED
      BY <2>1, <2>4, <2>5, <2>8, <3>3, <3>4
  <2>9. CASE m >= 1 /\ length[o + 1] = m /\ instead[o + 1] = outs[q]
    <3> DEFINE V == {j \in 0..m : j = 0 \/ h[o + j] = [out |-> H[q], next |-> o + 1 + m]}
    <3>1. 0 \in V
      OBVIOUS
    <3>2. ASSUME NEW j \in 0..(m - 1), j \in V PROVE j + 1 \in V
      <4>1. j + 1 \in 1..m /\ (j + 1) - 1 = j /\ j + 1 \in 0..m
        BY <2>3
      <4>2. h[o + (j + 1)] = ReplaceStep(text, length, instead, h[o + j], o + (j + 1))
        BY <2>7, <4>1
      <4>3. CASE j = 0
        <5>1. h[o + 1] = ReplaceStep(text, length, instead, [out |-> H[k], next |-> o + 1], o + 1)
          BY <2>5, <4>2, <4>3
        <5>2. h[o + 1] = [out |-> H[q], next |-> o + 1 + m]
          BY <2>5, <2>9, <5>1 DEF ReplaceStep
        <5> QED
          BY <4>1, <4>3, <5>2
      <4>4. CASE j # 0
        <5>1. h[o + j] = [out |-> H[q], next |-> o + 1 + m] /\ o + (j + 1) < o + 1 + m
          BY <3>2, <4>4
        <5>2. h[o + (j + 1)] = h[o + j]
          BY <4>2, <5>1 DEF ReplaceStep
        <5> QED
          BY <4>1, <5>1, <5>2
      <4> QED
        BY <4>3, <4>4
    <3>3. m \in V
      <4> HIDE DEF V
      <4> QED
        BY <3>1, <3>2, InductionTo
    <3>4. h[o + m] = [out |-> H[q], next |-> o + 1 + m] /\ o + 1 + m = (o + m) + 1
      BY <2>9, <3>3
    <3> QED
      BY <2>1, <2>4, <3>4
  <2> QED
    BY <2>1, <2>6, <2>8, <2>9, <2>20 DEF BecomesPiece
<1>6. n \in T
  <2> HIDE DEF T
  <2> QED
    BY <1>1, <1>4, <1>5, InductionTo
<1>7. h[Len(text)].out = H[n]
  BY <1>1, <1>6
<1> QED
  BY <1>0, <1>2, <1>3, <1>7

\* Pieces replaced by others, or left as they are, are pieces of a text.
LEMMA ReplacedArePieces ==
    ASSUME NEW ps \in Pieces, NEW qs, DOMAIN qs = DOMAIN ps,
           qs = [k \in DOMAIN ps |-> qs[k]],
           \A k \in 1..Len(ps) : qs[k] = ps[k] \/ qs[k] \in Finished
    PROVE  qs \in Pieces /\ Len(qs) = Len(ps)
<1>1. ps \in Seq(Finished \cup Beginnings) /\ \A k \in 1..Len(ps) - 1 : ps[k] \in Finished
  BY DEF Pieces
<1>2. DOMAIN ps = 1..Len(ps) /\ Len(ps) \in Nat /\ \A k \in 1..Len(ps) : ps[k] \in Finished \cup Beginnings
  BY <1>1
<1>3. \A k \in 1..Len(ps) : qs[k] \in Finished \cup Beginnings
  BY <1>2
<1>4. qs \in Seq(Finished \cup Beginnings) /\ Len(qs) = Len(ps)
  BY <1>2, <1>3
<1>5. \A k \in 1..Len(ps) - 1 : qs[k] \in Finished
  <2>1. \A k \in 1..Len(ps) - 1 : k \in 1..Len(ps)
    BY <1>2
  <2> QED
    BY <1>1, <2>1
<1> QED
  BY <1>4, <1>5 DEF Pieces

\* A place of the text is one of a piece.
LEMMA PlaceOf ==
    ASSUME NEW ps, NEW text, NEW off, Laid(ps, text, off), NEW i \in DOMAIN text
    PROVE  \E k \in 1..Len(ps) : \E j \in 1..Len(ps[k]) : i = off[k - 1] + j
<1>1. i \in 1..Len(text) /\ ps \in Seq(Seq(Symbols)) /\ Layout(off, ps, text)
  BY PiecesAreSequences DEF Laid
<1> QED
  BY <1>1, PlaceInPiece, SMTT(30)

\* References leave their titles.
TitledOf(ps) == [k \in DOMAIN ps |-> IF ps[k] \in Refs THEN <<ps[k][5]>> ELSE ps[k]]

\* They are pieces of a text still.
LEMMA TitledPieces ==
    ASSUME NEW ps \in Pieces
    PROVE  TitledOf(ps) \in Pieces /\ Len(TitledOf(ps)) = Len(ps)
           /\ \A k \in 1..Len(ps) : TitledOf(ps)[k] = IF ps[k] \in Refs THEN <<"title">> ELSE ps[k]
<1>1. DOMAIN ps = 1..Len(ps)
  BY DEF Pieces
<1>2. \A k \in 1..Len(ps) : ps[k] \in Refs => ps[k][5] = "title"
  BY TokenSymbols DEF Ref
<1>3. \A k \in 1..Len(ps) : TitledOf(ps)[k] = IF ps[k] \in Refs THEN <<"title">> ELSE ps[k]
  BY <1>1, <1>2 DEF TitledOf
<1>4. <<"title">> \in Finished
  BY DEF Finished
<1>5. DOMAIN TitledOf(ps) = DOMAIN ps /\ TitledOf(ps) = [k \in DOMAIN ps |-> TitledOf(ps)[k]]
  BY DEF TitledOf
<1> QED
  BY <1>3, <1>4, <1>5, ReplacedArePieces

\* The first step of CleanContent leaves the title of each whole reference.
LEMMA TitledText ==
    ASSUME NEW ps, NEW text, NEW off, Laid(ps, text, off)
    PROVE  ReplaceMatches(text, [i \in DOMAIN text |-> lessonRefRegex(text, i)],
                          [i \in DOMAIN text |-> <<At(text, i + 4)>>])
           = FlattenSeq(TitledOf(ps))
<1> DEFINE length == [i \in DOMAIN text |-> lessonRefRegex(text, i)]
           instead == [i \in DOMAIN text |-> <<At(text, i + 4)>>]
           outs == TitledOf(ps)
<1>1. ps \in Pieces /\ text \in Seq(Symbols) /\ Len(text) \in Nat /\ DOMAIN text = 1..Len(text)
  BY DEF Laid
<1>2. outs \in Seq(Seq(Symbols)) /\ Len(outs) = Len(ps)
      /\ \A k \in 1..Len(ps) : outs[k] = IF ps[k] \in Refs THEN <<"title">> ELSE ps[k]
  <2> HIDE DEF outs
  <2>1. outs \in Pieces /\ Len(outs) = Len(ps)
        /\ \A k \in 1..Len(ps) : outs[k] = IF ps[k] \in Refs THEN <<"title">> ELSE ps[k]
    BY <1>1, TitledPieces DEF outs
  <2> QED
    BY <2>1, PiecesAreSequences
<1>3. length \in [DOMAIN text -> Int]
  BY DEF lessonRefRegex
<1>4. instead \in [DOMAIN text -> Seq(Symbols)]
  <2>1. \A i \in DOMAIN text : At(text, i + 4) \in Symbols
    BY <1>1 DEF At, Symbols
  <2> QED
    BY <2>1
<1>5. ASSUME NEW k \in 1..Len(ps) PROVE BecomesPiece(ps, off, length, instead, outs, k)
  <2>1. PICK o \in Nat : o = off[k - 1]
    BY PieceAt
  <2>2. \A j \in 1..Len(ps[k]) : o + j \in DOMAIN text
    BY <1>1, <2>1, PieceAt
  <2>3. \A j \in 1..Len(ps[k]) : length[o + j] = IF j = 1 /\ ps[k] \in Refs THEN 7 ELSE 0
    <3>1. \A j \in 1..Len(ps[k]) : lessonRefRegex(text, o + j) = IF j = 1 /\ ps[k] \in Refs THEN 7 ELSE 0
      BY <2>1, RefMatches
    <3> QED
      BY <2>2, <3>1
  <2>4. CASE ps[k] \notin Refs
    <3>1. outs[k] = ps[k] /\ \A j \in 1..Len(ps[k]) : length[o + j] = 0
      BY <1>2, <2>3, <2>4
    <3> HIDE DEF length, instead, outs
    <3> QED
      BY <2>1, <3>1 DEF BecomesPiece
  <2>5. CASE ps[k] \in Refs
    <3>1. ps[k] = Ref /\ Len(Ref) = 7 /\ Ref[5] = "title"
      BY <2>5, TokenSymbols DEF Ref
    <3>2. 1 \in 1..Len(ps[k]) /\ 5 \in 1..Len(ps[k]) /\ Len(ps[k]) = 7
      BY <3>1
    <3>3. length[o + 1] = 7
      BY <2>3, <2>5, <3>2
    <3>4. At(text, o + 5) = "title"
      <4>1. o + 5 \in 1..Len(text) /\ text[o + 5] = ps[k][5] /\ o + 5 \in Nat
        <5>1. \A j \in 1..Len(ps[k]) :
                off[k - 1] + j \in 1..Len(text) /\ text[off[k - 1] + j] = ps[k][j]
          BY PieceAt
        <5> QED
          BY <2>1, <3>2, <5>1
      <4> QED
        BY <1>1, <3>1, <4>1, AtPlace
    <3>5. instead[o + 1] = <<"title">>
      <4>1. (o + 1) + 4 = o + 5 /\ o + 1 \in DOMAIN text
        BY <2>2, <3>2
      <4> QED
        BY <3>4, <4>1
    <3>6. outs[k] = <<"title">>
      BY <1>2, <2>5
    <3> HIDE DEF length, instead, outs
    <3> QED
      BY <2>1, <3>2, <3>3, <3>5, <3>6 DEF BecomesPiece
  <2> QED
    BY <2>4, <2>5
<1> HIDE DEF length, instead, outs
<1>6. Becomes(ps, text, off, length, instead, outs)
  BY <1>2, <1>3, <1>4, <1>5 DEF Becomes
<1>7. ReplaceMatches(text, length, instead) = FlattenSeq(outs)
  BY <1>6, ReplaceIsFlat
<1> QED
  BY <1>7 DEF length, instead, outs

\* Whole match logs leave nothing.
UnloggedOf(ps) == [k \in DOMAIN ps |-> IF ps[k] \in Logs THEN <<>> ELSE ps[k]]

\* They are pieces of a text still.
LEMMA UnloggedPieces ==
    ASSUME NEW ps \in Pieces
    PROVE  UnloggedOf(ps) \in Pieces /\ Len(UnloggedOf(ps)) = Len(ps)
           /\ \A k \in 1..Len(ps) : UnloggedOf(ps)[k] = IF ps[k] \in Logs THEN <<>> ELSE ps[k]
<1>1. DOMAIN ps = 1..Len(ps)
  BY DEF Pieces
<1>2. \A k \in 1..Len(ps) : UnloggedOf(ps)[k] = IF ps[k] \in Logs THEN <<>> ELSE ps[k]
  BY <1>1 DEF UnloggedOf
<1>3. <<>> \in Finished
  BY DEF Finished
<1>4. DOMAIN UnloggedOf(ps) = DOMAIN ps /\ UnloggedOf(ps) = [k \in DOMAIN ps |-> UnloggedOf(ps)[k]]
  BY DEF UnloggedOf
<1> QED
  BY <1>2, <1>3, <1>4, ReplacedArePieces

\* The second step of CleanContent takes out each whole match log.
LEMMA UnloggedText ==
    ASSUME NEW ps, NEW text, NEW off, Laid(ps, text, off)
    PROVE  ReplaceMatches(text, [i \in DOMAIN text |-> matchLogRegex(text, i)],
                          [i \in DOMAIN text |-> <<>>])
           = FlattenSeq(UnloggedOf(ps))
<1> DEFINE length == [i \in DOMAIN text |-> matchLogRegex(text, i)]
           instead == [i \in DOMAIN text |-> <<>>]
           outs == UnloggedOf(ps)
<1>1. ps \in Pieces /\ text \in Seq(Symbols) /\ Len(text) \in Nat /\ DOMAIN text = 1..Len(text)
  BY DEF Laid
<1>2. outs \in Seq(Seq(Symbols)) /\ Len(outs) = Len(ps)
      /\ \A k \in 1..Len(ps) : outs[k] = IF ps[k] \in Logs THEN <<>> ELSE ps[k]
  <2> HIDE DEF outs
  <2>1. outs \in Pieces /\ Len(outs) = Len(ps)
        /\ \A k \in 1..Len(ps) : outs[k] = IF ps[k] \in Logs THEN <<>> ELSE ps[k]
    BY <1>1, UnloggedPieces DEF outs
  <2> QED
    BY <2>1, PiecesAreSequences
<1>3. length \in [DOMAIN text -> Int]
  <2>1. ASSUME NEW i \in DOMAIN text PROVE matchLogRegex(text, i) \in Int
    <3>1. PICK k \in 1..Len(ps) : \E j \in 1..Len(ps[k]) : i = off[k - 1] + j
      BY PlaceOf
    <3>2. PICK j \in 1..Len(ps[k]) : i = off[k - 1] + j
      BY <3>1
    <3>3. matchLogRegex(text, i) \in {0, 5}
      BY <3>2, LogMatches
    <3> QED
      BY <3>3
  <2> QED
    BY <2>1
<1>4. instead \in [DOMAIN text -> Seq(Symbols)]
  OBVIOUS
<1>5. ASSUME NEW k \in 1..Len(ps) PROVE BecomesPiece(ps, off, length, instead, outs, k)
  <2>1. PICK o \in Nat : o = off[k - 1]
    BY PieceAt
  <2>2. \A j \in 1..Len(ps[k]) : o + j \in DOMAIN text
    BY <1>1, <2>1, PieceAt
  <2>3. \A j \in 1..Len(ps[k]) : length[o + j] = IF j = 1 /\ ps[k] \in Logs THEN 5 ELSE 0
    <3>1. \A j \in 1..Len(ps[k]) : matchLogRegex(text, o + j) = IF j = 1 /\ ps[k] \in Logs THEN 5 ELSE 0
      BY <2>1, LogMatches
    <3> QED
      BY <2>2, <3>1
  <2>4. CASE ps[k] \notin Logs
    <3>1. outs[k] = ps[k] /\ \A j \in 1..Len(ps[k]) : length[o + j] = 0
      BY <1>2, <2>3, <2>4
    <3> HIDE DEF length, instead, outs
    <3> QED
      BY <2>1, <3>1 DEF BecomesPiece
  <2>5. CASE ps[k] \in Logs
    <3>1. 1 \in 1..Len(ps[k]) /\ Len(ps[k]) = 5
      <4>1. ps[k] = Won \/ ps[k] = Lost
        BY <2>5, TokenSymbols
      <4>2. Len(Won) = 5 /\ Len(Lost) = 5
        BY DEF Won, Lost
      <4> QED
        BY <4>1, <4>2
    <3>2. length[o + 1] = 5 /\ instead[o + 1] = <<>> /\ outs[k] = <<>>
      BY <1>2, <2>2, <2>3, <2>5, <3>1
    <3> HIDE DEF length, instead, outs
    <3> QED
      BY <2>1, <3>1, <3>2 DEF BecomesPiece
  <2> QED
    BY <2>4, <2>5
<1> HIDE DEF length, instead, outs
<1>6. Becomes(ps, text, off, length, instead, outs)
  BY <1>2, <1>3, <1>4, <1>5 DEF Becomes
<1>7. ReplaceMatches(text, length, instead) = FlattenSeq(outs)
  BY <1>6, ReplaceIsFlat
<1> QED
  BY <1>7 DEF length, instead, outs

-----------------------------------------------------------------------------
(* ParseLessonRefs.                                                        *)

\* A turn of ParseLessonRefs.
RefStep(text, refs, i) ==
    IF lessonRefRegex(text, i) = 0 THEN refs ELSE Append(refs, <<text[i + 1], text[i + 4]>>)

\* h is what has been found after each place.
RefPass(text, h) ==
    /\ h \in [0..Len(text) -> Seq(Seq(Symbols))] /\ h[0] = <<>>
    /\ \A i \in 1..Len(text) : h[i] = RefStep(text, h[i - 1], i)

\* ParseLessonRefs reads the text from place to place.
LEMMA RefsArePass ==
    ASSUME NEW text \in Seq(Symbols)
    PROVE  \E h : RefPass(text, h) /\ ParseLessonRefs(text) = h[Len(text)]
<1> DEFINE n == Len(text)
           D == 1..n
           X == Seq(Seq(Symbols))
           base == <<>>
           Op(x, i) == RefStep(text, x, i)
           F == [i \in D |-> [x \in X |-> Op(x, i)]]
           idx == [i \in DOMAIN text |-> i]
           iter == CHOOSE g : g = [s \in SUBSET (DOMAIN idx) |->
                     IF s = {} THEN base ELSE Op(g[s \ {Max(s)}], idx[Max(s)])]
<1>1. n \in Nat /\ DOMAIN text = D /\ DOMAIN idx = D /\ \A i \in D : text[i] \in Symbols
  OBVIOUS
<1>2. ParseLessonRefs(text) = iter[DOMAIN idx]
  BY DEF ParseLessonRefs, FoldLeftDomain, FoldLeft, MapThenFoldSet, RefStep
<1>3. base \in X /\ \A x \in X, i \in D : Op(x, i) \in X
  <2>1. ASSUME NEW x \in X, NEW i \in D, lessonRefRegex(text, i) # 0 PROVE Op(x, i) \in X
    <3>1. At(text, i + 6) = "]"
      BY <2>1 DEF lessonRefRegex
    <3>2. i + 6 \in D
      BY <1>1, <3>1 DEF At
    <3>3. i + 1 \in D /\ i + 4 \in D
      BY <1>1, <3>2
    <3>4. <<text[i + 1], text[i + 4]>> \in Seq(Symbols)
      BY <1>1, <3>3
    <3> QED
      BY <3>4 DEF RefStep
  <2>2. ASSUME NEW x \in X, NEW i \in D, lessonRefRegex(text, i) = 0 PROVE Op(x, i) \in X
    BY <2>2 DEF RefStep
  <2>3. base \in X
    OBVIOUS
  <2> HIDE DEF X
  <2> QED
    BY <2>1, <2>2, <2>3
<1> HIDE DEF base, Op, X
<1>4. F \in [1..n -> [X -> X]] /\ \A x \in X, i \in D : F[i][x] = Op(x, i)
  BY <1>3
<1> HIDE DEF F
<1>5. \A s \in SUBSET D : s # {} => Max(s) \in D
  BY <1>1, MaxIsGreatest
<1>6. \E g : g = [s \in SUBSET (DOMAIN idx) |->
               IF s = {} THEN base ELSE Op(g[s \ {Max(s)}], idx[Max(s)])]
  <2>1. PICK g \in [SUBSET D -> X] : Solves(g, n, base, F)
    BY <1>1, <1>3, <1>4, FoldExists
  <2>2. ASSUME NEW s \in SUBSET D, NEW m, m = Max(s), s # {}
        PROVE  F[m][g[s \ {m}]] = Op(g[s \ {m}], idx[m])
    BY <1>1, <1>4, <1>5, <2>2
  <2>3. g = [s \in SUBSET D |-> IF s = {} THEN base ELSE Op(g[s \ {Max(s)}], idx[Max(s)])]
    BY <2>1, <2>2 DEF Solves
  <2> QED
    BY <1>1, <2>3
<1>7. iter = [s \in SUBSET D |-> IF s = {} THEN base ELSE Op(iter[s \ {Max(s)}], idx[Max(s)])]
  BY <1>1, <1>6
<1> HIDE DEF iter
<1>8. IsFold(iter, n, X, base, F)
  <2>1. ASSUME NEW s \in SUBSET D, NEW m, m = Max(s), s # {}, iter[s \ {m}] \in X
        PROVE  F[m][iter[s \ {m}]] = Op(iter[s \ {m}], idx[m])
    BY <1>1, <1>4, <1>5, <2>1
  <2>2. {} \in SUBSET D
    OBVIOUS
  <2> QED
    BY <1>7, <2>1, <2>2 DEF IsFold
<1>9. PICK h : Takes(h, n, X, base, F) /\ h[n] = iter[D]
  <2> HIDE DEF n, idx
  <2> QED
    BY <1>1, <1>3, <1>4, <1>8, FoldSteps, SMTT(20)
<1>10. ASSUME NEW i \in 1..n PROVE h[i] = Op(h[i - 1], i)
  <2> HIDE DEF n, idx
  <2>1. i - 1 \in 0..n - 1 /\ (i - 1) + 1 = i /\ i - 1 \in 0..n /\ i \in D
    BY <1>1
  <2>2. h[i] = F[i][h[i - 1]] /\ h[i - 1] \in X
    BY <1>9, <2>1 DEF Takes
  <2> QED
    BY <1>4, <2>1, <2>2
<1>11. RefPass(text, h)
  BY <1>9, <1>10 DEF Takes, RefPass, base, Op, X
<1> QED
  BY <1>1, <1>2, <1>9, <1>11

\* The references of the pieces are found, in their order.
LEMMA RefsAreMeant ==
    ASSUME NEW ps, NEW text, NEW off, Laid(ps, text, off)
    PROVE  ParseLessonRefs(text) = MeantRefs(ps)
<1> DEFINE outs == [k \in DOMAIN ps |->
                     IF ps[k] \in Refs THEN <<<<ps[k][2], ps[k][5]>>>> ELSE <<>>]
           n == Len(ps)
<1>1. /\ text \in Seq(Symbols) /\ Len(text) \in Nat /\ n \in Nat /\ off[n] = Len(text)
      /\ off[0] = 0 /\ DOMAIN ps = 1..n
  BY PiecesAreSequences DEF Laid, Layout
<1>2. /\ outs \in Seq(Seq(Seq(Symbols))) /\ Len(outs) = n
      /\ \A k \in 1..n : outs[k] = IF ps[k] \in Refs THEN <<<<"id", "title">>>> ELSE <<>>
  <2>1. \A k \in 1..n : ps[k] \in Refs => ps[k][2] = "id" /\ ps[k][5] = "title"
    BY TokenSymbols DEF Ref
  <2>2. \A k \in 1..n : outs[k] = IF ps[k] \in Refs THEN <<<<"id", "title">>>> ELSE <<>>
    BY <1>1, <2>1
  <2>3. <<>> \in Seq(Seq(Symbols)) /\ <<<<"id", "title">>>> \in Seq(Seq(Symbols))
    <3>1. <<"id", "title">> \in Seq(Symbols)
      BY DEF Symbols
    <3> QED
      BY <3>1
  <2>4. \A k \in 1..n : outs[k] \in Seq(Seq(Symbols))
    <3> HIDE DEF outs
    <3> QED
      BY <2>2, <2>3
  <2>5. outs = [k \in 1..n |-> outs[k]]
    BY <1>1
  <2> HIDE DEF outs
  <2> QED
    BY <1>1, <2>2, <2>4, <2>5
<1>3. MeantRefs(ps) = FlattenSeq(outs)
  BY DEF MeantRefs
<1> HIDE DEF outs
<1>4. PICK h : RefPass(text, h) /\ ParseLessonRefs(text) = h[Len(text)]
  BY <1>1, RefsArePass
<1>5. PICK H : Appends(H, Seq(Symbols), outs) /\ H[Len(outs)] = FlattenSeq(outs)
  BY <1>2, FlattenSteps
<1> DEFINE T == {k \in 0..n : h[off[k]] = H[k]}
<1>6. 0 \in T
  BY <1>1, <1>4, <1>5 DEF RefPass, Appends
<1>7. ASSUME NEW q \in 1..n, q - 1 \in T PROVE q \in T
  <2> DEFINE p == ps[q]
             k == q - 1
             o == off[k]
             m == Len(p)
  <2>1. k \in 0..n - 1 /\ q = k + 1 /\ q \in 0..n
    BY <1>1
  <2>2. /\ o \in Nat /\ m \in Nat /\ off[q] = o + m /\ off[q] <= Len(text)
        /\ \A j \in 1..m : o + j \in 1..Len(text)
    BY PieceAt
  <2>3. \A j \in 1..m : lessonRefRegex(text, o + j) = IF j = 1 /\ p \in Refs THEN 7 ELSE 0
    BY RefMatches
  <2>4. p \in Refs => m = 7 /\ text[o + 2] = "id" /\ text[o + 5] = "title"
    <3>1. SUFFICES ASSUME p \in Refs PROVE m = 7 /\ text[o + 2] = "id" /\ text[o + 5] = "title"
      OBVIOUS
    <3>2. p = Ref
      BY <3>1, TokenSymbols
    <3>3. Len(Ref) = 7 /\ Ref[2] = "id" /\ Ref[5] = "title"
      BY DEF Ref
    <3>4. \A j \in 1..m : text[o + j] = p[j]
      BY PieceAt
    <3>5. m = 7
      BY <3>2, <3>3
    <3> HIDE DEF o, m, p
    <3> QED
      BY <3>2, <3>3, <3>4, <3>5
  <2>5. H[q] = H[k] \o outs[q] /\ H[k] \in Seq(Seq(Symbols)) /\ h[o] = H[k]
    <3>1. k \in 0..Len(outs) - 1 /\ k \in 0..Len(outs)
      BY <1>1, <1>2, <2>1
    <3> HIDE DEF k, n
    <3>2. H[k + 1] = H[k] \o outs[k + 1]
      BY <1>5, <3>1 DEF Appends
    <3>3. H[k] \in Seq(Seq(Symbols))
      BY <1>5, <3>1 DEF Appends
    <3> QED
      BY <1>7, <2>1, <3>2, <3>3
  <2>6. outs[q] = IF p \in Refs THEN <<<<"id", "title">>>> ELSE <<>>
    BY <1>2
  <2>7. H[q] = IF p \in Refs THEN Append(H[k], <<"id", "title">>) ELSE H[k]
    <3>1. ASSUME NEW x \in Seq(Seq(Symbols)), NEW e \in Seq(Symbols)
          PROVE  x \o <<>> = x /\ x \o <<e>> = Append(x, e)
      OBVIOUS
    <3>2. <<"id", "title">> \in Seq(Symbols)
      BY DEF Symbols
    <3> HIDE DEF p, k, o
    <3> QED
      BY <2>5, <2>6, <3>1, <3>2
  <2> HIDE DEF p, o, m
  <2>8. ASSUME NEW j \in 1..m
        PROVE  h[o + j] = RefStep(text, h[o + (j - 1)], o + j)
    <3>1. o + j \in 1..Len(text) /\ (o + j) - 1 = o + (j - 1)
      BY <2>2
    <3> QED
      BY <1>4, <3>1 DEF RefPass
  <2> DEFINE V == {j \in 0..m : h[o + j] = IF j = 0 THEN H[k] ELSE H[q]}
  <2>9. 0 \in V
    BY <2>2, <2>5
  <2>10. ASSUME NEW j \in 0..(m - 1), j \in V PROVE j + 1 \in V
    <3>1. j + 1 \in 1..m /\ (j + 1) - 1 = j /\ j + 1 \in 0..m /\ (j + 1 = 1 <=> j = 0)
      BY <2>2
    <3>2. h[o + (j + 1)] = RefStep(text, h[o + j], o + (j + 1))
      BY <2>8, <3>1
    <3>3. CASE j = 0 /\ p \in Refs
      <4>1. lessonRefRegex(text, o + 1) = 7 /\ h[o + 0] = H[k]
        BY <2>3, <2>10, <3>1, <3>3
      <4>2. (o + 1) + 1 = o + 2 /\ (o + 1) + 4 = o + 5
        BY <2>2
      <4>3. o + 0 = o /\ o + (0 + 1) = o + 1
        BY <2>2
      <4>4. h[o + 1] = RefStep(text, H[k], o + 1)
        BY <3>2, <3>3, <4>1, <4>3
      <4>5. h[o + 1] = Append(H[k], <<text[o + 2], text[o + 5]>>)
        BY <4>1, <4>2, <4>4 DEF RefStep
      <4>6. h[o + 1] = H[q]
        BY <2>4, <2>7, <3>3, <4>5
      <4> QED
        BY <3>1, <3>3, <4>6
    <3>4. CASE ~(j = 0 /\ p \in Refs)
      <4>1. lessonRefRegex(text, o + (j + 1)) = 0
        BY <2>3, <3>1, <3>4
      <4>2. h[o + (j + 1)] = h[o + j]
        BY <3>2, <4>1 DEF RefStep
      <4>3. h[o + j] = H[q]
        BY <2>7, <2>10, <3>4
      <4> QED
        BY <3>1, <4>2, <4>3
    <3> QED
      BY <3>3, <3>4
  <2>11. m \in V
    <3> HIDE DEF V
    <3> QED
      BY <2>2, <2>9, <2>10, InductionTo
  <2>12. h[o + m] = H[q]
    <3>1. CASE m = 0
      BY <2>2, <2>4, <2>5, <2>7, <3>1
    <3>2. CASE m # 0
      BY <2>2, <2>11, <3>2
    <3> QED
      BY <3>1, <3>2
  <2> QED
    BY <2>1, <2>2, <2>12
<1>8. n \in T
  <2>1. ASSUME NEW k \in 0..(n - 1), k \in T PROVE k + 1 \in T
    <3>1. k + 1 \in 1..n /\ (k + 1) - 1 = k
      BY <1>1
    <3> HIDE DEF T, n
    <3> QED
      BY <1>7, <2>1, <3>1
  <2> HIDE DEF T
  <2> QED
    BY <1>1, <1>6, <2>1, InductionTo
<1> QED
  BY <1>1, <1>2, <1>3, <1>4, <1>5, <1>8

-----------------------------------------------------------------------------
(* ParseMatchLogToken.                                                     *)

\* What is cut out of the text, where the first m symbols of p stand after place o,
\* is what is cut out of p.
Within(text, o, p, m, a, b, x, y) ==
    /\ text \in Seq(Symbols) /\ p \in Seq(Symbols) /\ o \in Nat /\ m \in Nat
    /\ m <= Len(p) /\ o + m <= Len(text) /\ \A j \in 1..m : text[o + j] = p[j]
    /\ a \in Nat /\ a >= 1 /\ b \in Nat /\ b <= m /\ x = o + a /\ y = o + b

\* The part of s from place a to place b.
Extract(s, a, b) == SubSeq(s, a, b)

\* What lies within a piece is the same in the text.
LEMMA WithinPiece ==
    ASSUME NEW text, NEW o, NEW p, NEW m, NEW a, NEW b, NEW x, NEW y,
           Within(text, o, p, m, a, b, x, y)
    PROVE  Extract(text, x, y) = Extract(p, a, b)
<1>1. /\ text \in Seq(Symbols) /\ p \in Seq(Symbols) /\ Len(p) \in Nat /\ Len(text) \in Nat
      /\ o \in Nat /\ a \in Nat /\ a >= 1 /\ b \in Nat /\ b <= m /\ m \in Nat
      /\ \A j \in 1..m : o + j \in 1..Len(text) /\ j \in 1..Len(p) /\ text[o + j] = p[j]
  BY DEF Within
<1>2. SubSeq(text, o + a, o + b) = SubSeq(p, a, b)
  <2>1. CASE a > b
    <3>1. o + a > o + b
      BY <1>1, <2>1
    <3> QED
      BY <1>1, <2>1, <3>1
  <2>2. CASE a <= b
    <3>1. /\ SubSeq(text, o + a, o + b) \in Seq(Symbols)
          /\ Len(SubSeq(text, o + a, o + b)) = b - a + 1
          /\ \A z \in 1..(b - a + 1) : SubSeq(text, o + a, o + b)[z] = text[o + a + z - 1]
      <4>1. o + a \in 1..Len(text) /\ o + b \in 1..Len(text)
        BY <1>1, <2>2
      <4> QED
        BY <1>1, <2>2, <4>1
    <3>2. /\ SubSeq(p, a, b) \in Seq(Symbols) /\ Len(SubSeq(p, a, b)) = b - a + 1
          /\ \A z \in 1..(b - a + 1) : SubSeq(p, a, b)[z] = p[a + z - 1]
      <4>1. a \in 1..Len(p) /\ b \in 1..Len(p)
        BY <1>1, <2>2
      <4> QED
        BY <1>1, <2>2, <4>1
    <3>3. ASSUME NEW z \in 1..(b - a + 1) PROVE text[o + a + z - 1] = p[a + z - 1]
      <4>1. a + z - 1 \in 1..m /\ o + (a + z - 1) = o + a + z - 1
        BY <1>1, <2>2
      <4> QED
        BY <1>1, <4>1
    <3>4. \A z \in 1..(b - a + 1) : SubSeq(text, o + a, o + b)[z] = SubSeq(p, a, b)[z]
      BY <3>1, <3>2, <3>3
    <3>5. ASSUME NEW s \in Seq(Symbols), NEW t \in Seq(Symbols), Len(s) = Len(t),
                 \A z \in 1..Len(s) : s[z] = t[z]
          PROVE  s = t
      BY <3>5
    <3> QED
      BY <3>1, <3>2, <3>4, <3>5
  <2> QED
    BY <1>1, <2>1, <2>2
<1> QED
  BY <1>2 DEF Within, Extract

\* The first whole match log is found.
LEMMA LogIsMeant ==
    ASSUME NEW ps, NEW text, NEW off, Laid(ps, text, off)
    PROVE  ParseMatchLogToken(text) = MeantLog(ps)
<1> DEFINE n == Len(ps)
           L == {k \in DOMAIN ps : ps[k] \in Logs}
           P == {i \in DOMAIN text : matchLogRegex(text, i) > 0}
<1>1. /\ text \in Seq(Symbols) /\ Len(text) \in Nat /\ n \in Nat /\ ps \in Seq(Seq(Symbols))
      /\ Layout(off, ps, text) /\ DOMAIN ps = 1..n /\ DOMAIN text = 1..Len(text)
  BY PiecesAreSequences DEF Laid
<1>2. ASSUME NEW k \in L
      PROVE  off[k - 1] + 1 \in P /\ matchLogRegex(text, off[k - 1] + 1) = 5 /\ Len(ps[k]) = 5
  <2>1. k \in 1..n /\ ps[k] \in Logs
    BY <1>1
  <2>2. Len(ps[k]) = 5 /\ 1 \in 1..Len(ps[k])
    BY <2>1, TokenSymbols DEF Won, Lost
  <2>3. off[k - 1] + 1 \in 1..Len(text)
    BY <2>1, <2>2, PieceAt
  <2>4. matchLogRegex(text, off[k - 1] + 1) = 5
    BY <2>1, <2>2, LogMatches
  <2> QED
    BY <1>1, <2>2, <2>3, <2>4
<1>3. ASSUME NEW i \in P PROVE \E k \in L : i = off[k - 1] + 1
  <2>1. PICK k \in 1..n : \E j \in 1..Len(ps[k]) : i = off[k - 1] + j
    BY PlaceOf
  <2>2. PICK j \in 1..Len(ps[k]) : i = off[k - 1] + j
    BY <2>1
  <2>3. matchLogRegex(text, off[k - 1] + j) = IF j = 1 /\ ps[k] \in Logs THEN 5 ELSE 0
    BY LogMatches
  <2>4. j = 1 /\ ps[k] \in Logs
    BY <2>2, <2>3
  <2> QED
    BY <1>1, <2>2, <2>4
<1>4. CASE L = {}
  <2>1. P = {}
    BY <1>3, <1>4
  <2> QED
    BY <1>4, <2>1 DEF ParseMatchLogToken, MeantLog
<1>5. CASE L # {}
  <2>1. L \in SUBSET Nat /\ P \in SUBSET Nat /\ P # {}
    <3>1. P # {}
      BY <1>2, <1>5
    <3> QED
      BY <1>1, <3>1
  <2>2. PICK m : m = Min(L)
    OBVIOUS
  <2>3. m \in L /\ \A k \in L : m <= k
    <3> HIDE DEF L
    <3> QED
      BY <1>5, <2>1, <2>2, MinIsLeast
  <2>4. PICK i : i = off[m - 1] + 1
    OBVIOUS
  <2>5. i \in P /\ matchLogRegex(text, i) = 5 /\ Len(ps[m]) = 5 /\ m \in 1..n
    BY <1>1, <1>2, <2>3, <2>4
  <2>6. ASSUME NEW x \in P PROVE i <= x
    <3>1. PICK k \in L : x = off[k - 1] + 1
      BY <1>3
    <3>2. m <= k /\ k \in 1..n /\ m \in 1..n
      BY <1>1, <2>3
    <3>3. m - 1 \in 0..n /\ k - 1 \in (m - 1)..n
      BY <1>1, <3>2
    <3>4. off[m - 1] <= off[k - 1]
      BY <1>1, <3>3, EndsGrow
    <3>5. off[m - 1] \in Nat /\ off[k - 1] \in Nat
      BY <3>2, PieceAt
    <3> QED
      BY <2>4, <3>1, <3>4, <3>5
  <2>7. Min(P) = i
    <3> HIDE DEF P
    <3>1. Min(P) \in P /\ Min(P) <= i
      BY <2>1, <2>5, MinIsLeast
    <3>2. i <= Min(P) /\ i \in Nat /\ Min(P) \in Nat
      BY <2>1, <2>5, <2>6, <3>1
    <3> QED
      BY <3>1, <3>2
  <2>8. ParseMatchLogToken(text) = SubSeq(text, i + 1, i + 3)
    <3>1. ParseMatchLogToken(text) = SubSeq(text, i + 1, i + matchLogRegex(text, i) - 2)
      BY <2>1, <2>7 DEF ParseMatchLogToken
    <3>2. i + 5 - 2 = i + 3
      BY <1>1, <2>5
    <3> HIDE DEF P
    <3> QED
      BY <2>5, <3>1, <3>2
  <2>9. SubSeq(text, i + 1, i + 3) = SubSeq(ps[m], 2, 4)
    <3>1. PICK a, b, x, y : a = 2 /\ b = 4 /\ x = i + 1 /\ y = i + 3
      OBVIOUS
    <3>2. off[m - 1] \in Nat
      BY <2>5, PieceAt
    <3>3. PICK o, p : o = off[m - 1] /\ p = ps[m]
      OBVIOUS
    <3>4. /\ text \in Seq(Symbols) /\ p \in Seq(Symbols) /\ o \in Nat /\ Len(p) = 5
          /\ o + 5 <= Len(text) /\ \A j \in 1..5 : text[o + j] = p[j]
      <4>1. m \in 1..Len(ps)
        BY <2>5
      <4> HIDE DEF n, L, P
      <4>2. /\ ps[m] \in Seq(Symbols) /\ off[m - 1] \in Nat
            /\ off[m] = off[m - 1] + Len(ps[m]) /\ off[m] <= Len(text)
            /\ \A j \in 1..Len(ps[m]) : text[off[m - 1] + j] = ps[m][j]
        BY <4>1, PieceAt
      <4> QED
        BY <1>1, <2>5, <3>3, <4>1, <4>2
    <3>5. Within(text, o, p, 5, a, b, x, y)
      BY <2>4, <3>1, <3>3, <3>4 DEF Within
    <3>6. Extract(text, x, y) = Extract(p, a, b)
      BY <3>5, WithinPiece
    <3> QED
      BY <3>1, <3>3, <3>6 DEF Extract
  <2>10. MeantLog(ps) = SubSeq(ps[m], 2, 4)
    <3>1. MeantLog(ps) = Payload(ps[Min(L)])
      BY <1>5 DEF MeantLog
    <3>2. MeantLog(ps) = SubSeq(ps[m], 2, Len(ps[m]) - 1)
      BY <2>2, <3>1 DEF Payload
    <3>3. 5 - 1 = 4
      OBVIOUS
    <3> QED
      BY <2>5, <3>2, <3>3
  <2> QED
    BY <2>8, <2>9, <2>10
<1> QED
  BY <1>4, <1>5

-----------------------------------------------------------------------------
(* balancedBraces.                                                         *)

\* The states of the scan, and a turn of it.
Scans == [depth : Int, inString : BOOLEAN, escaped : BOOLEAN, close : Int]

BraceStep(text, open, s, i) ==
    IF i < open \/ s.close > 0 THEN s
    ELSE IF s.inString THEN ScanString(s, text[i]) ELSE ScanBrace(s, text[i], i)

\* h is the state of the scan after each place.
BracePass(text, open, h) ==
    /\ h \in [0..Len(text) -> Scans] /\ h[0] = Scanned
    /\ \A i \in 1..Len(text) : h[i] = BraceStep(text, open, h[i - 1], i)

\* balancedBraces reads the text from place to place.
LEMMA BracesArePass ==
    ASSUME NEW text \in Seq(Symbols), NEW open
    PROVE  \E h : BracePass(text, open, h) /\ balancedBraces(text, open) = h[Len(text)].close
<1> DEFINE n == Len(text)
           D == 1..n
           X == Scans
           base == Scanned
           Op(x, i) == BraceStep(text, open, x, i)
           F == [i \in D |-> [x \in X |-> Op(x, i)]]
           idx == [i \in DOMAIN text |-> i]
           iter == CHOOSE g : g = [s \in SUBSET (DOMAIN idx) |->
                     IF s = {} THEN base ELSE Op(g[s \ {Max(s)}], idx[Max(s)])]
<1>1. n \in Nat /\ DOMAIN text = D /\ DOMAIN idx = D /\ \A i \in D : text[i] \in Symbols
  OBVIOUS
<1>2. balancedBraces(text, open) = iter[DOMAIN idx].close
  BY DEF balancedBraces, FoldLeftDomain, FoldLeft, MapThenFoldSet, BraceStep
<1>3. base \in X /\ \A x \in X, i \in D : Op(x, i) \in X
  <2>1. ASSUME NEW x \in X, NEW i \in D PROVE ScanString(x, text[i]) \in X
    BY DEF ScanString, Scans
  <2>2. ASSUME NEW x \in X, NEW i \in D PROVE ScanBrace(x, text[i], i) \in X
    <3>1. i \in Int /\ x.depth + 1 \in Int /\ x.depth - 1 \in Int
      BY <1>1 DEF Scans
    <3>2. CASE text[i] = "quote"
      BY <3>2 DEF ScanBrace, Scans
    <3>3. CASE text[i] = "lbrace"
      BY <3>1, <3>3 DEF ScanBrace, Scans
    <3>4. CASE text[i] = "rbrace"
      <4>1. ScanBrace(x, text[i], i) =
              [x EXCEPT !.depth = @ - 1, !.close = IF x.depth = 1 THEN i ELSE 0]
        BY <3>4 DEF ScanBrace
      <4>2. (IF x.depth = 1 THEN i ELSE 0) \in Int
        BY <3>1
      <4> QED
        BY <3>1, <4>1, <4>2 DEF Scans
    <3>5. CASE text[i] \notin {"quote", "lbrace", "rbrace"}
      BY <3>5 DEF ScanBrace
    <3> QED
      BY <3>2, <3>3, <3>4, <3>5
  <2>3. base \in X
    BY DEF Scanned, Scans
  <2> HIDE DEF X
  <2> QED
    BY <2>1, <2>2, <2>3 DEF BraceStep
<1> HIDE DEF base, Op, X
<1>4. F \in [1..n -> [X -> X]] /\ \A x \in X, i \in D : F[i][x] = Op(x, i)
  BY <1>3
<1> HIDE DEF F
<1>5. \A s \in SUBSET D : s # {} => Max(s) \in D
  BY <1>1, MaxIsGreatest
<1>6. \E g : g = [s \in SUBSET (DOMAIN idx) |->
               IF s = {} THEN base ELSE Op(g[s \ {Max(s)}], idx[Max(s)])]
  <2>1. PICK g \in [SUBSET D -> X] : Solves(g, n, base, F)
    BY <1>1, <1>3, <1>4, FoldExists
  <2>2. ASSUME NEW s \in SUBSET D, NEW m, m = Max(s), s # {}
        PROVE  F[m][g[s \ {m}]] = Op(g[s \ {m}], idx[m])
    BY <1>1, <1>4, <1>5, <2>2
  <2>3. g = [s \in SUBSET D |-> IF s = {} THEN base ELSE Op(g[s \ {Max(s)}], idx[Max(s)])]
    BY <2>1, <2>2 DEF Solves
  <2> QED
    BY <1>1, <2>3
<1>7. iter = [s \in SUBSET D |-> IF s = {} THEN base ELSE Op(iter[s \ {Max(s)}], idx[Max(s)])]
  BY <1>1, <1>6
<1> HIDE DEF iter
<1>8. IsFold(iter, n, X, base, F)
  <2>1. ASSUME NEW s \in SUBSET D, NEW m, m = Max(s), s # {}, iter[s \ {m}] \in X
        PROVE  F[m][iter[s \ {m}]] = Op(iter[s \ {m}], idx[m])
    BY <1>1, <1>4, <1>5, <2>1
  <2>2. {} \in SUBSET D
    OBVIOUS
  <2> QED
    BY <1>7, <2>1, <2>2 DEF IsFold
<1>9. PICK h : Takes(h, n, X, base, F) /\ h[n] = iter[D]
  <2> HIDE DEF n, idx
  <2> QED
    BY <1>1, <1>3, <1>4, <1>8, FoldSteps, SMTT(20)
<1>10. ASSUME NEW i \in 1..n PROVE h[i] = Op(h[i - 1], i)
  <2> HIDE DEF n, idx
  <2>1. i - 1 \in 0..n - 1 /\ (i - 1) + 1 = i /\ i - 1 \in 0..n /\ i \in D
    BY <1>1
  <2>2. h[i] = F[i][h[i - 1]] /\ h[i - 1] \in X
    BY <1>9, <2>1 DEF Takes
  <2> QED
    BY <1>4, <2>1, <2>2
<1>11. BracePass(text, open, h)
  BY <1>9, <1>10 DEF Takes, BracePass, base, Op, X
<1> QED
  BY <1>1, <1>2, <1>9, <1>11

\* Where a scan can be: at some depth outside of strings, in a string, after a
\* backslash in one, or at its end.
Outside(s, d) == s \in Scans /\ s.close = 0 /\ s.depth = d /\ ~s.inString /\ ~s.escaped
Inside(s, d) == s \in Scans /\ s.close = 0 /\ s.depth = d /\ s.inString /\ ~s.escaped
Escaping(s, d) == s \in Scans /\ s.close = 0 /\ s.depth = d /\ s.inString /\ s.escaped
Ended(s, i) == s \in Scans /\ s.close = i

\* One character further.
LEMMA ScansOutside ==
    ASSUME NEW text, NEW open, NEW i \in Int, ~(i < open), NEW d \in Int, NEW s, Outside(s, d),
           NEW t, t = BraceStep(text, open, s, i)
    PROVE  /\ text[i] = "lbrace" => Outside(t, d + 1)
           /\ text[i] = "rbrace" => IF d = 1 THEN Ended(t, i) ELSE Outside(t, d - 1)
           /\ text[i] = "quote" => Inside(t, d)
           /\ text[i] \notin {"quote", "lbrace", "rbrace"} => Outside(t, d)
<1> USE DEF Outside
<1>1. t = ScanBrace(s, text[i], i)
  BY DEF BraceStep
<1>2. CASE text[i] = "lbrace"
  <2>1. t = [s EXCEPT !.depth = @ + 1]
    BY <1>1, <1>2 DEF ScanBrace
  <2>2. Outside(t, d + 1)
    BY <2>1 DEF Scans
  <2> QED
    BY <1>2, <2>2
<1>3. CASE text[i] = "rbrace"
  <2>1. PICK a \in Int, c \in Int : a = d - 1 /\ c = IF d = 1 THEN i ELSE 0
    OBVIOUS
  <2>2. t = [s EXCEPT !.depth = @ - 1, !.close = IF s.depth = 1 THEN i ELSE 0]
    BY <1>1, <1>3 DEF ScanBrace
  <2>3. t = [s EXCEPT !.depth = a, !.close = c]
    BY <2>1, <2>2
  <2>4. t \in Scans /\ t.close = c /\ t.depth = a /\ ~t.inString /\ ~t.escaped
    BY <2>3 DEF Scans
  <2> QED
    BY <1>3, <2>1, <2>4 DEF Ended
<1>4. CASE text[i] = "quote"
  <2>1. t = [s EXCEPT !.inString = TRUE]
    BY <1>1, <1>4 DEF ScanBrace
  <2>2. Inside(t, d)
    BY <2>1 DEF Scans, Inside
  <2> QED
    BY <1>4, <2>2
<1>5. CASE text[i] \notin {"quote", "lbrace", "rbrace"}
  BY <1>1, <1>5 DEF ScanBrace
<1> QED
  BY <1>2, <1>3, <1>4, <1>5

\* A quote ends the string, unless a backslash is before it.
LEMMA ScansInside ==
    ASSUME NEW text, NEW open, NEW i \in Int, ~(i < open), NEW d \in Int, NEW s,
           NEW t, t = BraceStep(text, open, s, i)
    PROVE  /\ Inside(s, d) /\ text[i] = "\\" => Escaping(t, d)
           /\ Inside(s, d) /\ text[i] = "quote" => Outside(t, d)
           /\ Inside(s, d) /\ text[i] \notin {"quote", "\\"} => Inside(t, d)
           /\ Escaping(s, d) => Inside(t, d)
<1>1. CASE Inside(s, d)
  <2>1. PICK q \in BOOLEAN, e \in BOOLEAN : (e <=> text[i] = "\\") /\ (q <=> text[i] # "quote")
    OBVIOUS
  <2>2. t = [s EXCEPT !.escaped = (text[i] = "\\"), !.inString = (text[i] # "quote")]
    BY <1>1 DEF BraceStep, ScanString, Inside
  <2>3. t = [s EXCEPT !.escaped = e, !.inString = q]
    BY <2>1, <2>2
  <2>4. t \in Scans /\ t.close = 0 /\ t.depth = d /\ (t.inString <=> q) /\ (t.escaped <=> e)
    BY <1>1, <2>3 DEF Scans, Inside
  <2> QED
    BY <1>1, <2>1, <2>4 DEF Inside, Outside, Escaping
<1>2. CASE Escaping(s, d)
  <2>1. t = [s EXCEPT !.escaped = FALSE]
    BY <1>2 DEF BraceStep, ScanString, Escaping
  <2>2. Inside(t, d)
    BY <1>2, <2>1 DEF Scans, Escaping, Inside
  <2> QED
    BY <1>2, <2>2 DEF Inside, Escaping
<1> QED
  BY <1>1, <1>2

\* Nothing is counted before the place where the scan opens.
LEMMA ScanWaits ==
    ASSUME NEW text \in Seq(Symbols), NEW open \in 1..Len(text), NEW h, BracePass(text, open, h)
    PROVE  h[open - 1] = Scanned
<1> DEFINE T == {k \in 0..(open - 1) : h[k] = Scanned}
<1>1. 0 \in T
  BY DEF BracePass
<1>2. ASSUME NEW k \in 0..((open - 1) - 1), k \in T PROVE k + 1 \in T
  <2>1. k + 1 \in 1..Len(text) /\ (k + 1) - 1 = k /\ k + 1 < open /\ k + 1 \in 0..(open - 1)
    OBVIOUS
  <2>2. h[k + 1] = BraceStep(text, open, h[k], k + 1)
    BY <2>1 DEF BracePass
  <2>3. h[k + 1] = h[k]
    BY <2>1, <2>2 DEF BraceStep
  <2> QED
    BY <1>2, <2>1, <2>3
<1>3. open - 1 \in Nat
  OBVIOUS
<1>4. open - 1 \in T
  <2> HIDE DEF T
  <2> QED
    BY <1>1, <1>2, <1>3, InductionTo
<1> QED
  BY <1>4

\* A scan that has found its brace keeps it.
LEMMA ScanKeeps ==
    ASSUME NEW text \in Seq(Symbols), NEW open, NEW h, BracePass(text, open, h),
           NEW c \in 1..Len(text), h[c].close > 0
    PROVE  h[Len(text)] = h[c]
<1> DEFINE n == Len(text)
           T == {k \in 0..(n - c) : h[c + k] = h[c]}
<1>1. 0 \in T /\ n \in Nat /\ n - c \in Nat
  OBVIOUS
<1>2. ASSUME NEW k \in 0..((n - c) - 1), k \in T PROVE k + 1 \in T
  <2>1. c + (k + 1) \in 1..n /\ (c + (k + 1)) - 1 = c + k /\ k + 1 \in 0..(n - c)
    BY <1>1
  <2>2. h[c + (k + 1)] = BraceStep(text, open, h[c + k], c + (k + 1))
    BY <2>1 DEF BracePass
  <2>3. h[c + k] = h[c]
    BY <1>2
  <2>4. h[c + (k + 1)] = h[c]
    BY <2>2, <2>3 DEF BraceStep
  <2> QED
    BY <2>1, <2>4
<1>3. n - c \in T
  <2> HIDE DEF T
  <2> QED
    BY <1>1, <1>2, InductionTo
<1>4. c + (n - c) = n
  BY <1>1
<1> QED
  BY <1>3, <1>4

\* The symbols of token w up to m stand in the text from place o on, all of it or up to
\* the end of the text.
PrepAt(text, o, w, m) ==
    /\ text \in Seq(Symbols) /\ o \in Nat /\ m \in 2..Len(w) /\ o + m <= Len(text)
    /\ \A j \in 1..m : text[o + j] = w[j]
    /\ m < Len(w) => o + m = Len(text)

\* S is how the scan of those goes.
Walks(S, o, w, m) ==
    /\ Outside(S[1], 0)
    /\ \A i, j \in 1..m, d, e \in Int : j = i + 1 =>
         /\ Outside(S[i], d) /\ w[j] = "lbrace" /\ e = d + 1 => Outside(S[j], e)
         /\ Outside(S[i], d) /\ w[j] = "rbrace" /\ e = d - 1 /\ d # 1 => Outside(S[j], e)
         /\ Outside(S[i], d) /\ w[j] = "rbrace" /\ d = 1 => Ended(S[j], o + j)
         /\ Outside(S[i], d) /\ w[j] = "quote" => Inside(S[j], d)
         /\ Outside(S[i], d) /\ w[j] \notin {"quote", "lbrace", "rbrace"} => Outside(S[j], d)
         /\ Inside(S[i], d) /\ w[j] = "\\" => Escaping(S[j], d)
         /\ Inside(S[i], d) /\ w[j] = "quote" => Outside(S[j], d)
         /\ Inside(S[i], d) /\ w[j] \notin {"quote", "\\"} => Inside(S[j], d)
         /\ Escaping(S[i], d) => Inside(S[j], d)

\* The scan of a token in the text, from its first brace on, goes so.
LEMMA PrepWalks ==
    ASSUME NEW text, NEW o, NEW w, NEW m, PrepAt(text, o, w, m), NEW h, BracePass(text, o + 2, h)
    PROVE  \E S : Walks(S, o, w, m) /\ \A j \in 1..m : S[j] = h[o + j]
<1> DEFINE S == [j \in 1..m |-> h[o + j]]
<1>1. /\ text \in Seq(Symbols) /\ o \in Nat /\ m \in Nat /\ m >= 2 /\ Len(text) \in Nat /\ o + m <= Len(text)
      /\ \A j \in 1..m : text[o + j] = w[j]
  BY DEF PrepAt
<1>2. \A j \in 1..m : S[j] = h[o + j]
  OBVIOUS
<1>3. Outside(S[1], 0)
  <2>1. o + 2 \in 1..Len(text) /\ (o + 2) - 1 = o + 1 /\ 1 \in 1..m
    BY <1>1
  <2>2. h[o + 1] = Scanned
    BY <1>1, <2>1, ScanWaits
  <2>3. S[1] = Scanned
    BY <1>2, <2>1, <2>2
  <2> HIDE DEF S
  <2> QED
    BY <2>3 DEF Outside, Scanned, Scans
<1> HIDE DEF S
<1>4. ASSUME NEW i \in 1..m, NEW j \in 1..m, NEW d \in Int, NEW e \in Int, j = i + 1
      PROVE  /\ Outside(S[i], d) /\ w[j] = "lbrace" /\ e = d + 1 => Outside(S[j], e)
             /\ Outside(S[i], d) /\ w[j] = "rbrace" /\ e = d - 1 /\ d # 1 => Outside(S[j], e)
             /\ Outside(S[i], d) /\ w[j] = "rbrace" /\ d = 1 => Ended(S[j], o + j)
             /\ Outside(S[i], d) /\ w[j] = "quote" => Inside(S[j], d)
             /\ Outside(S[i], d) /\ w[j] \notin {"quote", "lbrace", "rbrace"} => Outside(S[j], d)
             /\ Inside(S[i], d) /\ w[j] = "\\" => Escaping(S[j], d)
             /\ Inside(S[i], d) /\ w[j] = "quote" => Outside(S[j], d)
             /\ Inside(S[i], d) /\ w[j] \notin {"quote", "\\"} => Inside(S[j], d)
             /\ Escaping(S[i], d) => Inside(S[j], d)
  <2>1. PICK x \in Int : x = o + j
    BY <1>1
  <2>2. x \in 1..Len(text) /\ x - 1 = o + i /\ ~(x < o + 2)
    BY <1>1, <1>4, <2>1
  <2>3. text[x] = w[j]
    BY <1>1, <2>1
  <2>4. h[x] = BraceStep(text, o + 2, h[x - 1], x)
    BY <2>2 DEF BracePass
  <2>5. S[j] = BraceStep(text, o + 2, S[i], x)
    BY <1>2, <2>1, <2>2, <2>4
  <2>6. PICK open, s, t : open = o + 2 /\ s = S[i] /\ t = S[j]
    OBVIOUS
  <2>7. t = BraceStep(text, open, s, x) /\ ~(x < open)
    BY <2>2, <2>5, <2>6
  <2>8. Outside(s, d) => /\ text[x] = "lbrace" => Outside(t, d + 1)
                         /\ text[x] = "rbrace" => IF d = 1 THEN Ended(t, x) ELSE Outside(t, d - 1)
                         /\ text[x] = "quote" => Inside(t, d)
                         /\ text[x] \notin {"quote", "lbrace", "rbrace"} => Outside(t, d)
    BY <2>7, ScansOutside
  <2>9. /\ Inside(s, d) /\ text[x] = "\\" => Escaping(t, d)
        /\ Inside(s, d) /\ text[x] = "quote" => Outside(t, d)
        /\ Inside(s, d) /\ text[x] \notin {"quote", "\\"} => Inside(t, d)
        /\ Escaping(s, d) => Inside(t, d)
    BY <2>7, ScansInside
  <2> QED
    BY <2>1, <2>3, <2>6, <2>8, <2>9
<1>5. Walks(S, o, w, m)
  BY <1>3, <1>4 DEF Walks
<1> QED
  BY <1>2, <1>5

\* The scan ends with the last brace of a token, whatever braces are in its strings.
WalkEnds(S, o, w, m) ==
    IF m < Len(w) - 1 THEN S[m].close = 0 ELSE S[Len(w) - 1].close = o + (Len(w) - 1)

\* An object without strings.
LEMMA AdjustWalk ==
    ASSUME NEW S, NEW o \in Nat, NEW m \in 2..Len(Adjust), Walks(S, o, Adjust, m)
    PROVE  WalkEnds(S, o, Adjust, m)
<1>1. /\ Len(Adjust) = 5 /\ m \in 2..5 /\ Adjust[2] = "lbrace" /\ Adjust[3] = "adjust"
      /\ Adjust[4] = "rbrace"
  BY DEF Adjust
<1>2. Outside(S[2], 1)
  BY <1>1 DEF Walks
<1>3. m >= 3 => Outside(S[3], 1)
  BY <1>1, <1>2 DEF Walks
<1>4. m >= 4 => Ended(S[4], o + 4)
  BY <1>1, <1>3 DEF Walks
<1> QED
  BY <1>1, <1>2, <1>3, <1>4 DEF WalkEnds, Outside, Ended

\* So is this one.
LEMMA EditWalk ==
    ASSUME NEW S, NEW o \in Nat, NEW m \in 2..Len(Edit), Walks(S, o, Edit, m)
    PROVE  WalkEnds(S, o, Edit, m)
<1>1. /\ Len(Edit) = 5 /\ m \in 2..5 /\ Edit[2] = "lbrace" /\ Edit[3] = "edit"
      /\ Edit[4] = "rbrace"
  BY DEF Edit
<1>2. Outside(S[2], 1)
  BY <1>1 DEF Walks
<1>3. m >= 3 => Outside(S[3], 1)
  BY <1>1, <1>2 DEF Walks
<1>4. m >= 4 => Ended(S[4], o + 4)
  BY <1>1, <1>3 DEF Walks
<1> QED
  BY <1>1, <1>2, <1>3, <1>4 DEF WalkEnds, Outside, Ended

\* The brace in the string is not counted.
LEMMA CreateWalk ==
    ASSUME NEW S, NEW o \in Nat, NEW m \in 2..Len(Create), Walks(S, o, Create, m)
    PROVE  WalkEnds(S, o, Create, m)
<1>1. /\ Len(Create) = 8 /\ m \in 2..8 /\ Create[2] = "lbrace" /\ Create[3] = "create"
      /\ Create[4] = "quote" /\ Create[5] = "rbrace" /\ Create[6] = "quote" /\ Create[7] = "rbrace"
  BY DEF Create
<1>2. Outside(S[2], 1)
  BY <1>1 DEF Walks
<1>3. m >= 3 => Outside(S[3], 1)
  BY <1>1, <1>2 DEF Walks
<1>4. m >= 4 => Inside(S[4], 1)
  BY <1>1, <1>3 DEF Walks
<1>5. m >= 5 => Inside(S[5], 1)
  BY <1>1, <1>4 DEF Walks
<1>6. m >= 6 => Outside(S[6], 1)
  BY <1>1, <1>5 DEF Walks
<1>7. m >= 7 => Ended(S[7], o + 7)
  BY <1>1, <1>6 DEF Walks
<1> QED
  BY <1>1, <1>2, <1>3, <1>4, <1>5, <1>6, <1>7 DEF WalkEnds, Outside, Inside, Ended

\* The escaped quote does not end the string, and the object in the object ends first.
LEMMA DrillsWalk ==
    ASSUME NEW S, NEW o \in Nat, NEW m \in 2..Len(Drills), Walks(S, o, Drills, m)
    PROVE  WalkEnds(S, o, Drills, m)
<1>1. /\ Len(Drills) = 13 /\ m \in 2..13 /\ Drills[2] = "lbrace" /\ Drills[3] = "create"
      /\ Drills[4] = "quote" /\ Drills[5] = "\\" /\ Drills[6] = "quote" /\ Drills[7] = "lbrace"
      /\ Drills[8] = "quote" /\ Drills[9] = "lbrace" /\ Drills[10] = "word"
      /\ Drills[11] = "rbrace" /\ Drills[12] = "rbrace"
  BY DEF Drills
<1>2. Outside(S[2], 1)
  BY <1>1 DEF Walks
<1>3. m >= 3 => Outside(S[3], 1)
  BY <1>1, <1>2 DEF Walks
<1>4. m >= 4 => Inside(S[4], 1)
  BY <1>1, <1>3 DEF Walks
<1>5. m >= 5 => Escaping(S[5], 1)
  BY <1>1, <1>4 DEF Walks
<1>6. m >= 6 => Inside(S[6], 1)
  BY <1>1, <1>5 DEF Walks
<1>7. m >= 7 => Inside(S[7], 1)
  BY <1>1, <1>6 DEF Walks
<1>8. m >= 8 => Outside(S[8], 1)
  BY <1>1, <1>7 DEF Walks
<1>9. m >= 9 => Outside(S[9], 2)
  BY <1>1, <1>8 DEF Walks
<1>10. m >= 10 => Outside(S[10], 2)
  BY <1>1, <1>9 DEF Walks
<1>11. m >= 11 => Outside(S[11], 1)
  BY <1>1, <1>10 DEF Walks
<1>12. m >= 12 => Ended(S[12], o + 12)
  BY <1>1, <1>11 DEF Walks
<1> QED
  BY <1>1, <1>2, <1>3, <1>4, <1>5, <1>6, <1>7, <1>8, <1>9, <1>10, <1>11, <1>12
  DEF WalkEnds, Outside, Inside, Escaping, Ended

\* What the prep tokens have in common.
LEMMA PrepSymbols ==
    ASSUME NEW w \in Preps
    PROVE  /\ w \in Seq(Symbols) /\ Len(w) \in Nat /\ Len(w) >= 5 /\ w \in Wholes
           /\ w[1] = "[PREP:" /\ w[2] = "lbrace" /\ w[Len(w) - 1] = "rbrace" /\ w[Len(w)] = "]"
           /\ \A j \in 1..(Len(w) - 1) : w[j] # "]"
           /\ w[3] \in {"create", "adjust", "edit"}
<1>1. w \in Wholes /\ w \in {Adjust, Create, Drills, Edit}
  BY TokenSymbols DEF Wholes
<1>2. w \in Seq(Symbols) /\ Len(w) \in Nat
  BY <1>1, WholeSymbols
<1>3. CASE w = Adjust
  BY <1>1, <1>2, <1>3 DEF Adjust
<1>4. CASE w = Create
  BY <1>1, <1>2, <1>4 DEF Create
<1>5. CASE w = Drills
  BY <1>1, <1>2, <1>5 DEF Drills
<1>6. CASE w = Edit
  BY <1>1, <1>2, <1>6 DEF Edit
<1> QED
  BY <1>1, <1>3, <1>4, <1>5, <1>6

\* The brace that the scan finds is the last one of the token, if it is in the text.
LEMMA PrepScan ==
    ASSUME NEW text, NEW o, NEW w \in Preps, NEW m, PrepAt(text, o, w, m)
    PROVE  balancedBraces(text, o + 2) = IF m < Len(w) - 1 THEN 0 ELSE o + (Len(w) - 1)
<1>1. /\ text \in Seq(Symbols) /\ o \in Nat /\ m \in 2..Len(w) /\ m \in Nat /\ m >= 2
      /\ Len(text) \in Nat /\ o + m <= Len(text)
      /\ m < Len(w) => o + m = Len(text)
  BY DEF PrepAt
<1>2. PICK h : BracePass(text, o + 2, h) /\ balancedBraces(text, o + 2) = h[Len(text)].close
  BY <1>1, BracesArePass
<1>3. PICK S : Walks(S, o, w, m) /\ \A j \in 1..m : S[j] = h[o + j]
  BY <1>2, PrepWalks
<1>4. WalkEnds(S, o, w, m)
  <2>1. w \in {Adjust, Create, Drills, Edit}
    BY TokenSymbols
  <2> QED
    BY <1>1, <1>3, <2>1, AdjustWalk, CreateWalk, DrillsWalk, EditWalk
<1>5. Len(w) \in Nat /\ Len(w) >= 5
  BY PrepSymbols
<1>6. CASE m < Len(w) - 1
  <2>1. S[m].close = 0 /\ S[m] = h[o + m] /\ o + m = Len(text)
    BY <1>1, <1>3, <1>4, <1>5, <1>6 DEF WalkEnds
  <2> QED
    BY <1>2, <1>6, <2>1
<1>7. CASE ~(m < Len(w) - 1)
  <2>1. PICK c : c = o + (Len(w) - 1)
    OBVIOUS
  <2>2. Len(w) - 1 \in 1..m /\ c \in 1..Len(text) /\ c > 0
    BY <1>1, <1>5, <1>7, <2>1
  <2>3. h[c].close = c
    BY <1>3, <1>4, <1>7, <2>1, <2>2 DEF WalkEnds
  <2>4. h[Len(text)] = h[c]
    BY <1>1, <1>2, <2>2, <2>3, ScanKeeps
  <2> QED
    BY <1>2, <1>7, <2>1, <2>3, <2>4
<1> QED
  BY <1>6, <1>7

-----------------------------------------------------------------------------
(* findMatchPrepPayloadFrom.                                               *)

\* Piece k opens a preparation, w.
OpensPrep(ps, text, off, k, w) ==
    /\ Laid(ps, text, off) /\ k \in 1..Len(ps) /\ w \in Preps
    /\ Opens(ps, text, off, k, w)

\* The pieces that open one.
Opened(ps) == {k \in 1..Len(ps) : Len(ps[k]) >= 1 /\ ps[k][1] = "[PREP:"}

\* Such a piece is a preparation, or was cut off in one.
LEMMA OpenedIs ==
    ASSUME NEW ps, NEW text, NEW off, Laid(ps, text, off), NEW k \in Opened(ps)
    PROVE  \E w : OpensPrep(ps, text, off, k, w)
<1>1. k \in 1..Len(ps) /\ Len(ps[k]) \in Nat /\ 1 \in 1..Len(ps[k]) /\ ps[k][1] = "[PREP:"
  BY PieceAt DEF Opened
<1>2. PICK w : Opens(ps, text, off, k, w)
  BY <1>1, OpeningOf DEF Openings
<1>3. w \in Wholes /\ w[1] = "[PREP:"
  BY <1>1, <1>2 DEF Opens
<1>4. w \in Preps
  BY <1>3, WholeSymbols, TokenSymbols
<1> QED
  BY <1>1, <1>2, <1>4 DEF OpensPrep

\* How far piece k goes, and what of it stands in the text.
LEMMA OpensPrepAt ==
    ASSUME NEW ps, NEW text, NEW off, NEW k, NEW w, OpensPrep(ps, text, off, k, w),
           NEW o, o = off[k - 1], NEW m, m = Len(ps[k])
    PROVE  /\ o \in Nat /\ m \in 1..Len(w) /\ text \in Seq(Symbols) /\ Len(text) \in Nat
           /\ off[k] = o + m /\ o + m <= Len(text)
           /\ \A j \in 1..m : text[o + j] = w[j]
           /\ m < Len(w) => o + m = Len(text)
           /\ m = Len(w) => ps[k] = w
           /\ m < Len(w) => ps[k] \in Beginnings
<1>1. /\ Laid(ps, text, off) /\ k \in 1..Len(ps) /\ w \in Seq(Symbols) /\ Len(w) \in Nat
      /\ Len(ps[k]) >= 1 /\ ps[k][1] = w[1] /\ w[1] = "[PREP:"
      /\ \A j \in 1..Len(ps[k]) : j \in 1..Len(w) /\ text[off[k - 1] + j] = w[j]
      /\ ps[k] = w \/ (off[k] = Len(text) /\ Len(ps[k]) < Len(w))
  BY PrepSymbols DEF OpensPrep, Opens
<1>2. o \in Nat /\ m \in Nat /\ off[k] = o + m /\ o + m <= Len(text) /\ Len(text) \in Nat
  BY <1>1, PieceAt
<1>3. m \in 1..Len(w)
  <2>1. m \in 1..m
    BY <1>1, <1>2
  <2> QED
    BY <1>1, <1>2, <2>1
<1>4. text \in Seq(Symbols)
  BY <1>1 DEF Laid
<1>5. m < Len(w) => ps[k] # w
  BY <1>1, <1>2
<1>6. ASSUME m < Len(w) PROVE ps[k] \in Beginnings
  <2>1. ps[k] \in Finished \/ ps[k] \in Beginnings
    BY <1>1, PieceAt
  <2>2. ASSUME ps[k] \in Finished PROVE FALSE
    <3>1. PICK p : p = ps[k]
      OBVIOUS
    <3>2. p[1] = "[PREP:" /\ Len(p) = m /\ p \in Finished /\ \A j \in 1..m : p[j] = w[j]
      <4>1. \A j \in 1..m : text[o + j] = ps[k][j]
        BY <1>1, PieceAt
      <4> QED
        BY <1>1, <2>2, <3>1, <4>1
    <3>3. p \notin {<<"title">>, <<>>}
      BY <1>3, <3>2
    <3>4. p \in Preps
      BY <3>2, <3>3, WholeSymbols, TokenSymbols DEF Finished
    <3>5. Len(p) \in Nat /\ Len(p) >= 5 /\ p[Len(p)] = "]"
      BY <3>4, PrepSymbols
    <3>6. w[m] = "]" /\ m \in 1..(Len(w) - 1)
      BY <1>1, <1>3, <1>6, <3>2, <3>5
    <3>7. w \in Preps
      BY DEF OpensPrep
    <3> QED
      BY <3>6, <3>7, PrepSymbols
  <2> QED
    BY <2>1, <2>2
<1> QED
  BY <1>1, <1>2, <1>3, <1>4, <1>5, <1>6

\* The payload of piece k, if it stands in the text with its last brace.
Braced(text, o, w, m) ==
    /\ m = 1 => Index(text, "lbrace", o + 1) = 0
    /\ m > 1 => /\ Index(text, "lbrace", o + 1) = o + 2
                /\ balancedBraces(text, o + 2) = IF m < Len(w) - 1 THEN 0 ELSE o + (Len(w) - 1)

\* The search in the text finds no more than the token of the piece.
LEMMA PrepFound ==
    ASSUME NEW ps, NEW text, NEW off, NEW k, NEW w, OpensPrep(ps, text, off, k, w),
           NEW o, o = off[k - 1], NEW m, m = Len(ps[k])
    PROVE  Braced(text, o, w, m)
<1>1. /\ o \in Nat /\ m \in 1..Len(w) /\ text \in Seq(Symbols) /\ Len(text) \in Nat
      /\ o + m <= Len(text)
      /\ \A j \in 1..m : text[o + j] = w[j]
      /\ m < Len(w) => o + m = Len(text)
  BY OpensPrepAt
<1>2. w \in Preps /\ Len(w) \in Nat /\ Len(w) >= 5 /\ w[1] = "[PREP:" /\ w[2] = "lbrace"
  BY PrepSymbols DEF OpensPrep
<1>3. text[o + 1] # "lbrace" /\ o + 1 \in Nat /\ o + 1 >= 1
  BY <1>1, <1>2
<1>6. m \in Nat /\ (m = 1 <=> ~(m > 1))
  <2>1. m \in 1..Len(w)
    BY <1>1
  <2>2. Len(w) \in Nat
    BY <1>2
  <2>3. PICK z : z = Len(w)
    OBVIOUS
  <2>4. PICK y : y = m
    OBVIOUS
  <2>5. y \in 1..z /\ z \in Nat
    BY <2>1, <2>2, <2>3, <2>4
  <2>6. y \in Nat /\ (y = 1 <=> ~(y > 1))
    BY <2>5
  <2> QED
    BY <2>4, <2>6
<1>4. CASE m = 1
  <2>1. \A x \in (o + 1)..Len(text) : text[x] # "lbrace"
    BY <1>1, <1>2, <1>3, <1>4
  <2> QED
    BY <1>1, <1>3, <1>4, <2>1, IndexIsNone DEF Braced
<1>5. CASE m > 1
  <2>1. PICK c : c = o + 2
    OBVIOUS
  <2>2. c \in (o + 1)..Len(text) /\ text[c] = "lbrace" /\ \A x \in (o + 1)..(c - 1) : text[x] # "lbrace"
    <3>1. 2 \in 1..m /\ c \in (o + 1)..Len(text)
      BY <1>1, <1>5, <2>1, SMTT(30)
    <3>2. text[c] = "lbrace"
      BY <1>1, <1>2, <2>1, <3>1
    <3>3. \A x \in (o + 1)..(c - 1) : x = o + 1
      BY <1>1, <2>1
    <3> QED
      BY <1>3, <3>1, <3>2, <3>3
  <2>3. Index(text, "lbrace", o + 1) = o + 2
    BY <1>1, <1>3, <2>1, <2>2, IndexIs
  <2>4. PrepAt(text, o, w, m)
    BY <1>1, <1>2, <1>5 DEF PrepAt
  <2>5. balancedBraces(text, o + 2) = IF m < Len(w) - 1 THEN 0 ELSE o + (Len(w) - 1)
    BY <1>2, <2>4, PrepScan
  <2> QED
    BY <1>6, <1>5, <2>3, <2>5 DEF Braced
<1> QED
  BY <1>4, <1>5, <1>6

\* Cursor c has passed the openings of the first q pieces, and no other.
Past(off, c, q) == c \in Nat /\ c >= 1 /\ c <= off[q] + 1 /\ (q > 0 => off[q - 1] + 1 < c)

\* The first piece after q that opens a preparation.
NextPrep(ps, q, m) == m \in Opened(ps) /\ q < m /\ \A k \in Opened(ps) : q < k => m <= k

\* From there on, an opening in the text is that of a later piece.
LEMMA PrepPlaces ==
    ASSUME NEW ps, NEW text, NEW off, Laid(ps, text, off), NEW q \in 0..Len(ps), NEW c,
           Past(off, c, q), NEW i \in Nat, i >= c, i <= Len(text), text[i] = "[PREP:"
    PROVE  \E k \in Opened(ps) : q < k /\ i = off[k - 1] + 1
<1>1. i \in DOMAIN text /\ c \in Nat /\ c >= 1
  BY DEF Laid, Past
<1>2. PICK k \in 1..Len(ps) : \E j \in 1..Len(ps[k]) : i = off[k - 1] + j
  BY <1>1, PlaceOf
<1>3. PICK j \in 1..Len(ps[k]) : i = off[k - 1] + j
  BY <1>2
<1>4. ps[k][j] = "[PREP:"
  <2>1. \A x \in 1..Len(ps[k]) : text[off[k - 1] + x] = ps[k][x]
    BY PieceAt
  <2> QED
    BY <1>3, <2>1
<1>5. j = 1
  BY <1>4, OpeningOf DEF Openings
<1>6. Len(ps[k]) \in Nat /\ Len(ps) \in Nat
  BY PieceAt
<1>7. k \in Opened(ps)
  BY <1>3, <1>4, <1>5, <1>6 DEF Opened
<1>8. ASSUME k <= q PROVE FALSE
  <2>1. q \in 1..Len(ps) /\ k - 1 \in 0..Len(ps) /\ q - 1 \in (k - 1)..Len(ps)
    BY <1>6, <1>8
  <2>2. off[k - 1] <= off[q - 1]
    <3>1. ps \in Seq(Seq(Symbols)) /\ Layout(off, ps, text)
      BY PiecesAreSequences DEF Laid
    <3> QED
      BY <2>1, <3>1, EndsGrow
  <2>3. off[k - 1] \in Nat /\ off[q - 1] \in Nat
    BY <2>1, PieceAt
  <2>4. off[q - 1] + 1 < c
    BY <2>1 DEF Past
  <2> QED
    BY <1>1, <1>3, <1>5, <2>2, <2>3, <2>4, SMTT(30)
<1> QED
  BY <1>3, <1>5, <1>6, <1>7, <1>8

\* No payload is found after the last piece that opens one.
LEMMA FindNone ==
    ASSUME NEW ps, NEW text, NEW off, Laid(ps, text, off), NEW q \in 0..Len(ps), NEW c,
           Past(off, c, q), \A k \in Opened(ps) : ~(q < k)
    PROVE  findMatchPrepPayloadFrom(text, c).close = 0
<1>1. text \in Seq(Symbols) /\ c \in Nat /\ c >= 1 /\ Len(text) \in Nat
  BY DEF Laid, Past
<1>2. ASSUME NEW x \in c..Len(text), text[x] = "[PREP:" PROVE FALSE
  <2>1. x \in Nat /\ x >= c /\ x <= Len(text)
    BY <1>1
  <2> QED
    BY <1>2, <2>1, PrepPlaces
<1>3. Index(text, "[PREP:", c) = 0
  BY <1>1, <1>2, IndexIsNone
<1> QED
  BY <1>3 DEF findMatchPrepPayloadFrom

\* The piece that is found, and whether with its last brace.
Found(ps, text, off, c, m, w) ==
    LET p == findMatchPrepPayloadFrom(text, c)
        o == off[m - 1]
    IN IF Len(ps[m]) < Len(w) - 1 THEN p.close = 0
       ELSE p.start = o + 1 /\ p.open = o + 2 /\ p.close = o + (Len(w) - 1)

\* Otherwise the next one is looked at, and found if its last brace is there.
LEMMA FindNext ==
    ASSUME NEW ps, NEW text, NEW off, Laid(ps, text, off), NEW q \in 0..Len(ps), NEW c,
           Past(off, c, q), NEW m, NextPrep(ps, q, m)
    PROVE  c <= off[m - 1] + 1
           /\ \E w : OpensPrep(ps, text, off, m, w) /\ Found(ps, text, off, c, m, w)
<1>1. text \in Seq(Symbols) /\ c \in Nat /\ c >= 1 /\ Len(text) \in Nat /\ c <= off[q] + 1
  BY DEF Laid, Past
<1>2. m \in Opened(ps) /\ m \in 1..Len(ps) /\ q < m
  BY DEF NextPrep, Opened
<1>3. PICK w : OpensPrep(ps, text, off, m, w)
  BY <1>2, OpenedIs
<1>4. PICK o : o = off[m - 1]
  OBVIOUS
<1>5. PICK l : l = Len(ps[m])
  OBVIOUS
<1>6. /\ o \in Nat /\ l \in 1..Len(w) /\ o + l <= Len(text)
      /\ \A j \in 1..l : text[o + j] = w[j]
  BY <1>3, <1>4, <1>5, OpensPrepAt
<1>7. w \in Preps /\ Len(w) \in Nat /\ Len(w) >= 5 /\ w[1] = "[PREP:"
  BY <1>3, PrepSymbols DEF OpensPrep
<1>8. c <= o + 1
  <2>1. Len(ps) \in Nat
    BY <1>2, PieceAt
  <2>2. m - 1 \in q..Len(ps)
    BY <1>2, <2>1
  <2>3. ps \in Seq(Seq(Symbols)) /\ Layout(off, ps, text)
    BY PiecesAreSequences DEF Laid
  <2>4. off[q] <= o
    BY <1>4, <2>2, <2>3, EndsGrow
  <2>5. off[q] \in Nat
    BY <2>3 DEF Layout
  <2> QED
    BY <1>1, <1>6, <2>4, <2>5
<1>9. PICK s : s = o + 1
  OBVIOUS
<1>10. s \in c..Len(text) /\ text[s] = "[PREP:"
  BY <1>1, <1>6, <1>7, <1>8, <1>9
<1>11. ASSUME NEW x \in c..(s - 1), text[x] = "[PREP:" PROVE FALSE
  <2>1. x \in Nat /\ x >= c /\ x <= Len(text) /\ x < s
    BY <1>1, <1>10
  <2>2. PICK k \in Opened(ps) : q < k /\ x = off[k - 1] + 1
    BY <1>11, <2>1, PrepPlaces
  <2>3. m <= k /\ k \in 1..Len(ps)
    BY <2>2 DEF NextPrep, Opened
  <2>4. Len(ps) \in Nat
    BY <1>2, PieceAt
  <2>5. m - 1 \in 0..Len(ps) /\ k - 1 \in (m - 1)..Len(ps)
    BY <1>2, <2>3, <2>4
  <2>6. ps \in Seq(Seq(Symbols)) /\ Layout(off, ps, text)
    BY PiecesAreSequences DEF Laid
  <2>7. o <= off[k - 1]
    BY <1>4, <2>5, <2>6, EndsGrow
  <2>8. off[k - 1] \in Nat
    BY <2>3, PieceAt
  <2> QED
    BY <1>6, <1>9, <2>1, <2>2, <2>7, <2>8
<1>12. Index(text, "[PREP:", c) = s
  BY <1>1, <1>10, <1>11, IndexIs
<1>13. /\ l = 1 => Index(text, "lbrace", o + 1) = 0
       /\ l > 1 => /\ Index(text, "lbrace", o + 1) = o + 2
                   /\ balancedBraces(text, o + 2) = IF l < Len(w) - 1 THEN 0 ELSE o + (Len(w) - 1)
  <2>1. Braced(text, o, w, l)
    BY <1>3, <1>4, <1>5, PrepFound
  <2> QED
    BY <2>1 DEF Braced
<1>14. s # 0 /\ o + 2 # 0
  BY <1>6, <1>9
<1>15. CASE l = 1
  <2>1. findMatchPrepPayloadFrom(text, c).close = 0
    BY <1>9, <1>12, <1>13, <1>14, <1>15 DEF findMatchPrepPayloadFrom
  <2>2. Len(ps[m]) < Len(w) - 1
    BY <1>5, <1>7, <1>15
  <2>3. Found(ps, text, off, c, m, w)
    BY <2>1, <2>2 DEF Found
  <2> QED
    BY <1>3, <1>4, <1>8, <2>3
<1>16. CASE l > 1
  <2>1. PICK p : p = findMatchPrepPayloadFrom(text, c)
    OBVIOUS
  <2>2. p = [start |-> s, open |-> o + 2, close |-> balancedBraces(text, o + 2)]
    BY <1>9, <1>12, <1>13, <1>14, <1>16, <2>1 DEF findMatchPrepPayloadFrom
  <2>3. p.start = s /\ p.open = o + 2 /\ p.close = balancedBraces(text, o + 2)
    BY <2>2
  <2>4. Found(ps, text, off, c, m, w)
    BY <1>4, <1>5, <1>9, <1>13, <1>16, <2>1, <2>3 DEF Found
  <2> QED
    BY <1>3, <1>4, <1>8, <2>4
<1> QED
  BY <1>6, <1>15, <1>16

-----------------------------------------------------------------------------
(* ParseMatchPrepToken.                                                    *)

\* No prep token with its last brace begins another.
LEMMA PrepsApart ==
    ASSUME NEW v \in Preps, NEW w \in Preps, Len(v) < Len(w)
    PROVE  \E j \in 1..(Len(v) - 1) : v[j] # w[j]
<1>1. v \in {Adjust, Create, Edit, Drills} /\ w \in {Adjust, Create, Edit, Drills}
  BY TokenSymbols
<1>2. /\ Len(Adjust) = 5 /\ Len(Edit) = 5 /\ Len(Create) = 8 /\ Len(Drills) = 13
      /\ Adjust[3] = "adjust" /\ Edit[3] = "edit" /\ Create[3] = "create" /\ Drills[3] = "create"
      /\ Create[5] = "rbrace" /\ Drills[5] = "\\"
  BY DEF Adjust, Edit, Create, Drills
<1>3. PICK a, b : a = Len(v) /\ b = Len(w)
  OBVIOUS
<1>4. /\ a < b /\ a \in {5, 8, 13} /\ b \in {5, 8, 13}
      /\ a = 5 => v \in {Adjust, Edit}
      /\ a = 8 => v = Create
      /\ b = 8 => w = Create
      /\ b = 13 => w = Drills
  <2>1. ASSUME NEW u \in {Adjust, Create, Edit, Drills}, NEW n, n = Len(u)
        PROVE  \/ u \in {Adjust, Edit} /\ n = 5
               \/ u = Create /\ n = 8
               \/ u = Drills /\ n = 13
    BY <1>2, <2>1
  <2>2. \/ v \in {Adjust, Edit} /\ a = 5
        \/ v = Create /\ a = 8
        \/ v = Drills /\ a = 13
    BY <1>1, <1>3, <2>1
  <2>3. \/ w \in {Adjust, Edit} /\ b = 5
        \/ w = Create /\ b = 8
        \/ w = Drills /\ b = 13
    BY <1>1, <1>3, <2>1
  <2>4. a < b
    BY <1>3
  <2>5. a \in {5, 8, 13} /\ (a = 5 => v \in {Adjust, Edit}) /\ (a = 8 => v = Create)
    BY <2>2
  <2>6. b \in {5, 8, 13} /\ (b = 8 => w = Create) /\ (b = 13 => w = Drills)
    BY <2>3
  <2> QED
    BY <2>4, <2>5, <2>6
<1>5. CASE a = 5
  <2>1. w[3] = "create"
    BY <1>2, <1>4, <1>5
  <2>2. v[3] # "create"
    BY <1>2, <1>4, <1>5
  <2>3. 3 \in 1..(a - 1)
    BY <1>5
  <2> QED
    BY <1>3, <2>1, <2>2, <2>3
<1>6. CASE a = 8
  <2>1. v = Create /\ w = Drills
    BY <1>4, <1>6
  <2>2. 5 \in 1..(a - 1)
    BY <1>6
  <2> QED
    BY <1>2, <1>3, <2>1, <2>2
<1> QED
  BY <1>4, <1>5, <1>6

\* Appending to a sequence.
LEMMA Appended ==
    ASSUME NEW p \in Seq(Symbols), NEW e \in Symbols, NEW v, v = Append(p, e)
    PROVE  /\ v \in Seq(Symbols) /\ Len(v) = Len(p) + 1 /\ v[Len(p) + 1] = e
           /\ \A j \in 1..Len(p) : v[j] = p[j]
OBVIOUS

\* The payload of a piece counts if its last brace is there.
LEMMA PayloadOf ==
    ASSUME NEW ps, NEW text, NEW off, NEW k, NEW w, OpensPrep(ps, text, off, k, w)
    PROVE  IF Len(ps[k]) < Len(w) - 1 THEN WithPayload(ps[k]) \notin Preps
           ELSE WithPayload(ps[k]) = w
<1>1. PICK p, m, o : p = ps[k] /\ m = Len(ps[k]) /\ o = off[k - 1]
  OBVIOUS
<1>2. /\ m \in 1..Len(w) /\ \A j \in 1..m : text[o + j] = w[j]
      /\ m = Len(w) => ps[k] = w
      /\ m < Len(w) => ps[k] \in Beginnings
  BY <1>1, OpensPrepAt
<1>3. w \in Preps /\ Laid(ps, text, off) /\ k \in 1..Len(ps)
  BY DEF OpensPrep
<1>4. w \in Seq(Symbols) /\ Len(w) \in Nat /\ w \in Wholes /\ w[Len(w)] = "]"
  BY <1>3, PrepSymbols
<1>5. p \in Seq(Symbols) /\ Len(p) = m
  BY <1>1, <1>3, PieceAt
<1>6. \A j \in 1..m : p[j] = w[j]
  <2>1. \A j \in 1..Len(ps[k]) : text[off[k - 1] + j] = ps[k][j]
    BY <1>3, PieceAt
  <2> QED
    BY <1>1, <1>2, <2>1
<1>7. CASE m = Len(w)
  <2>1. ~(Len(ps[k]) < Len(w) - 1) /\ ps[k] = w
    BY <1>1, <1>2, <1>4, <1>7
  <2> QED
    BY <1>4, <2>1 DEF WithPayload
<1>8. CASE m < Len(w)
  <2>1. p \notin Wholes
    BY <1>1, <1>2, <1>8, BeginningsAre
  <2>2. PICK v : v = Append(p, "]")
    OBVIOUS
  <2>3. WithPayload(ps[k]) = v
    BY <1>1, <2>1, <2>2 DEF WithPayload
  <2>4. /\ v \in Seq(Symbols) /\ Len(v) = m + 1 /\ v[m + 1] = "]"
        /\ \A j \in 1..m : v[j] = p[j]
    <3>1. "]" \in Symbols
      BY DEF Symbols
    <3> QED
      BY <1>5, <2>2, <3>1, Appended
  <2>5. CASE m < Len(w) - 1
    <3>1. ASSUME v \in Preps PROVE FALSE
      <4>1. Len(v) < Len(w) /\ Len(v) - 1 = m
        BY <1>2, <1>4, <2>4, <2>5
      <4>2. PICK j \in 1..m : v[j] # w[j]
        BY <1>3, <3>1, <4>1, PrepsApart
      <4> QED
        BY <1>6, <2>4, <4>2
    <3> QED
      BY <1>1, <2>3, <2>5, <3>1
  <2>6. CASE ~(m < Len(w) - 1)
    <3>1. Len(w) = m + 1 /\ m \in Nat
      BY <1>2, <1>4, <1>8, <2>6
    <3>2. \A j \in 1..(m + 1) : v[j] = w[j]
      BY <1>4, <1>6, <2>4, <3>1
    <3>3. v = w
      BY <1>4, <2>4, <3>1, <3>2
    <3> QED
      BY <1>1, <2>3, <2>6, <3>3
  <2> QED
    BY <2>5, <2>6
<1> QED
  BY <1>2, <1>4, <1>7, <1>8

\* Other pieces have no payload.
LEMMA NoPayload ==
    ASSUME NEW ps, NEW text, NEW off, Laid(ps, text, off), NEW k \in 1..Len(ps), k \notin Opened(ps)
    PROVE  WithPayload(ps[k]) \notin Preps
<1>1. PICK p : p = ps[k]
  OBVIOUS
<1>2. p \in Seq(Symbols) /\ Len(p) \in Nat /\ ~(Len(p) >= 1 /\ p[1] = "[PREP:")
  BY <1>1, PieceAt DEF Opened
<1>3. CASE p \in Wholes
  <2>1. WithPayload(p) = p
    BY <1>3 DEF WithPayload
  <2> QED
    BY <1>1, <1>2, <2>1, PrepSymbols
<1>4. CASE p \notin Wholes
  <2>1. PICK v : v = Append(p, "]")
    OBVIOUS
  <2>2. WithPayload(p) = v
    BY <1>4, <2>1 DEF WithPayload
  <2>3. Len(v) = Len(p) + 1 /\ \A j \in 1..Len(p) : v[j] = p[j]
    <3>1. "]" \in Symbols
      BY DEF Symbols
    <3> QED
      BY <1>2, <2>1, <3>1, Appended
  <2>4. ASSUME v \in Preps PROVE FALSE
    <3>1. Len(v) >= 5 /\ v[1] = "[PREP:"
      BY <2>4, PrepSymbols
    <3>2. 1 \in 1..Len(p)
      BY <1>2, <2>3, <3>1
    <3> QED
      BY <1>2, <2>3, <3>1, <3>2
  <2> QED
    BY <1>1, <2>2, <2>4
<1> QED
  BY <1>3, <1>4

\* The pieces whose payload may be what the model means.
PrepGood(ps) == {k \in DOMAIN ps : WithPayload(ps[k]) \in Preps /\ WithPayload(ps[k])[3] # "edit"}

\* x is the payload of the last of them up to piece q.
LastMeant(ps, q, x) ==
    \/ x = None /\ \A k \in PrepGood(ps) : ~(k <= q)
    \/ \E g \in PrepGood(ps) : /\ g <= q /\ x = Payload(WithPayload(ps[g]))
                               /\ \A k \in PrepGood(ps) : k <= q => k <= g

\* A turn of the loop.
TurnOn(text, s) ==
    LET p == findMatchPrepPayloadFrom(text, s.cursor)
        raw == SubSeq(text, p.open, p.close)
    IN IF p.close = 0 THEN s
       ELSE [cursor |-> p.close + 1, last |-> IF ValidPrep(raw) THEN raw ELSE s.last]

\* The states of the loop: between two pieces, with the last of the pieces before.
Turns(ps, off) ==
    {s \in [cursor : Nat, last : Seq(Symbols)] :
        \E q \in 0..Len(ps) : Past(off, s.cursor, q) /\ LastMeant(ps, q, s.last)}

\* Up to the last piece, that is what the model means.
LEMMA AllMeant ==
    ASSUME NEW ps \in Pieces, NEW x, LastMeant(ps, Len(ps), x)
    PROVE  x = MeantPrep(ps)
<1> DEFINE G == PrepGood(ps)
<1>1. Len(ps) \in Nat /\ DOMAIN ps = 1..Len(ps) /\ G \in SUBSET (1..Len(ps))
  BY DEF Pieces, PrepGood
<1>2. MeantPrep(ps) = IF G = {} THEN None ELSE Payload(WithPayload(ps[Max(G)]))
  BY DEF MeantPrep, PrepGood
<1>3. \A k \in G : k <= Len(ps)
  BY <1>1
<1> HIDE DEF G
<1>4. CASE G = {}
  BY <1>2, <1>4 DEF LastMeant, G
<1>5. CASE G # {}
  <2>1. PICK g \in G : x = Payload(WithPayload(ps[g])) /\ \A k \in G : k <= g
    BY <1>3, <1>5 DEF LastMeant, G
  <2>2. Max(G) \in G /\ \A k \in G : Max(G) >= k
    BY <1>1, <1>5, MaxIsGreatest
  <2>3. Max(G) = g
    <3>1. \A k \in G : k \in Nat
      BY <1>1
    <3>2. Max(G) \in Nat /\ g \in Nat /\ Max(G) <= g /\ Max(G) >= g
      BY <2>1, <2>2, <3>1
    <3> QED
      BY <3>2
  <2> QED
    BY <1>2, <1>5, <2>1, <2>3
<1> QED
  BY <1>4, <1>5

\* Pieces that have no payload change nothing.
LEMMA MeantFurther ==
    ASSUME NEW ps \in Pieces, NEW q \in 0..Len(ps), NEW m \in q..Len(ps), NEW x, LastMeant(ps, q, x),
           \A k \in PrepGood(ps) : ~(q < k /\ k <= m)
    PROVE  LastMeant(ps, m, x)
<1>1. Len(ps) \in Nat /\ DOMAIN ps = 1..Len(ps) /\ PrepGood(ps) \in SUBSET Nat
  BY DEF Pieces, PrepGood
<1>2. \A k \in PrepGood(ps) : k <= m <=> k <= q
  BY <1>1
<1> QED
  BY <1>2 DEF LastMeant

\* Of a preparation, whether its payload is valid.
LEMMA ValidIs ==
    ASSUME NEW w \in Preps
    PROVE  Payload(w) \in Seq(Symbols) /\ (ValidPrep(Payload(w)) <=> w[3] # "edit")
<1>1. /\ w \in Seq(Symbols) /\ Len(w) \in Nat /\ Len(w) >= 5
      /\ w[3] \in {"create", "adjust", "edit"}
  BY PrepSymbols
<1>2. PICK x : x = Payload(w)
  OBVIOUS
<1>3. x \in Seq(Symbols) /\ Len(x) = Len(w) - 2 /\ x[2] = w[3]
  <2>1. x = SubSeq(w, 2, Len(w) - 1)
    BY <1>2 DEF Payload
  <2>2. 2 \in 1..Len(w) /\ Len(w) - 1 \in 1..Len(w)
    BY <1>1
  <2> QED
    BY <1>1, <2>1, <2>2
<1> QED
  BY <1>1, <1>2, <1>3 DEF ValidPrep

\* A turn either finds nothing, when all has been read, or goes on to a later piece.
LEMMA TurnGoesOn ==
    ASSUME NEW ps, NEW text, NEW off, Laid(ps, text, off), NEW s \in Turns(ps, off)
    PROVE  \/ TurnOn(text, s) = s /\ s.last = MeantPrep(ps)
           \/ TurnOn(text, s) \in Turns(ps, off) /\ TurnOn(text, s).cursor > s.cursor
<1> DEFINE c == s.cursor
           t == TurnOn(text, s)
<1>1. PICK q \in 0..Len(ps) : Past(off, c, q) /\ LastMeant(ps, q, s.last)
  BY DEF Turns
<1>2. /\ s \in [cursor : Nat, last : Seq(Symbols)] /\ c \in Nat /\ ps \in Pieces
      /\ text \in Seq(Symbols) /\ Len(text) \in Nat /\ Len(ps) \in Nat /\ DOMAIN ps = 1..Len(ps)
  BY DEF Turns, Laid, Pieces
<1>3. PrepGood(ps) \subseteq Opened(ps) /\ Opened(ps) \subseteq 1..Len(ps)
  BY <1>2, NoPayload DEF PrepGood, Opened
<1>4. findMatchPrepPayloadFrom(text, c).close = 0 => t = s
  BY DEF TurnOn
<1> HIDE DEF t, c
<1>5. CASE \A k \in Opened(ps) : ~(q < k)
  <2>1. findMatchPrepPayloadFrom(text, c).close = 0
    BY <1>1, <1>5, FindNone
  <2>2. LastMeant(ps, Len(ps), s.last)
    <3>1. Len(ps) \in q..Len(ps)
      BY <1>2
    <3> QED
      BY <1>1, <1>2, <1>3, <1>5, <3>1, MeantFurther
  <2>3. s.last = MeantPrep(ps)
    BY <1>2, <2>2, AllMeant
  <2> QED
    BY <1>4, <2>1, <2>3 DEF t
<1>6. CASE ~(\A k \in Opened(ps) : ~(q < k))
  <2> DEFINE R == {k \in Opened(ps) : q < k}
  <2>1. R \in SUBSET Nat /\ R # {}
    BY <1>3, <1>6
  <2>2. PICK m \in R : \A k \in R : m <= k
    <3> HIDE DEF R
    <3> QED
      BY <2>1, LeastNatural
  <2>3. NextPrep(ps, q, m) /\ m \in 1..Len(ps) /\ q < m
    BY <1>3, <2>2 DEF NextPrep
  <2>4. PICK w : OpensPrep(ps, text, off, m, w) /\ Found(ps, text, off, c, m, w)
    BY <1>1, <2>3, FindNext
  <2>5. PICK p, o, l : p = findMatchPrepPayloadFrom(text, c) /\ o = off[m - 1] /\ l = Len(ps[m])
    OBVIOUS
  <2>6. c <= o + 1
    BY <1>1, <2>3, <2>5, FindNext
  <2>7. w \in Preps /\ w \in Seq(Symbols) /\ Len(w) \in Nat /\ Len(w) >= 5
    BY <2>4, PrepSymbols DEF OpensPrep
  <2>8. /\ o \in Nat /\ l \in 1..Len(w) /\ off[m] = o + l /\ o + l <= Len(text)
        /\ \A j \in 1..l : text[o + j] = w[j]
        /\ l < Len(w) => ps[m] \in Beginnings
    BY <2>4, <2>5, OpensPrepAt
  <2>9. CASE l < Len(w) - 1
    <3>1. p.close = 0 /\ WithPayload(ps[m]) \notin Preps
      BY <2>4, <2>5, <2>9, PayloadOf DEF Found
    <3>2. m = Len(ps)
      <4>1. ps[m] \in Beginnings /\ ps[m] \notin Finished
        <5>1. ps[m] \in Beginnings
          BY <2>7, <2>8, <2>9
        <5>2. ps[m][1] = "[PREP:"
          BY <2>2 DEF Opened
        <5>3. <<"title">>[1] # "[PREP:"
          OBVIOUS
        <5> QED
          BY <5>1, <5>2, <5>3, BeginningsAre DEF Finished
      <4> QED
        BY <2>3, <4>1, PieceAt
    <3>3. \A k \in PrepGood(ps) : ~(q < k /\ k <= Len(ps))
      <4>1. ASSUME NEW k \in PrepGood(ps), q < k PROVE FALSE
        <5>1. k \in R /\ k \in 1..Len(ps) /\ m <= k
          BY <1>3, <2>2, <4>1
        <5>2. k = m
          <6>1. k <= m /\ k \in Nat /\ m \in Nat
            BY <2>3, <3>2, <5>1
          <6> QED
            BY <5>1, <6>1
        <5> QED
          BY <3>1, <4>1, <5>2 DEF PrepGood
      <4> QED
        BY <4>1
    <3>4. LastMeant(ps, Len(ps), s.last)
      <4>1. Len(ps) \in q..Len(ps)
        BY <1>2
      <4> QED
        BY <1>1, <1>2, <3>3, <4>1, MeantFurther
    <3>5. s.last = MeantPrep(ps)
      BY <1>2, <3>4, AllMeant
    <3> QED
      BY <1>4, <2>5, <3>1, <3>5 DEF t
  <2>10. CASE ~(l < Len(w) - 1)
    <3>1. PICK e : e = o + (Len(w) - 1)
      OBVIOUS
    <3>2. p.open = o + 2 /\ p.close = e /\ WithPayload(ps[m]) = w
      BY <2>4, <2>5, <2>10, <3>1, PayloadOf DEF Found
    <3>3. e \in Nat /\ e # 0 /\ e + 1 = o + Len(w)
      <4>1. PICK y : y = Len(w)
        OBVIOUS
      <4>2. y \in Nat /\ y >= 5 /\ o \in Nat
        BY <2>7, <2>8, <4>1
      <4>3. e = o + (y - 1)
        BY <3>1, <4>1
      <4>4. e \in Nat /\ e # 0 /\ e + 1 = o + y
        BY <4>2, <4>3
      <4> QED
        BY <4>1, <4>4
    <3>4. PICK raw : raw = SubSeq(text, p.open, p.close)
      OBVIOUS
    <3>5. raw = Payload(w)
      <4>1. PICK a, b, x, y : a = 2 /\ b = Len(w) - 1 /\ x = p.open /\ y = p.close
        OBVIOUS
      <4>2. Within(text, o, w, l, a, b, x, y)
        BY <1>2, <2>7, <2>8, <2>10, <3>1, <3>2, <4>1, SMTT(20) DEF Within
      <4>3. Extract(text, x, y) = Extract(w, a, b)
        BY <4>2, WithinPiece
      <4> QED
        BY <3>4, <4>1, <4>3 DEF Extract, Payload
    <3>6. raw \in Seq(Symbols) /\ (ValidPrep(raw) <=> w[3] # "edit")
      BY <2>7, <3>5, ValidIs
    <3>7. PICK last : last = IF ValidPrep(raw) THEN raw ELSE s.last
      OBVIOUS
    <3>8. t = [cursor |-> e + 1, last |-> last]
      BY <2>5, <3>2, <3>3, <3>4, <3>7 DEF t, TurnOn, c
    <3>9. t.cursor = o + Len(w) /\ t.last = last /\ t \in [cursor : Nat, last : Seq(Symbols)]
      <4>1. last \in Seq(Symbols) /\ e + 1 \in Nat
        BY <1>2, <3>3, <3>6, <3>7
      <4> QED
        BY <3>3, <3>8, <4>1
    <3>10. Past(off, t.cursor, m)
      <4>1. PICK d, n : d = t.cursor /\ n = Len(w)
        OBVIOUS
      <4>2. n \in Nat /\ n >= 5 /\ l \in 1..n /\ ~(l < n - 1) /\ d = o + n
        BY <2>7, <2>8, <2>10, <3>9, <4>1
      <4>3. d \in Nat /\ d >= 1 /\ d <= (o + l) + 1 /\ o + 1 < d
        BY <2>8, <4>2
      <4> QED
        BY <2>5, <2>8, <4>1, <4>3 DEF Past
    <3>11. LastMeant(ps, m, last)
      <4>1. \A k \in PrepGood(ps) : k \in Nat /\ (q < k => m <= k)
        BY <1>3, <2>2
      <4>2. CASE w[3] # "edit"
        <5>1. m \in PrepGood(ps)
          BY <1>2, <2>3, <2>7, <3>2, <4>2 DEF PrepGood
        <5>2. m <= m
          BY <2>3
        <5> QED
          BY <3>2, <3>5, <3>6, <3>7, <4>2, <5>1, <5>2 DEF LastMeant
      <4>3. CASE w[3] = "edit"
        <5>1. m \notin PrepGood(ps)
          BY <3>2, <4>3 DEF PrepGood
        <5>2. \A k \in PrepGood(ps) : ~(q < k /\ k <= m)
          BY <2>3, <4>1, <5>1
        <5>3. m \in q..Len(ps)
          BY <2>3
        <5>4. LastMeant(ps, m, s.last)
          BY <1>1, <1>2, <5>2, <5>3, MeantFurther
        <5> QED
          BY <3>6, <3>7, <4>3, <5>4
      <4> QED
        BY <4>2, <4>3
    <3>12. t \in Turns(ps, off)
      BY <1>2, <2>3, <3>9, <3>10, <3>11 DEF Turns
    <3>13. t.cursor > c
      BY <1>2, <2>6, <2>7, <2>8, <3>9
    <3> QED
      BY <3>12, <3>13 DEF t, c
  <2> QED
    BY <2>9, <2>10
<1> QED
  BY <1>5, <1>6

\* h is the state of the loop after each turn.
TurnPass(ps, text, off, h) ==
    /\ h \in [0..Len(text) -> Turns(ps, off)] /\ h[0] = [cursor |-> 1, last |-> None]
    /\ \A i \in 1..Len(text) : h[i] = TurnOn(text, h[i - 1])

\* ParseMatchPrepToken takes one turn after another.
LEMMA TurnsArePass ==
    ASSUME NEW ps, NEW text, NEW off, Laid(ps, text, off)
    PROVE  \E h : TurnPass(ps, text, off, h) /\ ParseMatchPrepToken(text) = h[Len(text)].last
<1> DEFINE n == Len(text)
           D == 1..n
           X == Turns(ps, off)
           base == [cursor |-> 1, last |-> None]
           Op(x) == TurnOn(text, x)
           F == [i \in D |-> [x \in X |-> Op(x)]]
           iter == CHOOSE g : g = [s \in SUBSET (DOMAIN text) |->
                     IF s = {} THEN base ELSE Op(g[s \ {Max(s)}])]
<1>1. n \in Nat /\ DOMAIN text = D
  BY DEF Laid
<1>2. ParseMatchPrepToken(text) = iter[DOMAIN text].last
  BY DEF ParseMatchPrepToken, FoldLeft, MapThenFoldSet, TurnOn
<1>3. base \in X /\ \A x \in X : Op(x) \in X
  <2>1. \A x \in X : Op(x) \in X
    <3>1. ASSUME NEW x \in Turns(ps, off) PROVE TurnOn(text, x) \in Turns(ps, off)
      BY TurnGoesOn
    <3> QED
      BY <3>1
  <2>2. base \in [cursor : Nat, last : Seq(Symbols)]
    BY DEF None
  <2>3. base.cursor = 1 /\ base.last = None
    OBVIOUS
  <2>4. Len(ps) \in Nat /\ off[0] = 0 /\ DOMAIN ps = 1..Len(ps)
    <3>1. ps \in Seq(Seq(Symbols)) /\ Layout(off, ps, text)
      BY PiecesAreSequences DEF Laid
    <3> QED
      BY <3>1 DEF Layout
  <2>5. 0 \in 0..Len(ps) /\ Past(off, base.cursor, 0) /\ LastMeant(ps, 0, base.last)
    <3>1. \A k \in PrepGood(ps) : ~(k <= 0)
      BY <2>4 DEF PrepGood
    <3> QED
      BY <2>3, <2>4, <3>1 DEF Past, LastMeant
  <2> HIDE DEF base
  <2>6. base \in X
    BY <2>2, <2>5 DEF Turns
  <2> QED
    BY <2>1, <2>6
<1> HIDE DEF base, Op, X
<1>4. F \in [1..n -> [X -> X]] /\ \A x \in X, i \in D : F[i][x] = Op(x)
  BY <1>3
<1> HIDE DEF F
<1>5. \A s \in SUBSET D : s # {} => Max(s) \in D
  BY <1>1, MaxIsGreatest
<1>6. \E g : g = [s \in SUBSET (DOMAIN text) |->
               IF s = {} THEN base ELSE Op(g[s \ {Max(s)}])]
  <2>1. PICK g \in [SUBSET D -> X] : Solves(g, n, base, F)
    BY <1>1, <1>3, <1>4, FoldExists
  <2>2. ASSUME NEW s \in SUBSET D, NEW m, m = Max(s), s # {}
        PROVE  F[m][g[s \ {m}]] = Op(g[s \ {m}])
    BY <1>1, <1>4, <1>5, <2>2
  <2>3. g = [s \in SUBSET D |-> IF s = {} THEN base ELSE Op(g[s \ {Max(s)}])]
    BY <2>1, <2>2 DEF Solves
  <2> QED
    BY <1>1, <2>3
<1>7. iter = [s \in SUBSET D |-> IF s = {} THEN base ELSE Op(iter[s \ {Max(s)}])]
  BY <1>1, <1>6
<1> HIDE DEF iter
<1>8. IsFold(iter, n, X, base, F)
  <2>1. ASSUME NEW s \in SUBSET D, NEW m, m = Max(s), s # {}, iter[s \ {m}] \in X
        PROVE  F[m][iter[s \ {m}]] = Op(iter[s \ {m}])
    BY <1>1, <1>4, <1>5, <2>1
  <2>2. {} \in SUBSET D
    OBVIOUS
  <2> QED
    BY <1>7, <2>1, <2>2 DEF IsFold
<1>9. PICK h : Takes(h, n, X, base, F) /\ h[n] = iter[D]
  <2> HIDE DEF n
  <2> QED
    BY <1>1, <1>3, <1>4, <1>8, FoldSteps
<1>10. ASSUME NEW i \in 1..n PROVE h[i] = Op(h[i - 1])
  <2> HIDE DEF n
  <2>1. i - 1 \in 0..n - 1 /\ (i - 1) + 1 = i /\ i - 1 \in 0..n /\ i \in D
    BY <1>1
  <2>2. h[i] = F[i][h[i - 1]] /\ h[i - 1] \in X
    BY <1>9, <2>1 DEF Takes
  <2> QED
    BY <1>4, <2>1, <2>2
<1>11. TurnPass(ps, text, off, h)
  BY <1>9, <1>10 DEF Takes, TurnPass, base, Op, X
<1> QED
  BY <1>1, <1>2, <1>9, <1>11

\* The last preparation to create or adjust is found.
LEMMA PrepIsMeant ==
    ASSUME NEW ps, NEW text, NEW off, Laid(ps, text, off)
    PROVE  ParseMatchPrepToken(text) = MeantPrep(ps)
<1> DEFINE n == Len(text)
           X == Turns(ps, off)
<1>1. n \in Nat
  BY DEF Laid
<1>2. PICK h : TurnPass(ps, text, off, h) /\ ParseMatchPrepToken(text) = h[n].last
  BY TurnsArePass
<1>3. ASSUME NEW s \in X PROVE s.cursor \in Nat /\ s.cursor <= n + 1
  <2>1. PICK q \in 0..Len(ps) : Past(off, s.cursor, q)
    BY DEF Turns
  <2>2. off[q] \in Nat /\ off[q] <= n
    <3>1. ps \in Seq(Seq(Symbols)) /\ Layout(off, ps, text) /\ Len(ps) \in Nat
      BY PiecesAreSequences DEF Laid
    <3>2. Len(ps) \in q..Len(ps)
      BY <3>1
    <3>3. off[q] <= off[Len(ps)]
      BY <3>1, <3>2, EndsGrow
    <3> QED
      BY <3>1, <3>3 DEF Layout
  <2> QED
    BY <1>1, <2>1, <2>2 DEF Past
<1> DEFINE T == {i \in 0..n : h[i].cursor > i \/ (TurnOn(text, h[i]) = h[i] /\ h[i].last = MeantPrep(ps))}
<1>4. 0 \in T
  <2>1. h[0].cursor = 1
    BY <1>2 DEF TurnPass
  <2> QED
    BY <1>1, <2>1
<1>5. ASSUME NEW i \in 0..(n - 1), i \in T PROVE i + 1 \in T
  <2>1. i + 1 \in 1..n /\ (i + 1) - 1 = i /\ i + 1 \in 0..n /\ i \in 0..n
    BY <1>1
  <2>2. h[i + 1] = TurnOn(text, h[i]) /\ h[i] \in X /\ h[i + 1] \in X
    BY <1>2, <2>1 DEF TurnPass
  <2>3. CASE TurnOn(text, h[i]) = h[i] /\ h[i].last = MeantPrep(ps)
    BY <2>1, <2>2, <2>3
  <2>4. CASE h[i].cursor > i /\ ~(TurnOn(text, h[i]) = h[i] /\ h[i].last = MeantPrep(ps))
    <3>1. h[i + 1].cursor > h[i].cursor
      BY <2>2, <2>4, TurnGoesOn
    <3>2. h[i + 1].cursor \in Nat /\ h[i].cursor \in Nat
      BY <1>3, <2>2
    <3> HIDE DEF X
    <3> QED
      BY <2>1, <2>4, <3>1, <3>2
  <2> QED
    BY <1>5, <2>3, <2>4
<1>6. n \in T
  <2> HIDE DEF T
  <2> QED
    BY <1>1, <1>4, <1>5, InductionTo
<1>7. h[n] \in X
  BY <1>1, <1>2 DEF TurnPass
<1>8. ASSUME h[n].last # MeantPrep(ps) PROVE FALSE
  <2>1. h[n].cursor > n
    BY <1>6, <1>8
  <2>2. TurnOn(text, h[n]) \in X /\ TurnOn(text, h[n]).cursor > h[n].cursor
    BY <1>7, <1>8, TurnGoesOn
  <2>3. h[n].cursor \in Nat /\ TurnOn(text, h[n]).cursor \in Nat /\ TurnOn(text, h[n]).cursor <= n + 1
    BY <1>3, <1>7, <2>2
  <2> QED
    BY <1>1, <2>1, <2>2, <2>3
<1> QED
  BY <1>2, <1>8

-----------------------------------------------------------------------------
(* RemoveMatchPrep and CleanMatchPrepTokens.                               *)

\* The first o symbols of a text and those after place e, put together.
Parts(text, o, e) == SubSeq(text, 1, o) \o SubSeq(text, e + 1, Len(text))

\* new is put together so.
IsParts(new, text, o, e) ==
    /\ text \in Seq(Symbols) /\ o \in Nat /\ e \in Nat /\ o <= e /\ e <= Len(text)
    /\ new = Parts(text, o, e)

\* Where the symbols of the parts were.
LEMMA PartsPlaces ==
    ASSUME NEW new, NEW text, NEW o, NEW e, IsParts(new, text, o, e)
    PROVE  /\ new \in Seq(Symbols) /\ Len(new) = o + (Len(text) - e)
           /\ \A i \in 1..o : new[i] = text[i]
           /\ \A i \in 1..(Len(text) - e) : new[o + i] = text[e + i]
<1>1. /\ text \in Seq(Symbols) /\ Len(text) \in Nat
      /\ o \in Nat /\ e \in Nat /\ o <= e /\ e <= Len(text)
  BY DEF IsParts
<1>2. PICK a, b : a = SubSeq(text, 1, o) /\ b = SubSeq(text, e + 1, Len(text))
  OBVIOUS
<1>3. a \in Seq(Symbols) /\ Len(a) = o /\ \A i \in 1..o : a[i] = text[i]
  <2>1. CASE o = 0
    <3>1. SubSeq(text, 1, 0) = <<>>
      OBVIOUS
    <3> QED
      BY <1>1, <1>2, <2>1, <3>1
  <2>2. CASE o # 0
    <3>1. 1 \in 1..Len(text) /\ o \in 1..Len(text)
      BY <1>1, <2>2
    <3> QED
      BY <1>1, <1>2, <2>2, <3>1
  <2> QED
    BY <2>1, <2>2
<1>4. b \in Seq(Symbols) /\ Len(b) = Len(text) - e /\ \A i \in 1..(Len(text) - e) : b[i] = text[e + i]
  <2>1. CASE e = Len(text)
    <3>1. SubSeq(text, e + 1, Len(text)) = <<>>
      BY <1>1, <2>1
    <3> QED
      BY <1>1, <1>2, <2>1, <3>1
  <2>2. CASE e # Len(text)
    <3>1. e + 1 \in 1..Len(text) /\ Len(text) \in 1..Len(text)
      BY <1>1, <2>2
    <3>2. b \in Seq(Symbols) /\ Len(b) = Len(text) - (e + 1) + 1
          /\ \A i \in 1..Len(b) : b[i] = text[(e + 1) + i - 1]
      BY <1>1, <1>2, <2>2, <3>1
    <3>3. ASSUME NEW i \in 1..(Len(text) - e) PROVE b[i] = text[e + i]
      <4>1. i \in 1..Len(b) /\ (e + 1) + i - 1 = e + i
        BY <1>1, <3>2
      <4> QED
        BY <3>2, <4>1
    <3>4. Len(b) = Len(text) - e
      BY <1>1, <3>2
    <3> QED
      BY <3>2, <3>3, <3>4
  <2> QED
    BY <2>1, <2>2
<1>5. /\ Len(a \o b) = Len(a) + Len(b)
      /\ \A i \in 1..Len(a) : (a \o b)[i] = a[i]
      /\ \A i \in 1..Len(b) : (a \o b)[Len(a) + i] = b[i]
      /\ a \o b \in Seq(Symbols)
  <2>1. ASSUME NEW s \in Seq(Symbols), NEW t \in Seq(Symbols)
        PROVE  /\ Len(s \o t) = Len(s) + Len(t)
               /\ \A i \in 1..Len(s) : (s \o t)[i] = s[i]
               /\ \A i \in 1..Len(t) : (s \o t)[Len(s) + i] = t[i]
               /\ s \o t \in Seq(Symbols)
    BY ConcatPlaces
  <2> QED
    BY <1>3, <1>4, <2>1
<1>6. new = a \o b
  BY <1>2 DEF Parts, IsParts
<1> QED
  BY <1>3, <1>4, <1>5, <1>6

\* A text without one of its pieces.
Without(ps, m) == [ps EXCEPT ![m] = <<>>]

\* new is text with piece m cut out.
LacksPiece(new, ps, text, off, m) ==
    Laid(ps, text, off) /\ m \in 1..Len(ps) /\ new = Parts(text, off[m - 1], off[m])

\* Take out the symbols of a piece, and the others are the pieces of what is left.
LEMMA WithoutPiece ==
    ASSUME NEW ps, NEW text, NEW off, NEW m, NEW new, LacksPiece(new, ps, text, off, m)
    PROVE  /\ \E off2 : Laid(Without(ps, m), new, off2)
           /\ Len(new) = Len(text) - Len(ps[m])
<1> USE DEF LacksPiece
<1> DEFINE n == Len(ps)
           qs == [ps EXCEPT ![m] = <<>>]
<1>1. /\ text \in Seq(Symbols) /\ Len(text) \in Nat /\ n \in Nat /\ ps \in Pieces
      /\ ps \in Seq(Seq(Symbols)) /\ Layout(off, ps, text) /\ DOMAIN ps = 1..n
  BY PiecesAreSequences DEF Laid
<1>2. PICK o, e, l : o = off[m - 1] /\ e = off[m] /\ l = Len(ps[m])
  OBVIOUS
<1>3. o \in Nat /\ l \in Nat /\ e = o + l /\ e <= Len(text) /\ e \in Nat
  BY <1>2, PieceAt
<1>4. /\ new \in Seq(Symbols) /\ Len(new) = o + (Len(text) - e)
      /\ \A i \in 1..o : new[i] = text[i]
      /\ \A i \in 1..(Len(text) - e) : new[o + i] = text[e + i]
  <2>1. text \in Seq(Symbols) /\ o \in Nat /\ e \in Nat /\ o <= e /\ e <= Len(text)
    BY <1>1, <1>3
  <2>2. new = Parts(text, o, e)
    BY <1>2
  <2>3. IsParts(new, text, o, e)
    BY <2>1, <2>2 DEF IsParts
  <2> QED
    BY <2>3, PartsPlaces
<1>5. Len(qs) = n /\ DOMAIN qs = DOMAIN ps /\ \A k \in 1..n : qs[k] = IF k = m THEN <<>> ELSE ps[k]
  BY <1>1
<1>6. qs \in Pieces
  <2>1. qs = [k \in DOMAIN ps |-> qs[k]]
    OBVIOUS
  <2>2. <<>> \in Finished
    BY DEF Finished
  <2> HIDE DEF qs
  <2>3. \A k \in 1..Len(ps) : qs[k] = ps[k] \/ qs[k] \in Finished
    BY <1>5, <2>2
  <2> QED
    BY <1>1, <1>5, <2>1, <2>3, ReplacedArePieces
<1>7. \A k \in 1..n : off[k - 1] \in Nat /\ off[k] \in Nat /\ off[k] = off[k - 1] + Len(ps[k])
                      /\ Len(ps[k]) \in Nat /\ off[k] <= Len(text)
  BY PieceAt
<1>8. off \in [0..n -> Nat] /\ off[0] = 0 /\ off[n] = Len(text)
  BY <1>1 DEF Layout
<1>9. \A k \in 0..n : /\ k < m => off[k] <= o
                      /\ k >= m => off[k] >= e
  <2>1. ASSUME NEW k \in 0..n, k < m PROVE off[k] <= o
    <3>1. m - 1 \in k..n
      BY <1>1, <2>1
    <3> QED
      BY <1>1, <1>2, <3>1, EndsGrow
  <2>2. ASSUME NEW k \in 0..n, k >= m PROVE e <= off[k]
    <3>1. m \in 0..n /\ k \in m..n
      BY <1>1, <2>2
    <3> QED
      BY <1>1, <1>2, <3>1, EndsGrow
  <2>3. \A k \in 0..n : off[k] \in Nat
    BY <1>8
  <2> QED
    BY <1>3, <2>1, <2>2, <2>3
<1> DEFINE off2 == [k \in 0..n |-> IF k < m THEN off[k] ELSE off[k] - l]
<1>10. off2 \in [0..n -> Nat] /\ \A k \in 0..n : off2[k] = IF k < m THEN off[k] ELSE off[k] - l
  <2>1. ASSUME NEW k \in 0..n PROVE (IF k < m THEN off[k] ELSE off[k] - l) \in Nat
    <3>1. off[k] \in Nat /\ (k >= m => off[k] >= e)
      BY <1>8, <1>9
    <3>2. k < m \/ k >= m
      BY <1>1
    <3> QED
      BY <1>3, <3>1, <3>2
  <2> QED
    BY <2>1
<1> HIDE DEF off2, qs
<1>11. ASSUME NEW k \in 1..n
       PROVE  /\ off2[k] = off2[k - 1] + Len(qs[k])
              /\ \A j \in 1..Len(qs[k]) : new[off2[k - 1] + j] = qs[k][j]
  <2>1. k - 1 \in 0..n /\ k \in 0..n
    BY <1>1
  <2>2. CASE k < m
    <3>1. off2[k] = off[k] /\ off2[k - 1] = off[k - 1] /\ qs[k] = ps[k]
      BY <1>1, <1>5, <1>10, <2>1, <2>2
    <3>2. ASSUME NEW j \in 1..Len(ps[k]) PROVE new[off[k - 1] + j] = ps[k][j]
      <4>1. text[off[k - 1] + j] = ps[k][j]
        BY PieceAt
      <4>2. off[k - 1] + j \in 1..o
        <5>1. off[k] <= o /\ off[k - 1] \in Nat /\ Len(ps[k]) \in Nat
              /\ off[k] = off[k - 1] + Len(ps[k])
          BY <1>7, <1>9, <2>1, <2>2
        <5> QED
          BY <1>3, <5>1, SMTT(20)
      <4> QED
        BY <1>4, <4>1, <4>2
    <3> QED
      BY <1>7, <3>1, <3>2
  <2>3. CASE k = m
    <3>1. off2[k] = e - l /\ off2[k - 1] = o /\ qs[k] = <<>>
      <4>1. ~(k < m) /\ k - 1 < m
        BY <1>1, <2>3
      <4> QED
        BY <1>2, <1>5, <1>10, <2>1, <2>3, <4>1
    <3> QED
      BY <1>3, <3>1
  <2>4. CASE k > m
    <3>1. off2[k] = off[k] - l /\ off2[k - 1] = off[k - 1] - l /\ qs[k] = ps[k]
      <4>1. ~(k < m) /\ ~(k - 1 < m) /\ k # m
        BY <1>1, <2>4
      <4> QED
        BY <1>5, <1>10, <2>1, <4>1
    <3>2. off[k - 1] >= e
      BY <1>1, <1>9, <2>1, <2>4
    <3>3. ASSUME NEW j \in 1..Len(ps[k]) PROVE new[(off[k - 1] - l) + j] = ps[k][j]
      <4>1. text[off[k - 1] + j] = ps[k][j] /\ off[k - 1] + j \in 1..Len(text)
        BY PieceAt
      <4>2. PICK i : i = off[k - 1] + j - e
        OBVIOUS
      <4>3. /\ i \in 1..(Len(text) - e) /\ o + i = (off[k - 1] - l) + j
            /\ e + i = off[k - 1] + j
        <5>1. PICK x : x = off[k - 1]
          OBVIOUS
        <5>2. x \in Nat /\ x >= e /\ x + j \in 1..Len(text) /\ i = x + j - e /\ j \in Nat /\ j >= 1
          BY <1>7, <3>2, <4>1, <4>2, <5>1
        <5>3. i \in 1..(Len(text) - e) /\ o + i = (x - l) + j /\ e + i = x + j
          BY <1>1, <1>3, <5>2
        <5> QED
          BY <5>1, <5>3
      <4> QED
        BY <1>4, <4>1, <4>3
    <3> QED
      <4>1. PICK x, y, z : x = off[k - 1] /\ y = off[k] /\ z = Len(ps[k])
        OBVIOUS
      <4>2. x \in Nat /\ z \in Nat /\ y = x + z
        BY <1>7, <4>1
      <4>3. y - l = (x - l) + z
        BY <1>3, <4>2
      <4> QED
        BY <3>1, <3>3, <4>1, <4>3
  <2>5. k < m \/ k = m \/ k > m
    BY <1>1
  <2> QED
    BY <2>2, <2>3, <2>4, <2>5
<1>12. off2[0] = 0 /\ Len(new) = off2[n]
  <2>1. 0 \in 0..n /\ n \in 0..n /\ 0 < m /\ ~(n < m)
    BY <1>1
  <2>2. off2[0] = 0 /\ off2[n] = Len(text) - l
    BY <1>8, <1>10, <2>1
  <2> QED
    BY <1>1, <1>3, <1>4, <2>2
<1>13. Layout(off2, qs, new)
  BY <1>5, <1>10, <1>11, <1>12 DEF Layout
<1>14. Laid(qs, new, off2)
  BY <1>4, <1>6, <1>13 DEF Laid
<1>15. Len(new) = Len(text) - l
  BY <1>1, <1>3, <1>4
<1> QED
  BY <1>2, <1>14, <1>15 DEF qs, Without

\* The first whole preparation is taken out of the text, or there is none.
LEMMA RemoveIs ==
    ASSUME NEW ps, NEW text, NEW off, Laid(ps, text, off), NEW new, new = RemoveMatchPrep(text)
    PROVE  \/ new = text /\ \A k \in 1..Len(ps) : ps[k] \notin Preps
           \/ \E m \in 1..Len(ps) :
                /\ ps[m] \in Preps /\ Len(new) < Len(text)
                /\ \E off2 : Laid(Without(ps, m), new, off2)
<1> DEFINE p == findMatchPrepPayloadFrom(text, 1)
           end == IF p.close = 0 THEN 0 ELSE Index(text, "]", p.close)
<1>1. /\ text \in Seq(Symbols) /\ Len(text) \in Nat /\ Len(ps) \in Nat /\ DOMAIN ps = 1..Len(ps)
      /\ off[0] = 0 /\ ps \in Seq(Seq(Symbols)) /\ Layout(off, ps, text)
  BY PiecesAreSequences DEF Laid, Layout
<1>2. new = IF end = 0 THEN text ELSE SubSeq(text, 1, p.start - 1) \o SubSeq(text, end + 1, Len(text))
  BY DEF RemoveMatchPrep
<1>3. Past(off, 1, 0) /\ 0 \in 0..Len(ps)
  BY <1>1 DEF Past
<1>4. ASSUME NEW k \in 1..Len(ps), ps[k] \in Preps
      PROVE  k \in Opened(ps) /\ WithPayload(ps[k]) \in Preps /\ ps[k] \in Wholes
  <2>1. ps[k] \in Wholes
    BY <1>4 DEF Wholes
  <2>2. WithPayload(ps[k]) \in Preps
    BY <1>4, <2>1 DEF WithPayload
  <2> QED
    BY <2>1, <2>2, NoPayload
<1>5. Opened(ps) \subseteq 1..Len(ps)
  BY DEF Opened
<1> HIDE DEF p
<1>6. CASE \A k \in Opened(ps) : ~(0 < k)
  <2>1. p.close = 0
    BY <1>3, <1>6, FindNone DEF p
  <2>2. new = text
    BY <1>2, <2>1
  <2>3. \A k \in 1..Len(ps) : 0 < k
    BY <1>1
  <2> QED
    BY <1>4, <1>6, <2>2, <2>3
<1>7. CASE ~(\A k \in Opened(ps) : ~(0 < k))
  <2>1. Opened(ps) \in SUBSET Nat /\ Opened(ps) # {}
    BY <1>5, <1>7
  <2>2. PICK m \in Opened(ps) : \A k \in Opened(ps) : m <= k
    BY <2>1, LeastNatural
  <2>3. m \in 1..Len(ps) /\ NextPrep(ps, 0, m)
    BY <1>5, <2>2 DEF NextPrep
  <2>4. PICK w : OpensPrep(ps, text, off, m, w) /\ Found(ps, text, off, 1, m, w)
    BY <1>3, <2>3, FindNext
  <2>5. PICK o, l : o = off[m - 1] /\ l = Len(ps[m])
    OBVIOUS
  <2>6. /\ w \in Preps /\ w \in Seq(Symbols) /\ Len(w) \in Nat /\ Len(w) >= 5
        /\ w[Len(w) - 1] = "rbrace" /\ w[Len(w)] = "]"
    BY <2>4, PrepSymbols DEF OpensPrep
  <2>7. /\ o \in Nat /\ l \in 1..Len(w) /\ off[m] = o + l /\ o + l <= Len(text)
        /\ \A j \in 1..l : text[o + j] = w[j]
        /\ l < Len(w) => o + l = Len(text)
        /\ l = Len(w) => ps[m] = w
        /\ l < Len(w) => ps[m] \in Beginnings
    BY <2>4, <2>5, OpensPrepAt
  <2>8. IF l < Len(w) - 1 THEN p.close = 0
        ELSE p.start = o + 1 /\ p.open = o + 2 /\ p.close = o + (Len(w) - 1)
    BY <2>4, <2>5 DEF Found, p
  <2>9. ASSUME l < Len(w), NEW k \in 1..Len(ps), ps[k] \in Preps PROVE FALSE
    <3>1. ps[m] \in Beginnings /\ ps[m] \notin Wholes
      BY <2>7, <2>9, BeginningsAre
    <3>2. ps[m] \notin Finished
      <4>1. ps[m][1] = "[PREP:" /\ <<"title">>[1] # "[PREP:"
        BY <2>2 DEF Opened
      <4> QED
        BY <3>1, <4>1, BeginningsAre DEF Finished
    <3>3. m = Len(ps)
      BY <2>3, <3>2, PieceAt
    <3>4. k \in Opened(ps) /\ ps[k] \in Wholes
      BY <1>4, <2>9
    <3>5. m <= k
      BY <2>2, <3>4
    <3>6. k = m
      <4>1. k <= m /\ k \in Nat /\ m \in Nat
        BY <1>1, <3>3
      <4> QED
        BY <3>5, <4>1
    <3> QED
      BY <3>1, <3>4, <3>6
  <2>10. CASE l < Len(w) - 1
    <3>1. l < Len(w) /\ p.close = 0
      BY <2>6, <2>7, <2>8, <2>10
    <3>2. new = text
      BY <1>2, <3>1
    <3> QED
      BY <2>9, <3>1, <3>2
  <2>11. CASE l = Len(w) - 1
    <3>1. l < Len(w) /\ ~(l < Len(w) - 1)
      BY <2>6, <2>11
    <3>2. PICK c : c = o + l
      OBVIOUS
    <3>3. p.close = c /\ c = Len(text) /\ c \in Nat /\ c >= 1 /\ text[c] = "rbrace"
      <4>1. l \in 1..l
        BY <2>6, <2>7
      <4> QED
        BY <2>6, <2>7, <2>8, <2>11, <3>1, <3>2, <4>1
    <3>4. \A x \in c..Len(text) : text[x] # "]"
      BY <3>3
    <3>5. Index(text, "]", c) = 0
      BY <1>1, <3>3, <3>4, IndexIsNone
    <3>6. new = text
      BY <1>2, <3>3, <3>5
    <3> QED
      BY <2>9, <3>1, <3>6
  <2>12. CASE l = Len(w)
    <3>1. PICK c, e : c = o + (Len(w) - 1) /\ e = o + l
      OBVIOUS
    <3>2. ps[m] = w /\ p.close = c /\ p.start = o + 1
      BY <2>6, <2>7, <2>8, <2>12, <3>1
    <3>3. /\ c \in Nat /\ c >= 1 /\ e = c + 1 /\ e \in c..Len(text) /\ e \in Nat /\ e # 0 /\ c # 0
          /\ text[e] = "]" /\ text[c] = "rbrace"
      <4>1. Len(w) \in 1..l /\ Len(w) - 1 \in 1..l
        BY <2>6, <2>7, <2>12
      <4> QED
        BY <2>6, <2>7, <2>12, <3>1, <4>1, SMTT(20)
    <3>4. \A x \in c..(e - 1) : text[x] # "]"
      BY <3>3
    <3>5. Index(text, "]", c) = e
      BY <1>1, <3>3, <3>4, IndexIs
    <3>6. new = Parts(text, off[m - 1], off[m])
      <4>1. end = e
        BY <3>2, <3>3, <3>5
      <4>2. p.start - 1 = o
        BY <2>7, <3>2
      <4> HIDE DEF end
      <4>3. new = SubSeq(text, 1, o) \o SubSeq(text, e + 1, Len(text))
        BY <1>2, <3>3, <4>1, <4>2
      <4> QED
        BY <2>5, <2>7, <3>1, <4>3 DEF Parts
    <3>7. /\ \E off2 : Laid(Without(ps, m), new, off2)
          /\ Len(new) = Len(text) - Len(ps[m])
      <4>1. LacksPiece(new, ps, text, off, m)
        BY <2>3, <3>6 DEF LacksPiece
      <4> QED
        BY <4>1, WithoutPiece
    <3>8. Len(new) < Len(text)
      <4>1. PICK y, z : y = Len(text) /\ z = Len(w)
        OBVIOUS
      <4>2. Len(new) = y - z /\ y \in Nat /\ z \in Nat /\ z >= 5
        BY <1>1, <2>5, <2>6, <2>12, <3>7, <4>1
      <4>3. y - z < y
        BY <4>2
      <4> QED
        BY <4>1, <4>2, <4>3
    <3>9. ps[m] \in Preps
      BY <2>6, <3>2
    <3> QED
      BY <2>3, <3>7, <3>8, <3>9
  <2>13. l < Len(w) - 1 \/ l = Len(w) - 1 \/ l = Len(w)
    BY <2>6, <2>7
  <2> QED
    BY <2>10, <2>11, <2>12, <2>13
<1> QED
  BY <1>6, <1>7

\* Pieces s are pieces us, some of the preparations taken out.
Cleaned(us, s) ==
    /\ us \in Pieces /\ s \in Pieces /\ Len(s) = Len(us)
    /\ \A k \in 1..Len(us) : s[k] = us[k] \/ (us[k] \in Preps /\ s[k] = <<>>)

\* The texts of those, and the pieces without any preparation.
Cleanings(us) == {t \in Seq(Symbols) : \E s, off : Laid(s, t, off) /\ Cleaned(us, s)}
CleanedOf(us) == [k \in DOMAIN us |-> IF us[k] \in Preps THEN <<>> ELSE us[k]]

\* When no preparation is left, all of them are taken out.
LEMMA AllCleaned ==
    ASSUME NEW us, NEW s, Cleaned(us, s), \A k \in 1..Len(s) : s[k] \notin Preps
    PROVE  s = CleanedOf(us)
<1>1. us \in Seq(Seq(Symbols)) /\ s \in Seq(Seq(Symbols)) /\ Len(s) = Len(us)
  BY PiecesAreSequences DEF Cleaned
<1>2. DOMAIN us = 1..Len(us) /\ DOMAIN s = 1..Len(us) /\ s = [k \in 1..Len(us) |-> s[k]]
  BY <1>1
<1>3. \A k \in 1..Len(us) : s[k] = IF us[k] \in Preps THEN <<>> ELSE us[k]
  BY <1>1 DEF Cleaned
<1> QED
  BY <1>2, <1>3 DEF CleanedOf

\* A turn finds nothing, when nothing is left, or makes the text shorter.
LEMMA RemoveGoesOn ==
    ASSUME NEW us, NEW t \in Cleanings(us), NEW new, new = RemoveMatchPrep(t)
    PROVE  \/ new = t /\ t = FlattenSeq(CleanedOf(us))
           \/ new \in Cleanings(us) /\ Len(new) < Len(t)
<1>1. PICK s, off : Laid(s, t, off) /\ Cleaned(us, s)
  BY DEF Cleanings
<1>2. CASE new = t /\ \A k \in 1..Len(s) : s[k] \notin Preps
  <2>1. s = CleanedOf(us)
    BY <1>1, <1>2, AllCleaned
  <2>2. t = FlattenSeq(s)
    <3>1. s \in Seq(Seq(Symbols)) /\ t \in Seq(Symbols) /\ Layout(off, s, t)
      BY <1>1, PiecesAreSequences DEF Laid
    <3> QED
      BY <3>1, LaidIsFlat
  <2> QED
    BY <1>2, <2>1, <2>2
<1>3. ASSUME NEW m \in 1..Len(s), s[m] \in Preps, Len(new) < Len(t),
             NEW off2, Laid(Without(s, m), new, off2)
      PROVE  new \in Cleanings(us) /\ Len(new) < Len(t)
  <2>1. PICK v : v = Without(s, m)
    OBVIOUS
  <2>2. s \in Seq(Seq(Symbols)) /\ Len(s) \in Nat /\ Len(s) = Len(us)
    BY <1>1, PiecesAreSequences DEF Cleaned
  <2>3. Len(v) = Len(s) /\ \A k \in 1..Len(s) : v[k] = IF k = m THEN <<>> ELSE s[k]
    BY <2>1, <2>2 DEF Without
  <2>4. v \in Pieces /\ new \in Seq(Symbols)
    BY <1>3, <2>1 DEF Laid
  <2>5. us[m] \in Preps
    <3>1. s[m] # <<>>
      BY <1>3, PrepSymbols
    <3> QED
      BY <1>1, <1>3, <2>2, <3>1 DEF Cleaned
  <2>6. Cleaned(us, v)
    BY <1>1, <2>2, <2>3, <2>4, <2>5 DEF Cleaned
  <2> QED
    BY <1>3, <2>1, <2>4, <2>6 DEF Cleanings
<1> QED
  BY <1>1, <1>2, <1>3, RemoveIs

\* h is the text after each turn.
CleanPass(us, text, h) ==
    /\ h \in [0..Len(text) -> Cleanings(us)] /\ h[0] = text
    /\ \A i \in 1..Len(text) : h[i] = RemoveMatchPrep(h[i - 1])

\* CleanMatchPrepTokens takes one turn after another.
LEMMA RemovalsArePass ==
    ASSUME NEW us, NEW text \in Cleanings(us)
    PROVE  \E h : CleanPass(us, text, h) /\ CleanMatchPrepTokens(text) = h[Len(text)]
<1> DEFINE n == Len(text)
           D == 1..n
           X == Cleanings(us)
           base == text
           Op(x) == RemoveMatchPrep(x)
           F == [i \in D |-> [x \in X |-> Op(x)]]
           iter == CHOOSE g : g = [s \in SUBSET (DOMAIN text) |->
                     IF s = {} THEN base ELSE Op(g[s \ {Max(s)}])]
<1>1. n \in Nat /\ DOMAIN text = D
  BY DEF Cleanings
<1>2. CleanMatchPrepTokens(text) = iter[DOMAIN text]
  BY DEF CleanMatchPrepTokens, FoldLeft, MapThenFoldSet
<1>3. base \in X /\ \A x \in X : Op(x) \in X
  <2>1. ASSUME NEW x \in Cleanings(us) PROVE RemoveMatchPrep(x) \in Cleanings(us)
    BY RemoveGoesOn
  <2> QED
    BY <2>1
<1> HIDE DEF base, Op, X
<1>4. F \in [1..n -> [X -> X]] /\ \A x \in X, i \in D : F[i][x] = Op(x)
  BY <1>3
<1> HIDE DEF F
<1>5. \A s \in SUBSET D : s # {} => Max(s) \in D
  BY <1>1, MaxIsGreatest
<1>6. \E g : g = [s \in SUBSET (DOMAIN text) |->
               IF s = {} THEN base ELSE Op(g[s \ {Max(s)}])]
  <2>1. PICK g \in [SUBSET D -> X] : Solves(g, n, base, F)
    BY <1>1, <1>3, <1>4, FoldExists
  <2>2. ASSUME NEW s \in SUBSET D, NEW m, m = Max(s), s # {}
        PROVE  F[m][g[s \ {m}]] = Op(g[s \ {m}])
    BY <1>1, <1>4, <1>5, <2>2
  <2>3. g = [s \in SUBSET D |-> IF s = {} THEN base ELSE Op(g[s \ {Max(s)}])]
    BY <2>1, <2>2 DEF Solves
  <2> QED
    BY <1>1, <2>3
<1>7. iter = [s \in SUBSET D |-> IF s = {} THEN base ELSE Op(iter[s \ {Max(s)}])]
  BY <1>1, <1>6
<1> HIDE DEF iter
<1>8. IsFold(iter, n, X, base, F)
  <2>1. ASSUME NEW s \in SUBSET D, NEW m, m = Max(s), s # {}, iter[s \ {m}] \in X
        PROVE  F[m][iter[s \ {m}]] = Op(iter[s \ {m}])
    BY <1>1, <1>4, <1>5, <2>1
  <2>2. {} \in SUBSET D
    OBVIOUS
  <2> QED
    BY <1>7, <2>1, <2>2 DEF IsFold
<1>9. PICK h : Takes(h, n, X, base, F) /\ h[n] = iter[D]
  <2> HIDE DEF n
  <2> QED
    BY <1>1, <1>3, <1>4, <1>8, FoldSteps
<1>10. ASSUME NEW i \in 1..n PROVE h[i] = Op(h[i - 1])
  <2> HIDE DEF n
  <2>1. i - 1 \in 0..n - 1 /\ (i - 1) + 1 = i /\ i - 1 \in 0..n /\ i \in D
    BY <1>1
  <2>2. h[i] = F[i][h[i - 1]] /\ h[i - 1] \in X
    BY <1>9, <2>1 DEF Takes
  <2> QED
    BY <1>4, <2>1, <2>2
<1>11. CleanPass(us, text, h)
  BY <1>9, <1>10 DEF Takes, CleanPass, base, Op, X
<1> QED
  BY <1>1, <1>2, <1>9, <1>11

\* All whole preparations are taken out.
LEMMA CleanedText ==
    ASSUME NEW us \in Pieces, NEW off, NEW text, Laid(us, text, off)
    PROVE  CleanMatchPrepTokens(text) = FlattenSeq(CleanedOf(us))
<1> DEFINE n == Len(text)
           X == Cleanings(us)
           done == FlattenSeq(CleanedOf(us))
<1>1. n \in Nat /\ text \in X
  <2>1. Cleaned(us, us)
    BY DEF Cleaned
  <2> QED
    BY <2>1 DEF Laid, Cleanings
<1>2. PICK h : CleanPass(us, text, h) /\ CleanMatchPrepTokens(text) = h[n]
  BY <1>1, RemovalsArePass
<1>3. \A t \in X : Len(t) \in Nat
  BY DEF Cleanings
<1> HIDE DEF X, done
<1> DEFINE T == {i \in 0..n : Len(h[i]) <= n - i \/ (RemoveMatchPrep(h[i]) = h[i] /\ h[i] = done)}
<1>4. 0 \in T
  BY <1>1, <1>2 DEF CleanPass
<1>5. ASSUME NEW i \in 0..(n - 1), i \in T PROVE i + 1 \in T
  <2>1. i + 1 \in 1..n /\ (i + 1) - 1 = i /\ i + 1 \in 0..n /\ i \in 0..n
    BY <1>1
  <2>2. h[i + 1] = RemoveMatchPrep(h[i]) /\ h[i] \in X /\ h[i + 1] \in X
    BY <1>2, <2>1 DEF CleanPass, X
  <2>3. CASE RemoveMatchPrep(h[i]) = h[i] /\ h[i] = done
    BY <2>1, <2>2, <2>3
  <2>4. CASE Len(h[i]) <= n - i /\ ~(RemoveMatchPrep(h[i]) = h[i] /\ h[i] = done)
    <3>1. Len(h[i + 1]) < Len(h[i])
      BY <2>2, <2>4, RemoveGoesOn DEF X, done
    <3>2. Len(h[i + 1]) \in Nat /\ Len(h[i]) \in Nat
      BY <1>3, <2>2
    <3>3. Len(h[i + 1]) <= n - (i + 1)
      BY <1>1, <2>1, <2>4, <3>1, <3>2
    <3> QED
      BY <2>1, <3>3
  <2> QED
    BY <1>5, <2>3, <2>4
<1>6. n \in T
  <2> HIDE DEF T
  <2> QED
    BY <1>1, <1>4, <1>5, InductionTo
<1>7. h[n] \in X
  BY <1>1, <1>2 DEF CleanPass, X
<1>8. ASSUME h[n] # done PROVE FALSE
  <2>1. Len(h[n]) <= n - n
    BY <1>6, <1>8
  <2>2. RemoveMatchPrep(h[n]) \in X /\ Len(RemoveMatchPrep(h[n])) < Len(h[n])
    BY <1>7, <1>8, RemoveGoesOn DEF X, done
  <2>3. Len(h[n]) \in Nat /\ Len(RemoveMatchPrep(h[n])) \in Nat
    BY <1>3, <1>7, <2>2
  <2> QED
    BY <1>1, <2>1, <2>2, <2>3
<1> QED
  BY <1>2, <1>8 DEF done

\* What is read of a reply.
LEMMA ContentIsMeant ==
    ASSUME NEW ps \in Seq(Wholes \cup Beginnings), ps \in Pieces
    PROVE  CleanContent(FlattenSeq(ps)) = FlattenSeq([i \in DOMAIN ps |-> ProseOf(ps[i])])
<1> DEFINE text == FlattenSeq(ps)
           ts == TitledOf(ps)
           titled == FlattenSeq(ts)
           us == UnloggedOf(ts)
           unlogged == FlattenSeq(us)
<1>1. PICK off : Laid(ps, text, off)
  BY PiecesAreLaid
<1>2. ts \in Pieces /\ Len(ts) = Len(ps)
      /\ \A k \in 1..Len(ps) : ts[k] = IF ps[k] \in Refs THEN <<"title">> ELSE ps[k]
  BY TitledPieces
<1>3. ReplaceMatches(text, [i \in DOMAIN text |-> lessonRefRegex(text, i)],
                     [i \in DOMAIN text |-> <<At(text, i + 4)>>]) = titled
  BY <1>1, TitledText
<1> HIDE DEF ts, text
<1>4. PICK off1 : Laid(ts, titled, off1)
  BY <1>2, PiecesAreLaid
<1>5. us \in Pieces /\ Len(us) = Len(ts)
      /\ \A k \in 1..Len(ts) : us[k] = IF ts[k] \in Logs THEN <<>> ELSE ts[k]
  BY <1>2, UnloggedPieces
<1>6. ReplaceMatches(titled, [i \in DOMAIN titled |-> matchLogRegex(titled, i)],
                     [i \in DOMAIN titled |-> <<>>]) = unlogged
  BY <1>4, UnloggedText
<1> HIDE DEF titled, us
<1>7. PICK off2 : Laid(us, unlogged, off2)
  BY <1>5, PiecesAreLaid
<1>8. CleanMatchPrepTokens(unlogged) = FlattenSeq(CleanedOf(us))
  BY <1>5, <1>7, CleanedText
<1> HIDE DEF unlogged
<1>9. CleanContent(text) = CleanMatchPrepTokens(unlogged)
  BY <1>3, <1>6 DEF CleanContent
<1>10. CleanedOf(us) = [i \in DOMAIN ps |-> ProseOf(ps[i])]
  <2>1. DOMAIN us = 1..Len(ps) /\ DOMAIN ps = 1..Len(ps)
    BY <1>2, <1>5 DEF Pieces
  <2>2. ASSUME NEW k \in 1..Len(ps)
        PROVE  (IF us[k] \in Preps THEN <<>> ELSE us[k]) = ProseOf(ps[k])
    <3>1. us[k] = IF ts[k] \in Logs THEN <<>> ELSE ts[k]
      BY <1>2, <1>5
    <3>2. ts[k] = IF ps[k] \in Refs THEN <<"title">> ELSE ps[k]
      BY <1>2
    <3>3. <<>> \notin Preps /\ <<"title">> \notin Preps /\ <<"title">> \notin Logs
      <4>1. Len(<<"title">>) = 1 /\ Len(<<>>) = 0 /\ Len(Won) = 5 /\ Len(Lost) = 5
        BY DEF Won, Lost
      <4>2. ASSUME <<"title">> \in Logs PROVE FALSE
        <5>1. <<"title">> \in {Won, Lost}
          BY <4>2, TokenSymbols
        <5>2. Len(<<"title">>) = 5
          BY <4>1, <5>1
        <5> QED
          BY <4>1, <5>2
      <4> QED
        BY <4>1, <4>2, PrepSymbols
    <3>4. ps[k] \in Refs => ps[k][5] = "title"
      BY TokenSymbols DEF Ref
    <3> QED
      BY <3>1, <3>2, <3>3, <3>4 DEF ProseOf
  <2> QED
    BY <2>1, <2>2 DEF CleanedOf
<1> QED
  BY <1>8, <1>9, <1>10 DEF text

-----------------------------------------------------------------------------
(* ChatReply.                                                              *)

\* What the writer received is written in whole pieces but for the last, is some text,
\* and stays until the frames of it are handed over.
TextInv ==
    /\ pieces # <<>> =>
         pieces \in Pieces /\ pieces \in Seq(Wholes \cup Beginnings) /\ finalText # 0
    /\ wp = "done" /\ pipe = "open" /\ pieces # <<>> =>
         frames = FrameOf(MeantLog(pieces)) \o FrameOf(MeantPrep(pieces))

\* What the writer receives is such pieces.
LEMMA ReceivedAre ==
    ASSUME NEW n \in Nat, n # 0, NEW last \in Wholes \cup Beginnings,
           NEW before \in [1..(n - 1) -> Wholes]
    PROVE  /\ Append(before, last) \in Pieces
           /\ Append(before, last) \in Seq(Wholes \cup Beginnings)
<1> DEFINE S == Wholes \cup Beginnings
<1>1. n - 1 \in Nat
  OBVIOUS
<1>2. before \in Seq(Wholes) /\ Len(before) = n - 1
  <2>1. PICK m \in Nat : m = n - 1
    BY <1>1
  <2>2. before \in [1..m -> Wholes]
    BY <2>1
  <2>3. before \in Seq(Wholes) /\ Len(before) = m
    BY <2>2
  <2> QED
    BY <2>1, <2>3
<1>3. Wholes \subseteq S /\ Wholes \subseteq Finished /\ S \subseteq Finished \cup Beginnings
  BY DEF Finished
<1> HIDE DEF S
<1>4. PICK q : q = Append(before, last)
  OBVIOUS
<1>5. last \in S
  BY DEF S
<1>6. q \in Seq(S) /\ Len(q) = n /\ \A k \in 1..(n - 1) : q[k] = before[k]
  BY <1>2, <1>3, <1>4, <1>5
<1>7. \A k \in 1..(n - 1) : q[k] \in Finished
  BY <1>2, <1>3, <1>6
<1>8. q \in Seq(Finished \cup Beginnings)
  BY <1>3, <1>6
<1>9. q \in Pieces
  BY <1>6, <1>7, <1>8 DEF Pieces
<1> QED
  BY <1>4, <1>6, <1>9 DEF S

\* Every step of the model with its text is one of the model without.
LEMMA TextStep == [TextNext]_allVars => [Next]_vars
<1> SUFFICES ASSUME [TextNext]_allVars PROVE [Next]_vars
  OBVIOUS
<1>1. CASE TextProduce
  BY <1>1, Zenon DEF TextProduce, Next
<1>2. CASE TextWrite
  BY <1>2, Zenon DEF TextWrite, ReceiveText, SendFrames, Next, Write
<1>3. CASE TextPipeCloses
  BY <1>3, Zenon DEF TextPipeCloses, Next
<1>4. CASE UNCHANGED allVars
  BY <1>4 DEF allVars
<1> QED
  BY <1>1, <1>2, <1>3, <1>4 DEF TextNext

\* No step breaks it: the frames are what the parsers find, and they find what is meant.
LEMMA TextNextInv == TypeOK /\ TextInv /\ [TextNext]_allVars => TextInv'
<1> SUFFICES ASSUME TypeOK, TextInv, [TextNext]_allVars PROVE TextInv'
  OBVIOUS
<1> USE DEF producer, writer
\* A step that leaves pieces and frames alone.
<1>1. ASSUME UNCHANGED <<pieces, frames, finalText>>, pipe' = "open" => pipe = "open",
             wp' = "done" => wp = "done" \/ finalText = 0
      PROVE  TextInv'
  BY <1>1, Zenon DEF TextInv
<1>2. CASE ReceiveText
  <2>1. said \in Nat /\ finalText' = said /\ wp' # "done"
    BY <1>2, ChunksAssumption DEF ReceiveText, ReceiveFinal, TypeOK
  <2>2. CASE said = 0
    <3>1. pieces' = <<>>
      BY <1>2, <2>2 DEF ReceiveText
    <3> QED
      BY <3>1, Zenon DEF TextInv
  <2>3. CASE said # 0
    <3>1. PICK last \in Wholes \cup Beginnings, before \in [1..(said - 1) -> Wholes] :
            pieces' = Append(before, last)
      BY <1>2, <2>3, Zenon DEF ReceiveText
    <3>2. pieces' \in Pieces /\ pieces' \in Seq(Wholes \cup Beginnings)
      BY <2>1, <2>3, <3>1, ReceivedAre
    <3> QED
      BY <2>1, <2>3, <3>2, Zenon DEF TextInv
  <2> QED
    BY <2>2, <2>3
<1>3. CASE SendFrames
  <2>1. UNCHANGED <<pieces, finalText, pipe>>
    BY <1>3 DEF SendFrames, SendPrefills
  <2>2. ASSUME pipe = "open", pieces # <<>>
        PROVE  frames' = FrameOf(MeantLog(pieces)) \o FrameOf(MeantPrep(pieces))
    <3>1. pieces \in Pieces
      BY <2>2 DEF TextInv
    <3>2. PICK off : Laid(pieces, Text, off)
      BY <3>1, PiecesAreLaid DEF Text
    <3>3. ParseMatchLogToken(Text) = MeantLog(pieces)
          /\ ParseMatchPrepToken(Text) = MeantPrep(pieces)
      BY <3>2, LogIsMeant, PrepIsMeant
    <3>4. frames' = FrameOf(ParseMatchLogToken(Text)) \o FrameOf(ParseMatchPrepToken(Text))
      BY <1>3, <2>2 DEF SendFrames
    <3> QED
      BY <3>3, <3>4, Zenon
  <2> QED
    BY <2>1, <2>2, Zenon DEF TextInv
<1>4. CASE TextProduce
  BY <1>1, <1>4 DEF TextProduce, Produce, NextDelta, NextEnds, NextFails, CloseErrs, CloseChunks
<1>5. CASE TextPipeCloses
  BY <1>1, <1>5 DEF TextPipeCloses, PipeCloses
<1>6. CASE UNCHANGED allVars
  BY <1>1, <1>6 DEF allVars, vars
<1>7. ASSUME Build \/ ReceiveChunk \/ WriteChunk \/ ReceiveError
             \/ ErrsClosed \/ ChunksClosed \/ SaveTurn \/ SendDone,
             UNCHANGED <<pieces, frames>>
      PROVE  TextInv'
  <2>1. UNCHANGED finalText /\ pipe' = pipe
    BY <1>7 DEF Build, ReceiveChunk, WriteChunk, ReceiveError, ErrsClosed, ChunksClosed, SaveTurn,
       SendDone
  <2>2. wp' = "done" => wp = "done" \/ finalText = 0
    BY <1>7 DEF Build, ReceiveChunk, WriteChunk, ReceiveError, ErrsClosed, ChunksClosed, SaveTurn,
       SendDone, AfterLoop
  <2> QED
    BY <1>1, <1>7, <2>1, <2>2
<1> QED
  BY <1>2, <1>3, <1>4, <1>5, <1>6, <1>7 DEF TextNext, TextWrite

\* The text gets in nobody's way: the model with its text implements the model without,
\* and what is proved of that one holds.
THEOREM TextImplements == FairTextSpec => Spec /\ ReplySpec /\ []TypeOK
<1>1. ReplyInit => Init
  BY DEF ReplyInit
<1>2. FairTextSpec => Spec
  BY <1>1, TextStep, PTL DEF FairTextSpec, Spec
<1> QED
  BY <1>2, Implements, TypeCorrect, PTL

\* So every state is one of those.
LEMMA TextCorrect == FairTextSpec => []TextInv
<1>1. ReplyInit => TextInv
  BY DEF ReplyInit, Init, TextInv
<1> QED
  BY <1>1, TextNextInv, TextImplements, PTL DEF FairTextSpec

\* Whatever the reply and however long it is, wherever the limit cut it off, the frames
\* offer what was meant, and the history tells its prose and its references.
THEOREM ReadBackCorrect == FairTextSpec => []RepliesReadBack
<1>1. TextInv => RepliesReadBack
  <2> SUFFICES ASSUME TextInv, wp = "done", pieces # <<>>
               PROVE  /\ pipe = "open" =>
                           frames = FrameOf(MeantLog(pieces)) \o FrameOf(MeantPrep(pieces))
                      /\ CleanContent(Text) = FlattenSeq([i \in DOMAIN pieces |-> ProseOf(pieces[i])])
                      /\ ParseLessonRefs(Text) = MeantRefs(pieces)
    BY Zenon DEF RepliesReadBack
  <2>1. pieces \in Pieces /\ pieces \in Seq(Wholes \cup Beginnings)
    BY DEF TextInv
  <2>2. PICK off : Laid(pieces, Text, off)
    BY <2>1, PiecesAreLaid DEF Text
  <2>3. ParseLessonRefs(Text) = MeantRefs(pieces)
    BY <2>2, RefsAreMeant
  <2>4. CleanContent(Text) = FlattenSeq([i \in DOMAIN pieces |-> ProseOf(pieces[i])])
    BY <2>1, ContentIsMeant DEF Text
  <2> QED
    BY <2>3, <2>4, Zenon DEF TextInv
<1> QED
  BY <1>1, TextCorrect, PTL
=============================================================================
