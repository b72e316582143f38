----------------------------- MODULE ChatStream -----------------------------
(***************************************************************************)
(* One chat turn, POST /chat: the goroutine of anthropic.Client.Stream     *)
(* reads the model and sends on two channels, the body stream writer of    *)
(* chat.Handler.Post receives from both, writes SSE frames to the          *)
(* connection and stores the turn.                                         *)
(*                                                                         *)
(* Each receive of the writer's select is an action, as is each write and  *)
(* the transaction of SaveTurn.  chunks has no buffer: its send and its    *)
(* receive are one step.  errs holds one error.                            *)
(*                                                                         *)
(* The context given to Stream is c.UserContext(), which nothing cancels:  *)
(* ctx.Done() never fires.  fasthttp hands the writer a pipe that the      *)
(* server closes when the client is gone; a frame written to an open pipe  *)
(* is handed over, a write to a closed one fails.  The text of a frame is  *)
(* left out: the reply is the number of its pieces, and none is the empty  *)
(* text.                                                                   *)
(***************************************************************************)
EXTENDS Naturals

CONSTANT MaxChunks      \* bound: pieces of text in a reply

ASSUME ChunksAssumption == MaxChunks \in Nat

VARIABLES
    upstream,       \* the model's stream: "talking", or how stream.Err() ended it
    said,           \* pieces written to the producer's builder
    pp,             \* where the producer goroutine is
    errBuf,         \* whether errs holds an error
    errsOpen,       \* whether errs is not closed
    chunksOpen,     \* whether chunks is not closed
    wp,             \* where the request is: its handler, then the writer
    wchunks,        \* the writer's chunks is not nil
    werrs,          \* the writer's errs is not nil
    finalText,      \* pieces of the final text the writer received
    pipe,           \* whether the connection takes frames
    shown,          \* chunk frames handed over
    offered,        \* whether a match_log or match_prep frame was handed over
    ids,            \* whether SaveTurn returned ids
    kept,           \* whether the turn is in messages
    outcome         \* the last frame: "none", "error", "done" or "done_ids"

producer == <<upstream, said, pp, errsOpen, chunksOpen>>
writer == <<wchunks, werrs, finalText, offered, ids, kept>>
vars == <<producer, errBuf, wp, writer, pipe, shown, outcome>>

ProducerPcs == {"none", "next", "send", "final", "close_errs", "close_chunks", "exited"}
WriterPcs == {"build", "select", "write", "save", "prefill", "done", "returned"}

Init ==
    /\ upstream = "talking" /\ said = 0 /\ pp = "none"
    /\ errBuf = FALSE /\ errsOpen = TRUE /\ chunksOpen = TRUE
    /\ wp = "build" /\ wchunks = TRUE /\ werrs = TRUE /\ finalText = 0
    /\ pipe = "open" /\ shown = 0 /\ offered = FALSE
    /\ ids = FALSE /\ kept = FALSE /\ outcome = "none"

\* Assembler.Build, then Stream; an error is answered with status 500.
Build ==
    /\ wp = "build"
    /\ \/ wp' = "select" /\ pp' = "next"
       \/ wp' = "returned" /\ UNCHANGED pp
    /\ UNCHANGED <<upstream, said, errsOpen, chunksOpen, errBuf, writer, pipe, shown, outcome>>

-----------------------------------------------------------------------------
(* The producer.                                                           *)

\* A text delta that is not empty; other events are skipped.
NextDelta ==
    /\ pp = "next" /\ said < MaxChunks
    /\ said' = said + 1
    /\ pp' = "send"
    /\ UNCHANGED <<upstream, errsOpen, chunksOpen, errBuf, wp, writer, pipe, shown, outcome>>

NextEnds ==
    /\ pp = "next"
    /\ upstream' = "ended"
    /\ pp' = "final"
    /\ UNCHANGED <<said, errsOpen, chunksOpen, errBuf, wp, writer, pipe, shown, outcome>>

NextFails ==
    /\ pp = "next"
    /\ upstream' = "failed"
    /\ errBuf' = TRUE
    /\ pp' = "close_errs"
    /\ UNCHANGED <<said, errsOpen, chunksOpen, wp, writer, pipe, shown, outcome>>

\* Mutant: errs is never closed.
ForgetsErrs ==
    /\ pp = "close_errs"
    /\ pp' = "close_chunks"
    /\ UNCHANGED <<upstream, said, errsOpen, chunksOpen, errBuf, wp, writer, pipe, shown, outcome>>

\* Deferred calls run last first: errs is closed before chunks.
CloseErrs ==
    /\ pp = "close_errs"
    /\ errsOpen' = FALSE
    /\ pp' = "close_chunks"
    /\ UNCHANGED <<upstream, said, chunksOpen, errBuf, wp, writer, pipe, shown, outcome>>

CloseChunks ==
    /\ pp = "close_chunks"
    /\ chunksOpen' = FALSE
    /\ pp' = "exited"
    /\ UNCHANGED <<upstream, said, errsOpen, errBuf, wp, writer, pipe, shown, outcome>>

-----------------------------------------------------------------------------
(* streamChunks.                                                           *)

ReceiveChunk ==
    /\ wp = "select" /\ wchunks /\ pp = "send"
    /\ pp' = "next"
    /\ wp' = "write"
    /\ UNCHANGED <<upstream, said, errsOpen, chunksOpen, errBuf, writer, pipe, shown, outcome>>

\* Mutant: a piece is flushed twice.
WriteChunkTwice ==
    /\ wp = "write"
    /\ \/ pipe = "open" /\ shown' = shown + 2 /\ wp' = "select"
       \/ pipe = "closed" /\ wp' = "returned" /\ UNCHANGED shown
    /\ UNCHANGED <<producer, errBuf, writer, pipe, outcome>>

\* A write that fails ends the turn: nothing is stored, nobody receives again.
WriteChunk ==
    /\ wp = "write"
    /\ \/ pipe = "open" /\ shown' = shown + 1 /\ wp' = "select"
       \/ pipe = "closed" /\ wp' = "returned" /\ UNCHANGED shown
    /\ UNCHANGED <<producer, errBuf, writer, pipe, outcome>>

ReceiveFinal ==
    /\ wp = "select" /\ wchunks /\ pp = "final"
    /\ finalText' = said
    /\ pp' = "close_errs"
    /\ UNCHANGED <<upstream, said, errsOpen, chunksOpen, errBuf, wp, wchunks, werrs, offered, ids,
                   kept, pipe, shown, outcome>>

\* The error frame; its own errors are ignored.
ReceiveError ==
    /\ wp = "select" /\ werrs /\ errBuf
    /\ errBuf' = FALSE
    /\ outcome' = IF pipe = "open" THEN "error" ELSE outcome
    /\ wp' = "returned"
    /\ UNCHANGED <<producer, writer, pipe, shown>>

\* Mutant: the loop needs both channels.
AfterLoopEither == IF wchunks' /\ werrs' THEN "select"
                   ELSE IF finalText = 0 THEN "done" ELSE "save"

\* The loop goes on while a channel is left; then a reply without text skips
\* SaveTurn.
AfterLoop == IF wchunks' \/ werrs' THEN "select"
             ELSE IF finalText = 0 THEN "done" ELSE "save"

ErrsClosed ==
    /\ wp = "select" /\ werrs /\ ~errBuf /\ ~errsOpen
    /\ werrs' = FALSE /\ UNCHANGED wchunks
    /\ wp' = AfterLoop
    /\ UNCHANGED <<producer, errBuf, finalText, offered, ids, kept, pipe, shown, outcome>>

ChunksClosed ==
    /\ wp = "select" /\ wchunks /\ ~chunksOpen
    /\ wchunks' = FALSE /\ UNCHANGED werrs
    /\ wp' = AfterLoop
    /\ UNCHANGED <<producer, errBuf, finalText, offered, ids, kept, pipe, shown, outcome>>

-----------------------------------------------------------------------------
(* SaveTurn and finishStream.                                              *)

\* One transaction.  A COMMIT that returns an error may have committed.
SaveTurn ==
    /\ wp = "save"
    /\ \/ kept' = TRUE /\ ids' \in BOOLEAN
       \/ UNCHANGED <<kept, ids>>
    /\ wp' = "prefill"
    /\ UNCHANGED <<producer, errBuf, wchunks, werrs, finalText, offered, pipe, shown, outcome>>

\* match_log and match_prep, if the text has such a token.
SendPrefills ==
    /\ wp = "prefill"
    /\ offered' \in {FALSE, pipe = "open"}
    /\ wp' = "done"
    /\ UNCHANGED <<producer, errBuf, wchunks, werrs, finalText, ids, kept, pipe, shown, outcome>>

SendDone ==
    /\ wp = "done"
    /\ outcome' = IF pipe = "closed" THEN outcome ELSE IF ids THEN "done_ids" ELSE "done"
    /\ wp' = "returned"
    /\ UNCHANGED <<producer, errBuf, writer, pipe, shown>>

\* The client goes away.
PipeCloses ==
    /\ pipe = "open" /\ pp # "none" /\ wp # "returned"
    /\ pipe' = "closed"
    /\ UNCHANGED <<producer, errBuf, wp, writer, shown, outcome>>

Produce == NextDelta \/ NextEnds \/ NextFails \/ CloseErrs \/ CloseChunks
Write ==
    \/ Build \/ ReceiveChunk \/ WriteChunk \/ ReceiveFinal \/ ReceiveError
    \/ ErrsClosed \/ ChunksClosed \/ SaveTurn \/ SendPrefills \/ SendDone

Next == Produce \/ Write \/ PipeCloses

Spec == Init /\ [][Next]_vars

\* Goroutines that can move are scheduled, and the model keeps talking or ends.
FairSpec == Spec /\ WF_vars(Produce) /\ WF_vars(Write)

-----------------------------------------------------------------------------
(* Properties.                                                             *)

\* Every variable has its type, and no more is shown than can be said.
TypeOK ==
    /\ upstream \in {"talking", "ended", "failed"}
    /\ said \in 0..MaxChunks /\ shown \in 0..MaxChunks /\ finalText \in 0..MaxChunks
    /\ pp \in ProducerPcs /\ wp \in WriterPcs
    /\ errBuf \in BOOLEAN /\ errsOpen \in BOOLEAN /\ chunksOpen \in BOOLEAN
    /\ wchunks \in BOOLEAN /\ werrs \in BOOLEAN
    /\ offered \in BOOLEAN /\ ids \in BOOLEAN /\ kept \in BOOLEAN
    /\ pipe \in {"open", "closed"}
    /\ outcome \in {"none", "error", "done", "done_ids"}

\* It implements OneReply: whichever channel the select picks, an error of the
\* model is never taken for an end of the reply, and a turn is stored only after
\* all of it was handed to the client.
Reply == INSTANCE OneReply
ReplySpec == Reply!Spec

\* A turn that started streaming ends on both sides: the writer returns, and the
\* producer goroutine exits unless the client went away.
BothEnd == wp = "select" ~> wp = "returned" /\ (pp = "exited" \/ pipe = "closed")

Failed == upstream = "failed" \/ (~kept /\ wp = "prefill")

\* A client that disconnects does not cost it the turn: "killing curl mid-stream
\* and verifying messages count increases by 2 anyway" (handler_test.go:305), as
\* long as the model and the transaction succeed.
SavedEvenIfClientDisconnects == wp = "write" ~> kept \/ Failed
=============================================================================
