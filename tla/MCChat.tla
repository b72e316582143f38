------------------------------- MODULE MCChat -------------------------------
(***************************************************************************)
(* internal/chat for TLC in one run: a turn with its reply (ChatReply) or  *)
(* the scroll back through the stored turns (ChatHistory).  They share no  *)
(* variable, so every behaviour of both is a shuffle of one of each and    *)
(* their product would show nothing that the two do not.  Which of them    *)
(* moves is chosen in the initial state; the other one rests.              *)
(***************************************************************************)
EXTENDS ChatReply, ChatHistory

VARIABLE part   \* "turn" or "scroll"

ChatInit == part \in {"turn", "scroll"} /\ ReplyInit /\ HistoryInit

TurnMoves == part = "turn" /\ TextNext /\ UNCHANGED <<part, historyVars>>
ScrollMoves == part = "scroll" /\ HistoryNext /\ UNCHANGED <<part, allVars>>

\* The fairness of FairTextSpec and of FairHistorySpec, each while its part moves.
FairChatSpec ==
    /\ ChatInit /\ [][TurnMoves \/ ScrollMoves]_<<part, allVars, historyVars>>
    /\ WF_vars(part = "turn" /\ Produce)
    /\ WF_vars(part = "turn" /\ Write)
    /\ WF_historyVars(part = "scroll" /\ GetHistory)
=============================================================================
