--------------------------- MODULE MCLessonBadges ---------------------------
(* LessonBadges for TLC, with the files an operator may write.             *)
EXTENDS LessonBadges

CONSTANTS sa, sb

MCSlugs == {sa, sb}
MCBandeja == {sb}
MCVibora == {sa, sb}

Section(header, slug, texts, cues, drill) ==
    [header |-> header, slug |-> slug, texts |-> texts, cues |-> cues, drill |-> drill]
MCSections ==
    {Section("well", sa, TRUE, Cues, "whole"), Section("well", sb, TRUE, Cues, "whole"),
     Section("mistyped", sb, TRUE, Cues, "whole"), Section("well", sa, TRUE, Cues - 1, "none"),
     Section("mistyped", sa, FALSE, Cues - 1, "whole"), Section("well", sb, TRUE, Cues, "mistyped")}
MCFiles == UNION {[1..n -> MCSections] : n \in 0..2}
=============================================================================
