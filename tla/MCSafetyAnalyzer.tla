--------------------------- MODULE MCSafetyAnalyzer ---------------------------
(***************************************************************************)
(* Instance of SafetyAnalyzer for TLC: every log, correct or not, of one   *)
(* reader and two writers with up to MaxLines lines.                       *)
(***************************************************************************)
EXTENDS SafetyAnalyzer

CONSTANTS r1, w1, w2, o1

MCLogs == <<r1, w1, w2>>
MCTimes == 0..3
\* The writers may choose one tag both (a fault that P2 must find) and may write
\* three different tags, so that the searches have entries to choose from.
MCTags == [c \in {r1, w1, w2} |->
  LET tag(v, id) == [Version_num |-> v, Client_id |-> id] IN
  CASE c = r1 -> {InitialTag, tag(1, 2)}
    [] c = w1 -> {tag(1, 2), tag(2, 1)}
    [] c = w2 -> {tag(1, 1), tag(1, 2)}]
=============================================================================
