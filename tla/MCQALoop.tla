------------------------------ MODULE MCQALoop ------------------------------
(* An instance of QALoop for TLC: answers below, at and above the pass score  *)
(* and out of the range of scores, hooks out of range on both sides.          *)
EXTENDS QALoop

MCRawScores == {-2, 7, 8}
MCRawHooks == {-1, 3}
=============================================================================
