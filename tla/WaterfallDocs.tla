----------------------------- MODULE WaterfallDocs -----------------------------
(***************************************************************************)
(* What the messages and the documentation say of a staggered run, where   *)
(* the code does otherwise.                                                *)
(***************************************************************************)
EXTENDS Waterfall

\* The reason written into a snipe-aborted attempt, "A later strategy supplied
\* the selected result." (engine.py:286), is true: the selected strategy has a
\* later rank.
SnipeReasonTrue == \A i \in Ranks : attempt[i].sniped => i < result

\* Only in-flight losers are marked snipe_aborted (README.md:127): an attempt
\* whose adapter had come back when its future was in the done set, and ended
\* in an error of its own, keeps that error in the receipt.
OnlyInFlightSniped ==
  pc = "returned" =>
    \A i \in batch : outcome[i] \in {"contract", "continuation", "terminal"} => ~attempt[i].sniped
=============================================================================
