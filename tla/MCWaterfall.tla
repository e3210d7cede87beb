----------------------------- MODULE MCWaterfall -----------------------------
(* Instances of Waterfall for TLC.                                         *)
EXTENDS WaterfallInductive

\* Two scores make ties and strict preferences; ticks 0 and 2 make the
\* sequential engine and a stagger an attempt can end in the middle of.
MCScores   == {1, 2}
MCStaggers == {0, 2}

\* One score leaves a single order: for the runs where order does not matter.
OneScore   == {1}
=============================================================================
