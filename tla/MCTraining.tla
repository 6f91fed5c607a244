----------------------------- MODULE MCTraining -----------------------------
(* Two seeds, two epochs and two scores: ties between epochs and between   *)
(* seeds, a best checkpoint that is not the latest, and a kill anywhere.   *)
EXTENDS Training
=============================================================================
