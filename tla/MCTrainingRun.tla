--------------------------- MODULE MCTrainingRun ---------------------------
(* Small instances of TrainingRun and JobDetail for TLC. *)
EXTENDS JobDetail

\* Of three groups the last is the first one again, with a space in its name.
OuterSpaces == <<1, 2, 1>>
=============================================================================
