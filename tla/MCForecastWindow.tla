-------------------------- MODULE MCForecastWindow --------------------------
(* Small instances of ForecastWindow for TLC. *)
EXTENDS ForecastWindow

SmallSizes == 1..7
FewLevels == 1..3
=============================================================================
