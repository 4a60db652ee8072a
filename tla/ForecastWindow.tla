--------------------------- MODULE ForecastWindow ---------------------------
(***************************************************************************)
(* The rolling forecast of one target: run_inference_from_dataframe        *)
(* (inference_service.py) and run_chunk_inference have the same loop.  A   *)
(* window of `context` past values slides over the `history` rows by       *)
(* `step` (prediction_length) rows; the forecasts are glued together until *)
(* there is one for every row after the first `context` ones, which the    *)
(* response pairs with the actual values of those rows.                    *)
(*                                                                         *)
(* Values are abstracted to positions: a forecast is the row it is for.    *)
(* The model is external: predict returns forecasts of the next            *)
(* prediction_length rows, one series of them per quantile level, or       *)
(* nothing, or raises.  _to_float_list makes one list of all levels.       *)
(***************************************************************************)
EXTENDS Integers, Sequences

CONSTANTS
    Sizes,        \* the values lengths are drawn from
    Levels        \* the numbers of quantile levels a pipeline may return

ASSUME SizesAssumption == Sizes \subseteq Nat \ {0} /\ Levels \subseteq Nat \ {0}

VARIABLES
    history,      \* history_length: rows of the data frame
    context,      \* context_length
    step,         \* prediction_length
    levels,       \* quantile levels in the pipeline's output, 1 for a point forecast
    start,        \* start_idx
    merged,       \* merged_prediction: the rows its values are forecasts of
    pc            \* validating, predicting, done, rejected (400) or failed (500)

windowVars == <<history, context, step, levels, start, merged, pc>>
sizes == <<history, context, step, levels>>

Init ==
    /\ history \in Sizes /\ context \in Sizes /\ step \in Sizes
    /\ levels \in Levels
    /\ start = 0
    /\ merged = << >>
    /\ pc = "validating"

(* expected_pred_len *)
Expected == history - context

(* 400 unless there is at least one row to forecast after a full window. *)
Sufficient == history > context

Validate ==
    /\ pc = "validating"
    /\ pc' = IF Sufficient THEN "predicting" ELSE "rejected"
    /\ UNCHANGED <<sizes, start, merged>>

(* As if the window moved back to the rows before it. *)
SlideBack == start - step

(* As if the window moved by its own width. *)
SlideByContext == start + context

(* start_idx += prediction_length *)
Slide == start + step

(* As if every forecast of the window were kept. *)
KeepAll(output) == output

(* chunk_prediction[:remaining] *)
Keep(output) ==
    LET remaining == Expected - Len(merged)
    IN  IF Len(output) <= remaining THEN output ELSE SubSeq(output, 1, remaining)

(* The rows forecast from rows start .. start + context - 1: reshape(-1)   *)
(* puts the rows of the second level behind those of the first.            *)
Output == [i \in 1..(levels * step) |-> start + context + ((i - 1) % step)]

More == Len(merged) < Expected

PredictWindow ==
    /\ pc = "predicting"
    /\ More
    /\ merged' = merged \o Keep(Output)
    /\ start' = Slide
    /\ UNCHANGED <<sizes, pc>>

(* An empty output or an exception of the model. *)
PredictFailure ==
    /\ pc = "predicting" /\ More
    /\ pc' = "failed"
    /\ UNCHANGED <<sizes, start, merged>>

(* As if the loop only ended with a window whose forecast is used in full. *)
RespondFlush ==
    /\ pc = "predicting" /\ ~More /\ start = Expected
    /\ pc' = "done"
    /\ UNCHANGED <<sizes, start, merged>>

Respond ==
    /\ pc = "predicting" /\ ~More
    /\ pc' = "done"
    /\ UNCHANGED <<sizes, start, merged>>

Next == Validate \/ PredictWindow \/ PredictFailure \/ Respond

Spec == Init /\ [][Next]_windowVars /\ WF_windowVars(Next)
-----------------------------------------------------------------------------

(* The state has the shape the code gives it. *)
TypeOK ==
    /\ history \in Sizes /\ context \in Sizes /\ step \in Sizes
    /\ levels \in Levels
    /\ start \in Nat
    /\ merged \in Seq(Nat)
    /\ pc \in {"validating", "predicting", "done", "rejected", "failed"}

(* Every window given to the model lies in the data: slicing past the end  *)
(* would hand it fewer than context values, or none, without an error.     *)
WindowInside == pc = "predicting" /\ More => start + context <= history

(* A response has as many forecasts as actual values, at least one, also   *)
(* in a last window that is cut short (response.py:130).  Each is the      *)
(* forecast of the row whose actual value stands next to it, if the        *)
(* pipeline returns one level; if it returns several, only those of the    *)
(* first window are, up to prediction_length.                              *)
Complete ==
    pc = "done" =>
        /\ Len(merged) = history - context
        /\ merged # << >>
        /\ \A k \in 1..Len(merged) :
             levels = 1 \/ k <= step => merged[k] = context + k - 1

(* The loop ends.                                                          *)
Responds == <>(pc \in {"done", "rejected", "failed"})
=============================================================================
