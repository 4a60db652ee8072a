------------------------ MODULE ForecastWindow_proofs ------------------------
(* Proofs about ForecastWindow, for any lengths.                           *)
EXTENDS ForecastWindow, TLAPS

(* Where a forecast stands next to the actual value of its row: in a       *)
(* series of one level, and in the first window of any.                    *)
Aligned ==
    \A k \in 1..Len(merged) : levels = 1 \/ k <= step => merged[k] = context + k - 1

(* Until the forecasts suffice, there are at least as many of them as rows *)
(* the window has moved; with one level as many, and the next ones join    *)
(* the others without a gap.                                               *)
InStep ==
    /\ pc = "validating" => start = 0 /\ merged = << >>
    /\ pc \in {"predicting", "done"} =>
          /\ context < history
          /\ Len(merged) <= Expected
          /\ start = 0 => merged = << >>
          /\ More => /\ Len(merged) >= start
                     /\ levels = 1 => Len(merged) = start
                     /\ start # 0 => Len(merged) >= step
    /\ pc = "done" => ~More

IInv == TypeOK /\ Aligned /\ InStep

(* A request starts in the invariant.                                      *)
LEMMA InitIInv == Init => IInv
BY SizesAssumption DEF Init, IInv, TypeOK, Aligned, InStep

(* An output has at least prediction_length values, just as many if it has *)
(* one level, and these begin with the rows after the window.              *)
LEMMA OutputFacts ==
    ASSUME TypeOK
    PROVE  /\ Output \in Seq(Nat)
           /\ Len(Output) >= step
           /\ levels = 1 => Len(Output) = step
           /\ \A i \in 1..Len(Output) : i <= step => Output[i] = start + context + i - 1
<1>1. /\ context \in Nat /\ step \in Nat \ {0} /\ levels \in Nat \ {0} /\ start \in Nat
  BY SizesAssumption DEF TypeOK
<1>2. levels * step \in Nat /\ levels * step >= step /\ (levels = 1 => levels * step = step)
  <2> DEFINE others == levels - 1
  <2>1. others \in Nat /\ levels = others + 1
    BY <1>1
  <2> HIDE DEF others
  <2>2. (others + 1) * step = others * step + step /\ others * step \in Nat
    BY <1>1, <2>1
  <2>3. levels * step \in Nat /\ levels * step >= step
    BY <1>1, <2>1, <2>2
  <2>4. levels = 1 => levels * step = step
    BY <1>1
  <2> QED
    BY <2>3, <2>4
<1> DEFINE n == levels * step
<1> HIDE DEF n
<1>3. Output = [i \in 1..n |-> start + context + ((i - 1) % step)]
  BY DEF Output, n
<1>4. \A i \in 1..n : (i - 1) % step \in Nat /\ (i <= step => (i - 1) % step = i - 1)
  BY <1>1, <1>2 DEF n
<1>5. n \in Nat /\ n >= step /\ (levels = 1 => n = step)
  BY <1>2 DEF n
<1>6. \A i \in 1..n : start + context + ((i - 1) % step) \in Nat
  BY <1>1, <1>4
<1>7. Output \in Seq(Nat) /\ Len(Output) = n
  BY <1>3, <1>5, <1>6
<1> QED
  BY <1>1, <1>3, <1>4, <1>5, <1>7

(* What one window adds: as much of its output as is still missing.        *)
LEMMA KeepFacts ==
    ASSUME TypeOK, InStep, pc = "predicting", More
    PROVE  /\ Keep(Output) \in Seq(Nat)
           /\ Len(Keep(Output)) <= Expected - Len(merged)
           /\ \/ Len(Keep(Output)) >= step /\ (levels = 1 => Len(Keep(Output)) = step)
              \/ Len(Keep(Output)) = Expected - Len(merged)
           /\ levels = 1 => Len(Keep(Output)) <= step
           /\ \A i \in 1..Len(Keep(Output)) :
                i <= step => Keep(Output)[i] = start + context + i - 1
<1>1. /\ history \in Nat /\ context \in Nat \ {0} /\ step \in Nat \ {0}
      /\ start \in Nat /\ Len(merged) \in Nat
  BY SizesAssumption DEF TypeOK
<1>2. /\ Output \in Seq(Nat) /\ Len(Output) \in Nat /\ Len(Output) >= step
      /\ levels = 1 => Len(Output) = step
      /\ \A i \in 1..Len(Output) : i <= step => Output[i] = start + context + i - 1
  BY OutputFacts
<1>3. Expected - Len(merged) \in Nat
  BY <1>1 DEF More, Expected
<1>4. CASE Len(Output) <= Expected - Len(merged)
  BY <1>2, <1>4 DEF Keep
<1>5. CASE ~(Len(Output) <= Expected - Len(merged))
  <2> DEFINE r == Expected - Len(merged)
  <2>1. Keep(Output) = SubSeq(Output, 1, r)
    BY <1>5 DEF Keep
  <2>2. r \in Nat /\ r <= Len(Output)
    BY <1>1, <1>2, <1>3, <1>5
  <2>3. /\ SubSeq(Output, 1, r) \in Seq(Nat)
        /\ Len(SubSeq(Output, 1, r)) = r
        /\ \A i \in 1..r : SubSeq(Output, 1, r)[i] = Output[i]
    <3> HIDE DEF r
    <3> QED
      BY <1>2, <2>2
  <2>4. \A i \in 1..r : i \in 1..Len(Output)
    BY <1>2, <2>2
  <2>5. \A i \in 1..r : i <= step => SubSeq(Output, 1, r)[i] = start + context + i - 1
    BY <1>2, <2>3, <2>4
  <2>6. levels = 1 => r <= step
    BY <1>2, <2>2
  <2>7. SubSeq(Output, 1, r) \in Seq(Nat) /\ Len(SubSeq(Output, 1, r)) = r
    BY <2>3
  <2> QED
    BY <1>1, <2>1, <2>2, <2>5, <2>6, <2>7
<1> QED
  BY <1>4, <1>5

(* Each step keeps the invariant.                                          *)
LEMMA NextIInv == IInv /\ [Next]_windowVars => IInv'
<1> SUFFICES ASSUME IInv, [Next]_windowVars PROVE IInv'
  OBVIOUS
<1>0. /\ TypeOK /\ Aligned /\ InStep
      /\ history \in Nat /\ context \in Nat \ {0} /\ step \in Nat \ {0}
      /\ levels \in Nat \ {0}
      /\ start \in Nat /\ Len(merged) \in Nat
  BY SizesAssumption DEF IInv, TypeOK
<1>1. CASE Validate
  BY <1>0, <1>1 DEF Validate, Sufficient, sizes, IInv, TypeOK, Aligned, InStep, Expected, More
<1>2. CASE PredictWindow
  <2> DEFINE K == Keep(Output)
  <2>1. /\ K \in Seq(Nat)
        /\ Len(K) <= Expected - Len(merged)
        /\ \/ Len(K) >= step /\ (levels = 1 => Len(K) = step)
           \/ Len(K) = Expected - Len(merged)
        /\ levels = 1 => Len(K) <= step
        /\ \A i \in 1..Len(K) : i <= step => K[i] = start + context + i - 1
    BY <1>0, <1>2, KeepFacts DEF PredictWindow
  <2>2. /\ merged \in Seq(Nat) /\ merged' = merged \o K
        /\ start' = start + step /\ Len(merged) >= start /\ Len(merged) < Expected
        /\ levels = 1 => Len(merged) = start
        /\ start # 0 => Len(merged) >= step
        /\ start = 0 => merged = << >>
        /\ context < history
        /\ pc = "predicting" /\ UNCHANGED <<history, context, step, levels, pc>>
    BY <1>0, <1>2 DEF PredictWindow, Slide, sizes, TypeOK, InStep, More
  <2> HIDE DEF K
  <2>3. merged' \in Seq(Nat) /\ Len(merged') = Len(merged) + Len(K) /\ Len(K) \in Nat
    BY <2>1, <2>2
  <2>4. TypeOK'
    BY <1>0, <2>2, <2>3 DEF TypeOK
  <2>5. Aligned'
    <3> SUFFICES ASSUME NEW k \in 1..Len(merged'), levels = 1 \/ k <= step
                 PROVE  merged'[k] = context + k - 1
      BY <2>2 DEF Aligned
    <3>1. CASE k <= Len(merged)
      <4>1. k \in 1..Len(merged)
        BY <1>0, <2>3, <3>1
      <4>2. merged'[k] = merged[k]
        BY <2>1, <2>2, <4>1
      <4> QED
        BY <1>0, <4>1, <4>2 DEF Aligned
    <3>2. CASE k > Len(merged)
      <4>1. k - Len(merged) \in 1..Len(K)
        BY <1>0, <2>1, <2>3, <3>2
      <4>2. merged'[k] = K[k - Len(merged)]
        <5>1. merged \in Seq(Nat) /\ K \in Seq(Nat) /\ Len(merged) \in Nat /\ Len(K) \in Nat
          BY <1>0, <2>1, <2>2
        <5>2. k \in 1..(Len(merged) + Len(K)) /\ k > Len(merged)
          BY <2>3, <3>2
        <5> QED BY <5>1, <5>2, <2>2
      <4>3. Len(merged) = start
        <5>1. CASE levels = 1
          BY <2>2, <5>1
        <5>2. CASE k <= step
          <6>1. start = 0
            BY <1>0, <2>2, <3>2, <5>2
          <6> QED
            BY <2>2, <6>1
        <5> QED
          BY <5>1, <5>2
      <4>4. k - Len(merged) <= step
        BY <1>0, <2>1, <2>3, <4>1
      <4>5. K[k - Len(merged)] = start + context + (k - Len(merged)) - 1
        BY <2>1, <4>1, <4>4
      <4> QED
        BY <1>0, <4>1, <4>2, <4>3, <4>5
    <3> QED
      BY <1>0, <3>1, <3>2
  <2>6. InStep'
    <3>1. /\ Len(merged) + Len(K) <= history - context
          /\ \/ Len(K) >= step /\ (levels = 1 => Len(K) = step)
             \/ Len(merged) + Len(K) = history - context
      BY <1>0, <2>1, <2>3 DEF Expected
    <3>2. start' # 0
      BY <1>0, <2>2
    <3>3. /\ Len(merged') <= history - context
          /\ Len(merged') < history - context =>
               /\ Len(merged') >= start' /\ Len(merged') >= step
               /\ levels = 1 => Len(merged') = start'
      <4>1. /\ Len(merged') = Len(merged) + Len(K) /\ start' = start + step
            /\ Len(merged) >= start /\ (levels = 1 => Len(merged) = start)
        BY <2>2, <2>3
      <4>2. /\ Len(merged) \in Nat /\ Len(K) \in Nat /\ start \in Nat /\ step \in Nat
            /\ history - context \in Int
        BY <1>0, <2>3
      <4>3. CASE Len(merged) + Len(K) = history - context
        BY <4>1, <4>2, <4>3
      <4>4. CASE Len(K) >= step /\ (levels = 1 => Len(K) = step)
        BY <3>1, <4>1, <4>2, <4>4
      <4> QED
        BY <3>1, <4>3, <4>4
    <3> QED
      BY <2>2, <3>2, <3>3 DEF InStep, Expected, More
  <2> QED
    BY <2>4, <2>5, <2>6 DEF IInv
<1>3. CASE PredictFailure
  BY <1>0, <1>3 DEF PredictFailure, sizes, IInv, TypeOK, Aligned, InStep
<1>4. CASE Respond
  BY <1>0, <1>4 DEF Respond, sizes, IInv, TypeOK, Aligned, InStep, Expected, More
<1>5. CASE UNCHANGED windowVars
  BY <1>0, <1>5 DEF windowVars, IInv, TypeOK, Aligned, InStep, Expected, More
<1> QED
  BY <1>1, <1>2, <1>3, <1>4, <1>5 DEF Next

(* The inductive invariant holds in every reachable state.                 *)
LEMMA Inductive == Spec => []IInv
  BY InitIInv, NextIInv, PTL DEF Spec

(* No window reaches past the end of the data.                             *)
THEOREM WindowInsideHolds == Spec => []WindowInside
<1>1. IInv => WindowInside
  BY SizesAssumption DEF IInv, TypeOK, InStep, WindowInside, More, Expected
<1> QED
  BY Inductive, <1>1, PTL

(* A response has a forecast for each actual value, and where one level is *)
(* returned, or one window suffices, each stands next to its actual value. *)
THEOREM CompleteHolds == Spec => []Complete
<1>1. ASSUME IInv, pc = "done"
      PROVE  Len(merged) = history - context /\ merged # << >> /\ Aligned
  <2>1. /\ merged \in Seq(Nat) /\ history \in Nat /\ context \in Nat /\ context < history
        /\ Len(merged) = history - context
    BY <1>1, SizesAssumption DEF IInv, TypeOK, InStep, More, Expected
  <2> QED
    BY <1>1, <2>1 DEF IInv
<1>2. IInv => Complete
  BY <1>1 DEF Complete, Aligned
<1> QED
  BY Inductive, <1>2, PTL

(* Lengths, window and forecasts keep their shape.                         *)
THEOREM WindowTypeCorrect == Spec => []TypeOK
<1>1. IInv => TypeOK
  BY DEF IInv
<1> QED
  BY Inductive, <1>1, PTL

(* The windows that may still follow, and the steps around them.           *)
WindowsLeft ==
    CASE pc = "validating" /\ Sufficient -> Expected + 2
      [] pc = "validating" /\ ~Sufficient -> 1
      [] pc = "predicting" -> (Expected - Len(merged)) + 1
      [] pc \in {"done", "rejected", "failed"} -> 0

(* Every step of a request leaves it fewer windows to predict.             *)
LoopAdvances == [][WindowsLeft' < WindowsLeft]_windowVars

(* A window adds at least one forecast, also where the last one is cut.    *)
LEMMA WindowShrinks ==
    ASSUME IInv, PredictWindow
    PROVE  WindowsLeft' < WindowsLeft
<1> DEFINE K == Keep(Output)
<1>1. /\ TypeOK /\ InStep /\ pc = "predicting" /\ More
      /\ merged' = merged \o K /\ UNCHANGED <<history, context, step, pc>>
  BY DEF IInv, PredictWindow, sizes
<1>2. /\ history \in Nat /\ context \in Nat /\ step \in Nat \ {0}
      /\ merged \in Seq(Nat) /\ Len(merged) \in Nat
  BY <1>1, SizesAssumption DEF TypeOK
<1>3. /\ K \in Seq(Nat)
      /\ Len(K) >= step \/ Len(K) = Expected - Len(merged)
  BY <1>1, KeepFacts
<1>4. Expected \in Int /\ Expected - Len(merged) > 0
  BY <1>1, <1>2 DEF More, Expected
<1> HIDE DEF K
<1>5. Len(merged') = Len(merged) + Len(K)
  BY <1>1, <1>2, <1>3
<1>6. Len(K) >= 1 /\ Len(K) \in Nat
  BY <1>2, <1>3, <1>4
<1>7. Expected' = Expected
  BY <1>1 DEF Expected
<1>8. /\ WindowsLeft = (Expected - Len(merged)) + 1
      /\ WindowsLeft' = (Expected' - Len(merged')) + 1
  BY <1>1 DEF WindowsLeft
<1> QED
  BY <1>2, <1>4, <1>5, <1>6, <1>7, <1>8

(* A request is answered after at most one window for each row to forecast *)
(* and two steps more; going on, it therefore is (Responds).               *)
THEOREM LoopAdvancesHolds == Spec => LoopAdvances /\ [](WindowsLeft \in Nat)
<1>1. ASSUME IInv, Next PROVE WindowsLeft' < WindowsLeft
  <2>1. history \in Nat /\ context \in Nat /\ Len(merged) \in Nat
    BY <1>1, SizesAssumption DEF IInv, TypeOK
  <2>2. CASE Validate
    <3>1. CASE Sufficient
      <4>1. merged = << >> /\ merged' = merged /\ Expected' = Expected
        BY <1>1, <2>2 DEF IInv, InStep, Validate, Expected, sizes
      <4>2. WindowsLeft = Expected + 2 /\ WindowsLeft' = (Expected' - Len(merged')) + 1
        BY <2>2, <3>1 DEF Validate, WindowsLeft
      <4>3. Expected \in Int /\ Len(merged') = 0
        BY <2>1, <4>1 DEF Expected
      <4> QED
        BY <4>1, <4>2, <4>3
    <3>2. CASE ~Sufficient
      BY <2>2, <3>2 DEF Validate, WindowsLeft
    <3> QED
      BY <3>1, <3>2
  <2>3. CASE PredictWindow
    BY <1>1, <2>3, WindowShrinks
  <2>4. CASE PredictFailure \/ Respond
    <3>1. pc = "predicting" /\ Len(merged) <= Expected /\ Expected \in Int
      BY <1>1, <2>1, <2>4 DEF IInv, InStep, PredictFailure, Respond, Expected
    <3>2. WindowsLeft = (Expected - Len(merged)) + 1
      BY <3>1 DEF WindowsLeft
    <3>3. WindowsLeft' = 0
      BY <2>4 DEF PredictFailure, Respond, WindowsLeft
    <3> QED
      BY <2>1, <3>1, <3>2, <3>3
  <2> QED
    BY <1>1, <2>2, <2>3, <2>4 DEF Next
<1>2. IInv => WindowsLeft \in Nat
  <2> SUFFICES ASSUME IInv PROVE WindowsLeft \in Nat
    OBVIOUS
  <2>1. history \in Nat /\ context \in Nat /\ Len(merged) \in Nat
    BY SizesAssumption DEF IInv, TypeOK
  <2>2. Sufficient => Expected \in Nat
    BY <2>1 DEF Sufficient, Expected
  <2>3. pc = "predicting" => Expected - Len(merged) \in Nat
    BY <2>1 DEF IInv, InStep, Expected
  <2> QED
    BY <2>2, <2>3 DEF IInv, TypeOK, WindowsLeft
<1>3. IInv /\ [Next]_windowVars => [WindowsLeft' < WindowsLeft]_windowVars
  BY <1>1
<1> QED
  BY <1>2, <1>3, Inductive, PTL DEF Spec, LoopAdvances
=============================================================================
