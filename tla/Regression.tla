----------------------------- MODULE Regression -----------------------------
(***************************************************************************)
(* calculate_lr_from_history of src/bluesync.c, on a window of bursts: a   *)
(* sequence of pairs <<rcv, own>>, which is what the two rings stand for   *)
(* (HistoryIsWindow in BluesyncRefinement).  Doubles are exact rationals:  *)
(* a line is y = (slope * x + offset) / den, with den > 0.                 *)
(***************************************************************************)
EXTENDS Bitfields, Sequences, FiniteSets, FiniteSetsExt

Burst == [ticks : [Slots -> Int], bitfield : Bitfield]
NoTimestamps == [ticks |-> [i \in Slots |-> 0], bitfield |-> NoBits]

(* add_bluesync_timestamps *)
add(elem, pos, ticks) ==
  [ticks |-> [elem.ticks EXCEPT ![pos] = ticks], bitfield |-> set_bit(elem.bitfield, pos)]

(* The samples: the slots marked on both sides of a burst of the window. *)
Samples(window) ==
  {s \in (1 .. Len(window)) \X Slots :
     is_bit_set(bitwise_and_bitfields(window[s[1]][1].bitfield, window[s[1]][2].bitfield),
                s[2])}
Master(window, s) == window[s[1]][1].ticks[s[2]]
Own(window, s) == window[s[1]][2].ticks[s[2]]

(***************************************************************************)
(* The means are sum / n; the deviations below are n times those of the    *)
(* code, the covariance and the variance n * n times.                      *)
(***************************************************************************)
Line == [slope : Int, offset : Int, den : Nat \ {0}]
NoLine == [slope |-> 0, offset |-> 0, den |-> 1]
RegressionOffMean(window, min) ==
  LET S == Samples(window)
      n == Cardinality(S)
      sum_x == SumFunction([s \in S |-> Own(window, s)])
      sum_y == SumFunction([s \in S |-> Master(window, s)])
      x(s) == n * Own(window, s) - sum_x
      y(s) == n * Master(window, s) - sum_y
      cov == SumFunction([s \in S |-> x(s) * y(s)])
      var == SumFunction([s \in S |-> x(s) * x(s)])
  IN  IF n = 0 THEN [status |-> "NO_VALID_DATA", line |-> NoLine]
      ELSE IF n < min THEN [status |-> "NO_ENOUGH_DATA", line |-> NoLine]
      ELSE IF var = 0 THEN [status |-> "DENOMINATOR_TOO_SMALL", line |-> NoLine]
      ELSE [status |-> "SUCCESS",
            line |-> [slope |-> n * cov, offset |-> sum_y * var, den |-> n * var]]
calculate_lr_from_history(window, min) ==
  LET S == Samples(window)
      n == Cardinality(S)
      sum_x == SumFunction([s \in S |-> Own(window, s)])
      sum_y == SumFunction([s \in S |-> Master(window, s)])
      x(s) == n * Own(window, s) - sum_x
      y(s) == n * Master(window, s) - sum_y
      cov == SumFunction([s \in S |-> x(s) * y(s)])
      var == SumFunction([s \in S |-> x(s) * x(s)])
  IN  IF n = 0 THEN [status |-> "NO_VALID_DATA", line |-> NoLine]
      ELSE IF n < min THEN [status |-> "NO_ENOUGH_DATA", line |-> NoLine]
      ELSE IF var = 0 THEN [status |-> "DENOMINATOR_TOO_SMALL", line |-> NoLine]
      ELSE [status |-> "SUCCESS",
            line |-> [slope |-> n * cov, offset |-> sum_y * var - cov * sum_x,
                      den |-> n * var]]
=============================================================================
