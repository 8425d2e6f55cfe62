----------------------------- MODULE MCBluesync -----------------------------
(***************************************************************************)
(* Instances of Bluesync for TLC: the bursts the neighbours may send.      *)
(***************************************************************************)
EXTENDS BluesyncRefinement

(* The upstream neighbour's burst of round 0, its repetition by another    *)
(* neighbour, and the next round.                                          *)
HeardTwoRounds == <<0, 0, 1>>

(* One round, one burst. *)
HeardOneBurst == <<0>>

(* Two neighbours that relay two rounds. *)
HeardTwoBursts == <<0, 1>>

(* A burst of the round id a fresh node starts from. *)
HeardLastRound == <<RoundIds - 1>>

(* No neighbour at all: the authority alone. *)
HeardNothing == <<>>
=============================================================================
