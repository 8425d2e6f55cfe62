----------------------------- MODULE BurstWindow -----------------------------
(***************************************************************************)
(* What the two rings of bursts stand for: the last Size bursts that       *)
(* ended, oldest first, each the pair of what was received in it and of    *)
(* this node's own times, as both stood at its end.                        *)
(***************************************************************************)
EXTENDS Integers, Sequences

CONSTANT Size

VARIABLES
  rcv, own,   \* the burst in progress
  window      \* the bursts that ended

Latest(s) == IF Len(s) > Size THEN Tail(s) ELSE s

Init == window = <<>>

Store == window' = Latest(Append(window, <<rcv, own>>))

Spec == Init /\ [][Store]_window
=============================================================================
