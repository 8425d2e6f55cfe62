---------------------------- MODULE MCLocalTime ----------------------------
(***************************************************************************)
(* Instances of LocalTime for TLC: the clocks of the authority and the     *)
(* errors of the received times.                                           *)
(***************************************************************************)
EXTENDS LocalTime

(* A clock that is ahead and faster, and the same after a step. *)
OneStep == {[rate |-> 2, start |-> 1], [rate |-> 2, start |-> 90]}

(* Exact times, and an early and a late one. *)
OneLate == {[i \in Slots |-> 0], [i \in Slots |-> IF i = 0 THEN 1 ELSE 0]}

(* Exact times. *)
NoError == {[i \in Slots |-> 0]}

(* Every packet of a burst is heard. *)
AllHeard == {<<Slots, Slots>>}

(* The slots marked for the receiver's and for the sender's times when the  *)
(* packets with the indices in `arrived` are heard: packet k brings the     *)
(* receiver's time of slot k and the sender's time of slot k - 1.           *)
Marks(arrived) == <<arrived \cap Slots, {i \in Slots : i + 1 \in arrived}>>

(* Every packet arrives, or all but the first, or all but the first and the *)
(* last.  With three slots these give three, two and one sample.            *)
SomeLost == {Marks(arrived) : arrived \in {0 .. SlotNumber, 1 .. SlotNumber, 1 .. SlotNumber - 1}}
=============================================================================
