------------------------- MODULE BluesyncRefinement -------------------------
(***************************************************************************)
(* Bluesync implements two abstract specifications: the session of a       *)
(* client (ClientSession) and the window of bursts (BurstWindow).          *)
(***************************************************************************)
EXTENDS Bluesync

(* The session: what the client has committed to, seen from the thread. *)
Collecting ==
  \/ pc = "received"
  \/ state = "BS_SYNC"
  \/ state = "BS_UPDATE" /\ pc = "dispatch"
Relaying == pc = "update_success" \/ state = "BS_ADV"
Phase == IF Collecting THEN "collect" ELSE IF Relaying THEN "relay" ELSE "wait"

Session == INSTANCE ClientSession WITH
  Rounds <- 0 .. RoundIds - 1,
  phase <- Phase, round <- current_round_id, heard <- new_round_id

(* The window: the places of a ring in the order they were written. *)
Wrap(k) == IF k < WindowSize THEN k ELSE k - WindowSize
Place(ring, i) == Wrap(ring.head + (WindowSize - ring.count) + (i - 1))
HistoryWindow ==
  [i \in 1 .. rcv_history.count |->
     <<rcv_history.bursts[Place(rcv_history, i)],
       local_history.bursts[Place(local_history, i)]>>]

Window == INSTANCE BurstWindow WITH
  Size <- WindowSize, rcv <- rcv, own <- local, window <- HistoryWindow

(***************************************************************************)
(* A client waits, collects another round, and adopts and relays exactly   *)
(* the round it announced, or gives it up: whatever is late, lost, queued  *)
(* or left over when the expiry comes, no step leaves that cycle.          *)
(***************************************************************************)
ImplementsSession == Session!Spec

(***************************************************************************)
(* The regression reads the last BURST_WINDOWS_SIZE bursts, both halves of *)
(* each: the rings, with a head and a count each, never drift apart, skip  *)
(* a place or keep a burst that is out of the window.                      *)
(***************************************************************************)
HistoryIsWindow == Window!Spec
=============================================================================
