---------------------------- MODULE ClientSession ----------------------------
(***************************************************************************)
(* What a client of BlueSync promises, whatever packets, timers, queues    *)
(* and radio failures lie underneath: it waits; it collects a round other  *)
(* than its own; it either adopts that round and relays it once, or gives  *)
(* it up; and it comes back to waiting.                                    *)
(***************************************************************************)
CONSTANT Rounds

VARIABLES
  phase,   \* "wait", "collect" or "relay"
  round,   \* the round the client is on
  heard    \* the round of the packet that was heard last while waiting

vars == <<phase, round, heard>>

Init == phase = "wait" /\ round \in Rounds /\ heard \in Rounds

Collect ==
  /\ phase = "wait"
  /\ phase' = "collect"
  /\ heard' \in Rounds \ {round}
  /\ UNCHANGED round

Adopt ==
  /\ phase = "collect"
  /\ phase' = "relay"
  /\ round' = heard
  /\ UNCHANGED heard

GiveUp ==
  /\ phase = "collect"
  /\ phase' = "wait"
  /\ UNCHANGED <<round, heard>>

Finish ==
  /\ phase = "relay"
  /\ phase' = "wait"
  /\ UNCHANGED <<round, heard>>

Next == Collect \/ Adopt \/ GiveUp \/ Finish

Spec == Init /\ [][Next]_vars
=============================================================================
