--------------------------- MODULE BsStateMachine ---------------------------
(***************************************************************************)
(* src/bs_state_machine.c: the states of a BlueSync node, the events that  *)
(* are announced to it and the pure transition function.  The stateful     *)
(* part of the file (the current state, its mutex, the call of the state's *)
(* handler after the mutex is released) belongs to the thread that runs    *)
(* it and is modelled in Bluesync.                                         *)
(***************************************************************************)

Role == {"NONE", "AUTHORITY", "CLIENT"}

State == {"BS_NONE_STATE", "BS_SCAN_WAIT_FOR_SYNC", "BS_SYNC", "BS_UPDATE",
          "BS_ADV", "BS_STOP"}

Event == {"EVENT_INIT", "EVENT_NEW_SYNC_RCV", "EVENT_SYNC_EXPIRED",
          "EVENT_UPDATE_SUCCESS", "EVENT_UPDATE_FAILED", "EVENT_ADV_EXPIRED",
          "EVENT_NEW_NET_SYNC"}

(***************************************************************************)
(* The state a role starts from: bs_state_machine_set_role jumps to it.    *)
(***************************************************************************)
RestingState(role) ==
  CASE role = "AUTHORITY" -> "BS_STOP"
    [] role = "CLIENT"    -> "BS_SCAN_WAIT_FOR_SYNC"
    [] OTHER              -> "BS_NONE_STATE"

transitionRelayFailed(role, current, event) ==
  CASE current = "BS_SCAN_WAIT_FOR_SYNC" /\ event = "EVENT_NEW_SYNC_RCV"
         -> "BS_SYNC"
    [] current = "BS_SYNC" /\ event = "EVENT_SYNC_EXPIRED"
         -> "BS_UPDATE"
    [] current = "BS_UPDATE" /\ event \in {"EVENT_UPDATE_SUCCESS", "EVENT_UPDATE_FAILED"}
         -> "BS_ADV"
    [] current = "BS_ADV" /\ event = "EVENT_ADV_EXPIRED" /\ role # "NONE"
         -> RestingState(role)
    [] current = "BS_STOP" /\ event = "EVENT_NEW_NET_SYNC"
         -> "BS_ADV"
    [] current = "BS_NONE_STATE" /\ event = "EVENT_INIT" /\ role # "NONE"
         -> RestingState(role)
    [] OTHER -> current
transitionToScan(role, current, event) ==
  CASE current = "BS_SCAN_WAIT_FOR_SYNC" /\ event = "EVENT_NEW_SYNC_RCV"
         -> "BS_SYNC"
    [] current = "BS_SYNC" /\ event = "EVENT_SYNC_EXPIRED"
         -> "BS_UPDATE"
    [] current = "BS_UPDATE" /\ event = "EVENT_UPDATE_SUCCESS"
         -> "BS_ADV"
    [] current = "BS_UPDATE" /\ event = "EVENT_UPDATE_FAILED"
         -> "BS_SCAN_WAIT_FOR_SYNC"
    [] current = "BS_ADV" /\ event = "EVENT_ADV_EXPIRED"
         -> "BS_SCAN_WAIT_FOR_SYNC"
    [] current = "BS_STOP" /\ event = "EVENT_NEW_NET_SYNC"
         -> "BS_ADV"
    [] current = "BS_NONE_STATE" /\ event = "EVENT_INIT" /\ role # "NONE"
         -> RestingState(role)
    [] OTHER -> current

(***************************************************************************)
(* The edges of the machine; every other (state, event) pair stays put.    *)
(***************************************************************************)
transition(role, current, event) ==
  CASE current = "BS_SCAN_WAIT_FOR_SYNC" /\ event = "EVENT_NEW_SYNC_RCV"
         -> "BS_SYNC"
    [] current = "BS_SYNC" /\ event = "EVENT_SYNC_EXPIRED"
         -> "BS_UPDATE"
    [] current = "BS_UPDATE" /\ event = "EVENT_UPDATE_SUCCESS"
         -> "BS_ADV"
    [] current = "BS_UPDATE" /\ event = "EVENT_UPDATE_FAILED"
         -> "BS_SCAN_WAIT_FOR_SYNC"
    [] current = "BS_ADV" /\ event = "EVENT_ADV_EXPIRED" /\ role # "NONE"
         -> RestingState(role)
    [] current = "BS_STOP" /\ event = "EVENT_NEW_NET_SYNC"
         -> "BS_ADV"
    [] current = "BS_NONE_STATE" /\ event = "EVENT_INIT" /\ role # "NONE"
         -> RestingState(role)
    [] OTHER -> current
=============================================================================
