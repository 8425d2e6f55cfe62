------------------------------ MODULE Bluesync ------------------------------
(***************************************************************************)
(* src/bluesync.c on one node, with the state of src/bs_state_machine.c.   *)
(*                                                                         *)
(* Actors that interleave:                                                 *)
(*   - the BlueSync thread (bluesync_thread_fnt): it polls three kernel    *)
(*     objects, takes received packets, runs the state machine and its     *)
(*     handlers, and sleeps inside the advertising burst;                  *)
(*   - one application thread that calls the public API;                   *)
(*   - the Bluetooth host, which calls scan_cb and adv_sent_cb;            *)
(*   - the kernel timer, which calls drift_estimation_handler;             *)
(*   - the neighbours, whose bursts are on the air.                        *)
(*                                                                         *)
(* A timestamp is abstracted to the radio event it was taken at (a Stamp), *)
(* so "these two timestamps are of the same transmission" can be said.     *)
(***************************************************************************)
EXTENDS Integers, Sequences, FiniteSets, BsStateMachine

CONSTANTS
  SlotNumber,    \* SLOT_NUMBER, slots in a burst: a burst is SlotNumber + 1 packets
  WindowSize,    \* BURST_WINDOWS_SIZE, bursts kept for the regression
  QueueSize,     \* capacity of bluesync_rx_msgq
  RoundIds,      \* number of values of the uint8_t round id (256 in the code)
  UsedInMesh,    \* CONFIG_BLUESYNC_USED_IN_MESH
  HeardRound,    \* the neighbours' bursts: HeardRound[b] is the round id of burst b
  Overlap,       \* may bursts of the neighbours overlap in time?
  Faults,        \* the radio calls that may fail, or be late
  RolesGiven,    \* roles the application may assign
  MaxSetRole,    \* bound on calls of bluesync_set_role
  MaxStart       \* bound on calls of bluesync_start_net_sync

Slots == 0 .. SlotNumber - 1
Heard == DOMAIN HeardRound
Fault == {"set_data", "adv_start", "not_sent", "late_sent", "scan_start", "scan_stop"}

ASSUME SizesAssumption ==
  /\ SlotNumber \in Nat \ {0}
  /\ WindowSize \in Nat \ {0}
  /\ QueueSize \in Nat \ {0}
  /\ RoundIds \in Nat \ {0}
ASSUME BoundsAssumption == MaxSetRole \in Nat /\ MaxStart \in Nat
ASSUME SwitchesAssumption ==
  /\ UsedInMesh \in BOOLEAN
  /\ Overlap \in BOOLEAN
  /\ Faults \subseteq Fault
  /\ RolesGiven \subseteq Role \ {"NONE"}
ASSUME HeardAssumption ==
  /\ Heard \subseteq Nat
  /\ HeardRound \in [Heard -> 0 .. RoundIds - 1]

VARIABLES
  role, state,          \* sm_param
  pc, resume,           \* where the thread is, and where the handlers return to
  ready,                \* events k_poll reported and the loop body has not served
  msg,                  \* the packet being processed
  sent,                 \* i of the advertising loop
  role_assign_sem, start_new_sync_sem, end_sync_sem,
  timer,                \* is drift_estimation_timer running?
  rx_msgq,
  timeslot_index, local, rcv,
  local_history, rcv_history,
  current_round_id, new_round_id,
  fit,                  \* samples the slope and offset in force were fitted to
  epoch,                \* number of the epoch reference in force
  scanning,             \* is scan_cb called for the packets the controller reports?
  mesh_scan,            \* is the mesh's scanner on?
  inflight,             \* packet the controller is advertising
  burst,                \* number of bursts begun by this node
  aired,                \* packets of the latest burst that left: for each, its round id
                        \* and the epoch of the time taken as it left (properties only)
  air,                  \* next packet of each burst of the neighbours
  app,                  \* where the application thread is
  set_roles, starts     \* calls made

smVars    == <<role, state>>
threadVars == <<pc, resume, ready, msg, sent>>
kernelVars == <<role_assign_sem, start_new_sync_sem, end_sync_sem, timer, rx_msgq>>
roundVars == <<current_round_id, new_round_id>>
burstVars == <<timeslot_index, local, rcv>>
historyVars == <<local_history, rcv_history, fit>>
radioVars == <<scanning, mesh_scan, inflight>>
appVars   == <<epoch, app, set_roles, starts>>
vars == <<smVars, threadVars, kernelVars, roundVars, burstVars, historyVars,
          radioVars, burst, aired, air, appVars>>

-----------------------------------------------------------------------------
(* Timestamps, messages, bursts. *)

Stamp == [of : {"none", "own", "heard", "garbage"}, burst : Nat, slot : Int]

NoStamp == [of |-> "none", burst |-> 0, slot |-> 0]     \* a zeroed timer_ticks
Garbage == [of |-> "garbage", burst |-> 0, slot |-> 0]  \* read past the array
OwnStamp(b, i) == [of |-> "own", burst |-> b, slot |-> i]
HeardStamp(b, i) == [of |-> "heard", burst |-> b, slot |-> i]

(***************************************************************************)
(* struct bluesync_msg_client: client is the local reception time, master  *)
(* the time the sender put in it (0 in the packet of slot 0, otherwise the *)
(* time its previous packet left).                                         *)
(***************************************************************************)
Message == [round : 0 .. RoundIds - 1, index : Nat, client : Stamp, master : Stamp]
NoMessage == [round |-> 0, index |-> 0, client |-> NoStamp, master |-> NoStamp]
Packet(b, i) ==
  [round |-> HeardRound[b], index |-> i, client |-> HeardStamp(b, i),
   master |-> IF i = 0 THEN NoStamp ELSE HeardStamp(b, i - 1)]

OwnPacket == [round : 0 .. RoundIds - 1, slot : Nat, ticks : Stamp, burst : Nat]
Nothing == [round |-> 0, slot |-> 0, ticks |-> NoStamp, burst |-> 0]  \* burst 0: none

Timestamps == [ticks : [Slots -> Stamp], bits : SUBSET Slots]
Cleared == [ticks |-> [i \in Slots |-> NoStamp], bits |-> {}]

(* add_bluesync_timestamps *)
Add(elem, pos, ticks) ==
  [ticks |-> [elem.ticks EXCEPT ![pos] = ticks], bits |-> elem.bits \cup {pos}]

(* One ring buffer of bursts: rcv_history or local_history. *)
Ring == [bursts : [0 .. WindowSize - 1 -> Timestamps],
         head : 0 .. WindowSize - 1, count : 0 .. WindowSize]
EmptyRing == [bursts |-> [k \in 0 .. WindowSize - 1 |-> Cleared],
              head |-> 0, count |-> 0]

PushNoWrap(ring, elem) ==
  [bursts |-> [ring.bursts EXCEPT ![ring.head] = elem],
   head   |-> ring.head + 1,
   count  |-> IF ring.count < WindowSize THEN ring.count + 1 ELSE ring.count]
PushNotLast(ring, elem) ==
  [bursts |-> [ring.bursts EXCEPT ![ring.head] = elem],
   head   |-> (ring.head + 1) % WindowSize,
   count  |-> IF ring.count + 1 < WindowSize THEN ring.count + 1 ELSE ring.count]
Push(ring, elem) ==
  [bursts |-> [ring.bursts EXCEPT ![ring.head] = elem],
   head   |-> (ring.head + 1) % WindowSize,
   count  |-> IF ring.count < WindowSize THEN ring.count + 1 ELSE ring.count]

(***************************************************************************)
(* calculate_lr_from_history: the samples are the slots set on both sides  *)
(* of a burst of the history; the variance is zero when all the local      *)
(* times are one and the same.                                             *)
(***************************************************************************)
Samples(remote, own) ==
  {s \in (0 .. remote.count - 1) \X Slots :
     s[2] \in remote.bursts[s[1]].bits \cap own.bursts[s[1]].bits}
LocalTicks(own, s) == own.bursts[s[1]].ticks[s[2]]
Pairs(remote, own) ==
  {<<LocalTicks(own, s), LocalTicks(remote, s)>> : s \in Samples(remote, own)}
LrStatus(remote, own) ==
  LET samples == Samples(remote, own) IN
  IF samples = {} THEN "NO_VALID_DATA"
  ELSE IF Cardinality(samples) < SlotNumber \div 2 THEN "NO_ENOUGH_DATA"
  ELSE IF \A s, t \in samples : LocalTicks(own, s) = LocalTicks(own, t)
  THEN "DENOMINATOR_TOO_SMALL"
  ELSE "SUCCESS"

-----------------------------------------------------------------------------
(* The state machine's runner and the parts handlers share. *)

(***************************************************************************)
(* bs_state_machine_run up to the unlock.  The handler is chosen by a      *)
(* second read of the state, without the mutex: a step of its own          *)
(* (pc = "dispatch").                                                      *)
(***************************************************************************)
Run(event, back) ==
  /\ state' = transition(role, state, event)
  /\ pc' = "dispatch"
  /\ resume' = back
  /\ UNCHANGED role

(* bluesync_reset_param *)
ResetParam ==
  /\ timeslot_index' = 0
  /\ local' = Cleared
  /\ rcv' = Cleared

(* bluesync_scan_start: only the call without mesh has an error to return. *)
ScanStart ==
  \/ scanning' = TRUE
  \/ ~UsedInMesh /\ "scan_start" \in Faults /\ UNCHANGED scanning

(* bluesync_scan_stop *)
ScanStop ==
  \/ scanning' = FALSE
  \/ ~UsedInMesh /\ "scan_stop" \in Faults /\ UNCHANGED scanning

-----------------------------------------------------------------------------
(* The BlueSync thread. *)

(* The prologue: handlers, advertising set and timer are created. *)
Start ==
  /\ pc = "start"
  /\ pc' = "role_wait"
  /\ UNCHANGED <<smVars, resume, ready, msg, sent, kernelVars, roundVars, burstVars,
                 historyVars, radioVars, burst, aired, air, appVars>>

(* k_sem_take(&bluesync_role_assign_sem), then the event EVENT_INIT. *)
TakeRole ==
  /\ pc = "role_wait"
  /\ role_assign_sem
  /\ role_assign_sem' = FALSE
  /\ Run("EVENT_INIT", "loop")
  /\ UNCHANGED <<ready, msg, sent, start_new_sync_sem, end_sync_sem, timer, rx_msgq,
                 roundVars, burstVars, historyVars, radioVars, burst, aired, air, appVars>>

Available ==
  (IF start_new_sync_sem THEN {"new_sync"} ELSE {})
    \cup (IF rx_msgq # <<>> THEN {"msg"} ELSE {})
    \cup (IF end_sync_sem THEN {"end_sync"} ELSE {})

(* k_poll: returns with every condition that holds marked in events[]. *)
Poll ==
  /\ pc = "loop" /\ ready = {}
  /\ Available # {}
  /\ ready' = Available
  /\ UNCHANGED <<smVars, pc, resume, msg, sent, kernelVars, roundVars, burstVars,
                 historyVars, radioVars, burst, aired, air, appVars>>

(* events[0] *)
TakeNewSync ==
  /\ pc = "loop" /\ "new_sync" \in ready
  /\ ready' = ready \ {"new_sync"}
  /\ start_new_sync_sem' = FALSE
  /\ Run("EVENT_NEW_NET_SYNC", "loop")
  /\ UNCHANGED <<msg, sent, role_assign_sem, end_sync_sem, timer, rx_msgq, roundVars,
                 burstVars, historyVars, radioVars, burst, aired, air, appVars>>

(***************************************************************************)
(* events[1], bluesync_scan_packet_process up to the first event: the      *)
(* oldest message leaves the queue.  In BS_SCAN_WAIT_FOR_SYNC it is        *)
(* dropped if it carries the round the node is on; otherwise its round is  *)
(* noted and the timer started.                                            *)
(***************************************************************************)
TakeMsgAnyRound ==
  /\ pc = "loop" /\ "msg" \in ready /\ "new_sync" \notin ready
  /\ ready' = ready \ {"msg"}
  /\ msg' = Head(rx_msgq)
  /\ rx_msgq' = Tail(rx_msgq)
  /\ \/ /\ state = "BS_SCAN_WAIT_FOR_SYNC"
        /\ new_round_id' = msg'.round
        /\ timer' = TRUE
        /\ pc' = "received"
     \/ /\ state # "BS_SCAN_WAIT_FOR_SYNC"
        /\ pc' = "store"
        /\ UNCHANGED <<new_round_id, timer>>
  /\ UNCHANGED <<smVars, resume, sent, role_assign_sem, start_new_sync_sem, end_sync_sem,
                 current_round_id, burstVars, historyVars, radioVars, burst, aired, air,
                 appVars>>
TakeMsgNoTimer ==
  /\ pc = "loop" /\ "msg" \in ready /\ "new_sync" \notin ready
  /\ ready' = ready \ {"msg"}
  /\ msg' = Head(rx_msgq)
  /\ rx_msgq' = Tail(rx_msgq)
  /\ \/ /\ state = "BS_SCAN_WAIT_FOR_SYNC" /\ msg'.round = current_round_id
        /\ pc' = "loop"
        /\ UNCHANGED new_round_id
     \/ /\ state = "BS_SCAN_WAIT_FOR_SYNC" /\ msg'.round # current_round_id
        /\ new_round_id' = msg'.round
        /\ pc' = "received"
     \/ /\ state # "BS_SCAN_WAIT_FOR_SYNC"
        /\ pc' = "store"
        /\ UNCHANGED new_round_id
  /\ UNCHANGED <<smVars, resume, sent, role_assign_sem, start_new_sync_sem, end_sync_sem,
                 timer, current_round_id, burstVars, historyVars, radioVars, burst, aired,
                 air, appVars>>
TakeMsg ==
  /\ pc = "loop" /\ "msg" \in ready /\ "new_sync" \notin ready
  /\ ready' = ready \ {"msg"}
  /\ msg' = Head(rx_msgq)
  /\ rx_msgq' = Tail(rx_msgq)
  /\ \/ /\ state = "BS_SCAN_WAIT_FOR_SYNC" /\ msg'.round = current_round_id
        /\ pc' = "loop"
        /\ UNCHANGED <<new_round_id, timer>>
     \/ /\ state = "BS_SCAN_WAIT_FOR_SYNC" /\ msg'.round # current_round_id
        /\ new_round_id' = msg'.round
        /\ timer' = TRUE
        /\ pc' = "received"
     \/ /\ state # "BS_SCAN_WAIT_FOR_SYNC"
        /\ pc' = "store"
        /\ UNCHANGED <<new_round_id, timer>>
  /\ UNCHANGED <<smVars, resume, sent, role_assign_sem, start_new_sync_sem, end_sync_sem,
                 current_round_id, burstVars, historyVars, radioVars, burst, aired, air,
                 appVars>>

(* ... the event of a message that starts a synchronisation ... *)
AnnounceSync ==
  /\ pc = "received"
  /\ Run("EVENT_NEW_SYNC_RCV", "store")
  /\ UNCHANGED <<ready, msg, sent, kernelVars, roundVars, burstVars, historyVars,
                 radioVars, burst, aired, air, appVars>>

(* ... and the storing of its two timestamps, whatever the state is by then. *)
StoreMsg ==
  /\ pc = "store"
  /\ pc' = "loop"
  /\ local' = IF msg.index < SlotNumber
              THEN Add(local, msg.index, msg.client) ELSE local
  /\ rcv' = IF msg.index >= 1 /\ msg.index <= SlotNumber
            THEN Add(rcv, msg.index - 1, msg.master) ELSE rcv
  /\ UNCHANGED <<smVars, resume, ready, msg, sent, kernelVars, roundVars, timeslot_index,
                 historyVars, radioVars, burst, aired, air, appVars>>

(* events[2] *)
TakeEndSyncKeepsSem ==
  /\ pc = "loop" /\ ready = {"end_sync"}
  /\ ready' = {}
  /\ Run("EVENT_SYNC_EXPIRED", "loop")
  /\ UNCHANGED <<msg, sent, kernelVars, roundVars, burstVars, historyVars, radioVars,
                 burst, aired, air, appVars>>
TakeEndSync ==
  /\ pc = "loop" /\ ready = {"end_sync"}
  /\ ready' = {}
  /\ end_sync_sem' = FALSE
  /\ Run("EVENT_SYNC_EXPIRED", "loop")
  /\ UNCHANGED <<msg, sent, role_assign_sem, start_new_sync_sem, timer, rx_msgq, roundVars,
                 burstVars, historyVars, radioVars, burst, aired, air, appVars>>

-----------------------------------------------------------------------------
(* The handlers, run by the thread after the state machine's mutex is free. *)

(* bs_scan_wait_for_sync_handler *)
WaitHandlerNoReset ==
  /\ pc = "dispatch" /\ state = "BS_SCAN_WAIT_FOR_SYNC"
  /\ ScanStart
  /\ pc' = resume
  /\ UNCHANGED <<smVars, resume, ready, msg, sent, kernelVars, roundVars, burstVars,
                 historyVars, mesh_scan, inflight, burst, aired, air, appVars>>
WaitHandler ==
  /\ pc = "dispatch" /\ state = "BS_SCAN_WAIT_FOR_SYNC"
  /\ ResetParam
  /\ ScanStart
  /\ pc' = resume
  /\ UNCHANGED <<smVars, resume, ready, msg, sent, kernelVars, roundVars, historyVars,
                 mesh_scan, inflight, burst, aired, air, appVars>>

(* bs_sync_handler and bs_stop_handler only log; BS_NONE_STATE has none. *)
IdleHandler ==
  /\ pc = "dispatch" /\ state \in {"BS_SYNC", "BS_STOP", "BS_NONE_STATE"}
  /\ pc' = resume
  /\ UNCHANGED <<smVars, resume, ready, msg, sent, kernelVars, roundVars, burstVars,
                 historyVars, radioVars, burst, aired, air, appVars>>

(***************************************************************************)
(* bs_update_handler up to its event: the scan stops, the burst enters     *)
(* both rings, and the regression over the rings either is applied and     *)
(* makes the announced round the node's own, or is not.                    *)
(***************************************************************************)
UpdateHandlerAlwaysAdopts ==
  /\ pc = "dispatch" /\ state = "BS_UPDATE"
  /\ ScanStop
  /\ rcv_history' = Push(rcv_history, rcv)
  /\ local_history' = Push(local_history, local)
  /\ current_round_id' = new_round_id
  /\ IF LrStatus(rcv_history', local_history') = "SUCCESS"
     THEN /\ fit' = Pairs(rcv_history', local_history')
          /\ pc' = "update_success"
     ELSE /\ pc' = "update_failed"
          /\ UNCHANGED fit
  /\ UNCHANGED <<smVars, resume, ready, msg, sent, kernelVars, new_round_id, burstVars,
                 mesh_scan, inflight, burst, aired, air, appVars>>
UpdateHandlerResetFirst ==
  /\ pc = "dispatch" /\ state = "BS_UPDATE"
  /\ ScanStop
  /\ ResetParam
  /\ rcv_history' = Push(rcv_history, rcv')
  /\ local_history' = Push(local_history, local')
  /\ IF LrStatus(rcv_history', local_history') = "SUCCESS"
     THEN /\ fit' = Pairs(rcv_history', local_history')
          /\ current_round_id' = new_round_id
          /\ pc' = "update_success"
     ELSE /\ pc' = "update_failed"
          /\ UNCHANGED <<fit, current_round_id>>
  /\ UNCHANGED <<smVars, resume, ready, msg, sent, kernelVars, new_round_id, mesh_scan,
                 inflight, burst, aired, air, appVars>>
UpdateHandler ==
  /\ pc = "dispatch" /\ state = "BS_UPDATE"
  /\ ScanStop
  /\ rcv_history' = Push(rcv_history, rcv)
  /\ local_history' = Push(local_history, local)
  /\ IF LrStatus(rcv_history', local_history') = "SUCCESS"
     THEN /\ fit' = Pairs(rcv_history', local_history')
          /\ current_round_id' = new_round_id
          /\ pc' = "update_success"
     ELSE /\ pc' = "update_failed"
          /\ UNCHANGED <<fit, current_round_id>>
  /\ UNCHANGED <<smVars, resume, ready, msg, sent, kernelVars, new_round_id, burstVars,
                 mesh_scan, inflight, burst, aired, air, appVars>>

(* ... and the event that tells the outcome. *)
AnnounceUpdate ==
  /\ \/ pc = "update_success" /\ Run("EVENT_UPDATE_SUCCESS", resume)
     \/ pc = "update_failed" /\ Run("EVENT_UPDATE_FAILED", resume)
  /\ UNCHANGED <<ready, msg, sent, kernelVars, roundVars, burstVars, historyVars,
                 radioVars, burst, aired, air, appVars>>

(* bs_adv_handler: the burst begins. *)
AdvHandler ==
  /\ pc = "dispatch" /\ state = "BS_ADV"
  /\ ResetParam
  /\ sent' = 0
  /\ burst' = burst + 1
  /\ aired' = {}
  /\ pc' = "send"
  /\ UNCHANGED <<smVars, resume, ready, msg, kernelVars, roundVars, historyVars, radioVars,
                 air, appVars>>

(***************************************************************************)
(* bluesync_send_adv.  The packet of slot k > 0 carries timer_ticks[k-1].  *)
(* In a mesh the scanner is put off just before the advertising starts.    *)
(* The start is refused while the previous packet is still being           *)
(* advertised; the controller may have taken the new data for it.          *)
(***************************************************************************)
TicksBefore(k) ==
  IF k = 0 THEN NoStamp ELSE IF k - 1 \in Slots THEN local.ticks[k - 1] ELSE Garbage

NextOwnPacket ==
  [round |-> current_round_id, slot |-> timeslot_index,
   ticks |-> TicksBefore(timeslot_index), burst |-> burst]

SetDataFails ==
  /\ pc = "send"
  /\ "set_data" \in Faults
  /\ pc' = "sleep"
  /\ UNCHANGED <<smVars, resume, ready, msg, sent, kernelVars, roundVars, burstVars,
                 historyVars, radioVars, burst, aired, air, appVars>>
AdvStartFails ==
  /\ pc = "send"
  /\ "adv_start" \in Faults \/ inflight # Nothing
  /\ inflight' \in (IF inflight = Nothing THEN {Nothing} ELSE {inflight, NextOwnPacket})
  /\ mesh_scan' = (mesh_scan /\ ~UsedInMesh)
  /\ pc' = "sleep"
  /\ UNCHANGED <<smVars, resume, ready, msg, sent, kernelVars, roundVars, burstVars,
                 historyVars, scanning, burst, aired, air, appVars>>
Send ==
  /\ pc = "send"
  /\ inflight = Nothing
  /\ inflight' = NextOwnPacket
  /\ mesh_scan' = (mesh_scan /\ ~UsedInMesh)
  /\ pc' = "sleep"
  /\ UNCHANGED <<smVars, resume, ready, msg, sent, kernelVars, roundVars, burstVars,
                 historyVars, scanning, burst, aired, air, appVars>>

(***************************************************************************)
(* k_sleep between the packets.  The event of a packet ends within the     *)
(* sleep (60 ms of advertising interval against 200 ms of sleep) unless    *)
(* "late_sent" is among the faults.                                        *)
(***************************************************************************)
SleepOver == pc = "sleep" /\ (inflight = Nothing \/ "late_sent" \in Faults)

NextPacketAfterSuccess ==
  /\ SleepOver /\ sent < SlotNumber
  /\ sent' = IF timeslot_index > sent THEN sent + 1 ELSE sent
  /\ pc' = "send"
  /\ UNCHANGED <<smVars, resume, ready, msg, kernelVars, roundVars, burstVars,
                 historyVars, radioVars, burst, aired, air, appVars>>
NextPacketOneMore ==
  /\ SleepOver /\ sent <= SlotNumber
  /\ sent' = sent + 1
  /\ pc' = "send"
  /\ UNCHANGED <<smVars, resume, ready, msg, kernelVars, roundVars, burstVars,
                 historyVars, radioVars, burst, aired, air, appVars>>
NextPacket ==
  /\ SleepOver /\ sent < SlotNumber
  /\ sent' = sent + 1
  /\ pc' = "send"
  /\ UNCHANGED <<smVars, resume, ready, msg, kernelVars, roundVars, burstVars,
                 historyVars, radioVars, burst, aired, air, appVars>>
EndBurst ==
  /\ SleepOver /\ sent = SlotNumber
  /\ Run("EVENT_ADV_EXPIRED", resume)
  /\ UNCHANGED <<ready, msg, sent, kernelVars, roundVars, burstVars, historyVars,
                 radioVars, burst, aired, air, appVars>>

Thread ==
  \/ Start \/ TakeRole \/ Poll
  \/ TakeNewSync \/ TakeMsg \/ AnnounceSync \/ StoreMsg \/ TakeEndSync
  \/ WaitHandler \/ IdleHandler \/ UpdateHandler \/ AnnounceUpdate \/ AdvHandler
  \/ SetDataFails \/ AdvStartFails \/ Send \/ NextPacket \/ EndBurst

-----------------------------------------------------------------------------
(* Callbacks. *)

(* drift_estimation_handler, on the expiry of the one-shot timer. *)
TimerFiresUnheard ==
  /\ timer
  /\ timer' = FALSE
  /\ UNCHANGED <<smVars, threadVars, role_assign_sem, start_new_sync_sem, end_sync_sem,
                 rx_msgq, roundVars, burstVars, historyVars, radioVars, burst, aired, air,
                 appVars>>
TimerFires ==
  /\ timer
  /\ timer' = FALSE
  /\ end_sync_sem' = TRUE
  /\ UNCHANGED <<smVars, threadVars, role_assign_sem, start_new_sync_sem, rx_msgq,
                 roundVars, burstVars, historyVars, radioVars, burst, aired, air, appVars>>

(***************************************************************************)
(* adv_sent_cb: the packet has left (num_sent = 1), or its event ended     *)
(* without it (num_sent = 0).                                              *)
(***************************************************************************)
AdvSentStampAfter ==
  /\ inflight # Nothing
  /\ inflight' = Nothing
  /\ timeslot_index' = timeslot_index + 1
  /\ local' = IF timeslot_index' \in Slots
              THEN [local EXCEPT !.ticks[timeslot_index'] =
                      OwnStamp(inflight.burst, inflight.slot)]
              ELSE local
  /\ mesh_scan' = TRUE
  /\ UNCHANGED <<smVars, threadVars, kernelVars, roundVars, rcv, historyVars, scanning,
                 burst, aired, air, appVars>>
AdvSentNoScan(num_sent) ==
  /\ inflight # Nothing
  /\ inflight' = Nothing
  /\ timeslot_index' = timeslot_index + num_sent
  /\ UNCHANGED <<smVars, threadVars, kernelVars, roundVars, local, rcv, historyVars,
                 scanning, mesh_scan, burst, aired, air, appVars>>
AdvSentShifted(num_sent) == num_sent = 1 /\ AdvSentStampAfter
AdvSent(num_sent) ==
  /\ inflight # Nothing
  /\ inflight' = Nothing
  /\ num_sent = 0 => "not_sent" \in Faults
  /\ timeslot_index' = timeslot_index + num_sent
  /\ local' = IF num_sent >= 1 /\ timeslot_index \in Slots
              THEN [local EXCEPT !.ticks[timeslot_index] =
                      OwnStamp(inflight.burst, inflight.slot)]
              ELSE local
  /\ mesh_scan' = TRUE
  /\ aired' = IF num_sent >= 1 THEN aired \cup {<<inflight.round, epoch>>} ELSE aired
  /\ UNCHANGED <<smVars, threadVars, kernelVars, roundVars, rcv, historyVars, scanning,
                 burst, air, appVars>>

-----------------------------------------------------------------------------
(* The public API, called by one application thread. *)

(* bluesync_set_role: the state jumps, under the state machine's mutex. *)
SetRole(r) ==
  /\ app = "idle" /\ set_roles < MaxSetRole
  /\ set_roles' = set_roles + 1
  /\ role' = r
  /\ state' = RestingState(r)
  /\ role_assign_sem' = TRUE
  /\ UNCHANGED <<threadVars, start_new_sync_sem, end_sync_sem, timer, rx_msgq, roundVars,
                 burstVars, historyVars, radioVars, burst, aired, air, epoch, app, starts>>

(* bluesync_start_net_sync_with_unix_epoch_us, up to the nested call. *)
SetEpoch ==
  /\ app = "idle" /\ starts < MaxStart
  /\ role = "AUTHORITY"
  /\ epoch' = epoch + 1
  /\ app' = "epoch_set"
  /\ UNCHANGED <<smVars, threadVars, kernelVars, roundVars, burstVars, historyVars,
                 radioVars, burst, aired, air, set_roles, starts>>

(* bluesync_start_net_sync, called directly or by the function above. *)
StartNetSyncWhenIdle ==
  /\ starts < MaxStart
  /\ role = "AUTHORITY"
  /\ starts' = starts + 1
  /\ app' = "idle"
  /\ current_round_id' = (current_round_id + 1) % RoundIds
  /\ start_new_sync_sem' = (start_new_sync_sem \/ state = "BS_STOP")
  /\ UNCHANGED <<smVars, threadVars, role_assign_sem, end_sync_sem, timer, rx_msgq,
                 new_round_id, burstVars, historyVars, radioVars, burst, aired, air, epoch,
                 set_roles>>
StartNetSync ==
  /\ starts < MaxStart
  /\ role = "AUTHORITY"
  /\ starts' = starts + 1
  /\ app' = "idle"
  /\ current_round_id' = (current_round_id + 1) % RoundIds
  /\ start_new_sync_sem' = TRUE
  /\ UNCHANGED <<smVars, threadVars, role_assign_sem, end_sync_sem, timer, rx_msgq,
                 new_round_id, burstVars, historyVars, radioVars, burst, aired, air, epoch,
                 set_roles>>

-----------------------------------------------------------------------------
(* The neighbours: external, as scan_cb sees them. *)

Quiet ==
  /\ pc = "loop" /\ ready = {} /\ rx_msgq = <<>>
  /\ state # "BS_SYNC" /\ ~timer /\ ~end_sync_sem

(* Without Overlap a burst waits for the earlier ones and for a quiet node. *)
OnAir(b) ==
  /\ air[b] <= SlotNumber
  /\ \/ Overlap
     \/ air[b] > 0
     \/ Quiet /\ \A c \in Heard : c < b => air[c] = SlotNumber + 1
  /\ air' = [air EXCEPT ![b] = @ + 1]

Listening == scanning /\ (UsedInMesh => mesh_scan)

(* scan_cb and bluesync_decode_msg; k_msgq_put drops the message when full. *)
Hear(b) ==
  /\ OnAir(b)
  /\ Listening
  /\ rx_msgq' = IF Len(rx_msgq) < QueueSize
                THEN Append(rx_msgq, Packet(b, air[b])) ELSE rx_msgq
  /\ UNCHANGED <<smVars, threadVars, role_assign_sem, start_new_sync_sem, end_sync_sem,
                 timer, roundVars, burstVars, historyVars, radioVars, burst, aired, appVars>>

(* A packet may always be missed. *)
Miss(b) ==
  /\ OnAir(b)
  /\ UNCHANGED <<smVars, threadVars, kernelVars, roundVars, burstVars, historyVars,
                 radioVars, burst, aired, appVars>>

-----------------------------------------------------------------------------
Init ==
  /\ role = "NONE" /\ state = "BS_NONE_STATE"
  /\ pc = "start" /\ resume = "loop" /\ ready = {} /\ msg = NoMessage /\ sent = 0
  /\ role_assign_sem = FALSE /\ start_new_sync_sem = FALSE /\ end_sync_sem = FALSE
  /\ timer = FALSE /\ rx_msgq = <<>>
  /\ timeslot_index = 0 /\ local = Cleared /\ rcv = Cleared
  /\ local_history = EmptyRing /\ rcv_history = EmptyRing
  /\ current_round_id = RoundIds - 1 /\ new_round_id = 0
  /\ fit = {} /\ epoch = 0
  /\ scanning = FALSE /\ mesh_scan = TRUE /\ inflight = Nothing
  /\ burst = 0 /\ aired = {} /\ air = [b \in Heard |-> 0]
  /\ app = "idle" /\ set_roles = 0 /\ starts = 0

Next ==
  \/ Thread
  \/ TimerFires
  \/ \E num_sent \in {0, 1} : AdvSent(num_sent)
  \/ \E r \in RolesGiven : SetRole(r)
  \/ SetEpoch
  \/ StartNetSync
  \/ \E b \in Heard : Hear(b) \/ Miss(b)

Spec == Init /\ [][Next]_vars

(***************************************************************************)
(* The thread is scheduled, a running timer expires, an advertising event  *)
(* ends.  Nothing is promised of the application or of the neighbours.     *)
(***************************************************************************)
Fairness ==
  /\ WF_vars(Thread)
  /\ WF_vars(TimerFires)
  /\ WF_vars(\E num_sent \in {0, 1} : AdvSent(num_sent))

FairSpec == Spec /\ Fairness

-----------------------------------------------------------------------------
(* Properties. *)

Label == {"start", "role_wait", "loop", "dispatch", "received", "store",
          "update_success", "update_failed", "send", "sleep"}

(* Every variable stays in its type; with it, no array index leaves its array. *)
TypeOK ==
  /\ role \in Role /\ state \in State
  /\ pc \in Label /\ resume \in {"loop", "store"}
  /\ ready \subseteq {"new_sync", "msg", "end_sync"}
  /\ msg \in Message /\ sent \in 0 .. SlotNumber
  /\ role_assign_sem \in BOOLEAN /\ start_new_sync_sem \in BOOLEAN
  /\ end_sync_sem \in BOOLEAN /\ timer \in BOOLEAN
  /\ rx_msgq \in Seq(Message)
  /\ timeslot_index \in Nat /\ local \in Timestamps /\ rcv \in Timestamps
  /\ local_history \in Ring /\ rcv_history \in Ring
  /\ current_round_id \in 0 .. RoundIds - 1 /\ new_round_id \in 0 .. RoundIds - 1
  /\ fit \subseteq Stamp \X Stamp
  /\ epoch \in Nat
  /\ scanning \in BOOLEAN /\ mesh_scan \in BOOLEAN
  /\ inflight \in OwnPacket
  /\ burst \in Nat /\ aired \subseteq (0 .. RoundIds - 1) \X Nat
  /\ air \in [Heard -> 0 .. SlotNumber + 1]
  /\ app \in {"idle", "epoch_set"}
  /\ set_roles \in 0 .. MaxSetRole /\ starts \in 0 .. MaxStart

(***************************************************************************)
(* A node that waits for a burst or collects one can hear it: the aux scan *)
(* callback is registered and, in a mesh, the scanner is on.  Broken by a  *)
(* path that leaves bt_mesh_scan_disable without its enable, or that       *)
(* enters the state without its handler.                                   *)
(***************************************************************************)
ListensWhileWaiting ==
  (state \in {"BS_SCAN_WAIT_FOR_SYNC", "BS_SYNC"} /\ pc = "loop") => Listening

(***************************************************************************)
(* Every sample the slope and offset were fitted to pairs the reception    *)
(* and the sending time of one and the same packet.  The two halves arrive *)
(* in different packets, may be overwritten, outlive a failed update in    *)
(* the bursts, and are matched by slot number alone.                       *)
(***************************************************************************)
PairsMatch == \A p \in fit : p[1] = p[2]

(***************************************************************************)
(* BS_SYNC is never a trap: only the expiry leaves it, so the timer runs   *)
(* or its semaphore waits to be taken.                                     *)
(***************************************************************************)
ExpiryPending == state = "BS_SYNC" => timer \/ end_sync_sem

(***************************************************************************)
(* A timer or an untaken expiry belongs to the synchronisation in          *)
(* progress: none is left over to cut the next one short.                  *)
(***************************************************************************)
NoStrayExpiry ==
  /\ ~(timer /\ end_sync_sem)
  /\ timer \/ end_sync_sem => state = "BS_SYNC" \/ pc = "received"

(***************************************************************************)
(* The packet of slot k > 0 carries the time at which the packet of slot   *)
(* k-1 of the same burst left, whatever sends failed or were repeated in   *)
(* between: the receivers pair it with their reception of packet k-1.      *)
(***************************************************************************)
FollowUp ==
  inflight.burst > 0 /\ inflight.slot > 0
    => inflight.ticks = OwnStamp(inflight.burst, inflight.slot - 1)

(* bluesync_send_adv never reads timer_ticks[] past its end. *)
SlotInBounds == pc = "send" => timeslot_index <= SlotNumber

(***************************************************************************)
(* A successful update always moves the node to another round, so no node  *)
(* fits, and then rebroadcasts, the round it is on again: between two      *)
(* neighbours a round is passed on once.                                   *)
(***************************************************************************)
AdoptsAnotherRound ==
  [][pc = "dispatch" /\ pc' = "update_success" => current_round_id' # current_round_id]_vars

(***************************************************************************)
(* "already synchronized to this round" (bluesync.c:309): a message is     *)
(* dropped for its round only by a node that has synchronised before.      *)
(***************************************************************************)
SkipsOnlySynced ==
  [][pc = "loop" /\ pc' = "loop" /\ Len(rx_msgq') < Len(rx_msgq) => fit # {}]_vars

(***************************************************************************)
(* The packets of one burst that have left carry one round id              *)
(* (docs/conception.md:47: ADV increments it, then advertises the burst).  *)
(***************************************************************************)
BurstIsOneRound == \A p, q \in aired : p[1] = q[1]

(***************************************************************************)
(* Once the thread has no request left, every packet of its latest burst   *)
(* carried the round id the node is on and a time on the epoch in force,   *)
(* however many requests came during the bursts before it, one semaphore   *)
(* for all of them: the last word on the air is never a superseded round   *)
(* or epoch.                                                               *)
(***************************************************************************)
Settled == pc = "loop" /\ app = "idle" /\ ~start_new_sync_sem /\ "new_sync" \notin ready
RoundAnnounced == Settled => \A p \in aired : p = <<current_round_id, epoch>>

(* A synchronisation that has begun ends, with an update or without one. *)
SyncEnds == (state = "BS_SYNC") ~> (state # "BS_SYNC")

(***************************************************************************)
(* The progress form of ListensWhileWaiting: a node that has come to wait  *)
(* for a burst, by whatever path, hears the air again or leaves the state. *)
(***************************************************************************)
WaitsListening ==
  (state = "BS_SCAN_WAIT_FOR_SYNC")
    ~> (Listening \/ state # "BS_SCAN_WAIT_FOR_SYNC")

(***************************************************************************)
(* Clients forward what they collect: once two slots (and the regression's *)
(* minimum) hold both timestamps, the node fits them and rebroadcasts,     *)
(* wherever the expiry finds the queue, the rings and the older bursts.    *)
(***************************************************************************)
Enough ==
  LET paired == Cardinality(rcv.bits \cap local.bits)
  IN  paired >= 2 /\ paired >= SlotNumber \div 2
SyncForwarded == (state = "BS_SYNC" /\ Enough) ~> (pc = "send")

(* A burst ends, whatever the radio refuses, and the thread polls again. *)
BurstEnds == (pc = "send") ~> (pc = "loop")

(***************************************************************************)
(* A request of the application is followed by a burst that began after    *)
(* it, also when it comes in the middle of one.                            *)
(***************************************************************************)
RequestServed ==
  \A n \in 0 .. MaxStart : (start_new_sync_sem /\ burst = n) ~> (burst > n)
=============================================================================
