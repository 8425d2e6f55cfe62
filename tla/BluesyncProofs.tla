--------------------------- MODULE BluesyncProofs ---------------------------
(***************************************************************************)
(* Theorems about Bluesync, for every number of slots, window, queue,      *)
(* round id space and set of neighbours' bursts.                           *)
(***************************************************************************)
EXTENDS Bluesync, SequenceTheorems, TLAPS

-----------------------------------------------------------------------------
(* Types of the values the actions build. *)

LEMMA ConstantTypes ==
  /\ NoStamp \in Stamp /\ Garbage \in Stamp
  /\ NoMessage \in Message
  /\ Nothing \in OwnPacket
  /\ Cleared \in Timestamps
  /\ EmptyRing \in Ring
<1>1. NoStamp \in Stamp /\ Garbage \in Stamp
  BY DEF NoStamp, Garbage, Stamp
<1>2. NoMessage \in Message
  BY <1>1, SizesAssumption DEF NoMessage, Message
<1>3. Nothing \in OwnPacket
  BY <1>1, SizesAssumption DEF Nothing, OwnPacket
<1>4. Cleared \in Timestamps
  BY <1>1 DEF Cleared, Timestamps
<1>5. EmptyRing \in Ring
  BY <1>4, SizesAssumption DEF EmptyRing, Ring
<1> QED
  BY <1>1, <1>2, <1>3, <1>4, <1>5

LEMMA StampTypes ==
  ASSUME NEW b \in Nat, NEW i \in Int
  PROVE  OwnStamp(b, i) \in Stamp /\ HeardStamp(b, i) \in Stamp
BY DEF OwnStamp, HeardStamp, Stamp

LEMMA PacketType ==
  ASSUME NEW b \in Heard, NEW i \in Nat
  PROVE  Packet(b, i) \in Message
<1>1. b \in Nat /\ HeardRound[b] \in 0 .. RoundIds - 1
  BY HeardAssumption
<1>2. HeardStamp(b, i) \in Stamp /\ HeardStamp(b, i - 1) \in Stamp
  BY <1>1, StampTypes
<1> QED
  BY <1>1, <1>2, ConstantTypes DEF Packet, Message

LEMMA AddType ==
  ASSUME NEW elem \in Timestamps, NEW pos \in Slots, NEW ticks \in Stamp
  PROVE  Add(elem, pos, ticks) \in Timestamps
BY DEF Add, Timestamps

LEMMA PushType ==
  ASSUME NEW ring \in Ring, NEW elem \in Timestamps
  PROVE  Push(ring, elem) \in Ring
<1>1. (ring.head + 1) % WindowSize \in 0 .. WindowSize - 1
  BY SizesAssumption DEF Ring
<1>2. (IF ring.count < WindowSize THEN ring.count + 1 ELSE ring.count)
        \in 0 .. WindowSize
  BY SizesAssumption DEF Ring
<1>3. [ring.bursts EXCEPT ![ring.head] = elem]
        \in [0 .. WindowSize - 1 -> Timestamps]
  BY DEF Ring
<1> QED
  BY <1>1, <1>2, <1>3 DEF Push, Ring

LEMMA PairsType ==
  ASSUME NEW remote \in Ring, NEW own \in Ring
  PROVE  Pairs(remote, own) \subseteq Stamp \X Stamp
<1> SUFFICES ASSUME NEW s \in Samples(remote, own)
             PROVE  <<LocalTicks(own, s), LocalTicks(remote, s)>> \in Stamp \X Stamp
  BY DEF Pairs
<1>1. s[1] \in 0 .. WindowSize - 1 /\ s[2] \in Slots
  BY SizesAssumption DEF Samples, Ring
<1>2. remote.bursts[s[1]] \in Timestamps /\ own.bursts[s[1]] \in Timestamps
  BY <1>1 DEF Ring
<1>3. remote.bursts[s[1]].ticks[s[2]] \in Stamp
      /\ own.bursts[s[1]].ticks[s[2]] \in Stamp
  BY <1>1, <1>2 DEF Timestamps
<1> QED
  BY <1>3 DEF LocalTicks

LEMMA RestingType ==
  ASSUME NEW r
  PROVE  RestingState(r) \in State
BY DEF RestingState, State

LEMMA TransitionType ==
  ASSUME NEW r, NEW s \in State, NEW e
  PROVE  transition(r, s, e) \in State
BY RestingType DEF transition, State

LEMMA NextRound ==
  ASSUME NEW round \in 0 .. RoundIds - 1
  PROVE  (round + 1) % RoundIds \in 0 .. RoundIds - 1
BY SizesAssumption

-----------------------------------------------------------------------------
(* Type correctness. *)

(* A message k_poll has reported stays in the queue until it is taken. *)
TypeInv ==
  /\ TypeOK
  /\ "msg" \in ready => rx_msgq # <<>>

LEMMA RunType ==
  ASSUME TypeInv, NEW event, NEW back \in {"loop", "store"}, Run(event, back)
  PROVE  role' \in Role /\ state' \in State /\ pc' \in Label
         /\ resume' \in {"loop", "store"}
BY TransitionType DEF TypeInv, TypeOK, Run, Label

LEMMA ResetParamType ==
  ASSUME ResetParam
  PROVE  timeslot_index' \in Nat /\ local' \in Timestamps /\ rcv' \in Timestamps
BY ConstantTypes DEF ResetParam

LEMMA NextOwnPacketType ==
  ASSUME TypeInv
  PROVE  NextOwnPacket \in OwnPacket
<1>1. TicksBefore(timeslot_index) \in Stamp
  BY ConstantTypes DEF TypeInv, TypeOK, TicksBefore, Timestamps
<1> QED
  BY <1>1 DEF TypeInv, TypeOK, NextOwnPacket, OwnPacket

LEMMA TypeInvInit == Init => TypeInv
<1> SUFFICES ASSUME Init PROVE TypeInv
  OBVIOUS
<1>1. air \in [Heard -> 0 .. SlotNumber + 1]
  BY SizesAssumption DEF Init
<1>2. rx_msgq \in Seq(Message)
  BY DEF Init
<1>3. /\ role \in Role /\ state \in State /\ pc \in Label /\ resume \in {"loop", "store"}
      /\ ready \subseteq {"new_sync", "msg", "end_sync"} /\ "msg" \notin ready
      /\ app \in {"idle", "epoch_set"} /\ fit \subseteq Stamp \X Stamp
  BY DEF Init, Role, State, Label
<1>4. /\ role_assign_sem \in BOOLEAN /\ start_new_sync_sem \in BOOLEAN
      /\ end_sync_sem \in BOOLEAN /\ timer \in BOOLEAN
      /\ scanning \in BOOLEAN /\ mesh_scan \in BOOLEAN
  BY DEF Init
<1>5. /\ sent \in 0 .. SlotNumber /\ timeslot_index \in Nat /\ epoch \in Nat
      /\ current_round_id \in 0 .. RoundIds - 1 /\ new_round_id \in 0 .. RoundIds - 1
      /\ burst \in Nat /\ set_roles \in 0 .. MaxSetRole /\ starts \in 0 .. MaxStart
      /\ aired \subseteq (0 .. RoundIds - 1) \X Nat
  BY SizesAssumption, BoundsAssumption DEF Init
<1>6. /\ msg \in Message /\ local \in Timestamps /\ rcv \in Timestamps
      /\ local_history \in Ring /\ rcv_history \in Ring /\ inflight \in OwnPacket
  BY ConstantTypes DEF Init
<1> QED
  BY <1>1, <1>2, <1>3, <1>4, <1>5, <1>6 DEF TypeInv, TypeOK

LEMMA TypeInvThread ==
  ASSUME TypeInv, Thread
  PROVE  TypeInv'
<1> USE DEF smVars, threadVars, kernelVars, roundVars, burstVars, historyVars, radioVars,
            appVars
<1>1. CASE Start
  BY <1>1 DEF Start, TypeInv, TypeOK, Label
<1>2. CASE TakeRole
  <2>1. role' \in Role /\ state' \in State /\ pc' \in Label
        /\ resume' \in {"loop", "store"}
    BY <1>2, RunType DEF TakeRole
  <2> QED
    BY <1>2, <2>1 DEF TakeRole, TypeInv, TypeOK
<1>3. CASE Poll
  BY <1>3 DEF Poll, Available, TypeInv, TypeOK
<1>4. CASE TakeNewSync
  <2>1. role' \in Role /\ state' \in State /\ pc' \in Label
        /\ resume' \in {"loop", "store"}
    BY <1>4, RunType DEF TakeNewSync
  <2> QED
    BY <1>4, <2>1 DEF TakeNewSync, TypeInv, TypeOK
<1>5. CASE TakeMsg
  <2>1. rx_msgq \in Seq(Message) /\ rx_msgq # <<>>
    BY <1>5 DEF TakeMsg, TypeInv, TypeOK
  <2>2. msg' \in Message /\ rx_msgq' \in Seq(Message)
    BY <1>5, <2>1, HeadTailProperties DEF TakeMsg
  <2>3. msg'.round \in 0 .. RoundIds - 1
    BY <2>2 DEF Message
  <2>4. new_round_id' \in 0 .. RoundIds - 1 /\ timer' \in BOOLEAN /\ pc' \in Label
    BY <1>5, <2>3 DEF TakeMsg, TypeInv, TypeOK, Label
  <2>5. ready' \subseteq {"new_sync", "msg", "end_sync"} /\ "msg" \notin ready'
    BY <1>5 DEF TakeMsg, TypeInv, TypeOK
  <2> QED
    BY <1>5, <2>2, <2>4, <2>5 DEF TakeMsg, TypeInv, TypeOK
<1>6. CASE AnnounceSync
  <2>1. role' \in Role /\ state' \in State /\ pc' \in Label
        /\ resume' \in {"loop", "store"}
    BY <1>6, RunType DEF AnnounceSync
  <2> QED
    BY <1>6, <2>1 DEF AnnounceSync, TypeInv, TypeOK
<1>7. CASE StoreMsg
  <2>1. msg.client \in Stamp /\ msg.master \in Stamp /\ msg.index \in Nat
    BY DEF TypeInv, TypeOK, Message
  <2>2. local' \in Timestamps
    <3>1. CASE msg.index < SlotNumber
      <4>1. msg.index \in Slots
        BY <2>1, <3>1, SizesAssumption DEF Slots
      <4> QED
        BY <1>7, <2>1, <3>1, <4>1, AddType DEF StoreMsg, TypeInv, TypeOK
    <3>2. CASE ~(msg.index < SlotNumber)
      BY <1>7, <3>2 DEF StoreMsg, TypeInv, TypeOK
    <3> QED
      BY <3>1, <3>2
  <2>3. rcv' \in Timestamps
    <3>1. CASE msg.index >= 1 /\ msg.index <= SlotNumber
      <4>1. msg.index - 1 \in Slots
        BY <2>1, <3>1, SizesAssumption DEF Slots
      <4> QED
        BY <1>7, <2>1, <3>1, <4>1, AddType DEF StoreMsg, TypeInv, TypeOK
    <3>2. CASE ~(msg.index >= 1 /\ msg.index <= SlotNumber)
      BY <1>7, <3>2 DEF StoreMsg, TypeInv, TypeOK
    <3> QED
      BY <3>1, <3>2
  <2> QED
    BY <1>7, <2>2, <2>3 DEF StoreMsg, TypeInv, TypeOK, Label
<1>8. CASE TakeEndSync
  <2>1. role' \in Role /\ state' \in State /\ pc' \in Label
        /\ resume' \in {"loop", "store"}
    BY <1>8, RunType DEF TakeEndSync
  <2> QED
    BY <1>8, <2>1 DEF TakeEndSync, TypeInv, TypeOK
<1>9. CASE WaitHandler
  <2>1. timeslot_index' \in Nat /\ local' \in Timestamps /\ rcv' \in Timestamps
    BY <1>9, ResetParamType DEF WaitHandler
  <2>2. scanning' \in BOOLEAN
    BY <1>9 DEF WaitHandler, ScanStart, TypeInv, TypeOK
  <2> QED
    BY <1>9, <2>1, <2>2 DEF WaitHandler, TypeInv, TypeOK, Label
<1>10. CASE IdleHandler
  BY <1>10 DEF IdleHandler, TypeInv, TypeOK, Label
<1>11. CASE UpdateHandler
  <2>1. rcv_history' \in Ring /\ local_history' \in Ring
    BY <1>11, PushType DEF UpdateHandler, TypeInv, TypeOK
  <2>2. fit' \subseteq Stamp \X Stamp
    BY <1>11, <2>1, PairsType DEF UpdateHandler, TypeInv, TypeOK
  <2>3. current_round_id' \in 0 .. RoundIds - 1 /\ pc' \in Label
        /\ scanning' \in BOOLEAN
    BY <1>11 DEF UpdateHandler, ScanStop, TypeInv, TypeOK, Label
  <2> QED
    BY <1>11, <2>1, <2>2, <2>3 DEF UpdateHandler, TypeInv, TypeOK
<1>12. CASE AnnounceUpdate
  <2>1. role' \in Role /\ state' \in State /\ pc' \in Label
        /\ resume' \in {"loop", "store"}
    BY <1>12, RunType DEF AnnounceUpdate, TypeInv, TypeOK
  <2> QED
    BY <1>12, <2>1 DEF AnnounceUpdate, TypeInv, TypeOK
<1>13. CASE AdvHandler
  <2>1. timeslot_index' \in Nat /\ local' \in Timestamps /\ rcv' \in Timestamps
    BY <1>13, ResetParamType DEF AdvHandler
  <2> QED
    BY <1>13, <2>1, SizesAssumption DEF AdvHandler, TypeInv, TypeOK, Label
<1>14. CASE SetDataFails
  BY <1>14 DEF SetDataFails, TypeInv, TypeOK, Label
<1>15. CASE AdvStartFails
  <2>1. inflight' \in OwnPacket
    BY <1>15, NextOwnPacketType, ConstantTypes DEF AdvStartFails, TypeInv, TypeOK
  <2>2. mesh_scan' \in BOOLEAN
    BY <1>15 DEF AdvStartFails
  <2> QED
    BY <1>15, <2>1, <2>2 DEF AdvStartFails, TypeInv, TypeOK, Label
<1>16. CASE Send
  <2>1. inflight' \in OwnPacket
    BY <1>16, NextOwnPacketType DEF Send
  <2>2. mesh_scan' \in BOOLEAN
    BY <1>16 DEF Send
  <2> QED
    BY <1>16, <2>1, <2>2 DEF Send, TypeInv, TypeOK, Label
<1>17. CASE NextPacket
  <2>1. sent' \in 0 .. SlotNumber
    BY <1>17, SizesAssumption DEF NextPacket, TypeInv, TypeOK
  <2> QED
    BY <1>17, <2>1 DEF NextPacket, TypeInv, TypeOK, Label
<1>18. CASE EndBurst
  <2>1. role' \in Role /\ state' \in State /\ pc' \in Label
        /\ resume' \in {"loop", "store"}
    BY <1>18, RunType DEF EndBurst, TypeInv, TypeOK
  <2> QED
    BY <1>18, <2>1 DEF EndBurst, TypeInv, TypeOK
<1> QED
  BY <1>1, <1>2, <1>3, <1>4, <1>5, <1>6, <1>7, <1>8, <1>9, <1>10, <1>11, <1>12, <1>13,
     <1>14, <1>15, <1>16, <1>17, <1>18 DEF Thread

LEMMA TypeInvOthers ==
  ASSUME TypeInv, Next, ~Thread
  PROVE  TypeInv'
<1> USE DEF smVars, threadVars, kernelVars, roundVars, burstVars, historyVars, radioVars,
            appVars
<1>1. CASE TimerFires
  BY <1>1 DEF TimerFires, TypeInv, TypeOK
<1>2. ASSUME NEW num_sent \in {0, 1}, AdvSent(num_sent)
      PROVE  TypeInv'
  <2>1. OwnStamp(inflight.burst, inflight.slot) \in Stamp
    BY StampTypes DEF TypeInv, TypeOK, OwnPacket
  <2>2. local' \in Timestamps
    BY <1>2, <2>1 DEF AdvSent, TypeInv, TypeOK, Timestamps
  <2>3. timeslot_index' \in Nat /\ mesh_scan' \in BOOLEAN /\ inflight' \in OwnPacket
    BY <1>2, ConstantTypes DEF AdvSent, TypeInv, TypeOK
  <2>4. aired' \subseteq (0 .. RoundIds - 1) \X Nat
    <3>1. <<inflight.round, epoch>> \in (0 .. RoundIds - 1) \X Nat
      BY DEF TypeInv, TypeOK, OwnPacket
    <3> QED
      BY <1>2, <3>1 DEF AdvSent, TypeInv, TypeOK
  <2> QED
    BY <1>2, <2>2, <2>3, <2>4 DEF AdvSent, TypeInv, TypeOK
<1>3. ASSUME NEW r \in RolesGiven, SetRole(r)
      PROVE  TypeInv'
  <2>1. r \in Role /\ RestingState(r) \in State
    BY RestingType, SwitchesAssumption
  <2>2. set_roles' \in 0 .. MaxSetRole
    BY <1>3, BoundsAssumption DEF SetRole, TypeInv, TypeOK
  <2> QED
    BY <1>3, <2>1, <2>2 DEF SetRole, TypeInv, TypeOK
<1>4. CASE SetEpoch
  BY <1>4 DEF SetEpoch, TypeInv, TypeOK
<1>5. CASE StartNetSync
  <2>1. current_round_id' \in 0 .. RoundIds - 1
    BY <1>5, NextRound DEF StartNetSync, TypeInv, TypeOK
  <2>2. starts' \in 0 .. MaxStart
    BY <1>5, BoundsAssumption DEF StartNetSync, TypeInv, TypeOK
  <2> QED
    BY <1>5, <2>1, <2>2 DEF StartNetSync, TypeInv, TypeOK
<1>6. ASSUME NEW b \in Heard, OnAir(b)
      PROVE  air' \in [Heard -> 0 .. SlotNumber + 1] /\ air[b] \in Nat
  BY <1>6, SizesAssumption DEF OnAir, TypeInv, TypeOK
<1>7. ASSUME NEW b \in Heard, Hear(b)
      PROVE  TypeInv'
  <2>1. Packet(b, air[b]) \in Message /\ air' \in [Heard -> 0 .. SlotNumber + 1]
    BY <1>6, <1>7, PacketType DEF Hear
  <2>2. rx_msgq' \in Seq(Message) /\ (rx_msgq # <<>> => rx_msgq' # <<>>)
    <3>1. rx_msgq \in Seq(Message)
      BY DEF TypeInv, TypeOK
    <3>2. Append(rx_msgq, Packet(b, air[b])) \in Seq(Message)
          /\ Append(rx_msgq, Packet(b, air[b])) # <<>>
      BY <2>1, <3>1, AppendProperties
    <3> QED
      BY <1>7, <3>1, <3>2 DEF Hear
  <2> QED
    BY <1>7, <2>1, <2>2 DEF Hear, TypeInv, TypeOK
<1>8. ASSUME NEW b \in Heard, Miss(b)
      PROVE  TypeInv'
  BY <1>6, <1>8 DEF Miss, TypeInv, TypeOK
<1> QED
  BY <1>1, <1>2, <1>3, <1>4, <1>5, <1>7, <1>8 DEF Next

LEMMA TypeInvStutter ==
  ASSUME TypeInv, UNCHANGED vars
  PROVE  TypeInv'
BY DEF TypeInv, TypeOK, vars, smVars, threadVars, kernelVars, roundVars, burstVars,
       historyVars, radioVars, appVars

LEMMA TypeInvariant == Spec => []TypeInv
<1>1. TypeInv /\ [Next]_vars => TypeInv'
  BY TypeInvThread, TypeInvOthers, TypeInvStutter
<1> QED
  BY TypeInvInit, <1>1, PTL DEF Spec

(***************************************************************************)
(* No variable leaves its type: in particular the ring indices stay below  *)
(* BURST_WINDOWS_SIZE, the round ids wrap, and every slot a message is     *)
(* stored at is one of the array (bluesync_scan_packet_process).           *)
(***************************************************************************)
THEOREM TypeCorrect == Spec => []TypeOK
BY TypeInvariant, PTL DEF TypeInv

-----------------------------------------------------------------------------
(* The edges of the state machine that the invariants below need. *)

LEMMA SyncEdges ==
  ASSUME NEW r, NEW s, NEW e
  PROVE  /\ transition(r, s, e) = "BS_SYNC"
              => s = "BS_SYNC" \/ (s = "BS_SCAN_WAIT_FOR_SYNC" /\ e = "EVENT_NEW_SYNC_RCV")
         /\ s = "BS_SYNC"
              => transition(r, s, e) = IF e = "EVENT_SYNC_EXPIRED" THEN "BS_UPDATE" ELSE s
BY DEF transition, RestingState

-----------------------------------------------------------------------------
(* BS_SYNC is never a trap. *)

(* The timer runs already when the event of the new synchronisation is announced. *)
ExpiryInv == state = "BS_SYNC" \/ pc = "received" => timer \/ end_sync_sem

LEMMA ExpiryInvStep ==
  ASSUME TypeInv, ExpiryInv, Next
  PROVE  ExpiryInv'
<1> USE DEF smVars, threadVars, kernelVars, roundVars, burstVars, historyVars, radioVars,
            appVars
<1>1. CASE Start \/ StoreMsg \/ WaitHandler \/ IdleHandler \/ UpdateHandler
           \/ AdvHandler \/ SetDataFails \/ AdvStartFails \/ Send \/ NextPacket
  <2>1. pc' # "received"
    BY <1>1 DEF Start, StoreMsg, WaitHandler, IdleHandler, UpdateHandler, AdvHandler,
                SetDataFails, AdvStartFails, Send, NextPacket, TypeInv, TypeOK
  <2>2. UNCHANGED <<state, timer, end_sync_sem>>
    BY <1>1 DEF Start, StoreMsg, WaitHandler, IdleHandler, UpdateHandler, AdvHandler,
                SetDataFails, AdvStartFails, Send, NextPacket
  <2> QED
    BY <2>1, <2>2 DEF ExpiryInv
<1>2. CASE TakeRole \/ TakeNewSync \/ AnnounceUpdate \/ EndBurst
  <2>1. pc' = "dispatch" /\ UNCHANGED <<timer, end_sync_sem>>
    BY <1>2 DEF TakeRole, TakeNewSync, AnnounceUpdate, EndBurst, Run
  <2>2. state' = "BS_SYNC" => state = "BS_SYNC"
    BY <1>2, SyncEdges DEF TakeRole, TakeNewSync, AnnounceUpdate, EndBurst, Run
  <2> QED
    BY <2>1, <2>2 DEF ExpiryInv
<1>3. CASE Poll
  BY <1>3 DEF Poll, ExpiryInv
<1>4. CASE TakeMsg
  BY <1>4 DEF TakeMsg, ExpiryInv
<1>5. CASE AnnounceSync
  BY <1>5 DEF AnnounceSync, Run, ExpiryInv
<1>6. CASE TakeEndSync
  <2>1. pc' = "dispatch" /\ state' # "BS_SYNC"
    BY <1>6, SyncEdges DEF TakeEndSync, Run
  <2> QED
    BY <2>1 DEF ExpiryInv
<1>7. CASE TimerFires
  BY <1>7 DEF TimerFires, ExpiryInv
<1>8. ASSUME NEW num_sent \in {0, 1}, AdvSent(num_sent)
      PROVE  ExpiryInv'
  BY <1>8 DEF AdvSent, ExpiryInv
<1>9. ASSUME NEW r \in RolesGiven, SetRole(r)
      PROVE  ExpiryInv'
  BY <1>9 DEF SetRole, RestingState, ExpiryInv
<1>10. CASE SetEpoch \/ StartNetSync
  BY <1>10 DEF SetEpoch, StartNetSync, ExpiryInv
<1>11. ASSUME NEW b \in Heard, Hear(b) \/ Miss(b)
       PROVE  ExpiryInv'
  BY <1>11 DEF Hear, Miss, ExpiryInv
<1> QED
  BY <1>1, <1>2, <1>3, <1>4, <1>5, <1>6, <1>7, <1>8, <1>9, <1>10, <1>11 DEF Next, Thread

(***************************************************************************)
(* A node in BS_SYNC always has its expiry coming, whatever the radio      *)
(* refuses and however often the application reassigns the role.           *)
(***************************************************************************)
THEOREM SyncHasExpiry == Spec => []ExpiryPending
<1>1. Init => ExpiryInv
  BY DEF Init, ExpiryInv
<1>2. TypeInv /\ ExpiryInv /\ [Next]_vars => ExpiryInv'
  <2>1. ASSUME ExpiryInv, UNCHANGED vars PROVE ExpiryInv'
    BY <2>1 DEF ExpiryInv, vars, smVars, threadVars, kernelVars
  <2> QED
    BY <2>1, ExpiryInvStep
<1>3. ExpiryInv => ExpiryPending
  BY DEF ExpiryInv, ExpiryPending
<1> QED
  BY <1>1, <1>2, <1>3, TypeInvariant, PTL DEF Spec

-----------------------------------------------------------------------------
(* One assignment of the role: whose timer it is, and whose round. *)

(***************************************************************************)
(* Before the role is given the thread waits for it; a received message is *)
(* announced in the state it was taken in; BS_UPDATE lasts from the expiry *)
(* to the announcement of its outcome; an authority never synchronises.    *)
(***************************************************************************)
OneRoleInv ==
  /\ set_roles = 0 => /\ role = "NONE" /\ state = "BS_NONE_STATE"
                      /\ pc \in {"start", "role_wait"} /\ ~role_assign_sem
  /\ pc \in {"start", "role_wait"} =>
       /\ ready = {} /\ ~timer /\ ~end_sync_sem
       /\ state \in {"BS_NONE_STATE", "BS_SCAN_WAIT_FOR_SYNC", "BS_STOP"}
  /\ pc = "received" => state = "BS_SCAN_WAIT_FOR_SYNC"
  /\ pc \in {"update_success", "update_failed"} => state = "BS_UPDATE"
  /\ state = "BS_UPDATE" => pc \in {"dispatch", "update_success", "update_failed"}
  /\ role = "AUTHORITY" => state \in {"BS_STOP", "BS_ADV"}

(* "end_sync" reported means end_sync_sem is still there: only the thread takes it. *)
StrayInv == ("end_sync" \in ready => end_sync_sem) /\ NoStrayExpiry

(* The round announced is another one, from the message on to the update. *)
RoundInv ==
  pc = "received" \/ state = "BS_SYNC" \/ (state = "BS_UPDATE" /\ pc = "dispatch")
    => new_round_id # current_round_id

LEMMA TransitionEdges ==
  ASSUME NEW r, NEW s, NEW e
  PROVE  /\ transition(r, s, e) = "BS_UPDATE"
              => s = "BS_UPDATE" \/ (s = "BS_SYNC" /\ e = "EVENT_SYNC_EXPIRED")
         /\ s = "BS_UPDATE"
              => transition(r, s, e) = IF e = "EVENT_UPDATE_SUCCESS" THEN "BS_ADV"
                                       ELSE IF e = "EVENT_UPDATE_FAILED"
                                       THEN "BS_SCAN_WAIT_FOR_SYNC" ELSE s
         /\ r = "AUTHORITY" /\ s \in {"BS_STOP", "BS_ADV"}
              => transition(r, s, e) \in {"BS_STOP", "BS_ADV"}
         /\ s = "BS_SCAN_WAIT_FOR_SYNC" /\ e = "EVENT_NEW_SYNC_RCV"
              => transition(r, s, e) = "BS_SYNC"
<1>1. RestingState(r) # "BS_UPDATE"
  BY DEF RestingState
<1>2. transition(r, s, e) = "BS_UPDATE"
        => s = "BS_UPDATE" \/ (s = "BS_SYNC" /\ e = "EVENT_SYNC_EXPIRED")
  BY <1>1 DEF transition
<1>3. s = "BS_UPDATE"
        => transition(r, s, e) = IF e = "EVENT_UPDATE_SUCCESS" THEN "BS_ADV"
                                 ELSE IF e = "EVENT_UPDATE_FAILED"
                                 THEN "BS_SCAN_WAIT_FOR_SYNC" ELSE s
  BY DEF transition
<1>4. r = "AUTHORITY" /\ s \in {"BS_STOP", "BS_ADV"}
        => transition(r, s, e) \in {"BS_STOP", "BS_ADV"}
  BY DEF transition, RestingState
<1>5. s = "BS_SCAN_WAIT_FOR_SYNC" /\ e = "EVENT_NEW_SYNC_RCV"
        => transition(r, s, e) = "BS_SYNC"
  BY DEF transition
<1> QED
  BY <1>2, <1>3, <1>4, <1>5

LEMMA OneRoleInvStep ==
  ASSUME MaxSetRole <= 1, TypeInv, OneRoleInv, Next
  PROVE  OneRoleInv'
<1> USE DEF smVars, threadVars, kernelVars, roundVars, burstVars, historyVars, radioVars,
            appVars
<1>1. CASE StoreMsg \/ WaitHandler \/ IdleHandler \/ AdvHandler \/ SetDataFails
           \/ AdvStartFails \/ Send \/ NextPacket
  <2>1. /\ pc' \in {"loop", "store", "send", "sleep"}
        /\ pc \notin {"start", "role_wait"} /\ state # "BS_UPDATE"
    BY <1>1 DEF StoreMsg, WaitHandler, IdleHandler, AdvHandler, SetDataFails,
                AdvStartFails, Send, NextPacket, SleepOver, TypeInv, TypeOK, OneRoleInv
  <2>2. UNCHANGED <<role, state, set_roles>>
    BY <1>1 DEF StoreMsg, WaitHandler, IdleHandler, AdvHandler, SetDataFails,
                AdvStartFails, Send, NextPacket
  <2> QED
    BY <2>1, <2>2 DEF OneRoleInv
<1>2. CASE Start \/ Poll
  BY <1>2 DEF Start, Poll, OneRoleInv
<1>3. CASE TakeRole
  <2>1. role_assign_sem /\ pc = "role_wait" /\ pc' = "dispatch" /\ UNCHANGED <<role, set_roles>>
        /\ state' = transition(role, state, "EVENT_INIT")
    BY <1>3 DEF TakeRole, Run
  <2>2. set_roles # 0 /\ state # "BS_UPDATE" /\ state # "BS_SYNC"
    BY <2>1 DEF OneRoleInv
  <2>3. state' # "BS_UPDATE"
    BY <2>1, <2>2, TransitionEdges
  <2>4. role = "AUTHORITY" => state' \in {"BS_STOP", "BS_ADV"}
    BY <2>1, TransitionEdges DEF OneRoleInv
  <2> QED
    BY <2>1, <2>2, <2>3, <2>4 DEF OneRoleInv
<1>4. CASE TakeNewSync \/ AnnounceSync \/ TakeEndSync \/ AnnounceUpdate \/ EndBurst
  <2>1. PICK e : pc' = "dispatch" /\ state' = transition(role, state, e)
                 /\ UNCHANGED <<role, set_roles>> /\ pc \notin {"start", "role_wait"}
    BY <1>4 DEF TakeNewSync, AnnounceSync, TakeEndSync, AnnounceUpdate, EndBurst, SleepOver,
                Run
  <2>2. role = "AUTHORITY" => state' \in {"BS_STOP", "BS_ADV"}
    BY <2>1, TransitionEdges DEF OneRoleInv
  <2> QED
    BY <2>1, <2>2 DEF OneRoleInv
<1>5. CASE TakeMsg
  <2>1. /\ pc = "loop" /\ pc' \in {"loop", "received", "store"}
        /\ pc' = "received" => state = "BS_SCAN_WAIT_FOR_SYNC"
        /\ UNCHANGED <<role, state, set_roles>>
    BY <1>5 DEF TakeMsg
  <2> QED
    BY <2>1 DEF OneRoleInv
<1>6. CASE UpdateHandler
  BY <1>6 DEF UpdateHandler, OneRoleInv
<1>7. CASE TimerFires
  BY <1>7 DEF TimerFires, OneRoleInv
<1>8. ASSUME NEW num_sent \in {0, 1}, AdvSent(num_sent)
      PROVE  OneRoleInv'
  BY <1>8 DEF AdvSent, OneRoleInv
<1>9. ASSUME NEW r \in RolesGiven, SetRole(r)
      PROVE  OneRoleInv'
  <2>1. set_roles = 0 /\ set_roles' = 1
    BY <1>9, BoundsAssumption DEF SetRole, TypeInv, TypeOK
  <2>2. RestingState(r) \in {"BS_NONE_STATE", "BS_SCAN_WAIT_FOR_SYNC", "BS_STOP"}
        /\ (r = "AUTHORITY" => RestingState(r) = "BS_STOP")
    BY DEF RestingState
  <2>3. role' = r /\ state' = RestingState(r) /\ UNCHANGED <<pc, ready, timer, end_sync_sem>>
    BY <1>9 DEF SetRole
  <2> QED
    BY <2>1, <2>2, <2>3 DEF OneRoleInv
<1>10. CASE SetEpoch \/ StartNetSync
  BY <1>10 DEF SetEpoch, StartNetSync, OneRoleInv
<1>11. ASSUME NEW b \in Heard, Hear(b) \/ Miss(b)
       PROVE  OneRoleInv'
  BY <1>11 DEF Hear, Miss, OneRoleInv
<1> QED
  BY <1>1, <1>2, <1>3, <1>4, <1>5, <1>6, <1>7, <1>8, <1>9, <1>10, <1>11 DEF Next, Thread

LEMMA OneRoleInvariant ==
  ASSUME MaxSetRole <= 1
  PROVE  Spec => []OneRoleInv
<1>1. Init => OneRoleInv
  BY DEF Init, OneRoleInv
<1>2. TypeInv /\ OneRoleInv /\ [Next]_vars => OneRoleInv'
  <2>1. ASSUME OneRoleInv, UNCHANGED vars PROVE OneRoleInv'
    BY <2>1 DEF OneRoleInv, vars, smVars, threadVars, kernelVars, appVars
  <2> QED
    BY <2>1, OneRoleInvStep
<1> QED
  BY <1>1, <1>2, TypeInvariant, PTL DEF Spec

LEMMA StrayInvStep ==
  ASSUME MaxSetRole <= 1, TypeInv, OneRoleInv, StrayInv, Next
  PROVE  StrayInv'
<1> USE DEF smVars, threadVars, kernelVars, roundVars, burstVars, historyVars, radioVars,
            appVars
<1>1. CASE Start \/ StoreMsg \/ WaitHandler \/ IdleHandler \/ UpdateHandler \/ AdvHandler
           \/ SetDataFails \/ AdvStartFails \/ Send \/ NextPacket
  <2>1. UNCHANGED <<state, ready, timer, end_sync_sem>> /\ pc # "received"
    BY <1>1 DEF Start, StoreMsg, WaitHandler, IdleHandler, UpdateHandler, AdvHandler,
                SetDataFails, AdvStartFails, Send, NextPacket, SleepOver
  <2> QED
    BY <2>1 DEF StrayInv, NoStrayExpiry
<1>2. CASE TakeRole \/ TakeNewSync \/ AnnounceUpdate \/ EndBurst
  <2>1. PICK e : /\ e # "EVENT_SYNC_EXPIRED" /\ state' = transition(role, state, e)
                 /\ UNCHANGED <<timer, end_sync_sem>> /\ ready' \subseteq ready
                 /\ pc # "received"
    BY <1>2 DEF TakeRole, TakeNewSync, AnnounceUpdate, EndBurst, SleepOver, Run
  <2>2. state = "BS_SYNC" => state' = "BS_SYNC"
    BY <2>1, SyncEdges
  <2> QED
    BY <2>1, <2>2 DEF StrayInv, NoStrayExpiry
<1>3. CASE Poll
  BY <1>3 DEF Poll, Available, StrayInv, NoStrayExpiry
<1>4. CASE TakeMsg
  <2>1. /\ pc = "loop" /\ UNCHANGED <<state, end_sync_sem>> /\ ready' \subseteq ready
        /\ (timer' = timer /\ pc' # "received")
             \/ (state # "BS_SYNC" /\ timer' /\ pc' = "received")
    BY <1>4 DEF TakeMsg
  <2> QED
    BY <2>1 DEF StrayInv, NoStrayExpiry
<1>5. CASE AnnounceSync
  <2>1. /\ state' = transition(role, state, "EVENT_NEW_SYNC_RCV") /\ pc = "received"
        /\ UNCHANGED <<ready, timer, end_sync_sem>>
    BY <1>5 DEF AnnounceSync, Run
  <2>2. state' = "BS_SYNC"
    BY <2>1, TransitionEdges DEF OneRoleInv
  <2> QED
    BY <2>1, <2>2 DEF StrayInv, NoStrayExpiry
<1>6. CASE TakeEndSync
  <2>1. end_sync_sem /\ ready' = {} /\ ~end_sync_sem' /\ timer' = timer
    BY <1>6 DEF TakeEndSync, StrayInv
  <2> QED
    BY <2>1 DEF StrayInv, NoStrayExpiry
<1>7. CASE TimerFires
  BY <1>7 DEF TimerFires, StrayInv, NoStrayExpiry
<1>8. ASSUME NEW num_sent \in {0, 1}, AdvSent(num_sent)
      PROVE  StrayInv'
  BY <1>8 DEF AdvSent, StrayInv, NoStrayExpiry
<1>9. ASSUME NEW r \in RolesGiven, SetRole(r)
      PROVE  StrayInv'
  <2>1. set_roles = 0 /\ UNCHANGED <<ready, timer, end_sync_sem>>
    BY <1>9, BoundsAssumption DEF SetRole, TypeInv, TypeOK
  <2>2. ready = {} /\ ~timer /\ ~end_sync_sem
    BY <2>1 DEF OneRoleInv
  <2> QED
    BY <2>1, <2>2 DEF StrayInv, NoStrayExpiry
<1>10. CASE SetEpoch \/ StartNetSync
  BY <1>10 DEF SetEpoch, StartNetSync, StrayInv, NoStrayExpiry
<1>11. ASSUME NEW b \in Heard, Hear(b) \/ Miss(b)
       PROVE  StrayInv'
  BY <1>11 DEF Hear, Miss, StrayInv, NoStrayExpiry
<1> QED
  BY <1>1, <1>2, <1>3, <1>4, <1>5, <1>6, <1>7, <1>8, <1>9, <1>10, <1>11 DEF Next, Thread

(***************************************************************************)
(* Where the role is given once, an expiry is always that of the           *)
(* synchronisation in progress: drift_estimation_handler never posts for   *)
(* one that is over, although nothing ever stops the timer.                *)
(***************************************************************************)
THEOREM ExpiryIsNotStray ==
  ASSUME MaxSetRole <= 1
  PROVE  Spec => []NoStrayExpiry
<1>1. Init => StrayInv
  BY DEF Init, StrayInv, NoStrayExpiry
<1>2. TypeInv /\ OneRoleInv /\ StrayInv /\ [Next]_vars => StrayInv'
  <2>1. ASSUME StrayInv, UNCHANGED vars PROVE StrayInv'
    BY <2>1 DEF StrayInv, NoStrayExpiry, vars, smVars, threadVars, kernelVars
  <2> QED
    BY <2>1, StrayInvStep
<1>3. StrayInv => NoStrayExpiry
  BY DEF StrayInv
<1> QED
  BY <1>1, <1>2, <1>3, TypeInvariant, OneRoleInvariant, PTL DEF Spec

LEMMA RoundInvStep ==
  ASSUME TypeInv, OneRoleInv, RoundInv, Next
  PROVE  RoundInv'
<1> USE DEF smVars, threadVars, kernelVars, roundVars, burstVars, historyVars, radioVars,
            appVars
<1>1. CASE Start \/ StoreMsg \/ WaitHandler \/ IdleHandler \/ AdvHandler
           \/ SetDataFails \/ AdvStartFails \/ Send \/ NextPacket
  <2>1. UNCHANGED <<state, roundVars>> /\ pc' \notin {"received", "dispatch"}
    BY <1>1 DEF Start, StoreMsg, WaitHandler, IdleHandler, AdvHandler, SetDataFails,
                AdvStartFails, Send, NextPacket, TypeInv, TypeOK
  <2> QED
    BY <2>1 DEF RoundInv
<1>2. CASE TakeRole \/ TakeNewSync \/ AnnounceSync \/ TakeEndSync \/ AnnounceUpdate
           \/ EndBurst
  <2>1. PICK e : /\ state' = transition(role, state, e)
                 /\ e = "EVENT_NEW_SYNC_RCV" => pc = "received"
                 /\ pc \in {"update_success", "update_failed"}
                      => e \in {"EVENT_UPDATE_SUCCESS", "EVENT_UPDATE_FAILED"}
                 /\ pc' = "dispatch" /\ pc # "dispatch" /\ UNCHANGED roundVars
    BY <1>2 DEF TakeRole, TakeNewSync, AnnounceSync, TakeEndSync, AnnounceUpdate, EndBurst,
                SleepOver, Run
  <2>2. state' = "BS_SYNC" => state = "BS_SYNC" \/ pc = "received"
    BY <2>1, SyncEdges
  <2>3. state' = "BS_UPDATE" => state = "BS_SYNC"
    BY <2>1, TransitionEdges DEF OneRoleInv
  <2> QED
    BY <2>1, <2>2, <2>3 DEF RoundInv
<1>3. CASE Poll
  BY <1>3 DEF Poll, RoundInv
<1>4. CASE TakeMsg
  BY <1>4 DEF TakeMsg, RoundInv
<1>5. CASE UpdateHandler
  BY <1>5 DEF UpdateHandler, RoundInv
<1>6. CASE StartNetSync
  <2>1. state' \in {"BS_STOP", "BS_ADV"} /\ pc' # "received"
    BY <1>6 DEF StartNetSync, OneRoleInv
  <2> QED
    BY <2>1 DEF RoundInv
<1>7. CASE TimerFires \/ SetEpoch
  BY <1>7 DEF TimerFires, SetEpoch, RoundInv
<1>8. ASSUME NEW num_sent \in {0, 1}, AdvSent(num_sent)
      PROVE  RoundInv'
  BY <1>8 DEF AdvSent, RoundInv
<1>9. ASSUME NEW r \in RolesGiven, SetRole(r)
      PROVE  RoundInv'
  BY <1>9 DEF SetRole, RestingState, RoundInv
<1>10. ASSUME NEW b \in Heard, Hear(b) \/ Miss(b)
       PROVE  RoundInv'
  BY <1>10 DEF Hear, Miss, RoundInv
<1> QED
  BY <1>1, <1>2, <1>3, <1>4, <1>5, <1>6, <1>7, <1>8, <1>9, <1>10 DEF Next, Thread

(***************************************************************************)
(* Where the role is given once, a successful update moves the node to     *)
(* another round: what ends the relaying of a round between neighbours.    *)
(***************************************************************************)
THEOREM UpdateChangesRound ==
  ASSUME MaxSetRole <= 1
  PROVE  Spec => AdoptsAnotherRound
<1>1. Init => RoundInv
  BY DEF Init, RoundInv
<1>2. TypeInv /\ OneRoleInv /\ RoundInv /\ [Next]_vars => RoundInv'
  <2>1. ASSUME RoundInv, UNCHANGED vars PROVE RoundInv'
    BY <2>1 DEF RoundInv, vars, smVars, threadVars, roundVars
  <2> QED
    BY <2>1, RoundInvStep
<1>3. TypeInv /\ RoundInv /\ [Next]_vars
        => [pc = "dispatch" /\ pc' = "update_success"
              => current_round_id' # current_round_id]_vars
  <2> SUFFICES ASSUME TypeInv, RoundInv, Next, pc = "dispatch", pc' = "update_success"
               PROVE  current_round_id' # current_round_id
    OBVIOUS
  <2>1. CASE Thread
    <3>1. UpdateHandler
      BY <2>1 DEF Thread, Start, TakeRole, Poll, TakeNewSync, TakeMsg, AnnounceSync, StoreMsg,
                  TakeEndSync, WaitHandler, IdleHandler, AnnounceUpdate, AdvHandler,
                  SetDataFails, AdvStartFails, Send, NextPacket, EndBurst, SleepOver, Run,
                  TypeInv, TypeOK
    <3> QED
      BY <3>1 DEF UpdateHandler, RoundInv
  <2>2. CASE ~Thread
    <3>1. UNCHANGED pc
      BY <2>2 DEF Next, TimerFires, AdvSent, SetRole, SetEpoch, StartNetSync, Hear, Miss,
                  threadVars
    <3> QED
      BY <3>1
  <2> QED
    BY <2>1, <2>2
<1> QED
  BY <1>1, <1>2, <1>3, TypeInvariant, OneRoleInvariant, PTL DEF Spec, AdoptsAnotherRound

-----------------------------------------------------------------------------
(* The advertising burst. *)

(***************************************************************************)
(* While every advertising event ends within the sleep that follows it,    *)
(* nothing is in flight outside the sleep, timeslot_index counts at most   *)
(* the packets begun, and the ticks below it are those of this burst's     *)
(* packets, in order.                                                      *)
(***************************************************************************)
BurstInv ==
  /\ pc # "sleep" => inflight = Nothing
  /\ pc = "send" => timeslot_index <= sent
  /\ pc = "sleep" => timeslot_index <= IF inflight = Nothing THEN sent + 1 ELSE sent
  /\ pc \in {"send", "sleep"} =>
       /\ burst > 0
       /\ \A k \in Slots : k < timeslot_index => local.ticks[k] = OwnStamp(burst, k)
  /\ inflight # Nothing => inflight.slot = timeslot_index /\ inflight.burst = burst
  /\ FollowUp

LEMMA BurstInvStep ==
  ASSUME "late_sent" \notin Faults, TypeInv, BurstInv, Next
  PROVE  BurstInv'
<1> USE DEF smVars, threadVars, kernelVars, roundVars, burstVars, historyVars, radioVars,
            appVars
<1>1. CASE Start \/ TakeRole \/ Poll \/ TakeNewSync \/ TakeMsg \/ AnnounceSync \/ StoreMsg
           \/ TakeEndSync \/ WaitHandler \/ IdleHandler \/ UpdateHandler \/ AnnounceUpdate
  <2>1. pc' \notin {"send", "sleep"} /\ pc # "sleep" /\ UNCHANGED inflight
    BY <1>1 DEF Start, TakeRole, Poll, TakeNewSync, TakeMsg, AnnounceSync, StoreMsg,
                TakeEndSync, WaitHandler, IdleHandler, UpdateHandler, AnnounceUpdate, Run,
                TypeInv, TypeOK
  <2>2. inflight' = Nothing
    BY <2>1 DEF BurstInv
  <2> QED
    BY <2>1, <2>2 DEF BurstInv, FollowUp, Nothing
<1>2. CASE AdvHandler
  <2>1. /\ pc' = "send" /\ inflight' = Nothing /\ timeslot_index' = 0 /\ sent' = 0
        /\ burst' > 0
    BY <1>2 DEF AdvHandler, ResetParam, BurstInv, TypeInv, TypeOK
  <2>2. \A k \in Slots : ~(k < timeslot_index')
    BY <2>1 DEF Slots
  <2> QED
    BY <2>1, <2>2 DEF BurstInv, FollowUp, Nothing
<1>3. CASE SetDataFails
  <2>1. /\ pc = "send" /\ pc' = "sleep"
        /\ UNCHANGED <<inflight, timeslot_index, sent, burst, local>>
    BY <1>3 DEF SetDataFails
  <2> QED
    BY <2>1 DEF BurstInv, FollowUp, TypeInv, TypeOK
<1>4. CASE AdvStartFails
  <2>1. /\ pc = "send" /\ pc' = "sleep" /\ inflight' = inflight
        /\ UNCHANGED <<timeslot_index, sent, burst, local>>
    BY <1>4 DEF AdvStartFails, BurstInv
  <2> QED
    BY <2>1 DEF BurstInv, FollowUp, TypeInv, TypeOK
<1>5. CASE Send
  <2>1. /\ pc = "send" /\ pc' = "sleep" /\ inflight' = NextOwnPacket
        /\ UNCHANGED <<timeslot_index, sent, burst, local>>
    BY <1>5 DEF Send
  <2>2. /\ inflight'.slot = timeslot_index /\ inflight'.burst = burst
        /\ inflight'.ticks = TicksBefore(timeslot_index)
    BY <2>1 DEF NextOwnPacket
  <2>3. timeslot_index > 0
          => TicksBefore(timeslot_index) = OwnStamp(burst, timeslot_index - 1)
    <3>1. timeslot_index \in Nat /\ sent \in 0 .. SlotNumber /\ timeslot_index <= sent
      BY <2>1 DEF BurstInv, TypeInv, TypeOK
    <3>2. ASSUME timeslot_index > 0
          PROVE  timeslot_index - 1 \in Slots
      BY <3>1, <3>2, SizesAssumption DEF Slots
    <3> QED
      BY <2>1, <3>1, <3>2 DEF TicksBefore, BurstInv
  <2>4. FollowUp'
    BY <2>1, <2>2, <2>3 DEF FollowUp
  <2> QED
    BY <2>1, <2>2, <2>4 DEF BurstInv, TypeInv, TypeOK
<1>6. CASE NextPacket
  <2>1. /\ pc = "sleep" /\ pc' = "send" /\ inflight = Nothing /\ sent' = sent + 1
        /\ UNCHANGED <<inflight, timeslot_index, burst, local>>
    BY <1>6 DEF NextPacket, SleepOver
  <2> QED
    BY <2>1 DEF BurstInv, FollowUp
<1>7. CASE EndBurst
  <2>1. inflight = Nothing /\ pc' = "dispatch" /\ UNCHANGED inflight
    BY <1>7 DEF EndBurst, SleepOver, Run
  <2> QED
    BY <2>1 DEF BurstInv, FollowUp, Nothing
<1>8. ASSUME NEW num_sent \in {0, 1}, AdvSent(num_sent)
      PROVE  BurstInv'
  <2>1. /\ inflight # Nothing /\ pc = "sleep" /\ inflight' = Nothing
        /\ timeslot_index' = timeslot_index + num_sent
        /\ UNCHANGED <<pc, sent, burst>>
    BY <1>8 DEF AdvSent, BurstInv
  <2>2. /\ inflight.slot = timeslot_index /\ inflight.burst = burst /\ burst > 0
        /\ timeslot_index <= sent /\ timeslot_index \in Nat /\ sent \in Nat
    BY <2>1 DEF BurstInv, TypeInv, TypeOK
  <2>3. ASSUME NEW k \in Slots, k < timeslot_index'
        PROVE  local'.ticks[k] = OwnStamp(burst, k)
    <3>1. local.ticks \in [Slots -> Stamp] /\ local = [ticks |-> local.ticks, bits |-> local.bits]
      BY DEF TypeInv, TypeOK, Timestamps
    <3>2. CASE k = timeslot_index
      <4>1. num_sent = 1 /\ timeslot_index \in Slots
        BY <2>1, <2>2, <2>3, <3>2
      <4>2. local' = [local EXCEPT !.ticks[timeslot_index]
                                     = OwnStamp(inflight.burst, inflight.slot)]
        BY <1>8, <4>1 DEF AdvSent
      <4> QED
        BY <2>2, <3>1, <3>2, <4>1, <4>2
    <3>3. CASE k # timeslot_index
      <4>1. k < timeslot_index
        BY <2>1, <2>2, <2>3, <3>3 DEF Slots
      <4>2. local'.ticks[k] = local.ticks[k]
        BY <1>8, <3>1, <3>3 DEF AdvSent
      <4> QED
        BY <2>1, <4>1, <4>2 DEF BurstInv
    <3> QED
      BY <3>2, <3>3
  <2> QED
    BY <2>1, <2>2, <2>3 DEF BurstInv, FollowUp, Nothing
<1>9. CASE TimerFires \/ SetEpoch \/ StartNetSync
  BY <1>9 DEF TimerFires, SetEpoch, StartNetSync, BurstInv, FollowUp
<1>10. ASSUME NEW r \in RolesGiven, SetRole(r)
       PROVE  BurstInv'
  BY <1>10 DEF SetRole, BurstInv, FollowUp
<1>11. ASSUME NEW b \in Heard, Hear(b) \/ Miss(b)
       PROVE  BurstInv'
  BY <1>11 DEF Hear, Miss, BurstInv, FollowUp
<1> QED
  BY <1>1, <1>2, <1>3, <1>4, <1>5, <1>6, <1>7, <1>8, <1>9, <1>10, <1>11 DEF Next, Thread

LEMMA BurstInvariant ==
  ASSUME "late_sent" \notin Faults
  PROVE  Spec => []BurstInv
<1>1. Init => BurstInv
  BY DEF Init, BurstInv, FollowUp, Nothing
<1>2. TypeInv /\ BurstInv /\ [Next]_vars => BurstInv'
  <2>1. ASSUME BurstInv, UNCHANGED vars PROVE BurstInv'
    BY <2>1 DEF BurstInv, FollowUp, vars, threadVars, burstVars, radioVars
  <2> QED
    BY <2>1, BurstInvStep
<1> QED
  BY <1>1, <1>2, TypeInvariant, PTL DEF Spec

(***************************************************************************)
(* While no sent callback is later than the sleep, every packet carries    *)
(* the time its predecessor of the same burst left, through refused data,  *)
(* refused starts, events without a transmission and changes of role.      *)
(***************************************************************************)
THEOREM PacketsFollowUp ==
  ASSUME "late_sent" \notin Faults
  PROVE  Spec => []FollowUp
<1>1. BurstInv => FollowUp
  BY DEF BurstInv
<1> QED
  BY <1>1, BurstInvariant, PTL

(***************************************************************************)
(* While no sent callback is later than the sleep, bluesync_send_adv stays *)
(* within timer_ticks[].                                                   *)
(***************************************************************************)
THEOREM SendInBounds ==
  ASSUME "late_sent" \notin Faults
  PROVE  Spec => []SlotInBounds
<1>1. TypeInv /\ BurstInv => SlotInBounds
  BY SizesAssumption DEF TypeInv, TypeOK, BurstInv, SlotInBounds
<1> QED
  BY <1>1, TypeInvariant, BurstInvariant, PTL

-----------------------------------------------------------------------------
(* Requests and the burst that answers them. *)

(* A request the thread has not taken yet, or that is being made. *)
Pending == start_new_sync_sem \/ "new_sync" \in ready \/ app # "idle"

(* The thread is about to begin a burst. *)
AboutToBurst == pc = "update_success" \/ (pc = "dispatch" /\ state = "BS_ADV")

(* What left, and what is leaving, is of the round and the epoch in force. *)
BurstIsCurrent ==
  /\ \A p \in aired : p = <<current_round_id, epoch>>
  /\ inflight # Nothing => inflight.round = current_round_id

(***************************************************************************)
(* Only an authority has requests to take, and as long as the burst is not *)
(* of the round and the epoch in force another one is to come.             *)
(***************************************************************************)
AnnounceInv ==
  /\ start_new_sync_sem \/ "new_sync" \in ready => role = "AUTHORITY"
  /\ Pending \/ AboutToBurst \/ BurstIsCurrent

LEMMA RequestEdge ==
  ASSUME NEW s \in {"BS_STOP", "BS_ADV"}
  PROVE  transition("AUTHORITY", s, "EVENT_NEW_NET_SYNC") = "BS_ADV"
BY DEF transition

LEMMA AnnounceInvStep ==
  ASSUME MaxSetRole <= 1, "late_sent" \notin Faults,
         TypeInv, OneRoleInv, BurstInv, AnnounceInv, Next
  PROVE  AnnounceInv'
<1> USE DEF smVars, threadVars, kernelVars, roundVars, burstVars, historyVars, radioVars,
            appVars
<1>1. CASE Start \/ TakeMsg \/ StoreMsg \/ WaitHandler \/ IdleHandler \/ SetDataFails
           \/ NextPacket
  <2>1. /\ UNCHANGED <<role, start_new_sync_sem, app, aired, current_round_id, epoch,
                       inflight>>
        /\ "new_sync" \in ready' <=> "new_sync" \in ready
        /\ ~AboutToBurst
    BY <1>1 DEF Start, TakeMsg, StoreMsg, WaitHandler, IdleHandler, SetDataFails, NextPacket,
                SleepOver, AboutToBurst
  <2> QED
    BY <2>1 DEF AnnounceInv, Pending, BurstIsCurrent
<1>2. CASE TakeRole \/ AnnounceSync \/ TakeEndSync \/ EndBurst
  <2>1. /\ UNCHANGED <<role, start_new_sync_sem, app, aired, current_round_id, epoch,
                       inflight>>
        /\ "new_sync" \in ready' <=> "new_sync" \in ready
        /\ ~AboutToBurst
    BY <1>2 DEF TakeRole, AnnounceSync, TakeEndSync, EndBurst, SleepOver, Run, AboutToBurst
  <2> QED
    BY <2>1 DEF AnnounceInv, Pending, BurstIsCurrent
<1>3. CASE Poll
  <2>1. /\ UNCHANGED <<role, start_new_sync_sem, app, aired, current_round_id, epoch,
                       inflight>>
        /\ "new_sync" \in ready' <=> start_new_sync_sem
        /\ "new_sync" \notin ready /\ ~AboutToBurst
    BY <1>3 DEF Poll, Available, AboutToBurst
  <2> QED
    BY <2>1 DEF AnnounceInv, Pending, BurstIsCurrent
<1>4. CASE TakeNewSync
  <2>1. /\ "new_sync" \in ready /\ "new_sync" \notin ready' /\ ~start_new_sync_sem'
        /\ pc' = "dispatch" /\ state' = transition(role, state, "EVENT_NEW_NET_SYNC")
    BY <1>4 DEF TakeNewSync, Run
  <2>2. role = "AUTHORITY" /\ state \in {"BS_STOP", "BS_ADV"}
    BY <2>1 DEF AnnounceInv, OneRoleInv
  <2>3. state' = "BS_ADV"
    BY <2>1, <2>2, RequestEdge
  <2> QED
    BY <2>1, <2>3 DEF AnnounceInv, AboutToBurst
<1>5. CASE UpdateHandler
  <2>1. UNCHANGED <<role, start_new_sync_sem, ready, app, aired, epoch, inflight>>
    BY <1>5 DEF UpdateHandler
  <2>2. ~AboutToBurst
    BY <1>5 DEF UpdateHandler, AboutToBurst
  <2>3. pc' = "update_success" \/ UNCHANGED current_round_id
    BY <1>5 DEF UpdateHandler
  <2> QED
    BY <2>1, <2>2, <2>3 DEF AnnounceInv, Pending, AboutToBurst, BurstIsCurrent
<1>6. CASE AnnounceUpdate
  <2>1. UNCHANGED <<role, start_new_sync_sem, ready, app, aired, current_round_id, epoch,
                    inflight>>
    BY <1>6 DEF AnnounceUpdate, Run
  <2>2. CASE pc = "update_success"
    <3>1. state = "BS_UPDATE" /\ pc' = "dispatch"
          /\ state' = transition(role, state, "EVENT_UPDATE_SUCCESS")
      BY <1>6, <2>2 DEF AnnounceUpdate, Run, OneRoleInv
    <3>2. state' = "BS_ADV"
      BY <3>1, TransitionEdges
    <3> QED
      BY <2>1, <3>1, <3>2 DEF AnnounceInv, AboutToBurst
  <2>3. CASE pc # "update_success"
    BY <1>6, <2>1, <2>3 DEF AnnounceUpdate, AnnounceInv, Pending, AboutToBurst, BurstIsCurrent
  <2> QED
    BY <2>2, <2>3
<1>7. CASE AdvHandler
  <2>1. /\ aired' = {} /\ pc = "dispatch"
        /\ UNCHANGED <<role, start_new_sync_sem, ready, inflight>>
    BY <1>7 DEF AdvHandler
  <2>2. inflight' = Nothing
    BY <2>1 DEF BurstInv
  <2> QED
    BY <2>1, <2>2 DEF AnnounceInv, BurstIsCurrent
<1>8. CASE AdvStartFails \/ Send
  <2>1. /\ UNCHANGED <<role, start_new_sync_sem, ready, app, aired, current_round_id, epoch>>
        /\ pc = "send"
        /\ inflight' = inflight \/ inflight' = NextOwnPacket
    BY <1>8 DEF AdvStartFails, Send
  <2>2. NextOwnPacket.round = current_round_id
    BY DEF NextOwnPacket
  <2> QED
    BY <2>1, <2>2 DEF AnnounceInv, Pending, AboutToBurst, BurstIsCurrent
<1>9. CASE TimerFires
  BY <1>9 DEF TimerFires, AnnounceInv, Pending, AboutToBurst, BurstIsCurrent
<1>10. ASSUME NEW num_sent \in {0, 1}, AdvSent(num_sent)
       PROVE  AnnounceInv'
  <2>1. /\ UNCHANGED <<role, state, pc, start_new_sync_sem, ready, app, current_round_id,
                       epoch>>
        /\ inflight # Nothing /\ inflight' = Nothing
        /\ aired' \subseteq aired \cup {<<inflight.round, epoch>>}
    BY <1>10 DEF AdvSent
  <2>2. BurstIsCurrent => BurstIsCurrent'
    BY <2>1 DEF BurstIsCurrent
  <2> QED
    BY <2>1, <2>2 DEF AnnounceInv, Pending, AboutToBurst
<1>11. ASSUME NEW r \in RolesGiven, SetRole(r)
       PROVE  AnnounceInv'
  <2>1. /\ set_roles = 0
        /\ UNCHANGED <<pc, start_new_sync_sem, ready, app, aired, current_round_id, epoch,
                       inflight>>
    BY <1>11, BoundsAssumption DEF SetRole, TypeInv, TypeOK
  <2>2. pc \in {"start", "role_wait"} /\ role # "AUTHORITY"
    BY <2>1 DEF OneRoleInv
  <2> QED
    BY <2>1, <2>2 DEF AnnounceInv, Pending, AboutToBurst, BurstIsCurrent
<1>12. CASE SetEpoch
  BY <1>12 DEF SetEpoch, AnnounceInv, Pending
<1>13. CASE StartNetSync
  BY <1>13 DEF StartNetSync, AnnounceInv, Pending
<1>14. ASSUME NEW b \in Heard, Hear(b) \/ Miss(b)
       PROVE  AnnounceInv'
  BY <1>14 DEF Hear, Miss, AnnounceInv, Pending, AboutToBurst, BurstIsCurrent
<1> QED
  BY <1>1, <1>2, <1>3, <1>4, <1>5, <1>6, <1>7, <1>8, <1>9, <1>10, <1>11, <1>12, <1>13, <1>14
     DEF Next, Thread

(***************************************************************************)
(* Where the role is given once and sent events are in time, a thread that *)
(* has no request left has announced, in every packet of its latest burst  *)
(* that left, the round and the epoch in force: however many requests      *)
(* bluesync_start_net_sync coalesces in its semaphore inside a burst, the  *)
(* burst that follows is of the last one.                                  *)
(***************************************************************************)
THEOREM LatestRoundIsAnnounced ==
  ASSUME MaxSetRole <= 1, "late_sent" \notin Faults
  PROVE  Spec => []RoundAnnounced
<1>1. Init => AnnounceInv
  BY DEF Init, AnnounceInv, BurstIsCurrent
<1>2. TypeInv /\ OneRoleInv /\ BurstInv /\ AnnounceInv /\ [Next]_vars => AnnounceInv'
  <2>1. ASSUME AnnounceInv, UNCHANGED vars PROVE AnnounceInv'
    BY <2>1 DEF AnnounceInv, Pending, AboutToBurst, BurstIsCurrent, vars, smVars, threadVars,
                kernelVars, roundVars, radioVars, appVars
  <2> QED
    BY <2>1, AnnounceInvStep
<1>3. AnnounceInv => RoundAnnounced
  BY DEF AnnounceInv, Pending, AboutToBurst, BurstIsCurrent, RoundAnnounced, Settled
<1>4. (Spec => []OneRoleInv) /\ (Spec => []BurstInv)
  BY OneRoleInvariant, BurstInvariant
<1> QED
  BY <1>1, <1>2, <1>3, <1>4, TypeInvariant, PTL DEF Spec

-----------------------------------------------------------------------------
(* Listening. *)

(***************************************************************************)
(* The mesh's scanner is off only while a packet is in flight; the scan    *)
(* callback is registered from the handler of the waiting state on, and    *)
(* until bs_update_handler.                                                *)
(***************************************************************************)
ListenInv ==
  /\ inflight = Nothing => mesh_scan
  /\ state = "BS_SYNC" => scanning
  /\ state = "BS_SCAN_WAIT_FOR_SYNC" /\ pc \in {"loop", "received", "store"} => scanning

LEMMA ListenInvStep ==
  ASSUME MaxSetRole <= 1, Faults \subseteq {"set_data", "not_sent", "scan_stop"},
         TypeInv, OneRoleInv, BurstInv, ListenInv, Next
  PROVE  ListenInv'
<1> USE DEF smVars, threadVars, kernelVars, roundVars, burstVars, historyVars, radioVars,
            appVars
<1>1. CASE Start \/ Poll \/ StoreMsg \/ TakeMsg \/ SetDataFails \/ NextPacket \/ AdvHandler
  <2>1. /\ UNCHANGED <<state, scanning, mesh_scan, inflight>>
        /\ pc' \in {"loop", "received", "store"} => pc \in {"loop", "received", "store"}
    BY <1>1 DEF Start, Poll, StoreMsg, TakeMsg, SetDataFails, NextPacket, AdvHandler
  <2> QED
    BY <2>1 DEF ListenInv
<1>2. CASE TakeRole \/ TakeNewSync \/ AnnounceSync \/ TakeEndSync \/ AnnounceUpdate
           \/ EndBurst
  <2>1. PICK e : /\ state' = transition(role, state, e)
                 /\ e = "EVENT_NEW_SYNC_RCV" => pc = "received"
                 /\ pc' = "dispatch" /\ UNCHANGED <<scanning, mesh_scan, inflight>>
    BY <1>2 DEF TakeRole, TakeNewSync, AnnounceSync, TakeEndSync, AnnounceUpdate, EndBurst,
                Run
  <2>2. ASSUME state' = "BS_SYNC", state # "BS_SYNC"
        PROVE  pc = "received" /\ state = "BS_SCAN_WAIT_FOR_SYNC"
    <3>1. transition(role, state, e) = "BS_SYNC"
            => state = "BS_SYNC" \/ (state = "BS_SCAN_WAIT_FOR_SYNC"
                                      /\ e = "EVENT_NEW_SYNC_RCV")
      BY SyncEdges
    <3>2. transition(role, state, e) = "BS_SYNC"
      BY <2>1, <2>2
    <3> QED
      BY <2>1, <2>2, <3>1, <3>2
  <2> QED
    BY <2>1, <2>2 DEF ListenInv
<1>3. CASE WaitHandler
  <2>1. scanning' /\ UNCHANGED <<inflight, mesh_scan>>
    BY <1>3 DEF WaitHandler, ScanStart
  <2> QED
    BY <2>1 DEF ListenInv
<1>4. CASE IdleHandler
  <2>1. UNCHANGED <<state, scanning, mesh_scan, inflight>> /\ state # "BS_SCAN_WAIT_FOR_SYNC"
    BY <1>4 DEF IdleHandler
  <2> QED
    BY <2>1 DEF ListenInv
<1>5. CASE UpdateHandler
  <2>1. state' = "BS_UPDATE" /\ UNCHANGED <<inflight, mesh_scan>>
    BY <1>5 DEF UpdateHandler
  <2> QED
    BY <2>1 DEF ListenInv
<1>6. CASE AdvStartFails
  BY <1>6 DEF AdvStartFails, BurstInv
<1>7. CASE Send
  <2>1. inflight' # Nothing
    BY <1>7 DEF Send, NextOwnPacket, Nothing, BurstInv
  <2>2. pc' = "sleep" /\ UNCHANGED <<state, scanning>>
    BY <1>7 DEF Send
  <2> QED
    BY <2>1, <2>2 DEF ListenInv
<1>8. ASSUME NEW num_sent \in {0, 1}, AdvSent(num_sent)
      PROVE  ListenInv'
  BY <1>8 DEF AdvSent, ListenInv
<1>9. ASSUME NEW r \in RolesGiven, SetRole(r)
      PROVE  ListenInv'
  <2>1. set_roles = 0 /\ UNCHANGED <<pc, mesh_scan, inflight>>
    BY <1>9, BoundsAssumption DEF SetRole, TypeInv, TypeOK
  <2>2. state' # "BS_SYNC"
    BY <1>9 DEF SetRole, RestingState
  <2> QED
    BY <2>1, <2>2 DEF ListenInv, OneRoleInv
<1>10. CASE TimerFires \/ SetEpoch \/ StartNetSync
  BY <1>10 DEF TimerFires, SetEpoch, StartNetSync, ListenInv
<1>11. ASSUME NEW b \in Heard, Hear(b) \/ Miss(b)
       PROVE  ListenInv'
  BY <1>11 DEF Hear, Miss, ListenInv
<1> QED
  BY <1>1, <1>2, <1>3, <1>4, <1>5, <1>6, <1>7, <1>8, <1>9, <1>10, <1>11 DEF Next, Thread

(***************************************************************************)
(* Where the role is given once and the radio accepts the starts of        *)
(* scanning and advertising, a node that waits for a burst hears the air.  *)
(* scanner_left_off and role_reassigned show that both are needed.         *)
(***************************************************************************)
THEOREM WaitingNodeListens ==
  ASSUME MaxSetRole <= 1, Faults \subseteq {"set_data", "not_sent", "scan_stop"}
  PROVE  Spec => []ListensWhileWaiting
<1>1. Init => ListenInv
  BY DEF Init, ListenInv
<1>2. TypeInv /\ OneRoleInv /\ BurstInv /\ ListenInv /\ [Next]_vars => ListenInv'
  <2>1. ASSUME ListenInv, UNCHANGED vars PROVE ListenInv'
    BY <2>1 DEF ListenInv, vars, smVars, threadVars, radioVars
  <2> QED
    BY <2>1, ListenInvStep
<1>3. TypeInv /\ BurstInv /\ ListenInv => ListensWhileWaiting
  BY SwitchesAssumption DEF TypeInv, TypeOK, BurstInv, ListenInv, ListensWhileWaiting, Listening
<1>4. "late_sent" \notin Faults
  OBVIOUS
<1>5. (Spec => []BurstInv) /\ (Spec => []OneRoleInv)
  BY <1>4, BurstInvariant, OneRoleInvariant
<1> QED
  BY <1>1, <1>2, <1>3, <1>5, TypeInvariant, PTL DEF Spec

-----------------------------------------------------------------------------
(* A node the application never makes the authority. *)

(* A node that is only ever made a client has neither the role nor the rest *)
(* state of the authority. *)
NoAuthorityInv == role # "AUTHORITY" /\ state # "BS_STOP"

LEMMA RestingClient ==
  ASSUME NEW r, r # "AUTHORITY"
  PROVE  RestingState(r) # "BS_STOP"
BY DEF RestingState

LEMMA NoAuthorityEdges ==
  ASSUME NoAuthorityInv, NEW e
  PROVE  transition(role, state, e) # "BS_STOP"
BY RestingClient DEF transition, NoAuthorityInv

LEMMA NoAuthorityStep ==
  ASSUME "AUTHORITY" \notin RolesGiven, TypeInv, NoAuthorityInv, Next
  PROVE  NoAuthorityInv'
<1>1. CASE TakeRole \/ TakeNewSync \/ AnnounceSync \/ TakeEndSync \/ AnnounceUpdate
           \/ EndBurst
  <2>1. PICK e : state' = transition(role, state, e) /\ UNCHANGED role
    BY <1>1 DEF TakeRole, TakeNewSync, AnnounceSync, TakeEndSync, AnnounceUpdate, EndBurst, Run
  <2> QED
    BY <2>1, NoAuthorityEdges DEF NoAuthorityInv
<1>2. ASSUME NEW r \in RolesGiven, SetRole(r)
      PROVE  NoAuthorityInv'
  BY <1>2, RestingClient DEF SetRole, NoAuthorityInv
<1>3. CASE UNCHANGED smVars
  BY <1>3 DEF smVars, NoAuthorityInv
<1>4. CASE Start \/ Poll \/ TakeMsg \/ StoreMsg \/ WaitHandler \/ IdleHandler
           \/ UpdateHandler \/ AdvHandler \/ SetDataFails \/ AdvStartFails \/ Send
           \/ NextPacket \/ TimerFires \/ SetEpoch \/ StartNetSync
  BY <1>3, <1>4 DEF Start, Poll, TakeMsg, StoreMsg, WaitHandler, IdleHandler, UpdateHandler,
                    AdvHandler, SetDataFails, AdvStartFails, Send, NextPacket, TimerFires,
                    SetEpoch, StartNetSync
<1>5. ASSUME NEW n \in {0, 1}, AdvSent(n)
      PROVE  NoAuthorityInv'
  BY <1>3, <1>5 DEF AdvSent
<1>6. ASSUME NEW b \in Heard, Hear(b) \/ Miss(b)
      PROVE  NoAuthorityInv'
  BY <1>3, <1>6 DEF Hear, Miss
<1> QED
  BY <1>1, <1>2, <1>4, <1>5, <1>6 DEF Next, Thread

LEMMA NoAuthorityInvariant ==
  ASSUME "AUTHORITY" \notin RolesGiven
  PROVE  Spec => []NoAuthorityInv
<1>1. Init => NoAuthorityInv
  BY DEF Init, NoAuthorityInv
<1>2. TypeInv /\ NoAuthorityInv /\ [Next]_vars => NoAuthorityInv'
  <2>1. ASSUME NoAuthorityInv, UNCHANGED vars PROVE NoAuthorityInv'
    BY <2>1 DEF NoAuthorityInv, vars, smVars
  <2> QED
    BY <2>1, NoAuthorityStep
<1> QED
  BY <1>1, <1>2, TypeInvariant, PTL DEF Spec

-----------------------------------------------------------------------------
(* A node that has synchronised, and one that has not. *)

(* An authority never waits for a burst, and is not given another role. *)
AuthorityInv ==
  role = "AUTHORITY" => state \in {"BS_STOP", "BS_ADV"} /\ set_roles >= MaxSetRole

LEMMA AuthorityInvariant ==
  ASSUME MaxSetRole <= 1 \/ "AUTHORITY" \notin RolesGiven
  PROVE  Spec => []AuthorityInv
<1>1. CASE MaxSetRole <= 1
  <2>1. TypeInv /\ OneRoleInv => AuthorityInv
    BY <1>1, BoundsAssumption DEF TypeInv, TypeOK, OneRoleInv, AuthorityInv
  <2>2. Spec => []OneRoleInv
    BY <1>1, OneRoleInvariant
  <2> QED
    BY <2>1, <2>2, TypeInvariant, PTL
<1>2. CASE "AUTHORITY" \notin RolesGiven
  <2>1. NoAuthorityInv => AuthorityInv
    BY DEF NoAuthorityInv, AuthorityInv
  <2>2. Spec => []NoAuthorityInv
    BY <1>2, NoAuthorityInvariant
  <2> QED
    BY <2>1, <2>2, PTL
<1> QED
  BY <1>1, <1>2

(***************************************************************************)
(* A node that was fitted no line is on the round it was booted with, and  *)
(* no message carries that round.                                          *)
(***************************************************************************)
FreshInv ==
  /\ fit = {} /\ role # "AUTHORITY" => current_round_id = RoundIds - 1
  /\ \A k \in 1 .. Len(rx_msgq) : rx_msgq[k].round # RoundIds - 1

LEMMA FreshInvStep ==
  ASSUME \A b \in Heard : HeardRound[b] # RoundIds - 1,
         TypeInv, AuthorityInv, FreshInv, Next
  PROVE  FreshInv'
<1> USE DEF smVars, threadVars, kernelVars, roundVars, burstVars, historyVars, radioVars,
            appVars
<1>1. rx_msgq \in Seq(Message) /\ set_roles \in Nat
  BY DEF TypeInv, TypeOK
<1>2. ASSUME UNCHANGED <<fit, role, current_round_id, rx_msgq>> PROVE FreshInv'
  BY <1>2 DEF FreshInv
<1>3. CASE Start \/ TakeRole \/ Poll \/ TakeNewSync \/ AnnounceSync \/ StoreMsg \/ TakeEndSync
  BY <1>2, <1>3 DEF Start, TakeRole, Poll, TakeNewSync, AnnounceSync, StoreMsg, TakeEndSync, Run
<1>4. CASE TakeMsg
  <2>1. UNCHANGED <<fit, role, current_round_id>> /\ rx_msgq' = Tail(rx_msgq)
    BY <1>4 DEF TakeMsg
  <2>2. rx_msgq # <<>>
    BY <1>4 DEF TakeMsg, TypeInv
  <2>3. \A k \in 1 .. Len(rx_msgq') : k + 1 \in 1 .. Len(rx_msgq) /\ rx_msgq'[k] = rx_msgq[k + 1]
    BY <1>1, <2>1, <2>2
  <2> QED
    BY <2>1, <2>3 DEF FreshInv
<1>5. CASE UpdateHandler
  <2>1. UNCHANGED <<role, rx_msgq>>
    BY <1>5 DEF UpdateHandler
  <2>2. CASE UNCHANGED <<fit, current_round_id>>
    BY <1>2, <2>1, <2>2
  <2>3. CASE /\ LrStatus(rcv_history', local_history') = "SUCCESS"
             /\ fit' = Pairs(rcv_history', local_history')
    <3>1. Samples(rcv_history', local_history') # {}
      BY <2>3 DEF LrStatus
    <3>2. fit' # {}
      BY <2>3, <3>1 DEF Pairs
    <3> QED
      BY <2>1, <3>2 DEF FreshInv
  <2> QED
    BY <1>5, <2>2, <2>3 DEF UpdateHandler
<1>6. CASE WaitHandler \/ IdleHandler \/ AnnounceUpdate \/ AdvHandler \/ SetDataFails
           \/ AdvStartFails \/ Send \/ NextPacket \/ EndBurst
  BY <1>2, <1>6 DEF WaitHandler, IdleHandler, AnnounceUpdate, AdvHandler, SetDataFails,
                    AdvStartFails, Send, NextPacket, EndBurst, Run
<1>7. CASE TimerFires \/ (\E num_sent \in {0, 1} : AdvSent(num_sent)) \/ SetEpoch
  BY <1>2, <1>7 DEF TimerFires, AdvSent, SetEpoch
<1>8. ASSUME NEW r \in RolesGiven, SetRole(r) PROVE FreshInv'
  <2>1. UNCHANGED <<fit, current_round_id, rx_msgq>> /\ set_roles < MaxSetRole
    BY <1>8 DEF SetRole
  <2>2. role # "AUTHORITY"
    BY <1>1, <2>1, BoundsAssumption DEF AuthorityInv
  <2> QED
    BY <2>1, <2>2 DEF FreshInv
<1>9. CASE StartNetSync
  BY <1>9 DEF StartNetSync, FreshInv
<1>10. ASSUME NEW b \in Heard, Hear(b) PROVE FreshInv'
  <2>1. UNCHANGED <<fit, role, current_round_id>>
    BY <1>10 DEF Hear
  <2>2. CASE rx_msgq' = rx_msgq
    BY <1>2, <2>1, <2>2
  <2>3. CASE rx_msgq' = Append(rx_msgq, Packet(b, air[b]))
    <3>1. Packet(b, air[b]).round # RoundIds - 1
      BY DEF Packet
    <3>2. PICK m : m = Packet(b, air[b])
      OBVIOUS
    <3>3. \A k \in 1 .. Len(rx_msgq') :
            rx_msgq'[k] = m \/ (k \in 1 .. Len(rx_msgq) /\ rx_msgq'[k] = rx_msgq[k])
      BY <1>1, <2>3, <3>2
    <3> QED
      BY <2>1, <3>1, <3>2, <3>3 DEF FreshInv
  <2> QED
    BY <1>10, <2>2, <2>3 DEF Hear
<1>11. ASSUME NEW b \in Heard, Miss(b) PROVE FreshInv'
  BY <1>2, <1>11 DEF Miss
<1> QED
  BY <1>3, <1>4, <1>5, <1>6, <1>7, <1>8, <1>9, <1>10, <1>11 DEF Next, Thread

(***************************************************************************)
(* A node takes a message for one of a round it is already synchronised to *)
(* only when it has synchronised before, if no neighbour is on the round   *)
(* that a fresh node starts from (first_round_last_id shows that it errs   *)
(* otherwise) and an authority remains one (its rounds are not of a fit).  *)
(***************************************************************************)
THEOREM SkipIsOfSyncedNode ==
  ASSUME \A b \in Heard : HeardRound[b] # RoundIds - 1,
         MaxSetRole <= 1 \/ "AUTHORITY" \notin RolesGiven
  PROVE  Spec => SkipsOnlySynced
<1>1. Init => FreshInv
  BY DEF Init, FreshInv
<1>2. TypeInv /\ AuthorityInv /\ FreshInv /\ [Next]_vars => FreshInv'
  <2>1. ASSUME FreshInv, UNCHANGED vars PROVE FreshInv'
    BY <2>1 DEF FreshInv, vars, smVars, kernelVars, roundVars, historyVars
  <2> QED
    BY <2>1, FreshInvStep
<1>3. TypeInv /\ AuthorityInv /\ FreshInv /\ [Next]_vars
        => [pc = "loop" /\ pc' = "loop" /\ Len(rx_msgq') < Len(rx_msgq) => fit # {}]_vars
  <2> SUFFICES ASSUME TypeInv, AuthorityInv, FreshInv, Next,
                      pc = "loop", pc' = "loop", Len(rx_msgq') < Len(rx_msgq), fit = {}
               PROVE  FALSE
    OBVIOUS
  <2>1. rx_msgq \in Seq(Message)
    BY DEF TypeInv, TypeOK
  <2>2. CASE TakeMsg
    <3>1. state = "BS_SCAN_WAIT_FOR_SYNC" /\ Head(rx_msgq).round = current_round_id
      BY <2>2 DEF TakeMsg
    <3>2. current_round_id = RoundIds - 1
      BY <3>1 DEF AuthorityInv, FreshInv
    <3>3. rx_msgq # <<>>
      BY <2>2 DEF TakeMsg, TypeInv
    <3>4. 1 \in 1 .. Len(rx_msgq) /\ Head(rx_msgq) = rx_msgq[1]
      BY <2>1, <3>3
    <3> QED
      BY <3>1, <3>2, <3>4 DEF FreshInv
  <2>3. CASE Thread /\ ~TakeMsg
    <3>1. rx_msgq' = rx_msgq
      BY <2>3 DEF Thread, Start, TakeRole, Poll, TakeNewSync, AnnounceSync, StoreMsg,
                  TakeEndSync, WaitHandler, IdleHandler, UpdateHandler, AnnounceUpdate,
                  AdvHandler, SetDataFails, AdvStartFails, Send, NextPacket, EndBurst,
                  kernelVars
    <3> QED
      BY <2>1, <3>1
  <2>4. ASSUME NEW b \in Heard, Hear(b) PROVE FALSE
    <3>1. Len(Append(rx_msgq, Packet(b, air[b]))) = Len(rx_msgq) + 1 /\ Len(rx_msgq) \in Nat
      BY <2>1
    <3> QED
      BY <2>4, <3>1 DEF Hear
  <2>5. CASE ~Thread /\ ~ \E b \in Heard : Hear(b)
    <3>1. rx_msgq' = rx_msgq
      BY <2>5 DEF Next, TimerFires, AdvSent, SetRole, SetEpoch, StartNetSync, Miss, kernelVars
    <3> QED
      BY <2>1, <3>1
  <2> QED
    BY <2>2, <2>3, <2>4, <2>5
<1> QED
  BY <1>1, <1>2, <1>3, TypeInvariant, AuthorityInvariant, PTL DEF Spec, SkipsOnlySynced
=============================================================================
