------------------------ MODULE BluesyncPairsProofs ------------------------
(***************************************************************************)
(* The samples of the regression: where the neighbours' bursts do not      *)
(* overlap, every sample pairs two timestamps of one and the same packet.  *)
(***************************************************************************)
EXTENDS BluesyncProofs

-----------------------------------------------------------------------------
(* The inductive invariant. *)

(* The latest burst the neighbours have begun: every message is one of its packets. *)
Latest(b) == air[b] > 0 /\ \A c \in Heard : c > b => air[c] = 0

LatestPackets ==
  {Packet(b, i) : b \in {c \in Heard : Latest(c)}, i \in 0 .. SlotNumber}

(* A burst begins when all the earlier ones are over. *)
AirInv ==
  \A b, c \in Heard : c < b /\ air[b] > 0 => air[c] = SlotNumber + 1

(* Packets in the queue, and the one the thread has taken and will store. *)
QueueInv == rx_msgq \in Seq(LatestPackets)

Taken == pc \in {"received", "store"} \/ (pc = "dispatch" /\ resume = "store")
MsgInv == Taken => msg \in LatestPackets

(* Only a client scans, and stores messages only while it synchronises. *)
ClientInv ==
  /\ role = "NONE" => set_roles = 0
  /\ pc \in {"send", "sleep"} => state # "BS_SYNC"
  /\ scanning \/ rx_msgq # <<>> => role = "CLIENT"
  /\ role = "CLIENT" => state \in {"BS_SCAN_WAIT_FOR_SYNC", "BS_SYNC", "BS_UPDATE", "BS_ADV"}
  /\ state = "BS_ADV" => pc \in {"dispatch", "send", "sleep"}
  /\ pc = "store" => state = "BS_SYNC"
  /\ resume = "store" /\ pc \in {"dispatch", "update_success", "update_failed", "send", "sleep"}
       => pc = "dispatch" /\ state = "BS_SYNC"

(* The slots filled since the last reset hold times of the latest burst. *)
Filled == local.bits \cup rcv.bits # {}
SlotsInv ==
  /\ Filled => \/ state \in {"BS_SYNC", "BS_UPDATE"}
               \/ pc = "dispatch" /\ state \in {"BS_SCAN_WAIT_FOR_SYNC", "BS_ADV"}
  /\ \A b \in Heard : Latest(b) =>
       /\ \A s \in local.bits : local.ticks[s] = HeardStamp(b, s)
       /\ \A s \in rcv.bits : rcv.ticks[s] = HeardStamp(b, s)
  /\ Filled => \E b \in Heard : Latest(b)

(* The two rings turn together, and their bursts match slot by slot. *)
Matching(remote, own) ==
  \A s \in remote.bits \cap own.bits : own.ticks[s] = remote.ticks[s]
HistoryInv ==
  /\ rcv_history.head = local_history.head
  /\ \A k \in 0 .. WindowSize - 1 :
       Matching(rcv_history.bursts[k], local_history.bursts[k])
  /\ PairsMatch

PairsInv ==
  AirInv /\ QueueInv /\ MsgInv /\ ClientInv /\ SlotsInv /\ HistoryInv

(* What the theorem assumes of the surroundings. *)
Separate == ~Overlap /\ MaxSetRole <= 1 /\ "late_sent" \notin Faults

-----------------------------------------------------------------------------
(* The air. *)

LEMMA LatestIsOne ==
  ASSUME TypeInv, NEW b \in Heard, NEW c \in Heard, Latest(b), Latest(c)
  PROVE  b = c
<1>1. b \in Nat /\ c \in Nat
  BY HeardAssumption
<1> QED
  BY <1>1 DEF Latest

LEMMA AirStep ==
  ASSUME Separate, TypeInv, AirInv, NEW b \in Heard, OnAir(b)
  PROVE  /\ AirInv'
         /\ Latest(b)' /\ air[b] \in 0 .. SlotNumber
         /\ air[b] = 0 => Quiet
         /\ air[b] > 0 => \A c \in Heard : Latest(c)' <=> Latest(c)
<1>1. /\ Heard \subseteq Nat /\ SlotNumber \in Nat /\ b \in Nat
      /\ \A c \in Heard : air[c] \in 0 .. SlotNumber + 1
  BY HeardAssumption, SizesAssumption DEF TypeInv, TypeOK
<1>2. /\ air[b] <= SlotNumber /\ air'[b] = air[b] + 1
      /\ \A c \in Heard : c # b => air'[c] = air[c]
  BY DEF OnAir, TypeInv, TypeOK
<1>3. air[b] = 0 => Quiet /\ \A c \in Heard : c < b => air[c] = SlotNumber + 1
  BY DEF OnAir, Separate
<1>4. \A c \in Heard : c > b => air[c] = 0
  BY <1>1, <1>2 DEF AirInv
<1>5. AirInv'
  <2> SUFFICES ASSUME NEW x \in Heard, NEW y \in Heard, y < x, air'[x] > 0
               PROVE  air'[y] = SlotNumber + 1
    BY DEF AirInv
  <2>1. CASE x = b
    <3>1. air[y] = SlotNumber + 1
      BY <1>1, <1>3, <2>1 DEF AirInv
    <3> QED
      BY <1>1, <1>2, <2>1, <3>1
  <2>2. CASE x # b
    <3>1. air[y] = SlotNumber + 1
      BY <1>1, <1>2, <2>2 DEF AirInv
    <3> QED
      BY <1>1, <1>2, <3>1
  <2> QED
    BY <2>1, <2>2
<1>6. Latest(b)'
  BY <1>1, <1>2, <1>4 DEF Latest
<1>7. ASSUME air[b] > 0, NEW c \in Heard
      PROVE  Latest(c)' <=> Latest(c)
  BY <1>1, <1>2, <1>4, <1>7 DEF Latest
<1> QED
  BY <1>1, <1>2, <1>3, <1>5, <1>6, <1>7

(* Steps other than those of the neighbours leave the air alone. *)
LEMMA AirUnchanged ==
  ASSUME Next, ~ \E b \in Heard : Hear(b) \/ Miss(b)
  PROVE  UNCHANGED air
<1>1. CASE Thread
  BY <1>1 DEF Thread, Start, TakeRole, Poll, TakeNewSync, TakeMsg, AnnounceSync, StoreMsg,
              TakeEndSync, WaitHandler, IdleHandler, UpdateHandler, AnnounceUpdate, AdvHandler,
              SetDataFails, AdvStartFails, Send, NextPacket, EndBurst
<1>2. CASE ~Thread
  BY <1>2 DEF Next, TimerFires, AdvSent, SetRole, SetEpoch, StartNetSync
<1> QED
  BY <1>1, <1>2

LEMMA AirInvStep ==
  ASSUME Separate, TypeInv, AirInv, Next
  PROVE  AirInv'
<1>1. ASSUME NEW b \in Heard, Hear(b) \/ Miss(b)
      PROVE  AirInv'
  BY <1>1, AirStep DEF Hear, Miss
<1>2. CASE ~ \E b \in Heard : Hear(b) \/ Miss(b)
  BY <1>2, AirUnchanged DEF AirInv
<1> QED
  BY <1>1, <1>2

(* The packets that may still be on their way change only when a new burst begins. *)
LEMMA PacketsStay ==
  ASSUME \A c \in Heard : Latest(c)' <=> Latest(c)
  PROVE  LatestPackets' = LatestPackets
<1>1. {c \in Heard : Latest(c)}' = {c \in Heard : Latest(c)}
  OBVIOUS
<1> QED
  BY <1>1 DEF LatestPackets, Packet, HeardStamp, NoStamp

LEMMA PacketsKept ==
  ASSUME Separate, TypeInv, AirInv, Next, ~Quiet
  PROVE  LatestPackets' = LatestPackets
<1>1. ASSUME NEW b \in Heard, Hear(b) \/ Miss(b)
      PROVE  \A c \in Heard : Latest(c)' <=> Latest(c)
  <2>1. OnAir(b)
    BY <1>1 DEF Hear, Miss
  <2>2. air[b] > 0
    BY <2>1, AirStep, SizesAssumption
  <2> QED
    BY <2>1, <2>2, AirStep
<1>2. CASE ~ \E b \in Heard : Hear(b) \/ Miss(b)
  <2>1. \A c \in Heard : Latest(c)' <=> Latest(c)
    BY <1>2, AirUnchanged DEF Latest
  <2> QED
    BY <2>1, PacketsStay
<1> QED
  BY <1>1, <1>2, PacketsStay

-----------------------------------------------------------------------------
(* The queue and the message taken from it. *)

LEMMA QueueInvStep ==
  ASSUME Separate, TypeInv, PairsInv, Next
  PROVE  QueueInv'
<1> USE DEF kernelVars
<1>1. rx_msgq = <<>> \/ LatestPackets' = LatestPackets
  BY PacketsKept DEF PairsInv, Quiet
<1>2. rx_msgq \in Seq(LatestPackets')
  BY <1>1 DEF PairsInv, QueueInv
<1>3. ASSUME NEW b \in Heard, Hear(b)
      PROVE  QueueInv'
  <2>1. Latest(b)' /\ air[b] \in 0 .. SlotNumber
    BY <1>3, AirStep DEF Hear, PairsInv
  <2>2. Packet(b, air[b]) \in LatestPackets'
    BY <2>1 DEF LatestPackets, Packet, HeardStamp, NoStamp
  <2>3. Append(rx_msgq, Packet(b, air[b])) \in Seq(LatestPackets')
    BY <1>2, <2>2, AppendProperties
  <2> QED
    BY <1>2, <1>3, <2>3 DEF Hear, QueueInv
<1>4. CASE TakeMsg
  <2>1. rx_msgq # <<>> /\ rx_msgq' = Tail(rx_msgq)
    BY <1>4 DEF TakeMsg, TypeInv
  <2>2. Tail(rx_msgq) \in Seq(LatestPackets')
    BY <1>2, <2>1, HeadTailProperties
  <2> QED
    BY <2>1, <2>2 DEF QueueInv
<1>5. CASE UNCHANGED rx_msgq
  BY <1>2, <1>5 DEF QueueInv
<1>6. CASE Thread /\ ~TakeMsg
  BY <1>5, <1>6 DEF Thread, Start, TakeRole, Poll, TakeNewSync, AnnounceSync, StoreMsg,
              TakeEndSync, WaitHandler, IdleHandler, UpdateHandler, AnnounceUpdate, AdvHandler,
              SetDataFails, AdvStartFails, Send, NextPacket, EndBurst
<1>7. CASE ~Thread /\ ~ \E b \in Heard : Hear(b)
  BY <1>5, <1>7 DEF Next, TimerFires, AdvSent, SetRole, SetEpoch, StartNetSync, Miss
<1> QED
  BY <1>3, <1>4, <1>6, <1>7

LEMMA MsgInvStep ==
  ASSUME Separate, TypeInv, PairsInv, Next
  PROVE  MsgInv'
<1> USE DEF smVars, threadVars
<1>1. ASSUME Taken, UNCHANGED msg
      PROVE  MsgInv'
  <2>1. ~Quiet
    BY <1>1 DEF Taken, Quiet
  <2> QED
    BY <1>1, <2>1, PacketsKept DEF PairsInv, MsgInv
<1>2. CASE TakeMsg
  <2>1. rx_msgq # <<>> /\ msg' = Head(rx_msgq)
    BY <1>2 DEF TakeMsg, TypeInv
  <2>2. ~Quiet
    BY <2>1 DEF Quiet
  <2>3. Head(rx_msgq) \in LatestPackets
    BY <2>1, HeadTailProperties DEF PairsInv, QueueInv
  <2> QED
    BY <2>1, <2>2, <2>3, PacketsKept DEF PairsInv, MsgInv
<1>3. CASE Start \/ StoreMsg \/ TakeRole \/ Poll \/ TakeNewSync \/ TakeEndSync \/ UpdateHandler
           \/ AdvHandler \/ SetDataFails \/ AdvStartFails \/ Send \/ NextPacket
  <2>1. ~Taken'
    BY <1>3 DEF Start, StoreMsg, TakeRole, Poll, TakeNewSync, TakeEndSync, UpdateHandler,
                AdvHandler, SetDataFails, AdvStartFails, Send, NextPacket, Run, Taken
  <2> QED
    BY <2>1 DEF MsgInv
<1>4. CASE AnnounceUpdate \/ EndBurst
  <2>1. pc' = "dispatch" /\ resume' # "store"
    BY <1>4 DEF AnnounceUpdate, EndBurst, SleepOver, Run, PairsInv, ClientInv, TypeInv, TypeOK
  <2> QED
    BY <2>1 DEF MsgInv, Taken
<1>5. CASE AnnounceSync
  BY <1>1, <1>5 DEF AnnounceSync, Taken
<1>6. CASE WaitHandler \/ IdleHandler
  <2>1. CASE resume = "store"
    BY <1>1, <1>6, <2>1 DEF WaitHandler, IdleHandler, Taken
  <2>2. CASE resume # "store"
    <3>1. pc' = "loop"
      BY <1>6, <2>2 DEF WaitHandler, IdleHandler, TypeInv, TypeOK
    <3> QED
      BY <3>1 DEF MsgInv, Taken
  <2> QED
    BY <2>1, <2>2
<1>7. CASE ~Thread
  <2>1. UNCHANGED <<pc, resume, msg>>
    BY <1>7 DEF Next, TimerFires, AdvSent, SetRole, SetEpoch, StartNetSync, Hear, Miss
  <2> QED
    BY <1>1, <2>1 DEF MsgInv, Taken
<1> QED
  BY <1>2, <1>3, <1>4, <1>5, <1>6, <1>7 DEF Thread

-----------------------------------------------------------------------------
(* Who listens and who stores. *)

LEMMA ClientEdges ==
  ASSUME NEW s \in {"BS_SCAN_WAIT_FOR_SYNC", "BS_SYNC", "BS_UPDATE", "BS_ADV"}, NEW e
  PROVE  transition("CLIENT", s, e)
           \in {"BS_SCAN_WAIT_FOR_SYNC", "BS_SYNC", "BS_UPDATE", "BS_ADV"}
BY DEF transition, RestingState

LEMMA ClientInvStep ==
  ASSUME Separate, TypeInv, OneRoleInv, ClientInv, Next
  PROVE  ClientInv'
<1> USE DEF smVars, threadVars, kernelVars, radioVars, appVars
<1>1. CASE Start \/ Poll \/ StoreMsg
  <2>1. /\ pc' \in {"role_wait", "loop"} /\ pc \in {"start", "loop", "store"}
        /\ UNCHANGED <<role, state, set_roles, scanning, rx_msgq, resume>>
    BY <1>1 DEF Start, Poll, StoreMsg
  <2>2. state # "BS_ADV"
    BY <2>1 DEF ClientInv
  <2> QED
    BY <2>1, <2>2 DEF ClientInv
<1>2. CASE TakeMsg
  <2>1. /\ rx_msgq # <<>> /\ pc = "loop" /\ pc' \in {"loop", "received", "store"}
        /\ pc' = "store" => state # "BS_SCAN_WAIT_FOR_SYNC"
        /\ UNCHANGED <<role, state, set_roles, scanning, resume>>
    BY <1>2 DEF TakeMsg, TypeInv
  <2>2. role = "CLIENT" /\ state \in {"BS_SCAN_WAIT_FOR_SYNC", "BS_SYNC"}
    BY <2>1 DEF ClientInv, OneRoleInv
  <2> QED
    BY <2>1, <2>2 DEF ClientInv
<1>3. CASE AnnounceSync
  <2>1. /\ pc' = "dispatch" /\ resume' = "store" /\ pc = "received"
        /\ state' = transition(role, state, "EVENT_NEW_SYNC_RCV")
        /\ UNCHANGED <<role, set_roles, scanning, rx_msgq>>
    BY <1>3 DEF AnnounceSync, Run
  <2>2. state' = "BS_SYNC"
    BY <2>1, TransitionEdges DEF OneRoleInv
  <2> QED
    BY <2>1, <2>2 DEF ClientInv
<1>4. CASE TakeRole \/ TakeNewSync \/ TakeEndSync \/ AnnounceUpdate \/ EndBurst
  <2>1. PICK e : state' = transition(role, state, e)
    BY <1>4 DEF TakeRole, TakeNewSync, TakeEndSync, AnnounceUpdate, EndBurst, Run
  <2>2. pc' = "dispatch" /\ resume' # "store"
    BY <1>4 DEF TakeRole, TakeNewSync, TakeEndSync, AnnounceUpdate, EndBurst, SleepOver, Run,
                ClientInv, TypeInv, TypeOK
  <2>3. UNCHANGED <<role, set_roles, scanning, rx_msgq>>
    BY <1>4 DEF TakeRole, TakeNewSync, TakeEndSync, AnnounceUpdate, EndBurst, Run
  <2>4. role = "CLIENT"
          => state' \in {"BS_SCAN_WAIT_FOR_SYNC", "BS_SYNC", "BS_UPDATE", "BS_ADV"}
    BY <2>1, ClientEdges DEF ClientInv
  <2> QED
    BY <2>2, <2>3, <2>4 DEF ClientInv
<1>5. CASE WaitHandler
  <2>1. /\ pc = "dispatch" /\ state = "BS_SCAN_WAIT_FOR_SYNC" /\ pc' = resume
        /\ UNCHANGED <<role, state, set_roles, rx_msgq, resume>>
    BY <1>5 DEF WaitHandler
  <2>2. role = "CLIENT" /\ resume = "loop"
    BY <2>1 DEF ClientInv, OneRoleInv, TypeInv, TypeOK, Role
  <2> QED
    BY <2>1, <2>2 DEF ClientInv
<1>6. CASE IdleHandler
  <2>1. /\ pc = "dispatch" /\ state # "BS_ADV" /\ pc' = resume /\ resume \in {"loop", "store"}
        /\ UNCHANGED <<role, state, set_roles, scanning, rx_msgq, resume>>
    BY <1>6 DEF IdleHandler, TypeInv, TypeOK
  <2> QED
    BY <2>1 DEF ClientInv
<1>7. CASE UpdateHandler
  <2>1. /\ pc = "dispatch" /\ state = "BS_UPDATE" /\ pc' \in {"update_success", "update_failed"}
        /\ scanning' => scanning
        /\ UNCHANGED <<role, state, set_roles, rx_msgq, resume>>
    BY <1>7 DEF UpdateHandler, ScanStop
  <2> QED
    BY <2>1 DEF ClientInv
<1>8. CASE AdvHandler \/ SetDataFails \/ AdvStartFails \/ Send \/ NextPacket
  <2>1. /\ pc' \in {"send", "sleep"}
        /\ (pc = "dispatch" /\ state = "BS_ADV") \/ pc \in {"send", "sleep"}
        /\ UNCHANGED <<role, state, set_roles, scanning, rx_msgq, resume>>
    BY <1>8 DEF AdvHandler, SetDataFails, AdvStartFails, Send, NextPacket, SleepOver
  <2> QED
    BY <2>1 DEF ClientInv
<1>9. ASSUME NEW r \in RolesGiven, SetRole(r)
      PROVE  ClientInv'
  <2>1. /\ role' = r /\ r # "NONE" /\ state' = RestingState(r)
        /\ UNCHANGED <<pc, resume, scanning, rx_msgq>>
    BY <1>9, SwitchesAssumption DEF SetRole
  <2>2. set_roles = 0
    BY <1>9, BoundsAssumption DEF SetRole, TypeInv, TypeOK, Separate
  <2>3. ~scanning /\ rx_msgq = <<>> /\ pc \in {"start", "role_wait"}
    BY <2>2 DEF OneRoleInv, ClientInv
  <2>4. (r = "CLIENT" => state' = "BS_SCAN_WAIT_FOR_SYNC") /\ state' # "BS_ADV"
    BY <2>1 DEF RestingState
  <2> QED
    BY <2>1, <2>3, <2>4 DEF ClientInv
<1>10. ASSUME NEW b \in Heard, Hear(b)
       PROVE  ClientInv'
  BY <1>10 DEF Hear, Listening, ClientInv
<1>11. ASSUME NEW b \in Heard, Miss(b)
       PROVE  ClientInv'
  BY <1>11 DEF Miss, ClientInv
<1>12. CASE TimerFires \/ SetEpoch \/ StartNetSync
  BY <1>12 DEF TimerFires, SetEpoch, StartNetSync, ClientInv
<1>13. ASSUME NEW num_sent \in {0, 1}, AdvSent(num_sent)
       PROVE  ClientInv'
  BY <1>13 DEF AdvSent, ClientInv
<1> QED
  BY <1>1, <1>2, <1>3, <1>4, <1>5, <1>6, <1>7, <1>8, <1>9, <1>10, <1>11, <1>12, <1>13
  DEF Next, Thread

-----------------------------------------------------------------------------
(* The slots of the burst being collected. *)

(* Once a slot is filled the node is past the point where a new burst may begin. *)
LEMMA FilledIsBusy ==
  ASSUME OneRoleInv, PairsInv, Filled
  PROVE  ~Quiet /\ pc \notin {"start", "role_wait", "send", "sleep"}
BY DEF PairsInv, SlotsInv, ClientInv, OneRoleInv, Quiet

LEMMA SlotsKept ==
  ASSUME Separate, TypeInv, OneRoleInv, PairsInv, Next, UNCHANGED <<local, rcv>>,
         \/ state' \in {"BS_SYNC", "BS_UPDATE"}
         \/ pc' = "dispatch" /\ state' \in {"BS_SCAN_WAIT_FOR_SYNC", "BS_ADV"}
         \/ ~Filled
  PROVE  SlotsInv'
<1>1. CASE Filled
  <2>1. ~Quiet
    BY <1>1, FilledIsBusy
  <2>2. \A c \in Heard : Latest(c)' <=> Latest(c)
    <3>1. ASSUME NEW b \in Heard, Hear(b) \/ Miss(b)
          PROVE  \A c \in Heard : Latest(c)' <=> Latest(c)
      <4>1. OnAir(b)
        BY <3>1 DEF Hear, Miss
      <4>2. air[b] > 0
        BY <2>1, <4>1, AirStep, SizesAssumption DEF PairsInv
      <4> QED
        BY <4>1, <4>2, AirStep DEF PairsInv
    <3>2. CASE ~ \E b \in Heard : Hear(b) \/ Miss(b)
      BY <3>2, AirUnchanged DEF Latest
    <3> QED
      BY <3>1, <3>2
  <2>3. \/ state' \in {"BS_SYNC", "BS_UPDATE"}
        \/ pc' = "dispatch" /\ state' \in {"BS_SCAN_WAIT_FOR_SYNC", "BS_ADV"}
    BY <1>1
  <2>4. local' = local /\ rcv' = rcv
    OBVIOUS
  <2>5. /\ \E b \in Heard : Latest(b)
        /\ \A b \in Heard : Latest(b) =>
             /\ \A s \in local.bits : local.ticks[s] = HeardStamp(b, s)
             /\ \A s \in rcv.bits : rcv.ticks[s] = HeardStamp(b, s)
    BY <1>1 DEF PairsInv, SlotsInv
  <2>6. /\ \E b \in Heard : Latest(b)'
        /\ \A b \in Heard : Latest(b)' =>
             /\ \A s \in local'.bits : local'.ticks[s] = HeardStamp(b, s)
             /\ \A s \in rcv'.bits : rcv'.ticks[s] = HeardStamp(b, s)
    BY <2>2, <2>4, <2>5
  <2> QED
    BY <2>3, <2>6 DEF SlotsInv, HeardStamp
<1>2. CASE ~Filled
  BY <1>2 DEF SlotsInv, Filled
<1> QED
  BY <1>1, <1>2

LEMMA SlotsReset ==
  ASSUME ResetParam
  PROVE  SlotsInv'
<1>1. local'.bits = {} /\ rcv'.bits = {}
  BY DEF ResetParam, Cleared
<1> QED
  BY <1>1 DEF SlotsInv, Filled

LEMMA SlotsInvStep ==
  ASSUME Separate, TypeInv, OneRoleInv, BurstInv, PairsInv, Next
  PROVE  SlotsInv'
<1> USE DEF smVars, threadVars, burstVars, appVars
<1>1. CASE WaitHandler \/ AdvHandler
  BY <1>1, SlotsReset DEF WaitHandler, AdvHandler
<1>2. CASE StoreMsg
  <2>1. state = "BS_SYNC" /\ state' = "BS_SYNC" /\ msg \in LatestPackets
    BY <1>2 DEF StoreMsg, PairsInv, ClientInv, MsgInv, Taken
  <2>2. PICK b \in Heard, i \in 0 .. SlotNumber : Latest(b) /\ msg = Packet(b, i)
    BY <2>1 DEF LatestPackets
  <2>3. /\ msg.index = i /\ msg.client = HeardStamp(b, i)
        /\ i >= 1 => msg.master = HeardStamp(b, i - 1)
    BY <2>2, SizesAssumption DEF Packet
  <2>4. \A s \in local.bits : local.ticks[s] = HeardStamp(b, s)
    BY <2>2 DEF PairsInv, SlotsInv
  <2>5. \A s \in rcv.bits : rcv.ticks[s] = HeardStamp(b, s)
    BY <2>2 DEF PairsInv, SlotsInv
  <2>6. ASSUME NEW s \in local'.bits
        PROVE  local'.ticks[s] = HeardStamp(b, s)
    <3>1. local.ticks \in [Slots -> Stamp] /\ local.bits \subseteq Slots
      BY DEF TypeInv, TypeOK, Timestamps
    <3>2. CASE i < SlotNumber
      <4>1. local' = Add(local, i, HeardStamp(b, i))
        BY <1>2, <2>3, <3>2 DEF StoreMsg
      <4>2. local'.bits = local.bits \cup {i}
            /\ local'.ticks = [local.ticks EXCEPT ![i] = HeardStamp(b, i)]
        BY <4>1 DEF Add
      <4>3. CASE s = i
        BY <2>6, <3>1, <3>2, <4>2, <4>3, SizesAssumption DEF Slots
      <4>4. CASE s # i
        BY <2>4, <2>6, <3>1, <4>2, <4>4
      <4> QED
        BY <4>3, <4>4
    <3>3. CASE ~(i < SlotNumber)
      <4>1. local' = local
        BY <1>2, <2>3, <3>3 DEF StoreMsg
      <4> QED
        BY <2>4, <2>6, <4>1
    <3> QED
      BY <3>2, <3>3
  <2>7. ASSUME NEW s \in rcv'.bits
        PROVE  rcv'.ticks[s] = HeardStamp(b, s)
    <3>1. rcv.ticks \in [Slots -> Stamp] /\ rcv.bits \subseteq Slots
      BY DEF TypeInv, TypeOK, Timestamps
    <3>2. CASE i >= 1
      <4>1. rcv' = Add(rcv, i - 1, HeardStamp(b, i - 1))
        BY <1>2, <2>3, <3>2 DEF StoreMsg
      <4>2. rcv'.bits = rcv.bits \cup {i - 1}
            /\ rcv'.ticks = [rcv.ticks EXCEPT ![i - 1] = HeardStamp(b, i - 1)]
        BY <4>1 DEF Add
      <4>3. CASE s = i - 1
        BY <2>7, <3>1, <3>2, <4>2, <4>3, SizesAssumption DEF Slots
      <4>4. CASE s # i - 1
        BY <2>5, <2>7, <3>1, <4>2, <4>4
      <4> QED
        BY <4>3, <4>4
    <3>3. CASE ~(i >= 1)
      <4>1. rcv' = rcv
        BY <1>2, <2>3, <3>3 DEF StoreMsg
      <4> QED
        BY <2>5, <2>7, <4>1
    <3> QED
      BY <3>2, <3>3
  <2>8. \A c \in Heard : Latest(c)' <=> Latest(c)
    BY <1>2 DEF StoreMsg, Latest
  <2>9. \A c \in Heard : Latest(c) => c = b
    BY <2>2, LatestIsOne
  <2> QED
    BY <2>1, <2>2, <2>6, <2>7, <2>8, <2>9 DEF SlotsInv, HeardStamp
<1>3. ASSUME NEW num_sent \in {0, 1}, AdvSent(num_sent)
      PROVE  SlotsInv'
  <2>1. pc = "sleep"
    BY <1>3 DEF AdvSent, BurstInv
  <2>2. ~Filled
    BY <2>1, FilledIsBusy
  <2>3. local'.bits = local.bits /\ rcv' = rcv
    <3>1. local = [ticks |-> local.ticks, bits |-> local.bits]
      BY DEF TypeInv, TypeOK, Timestamps
    <3> QED
      BY <1>3, <3>1 DEF AdvSent
  <2> QED
    BY <2>2, <2>3 DEF SlotsInv, Filled
<1>4. CASE TakeNewSync \/ AnnounceSync \/ TakeEndSync \/ AnnounceUpdate \/ TakeRole \/ EndBurst
  <2>1. PICK e : state' = transition(role, state, e)
    BY <1>4 DEF TakeNewSync, AnnounceSync, TakeEndSync, AnnounceUpdate, TakeRole, EndBurst, Run
  <2>2. /\ pc # "dispatch" /\ pc' = "dispatch" /\ UNCHANGED <<local, rcv>>
    BY <1>4 DEF TakeNewSync, AnnounceSync, TakeEndSync, AnnounceUpdate, TakeRole, EndBurst,
                SleepOver, Run
  <2>3. Filled => state \in {"BS_SYNC", "BS_UPDATE"}
    BY <2>2 DEF PairsInv, SlotsInv
  <2>4. state = "BS_SYNC" => state' \in {"BS_SYNC", "BS_UPDATE"}
    BY <2>1, SyncEdges
  <2>5. state = "BS_UPDATE" => state' \in {"BS_UPDATE", "BS_ADV", "BS_SCAN_WAIT_FOR_SYNC"}
    BY <2>1, TransitionEdges
  <2> QED
    BY <2>2, <2>3, <2>4, <2>5, SlotsKept
<1>5. CASE Start \/ Poll \/ TakeMsg \/ IdleHandler \/ UpdateHandler \/ SetDataFails
           \/ AdvStartFails \/ Send \/ NextPacket
  <2>1. /\ UNCHANGED <<state, local, rcv>>
        /\ pc = "dispatch" => state \notin {"BS_SCAN_WAIT_FOR_SYNC", "BS_ADV"}
    BY <1>5 DEF Start, Poll, TakeMsg, IdleHandler, UpdateHandler, SetDataFails, AdvStartFails,
                Send, NextPacket, SleepOver
  <2>2. Filled => state \in {"BS_SYNC", "BS_UPDATE"}
    BY <2>1 DEF PairsInv, SlotsInv
  <2> QED
    BY <2>1, <2>2, SlotsKept
<1>6. ASSUME NEW r \in RolesGiven, SetRole(r)
      PROVE  SlotsInv'
  <2>1. set_roles = 0 /\ UNCHANGED <<local, rcv>>
    BY <1>6, BoundsAssumption DEF SetRole, TypeInv, TypeOK, Separate
  <2>2. ~Filled
    BY <2>1, FilledIsBusy DEF OneRoleInv
  <2> QED
    BY <2>1, <2>2, SlotsKept
<1>7. CASE \/ TimerFires \/ SetEpoch \/ StartNetSync
           \/ \E b \in Heard : Hear(b) \/ Miss(b)
  <2>1. UNCHANGED <<pc, state, local, rcv>>
    BY <1>7 DEF TimerFires, SetEpoch, StartNetSync, Hear, Miss
  <2>2. \/ state' \in {"BS_SYNC", "BS_UPDATE"}
        \/ pc' = "dispatch" /\ state' \in {"BS_SCAN_WAIT_FOR_SYNC", "BS_ADV"}
        \/ ~Filled
    BY <2>1 DEF PairsInv, SlotsInv
  <2> QED
    BY <2>1, <2>2, SlotsKept
<1> QED
  BY <1>1, <1>2, <1>3, <1>4, <1>5, <1>6, <1>7 DEF Next, Thread

-----------------------------------------------------------------------------
(* The rings and the samples. *)

LEMMA MatchingPush ==
  ASSUME NEW remote \in Ring, NEW own \in Ring, NEW r \in Timestamps, NEW o \in Timestamps,
         remote.head = own.head, Matching(r, o),
         \A k \in 0 .. WindowSize - 1 : Matching(remote.bursts[k], own.bursts[k])
  PROVE  /\ Push(remote, r).head = Push(own, o).head
         /\ \A k \in 0 .. WindowSize - 1 :
              Matching(Push(remote, r).bursts[k], Push(own, o).bursts[k])
<1>1. /\ Push(remote, r).bursts = [remote.bursts EXCEPT ![remote.head] = r]
      /\ Push(own, o).bursts = [own.bursts EXCEPT ![own.head] = o]
      /\ Push(remote, r).head = (remote.head + 1) % WindowSize
      /\ Push(own, o).head = (own.head + 1) % WindowSize
  BY DEF Push
<1>2. ASSUME NEW k \in 0 .. WindowSize - 1
      PROVE  Matching(Push(remote, r).bursts[k], Push(own, o).bursts[k])
  <2>1. remote.bursts \in [0 .. WindowSize - 1 -> Timestamps]
        /\ own.bursts \in [0 .. WindowSize - 1 -> Timestamps]
    BY DEF Ring
  <2>2. CASE k = own.head
    <3>1. Push(remote, r).bursts[k] = r /\ Push(own, o).bursts[k] = o
      BY <1>1, <2>1, <2>2
    <3> QED
      BY <3>1
  <2>3. CASE k # own.head
    <3>1. Push(remote, r).bursts[k] = remote.bursts[k] /\ Push(own, o).bursts[k] = own.bursts[k]
      BY <1>1, <2>1, <2>3
    <3> QED
      BY <3>1
  <2> QED
    BY <2>2, <2>3
<1> QED
  BY <1>1, <1>2

LEMMA MatchingPairs ==
  ASSUME NEW remote \in Ring, NEW own \in Ring,
         \A k \in 0 .. WindowSize - 1 : Matching(remote.bursts[k], own.bursts[k]),
         NEW p \in Pairs(remote, own)
  PROVE  p[1] = p[2]
<1>1. PICK s \in Samples(remote, own) : p = <<LocalTicks(own, s), LocalTicks(remote, s)>>
  BY DEF Pairs
<1>2. /\ s[1] \in 0 .. WindowSize - 1
      /\ s[2] \in remote.bursts[s[1]].bits \cap own.bursts[s[1]].bits
  BY SizesAssumption DEF Samples, Ring
<1>3. own.bursts[s[1]].ticks[s[2]] = remote.bursts[s[1]].ticks[s[2]]
  BY <1>2 DEF Matching
<1> QED
  BY <1>1, <1>3 DEF LocalTicks

LEMMA HistoryInvStep ==
  ASSUME TypeInv, PairsInv, Next
  PROVE  HistoryInv'
<1>1. CASE UpdateHandler
  <2>1. /\ rcv_history' = Push(rcv_history, rcv) /\ local_history' = Push(local_history, local)
        /\ rcv_history' \in Ring /\ local_history' \in Ring
        /\ rcv_history \in Ring /\ local_history \in Ring
        /\ rcv \in Timestamps /\ local \in Timestamps
    BY <1>1, PushType DEF UpdateHandler, TypeInv, TypeOK
  <2>2. Matching(rcv, local)
    <3> SUFFICES ASSUME NEW s \in rcv.bits \cap local.bits
                 PROVE  local.ticks[s] = rcv.ticks[s]
      BY DEF Matching
    <3>1. PICK b \in Heard : Latest(b)
      BY DEF PairsInv, SlotsInv, Filled
    <3>2. local.ticks[s] = HeardStamp(b, s) /\ rcv.ticks[s] = HeardStamp(b, s)
      BY <3>1 DEF PairsInv, SlotsInv
    <3> QED
      BY <3>2
  <2>3. /\ rcv_history'.head = local_history'.head
        /\ \A k \in 0 .. WindowSize - 1 :
             Matching(rcv_history'.bursts[k], local_history'.bursts[k])
    BY <2>1, <2>2, MatchingPush DEF PairsInv, HistoryInv
  <2>4. PairsMatch'
    <3>1. fit' = Pairs(rcv_history', local_history') \/ fit' = fit
      BY <1>1 DEF UpdateHandler
    <3>2. \A p \in Pairs(rcv_history', local_history') : p[1] = p[2]
      BY <2>1, <2>3, MatchingPairs
    <3> QED
      BY <3>1, <3>2 DEF PairsMatch, PairsInv, HistoryInv
  <2> QED
    BY <2>3, <2>4 DEF HistoryInv, Matching
<1>2. CASE ~UpdateHandler
  <2>1. UNCHANGED historyVars
    BY <1>2 DEF Next, Thread, Start, TakeRole, Poll, TakeNewSync, TakeMsg, AnnounceSync, StoreMsg,
                TakeEndSync, WaitHandler, IdleHandler, AnnounceUpdate, AdvHandler,
                SetDataFails, AdvStartFails, Send, NextPacket, EndBurst, TimerFires, AdvSent,
                SetRole, SetEpoch, StartNetSync, Hear, Miss
  <2> QED
    BY <2>1 DEF historyVars, PairsInv, HistoryInv, Matching, PairsMatch
<1> QED
  BY <1>1, <1>2

-----------------------------------------------------------------------------
LEMMA PairsInvInit == Init => PairsInv
<1> SUFFICES ASSUME Init PROVE PairsInv
  OBVIOUS
<1>1. local.bits = {} /\ rcv.bits = {} /\ \A b \in Heard : air[b] = 0
  BY DEF Init, Cleared
<1>2. AirInv /\ QueueInv /\ MsgInv /\ ClientInv
  BY <1>1 DEF Init, AirInv, QueueInv, MsgInv, Taken, ClientInv
<1>3. SlotsInv
  BY <1>1 DEF SlotsInv, Filled
<1>4. \A k \in 0 .. WindowSize - 1 :
        rcv_history.bursts[k] = Cleared /\ local_history.bursts[k] = Cleared
  BY DEF Init, EmptyRing
<1>5. HistoryInv
  BY <1>4 DEF Init, EmptyRing, HistoryInv, Matching, Cleared, PairsMatch
<1> QED
  BY <1>2, <1>3, <1>5 DEF PairsInv

LEMMA PairsInvStutter ==
  ASSUME PairsInv, UNCHANGED vars
  PROVE  PairsInv'
<1> USE DEF vars, smVars, threadVars, kernelVars, burstVars, historyVars, radioVars, appVars
<1>1. LatestPackets' = LatestPackets /\ \A b \in Heard : Latest(b)' <=> Latest(b)
  <2>1. \A b \in Heard : Latest(b)' <=> Latest(b)
    BY DEF Latest
  <2> QED
    BY <2>1, PacketsStay
<1>2. AirInv' /\ QueueInv' /\ MsgInv' /\ ClientInv'
  BY <1>1 DEF PairsInv, AirInv, QueueInv, MsgInv, Taken, ClientInv
<1>3. SlotsInv' /\ HistoryInv'
  BY <1>1 DEF PairsInv, SlotsInv, Filled, HeardStamp, HistoryInv, Matching, PairsMatch
<1> QED
  BY <1>2, <1>3 DEF PairsInv

(***************************************************************************)
(* Where the role is given once, the bursts of the neighbours do not       *)
(* overlap and no sent callback is late, the slope and offset are fitted   *)
(* to samples whose two timestamps are of one packet each, whatever is     *)
(* lost, dropped by the full queue or left over from a failed update.      *)
(***************************************************************************)
THEOREM SamplesArePairs ==
  ASSUME Separate
  PROVE  Spec => []PairsMatch
<1>1. TypeInv /\ OneRoleInv /\ BurstInv /\ PairsInv /\ [Next]_vars => PairsInv'
  <2>1. ASSUME TypeInv, OneRoleInv, BurstInv, PairsInv, Next
        PROVE  PairsInv'
    <3>1. AirInv' /\ QueueInv' /\ MsgInv' /\ ClientInv'
      BY <2>1, AirInvStep, QueueInvStep, MsgInvStep, ClientInvStep DEF PairsInv
    <3>2. SlotsInv' /\ HistoryInv'
      BY <2>1, SlotsInvStep, HistoryInvStep
    <3> QED
      BY <3>1, <3>2 DEF PairsInv
  <2> QED
    BY <2>1, PairsInvStutter
<1>2. PairsInv => PairsMatch
  BY DEF PairsInv, HistoryInv
<1>3. (Spec => []OneRoleInv) /\ (Spec => []BurstInv)
  BY OneRoleInvariant, BurstInvariant DEF Separate
<1> QED
  BY <1>1, <1>2, <1>3, PairsInvInit, TypeInvariant, PTL DEF Spec
=============================================================================
