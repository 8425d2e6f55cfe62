--------------------------- MODULE BluesyncNetwork ---------------------------
(***************************************************************************)
(* A network of BlueSync nodes: the authority, node 0, and clients 1 to    *)
(* Last in a line (docs/conception.md), each running src/bluesync.c.  The  *)
(* step of a node is what its thread does between two of its sleeps; the   *)
(* details are those of Bluesync, which assumes of its neighbours what is  *)
(* shown here of all of them.                                              *)
(*                                                                         *)
(* Time passes in intervals of CONFIG_BLUESYNC_ADV_INT_MS.  What falls in  *)
(* one interval happens in any order.                                      *)
(***************************************************************************)
EXTENDS Integers, Sequences, FiniteSets, FiniteSetsExt

CONSTANTS
  Last,          \* the client furthest from the authority
  Reach,         \* how many nodes away a packet is heard
  SlotNumber,    \* SLOT_NUMBER
  WindowSize,    \* BURST_WINDOWS_SIZE
  RoundIds,      \* number of values of the uint8_t round id
  Spacing,       \* intervals the application leaves between two starts
  MaxStarts,     \* bound on calls of bluesync_start_net_sync
  MaxIdle        \* bound on the intervals that pass while every node rests

ASSUME NetworkAssumption ==
  /\ Last \in Nat \ {0} /\ Reach \in Nat \ {0}
  /\ SlotNumber \in Nat \ {0, 1} /\ WindowSize \in Nat \ {0} /\ RoundIds \in Nat \ {0}
  /\ Spacing \in Nat /\ MaxStarts \in Nat /\ MaxIdle \in Nat

Nodes == 0 .. Last
Clients == 1 .. Last
Hearers(n) == {m \in Clients : m # n /\ m - n \in -Reach .. Reach}

VARIABLES
  state,       \* of each node's state machine
  round,       \* current_round_id: the number of the start it comes from
  new_round,   \* new_round_id
  slot,        \* next packet of the node's burst
  timer,       \* intervals left of drift_estimation_timer
  got,         \* slots of the packets collected in this synchronisation
  from,        \* and the bursts they are of, as senders and rounds
  window,      \* samples in each of the latest bursts collected
  requested,   \* bluesync_start_new_sync_sem
  due,         \* nodes that have not done their part of this interval
  now,         \* intervals since boot
  began,       \* the interval of each start
  starved      \* has a client missed too much of an upstream burst to use it?

nodeVars == <<state, round, new_round, slot, timer, got, from, window>>
vars == <<nodeVars, requested, due, now, began, starved>>

starts == round[0]

(* Rounds are compared as ids: nothing but equality modulo RoundIds is known. *)
Same(r1, r2) == (r1 - r2) % RoundIds = 0

(***************************************************************************)
(* bluesync_store_current_burst and the outcome of calculate_lr_from_      *)
(* history: a slot is a sample if its packet and the next were collected;  *)
(* two samples have different local times.                                 *)
(***************************************************************************)
Paired(slots) == Cardinality({i \in slots : i + 1 \in slots})
Latest(s) == IF Len(s) > WindowSize THEN Tail(s) ELSE s
Stored(n) == Latest(Append(window[n], Paired(got[n])))
Enough(samples) == samples >= 2 /\ samples >= SlotNumber \div 2
Succeeds(n) == Enough(MapThenSumSet(LAMBDA k : Stored(n)[k], DOMAIN Stored(n)))

-----------------------------------------------------------------------------
(* bluesync_scan_packet_process at the nodes that hear a packet. *)

StartsAnyRound(m, r) == state[m] = "BS_SCAN_WAIT_FOR_SYNC"
Starts(m, r) == state[m] = "BS_SCAN_WAIT_FOR_SYNC" /\ ~Same(r, round[m])

RemainingShort(k) == SlotNumber + 1 - k
Remaining(k) == SlotNumber + 1 + 1 - k

Receive(heard, n, k, r) ==
  LET starting == {m \in heard : Starts(m, r)}
      storing == starting \cup {m \in heard : state[m] = "BS_SYNC"}
  IN  /\ state' = [m \in Nodes |-> IF m \in starting THEN "BS_SYNC" ELSE state[m]]
      /\ new_round' = [m \in Nodes |-> IF m \in starting THEN r ELSE new_round[m]]
      /\ timer' = [m \in Nodes |-> IF m \in starting THEN Remaining(k) ELSE timer[m]]
      /\ got' = [m \in Nodes |-> IF m \in storing THEN got[m] \cup {k} ELSE got[m]]
      /\ from' = [m \in Nodes |-> IF m \in storing THEN from[m] \cup {<<n, r>>} ELSE from[m]]

(***************************************************************************)
(* A turn of bluesync_adv_process.  The radio calls succeed (Bluesync has  *)
(* their failures); any of the hearers may miss the packet.                *)
(***************************************************************************)
SendOnePast(n) ==
  /\ n \in due /\ state[n] = "BS_ADV" /\ slot[n] <= SlotNumber + 1
  /\ \E heard \in SUBSET Hearers(n) : Receive(heard, n, slot[n], round[n])
  /\ slot' = [slot EXCEPT ![n] = @ + 1]
  /\ due' = due \ {n}
  /\ UNCHANGED <<round, window, requested, now, began, starved>>
Send(n) ==
  /\ n \in due /\ state[n] = "BS_ADV" /\ slot[n] <= SlotNumber
  /\ \E heard \in SUBSET Hearers(n) : Receive(heard, n, slot[n], round[n])
  /\ slot' = [slot EXCEPT ![n] = @ + 1]
  /\ due' = due \ {n}
  /\ UNCHANGED <<round, window, requested, now, began, starved>>

(* EVENT_ADV_EXPIRED, an interval after the last packet. *)
EndBurst(n) ==
  /\ n \in due /\ state[n] = "BS_ADV" /\ slot[n] = SlotNumber + 1
  /\ state' = [state EXCEPT ![n] = IF n = 0 THEN "BS_STOP" ELSE "BS_SCAN_WAIT_FOR_SYNC"]
  /\ slot' = [slot EXCEPT ![n] = 0]
  /\ due' = due \ {n}
  /\ starved' = (starved \/ \E m \in Hearers(n) :
                   /\ ~Same(round[n], round[m])
                   /\ ~(state[m] = "BS_SYNC" /\ Enough(Paired(got[m]))))
  /\ UNCHANGED <<round, new_round, timer, got, from, window, requested, now, began>>

(***************************************************************************)
(* EVENT_SYNC_EXPIRED and bs_update_handler: the round is adopted and the  *)
(* burst begins in the same interval, or the round is given up.            *)
(***************************************************************************)
Expire(n) ==
  /\ n \in due /\ state[n] = "BS_SYNC"
  /\ window' = [window EXCEPT ![n] = Stored(n)]
  /\ got' = [got EXCEPT ![n] = {}] /\ from' = [from EXCEPT ![n] = {}]
  /\ UNCHANGED <<new_round, slot, timer, requested, now, began, starved>>
AdoptAndRest(n) ==
  /\ Expire(n) /\ Succeeds(n)
  /\ round' = [round EXCEPT ![n] = new_round[n]]
  /\ state' = [state EXCEPT ![n] = "BS_SCAN_WAIT_FOR_SYNC"]
  /\ due' = due \ {n}
Adopt(n) ==
  /\ Expire(n) /\ Succeeds(n)
  /\ round' = [round EXCEPT ![n] = new_round[n]]
  /\ state' = [state EXCEPT ![n] = "BS_ADV"]
  /\ UNCHANGED due
GiveUpOnRound(n) ==
  /\ Expire(n) /\ ~Succeeds(n)
  /\ round' = [round EXCEPT ![n] = new_round[n]]
  /\ state' = [state EXCEPT ![n] = "BS_SCAN_WAIT_FOR_SYNC"]
  /\ due' = due \ {n}
GiveUpStays(n) == Expire(n) /\ ~Succeeds(n) /\ UNCHANGED <<state, round, due>>
GiveUp(n) ==
  /\ Expire(n) /\ ~Succeeds(n)
  /\ state' = [state EXCEPT ![n] = "BS_SCAN_WAIT_FOR_SYNC"]
  /\ due' = due \ {n}
  /\ UNCHANGED round

-----------------------------------------------------------------------------
(* bluesync_start_net_sync: the application of the authority, which leaves *)
(* Spacing intervals from one start to the next.                           *)
StartNetSync ==
  /\ starts < MaxStarts
  /\ starts > 0 => now >= began[starts] + Spacing
  /\ round' = [round EXCEPT ![0] = @ + 1]
  /\ began' = [began EXCEPT ![starts + 1] = now]
  /\ requested' = TRUE
  /\ UNCHANGED <<state, new_round, slot, timer, got, from, window, due, now, starved>>

(* EVENT_NEW_NET_SYNC; out of BS_STOP it changes nothing. *)
TakeNewSync ==
  /\ requested /\ state[0] = "BS_STOP"
  /\ requested' = FALSE
  /\ state' = [state EXCEPT ![0] = "BS_ADV"]
  /\ due' = due \cup {0}
  /\ UNCHANGED <<round, new_round, slot, timer, got, from, window, now, began, starved>>

Resting == \A n \in Nodes : state[n] \in {"BS_STOP", "BS_SCAN_WAIT_FOR_SYNC"}

(* The next interval: every burst and every timer goes on. *)
NextInterval ==
  /\ due = {} /\ ~(requested /\ state[0] = "BS_STOP")
  /\ Resting => now < MaxIdle
  /\ now' = now + 1
  /\ timer' = [n \in Nodes |-> IF state[n] = "BS_SYNC" THEN timer[n] - 1 ELSE timer[n]]
  /\ due' = {n \in Nodes : state[n] = "BS_ADV" \/ (state[n] = "BS_SYNC" /\ timer'[n] = 0)}
  /\ UNCHANGED <<state, round, new_round, slot, got, from, window, requested, began, starved>>

-----------------------------------------------------------------------------
Init ==
  /\ state = [n \in Nodes |-> IF n = 0 THEN "BS_STOP" ELSE "BS_SCAN_WAIT_FOR_SYNC"]
  /\ round = [n \in Nodes |-> 0] /\ new_round = [n \in Nodes |-> 0]
  /\ slot = [n \in Nodes |-> 0] /\ timer = [n \in Nodes |-> 0]
  /\ got = [n \in Nodes |-> {}] /\ from = [n \in Nodes |-> {}]
  /\ window = [n \in Nodes |-> <<>>] /\ requested = FALSE /\ due = {}
  /\ now = 0 /\ began = [r \in 1 .. MaxStarts |-> 0] /\ starved = FALSE

Protocol ==
  \/ \E n \in Nodes : Send(n) \/ EndBurst(n)
  \/ \E n \in Clients : Adopt(n) \/ GiveUp(n)
  \/ TakeNewSync
  \/ NextInterval

Next == StartNetSync \/ Protocol

Spec == Init /\ [][Next]_vars

(* Threads are scheduled and time passes; nothing is asked of the application. *)
FairSpec == Spec /\ WF_vars(Protocol)

-----------------------------------------------------------------------------
(* Properties. *)

State == {"BS_STOP", "BS_SCAN_WAIT_FOR_SYNC", "BS_SYNC", "BS_ADV"}

(* Every variable stays in its type: no timer, slot or round runs out of it. *)
TypeOK ==
  /\ state \in [Nodes -> State]
  /\ round \in [Nodes -> 0 .. MaxStarts] /\ new_round \in [Nodes -> 0 .. MaxStarts]
  /\ slot \in [Nodes -> 0 .. SlotNumber + 1]
  /\ timer \in [Nodes -> 0 .. SlotNumber + 2]
  /\ got \in [Nodes -> SUBSET (0 .. SlotNumber)]
  /\ from \in [Nodes -> SUBSET (Nodes \X (0 .. MaxStarts))]
  /\ \A n \in Nodes : window[n] \in Seq(0 .. SlotNumber) /\ Len(window[n]) <= WindowSize
  /\ requested \in BOOLEAN /\ due \subseteq Nodes
  /\ now \in Nat /\ began \in [1 .. MaxStarts -> Nat] /\ starved \in BOOLEAN

(***************************************************************************)
(* What Bluesync assumes of its neighbours: the burst of a node finds each *)
(* of its hearers waiting or collecting that burst, and is the only one    *)
(* the hearer has on the air, whichever rounds are on their way.           *)
(***************************************************************************)
BurstsApart ==
  \A n \in Nodes : \A m \in Hearers(n) :
    state[n] = "BS_ADV" =>
      /\ state[m] \in {"BS_SCAN_WAIT_FOR_SYNC", "BS_SYNC"}
      /\ from[m] \subseteq {<<n, round[n]>>}
      /\ \A o \in Nodes : m \in Hearers(o) /\ state[o] = "BS_ADV" => o = n

(* Clients synchronise with their upstream neighbour, never with one that    *)
(* has the time from them, although they hear both.                        *)
FromUpstream == \A m \in Clients : \A b \in from[m] : b[1] < m

(* The timer of a client outlasts the burst, wherever in it it was started. *)
ExpiryAfterBurst ==
  \A m \in Clients : state[m] = "BS_SYNC" /\ timer[m] = 0 =>
    \A n \in Nodes : m \in Hearers(n) => state[n] # "BS_ADV"

(***************************************************************************)
(* Rounds are compared for equality only, and heard from both sides; even  *)
(* so a client that adopts a round goes forward.                           *)
(***************************************************************************)
RoundsAdvance ==
  [][\A n \in Clients : state[n] = "BS_SYNC" /\ state'[n] = "BS_ADV"
       => round'[n] > round[n]]_vars

(* Every client behaves as ClientSession says, which Bluesync implements. *)
Phase(n) ==
  CASE state[n] = "BS_SYNC" -> "collect" [] state[n] = "BS_ADV" -> "relay" [] OTHER -> "wait"
Session(n) == INSTANCE ClientSession WITH
  Rounds <- 0 .. MaxStarts, phase <- Phase(n), round <- round[n], heard <- new_round[n]
ClientsAreSessions ==
  /\ \A n \in Clients : Session(n)!Init
  /\ [][\A n \in Clients : [Session(n)!Next]_(Session(n)!vars)]_vars

(* Each round dies out: no two nodes pass it back and forth. *)
Quiesces == <>[]Resting

(***************************************************************************)
(* A round that the authority starts reaches the end of the line, unless   *)
(* some client has missed too much of its upstream neighbour's burst.      *)
(***************************************************************************)
Delivered ==
  \A r \in 1 .. MaxStarts : (starts = r) ~> (starved \/ \A n \in Clients : round[n] >= r)
=============================================================================
