----------------------- MODULE BluesyncNetworkProofs -----------------------
(***************************************************************************)
(* Theorems about BluesyncNetwork, for lines of every length and bursts of *)
(* every size, when the application leaves three hops of time between two  *)
(* starts.                                                                 *)
(***************************************************************************)
EXTENDS BluesyncNetwork, FiniteSetTheorems, SequenceTheorems, TLAPS

(* The time a round takes for a hop, and the interval in which node n      *)
(* begins to relay a round that was started in the interval start.         *)
Hop == SlotNumber + 2
Arrival(n, start) == start + n * Hop

Spaced == Reach = 1 /\ Spacing >= 3 * Hop

TypeInv ==
  /\ state \in [Nodes -> State] /\ round \in [Nodes -> 0 .. MaxStarts]
  /\ new_round \in [Nodes -> 0 .. MaxStarts]
  /\ slot \in [Nodes -> Nat] /\ timer \in [Nodes -> Int]
  /\ from \in [Nodes -> SUBSET (Nodes \X (0 .. MaxStarts))]
  /\ now \in Nat /\ began \in [1 .. MaxStarts -> Nat] /\ due \subseteq Nodes

StartsInv ==
  /\ \A r \in 1 .. starts : began[r] <= now
  /\ \A r, s \in 1 .. starts : r < s => began[s] >= began[r] + 3 * Hop
  /\ requested = TRUE => state[0] = "BS_STOP" /\ starts >= 1 /\ now = began[starts]

RoundsInv ==
  \A n \in Nodes :
    /\ round[n] <= starts
    /\ round[n] >= 1 => Arrival(n, began[round[n]]) <= now
    /\ n >= 1 => round[n] <= round[n - 1]

RestInv ==
  \A n \in Nodes :
    /\ state[n] = "BS_STOP" => n = 0
    /\ state[n] = "BS_SCAN_WAIT_FOR_SYNC" => n # 0
    /\ state[n] # "BS_ADV" => slot[n] = 0
    /\ state[n] # "BS_SYNC" => from[n] = {}
    /\ n \in due => state[n] \in {"BS_ADV", "BS_SYNC"}

RelayInv ==
  \A n \in Nodes : state[n] = "BS_ADV" =>
    /\ round[n] >= 1 /\ slot[n] <= SlotNumber + 1
    /\ n \in due => now = Arrival(n, began[round[n]]) + slot[n]
    /\ n \notin due => slot[n] >= 1 /\ now + 1 = Arrival(n, began[round[n]]) + slot[n]

CollectInv ==
  \A n \in Nodes : state[n] = "BS_SYNC" =>
    /\ n >= 1
    /\ new_round[n] = round[n - 1] /\ new_round[n] > round[n]
    /\ from[n] = {<<n - 1, new_round[n]>>}
    /\ now + timer[n] = Arrival(n, began[new_round[n]])
    /\ timer[n] >= 0 /\ (n \in due <=> timer[n] = 0)

Timetable == TypeInv /\ StartsInv /\ RoundsInv /\ RestInv /\ RelayInv /\ CollectInv

-----------------------------------------------------------------------------
(* Arithmetic of the timetable. *)

LEMMA HopIsNat == Hop \in Nat /\ Hop = SlotNumber + 2 /\ Hop >= 4
BY NetworkAssumption DEF Hop

LEMMA StartsInBounds ==
  ASSUME TypeInv
  PROVE  /\ starts \in 0 .. MaxStarts /\ MaxStarts \in Nat
         /\ \A r \in 1 .. starts : r \in 1 .. MaxStarts
<1>1. 0 \in Nodes
  BY NetworkAssumption DEF Nodes
<1> QED
  BY <1>1, NetworkAssumption DEF TypeInv, starts

LEMMA ArrivalByHop ==
  ASSUME TypeInv, NEW n \in Nat, NEW r \in 1 .. MaxStarts
  PROVE  /\ Arrival(n, began[r]) \in Nat
         /\ Arrival(0, began[r]) = began[r]
         /\ Arrival(n + 1, began[r]) = Arrival(n, began[r]) + Hop
<1>1. began[r] \in Nat
  BY DEF TypeInv
<1>2. n * Hop \in Nat /\ 0 * Hop = 0 /\ (n + 1) * Hop = n * Hop + Hop
  BY HopIsNat
<1> QED
  BY <1>1, <1>2, HopIsNat DEF Arrival

LEMMA ArrivalByRound ==
  ASSUME TypeInv, StartsInv, NEW n \in Nat, NEW r \in 1 .. starts, NEW s \in 1 .. starts, r < s
  PROVE  Arrival(n, began[s]) >= Arrival(n, began[r]) + 3 * Hop
<1>1. began[s] >= began[r] + 3 * Hop
  BY DEF StartsInv
<1>2. began[s] \in Nat /\ began[r] \in Nat
  BY StartsInBounds DEF TypeInv
<1>3. n * Hop \in Nat
  BY HopIsNat
<1> QED
  BY <1>1, <1>2, <1>3, HopIsNat DEF Arrival

-----------------------------------------------------------------------------
(* What the timetable says of nodes that are near each other. *)

LEMMA Relaying ==
  ASSUME Timetable, NEW n \in Nodes, state[n] = "BS_ADV"
  PROVE  /\ round[n] \in 1 .. starts /\ round[n] \in 1 .. MaxStarts
         /\ n \in Nat /\ now \in Nat
         /\ Arrival(n, began[round[n]]) <= now /\ now < Arrival(n, began[round[n]]) + Hop
<1>1. /\ round[n] \in 0 .. MaxStarts /\ slot[n] \in Nat /\ now \in Nat /\ n \in Nat
      /\ SlotNumber \in Nat /\ MaxStarts \in Nat
  BY NetworkAssumption DEF Timetable, TypeInv, Nodes
<1>2. round[n] >= 1 /\ round[n] <= starts /\ slot[n] <= SlotNumber + 1
  BY DEF Timetable, RelayInv, RoundsInv
<1>3. round[n] \in 1 .. starts /\ round[n] \in 1 .. MaxStarts
  BY <1>1, <1>2, StartsInBounds DEF Timetable
<1>4. Arrival(n, began[round[n]]) \in Nat
  BY <1>1, <1>3, ArrivalByHop DEF Timetable
<1>5. CASE n \in due
  <2>1. now = Arrival(n, began[round[n]]) + slot[n]
    BY <1>5 DEF Timetable, RelayInv
  <2> QED
    BY <1>1, <1>2, <1>3, <1>4, <2>1, HopIsNat
<1>6. CASE n \notin due
  <2>1. slot[n] >= 1 /\ now + 1 = Arrival(n, began[round[n]]) + slot[n]
    BY <1>6 DEF Timetable, RelayInv
  <2> QED
    BY <1>1, <1>2, <1>3, <1>4, <2>1, HopIsNat
<1> QED
  BY <1>5, <1>6

LEMMA Collecting ==
  ASSUME Timetable, NEW n \in Nodes, state[n] = "BS_SYNC"
  PROVE  /\ n \in Clients /\ n - 1 \in Nodes /\ n \in Nat /\ n - 1 \in Nat /\ now \in Nat
         /\ new_round[n] = round[n - 1] /\ new_round[n] > round[n]
         /\ new_round[n] \in 1 .. starts /\ new_round[n] \in 1 .. MaxStarts
         /\ Arrival(n - 1, began[new_round[n]]) <= now /\ now <= Arrival(n, began[new_round[n]])
<1>1. n >= 1 /\ new_round[n] = round[n - 1] /\ new_round[n] > round[n]
      /\ now + timer[n] = Arrival(n, began[new_round[n]]) /\ timer[n] >= 0
  BY DEF Timetable, CollectInv
<1>2. n \in Clients /\ n - 1 \in Nodes /\ n \in Nat /\ n - 1 \in Nat
  BY <1>1, NetworkAssumption DEF Nodes, Clients
<1>3. /\ round[n] \in 0 .. MaxStarts /\ new_round[n] \in 0 .. MaxStarts
      /\ now \in Nat /\ timer[n] \in Int /\ MaxStarts \in Nat
  BY NetworkAssumption DEF Timetable, TypeInv
<1>4. round[n - 1] <= starts /\ (round[n - 1] >= 1 => Arrival(n - 1, began[round[n - 1]]) <= now)
  BY <1>2 DEF Timetable, RoundsInv
<1>5. new_round[n] \in 1 .. starts /\ new_round[n] \in 1 .. MaxStarts
  BY <1>1, <1>3, <1>4, StartsInBounds DEF Timetable
<1>6. Arrival(n, began[new_round[n]]) \in Nat
  BY <1>2, <1>5, ArrivalByHop DEF Timetable
<1> QED
  BY <1>1, <1>2, <1>3, <1>4, <1>5, <1>6

(* While a node relays a round, its two upstream neighbours are still on it. *)
LEMMA UpstreamOnRound ==
  ASSUME Timetable, NEW o \in Nodes, NEW n \in Nodes, state[o] = "BS_ADV",
         o = n + 1 \/ o = n + 2
  PROVE  round[n] = round[o]
<1>1. /\ n \in Nat /\ n + 1 \in Nodes
  BY NetworkAssumption DEF Nodes
<1>2. /\ round[n] \in 0 .. MaxStarts /\ round[n + 1] \in 0 .. MaxStarts
      /\ round[o] \in 0 .. MaxStarts /\ MaxStarts \in Nat
  BY <1>1, NetworkAssumption DEF Timetable, TypeInv
<1>3. round[o] <= round[n]
  <2>1. round[n + 1] <= round[n]
    BY <1>1 DEF Timetable, RoundsInv
  <2>2. CASE o = n + 2
    <3>1. o >= 1 /\ o - 1 = n + 1
      BY <1>1, <2>2
    <3>2. round[o] <= round[n + 1]
      BY <3>1 DEF Timetable, RoundsInv
    <3> QED
      BY <1>2, <2>1, <3>2
  <2> QED
    BY <2>1, <2>2
<1>4. /\ round[o] \in 1 .. starts /\ round[o] \in 1 .. MaxStarts
      /\ now < Arrival(o, began[round[o]]) + Hop /\ now \in Nat
  BY Relaying
<1>5. SUFFICES ASSUME round[o] < round[n] PROVE FALSE
  BY <1>2, <1>3
<1>6. round[n] >= 1 /\ round[n] <= starts /\ Arrival(n, began[round[n]]) <= now
  BY <1>2, <1>4, <1>5 DEF Timetable, RoundsInv
<1>7. round[n] \in 1 .. starts /\ round[n] \in 1 .. MaxStarts
  BY <1>2, <1>6, StartsInBounds DEF Timetable
<1>8. Arrival(n, began[round[n]]) >= Arrival(n, began[round[o]]) + 3 * Hop
  BY <1>1, <1>4, <1>5, <1>7, ArrivalByRound DEF Timetable
<1>9. /\ Arrival(n, began[round[o]]) \in Nat /\ Arrival(n, began[round[n]]) \in Nat
      /\ Arrival(n + 1, began[round[o]]) = Arrival(n, began[round[o]]) + Hop
      /\ Arrival((n + 1) + 1, began[round[o]]) = Arrival(n + 1, began[round[o]]) + Hop
  BY <1>1, <1>4, <1>7, ArrivalByHop DEF Timetable
<1>10. Arrival(o, began[round[o]]) <= Arrival(n, began[round[o]]) + 2 * Hop
  <2>1. CASE o = n + 1
    BY <1>9, <2>1, HopIsNat
  <2>2. CASE o = n + 2
    <3>1. o = (n + 1) + 1
      BY <1>1, <2>2
    <3> QED
      BY <1>9, <3>1, HopIsNat
  <2> QED
    BY <2>1, <2>2
<1>11. Arrival(o, began[round[o]]) \in Nat
  BY <1>4, ArrivalByHop, NetworkAssumption DEF Timetable, Nodes
<1> QED
  BY <1>4, <1>6, <1>8, <1>9, <1>10, <1>11, HopIsNat

(* Two nodes that one client can hear never relay at the same time. *)
LEMMA RelaysApart ==
  ASSUME Timetable, NEW o \in Nodes, NEW n \in Nodes, state[n] = "BS_ADV",
         o = n + 1 \/ o = n + 2
  PROVE  state[o] # "BS_ADV"
<1> SUFFICES ASSUME state[o] = "BS_ADV" PROVE FALSE
  OBVIOUS
<1>1. round[n] = round[o]
  BY UpstreamOnRound
<1>2. /\ n \in Nat /\ now \in Nat /\ round[n] \in 1 .. MaxStarts
      /\ now < Arrival(n, began[round[n]]) + Hop
  BY Relaying
<1>3. Arrival(o, began[round[o]]) <= now
  BY Relaying
<1>4. /\ Arrival(n, began[round[n]]) \in Nat
      /\ Arrival(n + 1, began[round[n]]) = Arrival(n, began[round[n]]) + Hop
      /\ Arrival((n + 1) + 1, began[round[n]]) = Arrival(n + 1, began[round[n]]) + Hop
  BY <1>2, ArrivalByHop DEF Timetable
<1>5. CASE o = n + 1
  BY <1>1, <1>2, <1>3, <1>4, <1>5, HopIsNat
<1>6. CASE o = n + 2
  <2>1. o = (n + 1) + 1
    BY <1>2, <1>6
  <2> QED
    BY <1>1, <1>2, <1>3, <1>4, <2>1, HopIsNat
<1> QED
  BY <1>5, <1>6

(* The node from which another has just had a round does not collect. *)
LEMMA UpstreamNotCollecting ==
  ASSUME Timetable, NEW n \in Nodes, n + 1 \in Nodes,
         state[n + 1] \in {"BS_ADV", "BS_SYNC"}
  PROVE  state[n] # "BS_SYNC"
<1> SUFFICES ASSUME state[n] = "BS_SYNC" PROVE FALSE
  OBVIOUS
<1>1. /\ n \in Nat /\ n - 1 \in Nodes /\ n - 1 \in Nat /\ now \in Nat
      /\ new_round[n] = round[n - 1] /\ new_round[n] > round[n]
      /\ new_round[n] \in 1 .. starts /\ new_round[n] \in 1 .. MaxStarts
      /\ Arrival(n - 1, began[new_round[n]]) <= now
  BY Collecting
<1>2. CASE state[n + 1] = "BS_ADV"
  <2>1. round[n] = round[n + 1]
    BY <1>2, UpstreamOnRound
  <2>2. n + 1 = (n - 1) + 2
    BY <1>1
  <2>3. round[n - 1] = round[n + 1]
    BY <1>1, <1>2, <2>2, UpstreamOnRound
  <2>4. round[n] \in 0 .. MaxStarts /\ MaxStarts \in Nat
    BY NetworkAssumption DEF Timetable, TypeInv
  <2> QED
    BY <1>1, <2>1, <2>3, <2>4
<1>3. CASE state[n + 1] = "BS_SYNC"
  <2>1. (n + 1) - 1 = n
    BY <1>1
  <2>2. /\ round[n] \in 1 .. starts /\ round[n] \in 1 .. MaxStarts
        /\ now <= Arrival(n + 1, began[round[n]])
    BY <1>3, <2>1, Collecting
  <2>3. Arrival(n - 1, began[new_round[n]]) >= Arrival(n - 1, began[round[n]]) + 3 * Hop
    BY <1>1, <2>2, ArrivalByRound DEF Timetable
  <2>4. /\ Arrival((n - 1) + 1, began[round[n]]) = Arrival(n - 1, began[round[n]]) + Hop
        /\ Arrival(n + 1, began[round[n]]) = Arrival(n, began[round[n]]) + Hop
        /\ Arrival(n - 1, began[round[n]]) \in Nat /\ Arrival(n - 1, began[new_round[n]]) \in Nat
    BY <1>1, <2>2, ArrivalByHop DEF Timetable
  <2>5. (n - 1) + 1 = n
    BY <1>1
  <2> QED
    BY <1>1, <2>2, <2>3, <2>4, <2>5, HopIsNat
<1> QED
  BY <1>2, <1>3

-----------------------------------------------------------------------------
(* Every step keeps to the timetable. *)

LEMMA TypeStep ==
  ASSUME TypeInv, [Next]_vars
  PROVE  TypeInv'
<1>0. 0 \in Nodes /\ SlotNumber \in Nat /\ MaxStarts \in Nat
  BY NetworkAssumption DEF Nodes
<1>1. ASSUME NEW n \in Nodes, Send(n) PROVE TypeInv'
  <2>1. PICK heard \in SUBSET Hearers(n) : Receive(heard, n, slot[n], round[n])
    BY <1>1 DEF Send
  <2>2. slot[n] \in Nat /\ round[n] \in 0 .. MaxStarts
    BY DEF TypeInv
  <2>3. Remaining(slot[n]) \in Int
    BY <1>0, <2>2 DEF Remaining
  <2>4. state' \in [Nodes -> State] /\ new_round' \in [Nodes -> 0 .. MaxStarts]
    BY <2>1, <2>2 DEF Receive, TypeInv, State
  <2>5. timer' \in [Nodes -> Int]
    BY <2>1, <2>3 DEF Receive, TypeInv
  <2>6. from' \in [Nodes -> SUBSET (Nodes \X (0 .. MaxStarts))]
    <3>1. <<n, round[n]>> \in Nodes \X (0 .. MaxStarts)
      BY <2>2
    <3> DEFINE here == <<n, round[n]>>
               all == Nodes \X (0 .. MaxStarts)
    <3> HIDE DEF here, all
    <3>2. here \in all /\ from \in [Nodes -> SUBSET all]
      BY <3>1 DEF here, all, TypeInv
    <3>3. \A f \in SUBSET all : f \cup {here} \in SUBSET all
      BY <3>2
    <3>4. PICK storing : from' = [m \in Nodes |-> IF m \in storing THEN from[m] \cup {here}
                                                                  ELSE from[m]]
      BY <2>1 DEF Receive, here
    <3>5. from' \in [Nodes -> SUBSET all]
      BY <3>2, <3>3, <3>4
    <3> QED
      BY <3>5 DEF all
  <2>7. slot' \in [Nodes -> Nat]
    BY <1>1, <2>2 DEF Send, TypeInv
  <2>8. due' \subseteq Nodes /\ UNCHANGED <<round, now, began>>
    BY <1>1 DEF Send, TypeInv
  <2> QED
    BY <2>4, <2>5, <2>6, <2>7, <2>8 DEF TypeInv
<1>2. ASSUME NEW n \in Nodes, EndBurst(n) PROVE TypeInv'
  BY <1>2 DEF EndBurst, TypeInv, State
<1>3. ASSUME NEW n \in Clients, Adopt(n) \/ GiveUp(n) PROVE TypeInv'
  <2>1. n \in Nodes
    BY NetworkAssumption DEF Nodes, Clients
  <2> QED
    BY <1>3, <2>1 DEF Adopt, GiveUp, Expire, TypeInv, State
<1>4. CASE StartNetSync
  <2>1. starts + 1 \in 1 .. MaxStarts /\ starts = round[0] /\ round[0] + 1 \in 0 .. MaxStarts
    BY <1>0, <1>4 DEF StartNetSync, starts, TypeInv
  <2>2. round' \in [Nodes -> 0 .. MaxStarts] /\ began' \in [1 .. MaxStarts -> Nat]
    BY <1>0, <1>4, <2>1 DEF StartNetSync, TypeInv
  <2>3. UNCHANGED <<state, new_round, slot, timer, from, due, now>>
    BY <1>4 DEF StartNetSync
  <2> QED
    BY <2>2, <2>3 DEF TypeInv
<1>5. CASE TakeNewSync
  <2>1. /\ state' = [state EXCEPT ![0] = "BS_ADV"] /\ due' = due \cup {0}
        /\ UNCHANGED <<round, new_round, slot, timer, from, now, began>>
    BY <1>5 DEF TakeNewSync
  <2> QED
    BY <1>0, <2>1 DEF TypeInv, State
<1>6. CASE NextInterval
  <2>1. timer' \in [Nodes -> Int] /\ now' \in Nat /\ due' \subseteq Nodes
    BY <1>6 DEF NextInterval, TypeInv
  <2>2. UNCHANGED <<state, round, new_round, slot, from, began>>
    BY <1>6 DEF NextInterval
  <2> QED
    BY <2>1, <2>2 DEF TypeInv
<1>7. CASE UNCHANGED vars
  BY <1>7 DEF vars, nodeVars, TypeInv
<1> QED
  BY <1>1, <1>2, <1>3, <1>4, <1>5, <1>6, <1>7 DEF Next, Protocol

LEMMA SameRound == \A r \in Nat : Same(r, r)
<1>1. \A r \in Nat : r - r = 0
  OBVIOUS
<1>2. 0 % RoundIds = 0
  BY NetworkAssumption
<1> QED
  BY <1>1, <1>2 DEF Same

(* Only the next client downstream takes anything from a packet. *)
LEMMA HeardDownstream ==
  ASSUME Spaced, Timetable, NEW n \in Nodes, state[n] = "BS_ADV", NEW m \in Hearers(n),
         Starts(m, round[n]) \/ state[m] = "BS_SYNC"
  PROVE  m = n + 1
<1>1. m \in Clients /\ m \in Nodes /\ n \in Nat /\ m \in Nat /\ (m = n + 1 \/ n = m + 1)
  BY NetworkAssumption DEF Hearers, Spaced, Clients, Nodes
<1> SUFFICES ASSUME n = m + 1 PROVE FALSE
  BY <1>1
<1>2. state[m] # "BS_SYNC"
  BY <1>1, UpstreamNotCollecting
<1>3. round[m] = round[n]
  BY <1>1, UpstreamOnRound
<1>4. round[n] \in Nat
  BY Relaying
<1> QED
  BY <1>2, <1>3, <1>4, SameRound DEF Starts

LEMMA SendStep ==
  ASSUME Spaced, Timetable, TypeInv', NEW n \in Nodes, Send(n)
  PROVE  Timetable'
<1>1. PICK heard \in SUBSET Hearers(n) : Receive(heard, n, slot[n], round[n])
  BY DEF Send
<1> DEFINE starting == {m \in heard : Starts(m, round[n])}
           storing == starting \cup {m \in heard : state[m] = "BS_SYNC"}
<1>2. /\ n \in due /\ state[n] = "BS_ADV" /\ slot[n] <= SlotNumber
      /\ slot' = [slot EXCEPT ![n] = @ + 1] /\ due' = due \ {n}
      /\ round' = round /\ now' = now /\ began' = began /\ requested' = requested
      /\ n \in Nat /\ slot[n] \in Nat /\ SlotNumber \in Nat
  BY NetworkAssumption DEF Send, Timetable, TypeInv, Nodes
<1>3. /\ state' = [m \in Nodes |-> IF m \in starting THEN "BS_SYNC" ELSE state[m]]
      /\ new_round' = [m \in Nodes |-> IF m \in starting THEN round[n] ELSE new_round[m]]
      /\ timer' = [m \in Nodes |-> IF m \in starting THEN Remaining(slot[n]) ELSE timer[m]]
      /\ from' = [m \in Nodes |-> IF m \in storing THEN from[m] \cup {<<n, round[n]>>}
                                                   ELSE from[m]]
  BY <1>1 DEF Receive
<1>4. \A m \in storing : m = n + 1 /\ m # n /\ m - 1 = n
  BY <1>2, HeardDownstream
<1>5. \A m \in starting : /\ m \in storing /\ state[m] = "BS_SCAN_WAIT_FOR_SYNC"
                          /\ ~Same(round[n], round[m])
  BY DEF Starts
<1>6. /\ round[n] \in 1 .. MaxStarts /\ Arrival(n, began[round[n]]) \in Nat
      /\ now = Arrival(n, began[round[n]]) + slot[n] /\ now \in Nat
      /\ Arrival(n + 1, began[round[n]]) = Arrival(n, began[round[n]]) + Hop
  BY <1>2, Relaying, ArrivalByHop DEF Timetable, RelayInv
<1> HIDE DEF starting, storing
<1>7. StartsInv'
  <2>1. state[0] = "BS_STOP" => 0 \notin starting
    BY <1>5
  <2>2. 0 \in Nodes
    BY NetworkAssumption DEF Nodes
  <2> QED
    BY <1>2, <1>3, <2>1, <2>2 DEF Timetable, StartsInv, starts
<1>8. RoundsInv'
  BY <1>2 DEF Timetable, RoundsInv, starts
<1>9. RestInv'
  <2> SUFFICES ASSUME NEW m \in Nodes
               PROVE  /\ state'[m] = "BS_STOP" => m = 0
                      /\ state'[m] = "BS_SCAN_WAIT_FOR_SYNC" => m # 0
                      /\ state'[m] # "BS_ADV" => slot'[m] = 0
                      /\ state'[m] # "BS_SYNC" => from'[m] = {}
                      /\ m \in due' => state'[m] \in {"BS_ADV", "BS_SYNC"}
    BY DEF RestInv
  <2>1. CASE m \in starting
    <3>1. state'[m] = "BS_SYNC" /\ slot'[m] = slot[m] /\ slot[m] = 0
      BY <1>2, <1>3, <1>4, <1>5, <2>1 DEF Timetable, RestInv, TypeInv
    <3> QED
      BY <3>1
  <2>2. CASE m \notin starting
    <3>1. state'[m] = state[m]
      BY <1>3, <2>2
    <3>2. state[m] # "BS_SYNC" => from'[m] = from[m]
      BY <1>3, <2>2 DEF storing
    <3>3. state[m] # "BS_ADV" => slot'[m] = slot[m]
      BY <1>2 DEF Timetable, TypeInv
    <3> QED
      BY <1>2, <3>1, <3>2, <3>3 DEF Timetable, RestInv
  <2> QED
    BY <2>1, <2>2
<1>10. RelayInv'
  <2> SUFFICES ASSUME NEW m \in Nodes, state'[m] = "BS_ADV"
               PROVE  /\ round'[m] >= 1 /\ slot'[m] <= SlotNumber + 1
                      /\ m \in due' => now' = Arrival(m, began'[round'[m]]) + slot'[m]
                      /\ m \notin due' =>
                           slot'[m] >= 1 /\ now' + 1 = Arrival(m, began'[round'[m]]) + slot'[m]
    BY DEF RelayInv
  <2>1. m \notin starting /\ state[m] = "BS_ADV"
    BY <1>3
  <2>2. CASE m = n
    <3>1. slot'[n] = slot[n] + 1 /\ n \notin due'
      BY <1>2 DEF Timetable, TypeInv
    <3> QED
      BY <1>2, <1>6, <2>2, <3>1
  <2>3. CASE m # n
    <3>1. slot'[m] = slot[m] /\ (m \in due' <=> m \in due)
      BY <1>2, <2>3 DEF Timetable, TypeInv
    <3> QED
      BY <1>2, <2>1, <3>1 DEF Timetable, RelayInv
  <2> QED
    BY <2>2, <2>3
<1>11. CollectInv'
  <2> SUFFICES ASSUME NEW m \in Nodes, state'[m] = "BS_SYNC"
               PROVE  /\ m >= 1
                      /\ new_round'[m] = round'[m - 1] /\ new_round'[m] > round'[m]
                      /\ from'[m] = {<<m - 1, new_round'[m]>>}
                      /\ now' + timer'[m] = Arrival(m, began'[new_round'[m]])
                      /\ timer'[m] >= 0 /\ (m \in due' <=> timer'[m] = 0)
    BY DEF CollectInv
  <2>1. CASE m \in starting
    <3>1. /\ m = n + 1 /\ m - 1 = n /\ m \in storing /\ state[m] = "BS_SCAN_WAIT_FOR_SYNC"
          /\ ~Same(round[n], round[m])
      BY <1>4, <1>5, <2>1
    <3>2. /\ new_round'[m] = round[n] /\ timer'[m] = SlotNumber + 1 + 1 - slot[n]
          /\ from'[m] = {<<n, round[n]>>}
      BY <1>3, <2>1, <3>1 DEF Remaining, Timetable, RestInv
    <3>3. round[m] < round[n]
      <4>1. m >= 1 /\ round[m] <= round[n]
        BY <1>2, <3>1 DEF Timetable, RoundsInv
      <4>2. round[m] # round[n]
        BY <1>6, <3>1, SameRound
      <4>3. round[m] \in 0 .. MaxStarts /\ MaxStarts \in Nat
        BY NetworkAssumption DEF Timetable, TypeInv
      <4> QED
        BY <1>6, <4>1, <4>2, <4>3
    <3>4. m \notin due'
      BY <1>2, <3>1 DEF Timetable, RestInv
    <3>5. timer'[m] >= 1 /\ now + timer'[m] = Arrival(n, began[round[n]]) + Hop
      BY <1>2, <1>6, <3>2, HopIsNat
    <3>6. timer'[m] \in Int
      BY DEF TypeInv
    <3> QED
      BY <1>2, <1>6, <3>1, <3>2, <3>3, <3>4, <3>5, <3>6
  <2>2. CASE m \notin starting
    <3>1. /\ state[m] = "BS_SYNC" /\ new_round'[m] = new_round[m] /\ timer'[m] = timer[m]
          /\ m # n
      BY <1>2, <1>3, <2>2
    <3>2. from'[m] = from[m]
      <4>1. CASE m \in storing
        <5>1. m - 1 = n
          BY <1>4, <4>1
        <5>2. from[m] = {<<n, round[n]>>}
          BY <3>1, <5>1 DEF Timetable, CollectInv
        <5> QED
          BY <1>3, <4>1, <5>2
      <4>2. CASE m \notin storing
        BY <1>3, <4>2
      <4> QED
        BY <4>1, <4>2
    <3> QED
      BY <1>2, <3>1, <3>2 DEF Timetable, CollectInv
  <2> QED
    BY <2>1, <2>2
<1> QED
  BY <1>7, <1>8, <1>9, <1>10, <1>11 DEF Timetable

LEMMA EndBurstStep ==
  ASSUME Timetable, TypeInv', NEW n \in Nodes, EndBurst(n)
  PROVE  Timetable'
<1>1. /\ n \in due /\ state[n] = "BS_ADV" /\ n \in Nat
      /\ state' = [state EXCEPT ![n] = IF n = 0 THEN "BS_STOP" ELSE "BS_SCAN_WAIT_FOR_SYNC"]
      /\ slot' = [slot EXCEPT ![n] = 0] /\ due' = due \ {n}
      /\ UNCHANGED <<round, new_round, timer, from, requested, now, began>>
  BY NetworkAssumption DEF EndBurst, Nodes
<1>2. /\ state'[n] = IF n = 0 THEN "BS_STOP" ELSE "BS_SCAN_WAIT_FOR_SYNC"
      /\ slot'[n] = 0 /\ from[n] = {}
  BY <1>1 DEF Timetable, TypeInv, RestInv
<1>3. \A m \in Nodes : m # n =>
        state'[m] = state[m] /\ slot'[m] = slot[m] /\ (m \in due' <=> m \in due)
  BY <1>1 DEF Timetable, TypeInv
<1>4. StartsInv'
  <2>1. requested = TRUE => n # 0
    BY <1>1 DEF Timetable, StartsInv
  <2>2. 0 \in Nodes
    BY NetworkAssumption DEF Nodes
  <2> QED
    BY <1>1, <1>3, <2>1, <2>2 DEF Timetable, StartsInv, starts
<1>5. RoundsInv'
  BY <1>1 DEF Timetable, RoundsInv, starts
<1>6. RestInv'
  BY <1>1, <1>2, <1>3 DEF Timetable, RestInv
<1>7. RelayInv'
  BY <1>1, <1>2, <1>3 DEF Timetable, RelayInv
<1>8. CollectInv'
  BY <1>1, <1>2, <1>3 DEF Timetable, CollectInv
<1> QED
  BY <1>4, <1>5, <1>6, <1>7, <1>8 DEF Timetable

LEMMA GiveUpStep ==
  ASSUME Timetable, TypeInv', NEW n \in Clients, GiveUp(n)
  PROVE  Timetable'
<1>1. /\ n \in due /\ state[n] = "BS_SYNC" /\ n \in Nodes /\ n # 0
      /\ state' = [state EXCEPT ![n] = "BS_SCAN_WAIT_FOR_SYNC"]
      /\ from' = [from EXCEPT ![n] = {}] /\ due' = due \ {n}
      /\ UNCHANGED <<round, new_round, slot, timer, requested, now, began>>
  BY NetworkAssumption DEF GiveUp, Expire, Nodes, Clients
<1>2. state'[n] = "BS_SCAN_WAIT_FOR_SYNC" /\ slot[n] = 0 /\ from'[n] = {}
  BY <1>1 DEF Timetable, TypeInv, RestInv
<1>3. \A m \in Nodes : m # n =>
        state'[m] = state[m] /\ from'[m] = from[m] /\ (m \in due' <=> m \in due)
  BY <1>1 DEF Timetable, TypeInv
<1>4. StartsInv'
  <2>1. 0 \in Nodes
    BY NetworkAssumption DEF Nodes
  <2> QED
    BY <1>1, <1>3, <2>1 DEF Timetable, StartsInv, starts
<1>5. RoundsInv'
  BY <1>1 DEF Timetable, RoundsInv, starts
<1>6. RestInv'
  BY <1>1, <1>2, <1>3 DEF Timetable, RestInv
<1>7. RelayInv'
  BY <1>1, <1>2, <1>3 DEF Timetable, RelayInv
<1>8. CollectInv'
  BY <1>1, <1>2, <1>3 DEF Timetable, CollectInv
<1> QED
  BY <1>4, <1>5, <1>6, <1>7, <1>8 DEF Timetable

LEMMA AdoptStep ==
  ASSUME Timetable, TypeInv', NEW n \in Clients, Adopt(n)
  PROVE  Timetable'
<1>1. /\ n \in due /\ state[n] = "BS_SYNC" /\ n \in Nodes /\ n >= 1
      /\ round' = [round EXCEPT ![n] = new_round[n]]
      /\ state' = [state EXCEPT ![n] = "BS_ADV"]
      /\ from' = [from EXCEPT ![n] = {}]
      /\ UNCHANGED <<new_round, slot, timer, due, requested, now, began>>
  BY NetworkAssumption DEF Adopt, Expire, Nodes, Clients
<1>2. /\ state'[n] = "BS_ADV" /\ slot[n] = 0 /\ from'[n] = {} /\ round'[n] = new_round[n]
      /\ \A m \in Nodes : m # n =>
           state'[m] = state[m] /\ from'[m] = from[m] /\ round'[m] = round[m]
  BY <1>1 DEF Timetable, TypeInv, RestInv
<1>3. /\ new_round[n] = round[n - 1] /\ new_round[n] > round[n]
      /\ new_round[n] \in 1 .. starts /\ new_round[n] \in 1 .. MaxStarts
      /\ n - 1 \in Nodes /\ n \in Nat /\ now \in Nat
  BY <1>1, Collecting
<1>4. now = Arrival(n, began[new_round[n]])
  <2>1. timer[n] = 0 /\ now + timer[n] = Arrival(n, began[new_round[n]])
    BY <1>1 DEF Timetable, CollectInv
  <2> QED
    BY <1>3, <2>1
<1>5. 0 \in Nodes /\ 0 # n /\ starts' = starts /\ starts \in Nat
  BY <1>1, <1>2, NetworkAssumption, StartsInBounds DEF Nodes, starts, Timetable
<1>6. StartsInv'
  BY <1>1, <1>2, <1>5 DEF Timetable, StartsInv
<1>7. RoundsInv'
  <2> SUFFICES ASSUME NEW m \in Nodes
               PROVE  /\ round'[m] <= starts'
                      /\ round'[m] >= 1 => Arrival(m, began'[round'[m]]) <= now'
                      /\ m >= 1 => round'[m] <= round'[m - 1]
    BY DEF RoundsInv
  <2>1. CASE m = n
    <3>1. round'[n - 1] = round[n - 1]
      BY <1>2, <1>3
    <3> QED
      BY <1>1, <1>2, <1>3, <1>4, <1>5, <2>1, <3>1
  <2>2. CASE m # n
    <3>1. /\ round'[m] = round[m] /\ round[m] <= starts
          /\ round[m] >= 1 => Arrival(m, began[round[m]]) <= now
          /\ m >= 1 => round[m] <= round[m - 1]
      BY <1>2, <2>2 DEF Timetable, RoundsInv
    <3>2. m >= 1 => round[m - 1] <= round'[m - 1]
      <4>1. SUFFICES ASSUME m >= 1 PROVE round[m - 1] <= round'[m - 1]
        OBVIOUS
      <4>2. m - 1 \in Nodes
        BY <4>1, NetworkAssumption DEF Nodes
      <4>3. round[m - 1] \in 0 .. MaxStarts /\ MaxStarts \in Nat
        BY <4>2, NetworkAssumption DEF Timetable, TypeInv
      <4>4. CASE m - 1 = n
        BY <1>2, <1>3, <4>3, <4>4
      <4>5. CASE m - 1 # n
        BY <1>2, <4>2, <4>3, <4>5
      <4> QED
        BY <4>4, <4>5
    <3>3. m >= 1 => /\ round[m] \in Nat /\ round[m - 1] \in Nat /\ round'[m - 1] \in Nat
      <4>1. m >= 1 => m - 1 \in Nodes
        BY NetworkAssumption DEF Nodes
      <4> QED
        BY <4>1, NetworkAssumption DEF Timetable, TypeInv
    <3> QED
      BY <1>1, <1>5, <3>1, <3>2, <3>3
  <2> QED
    BY <2>1, <2>2
<1>8. RestInv'
  BY <1>1, <1>2 DEF Timetable, RestInv
<1>9. RelayInv'
  <2> SUFFICES ASSUME NEW m \in Nodes, state'[m] = "BS_ADV"
               PROVE  /\ round'[m] >= 1 /\ slot'[m] <= SlotNumber + 1
                      /\ m \in due' => now' = Arrival(m, began'[round'[m]]) + slot'[m]
                      /\ m \notin due' =>
                           slot'[m] >= 1 /\ now' + 1 = Arrival(m, began'[round'[m]]) + slot'[m]
    BY DEF RelayInv
  <2>1. CASE m = n
    <3>1. 0 <= SlotNumber + 1 /\ new_round[n] >= 1 /\ now = now + 0
      BY <1>3, NetworkAssumption
    <3> QED
      BY <1>1, <1>2, <1>4, <2>1, <3>1
  <2>2. CASE m # n
    BY <1>1, <1>2, <2>2 DEF Timetable, RelayInv
  <2> QED
    BY <2>1, <2>2
<1>10. CollectInv'
  <2> SUFFICES ASSUME NEW m \in Nodes, state'[m] = "BS_SYNC"
               PROVE  /\ m >= 1
                      /\ new_round'[m] = round'[m - 1] /\ new_round'[m] > round'[m]
                      /\ from'[m] = {<<m - 1, new_round'[m]>>}
                      /\ now' + timer'[m] = Arrival(m, began'[new_round'[m]])
                      /\ timer'[m] >= 0 /\ (m \in due' <=> timer'[m] = 0)
    BY DEF CollectInv
  <2>1. m # n /\ state[m] = "BS_SYNC"
    BY <1>2
  <2>2. m - 1 # n
    <3>1. SUFFICES ASSUME m = n + 1 PROVE FALSE
      BY <1>3, NetworkAssumption DEF Nodes
    <3> QED
      BY <1>1, <2>1, <3>1, UpstreamNotCollecting
  <2>3. m - 1 \in Nodes /\ m >= 1
    BY <2>1, Collecting, NetworkAssumption DEF Clients
  <2>4. round'[m - 1] = round[m - 1]
    BY <1>2, <2>2, <2>3
  <2> QED
    BY <1>1, <1>2, <2>1, <2>3, <2>4 DEF Timetable, CollectInv
<1> QED
  BY <1>6, <1>7, <1>8, <1>9, <1>10 DEF Timetable

LEMMA StartNetSyncStep ==
  ASSUME Spaced, Timetable, TypeInv', StartNetSync
  PROVE  Timetable'
<1>1. /\ starts < MaxStarts /\ (starts > 0 => now >= began[starts] + Spacing)
      /\ round' = [round EXCEPT ![0] = @ + 1]
      /\ began' = [began EXCEPT ![starts + 1] = now] /\ requested' = TRUE
      /\ UNCHANGED <<state, new_round, slot, timer, from, due, now>>
  BY DEF StartNetSync
<1>2. /\ 0 \in Nodes /\ starts = round[0] /\ starts \in 0 .. MaxStarts /\ MaxStarts \in Nat
      /\ now \in Nat
  BY NetworkAssumption, StartsInBounds DEF Nodes, starts, Timetable, TypeInv
<1>3. /\ starts' = starts + 1 /\ round'[0] = starts + 1
      /\ \A n \in Nodes : n # 0 => round'[n] = round[n]
  BY <1>1, <1>2 DEF starts, Timetable, TypeInv
<1>4. /\ starts + 1 \in 1 .. MaxStarts /\ began'[starts + 1] = now
      /\ \A r \in 1 .. starts : r \in 1 .. MaxStarts /\ began'[r] = began[r]
  <2>1. starts + 1 \in 1 .. MaxStarts
    BY <1>1, <1>2
  <2>2. \A r \in 1 .. starts : r \in 1 .. MaxStarts /\ r # starts + 1
    BY <1>2
  <2> QED
    BY <1>1, <2>1, <2>2 DEF Timetable, TypeInv
<1>5. starts > 0 => now >= began[starts] + 3 * Hop /\ began[starts] \in Nat
  <2>1. starts > 0 => began[starts] \in Nat
    BY <1>2 DEF Timetable, TypeInv
  <2>2. Spacing \in Nat /\ Spacing >= 3 * Hop /\ Hop \in Nat
    BY NetworkAssumption, HopIsNat DEF Spaced
  <2> QED
    BY <1>1, <1>2, <2>1, <2>2
<1>6. state[0] = "BS_STOP"
  <2>1. state[0] # "BS_ADV"
    <3> SUFFICES ASSUME state[0] = "BS_ADV" PROVE FALSE
      OBVIOUS
    <3>1. /\ starts \in 1 .. starts /\ starts \in 1 .. MaxStarts
          /\ now < Arrival(0, began[starts]) + Hop
      BY <1>2, Relaying
    <3>2. Arrival(0, began[starts]) = began[starts]
      BY <3>1, ArrivalByHop DEF Timetable
    <3> QED
      BY <1>2, <1>5, <3>1, <3>2, HopIsNat
  <2>2. state[0] # "BS_SYNC" /\ state[0] # "BS_SCAN_WAIT_FOR_SYNC"
    BY <1>2 DEF Timetable, CollectInv, RestInv
  <2> QED
    BY <1>2, <2>1, <2>2 DEF Timetable, TypeInv, State
<1>7. 1 \in Nodes => state[1] # "BS_SYNC"
  <2> SUFFICES ASSUME 1 \in Nodes, state[1] = "BS_SYNC" PROVE FALSE
    OBVIOUS
  <2>1. /\ new_round[1] = starts /\ starts \in 1 .. starts /\ starts \in 1 .. MaxStarts
        /\ now <= Arrival(1, began[starts])
    <3>1. 1 - 1 = 0
      OBVIOUS
    <3> QED
      BY <1>2, <3>1, Collecting
  <2>2. Arrival(0, began[starts]) = began[starts]
        /\ Arrival(0 + 1, began[starts]) = Arrival(0, began[starts]) + Hop
    BY <2>1, ArrivalByHop DEF Timetable
  <2> QED
    BY <1>2, <1>5, <2>1, <2>2, HopIsNat
<1>8. StartsInv'
  <2>1. \A r \in 1 .. starts' : began'[r] <= now'
    <3> SUFFICES ASSUME NEW r \in 1 .. starts + 1 PROVE began'[r] <= now
      BY <1>1, <1>3
    <3>1. CASE r \in 1 .. starts
      BY <1>4, <3>1 DEF Timetable, StartsInv
    <3>2. CASE r = starts + 1
      BY <1>2, <1>4, <3>2
    <3> QED
      BY <1>2, <3>1, <3>2
  <2>2. \A r, s \in 1 .. starts' : r < s => began'[s] >= began'[r] + 3 * Hop
    <3> SUFFICES ASSUME NEW r \in 1 .. starts + 1, NEW s \in 1 .. starts + 1, r < s
                 PROVE  began'[s] >= began'[r] + 3 * Hop
      BY <1>3
    <3>1. r \in 1 .. starts /\ starts \in 1 .. starts
      BY <1>2
    <3>2. CASE s \in 1 .. starts
      BY <1>4, <3>1, <3>2 DEF Timetable, StartsInv
    <3>3. CASE s = starts + 1
      <4>1. began[starts] >= began[r]
        <5>1. CASE r < starts
          <6>1. began[starts] >= began[r] + 3 * Hop
            BY <3>1, <5>1 DEF Timetable, StartsInv
          <6>2. began[r] \in Nat /\ began[starts] \in Nat
            BY <1>4, <3>1 DEF Timetable, TypeInv
          <6> QED
            BY <6>1, <6>2, HopIsNat
        <5>2. CASE r = starts
          BY <1>2, <1>5, <3>1, <5>2
        <5> QED
          BY <1>2, <3>1, <5>1, <5>2
      <4>2. began[r] \in Nat /\ began[starts] \in Nat
        BY <1>4, <3>1 DEF Timetable, TypeInv
      <4>3. now >= began[starts] + 3 * Hop
        BY <1>2, <1>5, <3>1
      <4>4. began'[s] = now /\ began'[r] = began[r]
        BY <1>4, <3>1, <3>3
      <4> QED
        BY <1>2, <4>1, <4>2, <4>3, <4>4, HopIsNat
    <3> QED
      BY <1>2, <3>2, <3>3
  <2>3. requested' = TRUE => state'[0] = "BS_STOP" /\ starts' >= 1 /\ now' = began'[starts']
    BY <1>1, <1>2, <1>3, <1>4, <1>6
  <2> QED
    BY <2>1, <2>2, <2>3 DEF StartsInv
<1>9. \A n \in Nodes : /\ round[n] \in 0 .. MaxStarts /\ round[n] <= starts
                       /\ round[n] >= 1 => began'[round[n]] = began[round[n]]
                       /\ n >= 1 => round[n] <= round[n - 1]
  <2> SUFFICES ASSUME NEW n \in Nodes
               PROVE  /\ round[n] \in 0 .. MaxStarts /\ round[n] <= starts
                      /\ round[n] >= 1 => round[n] \in 1 .. starts
                      /\ n >= 1 => round[n] <= round[n - 1]
    BY <1>4
  <2>1. round[n] \in 0 .. MaxStarts
    BY DEF Timetable, TypeInv
  <2>2. round[n] <= starts /\ (n >= 1 => round[n] <= round[n - 1])
    BY DEF Timetable, RoundsInv
  <2> QED
    BY <1>2, <2>1, <2>2
<1>10. RoundsInv'
  <2> SUFFICES ASSUME NEW n \in Nodes
               PROVE  /\ round'[n] <= starts'
                      /\ round'[n] >= 1 => Arrival(n, began'[round'[n]]) <= now'
                      /\ n >= 1 => round'[n] <= round'[n - 1]
    BY DEF RoundsInv
  <2>1. CASE n = 0
    <3>1. Arrival(0, began'[round'[0]]) = now
      <4>1. Arrival(0, began'[starts + 1]) = began'[starts + 1]
        BY <1>4, ArrivalByHop, StartsInBounds, HopIsNat, <1>2 DEF Arrival
      <4> QED
        BY <1>3, <1>4, <4>1
    <3> QED
      BY <1>1, <1>2, <1>3, <2>1, <3>1
  <2>2. CASE n # 0
    <3>1. /\ round'[n] = round[n] /\ n \in Nat /\ n - 1 \in Nodes /\ n >= 1
      BY <1>3, <2>2, NetworkAssumption DEF Nodes
    <3>2. round[n - 1] <= round'[n - 1]
      BY <1>2, <1>3, <1>9, <3>1
    <3>3. /\ round'[n - 1] \in 0 .. MaxStarts /\ round[n - 1] \in 0 .. MaxStarts
      BY <3>1 DEF Timetable, TypeInv
    <3>4. round[n] >= 1 => Arrival(n, began[round[n]]) <= now
      BY DEF Timetable, RoundsInv
    <3> QED
      BY <1>1, <1>2, <1>3, <1>9, <3>1, <3>2, <3>3, <3>4
  <2> QED
    BY <2>1, <2>2
<1>11. RestInv'
  BY <1>1 DEF Timetable, RestInv
<1>12. RelayInv'
  <2> SUFFICES ASSUME NEW n \in Nodes, state[n] = "BS_ADV"
               PROVE  /\ round'[n] = round[n] /\ began'[round[n]] = began[round[n]]
    BY <1>1 DEF RelayInv, Timetable
  <2>1. n # 0
    BY <1>6
  <2>2. round[n] \in 1 .. starts
    BY Relaying
  <2> QED
    BY <1>3, <1>4, <2>1, <2>2
<1>13. CollectInv'
  <2> SUFFICES ASSUME NEW n \in Nodes, state[n] = "BS_SYNC"
               PROVE  /\ round'[n] = round[n] /\ round'[n - 1] = round[n - 1]
                      /\ began'[new_round[n]] = began[new_round[n]]
    BY <1>1 DEF CollectInv, Timetable
  <2>1. n # 0 /\ n # 1 /\ n - 1 \in Nodes /\ n \in Nat /\ new_round[n] \in 1 .. starts
    BY <1>6, <1>7, Collecting
  <2>2. n - 1 # 0
    BY <2>1
  <2> QED
    BY <1>3, <1>4, <2>1, <2>2
<1> QED
  BY <1>8, <1>10, <1>11, <1>12, <1>13 DEF Timetable

LEMMA TakeNewSyncStep ==
  ASSUME Timetable, TypeInv', TakeNewSync
  PROVE  Timetable'
<1>1. /\ requested = TRUE /\ state[0] = "BS_STOP" /\ requested' = FALSE
      /\ state' = [state EXCEPT ![0] = "BS_ADV"] /\ due' = due \cup {0}
      /\ UNCHANGED <<round, new_round, slot, timer, from, now, began>>
  <2>1. requested = TRUE
    BY DEF TakeNewSync
  <2> QED
    BY <2>1 DEF TakeNewSync
<1>2. /\ 0 \in Nodes /\ starts = round[0] /\ now \in Nat /\ starts >= 1
      /\ now = began[starts] /\ starts \in 0 .. MaxStarts /\ MaxStarts \in Nat
      /\ SlotNumber \in Nat
  BY <1>1, NetworkAssumption, StartsInBounds DEF Nodes, starts, Timetable, TypeInv, StartsInv
<1>3. state'[0] = "BS_ADV" /\ slot[0] = 0 /\ from[0] = {}
  BY <1>1, <1>2 DEF Timetable, TypeInv, RestInv
<1>4. \A n \in Nodes : n # 0 => state'[n] = state[n] /\ (n \in due' <=> n \in due)
  BY <1>1 DEF Timetable, TypeInv
<1>5. StartsInv'
  BY <1>1 DEF Timetable, StartsInv, starts
<1>6. RoundsInv'
  BY <1>1 DEF Timetable, RoundsInv, starts
<1>7. RestInv'
  BY <1>1, <1>3, <1>4 DEF Timetable, RestInv
<1>8. RelayInv'
  <2> SUFFICES ASSUME NEW n \in Nodes, state'[n] = "BS_ADV"
               PROVE  /\ round'[n] >= 1 /\ slot'[n] <= SlotNumber + 1
                      /\ n \in due' => now' = Arrival(n, began'[round'[n]]) + slot'[n]
                      /\ n \notin due' =>
                           slot'[n] >= 1 /\ now' + 1 = Arrival(n, began'[round'[n]]) + slot'[n]
    BY DEF RelayInv
  <2>1. CASE n = 0
    <3>1. Arrival(0, began[starts]) = began[starts]
      BY <1>2, ArrivalByHop DEF Timetable
    <3>2. 0 \in due' /\ slot'[0] = 0 /\ round'[0] = starts /\ began' = began /\ now' = now
      BY <1>1, <1>2, <1>3
    <3> QED
      BY <1>2, <2>1, <3>1, <3>2
  <2>2. CASE n # 0
    BY <1>1, <1>4, <2>2 DEF Timetable, RelayInv
  <2> QED
    BY <2>1, <2>2
<1>9. CollectInv'
  BY <1>1, <1>3, <1>4 DEF Timetable, CollectInv
<1> QED
  BY <1>5, <1>6, <1>7, <1>8, <1>9 DEF Timetable

LEMMA NextIntervalStep ==
  ASSUME Timetable, TypeInv', NextInterval
  PROVE  Timetable'
<1>1. /\ due = {} /\ ~(requested = TRUE /\ state[0] = "BS_STOP") /\ now' = now + 1
      /\ timer' = [n \in Nodes |-> IF state[n] = "BS_SYNC" THEN timer[n] - 1 ELSE timer[n]]
      /\ due' = {n \in Nodes : state[n] = "BS_ADV" \/ (state[n] = "BS_SYNC" /\ timer'[n] = 0)}
      /\ UNCHANGED <<state, round, new_round, slot, from, began, requested>>
  <2>1. ~(requested = TRUE /\ state[0] = "BS_STOP")
    BY DEF NextInterval
  <2> QED
    BY <2>1 DEF NextInterval
<1>2. now \in Nat
  BY DEF Timetable, TypeInv
<1>3. StartsInv'
  <2>1. requested # TRUE
    BY <1>1 DEF Timetable, StartsInv
  <2>2. \A r \in 1 .. starts : began[r] \in Nat /\ began[r] <= now
    BY StartsInBounds DEF Timetable, TypeInv, StartsInv
  <2>3. \A r \in 1 .. starts : began[r] <= now + 1
    BY <1>2, <2>2
  <2> QED
    BY <1>1, <2>1, <2>3 DEF Timetable, StartsInv, starts
<1>4. RoundsInv'
  <2> SUFFICES ASSUME NEW n \in Nodes, round[n] >= 1
               PROVE  Arrival(n, began[round[n]]) <= now + 1
    BY <1>1 DEF Timetable, RoundsInv, starts
  <2>1. n \in Nat /\ round[n] \in 1 .. MaxStarts
    BY NetworkAssumption DEF Nodes, Timetable, TypeInv
  <2>2. Arrival(n, began[round[n]]) \in Nat /\ Arrival(n, began[round[n]]) <= now
    BY <2>1, ArrivalByHop DEF Timetable, RoundsInv
  <2> QED
    BY <1>2, <2>2
<1>5. RestInv'
  BY <1>1 DEF Timetable, RestInv
<1>6. RelayInv'
  <2> SUFFICES ASSUME NEW n \in Nodes, state[n] = "BS_ADV"
               PROVE  n \in due' /\ now' = Arrival(n, began[round[n]]) + slot[n]
    BY <1>1 DEF Timetable, RelayInv
  <2>1. n \in due' /\ n \notin due
    BY <1>1
  <2> QED
    BY <1>1, <2>1 DEF Timetable, RelayInv
<1>7. CollectInv'
  <2> SUFFICES ASSUME NEW n \in Nodes, state[n] = "BS_SYNC"
               PROVE  /\ now' + timer'[n] = Arrival(n, began[new_round[n]])
                      /\ timer'[n] >= 0 /\ (n \in due' <=> timer'[n] = 0)
    BY <1>1 DEF Timetable, CollectInv
  <2>1. /\ timer'[n] = timer[n] - 1 /\ timer[n] \in Int /\ timer[n] >= 0 /\ timer[n] # 0
        /\ now + timer[n] = Arrival(n, began[new_round[n]])
    BY <1>1 DEF Timetable, CollectInv, TypeInv
  <2>2. now' + timer'[n] = now + timer[n] /\ timer'[n] >= 0
    BY <1>1, <1>2, <2>1
  <2> QED
    BY <1>1, <2>1, <2>2
<1> QED
  BY <1>3, <1>4, <1>5, <1>6, <1>7 DEF Timetable

LEMMA InitTimetable == Init => Timetable
<1> SUFFICES ASSUME Init PROVE Timetable
  OBVIOUS
<1>1. 0 \in Nodes /\ MaxStarts \in Nat /\ starts = 0 /\ \A n \in Nodes : n \in Nat
  BY NetworkAssumption DEF Init, Nodes, starts
<1>2. TypeInv
  BY <1>1 DEF Init, TypeInv, State
<1>3. StartsInv
  BY <1>1 DEF Init, StartsInv
<1>4. RoundsInv
  <2> SUFFICES ASSUME NEW n \in Nodes
               PROVE  round[n] = 0 /\ (n >= 1 => round[n - 1] = 0)
    BY <1>1 DEF RoundsInv
  <2>1. n >= 1 => n - 1 \in Nodes
    BY NetworkAssumption DEF Nodes
  <2> QED
    BY <2>1 DEF Init
<1>5. RestInv /\ RelayInv /\ CollectInv
  BY <1>1 DEF Init, RestInv, RelayInv, CollectInv
<1> QED
  BY <1>2, <1>3, <1>4, <1>5 DEF Timetable

LEMMA TimetableStep ==
  ASSUME Spaced, Timetable, [Next]_vars
  PROVE  Timetable'
<1>1. TypeInv'
  BY TypeStep DEF Timetable
<1>2. ASSUME NEW n \in Nodes, Send(n) PROVE Timetable'
  BY <1>1, <1>2, SendStep
<1>3. ASSUME NEW n \in Nodes, EndBurst(n) PROVE Timetable'
  BY <1>1, <1>3, EndBurstStep
<1>4. ASSUME NEW n \in Clients, Adopt(n) PROVE Timetable'
  BY <1>1, <1>4, AdoptStep
<1>5. ASSUME NEW n \in Clients, GiveUp(n) PROVE Timetable'
  BY <1>1, <1>5, GiveUpStep
<1>6. CASE StartNetSync
  BY <1>1, <1>6, StartNetSyncStep
<1>7. CASE TakeNewSync
  BY <1>1, <1>7, TakeNewSyncStep
<1>8. CASE NextInterval
  BY <1>1, <1>8, NextIntervalStep
<1>9. CASE UNCHANGED vars
  BY <1>9 DEF vars, nodeVars, Timetable, TypeInv, StartsInv, RoundsInv, RestInv, RelayInv,
              CollectInv, starts
<1> QED
  BY <1>2, <1>3, <1>4, <1>5, <1>6, <1>7, <1>8, <1>9 DEF Next, Protocol

LEMMA TimetableKept == ASSUME Spaced PROVE Spec => []Timetable
<1>1. Timetable /\ [Next]_vars => Timetable'
  BY TimetableStep
<1> QED
  BY <1>1, InitTimetable, PTL DEF Spec

-----------------------------------------------------------------------------
(* The properties. *)

LEMMA BurstsApartHolds == ASSUME Spaced, Timetable PROVE BurstsApart
<1> SUFFICES ASSUME NEW n \in Nodes, NEW m \in Hearers(n), state[n] = "BS_ADV"
             PROVE  /\ state[m] \in {"BS_SCAN_WAIT_FOR_SYNC", "BS_SYNC"}
                    /\ from[m] \subseteq {<<n, round[n]>>}
                    /\ \A o \in Nodes : m \in Hearers(o) /\ state[o] = "BS_ADV" => o = n
  BY DEF BurstsApart
<1>1. /\ m \in Clients /\ m \in Nodes /\ n \in Nat /\ m \in Nat /\ m # 0
      /\ (m = n + 1 \/ n = m + 1)
  BY NetworkAssumption DEF Hearers, Spaced, Clients, Nodes
<1>2. state[m] # "BS_ADV"
  BY <1>1, RelaysApart
<1>3. state[m] \in {"BS_SCAN_WAIT_FOR_SYNC", "BS_SYNC"}
  BY <1>1, <1>2 DEF Timetable, TypeInv, State, RestInv
<1>4. from[m] \subseteq {<<n, round[n]>>}
  <2>1. CASE state[m] = "BS_SYNC"
    <3>1. m - 1 = n
      BY <1>1, <2>1, UpstreamNotCollecting
    <3>2. from[m] = {<<m - 1, new_round[m]>>} /\ new_round[m] = round[m - 1]
      BY <1>1, <2>1 DEF Timetable, CollectInv
    <3> QED
      BY <3>1, <3>2
  <2>2. CASE state[m] # "BS_SYNC"
    BY <1>1, <2>2 DEF Timetable, RestInv
  <2> QED
    BY <2>1, <2>2
<1>5. ASSUME NEW o \in Nodes, m \in Hearers(o), state[o] = "BS_ADV", o # n PROVE FALSE
  <2>1. o \in Nat /\ (m = o + 1 \/ o = m + 1)
    BY <1>1, <1>5, NetworkAssumption DEF Hearers, Spaced, Clients, Nodes
  <2>2. o = n + 2 \/ n = o + 2
    BY <1>1, <1>5, <2>1
  <2> QED
    BY <1>5, <2>2, RelaysApart
<1> QED
  BY <1>3, <1>4, <1>5

(***************************************************************************)
(* On a line of any length, with bursts and windows of any size, the       *)
(* bursts of two nodes that one client hears never meet, and each finds    *)
(* the client waiting or collecting it, if the application leaves three    *)
(* hops of time between two calls of bluesync_start_net_sync.              *)
(***************************************************************************)
THEOREM BurstsStayApart == ASSUME Spaced PROVE Spec => []BurstsApart
<1>1. Timetable => BurstsApart
  BY BurstsApartHolds
<1> QED
  BY <1>1, TimetableKept, PTL

(***************************************************************************)
(* Under the same timing, no client takes a packet from downstream in      *)
(* bluesync_scan_packet_process: it never synchronises with a clock that   *)
(* is made from its own.                                                   *)
(***************************************************************************)
THEOREM SyncIsFromUpstream == ASSUME Spaced PROVE Spec => []FromUpstream
<1>1. Timetable => FromUpstream
  <2> SUFFICES ASSUME Timetable, NEW m \in Clients, NEW b \in from[m] PROVE b[1] < m
    BY DEF FromUpstream
  <2>1. m \in Nodes /\ m \in Nat
    BY NetworkAssumption DEF Clients, Nodes
  <2>2. state[m] = "BS_SYNC"
    BY <2>1 DEF Timetable, RestInv
  <2>3. b = <<m - 1, new_round[m]>>
    BY <2>1, <2>2 DEF Timetable, CollectInv
  <2> QED
    BY <2>1, <2>3
<1> QED
  BY <1>1, TimetableKept, PTL

(***************************************************************************)
(* Under the same timing, drift_estimation_timer, however late in a burst  *)
(* it was started, expires after the burst has ended.                      *)
(***************************************************************************)
THEOREM ExpiryComesAfterBurst == ASSUME Spaced PROVE Spec => []ExpiryAfterBurst
<1>1. Timetable => ExpiryAfterBurst
  <2> SUFFICES ASSUME Timetable, NEW m \in Clients, state[m] = "BS_SYNC", timer[m] = 0,
                      NEW n \in Nodes, m \in Hearers(n), state[n] = "BS_ADV"
               PROVE  FALSE
    BY DEF ExpiryAfterBurst
  <2>1. m \in Nodes /\ n \in Nat /\ m \in Nat /\ (m = n + 1 \/ n = m + 1)
    BY NetworkAssumption DEF Hearers, Spaced, Clients, Nodes
  <2>2. m = n + 1
    BY <2>1, UpstreamNotCollecting
  <2>3. /\ m - 1 = n /\ new_round[m] = round[n] /\ now + timer[m] = Arrival(m, began[round[n]])
    BY <2>1, <2>2 DEF Timetable, CollectInv
  <2>4. /\ round[n] \in 1 .. MaxStarts /\ now \in Nat
        /\ now < Arrival(n, began[round[n]]) + Hop
    BY Relaying
  <2>5. Arrival(n + 1, began[round[n]]) = Arrival(n, began[round[n]]) + Hop
    BY <2>1, <2>4, ArrivalByHop DEF Timetable
  <2>6. now = Arrival(m, began[round[n]])
    BY <2>3, <2>4
  <2>7. Arrival(n, began[round[n]]) \in Nat
    BY <2>1, <2>4, ArrivalByHop DEF Timetable
  <2> QED
    BY <2>2, <2>4, <2>5, <2>6, <2>7, HopIsNat
<1> QED
  BY <1>1, TimetableKept, PTL

(***************************************************************************)
(* Under the same timing, the round that bs_update_handler adopts is a     *)
(* later one than the round it replaces, although bluesync_scan_packet_    *)
(* process only asks whether the two differ.                               *)
(***************************************************************************)
THEOREM RoundsOnlyAdvance == ASSUME Spaced PROVE Spec => RoundsAdvance
<1> DEFINE Advance == \A n \in Clients : state[n] = "BS_SYNC" /\ state'[n] = "BS_ADV"
                                           => round'[n] > round[n]
<1>1. Timetable /\ [Next]_vars => [Advance]_vars
  <2> SUFFICES ASSUME Timetable, Next,
                      NEW n \in Clients, state[n] = "BS_SYNC", state'[n] = "BS_ADV"
               PROVE  round'[n] > round[n]
    OBVIOUS
  <2>1. n \in Nodes /\ n # 0
    BY NetworkAssumption DEF Clients, Nodes
  <2>2. ASSUME NEW m \in Nodes, Send(m) PROVE FALSE
    BY <2>1, <2>2 DEF Send, Receive
  <2>3. ASSUME NEW m \in Nodes, EndBurst(m) PROVE FALSE
    BY <2>1, <2>3 DEF EndBurst, Timetable, TypeInv
  <2>4. ASSUME NEW m \in Clients, GiveUp(m) PROVE FALSE
    BY <2>1, <2>4 DEF GiveUp, Timetable, TypeInv
  <2>5. ~StartNetSync /\ ~NextInterval
    BY DEF StartNetSync, NextInterval
  <2>6. ~TakeNewSync
    BY <2>1 DEF TakeNewSync, Timetable, TypeInv
  <2>7. ASSUME NEW m \in Clients, Adopt(m) PROVE round'[n] > round[n]
    <3>1. m = n
      BY <2>1, <2>7 DEF Adopt, Timetable, TypeInv
    <3>2. round'[n] = new_round[n]
      BY <2>1, <2>7, <3>1 DEF Adopt, Timetable, TypeInv
    <3>3. new_round[n] > round[n]
      BY <2>1 DEF Timetable, CollectInv
    <3> QED
      BY <3>2, <3>3
  <2> QED
    BY <2>2, <2>3, <2>4, <2>5, <2>6, <2>7 DEF Next, Protocol
<1>2. Spec => [][Advance]_vars
  BY <1>1, TimetableKept, PTL DEF Spec
<1> QED
  BY <1>2 DEF RoundsAdvance

-----------------------------------------------------------------------------
(* What holds of every network, however its nodes hear and its starts fall. *)

LEMMA TypesKept == Spec => []TypeInv
<1>1. Init => TypeInv
  BY NetworkAssumption DEF Init, TypeInv, State, Nodes
<1>2. TypeInv /\ [Next]_vars => TypeInv'
  BY TypeStep
<1> QED
  BY <1>1, <1>2, PTL DEF Spec

(***************************************************************************)
(* Each client of the network, whoever hears whom and however close the    *)
(* starts, behaves as ClientSession says, which is also what ClientIsSession *)
(* shows of the detailed node: the two models agree on what a client does. *)
(***************************************************************************)
THEOREM ClientsKeepSessions == Spec => ClientsAreSessions
<1>1. ASSUME Init, NEW n \in Clients PROVE Session(n)!Init
  <2>1. n \in Nodes /\ n # 0 /\ 0 \in 0 .. MaxStarts
    BY NetworkAssumption DEF Clients, Nodes
  <2>2. state[n] = "BS_SCAN_WAIT_FOR_SYNC" /\ round[n] = 0 /\ new_round[n] = 0
    BY <1>1, <2>1 DEF Init
  <2> QED
    BY <2>1, <2>2 DEF Session!Init, Phase
<1>2. ASSUME TypeInv, Next, NEW n \in Clients
      PROVE  [Session(n)!Next]_(Session(n)!vars)
  <2>1. n \in Nodes /\ n # 0
    BY NetworkAssumption DEF Clients, Nodes
  <2>2. CASE UNCHANGED <<state[n], round[n], new_round[n]>>
    BY <2>2 DEF Session!vars, Phase
  <2>3. ASSUME NEW m \in Nodes, Send(m) PROVE [Session(n)!Next]_(Session(n)!vars)
    <3>1. PICK heard \in SUBSET Hearers(m) : Receive(heard, m, slot[m], round[m])
      BY <2>3 DEF Send
    <3>2. round' = round /\ round[m] \in 0 .. MaxStarts /\ round[n] \in 0 .. MaxStarts
      BY <1>2, <2>1, <2>3 DEF Send, TypeInv
    <3>3. CASE n \in heard /\ Starts(n, round[m])
      <4>1. /\ state[n] = "BS_SCAN_WAIT_FOR_SYNC" /\ state'[n] = "BS_SYNC"
            /\ new_round'[n] = round[m] /\ ~Same(round[m], round[n])
        BY <2>1, <3>1, <3>3 DEF Receive, Starts
      <4>2. round[m] # round[n]
        BY <3>2, <4>1, SameRound
      <4>3. Session(n)!Collect
        BY <3>2, <4>1, <4>2 DEF Session!Collect, Phase
      <4> QED
        BY <4>3 DEF Session!Next
    <3>4. CASE ~(n \in heard /\ Starts(n, round[m]))
      BY <2>1, <2>2, <3>1, <3>2, <3>4 DEF Receive
    <3> QED
      BY <3>3, <3>4
  <2>4. ASSUME NEW m \in Nodes, EndBurst(m) PROVE [Session(n)!Next]_(Session(n)!vars)
    <3>1. UNCHANGED <<round, new_round>>
      BY <2>4 DEF EndBurst
    <3>2. CASE m = n
      <4>1. state[n] = "BS_ADV" /\ state'[n] = "BS_SCAN_WAIT_FOR_SYNC"
        BY <1>2, <2>1, <2>4, <3>2 DEF EndBurst, TypeInv
      <4>2. Session(n)!Finish
        BY <3>1, <4>1 DEF Session!Finish, Phase
      <4> QED
        BY <4>2 DEF Session!Next
    <3>3. CASE m # n
      BY <1>2, <2>1, <2>2, <2>4, <3>1, <3>3 DEF EndBurst, TypeInv
    <3> QED
      BY <3>2, <3>3
  <2>5. ASSUME NEW m \in Clients, Adopt(m) PROVE [Session(n)!Next]_(Session(n)!vars)
    <3>1. new_round' = new_round
      BY <2>5 DEF Adopt, Expire
    <3>2. CASE m = n
      <4>1. state[n] = "BS_SYNC" /\ state'[n] = "BS_ADV" /\ round'[n] = new_round[n]
        BY <1>2, <2>1, <2>5, <3>2 DEF Adopt, Expire, TypeInv
      <4>2. Session(n)!Adopt
        BY <3>1, <4>1 DEF Session!Adopt, Phase
      <4> QED
        BY <4>2 DEF Session!Next
    <3>3. CASE m # n
      BY <1>2, <2>1, <2>2, <2>5, <3>1, <3>3 DEF Adopt, TypeInv
    <3> QED
      BY <3>2, <3>3
  <2>6. ASSUME NEW m \in Clients, GiveUp(m) PROVE [Session(n)!Next]_(Session(n)!vars)
    <3>1. UNCHANGED <<round, new_round>>
      BY <2>6 DEF GiveUp, Expire
    <3>2. CASE m = n
      <4>1. state[n] = "BS_SYNC" /\ state'[n] = "BS_SCAN_WAIT_FOR_SYNC"
        BY <1>2, <2>1, <2>6, <3>2 DEF GiveUp, Expire, TypeInv
      <4>2. Session(n)!GiveUp
        BY <3>1, <4>1 DEF Session!GiveUp, Phase
      <4> QED
        BY <4>2 DEF Session!Next
    <3>3. CASE m # n
      BY <1>2, <2>1, <2>2, <2>6, <3>1, <3>3 DEF GiveUp, TypeInv
    <3> QED
      BY <3>2, <3>3
  <2>7. CASE StartNetSync
    BY <1>2, <2>1, <2>2, <2>7 DEF StartNetSync, TypeInv
  <2>8. CASE TakeNewSync
    BY <1>2, <2>1, <2>2, <2>8 DEF TakeNewSync, TypeInv
  <2>9. CASE NextInterval
    BY <2>2, <2>9 DEF NextInterval
  <2> QED
    BY <1>2, <2>3, <2>4, <2>5, <2>6, <2>7, <2>8, <2>9 DEF Next, Protocol
<1>3. Init => \A n \in Clients : Session(n)!Init
  BY <1>1
<1>4. TypeInv /\ [Next]_vars => [\A n \in Clients : [Session(n)!Next]_(Session(n)!vars)]_vars
  BY <1>2
<1> QED
  BY <1>3, <1>4, TypesKept, PTL DEF Spec, ClientsAreSessions

(***************************************************************************)
(* The bounds of TypeOK.  A timer does not run below zero because a node   *)
(* whose timer has run out has its part of the interval to do, and only    *)
(* doing it takes the node out of BS_SYNC.                                 *)
(***************************************************************************)
TimersInv ==
  /\ timer \in [Nodes -> 0 .. SlotNumber + 2]
  /\ \A n \in Nodes : state[n] = "BS_SYNC" /\ timer[n] = 0 => n \in due
SlotsInv ==
  slot \in [Nodes -> 0 .. SlotNumber + 1] /\ got \in [Nodes -> SUBSET (0 .. SlotNumber)]
WindowsInv ==
  /\ window \in [Nodes -> Seq(0 .. SlotNumber)]
  /\ \A n \in Nodes : Len(window[n]) <= WindowSize
FlagsInv == requested \in BOOLEAN /\ starved \in BOOLEAN

LEMMA PairedInBounds ==
  ASSUME NEW slots \in SUBSET (0 .. SlotNumber) PROVE Paired(slots) \in 0 .. SlotNumber
<1> DEFINE firsts == {i \in slots : i + 1 \in slots}
<1>1. SlotNumber \in Nat /\ 0 \in Int /\ SlotNumber - 1 \in Int /\ SlotNumber >= 2
  BY NetworkAssumption
<1>2. firsts \in SUBSET (0 .. SlotNumber - 1)
  <2>1. \A i \in 0 .. SlotNumber : i + 1 \in 0 .. SlotNumber => i \in 0 .. SlotNumber - 1
    BY <1>1
  <2> QED
    BY <2>1
<1> HIDE DEF firsts
<1>3. IsFiniteSet(0 .. SlotNumber - 1)
  BY <1>1, FS_Interval
<1>4. Cardinality(0 .. SlotNumber - 1) = SlotNumber
  <2>1. Cardinality(0 .. SlotNumber - 1)
          = IF 0 > SlotNumber - 1 THEN 0 ELSE SlotNumber - 1 - 0 + 1
    BY <1>1, FS_Interval
  <2> QED
    BY <1>1, <2>1
<1>5. IsFiniteSet(firsts) /\ Cardinality(firsts) <= SlotNumber
  BY <1>2, <1>3, <1>4, FS_Subset
<1>6. Cardinality(firsts) \in Nat
  BY <1>5, FS_CardinalityType
<1>7. Cardinality(firsts) \in 0 .. SlotNumber
  BY <1>1, <1>5, <1>6
<1> QED
  BY <1>7 DEF Paired, firsts

LEMMA ReceiveBounds ==
  ASSUME TypeInv, TimersInv, SlotsInv, NEW n \in Nodes, Send(n)
  PROVE  TimersInv' /\ SlotsInv'
<1>1. PICK heard \in SUBSET Hearers(n) : Receive(heard, n, slot[n], round[n])
  BY DEF Send
<1>2. /\ slot[n] \in 0 .. SlotNumber /\ SlotNumber \in Nat /\ state[n] = "BS_ADV"
      /\ slot' = [slot EXCEPT ![n] = @ + 1] /\ due' = due \ {n}
  BY NetworkAssumption DEF Send, SlotsInv
<1>3. /\ slot[n] + 1 \in 0 .. SlotNumber + 1
      /\ Remaining(slot[n]) \in 0 .. SlotNumber + 2 /\ Remaining(slot[n]) # 0
  BY <1>2 DEF Remaining
<1>4. got' \in [Nodes -> SUBSET (0 .. SlotNumber)]
  BY <1>1, <1>2 DEF Receive, SlotsInv
<1>5. slot' \in [Nodes -> 0 .. SlotNumber + 1]
  BY <1>2, <1>3 DEF SlotsInv
<1>6. timer' \in [Nodes -> 0 .. SlotNumber + 2]
  BY <1>1, <1>3 DEF Receive, TimersInv
<1>7. ASSUME NEW m \in Nodes, state'[m] = "BS_SYNC", timer'[m] = 0 PROVE m \in due'
  <2>1. state[m] = "BS_SYNC" /\ timer[m] = 0
    BY <1>1, <1>3, <1>7 DEF Receive
  <2> QED
    BY <1>2, <2>1 DEF TimersInv
<1> QED
  BY <1>4, <1>5, <1>6, <1>7 DEF TimersInv, SlotsInv

LEMMA ExpireBounds ==
  ASSUME TypeInv, SlotsInv, WindowsInv, NEW n \in Clients, Expire(n)
  PROVE  SlotsInv' /\ WindowsInv'
<1>1. /\ n \in Nodes /\ window' = [window EXCEPT ![n] = Stored(n)]
      /\ got' = [got EXCEPT ![n] = {}] /\ slot' = slot /\ WindowSize \in Nat
  BY NetworkAssumption DEF Expire, Clients, Nodes
<1>2. SlotsInv'
  BY <1>1 DEF SlotsInv
<1> DEFINE longer == Append(window[n], Paired(got[n]))
<1>3. Paired(got[n]) \in 0 .. SlotNumber
  BY <1>1, PairedInBounds DEF SlotsInv
<1>4. window[n] \in Seq(0 .. SlotNumber) /\ Len(window[n]) <= WindowSize
  BY <1>1 DEF WindowsInv
<1>5. /\ longer \in Seq(0 .. SlotNumber) /\ longer # <<>>
      /\ Len(longer) = Len(window[n]) + 1
  BY <1>3, <1>4, AppendProperties
<1>6. Len(window[n]) \in Nat
  BY <1>4, LenProperties
<1> HIDE DEF longer
<1>7. Tail(longer) \in Seq(0 .. SlotNumber) /\ Len(Tail(longer)) = Len(longer) - 1
  BY <1>5, HeadTailProperties
<1>8. Latest(longer) \in Seq(0 .. SlotNumber) /\ Len(Latest(longer)) <= WindowSize
  <2>1. CASE Len(longer) > WindowSize
    <3>1. Latest(longer) = Tail(longer)
      BY <2>1 DEF Latest
    <3>2. Len(Tail(longer)) <= WindowSize
      BY <1>1, <1>4, <1>5, <1>6, <1>7
    <3> QED
      BY <1>7, <3>1, <3>2
  <2>2. CASE ~(Len(longer) > WindowSize)
    <3>1. Latest(longer) = longer
      BY <2>2 DEF Latest
    <3>2. Len(longer) <= WindowSize
      BY <1>1, <1>5, <1>6, <2>2
    <3> QED
      BY <1>5, <3>1, <3>2
  <2> QED
    BY <2>1, <2>2
<1>9. Stored(n) = Latest(longer)
  BY DEF Stored, longer
<1>10. window' \in [Nodes -> Seq(0 .. SlotNumber)]
  BY <1>1, <1>8, <1>9 DEF WindowsInv
<1>11. \A m \in Nodes : Len(window'[m]) <= WindowSize
  BY <1>1, <1>8, <1>9 DEF WindowsInv
<1> QED
  BY <1>2, <1>10, <1>11 DEF WindowsInv

LEMMA BoundsStep ==
  ASSUME TypeInv, TimersInv, SlotsInv, WindowsInv, FlagsInv, [Next]_vars
  PROVE  TimersInv' /\ SlotsInv' /\ WindowsInv' /\ FlagsInv'
<1>1. ASSUME NEW n \in Nodes, Send(n)
      PROVE  TimersInv' /\ SlotsInv' /\ WindowsInv' /\ FlagsInv'
  <2>1. UNCHANGED <<window, requested, starved>>
    BY <1>1 DEF Send
  <2> QED
    BY <1>1, <2>1, ReceiveBounds DEF WindowsInv, FlagsInv
<1>2. ASSUME NEW n \in Nodes, EndBurst(n)
      PROVE  TimersInv' /\ SlotsInv' /\ WindowsInv' /\ FlagsInv'
  <2>1. UNCHANGED <<timer, got, window, requested>> /\ slot' = [slot EXCEPT ![n] = 0]
    BY <1>2 DEF EndBurst
  <2>2. SlotsInv'
    BY <2>1, NetworkAssumption DEF SlotsInv
  <2>3. \A m \in Nodes : state'[m] = "BS_SYNC" => state[m] = "BS_SYNC" /\ (m \in due => m \in due')
    BY <1>2 DEF EndBurst, TypeInv
  <2>4. starved' \in BOOLEAN
    BY <1>2, Zenon DEF EndBurst, FlagsInv
  <2> QED
    BY <2>1, <2>2, <2>3, <2>4 DEF TimersInv, WindowsInv, FlagsInv
<1>3. ASSUME NEW n \in Clients, Adopt(n) \/ GiveUp(n)
      PROVE  TimersInv' /\ SlotsInv' /\ WindowsInv' /\ FlagsInv'
  <2>1. Expire(n) /\ UNCHANGED <<timer, requested, starved>>
    BY <1>3 DEF Adopt, GiveUp, Expire
  <2>2. \A m \in Nodes : state'[m] = "BS_SYNC" => state[m] = "BS_SYNC" /\ (m \in due => m \in due')
    BY <1>3 DEF Adopt, GiveUp, TypeInv
  <2> QED
    BY <2>1, <2>2, ExpireBounds DEF TimersInv, FlagsInv
<1>4. CASE StartNetSync
  <2>1. UNCHANGED <<state, slot, timer, got, window, due, starved>> /\ requested' = TRUE
    BY <1>4 DEF StartNetSync
  <2> QED
    BY <2>1 DEF TimersInv, SlotsInv, WindowsInv, FlagsInv
<1>5. CASE TakeNewSync
  <2>1. UNCHANGED <<slot, timer, got, window, starved>> /\ requested' = FALSE
    BY <1>5 DEF TakeNewSync
  <2>2. \A m \in Nodes : state'[m] = "BS_SYNC" => state[m] = "BS_SYNC" /\ (m \in due => m \in due')
    BY <1>5 DEF TakeNewSync, TypeInv
  <2> QED
    BY <2>1, <2>2 DEF TimersInv, SlotsInv, WindowsInv, FlagsInv
<1>6. CASE NextInterval
  <2>1. /\ UNCHANGED <<state, slot, got, window, requested, starved>> /\ due = {}
        /\ timer' = [n \in Nodes |-> IF state[n] = "BS_SYNC" THEN timer[n] - 1 ELSE timer[n]]
        /\ due' = {n \in Nodes : state[n] = "BS_ADV" \/ (state[n] = "BS_SYNC" /\ timer'[n] = 0)}
    BY <1>6 DEF NextInterval
  <2>2. \A n \in Nodes : /\ timer[n] \in 0 .. SlotNumber + 2
                         /\ state[n] = "BS_SYNC" => timer[n] # 0
    BY <2>1 DEF TimersInv
  <2>3. timer' \in [Nodes -> 0 .. SlotNumber + 2]
    BY <2>1, <2>2, NetworkAssumption
  <2> QED
    BY <2>1, <2>3 DEF TimersInv, SlotsInv, WindowsInv, FlagsInv
<1>7. CASE UNCHANGED vars
  BY <1>7 DEF vars, nodeVars, TimersInv, SlotsInv, WindowsInv, FlagsInv
<1> QED
  BY <1>1, <1>2, <1>3, <1>4, <1>5, <1>6, <1>7 DEF Next, Protocol

(***************************************************************************)
(* In every network every variable stays in its type: the index of a       *)
(* packet within the burst, the timer within its longest time, the window  *)
(* within its length, and no timer of bluesync_scan_packet_process is      *)
(* missed, whoever hears whom and however close the starts.                *)
(***************************************************************************)
THEOREM NetworkTypes == Spec => []TypeOK
<1>1. Init => TimersInv /\ SlotsInv /\ WindowsInv /\ FlagsInv
  <2> SUFFICES ASSUME Init PROVE TimersInv /\ SlotsInv /\ WindowsInv /\ FlagsInv
    OBVIOUS
  <2>1. 0 \in 0 .. SlotNumber + 1 /\ 0 \in 0 .. SlotNumber + 2 /\ WindowSize \in Nat
    BY NetworkAssumption
  <2>2. TimersInv
    BY <2>1 DEF Init, TimersInv
  <2>3. SlotsInv
    BY <2>1 DEF Init, SlotsInv
  <2>4. WindowsInv
    BY <2>1, EmptySeq DEF Init, WindowsInv
  <2> QED
    BY <2>2, <2>3, <2>4 DEF Init, FlagsInv
<1>2. TypeInv /\ TimersInv /\ SlotsInv /\ WindowsInv /\ FlagsInv => TypeOK
  BY DEF TypeInv, TimersInv, SlotsInv, WindowsInv, FlagsInv, TypeOK
<1>3. TypeInv /\ TimersInv /\ SlotsInv /\ WindowsInv /\ FlagsInv /\ [Next]_vars
        => TimersInv' /\ SlotsInv' /\ WindowsInv' /\ FlagsInv'
  BY BoundsStep
<1> QED
  BY <1>1, <1>2, <1>3, TypesKept, PTL DEF Spec
=============================================================================
