---------------------- MODULE BluesyncRefinementProofs ----------------------
(***************************************************************************)
(* Bluesync implements the abstract specifications of BluesyncRefinement.  *)
(***************************************************************************)
EXTENDS BluesyncRefinement, BluesyncProofs

-----------------------------------------------------------------------------
(* The session of a client. *)

(* The edges of the state machine, as the session sees them. *)
LEMMA SessionEdges ==
  ASSUME TypeInv, OneRoleInv, NoAuthorityInv,
         TakeRole \/ TakeNewSync \/ AnnounceSync \/ TakeEndSync \/ AnnounceUpdate \/ EndBurst
  PROVE  UNCHANGED roundVars
         /\ (UNCHANGED Phase \/ (Phase = "relay" /\ Phase' = "wait"))
<1>1. PICK e : /\ state' = transition(role, state, e) /\ pc' = "dispatch"
               /\ pc # "dispatch" /\ UNCHANGED roundVars
               /\ pc = "received" <=> e = "EVENT_NEW_SYNC_RCV"
               /\ pc = "update_success" <=> e = "EVENT_UPDATE_SUCCESS"
               /\ pc = "update_failed" <=> e = "EVENT_UPDATE_FAILED"
  BY DEF TakeRole, TakeNewSync, AnnounceSync, TakeEndSync, AnnounceUpdate, EndBurst,
         SleepOver, Run, roundVars
<1> USE DEF Phase, Collecting, Relaying
<1>2. CASE state = "BS_SCAN_WAIT_FOR_SYNC"
  BY <1>1, <1>2 DEF transition, OneRoleInv
<1>3. CASE state = "BS_SYNC"
  BY <1>1, <1>3 DEF transition, OneRoleInv
<1>4. CASE state = "BS_UPDATE"
  BY <1>1, <1>4 DEF transition, OneRoleInv
<1>5. CASE state = "BS_ADV"
  BY <1>1, <1>5 DEF transition, OneRoleInv, NoAuthorityInv, RestingState
<1>6. CASE state = "BS_NONE_STATE"
  BY <1>1, <1>6 DEF transition, OneRoleInv, NoAuthorityInv, RestingState
<1> QED
  BY <1>2, <1>3, <1>4, <1>5, <1>6 DEF TypeInv, TypeOK, State, NoAuthorityInv

LEMMA SessionStep ==
  ASSUME "AUTHORITY" \notin RolesGiven, MaxSetRole <= 1,
         TypeInv, OneRoleInv, NoAuthorityInv, Next
  PROVE  Session!Next \/ UNCHANGED Session!vars
<1> USE DEF Phase, Collecting, Relaying
<1>1. CASE TakeRole \/ TakeNewSync \/ AnnounceSync \/ TakeEndSync \/ AnnounceUpdate
           \/ EndBurst
  <2>1. UNCHANGED roundVars /\ (UNCHANGED Phase \/ (Phase = "relay" /\ Phase' = "wait"))
    BY <1>1, SessionEdges
  <2>2. CASE UNCHANGED Phase
    BY <2>1, <2>2 DEF Session!vars, roundVars
  <2>3. CASE Phase = "relay" /\ Phase' = "wait"
    BY <2>1, <2>3 DEF Session!Next, Session!Finish, roundVars
  <2> QED
    BY <2>1, <2>2, <2>3
<1>2. CASE TakeMsg
  <2>1. CASE state = "BS_SCAN_WAIT_FOR_SYNC" /\ msg'.round # current_round_id
    <3>1. /\ Phase = "wait" /\ Phase' = "collect" /\ UNCHANGED current_round_id
          /\ new_round_id' = msg'.round
      BY <1>2, <2>1 DEF TakeMsg, roundVars, smVars
    <3>2. msg' \in Message
      BY <1>2, TypeInvThread DEF TypeInv, TypeOK, Thread
    <3>3. new_round_id' \in (0 .. RoundIds - 1) \ {current_round_id}
      BY <2>1, <3>1, <3>2 DEF Message
    <3> QED
      BY <3>1, <3>3 DEF Session!Next, Session!Collect
  <2>2. CASE ~(state = "BS_SCAN_WAIT_FOR_SYNC" /\ msg'.round # current_round_id)
    BY <1>2, <2>2 DEF TakeMsg, Session!vars, smVars
  <2> QED
    BY <2>1, <2>2
<1>3. CASE UpdateHandler
  <2>1. Phase = "collect" /\ UNCHANGED <<state, new_round_id>>
    BY <1>3 DEF UpdateHandler, smVars
  <2>2. CASE pc' = "update_success"
    <3>1. Phase' = "relay" /\ current_round_id' = new_round_id
      BY <1>3, <2>1, <2>2 DEF UpdateHandler
    <3> QED
      BY <2>1, <3>1 DEF Session!Next, Session!Adopt
  <2>3. CASE pc' # "update_success"
    <3>1. Phase' = "wait" /\ UNCHANGED current_round_id
      BY <1>3, <2>1, <2>3 DEF UpdateHandler
    <3> QED
      BY <2>1, <3>1 DEF Session!Next, Session!GiveUp
  <2> QED
    BY <2>2, <2>3
<1>4. CASE SetEpoch \/ StartNetSync
  BY <1>4 DEF SetEpoch, StartNetSync, NoAuthorityInv
<1>5. ASSUME NEW r \in RolesGiven, SetRole(r)
      PROVE  UNCHANGED Session!vars
  <2>1. set_roles = 0
    BY <1>5, BoundsAssumption DEF SetRole, TypeInv, TypeOK
  <2>2. state' \notin {"BS_SYNC", "BS_UPDATE", "BS_ADV"}
    BY <1>5 DEF SetRole, RestingState
  <2>3. Phase = "wait" /\ Phase' = "wait"
    BY <1>5, <2>1, <2>2 DEF SetRole, OneRoleInv, threadVars
  <2> QED
    BY <1>5, <2>3 DEF SetRole, Session!vars, roundVars
<1>6. CASE Start \/ Poll \/ StoreMsg \/ WaitHandler \/ IdleHandler \/ AdvHandler
           \/ SetDataFails \/ AdvStartFails \/ Send \/ NextPacket
  BY <1>6 DEF Start, Poll, StoreMsg, WaitHandler, IdleHandler, AdvHandler, SetDataFails,
              AdvStartFails, Send, NextPacket, SleepOver, Session!vars, smVars, roundVars,
              OneRoleInv, TypeInv, TypeOK
<1>7. CASE TimerFires
  BY <1>7 DEF TimerFires, Session!vars, smVars, threadVars, roundVars
<1>8. ASSUME NEW n \in {0, 1}, AdvSent(n)
      PROVE  UNCHANGED Session!vars
  BY <1>8 DEF AdvSent, Session!vars, smVars, threadVars, roundVars
<1>9. ASSUME NEW b \in Heard, Hear(b) \/ Miss(b)
      PROVE  UNCHANGED Session!vars
  BY <1>9 DEF Hear, Miss, Session!vars, smVars, threadVars, roundVars
<1> QED
  BY <1>1, <1>2, <1>3, <1>4, <1>5, <1>6, <1>7, <1>8, <1>9 DEF Next, Thread

(***************************************************************************)
(* A node that is made a client, once, behaves as a session: every step of *)
(* the thread, of a callback or of the neighbours is a step of the session *)
(* or none.                                                                *)
(***************************************************************************)
THEOREM ClientIsSession ==
  ASSUME "AUTHORITY" \notin RolesGiven, MaxSetRole <= 1
  PROVE  Spec => ImplementsSession
<1>1. Init => Session!Init
  BY SizesAssumption DEF Init, Session!Init, Phase, Collecting, Relaying
<1>2. TypeInv /\ OneRoleInv /\ NoAuthorityInv /\ [Next]_vars
        => [Session!Next]_(Session!vars)
  <2>1. ASSUME UNCHANGED vars PROVE UNCHANGED Session!vars
    BY <2>1 DEF vars, smVars, threadVars, roundVars, Session!vars, Phase, Collecting, Relaying
  <2> QED
    BY <2>1, SessionStep
<1> QED
  BY <1>1, <1>2, TypeInvariant, OneRoleInvariant, NoAuthorityInvariant, PTL
  DEF Spec, ImplementsSession, Session!Spec

-----------------------------------------------------------------------------
(* The window of bursts. *)

(* The two rings turn together; a ring that is not full began at place 0. *)
RingsInv ==
  /\ rcv_history.head = local_history.head
  /\ rcv_history.count = local_history.count
  /\ rcv_history.count < WindowSize => rcv_history.head = rcv_history.count

LEMMA PushRing ==
  ASSUME NEW ring \in Ring, NEW elem \in Timestamps
  PROVE  /\ Push(ring, elem).bursts = [ring.bursts EXCEPT ![ring.head] = elem]
         /\ Push(ring, elem).head = Wrap(ring.head + 1)
         /\ Push(ring, elem).count
              = IF ring.count < WindowSize THEN ring.count + 1 ELSE ring.count
<1>1. ring.head \in 0 .. WindowSize - 1
  BY DEF Ring
<1>2. (ring.head + 1) % WindowSize = Wrap(ring.head + 1)
  <2>1. CASE ring.head + 1 < WindowSize
    BY <1>1, <2>1, SizesAssumption DEF Wrap
  <2>2. CASE ring.head + 1 = WindowSize
    BY <1>1, <2>2, SizesAssumption DEF Wrap
  <2> QED
    BY <1>1, <2>1, <2>2, SizesAssumption
<1> QED
  BY <1>2 DEF Push

(* What the places of a ring hold after a push, before and after it is full. *)
LEMMA PushPlaces ==
  ASSUME NEW ring \in Ring, NEW elem \in Timestamps,
         ring.count < WindowSize => ring.head = ring.count,
         NEW i \in 1 .. Push(ring, elem).count
  PROVE  Push(ring, elem).bursts[Place(Push(ring, elem), i)]
           = IF i = Push(ring, elem).count THEN elem
             ELSE IF ring.count < WindowSize THEN ring.bursts[Place(ring, i)]
             ELSE ring.bursts[Place(ring, i + 1)]
<1> DEFINE new == Push(ring, elem)
<1>1. /\ ring.head \in 0 .. WindowSize - 1 /\ ring.count \in 0 .. WindowSize
      /\ ring.bursts \in [0 .. WindowSize - 1 -> Timestamps]
      /\ WindowSize \in Nat \ {0}
  BY SizesAssumption DEF Ring
<1>2. /\ new.bursts = [ring.bursts EXCEPT ![ring.head] = elem]
      /\ new.head = Wrap(ring.head + 1)
      /\ new.count = IF ring.count < WindowSize THEN ring.count + 1 ELSE ring.count
  BY PushRing
<1> HIDE DEF new
<1>3. i \in 1 .. new.count
  BY DEF new
<1>4. CASE ring.count < WindowSize
  <2>1. Place(new, i) = i - 1
    BY <1>1, <1>2, <1>3, <1>4 DEF Place, Wrap
  <2>2. i < new.count => Place(ring, i) = i - 1 /\ i - 1 # ring.head
    BY <1>1, <1>2, <1>3, <1>4 DEF Place, Wrap
  <2>3. i = new.count => i - 1 = ring.head
    BY <1>1, <1>2, <1>3, <1>4
  <2> QED
    BY <1>1, <1>2, <1>3, <1>4, <2>1, <2>2, <2>3 DEF new
<1>5. CASE ring.count = WindowSize
  <2> DEFINE next == Wrap(ring.head + 1)
  <2>0. /\ Place(new, i) = Wrap(next + (i - 1)) /\ next \in 0 .. WindowSize - 1
        /\ next = IF ring.head + 1 < WindowSize THEN ring.head + 1 ELSE 0
        /\ Place(ring, i + 1) = Wrap(ring.head + i) /\ new.count = WindowSize
    <3>1. next = IF ring.head + 1 < WindowSize THEN ring.head + 1 ELSE 0
      BY <1>1 DEF Wrap
    <3>2. next \in 0 .. WindowSize - 1
      BY <1>1, <3>1
    <3>3. new.count = WindowSize /\ new.head = next
      BY <1>1, <1>2, <1>5
    <3>4. i \in Int
      BY <1>1, <1>3, <3>3
    <3> HIDE DEF next
    <3>5. new.head + (WindowSize - new.count) + (i - 1) = next + (i - 1)
      BY <1>1, <3>2, <3>3, <3>4
    <3>6. ring.head + (WindowSize - ring.count) + ((i + 1) - 1) = ring.head + i
      BY <1>1, <1>5, <3>4
    <3> QED
      BY <3>1, <3>2, <3>3, <3>5, <3>6 DEF Place
  <2>1. i < new.count => Place(new, i) = Place(ring, i + 1) /\ Place(new, i) # ring.head
                         /\ Place(new, i) \in 0 .. WindowSize - 1
    <3> HIDE DEF next
    <3>1. i < new.count => i < WindowSize /\ i >= 1 /\ i \in Nat
      BY <1>1, <1>3, <2>0
    <3>2. i < new.count => Wrap(ring.head + i) \in (0 .. WindowSize - 1) \ {ring.head}
      BY <1>1, <3>1 DEF Wrap
    <3>3. i < new.count => Wrap(next + (i - 1)) = Wrap(ring.head + i)
      <4>1. CASE ring.head + 1 < WindowSize
        <5>1. next + (i - 1) = ring.head + i
          BY <1>1, <1>3, <2>0, <4>1
        <5> QED
          BY <5>1
      <4>2. CASE ring.head + 1 = WindowSize
        <5>1. next = 0
          BY <1>1, <2>0, <4>2
        <5> QED
          BY <1>1, <3>1, <4>2, <5>1 DEF Wrap
      <4> QED
        BY <1>1, <4>1, <4>2
    <3> QED
      BY <2>0, <3>2, <3>3
  <2>2. i = new.count => Place(new, i) = ring.head
    BY <1>1, <1>3, <2>0 DEF Wrap
  <2> QED
    BY <1>1, <1>2, <1>3, <1>5, <2>1, <2>2 DEF new
<1> QED
  BY <1>1, <1>4, <1>5

(* Appending to a window, and dropping its oldest element when it is full. *)
LEMMA Slide ==
  ASSUME NEW X, NEW w \in Seq(X), NEW p \in X, NEW size \in Nat \ {0}, Len(w) <= size,
         NEW n \in Nat, n = IF Len(w) < size THEN Len(w) + 1 ELSE Len(w)
  PROVE  [i \in 1 .. n |-> IF i = n THEN p ELSE w[IF Len(w) < size THEN i ELSE i + 1]]
           = IF Len(w) + 1 > size THEN Tail(Append(w, p)) ELSE Append(w, p)
<1> DEFINE new == [i \in 1 .. n |-> IF i = n THEN p
                                   ELSE w[IF Len(w) < size THEN i ELSE i + 1]]
           longer == Append(w, p)
<1>1. /\ longer \in Seq(X) /\ longer # <<>> /\ Len(longer) = Len(w) + 1
      /\ longer[Len(w) + 1] = p /\ \A i \in 1 .. Len(w) : longer[i] = w[i]
  BY AppendProperties
<1>2. Len(w) \in Nat /\ \A i \in 1 .. Len(w) : w[i] \in X
  OBVIOUS
<1>3. new \in Seq(X) /\ Len(new) = n
  <2>1. new \in [1 .. n -> X]
    BY <1>2
  <2> QED
    BY <2>1
<1>4. CASE Len(w) < size
  <2>1. \A i \in 1 .. n : new[i] = longer[i]
    BY <1>1, <1>2, <1>4
  <2>2. new = longer
    <3> HIDE DEF new, longer
    <3> QED
      BY <1>1, <1>3, <1>4, <2>1, SeqEqual
  <2> QED
    BY <1>2, <1>4, <2>2
<1>5. CASE Len(w) = size
  <2>1. \A i \in 1 .. n : new[i] = longer[i + 1]
    BY <1>1, <1>2, <1>5
  <2>2. new = Tail(longer)
    <3> HIDE DEF new, longer
    <3>1. Tail(longer) \in Seq(X) /\ Len(Tail(longer)) = n
          /\ \A i \in 1 .. n : Tail(longer)[i] = longer[i + 1]
      BY <1>1, <1>2, <1>5, HeadTailProperties
    <3> QED
      BY <1>3, <2>1, <3>1, SeqEqual
  <2> QED
    BY <1>2, <1>5, <2>2
<1> QED
  BY <1>2, <1>4, <1>5

LEMMA WindowStep ==
  ASSUME TypeInv, RingsInv, UpdateHandler
  PROVE  RingsInv' /\ Window!Store
<1>1. /\ rcv_history \in Ring /\ local_history \in Ring
      /\ rcv \in Timestamps /\ local \in Timestamps
      /\ rcv_history' = Push(rcv_history, rcv) /\ local_history' = Push(local_history, local)
  BY DEF TypeInv, TypeOK, UpdateHandler
<1>2. RingsInv'
  <2>1. /\ rcv_history.head \in 0 .. WindowSize - 1 /\ rcv_history.count \in 0 .. WindowSize
        /\ WindowSize \in Nat \ {0}
    BY <1>1, SizesAssumption DEF Ring
  <2>2. /\ rcv_history'.head = Wrap(rcv_history.head + 1)
        /\ local_history'.head = Wrap(local_history.head + 1)
        /\ rcv_history'.count = IF rcv_history.count < WindowSize
                                THEN rcv_history.count + 1 ELSE rcv_history.count
        /\ local_history'.count = IF local_history.count < WindowSize
                                  THEN local_history.count + 1 ELSE local_history.count
    BY <1>1, PushRing
  <2> QED
    BY <2>1, <2>2 DEF RingsInv, Wrap
<1> DEFINE c == rcv_history.count
           new == rcv_history'.count
           pair == <<rcv, local>>
           longer == Append(HistoryWindow, pair)
           X == Timestamps \X Timestamps
<1>3. c \in 0 .. WindowSize /\ new = (IF c < WindowSize THEN c + 1 ELSE c)
      /\ new = local_history'.count /\ WindowSize \in Nat \ {0}
  BY <1>1, <1>2, PushRing, SizesAssumption DEF Ring, RingsInv
<1>4. \A i \in 1 .. c : Place(rcv_history, i) \in 0 .. WindowSize - 1
                        /\ Place(local_history, i) = Place(rcv_history, i)
  BY <1>1, <1>3 DEF Place, Wrap, RingsInv, Ring
<1>5. HistoryWindow \in Seq(X) /\ Len(HistoryWindow) = c
  <2>1. HistoryWindow \in [1 .. c -> X]
    BY <1>1, <1>4 DEF HistoryWindow, Ring
  <2> QED
    BY <1>3, <2>1
<1>6. /\ longer \in Seq(X) /\ Len(longer) = c + 1 /\ longer[c + 1] = pair
      /\ \A i \in 1 .. c : longer[i] = HistoryWindow[i]
  BY <1>1, <1>3, <1>5
<1>7. HistoryWindow' = [i \in 1 .. new |->
                          IF i = new THEN pair
                          ELSE HistoryWindow[IF c < WindowSize THEN i ELSE i + 1]]
  <2> SUFFICES ASSUME NEW i \in 1 .. new
               PROVE  /\ rcv_history'.bursts[Place(rcv_history', i)]
                           = (IF i = new THEN pair
                              ELSE HistoryWindow[IF c < WindowSize THEN i ELSE i + 1])[1]
                      /\ local_history'.bursts[Place(local_history', i)]
                           = (IF i = new THEN pair
                              ELSE HistoryWindow[IF c < WindowSize THEN i ELSE i + 1])[2]
                      /\ (IF i = new THEN pair
                          ELSE HistoryWindow[IF c < WindowSize THEN i ELSE i + 1]) \in X
    BY DEF HistoryWindow
  <2>1. rcv_history'.bursts[Place(rcv_history', i)]
          = IF i = new THEN rcv
            ELSE IF c < WindowSize THEN rcv_history.bursts[Place(rcv_history, i)]
            ELSE rcv_history.bursts[Place(rcv_history, i + 1)]
    BY <1>1, PushPlaces DEF RingsInv
  <2>2. local_history'.bursts[Place(local_history', i)]
          = IF i = new THEN local
            ELSE IF c < WindowSize THEN local_history.bursts[Place(local_history, i)]
            ELSE local_history.bursts[Place(local_history, i + 1)]
    BY <1>1, <1>3, PushPlaces DEF RingsInv
  <2> DEFINE j == IF c < WindowSize THEN i ELSE i + 1
  <2>3. i # new => j \in 1 .. c
    BY <1>3
  <2>4. i # new => /\ HistoryWindow[j] = <<rcv_history.bursts[Place(rcv_history, j)],
                                            local_history.bursts[Place(local_history, j)]>>
                   /\ HistoryWindow[j] \in X
    <3> HIDE DEF j, X
    <3>1. i # new => HistoryWindow[j] \in X
      BY <1>5, <2>3
    <3>2. i # new => HistoryWindow[j] = <<rcv_history.bursts[Place(rcv_history, j)],
                                          local_history.bursts[Place(local_history, j)]>>
      BY <2>3 DEF HistoryWindow
    <3> QED
      BY <3>1, <3>2
  <2>5. pair \in X
    BY <1>1
  <2> QED
    BY <2>1, <2>2, <2>4, <2>5
<1>8. HistoryWindow' = IF c + 1 > WindowSize THEN Tail(longer) ELSE longer
  <2>1. pair \in X
    BY <1>1
  <2>2. /\ Len(HistoryWindow) <= WindowSize /\ new \in Nat
        /\ new = IF Len(HistoryWindow) < WindowSize
                 THEN Len(HistoryWindow) + 1 ELSE Len(HistoryWindow)
    BY <1>3, <1>5
  <2>3. [i \in 1 .. new |-> IF i = new THEN pair
           ELSE HistoryWindow[IF Len(HistoryWindow) < WindowSize THEN i ELSE i + 1]]
          = IF Len(HistoryWindow) + 1 > WindowSize THEN Tail(longer) ELSE longer
    <3> HIDE DEF new, X, pair
    <3> QED
      BY <1>3, <1>5, <2>1, <2>2, Slide
  <2> QED
    BY <1>5, <1>7, <2>3
<1> QED
  BY <1>2, <1>6, <1>8 DEF Window!Store, Window!Latest

(***************************************************************************)
(* On every node, whatever roles it is given, the two rings are the window *)
(* of the last bursts: the places are written in turn, both halves of a    *)
(* burst go to the same place, and what the regression reads is what the   *)
(* last updates stored.                                                    *)
(***************************************************************************)
THEOREM RingsAreWindow == Spec => HistoryIsWindow
<1>1. Init => RingsInv /\ Window!Init
  BY SizesAssumption DEF Init, RingsInv, EmptyRing, Window!Init, HistoryWindow
<1>2. TypeInv /\ RingsInv /\ [Next]_vars => RingsInv' /\ [Window!Store]_HistoryWindow
  <2> SUFFICES ASSUME TypeInv, RingsInv, [Next]_vars
               PROVE  RingsInv' /\ [Window!Store]_HistoryWindow
    OBVIOUS
  <2>1. CASE UpdateHandler
    BY <2>1, WindowStep
  <2>2. CASE ~UpdateHandler
    <3>1. UNCHANGED <<rcv_history, local_history>>
      BY <2>2 DEF Next, Thread, Start, TakeRole, Poll, TakeNewSync, TakeMsg, AnnounceSync,
                  StoreMsg, TakeEndSync, WaitHandler, IdleHandler, AnnounceUpdate, AdvHandler,
                  SetDataFails, AdvStartFails, Send, NextPacket, EndBurst, TimerFires, AdvSent,
                  SetRole, SetEpoch, StartNetSync, Hear, Miss, historyVars, vars
    <3> QED
      BY <3>1 DEF RingsInv, HistoryWindow, Place
  <2> QED
    BY <2>1, <2>2
<1> QED
  BY <1>1, <1>2, TypeInvariant, PTL DEF Spec, HistoryIsWindow, Window!Spec
=============================================================================
