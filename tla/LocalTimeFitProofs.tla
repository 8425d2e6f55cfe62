------------------------- MODULE LocalTimeFitProofs -------------------------
(***************************************************************************)
(* Theorems about LocalTime: what the line is fitted to, and what the      *)
(* clock shows with it, for every window, master, loss and error.          *)
(***************************************************************************)
EXTENDS LocalTimeProofs, RegressionProofs

-----------------------------------------------------------------------------
(* The bursts that end_sync_timeslot_process stores. *)

(* The local times of the slots heard. *)
LEMMA OwnBurstHolds ==
  ASSUME uptime \in Int, NEW slots \in SUBSET Slots
  PROVE  HoldsTimes(OwnBurst(slots), slots, [i \in Slots |-> ReceivedAt(i)])
<1> DEFINE time == [i \in Slots |-> ReceivedAt(i)]
           Marks(g) == [s \in SUBSET slots |->
                         IF s = {} THEN NoTimestamps
                         ELSE add(g[s \ {First(s)}], First(s), ReceivedAt(First(s)))]
           iter == CHOOSE g : g = Marks(g)
<1>1. OwnBurst(slots) = iter[slots]
  BY Zenon DEF OwnBurst, FoldSet, MapThenFoldSet, First
<1>2. time \in [Slots -> Int]
  BY BitsAssumption DEF ReceivedAt, Slots
<1>3. \A s \in SUBSET slots : s # {} => time[First(s)] = ReceivedAt(First(s))
  BY FirstIn
<1>4. PICK g : AddsAll(g, time, slots)
  <2> HIDE DEF time
  <2> QED
    BY ONLY <1>2, slots \in SUBSET Slots, AddsExist
<1>5. g = Marks(g)
  BY <1>3, <1>4 DEF Adds, AddsAll
<1>6. iter = Marks(iter)
  <2> HIDE DEF Marks
  <2> QED
    BY <1>5, Zenon
<1>7. Adds(iter, time, slots)
  BY <1>3, <1>6 DEF Adds
<1> HIDE DEF iter, time
<1>8. HoldsTimes(iter[slots], slots, time)
  BY <1>2, <1>7, AddsHold
<1> QED
  BY <1>1, <1>8 DEF time

(* The times of the sender received in them, each with its error. *)
LEMMA RcvBurstHolds ==
  ASSUME uptime \in Int, master \in MasterTimes,
         NEW slots \in SUBSET Slots, NEW jitter \in [Slots -> Int]
  PROVE  HoldsTimes(RcvBurst(slots, jitter), slots,
                    [i \in Slots |-> MasterTime(ReceivedAt(i)) + jitter[i]])
<1> DEFINE time == [i \in Slots |-> MasterTime(ReceivedAt(i)) + jitter[i]]
           Marks(g) == [s \in SUBSET slots |->
                         IF s = {} THEN NoTimestamps
                         ELSE add(g[s \ {First(s)}], First(s),
                                  MasterTime(ReceivedAt(First(s))) + jitter[First(s)])]
           iter == CHOOSE g : g = Marks(g)
<1>1. RcvBurst(slots, jitter) = iter[slots]
  BY Zenon DEF RcvBurst, FoldSet, MapThenFoldSet, First
<1>2. time \in [Slots -> Int]
  <2>1. master.rate \in Int /\ master.start \in Int
    BY TimeAssumption
  <2>2. \A i \in Slots : ReceivedAt(i) \in Int
    BY BitsAssumption DEF ReceivedAt, Slots
  <2>3. \A i \in Slots : MasterTime(ReceivedAt(i)) + jitter[i] \in Int
    BY <2>1, <2>2 DEF MasterTime
  <2> QED
    BY <2>3
<1>3. \A s \in SUBSET slots :
        s # {} => time[First(s)] = MasterTime(ReceivedAt(First(s))) + jitter[First(s)]
  <2> SUFFICES ASSUME NEW s \in SUBSET slots, s # {}
               PROVE  First(s) \in Slots
    OBVIOUS
  <2> QED
    BY FirstIn
<1>4. PICK g : AddsAll(g, time, slots)
  <2> HIDE DEF time
  <2> QED
    BY ONLY <1>2, slots \in SUBSET Slots, AddsExist
<1>5. g = Marks(g)
  BY <1>3, <1>4 DEF Adds, AddsAll
<1>6. iter = Marks(iter)
  <2> HIDE DEF Marks
  <2> QED
    BY <1>5, Zenon
<1>7. Adds(iter, time, slots)
  BY <1>3, <1>6 DEF Adds
<1> HIDE DEF iter, time
<1>8. HoldsTimes(iter[slots], slots, time)
  BY <1>2, <1>7, AddsHold
<1> QED
  BY <1>1, <1>8 DEF time

-----------------------------------------------------------------------------
(* The window. *)

(* The sequence t is s with e at its end, and no longer than the window. *)
Appended(s, e, t) ==
  LET shift == Len(s) + 1 - Len(t)
  IN  /\ Len(t) \in 1 .. WindowSize
      /\ Len(t) = (IF Len(s) + 1 > WindowSize THEN Len(s) ELSE Len(s) + 1)
      /\ t[Len(t)] = e
      /\ \A k \in 1 .. Len(t) - 1 : k + shift \in 1 .. Len(s) /\ t[k] = s[k + shift]

(* Latest keeps the end of the sequence. *)
LEMMA LatestAppends ==
  ASSUME NEW T, NEW s \in Seq(T), Len(s) <= WindowSize, NEW e \in T,
         NEW t, t = Latest(Append(s, e))
  PROVE  t \in Seq(T) /\ Appended(s, e, t)
<1>1. WindowSize \in Nat \ {0} /\ Len(s) \in Nat
  BY TimeAssumption
<1>2. PICK a : a = Append(s, e)
  OBVIOUS
<1>3. /\ a \in Seq(T) /\ Len(a) = Len(s) + 1 /\ a[Len(s) + 1] = e
      /\ \A k \in 1 .. Len(s) : a[k] = s[k]
  BY <1>1, <1>2
<1>4. CASE Len(s) + 1 > WindowSize
  <2>1. t = Tail(a) /\ a # <<>> /\ Len(s) = WindowSize
    BY <1>1, <1>2, <1>3, <1>4 DEF Latest
  <2>2. /\ t \in Seq(T) /\ Len(t) = Len(s)
        /\ \A k \in 1 .. Len(s) : t[k] = a[k + 1]
    BY <1>1, <1>3, <2>1
  <2>3. Len(s) + 1 - Len(t) = 1 /\ Len(s) \in 1 .. WindowSize
    BY <1>1, <2>1, <2>2
  <2>4. t[Len(s)] = e
    BY <1>3, <2>2, <2>3
  <2>5. \A k \in 1 .. Len(s) - 1 : k + 1 \in 1 .. Len(s) /\ t[k] = s[k + 1]
    BY <1>1, <1>3, <2>2
  <2> QED
    BY <1>4, <2>2, <2>3, <2>4, <2>5 DEF Appended
<1>5. CASE ~ (Len(s) + 1 > WindowSize)
  <2>1. t = a
    BY <1>2, <1>3, <1>5 DEF Latest
  <2>2. Len(s) + 1 - Len(t) = 0 /\ Len(s) + 1 \in 1 .. WindowSize
    BY <1>1, <1>3, <1>5, <2>1
  <2>3. \A k \in 1 .. Len(s) : k + 0 \in 1 .. Len(s) /\ t[k] = s[k + 0]
    BY <1>3, <2>1
  <2>4. Len(t) - 1 = Len(s)
    BY <1>1, <1>3, <2>1
  <2> QED
    BY <1>3, <1>5, <2>1, <2>2, <2>3, <2>4 DEF Appended
<1> QED
  BY <1>4, <1>5

(* The samples of one burst, and a sample as a pair of times. *)
SampleSlots(w, k) == {i \in Slots : <<k, i>> \in Samples(w)}
Pair(w, s) == <<Own(w, s), Master(w, s)>>

(***************************************************************************)
(* The window and what the properties remember of it: the same bursts,     *)
(* marked slot by slot, and no local time twice.                           *)
(***************************************************************************)
WindowTypes ==
  /\ uptime \in Nat /\ last_sync \in Nat /\ master \in MasterTimes
  /\ window \in Seq(Burst \X Burst) /\ Len(window) <= WindowSize
  /\ heard \in Seq(SUBSET (Int \X Int)) /\ Len(heard) = Len(window)
WindowInv ==
  /\ WindowTypes
  /\ \A k \in 1 .. Len(window) : heard[k] = {Pair(window, <<k, i>>) : i \in SampleSlots(window, k)}
  /\ \A s \in Samples(window) : Own(window, s) <= last_sync
  /\ \A s, t \in Samples(window) : Own(window, s) = Own(window, t) => s = t

(* A burst is heard: the bursts before it, but for the oldest, and its own times. *)
Shift == Len(window) + 1 - Len(window')
Grows(own, rcv, jitter) ==
  LET n == Len(window') IN
  /\ WindowTypes'
  /\ n \in 1 .. WindowSize /\ Shift \in {0, 1}
  /\ \A k \in 1 .. n - 1 : k + Shift \in 1 .. Len(window) /\ heard'[k] = heard[k + Shift]
  /\ heard'[n] = SamplePairs(own, rcv, jitter)
  /\ \A k \in 1 .. n - 1, i \in Slots :
       /\ <<k, i>> \in Samples(window') <=> <<k + Shift, i>> \in Samples(window)
       /\ Own(window', <<k, i>>) = Own(window, <<k + Shift, i>>)
       /\ Master(window', <<k, i>>) = Master(window, <<k + Shift, i>>)
  /\ \A i \in Slots :
       /\ <<n, i>> \in Samples(window') <=> i \in own \cap rcv
       /\ <<n, i>> \in Samples(window') =>
            /\ Own(window', <<n, i>>) = ReceivedAt(i)
            /\ Master(window', <<n, i>>) = MasterTime(ReceivedAt(i)) + jitter[i]

(* A sample is a slot marked on both sides of its burst. *)
LEMMA IsSample ==
  ASSUME NEW w \in Seq(Burst \X Burst), NEW k \in 1 .. Len(w), NEW i \in Slots
  PROVE  <<k, i>> \in Samples(w) <=>
           is_bit_set(w[k][1].bitfield, i) /\ is_bit_set(w[k][2].bitfield, i)
<1>1. w[k] \in Burst \X Burst
  OBVIOUS
<1>2. w[k][1].bitfield \in Bitfield /\ w[k][2].bitfield \in Bitfield
  BY <1>1 DEF Burst
<1> QED
  BY <1>2, BitsAnd DEF Samples

(* end_sync_timeslot_process adds the burst, and the oldest leaves. *)
LEMMA WindowGrows ==
  ASSUME WindowTypes, NEW own \in SUBSET Slots, NEW rcv \in SUBSET Slots,
         NEW jitter \in [Slots -> Int], EndSync(own, rcv, jitter)
  PROVE  Grows(own, rcv, jitter)
<1> DEFINE n == Len(window')
           burst == <<RcvBurst(rcv, jitter), OwnBurst(own)>>
<1>1. /\ window' = Latest(Append(window, burst)) /\ uptime' = uptime /\ master' = master
      /\ last_sync' = uptime /\ heard' = Latest(Append(heard, SamplePairs(own, rcv, jitter)))
  BY DEF EndSync, masterVars
<1>2. /\ HoldsTimes(burst[2], own, [i \in Slots |-> ReceivedAt(i)])
      /\ HoldsTimes(burst[1], rcv, [i \in Slots |-> MasterTime(ReceivedAt(i)) + jitter[i]])
  <2>1. uptime \in Int /\ master \in MasterTimes
    BY DEF WindowTypes
  <2>2. HoldsTimes(OwnBurst(own), own, [i \in Slots |-> ReceivedAt(i)])
    BY ONLY <2>1, own \in SUBSET Slots, OwnBurstHolds
  <2>3. HoldsTimes(RcvBurst(rcv, jitter), rcv,
                   [i \in Slots |-> MasterTime(ReceivedAt(i)) + jitter[i]])
    BY ONLY <2>1, rcv \in SUBSET Slots, jitter \in [Slots -> Int], RcvBurstHolds
  <2>4. burst[1] = RcvBurst(rcv, jitter) /\ burst[2] = OwnBurst(own)
    BY ONLY TRUE
  <2> QED
    BY ONLY <2>2, <2>3, <2>4, Zenon
<1>3. burst \in Burst \X Burst
  BY <1>2 DEF HoldsTimes
<1>4. /\ window' \in Seq(Burst \X Burst) /\ n \in 1 .. WindowSize
      /\ n = (IF Len(window) + 1 > WindowSize THEN Len(window) ELSE Len(window) + 1)
      /\ window'[n] = burst
      /\ \A k \in 1 .. n - 1 : k + Shift \in 1 .. Len(window) /\ window'[k] = window[k + Shift]
  <2> HIDE DEF burst
  <2>1. window' \in Seq(Burst \X Burst) /\ Appended(window, burst, window')
    BY <1>1, <1>3, LatestAppends DEF WindowTypes
  <2> QED
    BY <2>1 DEF Appended, Shift
<1>5. SamplePairs(own, rcv, jitter) \in SUBSET (Int \X Int)
  <2>1. master.rate \in Int /\ master.start \in Int
    BY TimeAssumption DEF WindowTypes
  <2>2. \A i \in Slots : ReceivedAt(i) \in Int
    BY BitsAssumption DEF ReceivedAt, Slots, WindowTypes
  <2>3. \A i \in Slots : MasterTime(ReceivedAt(i)) + jitter[i] \in Int
    BY <2>1, <2>2 DEF MasterTime
  <2> QED
    BY <2>2, <2>3 DEF SamplePairs
<1>6. /\ heard' \in Seq(SUBSET (Int \X Int)) /\ Len(heard') = n
      /\ heard'[n] = SamplePairs(own, rcv, jitter)
      /\ \A k \in 1 .. n - 1 : heard'[k] = heard[k + Shift]
  <2>1. PICK pairs \in SUBSET (Int \X Int) : pairs = SamplePairs(own, rcv, jitter)
    BY <1>5
  <2>2. heard' \in Seq(SUBSET (Int \X Int)) /\ Appended(heard, pairs, heard')
    BY <1>1, <2>1, LatestAppends DEF WindowTypes
  <2>3. Len(heard) = Len(window)
    BY DEF WindowTypes
  <2>4. Len(heard') = n /\ Len(heard) + 1 - Len(heard') = Shift
    BY <1>4, <2>2, <2>3 DEF Appended, Shift
  <2> QED
    BY <2>1, <2>2, <2>4 DEF Appended
<1>7. Shift \in {0, 1}
  BY <1>4 DEF Shift, WindowTypes
<1>8. WindowTypes'
  BY <1>1, <1>4, <1>6, TimeAssumption DEF WindowTypes
<1>9. ASSUME NEW k \in 1 .. n - 1, NEW i \in Slots
      PROVE  /\ <<k, i>> \in Samples(window') <=> <<k + Shift, i>> \in Samples(window)
             /\ Own(window', <<k, i>>) = Own(window, <<k + Shift, i>>)
             /\ Master(window', <<k, i>>) = Master(window, <<k + Shift, i>>)
  <2>1. k \in 1 .. n /\ k + Shift \in 1 .. Len(window) /\ window'[k] = window[k + Shift]
    BY <1>4
  <2>2. <<k, i>> \in Samples(window') <=> <<k + Shift, i>> \in Samples(window)
    <3> DEFINE b == window[k + Shift]
    <3>1. <<k + Shift, i>> \in Samples(window) <=>
            is_bit_set(b[1].bitfield, i) /\ is_bit_set(b[2].bitfield, i)
      BY <2>1, IsSample DEF WindowTypes
    <3>2. <<k, i>> \in Samples(window') <=>
            is_bit_set(b[1].bitfield, i) /\ is_bit_set(b[2].bitfield, i)
      BY <1>4, <2>1, IsSample
    <3> QED
      BY <3>1, <3>2
  <2> QED
    BY <2>1, <2>2 DEF Own, Master
<1>10. ASSUME NEW i \in Slots
       PROVE  /\ <<n, i>> \in Samples(window') <=> i \in own \cap rcv
              /\ <<n, i>> \in Samples(window') =>
                   /\ Own(window', <<n, i>>) = ReceivedAt(i)
                   /\ Master(window', <<n, i>>) = MasterTime(ReceivedAt(i)) + jitter[i]
  <2>1. n \in 1 .. n /\ window'[n] = burst
    BY <1>4
  <2> HIDE DEF burst
  <2>2. <<n, i>> \in Samples(window') <=>
          is_bit_set(burst[1].bitfield, i) /\ is_bit_set(burst[2].bitfield, i)
    BY <1>4, <2>1, IsSample
  <2>3. /\ is_bit_set(burst[2].bitfield, i) <=> i \in own
        /\ i \in own => burst[2].ticks[i] = ReceivedAt(i)
        /\ is_bit_set(burst[1].bitfield, i) <=> i \in rcv
        /\ i \in rcv => burst[1].ticks[i] = MasterTime(ReceivedAt(i)) + jitter[i]
    BY <1>2 DEF HoldsTimes
  <2>4. <<n, i>> \in Samples(window') <=> i \in own \cap rcv
    BY <2>2, <2>3
  <2>5. Own(window', <<n, i>>) = burst[2].ticks[i] /\ Master(window', <<n, i>>) = burst[1].ticks[i]
    BY <2>1 DEF Own, Master
  <2> HIDE DEF n
  <2> QED
    BY <2>3, <2>4, <2>5
<1> QED
  BY <1>4, <1>6, <1>7, <1>8, <1>9, <1>10 DEF Grows

(* A sample names its burst and its slot. *)
LEMMA SampleOfBurst ==
  ASSUME NEW w, NEW s \in Samples(w)
  PROVE  s[1] \in 1 .. Len(w) /\ s[2] \in Slots /\ s = <<s[1], s[2]>>
BY DEF Samples

(* A sample of an earlier burst was one before, with the same times. *)
LEMMA OldSample ==
  ASSUME NEW own, NEW rcv, NEW jitter, Grows(own, rcv, jitter),
         NEW s \in Samples(window'), s[1] # Len(window')
  PROVE  LET o == <<s[1] + Shift, s[2]>>
         IN  /\ o \in Samples(window)
             /\ Own(window', s) = Own(window, o) /\ Master(window', s) = Master(window, o)
<1>1. s[1] \in 1 .. Len(window') /\ s[2] \in Slots /\ s = <<s[1], s[2]>>
  BY SampleOfBurst
<1>2. s[1] \in 1 .. Len(window') - 1
  BY <1>1
<1> QED
  BY <1>1, <1>2 DEF Grows

(* A sample of the latest burst has the times just heard. *)
LEMMA NewSample ==
  ASSUME NEW own, NEW rcv, NEW jitter, Grows(own, rcv, jitter),
         NEW s \in Samples(window'), s[1] = Len(window')
  PROVE  /\ s[2] \in own \cap rcv /\ s[2] \in Slots /\ s = <<Len(window'), s[2]>>
         /\ Own(window', s) = ReceivedAt(s[2])
         /\ Master(window', s) = MasterTime(ReceivedAt(s[2])) + jitter[s[2]]
<1>1. s[2] \in Slots /\ s = <<Len(window'), s[2]>>
  BY SampleOfBurst
<1> QED
  BY <1>1 DEF Grows

(* The properties remember of a burst what the window holds of it. *)
LEMMA WindowStep ==
  ASSUME WindowInv, NEW own \in SUBSET Slots, NEW rcv \in SUBSET Slots,
         NEW jitter \in [Slots -> Int], EndSync(own, rcv, jitter)
  PROVE  WindowInv'
<1> DEFINE n == Len(window')
<1>1. Grows(own, rcv, jitter) /\ WindowTypes /\ WindowTypes'
  <2>1. WindowTypes
    BY DEF WindowInv
  <2>2. Grows(own, rcv, jitter)
    BY <2>1, WindowGrows
  <2> QED
    BY <2>1, <2>2 DEF Grows
<1>2. /\ last_sync' = uptime /\ last_sync + SlotNumber <= uptime
      /\ uptime \in Nat /\ last_sync \in Nat /\ SlotNumber \in Nat
  BY <1>1, BitsAssumption DEF EndSync, WindowTypes
<1>3. \A i \in Slots : last_sync < ReceivedAt(i) /\ ReceivedAt(i) <= uptime
  BY <1>2 DEF ReceivedAt, Slots
<1>4. \A s \in Samples(window) : Own(window, s) \in Int
  BY <1>1, SamplesAreTimes DEF WindowTypes
<1>5. ASSUME NEW k \in 1 .. n
      PROVE  heard'[k] = {Pair(window', <<k, i>>) : i \in SampleSlots(window', k)}
  <2>1. CASE k = n
    <3>1. SampleSlots(window', k) = own \cap rcv
      BY <1>1, <2>1 DEF Grows, SampleSlots
    <3>2. \A i \in own \cap rcv :
            Pair(window', <<k, i>>) = <<ReceivedAt(i), MasterTime(ReceivedAt(i)) + jitter[i]>>
      BY <1>1, <2>1 DEF Grows, Pair
    <3>3. heard'[k] = SamplePairs(own, rcv, jitter)
      BY <1>1, <2>1 DEF Grows
    <3> QED
      BY <3>1, <3>2, <3>3 DEF SamplePairs
  <2>2. CASE k # n
    <3>1. k \in 1 .. n - 1
      BY <2>2
    <3>2. k + Shift \in 1 .. Len(window) /\ heard'[k] = heard[k + Shift]
      BY <1>1, <3>1 DEF Grows
    <3>3. SampleSlots(window', k) = SampleSlots(window, k + Shift)
      BY <1>1, <3>1 DEF Grows, SampleSlots
    <3>4. \A i \in Slots : Pair(window', <<k, i>>) = Pair(window, <<k + Shift, i>>)
      BY <1>1, <3>1 DEF Grows, Pair
    <3>5. heard[k + Shift] = {Pair(window, <<k + Shift, i>>) : i \in SampleSlots(window, k + Shift)}
      BY <3>2 DEF WindowInv
    <3> QED
      BY <3>2, <3>3, <3>4, <3>5 DEF SampleSlots
  <2> QED
    BY <2>1, <2>2
<1>6. ASSUME NEW s \in Samples(window')
      PROVE  /\ Own(window', s) <= uptime
             /\ Own(window', s) <= last_sync <=> s[1] # n
  <2>1. CASE s[1] = n
    <3>1. s[2] \in Slots /\ Own(window', s) = ReceivedAt(s[2])
      BY <1>1, <2>1, NewSample
    <3> QED
      BY <1>2, <1>3, <2>1, <3>1 DEF ReceivedAt, Slots
  <2>2. CASE s[1] # n
    <3>1. /\ <<s[1] + Shift, s[2]>> \in Samples(window)
          /\ Own(window', s) = Own(window, <<s[1] + Shift, s[2]>>)
      BY <1>1, <2>2, OldSample
    <3>2. Own(window', s) <= last_sync /\ Own(window', s) \in Int
      BY <1>4, <3>1 DEF WindowInv
    <3> QED
      BY <1>2, <2>2, <3>2
  <2> QED
    BY <2>1, <2>2
<1>7. ASSUME NEW s \in Samples(window'), NEW t \in Samples(window'),
             Own(window', s) = Own(window', t)
      PROVE  s = t
  <2>1. CASE s[1] = n
    <3>1. t[1] = n
      BY <1>6, <1>7, <2>1
    <3>2. /\ s[2] \in Slots /\ s = <<n, s[2]>> /\ Own(window', s) = ReceivedAt(s[2])
          /\ t[2] \in Slots /\ t = <<n, t[2]>> /\ Own(window', t) = ReceivedAt(t[2])
      BY <1>1, <2>1, <3>1, NewSample
    <3>3. ASSUME NEW i \in Slots, NEW j \in Slots, ReceivedAt(i) = ReceivedAt(j) PROVE i = j
      BY ONLY <1>2, <3>3 DEF ReceivedAt, Slots
    <3>4. ReceivedAt(s[2]) = ReceivedAt(t[2])
      BY ONLY <1>7, <3>2
    <3>5. s[2] = t[2]
      BY ONLY <3>2, <3>3, <3>4
    <3> QED
      BY ONLY <3>2, <3>5
  <2>2. CASE s[1] # n
    <3>1. t[1] # n
      BY <1>6, <1>7, <2>2
    <3>2. /\ <<s[1] + Shift, s[2]>> \in Samples(window)
          /\ Own(window', s) = Own(window, <<s[1] + Shift, s[2]>>)
          /\ <<t[1] + Shift, t[2]>> \in Samples(window)
          /\ Own(window', t) = Own(window, <<t[1] + Shift, t[2]>>)
      BY <1>1, <2>2, <3>1, OldSample
    <3>3. <<s[1] + Shift, s[2]>> = <<t[1] + Shift, t[2]>>
      BY <1>7, <3>2 DEF WindowInv
    <3>4. s[1] \in Int /\ t[1] \in Int /\ s = <<s[1], s[2]>> /\ t = <<t[1], t[2]>> /\ Shift \in Int
      BY <1>1, SampleOfBurst DEF Grows
    <3>5. ASSUME NEW a \in Int, NEW b \in Int, NEW c \in Int, a + c = b + c PROVE a = b
      BY <3>5
    <3>6. s[1] + Shift = t[1] + Shift /\ s[2] = t[2]
      BY ONLY <3>3
    <3>7. s[1] = t[1]
      BY ONLY <3>4, <3>5, <3>6
    <3> QED
      BY ONLY <3>4, <3>6, <3>7
  <2> QED
    BY <2>1, <2>2
<1> QED
  BY <1>1, <1>2, <1>5, <1>6, <1>7 DEF WindowInv

LEMMA WindowInvInit == Init => WindowInv
<1> SUFFICES ASSUME Init PROVE WindowInv
  OBVIOUS
<1>1. WindowTypes
  BY TimeAssumption DEF Init, WindowTypes
<1>2. Samples(window) = {} /\ 1 .. Len(window) = {}
  BY DEF Init, Samples
<1> QED
  BY <1>1, <1>2 DEF WindowInv

LEMMA WindowInvStep ==
  ASSUME WindowInv, [Next]_vars
  PROVE  WindowInv'
<1> USE DEF epochVars, syncVars, readVars, masterVars
<1>1. ASSUME UNCHANGED <<window, heard, last_sync>>, uptime' \in Nat, master' \in MasterTimes
      PROVE  WindowInv'
  <2>1. WindowTypes'
    BY <1>1 DEF WindowInv, WindowTypes
  <2>2. window' = window /\ heard' = heard /\ last_sync' = last_sync
    BY <1>1
  <2> QED
    BY <2>1, <2>2 DEF WindowInv
<1>2. uptime \in Nat /\ master \in MasterTimes
  BY DEF WindowInv, WindowTypes
<1>3. CASE Tick
  BY <1>1, <1>2, <1>3 DEF Tick
<1>4. ASSUME NEW t, SetEpoch(t) PROVE WindowInv'
  BY <1>1, <1>2, <1>4 DEF SetEpoch
<1>5. ASSUME NEW r \in Received, NEW jitter \in Jitters, EndSync(r[1], r[2], jitter)
      PROVE  WindowInv'
  BY <1>5, WindowStep, TimeAssumption
<1>6. ASSUME NEW m \in MasterTimes, StepMaster(m) PROVE WindowInv'
  BY <1>1, <1>2, <1>6 DEF StepMaster
<1>7. ASSUME NEW o, Call(o) PROVE WindowInv'
  BY <1>1, <1>2, <1>7 DEF Call
<1>8. CASE ReadRef \/ ReadEpoch
  BY <1>1, <1>2, <1>8 DEF ReadRef, ReadEpoch
<1>9. CASE ReadUnix \/ Return \/ UNCHANGED vars
  BY <1>1, <1>2, <1>9 DEF ReadUnix, Return, vars
<1> QED
  BY <1>3, <1>4, <1>5, <1>6, <1>7, <1>8, <1>9 DEF Next

LEMMA WindowInvariant == Spec => []WindowInv
BY WindowInvInit, WindowInvStep, PTL DEF Spec

-----------------------------------------------------------------------------
(* The line. *)

(* A regression replaces the line by that of the window, or leaves it. *)
Refitted ==
  /\ line' = Fit(window') /\ Fit(window') \in Line
  /\ fitted' = {Pair(window', s) : s \in Samples(window')}

(* A regression that succeeds is over all that the window holds. *)
LEMMA EndSyncFits ==
  ASSUME WindowInv, NEW own \in SUBSET Slots, NEW rcv \in SUBSET Slots,
         NEW jitter \in [Slots -> Int], EndSync(own, rcv, jitter)
  PROVE  \/ /\ Refitted
            /\ trust' = "window" => clean' >= Len(window')
         \/ UNCHANGED <<line, fitted, trust>>
<1>1. WindowInv'
  BY WindowStep
<1>2. window' \in Seq(Burst \X Burst) /\ heard' \in Seq(SUBSET (Int \X Int)) /\ Len(heard') = Len(window')
  BY <1>1 DEF WindowInv, WindowTypes
<1>3. CASE calculate_lr_from_history(window', SlotNumber \div 2).status = "SUCCESS"
  <2>1. /\ line' = calculate_lr_from_history(window', SlotNumber \div 2).line
        /\ fitted' = UNION {heard'[k] : k \in DOMAIN heard'}
        /\ trust' = "window" => clean' >= Len(window')
    BY <1>3 DEF EndSync
  <2>2. line' = Fit(window') /\ Fit(window') \in Line
    BY <1>2, <1>3, <2>1, SuccessIsFit, FitIsLine
  <2>3. UNION {heard'[k] : k \in DOMAIN heard'} = {Pair(window', s) : s \in Samples(window')}
    <3>1. \A k \in 1 .. Len(window') :
            heard'[k] = {Pair(window', <<k, i>>) : i \in SampleSlots(window', k)}
      BY <1>1 DEF WindowInv
    <3>2. DOMAIN heard' = 1 .. Len(window')
      BY <1>2
    <3>3. ASSUME NEW s \in Samples(window')
          PROVE  Pair(window', s) \in UNION {heard'[k] : k \in DOMAIN heard'}
      <4>1. s[1] \in 1 .. Len(window') /\ s[2] \in Slots /\ s = <<s[1], s[2]>>
        BY SampleOfBurst
      <4>2. s[2] \in SampleSlots(window', s[1])
        BY <4>1 DEF SampleSlots
      <4>3. Pair(window', s) \in heard'[s[1]]
        BY <3>1, <4>1, <4>2
      <4> QED
        BY <3>2, <4>1, <4>3
    <3>4. ASSUME NEW k \in DOMAIN heard', NEW p \in heard'[k]
          PROVE  \E s \in Samples(window') : p = Pair(window', s)
      <4>1. PICK i \in SampleSlots(window', k) : p = Pair(window', <<k, i>>)
        BY <3>1, <3>2, <3>4
      <4> QED
        BY <4>1 DEF SampleSlots
    <3> QED
      BY <3>3, <3>4
  <2> QED
    BY <2>1, <2>2, <2>3 DEF Refitted
<1>4. CASE calculate_lr_from_history(window', SlotNumber \div 2).status # "SUCCESS"
  BY <1>4 DEF EndSync
<1> QED
  BY <1>3, <1>4

(***************************************************************************)
(* The sum over the pairs the properties remember is the sum over the      *)
(* samples: no local time occurs twice.                                    *)
(***************************************************************************)
LEMMA RefittedIsLeastSquares ==
  ASSUME WindowInv', Refitted
  PROVE  FitIsLeastSquares'
<1> DEFINE w == window'
           S == Samples(w)
           P == fitted'
           h == [s \in S |-> Pair(w, s)]
           r == [s \in S |-> line'.den * Master(w, s) - line'.slope * Own(w, s) - line'.offset]
           xr == [s \in S |-> Own(w, s) * r[s]]
           res == [p \in P |-> line'.den * p[2] - line'.slope * p[1] - line'.offset]
           xres == [p \in P |-> p[1] * res[p]]
<1>1. w \in Seq(Burst \X Burst) /\ line' = Fit(w) /\ Fit(w) \in Line
  BY DEF WindowInv, WindowTypes, Refitted
<1>2. IsFiniteSet(S) /\ \A s \in S : Own(w, s) \in Int /\ Master(w, s) \in Int
  BY <1>1, SamplesAreTimes
<1>3. P = {h[s] : s \in S}
  BY DEF Refitted
<1>4. \A s, t \in S : h[s] = h[t] => s = t
  <2>1. \A s, t \in S : Own(w, s) = Own(w, t) => s = t
    BY DEF WindowInv
  <2> QED
    BY <2>1 DEF Pair
<1>5. \A s \in S : r[s] \in Int /\ xr[s] \in Int
  BY <1>1, <1>2 DEF Line
<1>6. \A s \in S : res[h[s]] = r[s] /\ xres[h[s]] = xr[s]
  BY <1>3 DEF Pair
<1>7. SumFunctionOnSet(r, S) = 0 /\ SumFunctionOnSet(xr, S) = 0
  <2>1. \A s \in Samples(w) :
          /\ r[s] = line'.den * Master(w, s) - line'.slope * Own(w, s) - line'.offset
          /\ xr[s] = Own(w, s) * r[s]
    OBVIOUS
  <2> HIDE DEF r, xr, w
  <2> QED
    BY <1>1, <2>1, LeastSquares
<1>8. /\ [p \in fitted |-> Residual(p)]' = res
      /\ [p \in fitted |-> p[1] * Residual(p)]' = xres
  BY DEF Residual
<1>9. FitIsLeastSquares' <=> (P # {} => SumFunction(res) = 0 /\ SumFunction(xres) = 0)
  BY <1>8 DEF FitIsLeastSquares
<1>10. SumFunction(res) = SumFunctionOnSet(res, P) /\ SumFunction(xres) = SumFunctionOnSet(xres, P)
  <2>1. DOMAIN res = P /\ DOMAIN xres = P
    OBVIOUS
  <2> HIDE DEF res, xres, P
  <2> QED
    BY ONLY <2>1, SumOverDomain
<1> HIDE DEF S, P, h, r, xr, res, xres
<1>11. SumFunctionOnSet(res, {h[s] : s \in S}) = SumFunctionOnSet(r, S)
  BY ONLY <1>2, <1>4, <1>5, <1>6, SumImage
<1>12. SumFunctionOnSet(xres, {h[s] : s \in S}) = SumFunctionOnSet(xr, S)
  BY ONLY <1>2, <1>4, <1>5, <1>6, SumImage
<1> QED
  BY ONLY <1>3, <1>7, <1>9, <1>10, <1>11, <1>12

(***************************************************************************)
(* The line in force is the least-squares line of the samples: whichever   *)
(* packets were heard, in whichever bursts, with whichever errors.         *)
(***************************************************************************)
THEOREM LineIsLeastSquares == Spec => []FitIsLeastSquares
<1> USE DEF epochVars, syncVars, readVars, masterVars
<1>1. Init => FitIsLeastSquares
  BY DEF Init, FitIsLeastSquares
<1>2. ASSUME WindowInv, FitIsLeastSquares, [Next]_vars
      PROVE  FitIsLeastSquares'
  <2>1. ASSUME UNCHANGED <<line, fitted>> PROVE FitIsLeastSquares'
    BY <1>2, <2>1 DEF FitIsLeastSquares, Residual
  <2>2. CASE Tick \/ \E t \in EpochsUs : SetEpoch(t)
    BY <2>1, <2>2 DEF Tick, SetEpoch
  <2>3. ASSUME NEW r \in Received, NEW jitter \in Jitters, EndSync(r[1], r[2], jitter)
        PROVE  FitIsLeastSquares'
    <3>1. r[1] \in SUBSET Slots /\ r[2] \in SUBSET Slots /\ jitter \in [Slots -> Int]
      BY TimeAssumption
    <3>2. WindowInv'
      BY <1>2, <2>3, <3>1, WindowStep
    <3>3. Refitted \/ UNCHANGED <<line, fitted, trust>>
      BY <1>2, <2>3, <3>1, EndSyncFits
    <3> QED
      BY <2>1, <3>2, <3>3, RefittedIsLeastSquares
  <2>4. CASE (\E m \in MasterTimes : StepMaster(m)) \/ \E o : Call(o)
    BY <2>1, <2>4 DEF StepMaster, Call
  <2>5. CASE ReadRef \/ ReadEpoch \/ ReadUnix \/ Return \/ UNCHANGED vars
    BY <2>1, <2>5 DEF ReadRef, ReadEpoch, ReadUnix, Return, vars
  <2> QED
    BY <1>2, <2>2, <2>3, <2>4, <2>5 DEF Next
<1> QED
  BY <1>1, <1>2, WindowInvariant, PTL DEF Spec

-----------------------------------------------------------------------------
(* The authority's time. *)

(* A multiple of the denominator is rounded to its quotient. *)
LEMMA RoundExact ==
  ASSUME NEW den \in Nat \ {0}, NEW t \in Nat
  PROVE  Round(den * t, den) = t
<1>1. PICK num \in Nat : num = den * t
  OBVIOUS
<1>2. Round(num, den) = (2 * num + den) \div (2 * den)
  BY DEF Round
<1>3. PICK d \in Nat \ {0} : d = 2 * den
  OBVIOUS
<1>4. 2 * num = d * t
  BY <1>1, <1>3
<1>5. PICK e \in Nat : e = 2 * num + den
  OBVIOUS
<1>6. PICK q \in Nat, m \in 0 .. d - 1 : q = e \div d /\ e = d * q + m
  BY ONLY d \in Nat \ {0}, e \in Nat, Division
<1>7. d * q < d * (t + 1) /\ d * t < d * (q + 1)
  <2>1. d * q + m = d * t + den /\ den < d
    <3>1. d * q + m = d * t + den
      BY ONLY <1>4, <1>5, <1>6
    <3>2. den < d
      BY ONLY <1>3, den \in Nat \ {0}
    <3> QED
      BY <3>1, <3>2
  <2>2. d * (t + 1) = d * t + d /\ d * (q + 1) = d * q + d
    BY ONLY d \in Nat \ {0}, q \in Nat, t \in Nat
  <2>3. d * t \in Nat /\ d * q \in Nat
    BY ONLY d \in Nat \ {0}, q \in Nat, t \in Nat
  <2> QED
    BY ONLY <2>1, <2>2, <2>3, d \in Nat \ {0}, m \in 0 .. d - 1, den \in Nat \ {0}
<1>8. ASSUME NEW u \in Nat, NEW v \in Nat, d * u < d * v PROVE u < v
  BY <1>8
<1>9. q < t + 1 /\ t < q + 1
  BY ONLY <1>7, <1>8, t \in Nat, q \in Nat
<1>10. q = t
  BY ONLY <1>9, t \in Nat, q \in Nat
<1> QED
  BY <1>1, <1>2, <1>3, <1>5, <1>6, <1>10

(***************************************************************************)
(* The latest clean bursts lie on the authority's line, and so does the    *)
(* line fitted when there were no others.                                  *)
(***************************************************************************)
OnMasterLine(l) ==
  /\ l.den \in Nat \ {0}
  /\ l.slope = l.den * master.rate /\ l.offset = l.den * master.start
MasterInv ==
  /\ role = "CLIENT" => uptime_ref = 0 /\ epoch_ref_valid = FALSE
  /\ clean \in Nat
  /\ \A s \in Samples(window) :
       s[1] > Len(window) - clean =>
         Master(window, s) = master.rate * Own(window, s) + master.start
  /\ trust = "window" => role = "CLIENT" /\ OnMasterLine(line)

(* A line that is the authority's shows the authority's time. *)
LEMMA OnMasterLineShowsIt ==
  ASSUME WindowInv, MasterInv
  PROVE  FollowsMaster
<1> SUFFICES ASSUME trust = "window"
             PROVE  Clock = MasterTime(uptime)
  BY DEF FollowsMaster
<1>1. uptime_ref = 0 /\ epoch_ref_valid = FALSE /\ OnMasterLine(line)
  BY DEF MasterInv
<1>2. uptime \in Nat /\ master.rate \in Nat /\ master.start \in Nat
  BY TimeAssumption DEF WindowInv, WindowTypes
<1>3. PICK t \in Nat : t = MasterTime(uptime)
  BY <1>2 DEF MasterTime
<1>4. Clock = Round(line.slope * uptime + line.offset, line.den) + 0
  BY <1>1, <1>2 DEF Clock, Corrected, Epoch
<1>5. line.slope * uptime + line.offset = line.den * t
  BY <1>1, <1>2, <1>3 DEF OnMasterLine, MasterTime
<1>6. Round(line.den * t, line.den) = t
  BY <1>1, <1>3, RoundExact DEF OnMasterLine
<1> QED
  BY <1>3, <1>4, <1>5, <1>6

(* A burst without errors keeps the window's latest bursts on the line. *)
LEMMA MasterStep ==
  ASSUME WindowInv, MasterInv, NEW own \in SUBSET Slots, NEW rcv \in SUBSET Slots,
         NEW jitter \in [Slots -> Int], EndSync(own, rcv, jitter)
  PROVE  MasterInv'
<1> DEFINE n == Len(window')
<1>1. Grows(own, rcv, jitter) /\ WindowTypes /\ WindowTypes'
  <2>1. WindowTypes
    BY DEF WindowInv
  <2>2. Grows(own, rcv, jitter)
    BY ONLY <2>1, own \in SUBSET Slots, rcv \in SUBSET Slots, jitter \in [Slots -> Int],
            EndSync(own, rcv, jitter), WindowGrows
  <2> QED
    BY <2>1, <2>2 DEF Grows
<1>2. /\ role = "CLIENT" /\ UNCHANGED <<role, uptime_ref, epoch_ref_valid, master>>
      /\ clean' = IF Exact(jitter) THEN clean + 1 ELSE 0
      /\ clean \in Nat /\ clean' \in Nat
  BY DEF EndSync, MasterInv, epochVars, masterVars
<1>3. /\ n \in Nat /\ Len(window) \in Nat /\ Shift \in {0, 1}
      /\ Shift = Len(window) + 1 - n
  BY <1>1 DEF Grows, WindowTypes, Shift
<1>4. ASSUME NEW s \in Samples(window'), s[1] > n - clean'
      PROVE  Master(window', s) = MasterTime(Own(window', s))
  <2>1. s[1] \in 1 .. n
    BY SampleOfBurst
  <2>2. Exact(jitter) /\ clean' = clean + 1
    BY <1>2, <1>3, <1>4, <2>1
  <2>3. CASE s[1] = n
    <3>1. /\ Own(window', s) = ReceivedAt(s[2]) /\ s[2] \in Slots
          /\ Master(window', s) = MasterTime(ReceivedAt(s[2])) + jitter[s[2]]
      BY <1>1, <2>3, NewSample
    <3>2. jitter[s[2]] = 0
      <4>1. \A i \in Slots : jitter[i] = 0
        BY ONLY <2>2 DEF Exact
      <4>2. s[2] \in Slots
        BY ONLY <3>1
      <4> QED
        BY ONLY <4>1, <4>2
    <3>3. MasterTime(ReceivedAt(s[2])) \in Int
      <4>1. uptime \in Int /\ master.rate \in Int /\ master.start \in Int
        BY <1>1, TimeAssumption DEF WindowTypes
      <4>2. s[2] \in Int /\ SlotNumber \in Int
        BY <3>1, BitsAssumption DEF Slots
      <4> QED
        BY ONLY <4>1, <4>2 DEF MasterTime, ReceivedAt
    <3> QED
      BY ONLY <3>1, <3>2, <3>3
  <2>4. CASE s[1] # n
    <3> DEFINE o == <<s[1] + Shift, s[2]>>
    <3>1. /\ o \in Samples(window)
          /\ Own(window', s) = Own(window, o) /\ Master(window', s) = Master(window, o)
      BY <1>1, <2>4, OldSample
    <3>2. o[1] > Len(window) - clean
      BY <1>2, <1>3, <1>4, <2>1, <2>2
    <3> QED
      BY <3>1, <3>2 DEF MasterInv, MasterTime
  <2> QED
    BY <2>3, <2>4
<1>5. \A s \in Samples(window') :
        s[1] > n - clean' => Master(window', s) = master'.rate * Own(window', s) + master'.start
  BY <1>2, <1>4 DEF MasterTime
<1>6. trust' = "window" => OnMasterLine(line)'
  <2>1. CASE UNCHANGED <<line, trust>>
    BY <1>2, <2>1 DEF MasterInv, OnMasterLine
  <2>2. CASE Refitted /\ clean' >= n /\ trust' = "window"
    <3>1. \A s \in Samples(window') : s[1] > n - clean'
      BY <1>2, <1>3, <2>2, SampleOfBurst
    <3>2. \A s \in Samples(window') :
            Master(window', s) = master.rate * Own(window', s) + master.start
      BY <1>4, <3>1 DEF MasterTime
    <3>3. master.rate \in Int /\ master.start \in Int
      BY <1>1, TimeAssumption DEF WindowTypes
    <3>4. window' \in Seq(Burst \X Burst) /\ line' = Fit(window') /\ line' \in Line
      BY <1>1, <2>2 DEF WindowTypes, Refitted
    <3>5. line'.slope = line'.den * master.rate /\ line'.offset = line'.den * master.start
      <4>1. PICK w \in Seq(Burst \X Burst), l \in Line : w = window' /\ l = line' /\ l = Fit(w)
        BY ONLY <3>4
      <4>2. PICK rate \in Int, start \in Int : rate = master.rate /\ start = master.start
        BY ONLY <3>3
      <4>3. \A s \in Samples(w) : Master(w, s) = rate * Own(w, s) + start
        BY ONLY <3>2, <4>1, <4>2
      <4>4. l.slope = l.den * rate /\ l.offset = l.den * start
        BY ONLY <4>1, <4>3, FitOfALine, w \in Seq(Burst \X Burst), rate \in Int, start \in Int
      <4> QED
        BY ONLY <4>1, <4>2, <4>4
    <3> QED
      BY <1>2, <3>4, <3>5 DEF OnMasterLine, Line
  <2>3. \/ Refitted /\ (trust' = "window" => clean' >= n)
        \/ UNCHANGED <<line, fitted, trust>>
    BY EndSyncFits
  <2> QED
    BY <2>1, <2>2, <2>3
<1> QED
  BY <1>2, <1>5, <1>6 DEF MasterInv

(***************************************************************************)
(* A client whose window holds the authority's time shows that time        *)
(* exactly, at every later instant, until the authority is stepped.        *)
(***************************************************************************)
THEOREM ClientFollowsMaster == Spec => []FollowsMaster
<1> USE DEF epochVars, syncVars, readVars, masterVars
<1>1. Init => MasterInv
  <2> SUFFICES ASSUME Init PROVE MasterInv
    OBVIOUS
  <2>1. Samples(window) = {}
    BY DEF Init, Samples
  <2>2. uptime_ref = 0 /\ epoch_ref_valid = FALSE /\ clean = 0 /\ trust = "none"
    BY DEF Init
  <2> QED
    BY <2>1, <2>2 DEF MasterInv
<1>2. ASSUME WindowInv, MasterInv, [Next]_vars
      PROVE  MasterInv'
  <2>1. ASSUME UNCHANGED <<role, uptime_ref, epoch_ref_valid, window, clean, trust, line, master>>
        PROVE  MasterInv'
    <3>1. UNCHANGED OnMasterLine(line)
      BY <2>1 DEF OnMasterLine
    <3> QED
      BY <1>2, <2>1, <3>1 DEF MasterInv
  <2>2. CASE Tick
    BY <2>1, <2>2 DEF Tick
  <2>3. ASSUME NEW t, SetEpoch(t) PROVE MasterInv'
    <3>1. /\ role = "AUTHORITY" /\ trust # "window"
          /\ UNCHANGED <<role, window, clean, trust, master>>
      BY <1>2, <2>3 DEF SetEpoch, MasterInv
    <3> QED
      BY <1>2, <3>1 DEF MasterInv
  <2>4. ASSUME NEW r \in Received, NEW jitter \in Jitters, EndSync(r[1], r[2], jitter)
        PROVE  MasterInv'
    BY <1>2, <2>4, MasterStep, TimeAssumption
  <2>5. ASSUME NEW m, StepMaster(m) PROVE MasterInv'
    <3>1. /\ clean' = 0 /\ trust' = "none"
          /\ UNCHANGED <<role, uptime_ref, epoch_ref_valid, window>>
      BY <2>5 DEF StepMaster
    <3>2. \A s \in Samples(window') : ~ (s[1] > Len(window') - clean')
      <4>1. Len(window') \in Nat
        BY <1>2, <3>1 DEF WindowInv, WindowTypes
      <4> QED
        BY <3>1, <4>1, SampleOfBurst
    <3> QED
      BY <1>2, <3>1, <3>2 DEF MasterInv
  <2>6. ASSUME NEW o, Call(o) PROVE MasterInv'
    BY <2>1, <2>6 DEF Call
  <2>7. CASE ReadRef \/ ReadEpoch \/ ReadUnix \/ Return \/ UNCHANGED vars
    BY <2>1, <2>7 DEF ReadRef, ReadEpoch, ReadUnix, Return, vars
  <2> QED
    BY <1>2, <2>2, <2>3, <2>4, <2>5, <2>6, <2>7 DEF Next
<1> QED
  BY <1>1, <1>2, WindowInvariant, OnMasterLineShowsIt, PTL DEF Spec

-----------------------------------------------------------------------------
(* The times that calls return. *)

(* Rounding gives an integer, with the sign of the numerator. *)
LEMMA RoundType ==
  ASSUME NEW num \in Int, NEW den \in Nat \ {0}
  PROVE  Round(num, den) \in Int /\ (num \in Nat => Round(num, den) \in Nat)
<1>1. PICK d \in Nat \ {0} : d = 2 * den
  OBVIOUS
<1>2. CASE num >= 0
  <2>1. PICK e \in Nat : e = 2 * num + den
    BY <1>2
  <2>2. e \div d \in Nat
    BY ONLY e \in Nat, d \in Nat \ {0}, Division
  <2> QED
    BY <1>1, <1>2, <2>1, <2>2 DEF Round
<1>3. CASE num < 0
  <2>1. PICK e \in Nat : e = den - 2 * num
    BY <1>3
  <2>2. e \div d \in Nat
    BY ONLY e \in Nat, d \in Nat \ {0}, Division
  <2> QED
    BY <1>1, <1>3, <2>1, <2>2 DEF Round
<1> QED
  BY <1>2, <1>3

(* So does the correction. *)
LEMMA CorrectedType ==
  ASSUME NEW d \in Int, NEW l \in Line
  PROVE  /\ Corrected(d, l) \in Int
         /\ l.slope * d + l.offset \in Nat => Corrected(d, l) \in Nat
<1>1. l.slope \in Int /\ l.offset \in Int /\ l.den \in Nat \ {0}
  BY DEF Line
<1>2. PICK num \in Int : num = l.slope * d + l.offset
  BY <1>1
<1>3. Round(num, l.den) \in Int /\ (num \in Nat => Round(num, l.den) \in Nat)
  BY ONLY <1>1, num \in Int, RoundType
<1> QED
  BY <1>2, <1>3 DEF Corrected

(* A number below the divisor is its remainder. *)
LEMMA SmallRemainder ==
  ASSUME NEW n \in Nat \ {0}, NEW x \in 0 .. n - 1
  PROVE  x % n = x
<1>1. PICK q \in Nat, m \in 0 .. n - 1 : q = x \div n /\ m = x % n /\ x = n * q + m
  <2>1. x \in Nat
    OBVIOUS
  <2> QED
    BY ONLY <2>1, n \in Nat \ {0}, Division
<1>2. n * q < n * 1
  BY <1>1
<1>3. ASSUME NEW u \in Nat, NEW v \in Nat, n * u < n * v PROVE u < v
  BY <1>3
<1>4. q < 1
  BY ONLY <1>2, <1>3, q \in Nat, 1 \in Nat
<1> QED
  BY <1>1, <1>4

(***************************************************************************)
(* uncompress_time recovers a time that is not later than now, nor a       *)
(* period earlier.                                                         *)
(***************************************************************************)
LEMMA UncompressOfEvent ==
  ASSUME NEW now \in Int, NEW e \in 0 .. Period * Period - 1, e <= now, now - e < Period
  PROVE  uncompress_time(now, e % Period) = e
<1>1. PICK P \in Nat \ {0} : P = Period
  BY TimeAssumption
<1>2. e \in Nat /\ now \in Nat
  <2>1. P * P \in Nat
    OBVIOUS
  <2> QED
    BY <1>1, <2>1
<1>3. PICK q \in Nat, r \in 0 .. P - 1 : q = now \div P /\ now = P * q + r
  BY ONLY <1>1, <1>2, Division
<1>4. PICK p \in Nat, s \in 0 .. P - 1 : p = e \div P /\ s = e % P /\ e = P * p + s
  BY ONLY <1>1, <1>2, Division
<1>5. PICK whole \in Int : whole = q * P + s
  OBVIOUS
<1>6. (IF whole > now THEN whole - P ELSE whole) = e
  <2>1. P * p + s <= P * q + r /\ P * q + r - (P * p + s) < P
    BY <1>1, <1>3, <1>4
  <2>2. whole > now <=> s > r
    <3>1. whole = P * q + s /\ P * q \in Nat
      BY ONLY <1>5, q \in Nat, P \in Nat \ {0}, s \in 0 .. P - 1
    <3> QED
      BY ONLY <1>3, <3>1, s \in 0 .. P - 1, r \in 0 .. P - 1, P \in Nat \ {0}
  <2>3. /\ P * p \in Nat /\ P * q \in Nat /\ q * P = P * q /\ P * 1 = P
        /\ P * (p + 1) = P * p + P /\ P * (q + 1) = P * q + P /\ P * (p + 2) = P * p + 2 * P
    BY ONLY p \in Nat, q \in Nat, P \in Nat \ {0}
  <2>4. ASSUME NEW u \in Nat, NEW v \in Nat, P * u < P * v PROVE u < v
    BY ONLY P \in Nat \ {0}, u \in Nat, v \in Nat, P * u < P * v
  <2>5. CASE s > r
    <3>1. P * p < P * q /\ P * q < P * (p + 2)
      BY ONLY <2>1, <2>3, <2>5, P \in Nat \ {0}, s \in 0 .. P - 1, r \in 0 .. P - 1
    <3>2. p < q /\ q < p + 2
      BY ONLY <2>4, <3>1, p \in Nat, q \in Nat, p + 2 \in Nat
    <3>3. q = p + 1
      BY ONLY <3>2, p \in Nat, q \in Nat
    <3>4. whole - P = P * p + s
      BY ONLY <1>5, <2>3, <3>3, P \in Nat \ {0}, s \in 0 .. P - 1
    <3> QED
      BY ONLY <1>4, <2>2, <2>5, <3>4
  <2>6. CASE ~ (s > r)
    <3>1. P * p < P * (q + 1) /\ P * q < P * (p + 1)
      BY ONLY <2>1, <2>3, <2>6, P \in Nat \ {0}, s \in 0 .. P - 1, r \in 0 .. P - 1
    <3>2. p < q + 1 /\ q < p + 1
      BY ONLY <2>4, <3>1, p \in Nat, q \in Nat, p + 1 \in Nat, q + 1 \in Nat
    <3>3. q = p
      BY ONLY <3>2, p \in Nat, q \in Nat
    <3>4. whole = P * p + s
      BY ONLY <1>5, <2>3, <3>3
    <3> QED
      BY ONLY <1>4, <2>2, <2>6, <3>4
  <2> QED
    BY <2>5, <2>6
<1>7. e % (P * P) = e
  <2>1. PICK n \in Nat \ {0} : n = P * P
    <3>1. P * P \in Nat \ {0}
      OBVIOUS
    <3> QED
      BY <3>1
  <2>2. e \in 0 .. n - 1
    BY <1>1, <2>1
  <2>3. e % n = e
    BY ONLY <2>2, n \in Nat \ {0}, SmallRemainder
  <2> QED
    BY <2>1, <2>3
<1>8. uncompress_time(now, s) = (IF whole > now THEN whole - P ELSE whole) % (P * P)
  BY <1>1, <1>3, <1>5 DEF uncompress_time
<1> QED
  BY ONLY <1>1, <1>4, <1>6, <1>7, <1>8

(* Quotients and remainders of integers are integers. *)
LEMMA RemainderType ==
  ASSUME NEW n \in Nat \ {0}, NEW x \in Int
  PROVE  (x % n) \in 0 .. n - 1 /\ x \div n \in Int
OBVIOUS

(* A recovered time is not negative, whatever is recovered. *)
LEMMA UncompressType ==
  ASSUME NEW now \in Int, NEW e \in Int
  PROVE  uncompress_time(now, e % Period) \in Nat
<1>1. PICK P \in Nat \ {0} : P = Period
  BY TimeAssumption
<1>2. PICK q \in Int, s \in Int : q = now \div P /\ s = e % P
  <2>1. now \div P \in Int /\ (e % P) \in 0 .. P - 1
    BY ONLY P \in Nat \ {0}, now \in Int, e \in Int, RemainderType
  <2>2. \A m \in 0 .. P - 1 : m \in Int
    OBVIOUS
  <2> QED
    BY ONLY <2>1, <2>2
<1>3. PICK n \in Nat \ {0} : n = P * P
  <2>1. P * P \in Nat \ {0}
    OBVIOUS
  <2> QED
    BY <2>1
<1>4. PICK t \in Int : t = (IF q * P + s > now THEN q * P + s - P ELSE q * P + s)
  <2>1. q * P + s \in Int /\ q * P + s - P \in Int
    OBVIOUS
  <2>2. (IF q * P + s > now THEN q * P + s - P ELSE q * P + s) \in Int
    BY ONLY <2>1, Zenon
  <2> QED
    BY <2>1, <2>2
<1>5. uncompress_time(now, s) = t % n
  BY <1>1, <1>2, <1>3, <1>4 DEF uncompress_time
<1>6. (t % n) \in 0 .. n - 1
  BY ONLY t \in Int, n \in Nat \ {0}, RemainderType
<1> QED
  BY <1>1, <1>2, <1>5, <1>6

(* The types, without what they say about negative times. *)
TypeInv ==
  /\ role \in Roles /\ uptime \in 1 .. MaxUptime
  /\ uptime_ref \in 0 .. uptime /\ epoch_ref_ticks \in Nat
  /\ epoch_ref_us \in EpochsUs \cup {0} /\ epoch_ref_valid \in BOOLEAN
  /\ line \in Line /\ read \in Line
  /\ pc \in {"idle", "ref", "epoch", "unix", "done"}
  /\ op \in {"none", "ticks", "us", "unix", "uncompress"}
  /\ delta \in 0 .. uptime
  /\ ticks \in Int /\ us \in Int /\ out \in Nat /\ event \in Int
  /\ trust \in {"none", "last", "window"} /\ torn \in BOOLEAN

(* The results of a call that ends without the second critical section. *)
LEMMA ReadEpochType ==
  ASSUME TypeInv, ReadEpoch
  PROVE  /\ ticks' \in Int /\ us' \in Int /\ out' \in Nat /\ event' \in Int
         /\ pc' \in {"unix", "done"}
<1> USE DEF TypeInv
<1>1. ticks' \in Int
  <2>1. Corrected(delta, read) \in Int
    BY CorrectedType
  <2>2. Epoch \in Int
    BY DEF Epoch
  <2> QED
    BY <2>1, <2>2 DEF ReadEpoch
<1>2. us' \in Int
  BY <1>1, MicrosecondRounding DEF ReadEpoch
<1>3. event' \in Int
  BY <1>2 DEF ReadEpoch
<1>4. out' \in Nat
  <2>1. uncompress_time(us', event % Period) \in Nat
    BY <1>2, UncompressType
  <2> QED
    BY <2>1 DEF ReadEpoch
<1> QED
  BY <1>1, <1>2, <1>3, <1>4 DEF ReadEpoch

(* The line of a node that was fitted none. *)
LEMMA IdentityIsLine == Identity \in Line
BY DEF Identity, Line

LEMMA TypeInvInit == Init => TypeInv
<1> SUFFICES ASSUME Init PROVE TypeInv
  OBVIOUS
<1>1. uptime = 1 /\ uptime \in 1 .. MaxUptime
  BY TimeAssumption DEF Init
<1>2. line \in Line /\ read \in Line
  BY IdentityIsLine DEF Init
<1>3. epoch_ref_valid \in BOOLEAN /\ torn \in BOOLEAN
  BY Zenon DEF Init
<1> QED
  BY <1>1, <1>2, <1>3 DEF Init, TypeInv, NoEvent

LEMMA TypeInvStep ==
  ASSUME TypeInv, WindowInv, [Next]_vars
  PROVE  TypeInv'
<1> USE DEF TypeInv, epochVars, syncVars, readVars, masterVars
<1>1. CASE Tick
  <2>1. uptime' \in 1 .. MaxUptime /\ uptime' = uptime + 1
    BY <1>1, TimeAssumption DEF Tick
  <2> QED
    BY <1>1, <2>1 DEF Tick
<1>2. ASSUME NEW t \in EpochsUs, SetEpoch(t) PROVE TypeInv'
  <2>1. us_to_ticks(t) \in Nat
    BY TimeAssumption, EpochRounding
  <2> QED
    BY <1>2, <2>1 DEF SetEpoch
<1>3. ASSUME NEW r \in Received, NEW jitter \in Jitters, EndSync(r[1], r[2], jitter)
      PROVE  TypeInv'
  <2>1. r[1] \in SUBSET Slots /\ r[2] \in SUBSET Slots /\ jitter \in [Slots -> Int]
    BY TimeAssumption
  <2>2. line' \in Line
    BY <1>3, <2>1, EndSyncFits DEF Refitted
  <2>3. trust' \in {"none", "last", "window"}
    BY <1>3 DEF EndSync
  <2> QED
    BY <1>3, <2>2, <2>3 DEF EndSync
<1>4. ASSUME NEW m \in MasterTimes, StepMaster(m) PROVE TypeInv'
  BY <1>4 DEF StepMaster
<1>5. ASSUME NEW o \in {"ticks", "us", "unix", "uncompress"}, Call(o) PROVE TypeInv'
  BY <1>5 DEF Call
<1>6. CASE ReadRef
  <2>1. uptime - uptime_ref \in 0 .. uptime
    OBVIOUS
  <2> QED
    BY <1>6, <2>1 DEF ReadRef
<1>7. CASE ReadEpoch
  BY <1>7, ReadEpochType DEF ReadEpoch
<1>8. CASE ReadUnix
  <2>1. PICK delta_us \in ticks_to_us(ticks - epoch_ref_ticks) : us' = epoch_ref_us + delta_us
    BY <1>8 DEF ReadUnix
  <2>2. delta_us \in Int
    <3>1. ticks - epoch_ref_ticks \in Int
      OBVIOUS
    <3> QED
      BY <3>1, MicrosecondRounding
  <2>3. us' \in Int
    BY <2>1, <2>2, TimeAssumption
  <2> QED
    BY <1>8, <2>3 DEF ReadUnix
<1>9. CASE Return
  <2>1. torn' \in BOOLEAN /\ epoch_ref_valid' = epoch_ref_valid
    BY <1>9, Zenon DEF Return
  <2>2. /\ pc' = "idle" /\ op' = "none" /\ delta' = 0 /\ read' \in Line
        /\ ticks' = 0 /\ us' = 0 /\ out' = 0 /\ event' = event
    BY <1>9, IdentityIsLine DEF Return
  <2>3. UNCHANGED <<role, uptime, uptime_ref, epoch_ref_ticks, epoch_ref_us, line, trust>>
    BY <1>9 DEF Return
  <2> QED
    BY <2>1, <2>2, <2>3
<1>10. CASE UNCHANGED vars
  BY <1>10 DEF vars
<1> QED
  BY <1>1, <1>2, <1>3, <1>4, <1>5, <1>6, <1>7, <1>8, <1>9, <1>10 DEF Next

LEMMA TypeInvariant == Spec => []TypeInv
BY TypeInvInit, TypeInvStep, WindowInvariant, PTL DEF Spec

(* What a call of uncompress_time is about to return. *)
UncompressInv ==
  /\ pc = "unix" => op = "unix"
  /\ pc = "done" /\ op = "uncompress" => out = uncompress_time(us, event % Period)

(***************************************************************************)
(* A time of 64 bits that was sent as its low 32 bits is recovered at any  *)
(* later time within their range, on every clock and whatever is changed   *)
(* while it is read.                                                       *)
(***************************************************************************)
THEOREM CompressedTimeIsRecovered == Spec => []UncompressRecovers
<1> USE DEF epochVars, syncVars, readVars, masterVars
<1>1. Init => UncompressInv
  BY DEF Init, UncompressInv
<1>2. ASSUME UncompressInv, [Next]_vars
      PROVE  UncompressInv'
  <2>1. ASSUME UNCHANGED readVars PROVE UncompressInv'
    BY <1>2, <2>1 DEF UncompressInv
  <2>2. CASE Tick \/ (\E t \in EpochsUs : SetEpoch(t)) \/ \E m \in MasterTimes : StepMaster(m)
    BY <2>1, <2>2 DEF Tick, SetEpoch, StepMaster
  <2>3. ASSUME NEW r, NEW jitter, EndSync(r[1], r[2], jitter) PROVE UncompressInv'
    BY <2>1, <2>3 DEF EndSync
  <2>4. ASSUME NEW o, Call(o) PROVE UncompressInv'
    BY <2>4 DEF Call, UncompressInv
  <2>5. CASE ReadRef
    BY <2>5 DEF ReadRef, UncompressInv
  <2>6. CASE ReadEpoch
    BY <2>6 DEF ReadEpoch, UncompressInv
  <2>7. CASE ReadUnix
    BY <1>2, <2>7 DEF ReadUnix, UncompressInv
  <2>8. CASE Return
    BY <2>8 DEF Return, UncompressInv
  <2>9. CASE UNCHANGED vars
    BY <2>1, <2>9 DEF vars
  <2> QED
    BY <1>2, <2>2, <2>3, <2>4, <2>5, <2>6, <2>7, <2>8, <2>9 DEF Next
<1>3. TypeInv /\ UncompressInv => UncompressRecovers
  <2> SUFFICES ASSUME TypeInv, UncompressInv, pc = "done", op = "uncompress",
                      event \in 0 .. Period * Period - 1, event <= us, us - event < Period
               PROVE  out = event
    BY DEF UncompressRecovers
  <2>1. us \in Int
    BY DEF TypeInv
  <2>2. uncompress_time(us, event % Period) = event
    BY <2>1, UncompressOfEvent
  <2> QED
    BY <2>2 DEF UncompressInv
<1> QED
  BY <1>1, <1>2, <1>3, TypeInvariant, PTL DEF Spec

-----------------------------------------------------------------------------
(* The sign of the clock. *)

(* A time received on the authority's line m, u ticks after the boot, or   *)
(* before that.                                                            *)
Before(m, t, u) == \A j \in Jitters, h \in Slots : t <= m.rate * u + m.start + j[h]

(* A clock that does not run backwards. *)
LEMMA LaterIsMore ==
  ASSUME NEW r \in Nat, NEW u \in Int, NEW v \in Int, u <= v
  PROVE  r * u \in Int /\ r * v \in Int /\ r * u <= r * v
<1>1. PICK d \in Nat : v = u + d
  BY v - u \in Nat
<1>2. r * (u + d) = r * u + r * d /\ r * d \in Nat /\ r * u \in Int
  BY ONLY r \in Nat, u \in Int, d \in Nat
<1> QED
  BY ONLY <1>1, <1>2

(* A time received before u is received before any later v. *)
LEMMA BeforeLater ==
  ASSUME NEW m \in MasterTimes, NEW t \in Int, NEW u \in Int, NEW v \in Int,
         u <= v, Before(m, t, u)
  PROVE  Before(m, t, v)
<1>1. m.rate \in Nat /\ m.start \in Nat
  BY TimeAssumption
<1>2. m.rate * u \in Int /\ m.rate * v \in Int /\ m.rate * u <= m.rate * v
  BY ONLY <1>1, u \in Int, v \in Int, u <= v, LaterIsMore
<1> SUFFICES ASSUME NEW j \in Jitters, NEW h \in Slots
             PROVE  t <= m.rate * v + m.start + j[h]
  BY DEF Before
<1>3. j[h] \in Int /\ t <= m.rate * u + m.start + j[h]
  BY TimeAssumption DEF Before
<1> QED
  BY ONLY <1>1, <1>2, <1>3, t \in Int

(* A step of the authority only moves later times further on. *)
LEMMA BeforeStepped ==
  ASSUME NEW m \in MasterTimes, NEW next \in MasterTimes, m.start < next.start,
         NEW t \in Int, NEW u \in Nat, Before(m, t, u)
  PROVE  Before(next, t, u)
<1>1. /\ m.rate \in Nat /\ m.start \in Nat /\ next.rate \in Nat /\ next.start \in Nat
      /\ m.rate <= next.rate
  BY TimeAssumption, TimesRise
<1>2. /\ m.rate * u \in Nat /\ next.rate * u \in Nat /\ m.rate * u <= next.rate * u
  <2>1. u * m.rate \in Int /\ u * next.rate \in Int /\ u * m.rate <= u * next.rate
    BY ONLY <1>1, u \in Nat, m.rate \in Int, next.rate \in Int, LaterIsMore
  <2>2. PICK a \in Nat, b \in Nat : a = m.rate /\ b = next.rate
    BY <1>1
  <2>3. u * a = a * u /\ u * b = b * u /\ a * u \in Nat /\ b * u \in Nat
    BY ONLY u \in Nat, a \in Nat, b \in Nat
  <2> QED
    BY ONLY <2>1, <2>2, <2>3
<1> SUFFICES ASSUME NEW j \in Jitters, NEW h \in Slots
             PROVE  t <= next.rate * u + next.start + j[h]
  BY DEF Before
<1>3. j[h] \in Int /\ t <= m.rate * u + m.start + j[h]
  BY TimeAssumption DEF Before
<1> QED
  BY ONLY <1>1, <1>2, <1>3, t \in Int, m.start < next.start

(* A time received at u, and one received later. *)
LEMMA ReceivedRises ==
  ASSUME NEW m \in MasterTimes, NEW j \in Jitters, NEW i \in Slots, NEW u \in Nat,
         NEW t, t = m.rate * u + m.start + j[i]
  PROVE  t \in Int /\ Before(m, t, u + 1) /\ (u >= 1 => t >= 0)
<1>1. PICK r \in Nat, b \in Nat, e \in Int : r = m.rate /\ b = m.start /\ e = j[i]
  BY TimeAssumption
<1>2. r * u \in Nat /\ r * (u + 1) = r * u + r
  BY ONLY r \in Nat, u \in Nat
<1>3. Before(m, r * u + b + e, u + 1)
  <2> SUFFICES ASSUME NEW k \in Jitters, NEW h \in Slots
               PROVE  r * u + b + e <= r * (u + 1) + b + k[h]
    BY <1>1 DEF Before
  <2>1. e - k[h] <= r /\ k[h] \in Int
    BY <1>1, TimesRise, TimeAssumption
  <2> QED
    BY ONLY <1>2, <2>1, r \in Nat, b \in Nat, e \in Int
<1>4. ASSUME u >= 1 PROVE r * u + b + e >= 0
  <2>1. 0 <= r + b + e
    BY <1>1, TimesRise
  <2>2. r * 1 <= r * u /\ r * 1 = r
    BY ONLY <1>4, u \in Nat, r \in Nat
  <2> QED
    BY ONLY <1>2, <2>1, <2>2, r \in Nat, b \in Nat, e \in Int
<1> QED
  BY <1>1, <1>2, <1>3, <1>4

(***************************************************************************)
(* The received times of the window rise with the local ones.              *)
(***************************************************************************)
RisingInv ==
  /\ Rising(window)
  /\ \A s \in Samples(window) :
       0 <= Master(window, s) /\ Before(master, Master(window, s), last_sync + 1)

(* A burst is received after the window, and in the order of its slots. *)
LEMMA RisingStep ==
  ASSUME WindowInv, RisingInv, NEW own \in SUBSET Slots, NEW rcv \in SUBSET Slots,
         NEW jitter \in Jitters, EndSync(own, rcv, jitter)
  PROVE  RisingInv'
<1> DEFINE n == Len(window')
<1>1. Grows(own, rcv, jitter) /\ WindowTypes /\ WindowTypes'
  <2>1. WindowTypes
    BY DEF WindowInv
  <2>2. jitter \in [Slots -> Int]
    BY TimeAssumption
  <2>3. Grows(own, rcv, jitter)
    BY ONLY <2>1, <2>2, own \in SUBSET Slots, rcv \in SUBSET Slots,
            EndSync(own, rcv, jitter), WindowGrows
  <2> QED
    BY <2>1, <2>3 DEF Grows
<1>2. /\ last_sync' = uptime /\ last_sync + SlotNumber <= uptime /\ master' = master
      /\ uptime \in Nat /\ last_sync \in Nat /\ SlotNumber \in Nat \ {0} /\ master \in MasterTimes
  BY <1>1, BitsAssumption DEF EndSync, WindowTypes, masterVars
<1>3. \A i \in Slots : ReceivedAt(i) \in Nat /\ last_sync + 1 <= ReceivedAt(i) /\ ReceivedAt(i) <= uptime
  BY <1>2 DEF ReceivedAt, Slots
<1>4. /\ \A s \in Samples(window) : Own(window, s) \in Int /\ Master(window, s) \in Int
      /\ \A s \in Samples(window') : Own(window', s) \in Int /\ Master(window', s) \in Int
  <2>1. window \in Seq(Burst \X Burst) /\ window' \in Seq(Burst \X Burst)
    BY <1>1 DEF WindowTypes
  <2> QED
    BY ONLY <2>1, SamplesAreTimes
<1>5. ASSUME NEW s \in Samples(window'), s[1] = n
      PROVE  /\ s[2] \in Slots /\ Own(window', s) = ReceivedAt(s[2])
             /\ Master(window', s) = master.rate * ReceivedAt(s[2]) + master.start + jitter[s[2]]
  BY <1>1, <1>5, NewSample DEF MasterTime
<1>6. ASSUME NEW s \in Samples(window'), s[1] # n
      PROVE  /\ 0 <= Master(window', s) /\ Before(master, Master(window', s), last_sync + 1)
             /\ Own(window', s) <= last_sync
  <2>1. /\ <<s[1] + Shift, s[2]>> \in Samples(window)
        /\ Own(window', s) = Own(window, <<s[1] + Shift, s[2]>>)
        /\ Master(window', s) = Master(window, <<s[1] + Shift, s[2]>>)
    BY <1>1, <1>6, OldSample
  <2> QED
    BY <2>1 DEF RisingInv, WindowInv
<1>7. ASSUME NEW s \in Samples(window')
      PROVE  0 <= Master(window', s) /\ Before(master, Master(window', s), uptime + 1)
  <2>1. CASE s[1] = n
    <3>1. PICK u \in Nat : u = ReceivedAt(s[2]) /\ 1 <= u /\ u <= uptime
      BY <1>2, <1>3, <1>5, <2>1
    <3>2. 0 <= Master(window', s) /\ Before(master, Master(window', s), u + 1)
      BY <1>2, <1>5, <2>1, <3>1, ReceivedRises
    <3>3. u + 1 \in Int /\ uptime + 1 \in Int /\ u + 1 <= uptime + 1
      BY <1>2, <3>1
    <3> QED
      BY <1>2, <1>4, <3>2, <3>3, BeforeLater
  <2>2. CASE s[1] # n
    <3>1. 0 <= Master(window', s) /\ Before(master, Master(window', s), last_sync + 1)
      BY <1>6, <2>2
    <3>2. last_sync + 1 \in Int /\ uptime + 1 \in Int /\ last_sync + 1 <= uptime + 1
      BY <1>2
    <3> QED
      BY <1>2, <1>4, <3>1, <3>2, BeforeLater
  <2> QED
    BY <2>1, <2>2
<1>8. ASSUME NEW s \in Samples(window'), NEW t \in Samples(window'),
             Own(window', s) <= Own(window', t)
      PROVE  Master(window', s) <= Master(window', t)
  <2>1. CASE t[1] # n
    <3>1. s[1] # n
      BY <1>2, <1>3, <1>4, <1>5, <1>6, <1>8, <2>1
    <3> DEFINE a == <<s[1] + Shift, s[2]>>
               b == <<t[1] + Shift, t[2]>>
    <3>2. /\ a \in Samples(window)
          /\ Own(window', s) = Own(window, a) /\ Master(window', s) = Master(window, a)
      BY <1>1, <3>1, OldSample
    <3>3. /\ b \in Samples(window)
          /\ Own(window', t) = Own(window, b) /\ Master(window', t) = Master(window, b)
      BY <1>1, <2>1, OldSample
    <3> QED
      BY <1>8, <3>2, <3>3 DEF RisingInv, Rising
  <2>2. CASE t[1] = n
    <3>1. PICK v \in Nat : v = ReceivedAt(t[2]) /\ last_sync + 1 <= v /\ v <= uptime
      BY <1>3, <1>5, <2>2
    <3>2. t[2] \in Slots /\ Master(window', t) = master.rate * v + master.start + jitter[t[2]]
      BY <1>5, <2>2, <3>1
    <3>3. ASSUME Before(master, Master(window', s), v)
          PROVE  Master(window', s) <= Master(window', t)
      BY <3>2, <3>3 DEF Before
    <3>4. CASE s[1] # n
      <4>1. Before(master, Master(window', s), last_sync + 1)
        BY <1>6, <3>4
      <4>2. last_sync + 1 \in Int /\ v \in Int
        BY <1>2
      <4> QED
        BY <1>2, <1>4, <3>1, <3>3, <4>1, <4>2, BeforeLater
    <3>5. CASE s[1] = n
      <4>1. PICK u \in Nat : u = ReceivedAt(s[2])
        BY <1>3, <1>5, <3>5
      <4>2. s[2] \in Slots /\ Master(window', s) = master.rate * u + master.start + jitter[s[2]]
        BY <1>5, <3>5, <4>1
      <4>3. CASE u = v
        <5>1. ASSUME NEW i \in Slots, NEW h \in Slots, ReceivedAt(i) = ReceivedAt(h) PROVE i = h
          BY ONLY <1>2, <5>1 DEF ReceivedAt, Slots
        <5>2. s[2] = t[2]
          BY <3>1, <3>2, <4>1, <4>2, <4>3, <5>1
        <5>3. Master(window', s) = Master(window', t)
          BY ONLY <3>2, <4>2, <4>3, <5>2
        <5> QED
          BY <1>4, <5>3
      <4>4. CASE u # v
        <5>1. u + 1 <= v /\ u + 1 \in Int /\ v \in Int
          BY <1>5, <1>8, <2>2, <3>1, <3>5, <4>1, <4>4
        <5>2. Before(master, Master(window', s), u + 1)
          BY <1>2, <4>2, ReceivedRises
        <5> QED
          BY <1>2, <1>4, <3>3, <5>1, <5>2, BeforeLater
      <4> QED
        BY <4>3, <4>4
    <3> QED
      BY <3>4, <3>5
  <2> QED
    BY <2>1, <2>2
<1>9. Rising(window')
  BY <1>8 DEF Rising
<1>10. RisingInv' <=> /\ Rising(window')
                      /\ \A s \in Samples(window') :
                           0 <= Master(window', s) /\ Before(master, Master(window', s), uptime + 1)
  BY <1>2 DEF RisingInv
<1> QED
  BY <1>7, <1>9, <1>10

LEMMA RisingInvariant == Spec => []RisingInv
<1> USE DEF epochVars, syncVars, readVars, masterVars
<1>1. Init => RisingInv
  <2> SUFFICES ASSUME Init PROVE RisingInv
    OBVIOUS
  <2>1. Samples(window) = {}
    BY DEF Init, Samples
  <2> QED
    BY <2>1 DEF RisingInv, Rising
<1>2. ASSUME WindowInv, RisingInv, [Next]_vars
      PROVE  RisingInv'
  <2>1. ASSUME UNCHANGED <<window, last_sync, master>> PROVE RisingInv'
    BY <1>2, <2>1 DEF RisingInv
  <2>2. CASE Tick \/ (\E t \in EpochsUs : SetEpoch(t)) \/ UNCHANGED vars
    BY <2>1, <2>2 DEF Tick, SetEpoch, vars
  <2>3. ASSUME NEW r \in Received, NEW jitter \in Jitters, EndSync(r[1], r[2], jitter)
        PROVE  RisingInv'
    BY <1>2, <2>3, RisingStep, TimeAssumption
  <2>4. ASSUME NEW m \in MasterTimes, StepMaster(m) PROVE RisingInv'
    <3>1. /\ window' = window /\ last_sync' = last_sync /\ master' = m /\ m.start > master.start
          /\ master \in MasterTimes /\ last_sync + 1 \in Nat
      BY <1>2, <2>4 DEF StepMaster, WindowInv, WindowTypes
    <3>2. master.start < m.start
      BY <3>1, TimeAssumption
    <3>3. \A s \in Samples(window) : Master(window, s) \in Int
      BY <1>2, SamplesAreTimes DEF WindowInv, WindowTypes
    <3>4. \A s \in Samples(window) : Before(m, Master(window, s), last_sync + 1)
      BY <1>2, <3>1, <3>2, <3>3, BeforeStepped DEF RisingInv
    <3> QED
      BY <1>2, <3>1, <3>4 DEF RisingInv
  <2>5. ASSUME NEW o, Call(o) PROVE RisingInv'
    BY <2>1, <2>5 DEF Call
  <2>6. CASE ReadRef \/ ReadEpoch \/ ReadUnix \/ Return
    BY <2>1, <2>6 DEF ReadRef, ReadEpoch, ReadUnix, Return
  <2> QED
    BY <1>2, <2>2, <2>3, <2>4, <2>5, <2>6 DEF Next
<1> QED
  BY <1>1, <1>2, WindowInvariant, PTL DEF Spec

(* A line that is not negative from d on. *)
Ahead(l, d) == l.slope \in Nat /\ l.slope * d + l.offset \in Nat

(* Such a line stays so, and so does the time it gives. *)
LEMMA AheadLater ==
  ASSUME NEW l \in Line, NEW d \in Int, NEW e \in Int, d <= e, Ahead(l, d)
  PROVE  Ahead(l, e) /\ Corrected(e, l) \in Nat
<1>1. PICK a \in Nat, b \in Int : a = l.slope /\ b = l.offset
  BY DEF Ahead, Line
<1>2. a * d \in Int /\ a * e \in Int /\ a * d <= a * e
  BY ONLY a \in Nat, d \in Int, e \in Int, d <= e, LaterIsMore
<1>3. a * d + b \in Nat
  BY <1>1 DEF Ahead
<1>4. a * e + b \in Nat
  BY ONLY <1>2, <1>3, b \in Int
<1>5. Ahead(l, e)
  BY <1>1, <1>4 DEF Ahead
<1> QED
  BY <1>5, CorrectedType DEF Ahead

(***************************************************************************)
(* Nothing that is read of the clock is negative before it is cast.        *)
(***************************************************************************)
NonnegInv ==
  /\ EpochInv
  /\ IF epoch_ref_valid THEN epoch_ref_ticks >= 1 ELSE uptime_ref = 0
  /\ Ahead(line, uptime - uptime_ref)
  /\ role = "AUTHORITY" => line = Identity
  /\ role = "CLIENT" => epoch_ref_ticks = 0 /\ uptime_ref = 0 /\ ~epoch_ref_valid
  /\ pc = "epoch" => Ahead(read, delta)
  /\ pc = "epoch" /\ role = "AUTHORITY" =>
       read = Identity /\ (epoch_ref_valid \/ delta >= 1)
  /\ ticks \in Nat /\ us \in Nat /\ event \in Nat \cup {NoEvent}
  /\ pc = "unix" /\ role = "AUTHORITY" => ticks >= 1

(* A line fitted to rising times is one, from the burst on. *)
LEMMA AheadSync ==
  ASSUME TypeInv, WindowInv, RisingInv, NonnegInv,
         NEW own \in SUBSET Slots, NEW rcv \in SUBSET Slots, NEW jitter \in Jitters,
         EndSync(own, rcv, jitter)
  PROVE  line' \in Line /\ Ahead(line', uptime)
<1>1. WindowInv' /\ RisingInv' /\ jitter \in [Slots -> Int]
  BY WindowStep, RisingStep, TimeAssumption
<1>2. role = "CLIENT" /\ uptime_ref = 0 /\ uptime \in Int /\ line \in Line /\ last_sync' = uptime
  BY DEF EndSync, NonnegInv, TypeInv
<1>3. Refitted \/ line' = line
  BY <1>1, EndSyncFits
<1>4. CASE line' = line
  BY <1>2, <1>4 DEF NonnegInv
<1>5. CASE Refitted
  <2>1. window' \in Seq(Burst \X Burst) /\ line' = Fit(window') /\ line' \in Line
    BY <1>1, <1>5 DEF WindowInv, WindowTypes, Refitted
  <2>2. Rising(window') /\ \A s \in Samples(window') : Master(window', s) >= 0
    <3>1. \A s \in Samples(window') : Master(window', s) \in Int
      BY <2>1, SamplesAreTimes
    <3> QED
      BY <1>1, <3>1 DEF RisingInv
  <2>3. \A s \in Samples(window') : Own(window', s) <= uptime
    BY <1>1, <1>2 DEF WindowInv
  <2>4. line'.slope \in Nat /\ line'.slope * uptime + line'.offset \in Nat
    BY ONLY <1>2, <2>1, <2>2, <2>3, FitOfRisingTimes
  <2> QED
    BY <2>1, <2>4 DEF Ahead
<1> QED
  BY <1>3, <1>4, <1>5

(* The ticks read are not negative, and an authority reads one at least. *)
LEMMA EpochReading ==
  ASSUME TypeInv, NonnegInv, pc = "epoch"
  PROVE  /\ Corrected(delta, read) + Epoch \in Nat
         /\ role = "AUTHORITY" => Corrected(delta, read) + Epoch >= 1
<1>1. delta \in Nat /\ read \in Line /\ Corrected(delta, read) \in Nat
  <2>1. delta \in Nat /\ read \in Line
    BY DEF TypeInv
  <2> QED
    BY <2>1, AheadLater DEF NonnegInv
<1>2. /\ epoch_ref_ticks \in Nat
      /\ Epoch = IF epoch_ref_valid THEN epoch_ref_ticks ELSE 0
      /\ epoch_ref_valid => epoch_ref_ticks >= 1
  BY DEF Epoch, TypeInv, NonnegInv
<1>3. ASSUME role = "AUTHORITY" PROVE Corrected(delta, read) = delta /\ (epoch_ref_valid \/ delta >= 1)
  BY <1>1, <1>3, IdentityCorrects DEF NonnegInv
<1>4. CASE epoch_ref_valid
  BY <1>1, <1>2, <1>4
<1>5. CASE ~epoch_ref_valid
  BY <1>1, <1>2, <1>3, <1>5
<1> QED
  BY <1>4, <1>5

(* A number of ticks that is not negative is cast as it is. *)
LEMMA NonnegativeMicroseconds ==
  ASSUME NEW t \in Nat, NEW m \in ticks_to_us(t)
  PROVE  m \in Nat
BY DEF ticks_to_us

(***************************************************************************)
(* The microseconds subtracted from the epoch, when the ticks were read    *)
(* before it was set, are fewer than those of the epoch.                   *)
(***************************************************************************)
LEMMA UnixNonnegative ==
  ASSUME NEW e \in Nat, NEW k \in Nat, HalfTick(e, k),
         NEW t \in Nat, t >= 1 \/ k = 0, NEW d \in ticks_to_us(t - k)
  PROVE  e + d \in Nat
<1>1. t - k \in Int
  OBVIOUS
<1>2. d \in Int /\ (Microsecond(d, t - k) \/ d = 0)
  BY <1>1, MicrosecondRounding
<1>3. CASE t - k >= 0
  <2>1. d \in Nat
    BY <1>1, <1>3 DEF ticks_to_us
  <2> QED
    BY <2>1
<1>4. CASE d = 0
  BY <1>4
<1>5. CASE t - k < 0 /\ Microsecond(d, t - k)
  <2>1. t >= 1
    BY <1>5
  <2>2. 512 * e - 15625 * k >= -7812 /\ 512 * d - 15625 * (t - k) >= -511
    BY <1>5 DEF HalfTick, Microsecond, Within, Error
  <2>3. 512 * (e + d) >= 15625 * t - 7812 - 511
    BY ONLY <1>2, <2>2, e \in Nat, k \in Nat, t \in Nat
  <2> QED
    BY ONLY <1>2, <2>1, <2>3, e \in Nat, t \in Nat
<1> QED
  BY <1>1, <1>2, <1>3, <1>4, <1>5

(***************************************************************************)
(* Every action keeps the clock, and what a call has read of it, from      *)
(* going negative.                                                         *)
(***************************************************************************)
LEMMA NonnegStep ==
  ASSUME TypeInv, TypeInv', WindowInv, RisingInv, NonnegInv, [Next]_vars
  PROVE  NonnegInv'
<1> USE DEF epochVars, syncVars, readVars, masterVars
<1>1. CASE Tick
  <2>1. /\ UNCHANGED <<role, epoch_ref_ticks, epoch_ref_us, epoch_ref_valid, uptime_ref, line,
                       pc, read, delta, ticks, us, event>>
        /\ uptime' = uptime + 1
    BY <1>1 DEF Tick
  <2>2. Ahead(line', uptime' - uptime_ref')
    <3>1. /\ line \in Line /\ uptime - uptime_ref \in Int /\ uptime' - uptime_ref \in Int
          /\ uptime - uptime_ref <= uptime' - uptime_ref
      BY <2>1 DEF TypeInv
    <3>2. Ahead(line, uptime - uptime_ref)
      BY DEF NonnegInv
    <3>3. Ahead(line, uptime' - uptime_ref)
      BY <3>1, <3>2, AheadLater
    <3> QED
      BY <2>1, <3>3
  <2> QED
    BY <2>1, <2>2 DEF NonnegInv, EpochInv
<1>2. ASSUME NEW t \in EpochsUs, SetEpoch(t) PROVE NonnegInv'
  <2>1. t \in Nat /\ 16 <= t
    BY TimeAssumption, TimesRise
  <2>2. us_to_ticks(t) \in Nat /\ HalfTick(t, us_to_ticks(t)) /\ us_to_ticks(t) >= 1
    <3>1. us_to_ticks(t) >= 1
      BY <2>1 DEF us_to_ticks
    <3> QED
      BY <2>1, <3>1, EpochRounding
  <2>3. /\ UNCHANGED <<role, uptime, line, pc, read, delta, ticks, us, event>>
        /\ role = "AUTHORITY" /\ uptime_ref' = uptime /\ epoch_ref_ticks' = us_to_ticks(t)
        /\ epoch_ref_us' = t /\ epoch_ref_valid' = TRUE
    BY <1>2 DEF SetEpoch
  <2>4. line' = Identity /\ uptime' - uptime_ref' = 0
    BY <2>3 DEF NonnegInv, TypeInv
  <2>5. Ahead(line', uptime' - uptime_ref')
    BY <2>4 DEF Ahead, Identity
  <2> QED
    BY <2>1, <2>2, <2>3, <2>4, <2>5 DEF NonnegInv, EpochInv
<1>3. ASSUME NEW r \in Received, NEW jitter \in Jitters, EndSync(r[1], r[2], jitter)
      PROVE  NonnegInv'
  <2>1. r[1] \in SUBSET Slots /\ r[2] \in SUBSET Slots
    BY TimeAssumption
  <2>2. Ahead(line', uptime)
    BY <1>3, <2>1, AheadSync
  <2>3. /\ UNCHANGED <<role, uptime, epoch_ref_ticks, epoch_ref_us, epoch_ref_valid, uptime_ref,
                       pc, read, delta, ticks, us, event>>
        /\ role = "CLIENT"
    BY <1>3 DEF EndSync
  <2>4. uptime_ref = 0 /\ uptime - uptime_ref = uptime
    BY <2>3 DEF NonnegInv, TypeInv
  <2> QED
    BY <2>2, <2>3, <2>4 DEF NonnegInv, EpochInv
<1>4. ASSUME UNCHANGED <<role, uptime, epoch_ref_ticks, epoch_ref_us, epoch_ref_valid, uptime_ref,
                         line>>,
             pc' \notin {"epoch", "unix"},
             ticks' \in Nat /\ us' \in Nat /\ event' \in Nat \cup {NoEvent}
      PROVE  NonnegInv'
  BY <1>4 DEF NonnegInv, EpochInv
<1>5. ASSUME NEW m, StepMaster(m) PROVE NonnegInv'
  BY <1>5 DEF StepMaster, NonnegInv, EpochInv
<1>6. ASSUME NEW o, Call(o) PROVE NonnegInv'
  BY <1>4, <1>6 DEF Call, NonnegInv
<1>7. CASE ReadRef
  <2>1. /\ UNCHANGED <<role, uptime, epoch_ref_ticks, epoch_ref_us, epoch_ref_valid, uptime_ref,
                       line, ticks, us, event>>
        /\ pc' = "epoch" /\ delta' = uptime - uptime_ref /\ read' = line
    BY <1>7 DEF ReadRef
  <2>2. Ahead(read', delta')
    BY <2>1 DEF NonnegInv
  <2>3. epoch_ref_valid \/ delta' >= 1
    BY <2>1 DEF NonnegInv, TypeInv
  <2> QED
    BY <2>1, <2>2, <2>3 DEF NonnegInv, EpochInv
<1>8. CASE ReadEpoch
  <2>1. /\ UNCHANGED <<role, uptime, epoch_ref_ticks, epoch_ref_us, epoch_ref_valid, uptime_ref,
                       line>>
        /\ pc = "epoch" /\ ticks' = Corrected(delta, read) + Epoch
        /\ pc' \in {"unix", "done"}
        /\ us' = us \/ us' \in ticks_to_us(ticks')
        /\ event' = event \/ event' = us'
    BY <1>8 DEF ReadEpoch
  <2>2. ticks' \in Nat /\ (role = "AUTHORITY" => ticks' >= 1)
    BY <2>1, EpochReading
  <2>3. us' \in Nat
    <3>1. \A m \in ticks_to_us(ticks') : m \in Nat
      BY <2>2, NonnegativeMicroseconds
    <3> QED
      BY <2>1, <3>1 DEF NonnegInv
  <2>4. event' \in Nat \cup {NoEvent}
    BY <2>1, <2>3 DEF NonnegInv
  <2> QED
    BY <2>1, <2>2, <2>3, <2>4 DEF NonnegInv, EpochInv
<1>9. CASE ReadUnix
  <2>1. /\ UNCHANGED <<role, uptime, epoch_ref_ticks, epoch_ref_us, epoch_ref_valid, uptime_ref,
                       line, ticks, event>>
        /\ pc = "unix" /\ pc' = "done"
    BY <1>9 DEF ReadUnix
  <2>2. PICK delta_us \in ticks_to_us(ticks - epoch_ref_ticks) : us' = epoch_ref_us + delta_us
    BY <1>9 DEF ReadUnix
  <2>3. /\ epoch_ref_us \in Nat /\ epoch_ref_ticks \in Nat /\ HalfTick(epoch_ref_us, epoch_ref_ticks)
        /\ ticks \in Nat
    BY DEF NonnegInv, EpochInv
  <2>4. ticks >= 1 \/ epoch_ref_ticks = 0
    BY <2>1, TimeAssumption DEF NonnegInv, TypeInv
  <2>5. us' \in Nat
    BY <2>2, <2>3, <2>4, UnixNonnegative
  <2> QED
    BY <1>4, <2>1, <2>5 DEF NonnegInv
<1>10. CASE Return
  <2>1. /\ UNCHANGED <<role, uptime, epoch_ref_ticks, epoch_ref_us, epoch_ref_valid, uptime_ref,
                       line, event>>
        /\ pc' = "idle" /\ ticks' = 0 /\ us' = 0
    BY <1>10 DEF Return
  <2> QED
    BY <1>4, <2>1 DEF NonnegInv
<1>11. CASE UNCHANGED vars
  BY <1>11 DEF vars, NonnegInv, EpochInv
<1> QED
  BY <1>1, <1>2, <1>3, <1>5, <1>6, <1>7, <1>8, <1>9, <1>10, <1>11 DEF Next

LEMMA NonnegInvariant == Spec => []NonnegInv
<1>1. Init => NonnegInv
  <2> SUFFICES ASSUME Init PROVE NonnegInv
    OBVIOUS
  <2>1. HalfTick(0, 0)
    BY DEF HalfTick, Within, Error
  <2>2. Ahead(line, uptime - uptime_ref)
    BY DEF Init, Ahead, Identity
  <2> QED
    BY <2>1, <2>2 DEF Init, NonnegInv, EpochInv
<1> QED
  BY <1>1, NonnegStep, TypeInvariant, WindowInvariant, RisingInvariant, PTL DEF Spec

(***************************************************************************)
(* Types: no uptime, clock or reading is negative, on an authority whose   *)
(* epoch is replaced or a client whose line is refitted during a call, if  *)
(* the times received rise with the local ones.                            *)
(***************************************************************************)
THEOREM TypeCorrect == Spec => []TypeOK
<1>1. TypeInv /\ WindowInv /\ NonnegInv => TypeOK
  <2> SUFFICES ASSUME TypeInv, WindowInv, NonnegInv PROVE TypeOK
    OBVIOUS
  <2>1. Clock \in Nat
    <3>1. line \in Line /\ uptime - uptime_ref \in Int
      BY DEF TypeInv
    <3>2. Corrected(uptime - uptime_ref, line) \in Nat
      BY <3>1, AheadLater DEF NonnegInv
    <3>3. Epoch \in Nat
      BY DEF Epoch, TypeInv
    <3> QED
      BY <3>2, <3>3 DEF Clock
  <2>2. uptime \in 0 .. MaxUptime
    BY TimeAssumption DEF TypeInv
  <2>3. epoch_ref_valid \in BOOLEAN /\ torn \in BOOLEAN
    BY Zenon DEF TypeInv
  <2> QED
    BY <2>1, <2>2, <2>3 DEF TypeInv, WindowInv, WindowTypes, NonnegInv, TypeOK
<1> QED
  BY <1>1, TypeInvariant, WindowInvariant, NonnegInvariant, PTL

(***************************************************************************)
(* The Unix time a node returns is the one its clock showed at an instant  *)
(* of the call, to half a tick and a microsecond, although the epoch of an *)
(* authority may be replaced, and the line of a client refitted, between   *)
(* the two times the call takes the mutex.  Where an epoch is set between  *)
(* the reads of the reference and of the epoch (torn), it may instead be   *)
(* ahead of a time the clock showed by the ticks counted from the replaced *)
(* reference; torn_epoch shows such a reading.                             *)
(***************************************************************************)
THEOREM UnixTimeIsOfTheClock == Spec => []UnixIsOfTheClock
<1> DEFINE Inv == role = "AUTHORITY" => AuthorityInv
<1>1. Init => Inv /\ UnixIsOfTheClock
  <2>1. HalfTick(0, 0)
    BY DEF HalfTick, Within, Error
  <2> QED
    BY <2>1 DEF Init, AuthorityInv, UnixInv, EpochInv, UnixIsOfTheClock
<1>2. Inv /\ [Next]_vars => Inv'
  <2> SUFFICES ASSUME Inv, [Next]_vars, role' = "AUTHORITY" PROVE AuthorityInv'
    OBVIOUS
  <2>1. role' = role
    BY DEF Next, vars, Tick, SetEpoch, EndSync, StepMaster, Call, ReadRef, ReadEpoch, ReadUnix, Return
  <2> QED
    BY <2>1, AuthorityInvStep
<1>3. TypeInv /\ NonnegInv /\ TornInv /\ Inv => UnixInv
  <2> SUFFICES ASSUME TypeInv, NonnegInv, TornInv, Inv PROVE UnixInv
    OBVIOUS
  <2>1. CASE role = "AUTHORITY"
    BY <2>1 DEF AuthorityInv
  <2>2. CASE role = "CLIENT"
    <3>1. delta \in Int /\ ~torn
      BY <2>2 DEF TypeInv, TornInv
    <3> QED
      BY <2>2, <3>1 DEF NonnegInv, UnixInv
  <2> QED
    BY <2>1, <2>2, TimeAssumption DEF TypeInv
<1> QED
  BY <1>1, <1>2, <1>3, UnixStep, ReadInvariant, TypeInvariant, NonnegInvariant, TornInvariant,
     PTL DEF Spec
=============================================================================
