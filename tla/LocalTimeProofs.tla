--------------------------- MODULE LocalTimeProofs ---------------------------
(***************************************************************************)
(* Theorems about the readings of LocalTime, for every epoch, line, window *)
(* and bound.                                                              *)
(***************************************************************************)
EXTENDS LocalTime, TLAPS

-----------------------------------------------------------------------------
(* The readings. *)

(* The value a call is about to return was on the clock since it began. *)
ReadInv ==
  /\ pc = "ref" => Clock \in shown
  /\ pc = "epoch" /\ ~torn => Corrected(delta, read) + Epoch \in shown
  /\ pc \in {"unix", "done"} /\ ~torn => ticks \in shown

LEMMA ReadInvStep ==
  ASSUME ReadInv, [Next]_vars
  PROVE  ReadInv'
<1> USE DEF epochVars, syncVars, readVars, masterVars
<1>1. ASSUME UNCHANGED readVars, Observe,
             pc = "epoch" /\ ~torn' => UNCHANGED Epoch,
             ~torn' => ~torn
      PROVE  ReadInv'
  <2>1. pc = "ref" => Clock' \in shown'
    BY <1>1 DEF Observe, Calling
  <2>2. \A c \in shown : c \in shown'
    BY <1>1 DEF Observe
  <2>3. UNCHANGED Corrected(delta, read)
    BY <1>1 DEF Corrected
  <2> QED
    BY <1>1, <2>1, <2>2, <2>3 DEF ReadInv
<1>2. CASE Tick
  BY <1>1, <1>2 DEF Tick, Epoch
<1>3. ASSUME NEW t \in EpochsUs, SetEpoch(t) PROVE ReadInv'
  BY <1>1, <1>3 DEF SetEpoch
<1>4. ASSUME NEW r, NEW jitter, EndSync(r[1], r[2], jitter) PROVE ReadInv'
  BY <1>1, <1>4 DEF EndSync, Epoch
<1>5. CASE (\E m \in MasterTimes : StepMaster(m)) \/ UNCHANGED vars
  BY <1>5 DEF StepMaster, vars, ReadInv, Clock, Epoch, Corrected
<1>6. ASSUME NEW o, Call(o) PROVE ReadInv'
  BY <1>6 DEF Call, ReadInv, Clock, Epoch, Corrected
<1>7. CASE ReadRef
  BY <1>7 DEF ReadRef, ReadInv, Clock, Epoch, Corrected
<1>8. CASE ReadEpoch
  BY <1>8 DEF ReadEpoch, ReadInv
<1>9. CASE ReadUnix \/ Return
  BY <1>9 DEF ReadUnix, Return, ReadInv
<1> QED
  BY <1>2, <1>3, <1>4, <1>5, <1>6, <1>7, <1>8, <1>9 DEF Next

LEMMA ReadInvariant == Spec => []ReadInv
<1>1. Init => ReadInv
  BY DEF Init, ReadInv
<1> QED
  BY <1>1, ReadInvStep, PTL DEF Spec

(***************************************************************************)
(* A reading of the synchronised ticks is linearizable, on every node and  *)
(* against every sequence of corrections, unless an epoch is set between   *)
(* its two reads: the one thing that the unlocked read of the epoch loses. *)
(***************************************************************************)
THEOREM ReadingsAreOfTheClock == Spec => []UntornReadingIsOfTheClock
<1>1. ReadInv => UntornReadingIsOfTheClock
  BY DEF ReadInv, UntornReadingIsOfTheClock, ReadingIsOfTheClock
<1> QED
  BY <1>1, ReadInvariant, PTL

-----------------------------------------------------------------------------
(* The Unix time of an authority. *)

LEMMA IdentityCorrects ==
  ASSUME NEW d \in Int
  PROVE  Corrected(d, Identity) = d
<1>1. Corrected(d, Identity) = Round(d, 1)
  BY DEF Corrected, Identity
<1>2. CASE d >= 0
  BY <1>1, <1>2 DEF Round
<1>3. CASE d < 0
  BY <1>1, <1>3 DEF Round
<1> QED
  BY <1>2, <1>3

(* Half a tick, and a microsecond, in the units of Error. *)
HalfTick(t, c) == Within(Error(t, c), 7812)
Microsecond(t, c) == Within(Error(t, c), 511)

LEMMA EpochRounding ==
  ASSUME NEW t \in Nat
  PROVE  us_to_ticks(t) \in Nat /\ HalfTick(t, us_to_ticks(t))
<1>1. PICK k \in Nat : k = us_to_ticks(t) /\ k = (1024 * t + 15625) \div 31250
  BY DEF us_to_ticks
<1>2. 31250 * k <= 1024 * t + 15625 /\ 1024 * t + 15625 < 31250 * k + 31250
  BY <1>1
<1>3. HalfTick(t, k)
  BY <1>2 DEF HalfTick, Within, Error
<1> QED
  BY <1>1, <1>3

LEMMA MicrosecondRounding ==
  ASSUME NEW t \in Int, NEW m \in ticks_to_us(t)
  PROVE  m \in Int /\ (Microsecond(m, t) \/ (t < 0 /\ m = 0))
BY DEF ticks_to_us, Microsecond, Within, Error

LEMMA ErrorsAdd ==
  ASSUME NEW e \in Int, NEW k \in Int, NEW d \in Int, NEW c \in Int
  PROVE  /\ Error(e, k) \in Int /\ Error(d, c - k) \in Int
         /\ Error(e + d, c) = Error(e, k) + Error(d, c - k)
BY DEF Error

LEMMA TolerancesAdd ==
  ASSUME NEW x \in Int, NEW y \in Int, Within(x, 7812), Within(y, 511)
  PROVE  Within(x, Tolerance) /\ Within(x + y, Tolerance)
BY DEF Within, Tolerance

LEMMA RoundingsAdd ==
  ASSUME NEW e \in Nat, NEW k \in Nat, HalfTick(e, k),
         NEW c \in Int, NEW d \in Int, Microsecond(d, c - k)
  PROVE  SameTime(e + d, c)
<1>1. Within(Error(e, k), 7812) /\ Within(Error(d, c - k), 511)
  BY DEF HalfTick, Microsecond
<1>2. /\ Error(e, k) \in Int /\ Error(d, c - k) \in Int
      /\ Error(e + d, c) = Error(e, k) + Error(d, c - k)
  BY ErrorsAdd
<1>3. Within(Error(e, k) + Error(d, c - k), Tolerance)
  BY <1>1, <1>2, TolerancesAdd
<1> QED
  BY <1>2, <1>3 DEF SameTime

LEMMA EpochIsSameTime ==
  ASSUME NEW e \in Nat, NEW k \in Nat, HalfTick(e, k)
  PROVE  SameTime(e, k)
<1>1. Error(e, k) \in Int /\ Within(Error(e, k), 7812)
  BY DEF HalfTick, Error
<1>2. Within(0, 511)
  BY DEF Within
<1> QED
  BY <1>1, <1>2, TolerancesAdd DEF SameTime

(***************************************************************************)
(* An authority applies no correction.  While its call is between the two  *)
(* critical sections, an epoch that replaces the one of its reading has    *)
(* itself been on the clock since; and a torn call adds its ticks to such  *)
(* an epoch.                                                               *)
(***************************************************************************)
EpochInv ==
  /\ epoch_ref_ticks \in Nat /\ epoch_ref_us \in Nat
  /\ HalfTick(epoch_ref_us, epoch_ref_ticks)
  /\ epoch_ref_ticks = 0 \/ epoch_ref_valid = TRUE
UnixInv ==
  /\ EpochInv
  /\ ticks \in Int /\ delta \in Int
  /\ pc = "unix" => ticks >= epoch_ref_ticks \/ epoch_ref_ticks \in shown
  /\ pc = "unix" /\ torn => ticks - delta \in shown
AuthorityInv ==
  /\ role = "AUTHORITY"
  /\ line = Identity
  /\ pc = "epoch" => read = Identity
  /\ uptime \in Nat /\ uptime_ref \in Nat /\ uptime_ref <= uptime /\ delta \in Nat
  /\ pc = "ref" => ~torn
  /\ pc = "epoch" /\ torn => epoch_ref_ticks \in shown
  /\ UnixInv

LEMMA ClockOfAuthority ==
  ASSUME AuthorityInv
  PROVE  Clock = uptime - uptime_ref + epoch_ref_ticks /\ Epoch = epoch_ref_ticks
<1>1. Corrected(uptime - uptime_ref, line) = uptime - uptime_ref
  BY IdentityCorrects DEF AuthorityInv
<1> QED
  BY <1>1 DEF Clock, Epoch, AuthorityInv, UnixInv, EpochInv

LEMMA UnixReading ==
  ASSUME ReadInv, UnixInv, ReadUnix
  PROVE  UnixIsOfTheClock'
<1> USE DEF epochVars, syncVars, readVars, masterVars
<1> SUFFICES \E c \in shown : SameTime(us', c) \/ (torn /\ SameTime(us', c + delta))
  <2>1. shown' = shown /\ torn' = torn /\ delta' = delta
    BY DEF ReadUnix
  <2> QED
    BY <2>1 DEF UnixIsOfTheClock, SameTime
<1>1. PICK c \in shown : ticks = c \/ (torn /\ ticks = c + delta)
  <2>1. CASE torn
    <3>1. ticks - delta \in shown /\ ticks \in Int /\ delta \in Int
      BY <2>1 DEF UnixInv, ReadUnix
    <3>2. ticks = (ticks - delta) + delta
      BY <3>1
    <3> QED
      BY <2>1, <3>1, <3>2
  <2>2. CASE ~torn
    BY <2>2 DEF ReadInv, ReadUnix
  <2> QED
    BY <2>1, <2>2
<1>2. PICK delta_us \in ticks_to_us(ticks - epoch_ref_ticks) : us' = epoch_ref_us + delta_us
  BY DEF ReadUnix
<1>3. /\ ticks \in Int /\ epoch_ref_ticks \in Nat /\ epoch_ref_us \in Nat
      /\ HalfTick(epoch_ref_us, epoch_ref_ticks)
      /\ ticks >= epoch_ref_ticks \/ epoch_ref_ticks \in shown
  BY DEF UnixInv, EpochInv, ReadUnix
<1>4. /\ delta_us \in Int
      /\ \/ Microsecond(delta_us, ticks - epoch_ref_ticks)
         \/ ticks - epoch_ref_ticks < 0 /\ delta_us = 0
  BY <1>2, <1>3, MicrosecondRounding
<1>5. CASE Microsecond(delta_us, ticks - epoch_ref_ticks)
  <2>1. SameTime(epoch_ref_us + delta_us, ticks)
    BY <1>3, <1>4, <1>5, RoundingsAdd
  <2> QED
    BY <1>1, <1>2, <2>1
<1>6. CASE ticks - epoch_ref_ticks < 0 /\ delta_us = 0
  <2>1. us' = epoch_ref_us
    BY <1>2, <1>3, <1>6
  <2>2. SameTime(epoch_ref_us, epoch_ref_ticks)
    BY <1>3, EpochIsSameTime
  <2>3. SameTime(us', epoch_ref_ticks)
    BY <2>1, <2>2
  <2> QED
    BY <1>3, <1>6, <2>3
<1> QED
  BY <1>4, <1>5, <1>6

LEMMA AuthorityInvStep ==
  ASSUME AuthorityInv, [Next]_vars
  PROVE  AuthorityInv'
<1> USE DEF epochVars, syncVars, readVars, masterVars, UnixInv, EpochInv
<1>1. CASE Tick
  BY <1>1 DEF Tick, AuthorityInv, Observe
<1>2. ASSUME NEW t \in EpochsUs, SetEpoch(t) PROVE AuthorityInv'
  <2>1. t \in Nat
    BY TimeAssumption
  <2>2. EpochInv' /\ epoch_ref_valid' = TRUE
    BY <1>2, <2>1, EpochRounding DEF SetEpoch
  <2>3. uptime' \in Nat /\ uptime_ref' = uptime' /\ line' = Identity
    BY <1>2 DEF SetEpoch, AuthorityInv
  <2>4. Clock' = epoch_ref_ticks'
    <3>1. Corrected(uptime - uptime_ref, line)' = 0
      BY <2>3, IdentityCorrects DEF Corrected
    <3> QED
      BY <2>2, <3>1 DEF Clock, Epoch
  <2>5. pc \in {"epoch", "unix"} => epoch_ref_ticks' \in shown'
    BY <1>2, <2>4 DEF SetEpoch, Observe, Calling
  <2>6. pc = "unix" /\ torn' => ticks' - delta' \in shown'
    BY <1>2 DEF SetEpoch, AuthorityInv, Observe, Calling
  <2>7. /\ role' = "AUTHORITY" /\ delta' \in Nat /\ ticks' \in Int
        /\ pc' = "epoch" => read' = Identity
    BY <1>2 DEF SetEpoch, AuthorityInv
  <2>8. pc' = "ref" => ~torn'
    BY <1>2 DEF SetEpoch, AuthorityInv
  <2>9. UnixInv'
    BY <1>2, <2>2, <2>5, <2>6, <2>7 DEF SetEpoch
  <2> QED
    BY <1>2, <2>3, <2>5, <2>7, <2>8, <2>9 DEF SetEpoch, AuthorityInv
<1>3. ASSUME NEW r, NEW jitter, EndSync(r[1], r[2], jitter) PROVE AuthorityInv'
  BY <1>3 DEF EndSync, AuthorityInv
<1>4. ASSUME NEW m, StepMaster(m) PROVE AuthorityInv'
  BY <1>4 DEF StepMaster, AuthorityInv
<1>5. ASSUME NEW o, Call(o) PROVE AuthorityInv'
  BY <1>5 DEF Call, AuthorityInv
<1>6. CASE ReadRef
  BY <1>6 DEF ReadRef, AuthorityInv
<1>7. CASE ReadEpoch
  <2>1. ticks' = delta + epoch_ref_ticks
    <3>1. Corrected(delta, read) = delta
      BY <1>7, IdentityCorrects DEF ReadEpoch, AuthorityInv
    <3>2. ticks' = Corrected(delta, read) + Epoch
      BY <1>7 DEF ReadEpoch
    <3> QED
      BY <3>1, <3>2, ClockOfAuthority
  <2>2. ticks' - delta' = epoch_ref_ticks
    BY <1>7, <2>1 DEF ReadEpoch, AuthorityInv
  <2> QED
    BY <1>7, <2>1, <2>2 DEF ReadEpoch, AuthorityInv
<1>8. CASE ReadUnix \/ Return \/ UNCHANGED vars
  BY <1>8 DEF ReadUnix, Return, vars, AuthorityInv
<1> QED
  BY <1>1, <1>2, <1>3, <1>4, <1>5, <1>6, <1>7, <1>8 DEF Next

(* Only an authority is given epochs: a client's call is never torn. *)
TornInv == torn => role = "AUTHORITY"

LEMMA TornInvariant == Spec => []TornInv
<1>1. Init => TornInv
  BY DEF Init, TornInv
<1>2. TornInv /\ [Next]_vars => TornInv'
  BY DEF TornInv, Next, vars, Tick, SetEpoch, EndSync, StepMaster, Call, ReadRef, ReadEpoch,
         ReadUnix, Return
<1> QED
  BY <1>1, <1>2, PTL DEF Spec

LEMMA UnixStep ==
  ASSUME ReadInv, UnixInv, UnixIsOfTheClock, [Next]_vars
  PROVE  UnixIsOfTheClock'
<1> USE DEF epochVars, syncVars, readVars, masterVars
<1>1. ASSUME pc' = "done" /\ op' = "unix"
               => /\ pc = "done" /\ op = "unix"
                  /\ us' = us /\ delta' = delta /\ shown' = shown /\ (torn => torn')
      PROVE  UnixIsOfTheClock'
  <2> SUFFICES ASSUME pc' = "done", op' = "unix"
               PROVE  \E c \in shown' : SameTime(us', c) \/ (torn' /\ SameTime(us', c + delta'))
    BY DEF UnixIsOfTheClock, SameTime
  <2>1. /\ pc = "done" /\ op = "unix"
        /\ us' = us /\ delta' = delta /\ shown' = shown /\ (torn => torn')
    BY <1>1
  <2>2. PICK c \in shown : SameTime(us, c) \/ (torn /\ SameTime(us, c + delta))
    BY <2>1 DEF UnixIsOfTheClock
  <2> QED
    BY <2>1, <2>2
<1>2. CASE Tick
  BY <1>1, <1>2 DEF Tick, Observe, Calling
<1>3. ASSUME NEW t, SetEpoch(t) PROVE UnixIsOfTheClock'
  BY <1>1, <1>3 DEF SetEpoch, Observe, Calling
<1>4. ASSUME NEW r, NEW jitter, EndSync(r[1], r[2], jitter) PROVE UnixIsOfTheClock'
  BY <1>1, <1>4 DEF EndSync, Observe, Calling
<1>5. ASSUME NEW m, StepMaster(m) PROVE UnixIsOfTheClock'
  BY <1>1, <1>5 DEF StepMaster
<1>6. ASSUME NEW o, Call(o) PROVE UnixIsOfTheClock'
  BY <1>1, <1>6 DEF Call
<1>7. CASE ReadRef \/ ReadEpoch \/ Return
  BY <1>1, <1>7 DEF ReadRef, ReadEpoch, Return
<1>8. CASE ReadUnix
  BY <1>8, UnixReading
<1>9. CASE UNCHANGED vars
  BY <1>1, <1>9 DEF vars
<1> QED
  BY <1>2, <1>3, <1>4, <1>5, <1>6, <1>7, <1>8, <1>9 DEF Next
=============================================================================
