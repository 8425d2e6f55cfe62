------------------------------ MODULE LocalTime ------------------------------
(***************************************************************************)
(* src/local_time.c on one node: the correction and the epoch reference in *)
(* force, set by the BlueSync thread (end_sync_timeslot_process) and by    *)
(* the application, and read by any thread or callback.  Readers share     *)
(* nothing but what they read, so one of them is enough.                   *)
(*                                                                         *)
(* Times are integers: ticks of 32768 Hz, or microseconds (15625 of them   *)
(* are 512 ticks).  The time a client receives is that of the authority, a *)
(* line over the client's uptime until the application steps it.           *)
(***************************************************************************)
EXTENDS Regression

CONSTANTS
  WindowSize,     \* BURST_WINDOWS_SIZE
  Period,         \* 2^32, the range of a compressed timestamp
  EpochsUs,       \* Unix times the application may give
  MasterTimes,    \* lines the authority's clock may follow
  Received,       \* the slots of a burst with a reception time, and with a sent time
  Jitters,        \* errors of the times received in a burst, slot by slot
  Roles,          \* roles the node may have
  MaxUptime, MaxEpochs, MaxSyncs, MaxSteps   \* bounds

ASSUME TimeAssumption ==
  /\ WindowSize \in Nat \ {0} /\ Period \in Nat \ {0}
  /\ EpochsUs \subseteq Nat
  /\ \A m \in MasterTimes : m.rate \in Nat /\ m.start \in Nat
  /\ Received \subseteq (SUBSET Slots) \X (SUBSET Slots)
  /\ \A j \in Jitters : j \in [Slots -> Int]
  /\ Roles \subseteq {"AUTHORITY", "CLIENT"}
  /\ MaxUptime \in Nat \ {0}

(***************************************************************************)
(* No time is negative: the authority's clock, as received, never runs     *)
(* backwards, nor slower once it is stepped, and no Unix time rounds to 0  *)
(* ticks.                                                                  *)
(***************************************************************************)
ASSUME TimesRise ==
  /\ \A m \in MasterTimes, j \in Jitters, i \in Slots :
       /\ 0 <= m.rate + m.start + j[i]
       /\ \A k \in Jitters, h \in Slots : j[i] - k[h] <= m.rate
  /\ \A m, next \in MasterTimes : m.start < next.start => m.rate <= next.rate
  /\ \A t \in EpochsUs : 16 <= t     \* 16 us round to a tick

VARIABLES
  role,
  uptime,                                        \* k_uptime_ticks()
  uptime_ref, epoch_ref_ticks, epoch_ref_us, epoch_ref_valid,
  line,                                          \* slope and offset in force
  window,                                        \* the bursts of the regression
  pc, op, delta, read, ticks, us, out,           \* the reader's call
  event,                                         \* a time to be sent compressed
  \* the authority's clock, and what the properties look at:
  master,
  heard,     \* the samples of the latest bursts, and
  fitted,    \* those the line was fitted to, as pairs of times
  clean,     \* bursts, the latest ones, that hold the authority's time exactly
  trust,     \* how much of the window of the last fit did
  shown,     \* what the clock showed at the instants of the call
  torn,      \* the epoch was set between the two reads of the call
  last_sync, epochs, syncs, steps

epochVars == <<uptime_ref, epoch_ref_ticks, epoch_ref_us, epoch_ref_valid, epochs>>
syncVars == <<line, window, heard, fitted, clean, trust, last_sync, syncs>>
readVars == <<pc, op, delta, read, ticks, us, out, event>>
masterVars == <<master, steps>>
vars == <<role, uptime, epochVars, syncVars, readVars, masterVars, shown, torn>>

-----------------------------------------------------------------------------
(* Conversions. *)

(* round(): half away from zero. *)
Round(num, den) ==
  IF num >= 0 THEN (2 * num + den) \div (2 * den) ELSE -((den - 2 * num) \div (2 * den))

us_to_ticks_down(t) == (512 * t) \div 15625
us_to_ticks(t) == (1024 * t + 15625) \div 31250

(* The cast of a negative double to uint64_t is undefined. *)
ticks_to_us(t) ==
  IF t >= 0 THEN {(15625 * t) \div 512} ELSE {0, -((15625 * (-t)) \div 512)}

uncompress_time_late(now, stamp) ==
  LET whole == (now \div Period) * Period + stamp
  IN  (IF whole >= now THEN whole - Period ELSE whole) % (Period * Period)
uncompress_time(now, stamp) ==
  LET whole == (now \div Period) * Period + stamp
  IN  (IF whole > now THEN whole - Period ELSE whole) % (Period * Period)

(* The corrected ticks of a difference of uptimes; the epoch comes on top. *)
Corrected(d, l) == Round(l.slope * d + l.offset, l.den)
Epoch == IF epoch_ref_valid THEN epoch_ref_ticks ELSE 0

Identity == [slope |-> 1, offset |-> 0, den |-> 1]

(* What the clock shows at an instant, and what the authority's shows. *)
Clock == Corrected(uptime - uptime_ref, line) + Epoch
MasterTime(u) == master.rate * u + master.start

-----------------------------------------------------------------------------
(* The writers. *)

Calling == pc \in {"ref", "epoch", "unix"}

(* An action others take while the reader is at any point of its call. *)
Observe == shown' = IF Calling THEN shown \cup {Clock'} ELSE shown

Tick ==
  /\ uptime < MaxUptime
  /\ uptime' = uptime + 1
  /\ UNCHANGED <<role, epochVars, syncVars, readVars, masterVars, torn>>
  /\ Observe

(* set_new_epoch_unix_ref, from bluesync_start_net_sync_with_unix_epoch_us. *)
SetEpoch(t) ==
  /\ role = "AUTHORITY" /\ epochs < MaxEpochs
  /\ uptime_ref' = uptime
  /\ epoch_ref_ticks' = us_to_ticks(t)
  /\ epoch_ref_us' = t
  /\ epoch_ref_valid' = TRUE
  /\ epochs' = epochs + 1
  /\ torn' = (torn \/ pc = "epoch")
  /\ UNCHANGED <<role, uptime, syncVars, readVars, masterVars>>
  /\ Observe

(***************************************************************************)
(* end_sync_timeslot_process, at the end of a burst whose slots were heard *)
(* in the last SlotNumber ticks: own and rcv are the slots with a local    *)
(* reception time and with a time of the sender.                           *)
(***************************************************************************)
ReceivedAt(i) == uptime - (SlotNumber - 1) + i
OwnBurst(slots) ==
  FoldSet(LAMBDA i, burst : add(burst, i, ReceivedAt(i)), NoTimestamps, slots)
RcvBurst(slots, jitter) ==
  FoldSet(LAMBDA i, burst : add(burst, i, MasterTime(ReceivedAt(i)) + jitter[i]),
          NoTimestamps, slots)
Exact(jitter) == \A i \in Slots : jitter[i] = 0

Latest(s) == IF Len(s) > WindowSize THEN Tail(s) ELSE s

(* The samples of a burst as the properties see them, without bitfields. *)
SamplePairs(own, rcv, jitter) ==
  {<<ReceivedAt(i), MasterTime(ReceivedAt(i)) + jitter[i]>> : i \in own \cap rcv}

EndSync(own, rcv, jitter) ==
  /\ role = "CLIENT" /\ syncs < MaxSyncs
  /\ uptime >= last_sync + SlotNumber
  /\ last_sync' = uptime
  /\ syncs' = syncs + 1
  /\ window' = Latest(Append(window, <<RcvBurst(rcv, jitter), OwnBurst(own)>>))
  /\ heard' = Latest(Append(heard, SamplePairs(own, rcv, jitter)))
  /\ clean' = IF Exact(jitter) THEN clean + 1 ELSE 0
  /\ LET result == calculate_lr_from_history(window', SlotNumber \div 2) IN
     IF result.status = "SUCCESS"
     THEN /\ line' = result.line     \* apply_timer_sync
          /\ fitted' = UNION {heard'[k] : k \in DOMAIN heard'}
          /\ trust' = IF clean' >= Len(window') THEN "window"
                      ELSE IF clean' > 0 /\ own \cap rcv = Slots THEN "last" ELSE "none"
     ELSE UNCHANGED <<line, fitted, trust>>
  /\ UNCHANGED <<role, uptime, epochVars, readVars, masterVars, torn>>
  /\ Observe

(* The authority, upstream, is given its first or a later epoch. *)
StepMaster(m) ==
  /\ role = "CLIENT" /\ steps < MaxSteps
  /\ m.start > master.start
  /\ master' = m
  /\ steps' = steps + 1
  /\ clean' = 0 /\ trust' = "none"
  /\ UNCHANGED <<role, uptime, epochVars, line, window, heard, fitted, last_sync, syncs,
                 readVars, shown, torn>>

-----------------------------------------------------------------------------
(***************************************************************************)
(* The reader: get_logical_time_ticks ("ticks"), get_logical_time_us       *)
(* ("us"), get_current_unix_time_us ("unix"), uncompress_time              *)
(* ("uncompress", of an earlier "us" reading, here or on a node in step    *)
(* with this one).                                                         *)
(***************************************************************************)
NoEvent == -1

Call(o) ==
  /\ pc = "idle"
  /\ o = "uncompress" => event # NoEvent
  /\ pc' = "ref" /\ op' = o
  /\ shown' = {Clock} /\ torn' = FALSE
  /\ UNCHANGED <<role, uptime, epochVars, syncVars, delta, read, ticks, us, out, event,
                 masterVars>>

(* get_logical_time_ticks_ under the mutex ... *)
ReadRef ==
  /\ pc = "ref"
  /\ delta' = uptime - uptime_ref /\ read' = line
  /\ pc' = "epoch"
  /\ UNCHANGED <<role, uptime, epochVars, syncVars, op, ticks, us, out, event, masterVars,
                 shown, torn>>

(* ... and after it: the epoch, and the conversions that take no lock. *)
ReadEpochLateLine ==
  /\ pc = "epoch"
  /\ ticks' = Corrected(delta, line) + Epoch
  /\ IF op = "unix"
     THEN pc' = "unix" /\ UNCHANGED <<us, out, event>>
     ELSE /\ pc' = "done"
          /\ IF op = "ticks" THEN UNCHANGED us ELSE us' \in ticks_to_us(ticks')
          /\ event' = IF op = "us" THEN us' ELSE event
          /\ out' = IF op = "uncompress" THEN uncompress_time(us', event % Period) ELSE out
  /\ UNCHANGED <<role, uptime, epochVars, syncVars, op, delta, read, masterVars, shown, torn>>
ReadEpoch ==
  /\ pc = "epoch"
  /\ ticks' = Corrected(delta, read) + Epoch
  /\ IF op = "unix"
     THEN pc' = "unix" /\ UNCHANGED <<us, out, event>>
     ELSE /\ pc' = "done"
          /\ IF op = "ticks" THEN UNCHANGED us ELSE us' \in ticks_to_us(ticks')
          /\ event' = IF op = "us" THEN us' ELSE event
          /\ out' = IF op = "uncompress" THEN uncompress_time(us', event % Period) ELSE out
  /\ UNCHANGED <<role, uptime, epochVars, syncVars, op, delta, read, masterVars, shown, torn>>

(* ticks_to_us_unix_time, the second critical section. *)
ReadUnix ==
  /\ pc = "unix"
  /\ \E delta_us \in ticks_to_us(ticks - epoch_ref_ticks) : us' = epoch_ref_us + delta_us
  /\ pc' = "done"
  /\ UNCHANGED <<role, uptime, epochVars, syncVars, op, delta, read, ticks, out, event,
                 masterVars, shown, torn>>

Return ==
  /\ pc = "done"
  /\ pc' = "idle" /\ op' = "none" /\ delta' = 0 /\ read' = Identity
  /\ ticks' = 0 /\ us' = 0 /\ out' = 0
  /\ shown' = {} /\ torn' = FALSE
  /\ UNCHANGED <<role, uptime, epochVars, syncVars, event, masterVars>>

-----------------------------------------------------------------------------
Init ==
  /\ role \in Roles
  /\ uptime = 1     \* nobody reads the clock within the first tick
  /\ uptime_ref = 0 /\ epoch_ref_ticks = 0 /\ epoch_ref_us = 0 /\ epoch_ref_valid = FALSE
  /\ line = Identity /\ window = <<>> /\ heard = <<>> /\ fitted = {}
  /\ clean = 0 /\ trust = "none" /\ last_sync = 0
  /\ pc = "idle" /\ op = "none" /\ delta = 0 /\ read = Identity
  /\ ticks = 0 /\ us = 0 /\ out = 0 /\ event = NoEvent
  /\ master \in MasterTimes /\ \A m \in MasterTimes : master.start <= m.start
  /\ shown = {} /\ torn = FALSE
  /\ epochs = 0 /\ syncs = 0 /\ steps = 0

Next ==
  \/ Tick
  \/ \E t \in EpochsUs : SetEpoch(t)
  \/ \E heard_slots \in Received, jitter \in Jitters :
       EndSync(heard_slots[1], heard_slots[2], jitter)
  \/ \E m \in MasterTimes : StepMaster(m)
  \/ \E o \in {"ticks", "us", "unix", "uncompress"} : Call(o)
  \/ ReadRef \/ ReadEpoch \/ ReadUnix \/ Return

Spec == Init /\ [][Next]_vars

-----------------------------------------------------------------------------
(* Properties. *)

(* Every variable stays in its type; no time is negative before its cast. *)
TypeOK ==
  /\ role \in Roles /\ uptime \in 0 .. MaxUptime
  /\ uptime_ref \in 0 .. uptime /\ epoch_ref_ticks \in Nat
  /\ epoch_ref_us \in EpochsUs \cup {0} /\ epoch_ref_valid \in BOOLEAN
  /\ line \in Line
  /\ window \in Seq(Burst \X Burst) /\ Len(window) <= WindowSize
  /\ pc \in {"idle", "ref", "epoch", "unix", "done"}
  /\ op \in {"none", "ticks", "us", "unix", "uncompress"}
  /\ delta \in 0 .. uptime /\ read \in Line
  /\ ticks \in Nat /\ us \in Nat /\ out \in Nat /\ event \in Nat \cup {NoEvent}
  /\ master \in MasterTimes /\ trust \in {"none", "last", "window"} /\ torn \in BOOLEAN
  /\ Clock \in Nat

(***************************************************************************)
(* "The synchronised ticks": a reading is what the clock showed at one     *)
(* instant of the call, although its uptime, slope and offset are read     *)
(* under the mutex and its epoch after it.                                 *)
(***************************************************************************)
ReadingIsOfTheClock == pc = "done" => ticks \in shown

(* The same, for the calls in which no epoch is set between the two reads. *)
UntornReadingIsOfTheClock == ~torn => ReadingIsOfTheClock

(* A time in us is a time in ticks of 15625/512 us, but for half a tick    *)
(* rounded into the epoch and a microsecond rounded off the result.        *)
Error(t, c) == 512 * t - 15625 * c
Within(x, d) == -d <= x /\ x <= d
Tolerance == 7812 + 512
SameTime(t, c) == Within(Error(t, c), Tolerance)

(***************************************************************************)
(* get_current_unix_time_us is, up to the rounding of the epoch to a tick  *)
(* and of the result to a microsecond, what the clock showed at one        *)
(* instant of the call, although the mutex is taken twice, and whatever    *)
(* the cast of a negative difference gives.  A torn call may instead be    *)
(* ahead of a time the clock showed, by the ticks it had counted from the  *)
(* reference that was replaced (delta), and by nothing else.               *)
(***************************************************************************)
UnixIsOfTheClock ==
  pc = "done" /\ op = "unix" =>
    \E c \in shown : SameTime(us, c) \/ (torn /\ SameTime(us, c + delta))

(* The residual of a sample, times the line's denominator. *)
Residual(p) == line.den * p[2] - line.slope * p[1] - line.offset

(***************************************************************************)
(* The line in force is the least-squares line of the samples: the         *)
(* residuals sum to zero, alone and against the local times.               *)
(***************************************************************************)
FitIsLeastSquares ==
  fitted # {} =>
    /\ SumFunction([p \in fitted |-> Residual(p)]) = 0
    /\ SumFunction([p \in fitted |-> p[1] * Residual(p)]) = 0

(***************************************************************************)
(* A client whose window holds the authority's time shows that time, at    *)
(* every later instant, however few of the packets it heard.               *)
(***************************************************************************)
FollowsMaster == trust = "window" => Clock = MasterTime(uptime)

(* The same, of a client that has just heard one complete, exact burst. *)
ShowsMasterTime == trust # "none" => Clock = MasterTime(uptime)

(***************************************************************************)
(* A time of 64 bits, sent as its low 32 bits, is recovered by a node      *)
(* whose clock is not behind it, nor 2^32 us ahead of it.                  *)
(***************************************************************************)
UncompressRecovers ==
  /\ pc = "done" /\ op = "uncompress"
  /\ event \in 0 .. Period * Period - 1 /\ event <= us /\ us - event < Period
  => out = event
=============================================================================
