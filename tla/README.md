# BlueSync in TLA+

A model of `zephyr-bluesync-ble`, a Zephyr module that synchronises the clocks
of a line of BLE nodes: an authority advertises a burst of numbered packets, a
client collects the burst, fits its clock to the sender's by linear regression
and advertises a burst of its own for the nodes behind it.  Paths below are
relative to the repository's root.

## 1. The system

| component | state | operations | talks to |
|---|---|---|---|
| state machine (`src/bs_state_machine.c`) | `role`, `current_state`, the handler table, a mutex | `transition` (pure), `run`, `set_role`, `get_role`, `get_state` | calls the handler of the state it is in, after the unlock |
| BlueSync thread and handlers (`src/bluesync.c`) | one burst being collected or sent (`local`, `rcv`, `timeslot_index`), `current_round_id`, `new_round_id`, a one-shot timer, a 17-place message queue, three binary semaphores | the poll loop, `bluesync_scan_packet_process`, five state handlers | everything |
| burst history and regression (`src/bluesync.c`) | two rings of `BURST_WINDOWS_SIZE` bursts | `bluesync_store_current_burst`, `calculate_lr_from_history` | logical time (`apply_timer_sync`) |
| advertising and scanning (`src/bluesync.c`) | the advertising set, the aux scan callback, the mesh's scanner | `bluesync_send_adv`, `adv_sent_cb`, `scan_cb`, scan start and stop | Bluetooth host, mesh |
| public API (`include/bluesync/bluesync.h`) | - | `bluesync_init`, `bluesync_set_role`, `bluesync_start_net_sync`, `..._with_unix_epoch_us` | called by the application's threads |
| logical time (`src/local_time.c`) | slope, offset, uptime and epoch references, a mutex | `apply_timer_sync`, `set_new_epoch_unix_ref`, conversions | regression, API, `adv_sent_cb` |
| bitfields (`src/bluesync_bitfields.c`) | - | `set_bit`, `is_bit_set`, `bitwise_and_bitfields`, `count_set_bits` | slots of a burst |
| statistics, synced-time logger (`src/statistic/`) | a CSV file | BabbleSim output | reads only |

What makes it correct:

- a client fits its clock only to pairs (own time, sender's time) **of one and
  the same packet**, although the two halves arrive in different packets,
  queue up, overwrite one another and are joined by slot number alone;
- `BS_SYNC` is always left: its only exit is a one-shot timer;
- a node that waits for a burst can hear one;
- a client never adopts, and so never relays, the round it is already on;
- packet *k* of a burst carries the time packet *k-1* of that burst left, whatever
  the radio refuses;
- each request of the authority's application is followed by a burst, and once
  the requests are served the last burst was of one round and one epoch, those in
  force;
- the bursts of neighbours never meet at a client, a round goes down the line
  and dies out at its end, and a client only goes on to later rounds;
- the line in force is the least-squares line of the window's samples, and what
  a caller reads is a time the clock showed, whoever writes meanwhile.

What makes it hard: five actors interleave (the thread, the application, the
Bluetooth host's callbacks, the timer, the neighbours); the thread sleeps inside
a burst while packets, requests and role changes arrive; each call to the radio
may fail on its own; the handler is chosen by an unlocked read after the
transition; one loop pass handles one message and then the expiry.
`PROJECT.json` lists the hazards line by line.

## 2. Modules

| module | models |
|---|---|
| `BsStateMachine` | the roles, states, events and the function `transition` |
| `Bluesync` | one node: state machine, thread, handlers, queue, timer, rings, radio, API; properties |
| `ClientSession` | abstract: a client waits, collects another round, adopts and relays it or gives it up |
| `BurstWindow` | abstract: the last *n* bursts that ended |
| `BluesyncRefinement` | the mappings under which `Bluesync` implements both |
| `MCBluesync` | values of `HeardRound`, the neighbours' bursts, for TLC |
| `BluesyncNetwork` | the authority and the clients of a line, each a coarser `Bluesync`, in time |
| `Bitfields`, `Regression` | pure: the marks of the slots as bytes; `calculate_lr_from_history` |
| `LocalTime` | the clock of one node, its writers and a reader; extends `Regression` |
| `MCLocalTime` | clocks, losses and errors for TLC |
| `BluesyncProofs` | type correctness, expiry, rounds, bursts, listening |
| `BluesyncPairsProofs` | the pairing of samples |
| `BluesyncRefinementProofs` | the two refinements |
| `SumTheorems` | sums over finite sets |
| `RegressionProofs` | the bits of the slots, the fitted line |
| `LocalTimeProofs` | readings |
| `LocalTimeFitProofs` | the line in force, the clock's types, compressed times, Unix times |
| `BluesyncNetworkProofs` | the timetable of a line |

How they fit together.  `Bluesync` knows its neighbours only as bursts that may
be heard; that a client's bursts are apart (`Overlap = FALSE`, `Quiet`) is an
assumption there and the property `BurstsApart` in `BluesyncNetwork`.  In return
the network's client, whose queue, radio and loop are left out, does nothing
that `ClientSession` does not allow, and nor does the detailed one.  `Bluesync`
treats times as names of radio events; that the samples it fits are true pairs
(`PairsMatch`) and the window is that of the last bursts (`HistoryIsWindow`) is
what `LocalTime` starts from: there the same samples are numbers.

### State of `Bluesync`

`role`, `state` are `sm_param`; the three semaphores, `timer` and `rx_msgq` are
the kernel objects; `timeslot_index`, `local`, `rcv`, the histories and the round
ids are `param`.  `pc` is where the thread is between two points at which others
can step in, `resume` where it returns after a handler, `ready` what `k_poll`
reported and the loop body has not served yet.  `scanning` and `mesh_scan` are
the aux scan callback (or, without mesh, the scan) and the mesh's scanner:
`scan_cb` runs only when both are on.  `inflight` is the packet the controller
is advertising.

A timestamp is a *stamp* that names the radio event it was taken at
(`OwnStamp(burst, slot)`, `HeardStamp(burst, slot)`), never a number: what the
properties ask of a time is which transmission it is of.  `fit` is the set of
pairs the slope and offset in force were fitted to, which is what
`apply_timer_sync` stores, up to arithmetic.  `burst`, `set_roles` and `starts`
only count; they and `epoch` guard nothing but the bounds below.  `aired` holds,
for each packet of the latest burst that left, its round id and the epoch of the
time taken as it left, and only serves the properties.

### Actions of `Bluesync`

| action | code |
|---|---|
| `Start`, `TakeRole` | prologue of `bluesync_thread_fnt` |
| `Poll`, `TakeNewSync`, `TakeMsg`, `TakeEndSync` | `k_poll` and the three `if` of the loop, in that order |
| `TakeMsg`, `AnnounceSync`, `StoreMsg` | `bluesync_scan_packet_process` before, at and after `bs_state_machine_run` |
| `Run` (part of six actions) | `bs_state_machine_run` up to its unlock; `pc = "dispatch"` is the gap before the unlocked `switch` |
| `WaitHandler`, `IdleHandler`, `UpdateHandler` + `AnnounceUpdate`, `AdvHandler` | the five handlers |
| `SetDataFails`, `AdvStartFails`, `Send` | the three ways through `bluesync_send_adv` |
| `NextPacket`, `EndBurst` | the loop of `bluesync_adv_process` and its end |
| `AdvSent(num_sent)` | `adv_sent_cb` |
| `TimerFires` | `drift_estimation_handler` |
| `SetRole`, `SetEpoch`, `StartNetSync` | the public API; the epoch variant is two steps, the second being the nested call with its own test of the role |
| `Hear(b)`, `Miss(b)` | a packet of burst `b` reaches `scan_cb`, or does not |

External, modelled from how `bluesync.c` uses them: the controller, the mesh's
scanner (on at the start, touched by BlueSync alone) and the neighbours.

### What `Bluesync` merges or leaves out

- Time has no duration: the timer may expire at any moment after its start,
  which includes every duration the code computes.
- Taking the role semaphore and the transition that follows are one step; so are
  the increment of `bluesync_start_net_sync` and the give of its semaphore, the
  two resets of `bluesync_reset_param`, the two pushes of
  `bluesync_store_current_burst`, and the reads of one `bluesync_send_adv`.
  `k_poll` marks the conditions that hold when the thread wakes.
- The sleep of 200 ms outlasts an advertising event, so `NextPacket` waits for
  the sent event.  The fault `late_sent` drops this; a start is then refused
  while the set is active, and the new data may replace that of the packet on
  the air.
- The variance is zero when all samples have the same local time; the test
  against `1e-12` is read as exact.
- `bt_le_ext_adv_create` succeeds.  Packets `scan_cb` rejects leave no trace.
  Neighbours send well-formed bursts with indices `0..SLOT_NUMBER`, so the
  "Index too large" branch is the `ELSE` of both halves of `StoreMsg` and is not
  reached.  Statistics are left out.
- Without `Overlap`, a neighbour's burst begins once the earlier ones are over
  and the node is not in the middle of handling one.

### `BluesyncNetwork`

One step of a node is what its thread does between two of its sleeps; `now`
counts intervals of `CONFIG_BLUESYNC_ADV_INT_MS`, and `due` holds the nodes that
still have something to do in the current one, in any order.  A client's state
is `state`, `round` (`current_round_id`), `new_round`, `slot` (`timeslot_index`),
`timer` (intervals left of `drift_estimation_timer`), `got` (the indices heard)
and `window` (how many samples each of its last bursts gave).  A round is the
number of the start it comes from, and nodes compare rounds modulo `RoundIds`.

| action | code |
|---|---|
| `Send(n)`, `Receive` | one turn of `bluesync_adv_process` and, at each node that hears the packet, `bluesync_scan_packet_process` |
| `EndBurst(n)` | the last sleep and `EVENT_ADV_EXPIRED` |
| `Adopt(n)`, `GiveUp(n)`, both `Expire(n)` | `EVENT_SYNC_EXPIRED`, `bs_update_handler` and the handler it leads to |
| `StartNetSync`, `TakeNewSync` | `bluesync_start_net_sync` and the thread's answer |
| `NextInterval` | time |

Clocks of the nodes run at one rate here, to within the interval: a burst of 17
packets 200 ms apart takes 3.4 s, in which clocks 100 ppm apart drift by 0.34 ms.
Radio calls succeed and the queue is
never full; any packet may be missed by any of its hearers.  `from` (which bursts
the packets at hand are of), `began` and `starved` only serve the properties.

### `LocalTime`

The variables are the fields of `struct local_time`, the window of the
regression, and the program counter `pc` and locals of one reader's call.  Each
critical section, and each unlocked read, is a step.

| action | code |
|---|---|
| `SetEpoch(t)` | `set_new_epoch_unix_ref` |
| `EndSync(own, rcv, jitter)` | a burst heard, `end_sync_timeslot_process`, `apply_timer_sync` |
| `Call(o)`, `ReadRef`, `ReadEpoch`, `ReadUnix`, `Return` | `get_logical_time_ticks`, `get_logical_time_us`, `get_current_unix_time_us`, `uncompress_time`: the locked part of `get_logical_time_ticks_`, its unlocked rest with the conversions, and `ticks_to_us_unix_time` |
| `Tick`, `StepMaster(m)` | time; the authority upstream is given an epoch |

Doubles are exact rationals, the variance test against `1e-12` is an exact one
against 0, and the two conversions are exact (512 ticks are 15625 us), truncated
or rounded as the code does.  The cast of a negative double to `uint64_t` may
give 0 or the wrapped value.  A read of 64 bits is one step.  `master`, `heard`,
`fitted`, `clean`, `trust`, `shown`, `torn` only serve the properties.

## 3. Properties and runs

All cfgs say `CHECK_DEADLOCK FALSE`: the thread blocks in `k_poll` with
`K_FOREVER`, and the calls, bursts and ticks of the environment are bounded.

| run | instance | question | states |
|---|---|---|---|
| `client` | mesh, 3 slots, ring of 2, queue of 2, bursts of rounds 0, 0, 1 one after the other, `set_data` and `not_sent` faults | does a client pair, adopt, forward and end its synchronisations right? | 372,775 |
| `authority` | 2 slots, 3 requests at any moment, `set_data`, `adv_start`, `not_sent` | does each request get its burst, with the right times, round and epoch in it? | 23,574 |
| `role_change` | no mesh, 2 slots, overlap, all faults, up to 3 role assignments at any moment | can anything trap the thread? | 111,224 |
| `clock` | 3 slots in 2 bytes, window of 2, 2 bursts each heard whole, without its first packet or without its first and last, with exact or wrong times; 2 epochs; the master's clock is stepped once; 7 ticks | is every reading a time of the clock, and is the clock right? | 2,455,598 |
| `line` | 4 clients, 2 slots, window of 2, 2 round ids, 2 starts 12 intervals apart, any loss | do rounds travel, in order, and end? | 456,910 |
| `scanner_left_off` | mesh, `adv_start` fails | violated: see below | |
| `role_reassigned` | authority made client | violated | |
| `bursts_overlap` | two neighbours at once | violated | |
| `start_in_burst` | a second request in a burst | violated | |
| `first_round_last_id` | a neighbour's round has the initial id | violated | |
| `epoch_stepped` | a client whose authority is stepped between two exact bursts | violated | |
| `torn_epoch` | an authority given two epochs | violated | |

Properties of one node (stated with their reasons at the end of `Bluesync.tla`
and in `BluesyncRefinement.tla`):

- `TypeOK`, the one type invariant;
- `PairsMatch`: every fitted sample is the two times of one packet;
- `ListensWhileWaiting`, and its progress form `WaitsListening`;
- `ExpiryPending`, `NoStrayExpiry`, `SyncEnds`: an expiry is always on its way,
  never left over, and ends the synchronisation;
- `AdoptsAnotherRound`, `SkipsOnlySynced`: rounds;
- `SyncForwarded`: a client that has collected enough rebroadcasts;
- `FollowUp`, `SlotInBounds`, `BurstEnds`: the burst;
- `RequestServed`: a request, also one that comes in the middle of a burst, is
  followed by a burst begun after it;
- `RoundAnnounced`: requests and epochs change the round and the epoch under a
  burst being sent, and requests coalesce, yet once the authority rests every
  packet of its last burst carried the round and the epoch in force;
- `BurstIsOneRound`, checked only in `start_in_burst`, where it is violated: the
  packets of one burst that have left carry one round id;
- `ImplementsSession`, `HistoryIsWindow`: the two refinements.

Of a network (`BluesyncNetwork.tla`):

- `BurstsApart`, `ExpiryAfterBurst`: the timing of bursts and timers, from any
  packet of a burst that happens to be the first one heard;
- `FromUpstream`, `RoundsAdvance`: a client hears both neighbours, and compares
  rounds for equality only, yet goes forward and is only led from upstream;
- `ClientsAreSessions`: each client implements `ClientSession`;
- `Quiesces`, `Delivered`: a round dies out, and reaches the end of the line
  unless a client missed too much of the burst before it.

Of a clock (`LocalTime.tla`):

- `UntornReadingIsOfTheClock`: unless the epoch is set between the two reads of
  the call, a logical time is what the clock showed at an instant of the call,
  exactly;
- `UnixIsOfTheClock`: a Unix time is what the clock showed at an instant of the
  call, to half a tick and a microsecond, or, if the epoch was set between the two
  reads and only then, such a time plus the ticks counted from the reference that
  was replaced (`torn_epoch` shows the like for a logical time);
- `FitIsLeastSquares`: the residuals of the line in force sum to zero, alone and
  against the local times, on samples taken without the bitfields;
- `FollowsMaster`: after a window of exact bursts, however incomplete, a client
  shows the authority's time at every later instant;
- `UncompressRecovers`: a time of 64 bits, sent as its low 32 bits, comes back;
- `TypeOK` of `LocalTime` says, beside types, that no time is negative when it
  is cast.

Bounds.  Two or three slots give first, inner and last packet and, with three,
a regression that needs two pairs out of three.  A ring of two wraps at the
third update and keeps the burst of a failed update next to a good one.  A queue
of two is smaller than a burst (in the code 17 places hold exactly one), so it
overflows.  Three round ids wrap within the requests of `authority` and contain
the initial id.  Three bursts are the repeat of a round and a change of round.
`MaxSetRole` and `MaxStart` bound the application's calls in the guards of its
actions.

In `clock`, two bytes of two bits hold the three slots, so that a mark can go into
the wrong byte and into the wrong bit; two bursts are as many as the window
holds, one before and one after the step of the master; the three shapes of a
burst give three samples, two, and one.  One sample alone has no variance and is
refused, in a window with another burst it is fitted.  `NO_ENOUGH_DATA` needs four
slots to differ from no data at all; the theorems cover it, being about any number.
Nobody reads within the first tick.  Epochs only step forward (`TimesRise`, see
section 4): after a step back a line through old and new bursts can fall, and the
clock be negative.  `Period` stands for 2^32 and is passed within the ticks of the
run.

In `line`, four clients are enough for three bursts at different places and for
a client with two others on each side; a hop takes 4 intervals (`SLOT_NUMBER + 2`),
the starts are 3 hops apart, and `MaxIdle` lets the second start come later than
that.  Two rounds with two round ids make the initial id and that of the second
round the same.  `Spacing` is an assumption on the application that no document
states, and it is tight: with 11 intervals TLC finds two bursts on the air at
one client.  With `Reach = 2` and no spacing it also finds a client going back to
an older round (some 9 million states, too long for a run here).

Fairness.  Weak fairness of the thread (Zephyr schedules a ready thread; no
higher-priority thread is assumed to run for ever), of a running kernel timer,
and of the end of an advertising event (`num_events = 1`).  Which of the outcomes
of a radio call occurs is not constrained, and nothing is asked of the
application or the neighbours.  `BluesyncNetwork` has weak fairness of everything
but the application's starts: threads run and time passes.  Which packets are
heard stays open there too; that is what `starved` is for.

### Disagreements with the docs

1. `scanner_left_off`: `bluesync_send_adv` disables the mesh scanner and returns
   on a failed `bt_le_ext_adv_start` (line 420); only `adv_sent_cb` enables it.
   The client returns to `SCAN_WAIT_FOR_SYNC`, which "Listens for a burst of sync
   packets" (`docs/conception.md:51`), deaf.
2. `role_reassigned`: a second `bluesync_set_role` enters the state without the
   callback that is "called when entering in wait_for_sync state"
   (`src/bs_state_machine.h:65`); the scan never starts.
3. `bursts_overlap`: in `BS_SYNC` the round id is not looked at, so the burst
   collected is not "the burst" (`docs/conception.md:52`) once two overlap.
4. `start_in_burst`: a request increments the round id at once rather than when
   `ADV` starts (`docs/conception.md:47`), also under a burst being sent, two
   packets of which leave with different round ids.
5. `first_round_last_id`: a fresh node drops round `0xFF` as "already
   synchronized to this round" (`src/bluesync.c:309`).

6. `epoch_stepped`: the window is not emptied when the epoch changes, so for as
   many rounds as the window holds a client shows a time that is neither the old
   nor the new one, although `get_current_unix_time_us` "returns the current time
   as synchronized with the authority node" (`include/bluesync/bluesync.h:94`).
7. `torn_epoch`: the epoch is read after the unlock (`src/local_time.c:81`); set
   in between, it is added to an uptime counted from the old reference, which is
   not "the unix epoch timestamp in ticks" (`src/local_time.h:43`).

Sent events later than the sleep are a further weakness, shown by no run because
no document promises the timing: adding `late_sent` to `authority.cfg` breaks
`FollowUp` and `SlotInBounds`.

## 4. Proofs

Constants are only assumed to be of their types (`SizesAssumption`,
`BoundsAssumption`, `SwitchesAssumption`, `HeardAssumption`, `BitsAssumption`,
`TimeAssumption`, `NetworkAssumption`), but for `TimesRise`; further hypotheses
are in the theorem's `ASSUME`.

`TimesRise` is about the times a clock is given.  The times a client receives
rise with its own: they are not negative, the errors of any two differ by no
more than the authority's clock advances in one tick of the client's, and a step
moves the authority's clock forward and does not slow it down.  No epoch given is
so small that it rounds to 0 ticks.  The code relies on it: it keeps every time in a
`uint64_t`, casts the double of `local_time.c:85` without a test, and a falling
line would make it cast a negative number, which is undefined.  Samples are at
least a tick of the client apart in the model, and 200 ms in the code, where the
errors allowed are thus 200 ms as well.
Only `TypeCorrect` and, for a client, `UnixTimeIsOfTheClock` use it.

| theorem | property | further assumption | invariant |
|---|---|---|---|
| `TypeCorrect` | `TypeOK` | none | `TypeInv`: `TypeOK` and a message at hand when the queue was reported |
| `SyncHasExpiry` | `ExpiryPending` | none | `ExpiryInv`: also covers the gap between starting the timer and the transition |
| `ExpiryIsNotStray` | `NoStrayExpiry` | role given once | `StrayInv`, on `OneRoleInv` |
| `UpdateChangesRound` | `AdoptsAnotherRound` | role given once | `RoundInv`: the round under collection differs from the node's |
| `PacketsFollowUp`, `SendInBounds` | `FollowUp`, `SlotInBounds` | sent events in time | `BurstInv`: `timeslot_index <= sent`, and slots below it hold this burst's stamps |
| `WaitingNodeListens` | `ListensWhileWaiting` | role given once, no refused start of scan or advertising, sent events in time | `ListenInv` |
| `LatestRoundIsAnnounced` | `RoundAnnounced` | role given once, sent events in time | `AnnounceInv`: a change is followed by a request, and what a burst begun after it has sent is the current round and epoch; on `OneRoleInv`, `BurstInv` |
| `SkipIsOfSyncedNode` | `SkipsOnlySynced` | no neighbour on the initial round; role given once, or never the authority's | `FreshInv`: a client that has fitted nothing is on the initial round; on `AuthorityInv` |
| `SamplesArePairs` | `PairsMatch` | bursts apart, role given once, sent events in time | `PairsInv` |
| `ClientIsSession` | `ImplementsSession` | never made the authority, role given once | `OneRoleInv`, `NoAuthorityInv` |
| `RingsAreWindow` | `HistoryIsWindow` | none | `RingsInv`: one head and one count |
| `BitPerSlot` | (of `set_bit`, `is_bit_set`) | none | |
| `LeastSquares`, `FitOfALine`, `FitOfRisingTimes` | (of `Fit`) | none; samples on a line; samples that rise | |
| `ReadingsAreOfTheClock` | `UntornReadingIsOfTheClock` | none | `ReadInv` |
| `LineIsLeastSquares` | `FitIsLeastSquares` | none | `WindowInv`: what is marked in the window is what was heard |
| `ClientFollowsMaster` | `FollowsMaster` | none | `MasterInv`: the latest clean bursts lie on the authority's line |
| `TypeCorrect` of `LocalTimeFitProofs` | `TypeOK` of `LocalTime` | `TimesRise` | `TypeInv`, `WindowInv`, `RisingInv`, `NonnegInv` |
| `CompressedTimeIsRecovered` | `UncompressRecovers` | none | `UncompressInv` |
| `UnixTimeIsOfTheClock` | `UnixIsOfTheClock` | `TimesRise`, for a client | `UnixInv`, `AuthorityInv`, `NonnegInv`, `TornInv`: only an authority's call is torn |
| `NetworkTypes` | `TypeOK` of `BluesyncNetwork` | none | `TypeInv`, `TimersInv`, `SlotsInv`, `WindowsInv`, `FlagsInv` |
| `ClientsKeepSessions` | `ClientsAreSessions` | none | `TypeInv` |
| `BurstsStayApart`, `SyncIsFromUpstream`, `ExpiryComesAfterBurst`, `RoundsOnlyAdvance` | `BurstsApart`, `FromUpstream`, `ExpiryAfterBurst`, `RoundsAdvance` | `Spaced`: one hop of reach, starts three hops apart | `Timetable` |

The assumptions are needed: the violated runs, and the late sent event above,
are what happens without them.

The shape of each proof is Init, one step per action, implication, PTL.
`OneRoleInv` says that where the role is given at most once the state fits the
role and `pc`, so that no handler runs for a state its event did not lead to.
`BurstInv` accounts for the sent event that is still due in each sleep.

`SamplesArePairs` is the hard one.  Its invariant is split by where a
timestamp is on its way from the air to the fit: `AirInv` (which burst is on the
air, and that the others are over or not begun), `QueueInv` and `MsgInv` (every
packet in the queue or at hand is of that one burst), `ClientInv` (only a client
scans, and it stores messages only in `BS_SYNC`), `SlotsInv` (the slots marked
since the last reset hold times of that burst) and `HistoryInv` (the two rings
turn together and their bursts match slot by slot).  The burst on the air cannot change
while any of its packets, or its expiry, is unhandled; that is where the
assumption that bursts are apart is spent.

`LatestRoundIsAnnounced` follows a change of the round or the epoch to the air.
Between the change and the end of the first burst begun after it there is always
one of three: a request that is pending or half made (`Pending`), a burst about to
begin (`AboutToBurst`), or a burst of which everything that left is current
(`BurstIsCurrent`).  A second request in a burst ends the last and begins the
first.  Beginning a burst empties `aired`, and each packet is filled from the round
in force when it is sent and timed when it leaves; that sent events are not late
(`BurstInv`) keeps a packet of the burst before from being counted in.

The network's `Timetable` says where everything is in time: a round started at
*t* begins to be relayed by node *n* at `Arrival(n, t)` = *t* + *n* hops
(`RelayInv`), and a client that collects it has its expiry exactly there
(`CollectInv`), whichever packet it heard first.  That is why the timer's length
must be counted from the packet's index.  Rounds do not grow along the line
(`RoundsInv`), and the starts are three hops apart (`StartsInv`).  From these,
while a node relays, the two nodes before it are still on its round
(`UpstreamOnRound`), so two nodes that one client hears never relay at once
(`RelaysApart`), and a node does not collect while the next one collects or relays
what it sent (`UpstreamNotCollecting`).  Each step lemma then keeps the timetable.

The regression is a matter of sums over the samples, which are as many as were
heard.  `SumTheorems` proves what is needed of them (removing an element,
linearity, images, signs) by induction on the set: among the subsets at which a
statement fails there is a least one, and removing an element of it leaves a
smaller one at which it fails.  No theorem of the library that takes an operator
is used.  On them rest the three facts about `Fit`: the
residuals of a least-squares line sum to zero; samples on a line give that line;
and samples that rise give a line that does not fall, because the covariance is
half the sum, over all pairs of samples, of the products of their differences,
none of which is negative.  Such a line is also not below the mean of
the samples from the last one on, hence not negative.

`WindowInv` carries these to the clock.  The properties look at `heard`, sets of
pairs of times; the code looks at two arrays joined by the bitwise and of two
bitfields.  The invariant says that the two are the same burst by burst, and that
no local time occurs twice, so that a sum over pairs is one over samples; a new
burst is later than `last_sync`, and the oldest one leaves both together.
`MasterInv` counts the latest bursts that hold the authority's time.  `NonnegInv`
says of every line in force, and of the one a call has already read, that it does not
fall and is not negative at the uptime it will be applied to (`Ahead`); of an
authority, that the line is the identity and the epoch is at least a tick.

`UnixTimeIsOfTheClock` covers every call, the torn ones too.  On an authority the
ticks that were read are those since a reference plus an epoch.  If the second
critical section finds the same reference, they cancel but for the rounding of the
epoch to a tick.  If the epoch was set after `ReadEpoch`, it is a time the clock
showed during the call, which is what a cast to 0 returns; a difference that is
not cast to 0 is exact.  If it was set between `ReadRef` and `ReadEpoch`, the
call is torn: ticks counted from the old reference are added to the new epoch, and
the result is ahead by those ticks (`delta`) and by nothing else.  On a client
nothing is subtracted, and the cast is of a number that `NonnegInv` shows not to be negative, whatever was refitted in between.

`SkipIsOfSyncedNode` needs that a node leaves the round it starts from only
together with its first fit (`FreshInv`).  An authority's application moves its
round as well, but an authority is not listening, and a client that
cannot become one and an authority that stays one never meet in one node
(`AuthorityInv`).

Only model-checked: the liveness properties `SyncEnds`, `SyncForwarded`,
`BurstEnds`, `RequestServed`, `Quiesces` and `Delivered`, which need fairness and
are out of the prover's reach.  Every invariant, action property and refinement of
the passing runs is a theorem.

## 5. Not modelled

Could be added:

- `bluesync_send_adv`'s two reads of `timeslot_index` as two steps; this needs a
  sent event later than the sleep.
- Radio failures, role changes and reboots in the network.  The first two are in
  `Bluesync`, for one node.  Nothing is persisted: a rebooted client is a fresh
  one, and a rebooted authority starts again with round id 0, which clients on
  another round take for a new one.
- A node that changes from authority to client with its epoch in force
  (`LocalTime` checks each role apart), and steps back of the epoch.
- The rounding of doubles.  Sums of Unix times in ticks stay below 2^53 for 64
  samples (a window of 4 bursts); what the products lose is not considered.
- A reading of a 64-bit field that is torn into words.

Left out for good: `src/statistic` (test-only output, which reads the clock and
the bursts and changes neither), `get_uptime_ticks_with_epoch`,
`convert_uptime_ticks_to_est_master_ticks`, the getters of slope and offset,
`count_set_bits` and `print_bitfield_as_binary` (called by nothing), log text, packet layout (no property
depends on it), the BLE stack and the kernel beyond what is used.
