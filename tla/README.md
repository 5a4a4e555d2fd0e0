# TLA+ models of TASI-RAMPCAST

TASI-RAMPCAST broadcasts road-side messages to vehicles over LTE sidelink (C-V2X, mode 4). The
repository holds a fork of srsLTE with a sidelink PHY and MAC (`src/sidelink`), Python programs that
produce, send and display messages (`src/messaging`, `src/Demo`) and data scripts (`src/511-msg-data`,
`src/wifi`). This directory models the concurrent core of the sidelink stack, from the synchronisation
thread up to the bearer, and the message queue of the demonstration vehicle. `PROJECT.json` gives, for
each definition, the lines it stands for; this file says how the pieces fit.

## 1. Inventory

| Component | State it keeps | Operations | Talks to | What is hard |
|---|---|---|---|---|
| Worker pool (`common/thread_pool.cc`) | status, flag, condition variable and mutex per worker; queue condition | `wait_worker`, `start_worker`, `release`, `finished`, `stop` | sync thread, `phy::stop`, workers | two locks that do not exclude each other; wakeups; shutdown |
| Transmit chain (`phy_common::worker_end`) | ring of semaphores, `is_first_tx`, next position | `set_tti`, `worker_end`, `reset` | workers, sync thread, RRC through `cell_select` and `phy::reset` | workers finish in any order; reset in flight |
| Sync thread (`phy/sync.cc`, `sync.h`) | current and next state, two request flags, overflow flags, `rrc_mutex` | main loop, `cell_search`, `cell_select`, `cell_create`, `radio_overflow` | RRC, radio thread, pool | requests from above against transitions from inside |
| Carrier workers (`phy/cc_worker.cc`) | grants of one subframe | `decode_pscch_dl`, `work_sl_tx` | HARQ entities, resource pool | arithmetic on subframe indices |
| DL HARQ (`mac/dl_harq.cc`) | per process: saved grant, ack, soft buffer, PDU pointer, mutex | `new_grant_dl`, `tb_decoded`, `reset` | workers, PDU pool | mutex held across two calls; lost transmissions |
| UL HARQ (`mac/ul_harq.cc`) | per process: transmission count, grant, payload | `new_grant_ul`, `reset` | carrier workers, multiplexer | which process owes the second transmission |
| PDU pool and PDU thread (`common/pdu_queue.cc`, `buffer_pool.h`, `mac.cc`) | free buffers, queue, `have_data`, `running` | `request`, `push`, `process_pdus`, `notify`, `stop` | HARQ, demultiplexer | blocking allocation, condition variable |
| Resource pool (`phch/repo.c`) | bitmap, table from TTI to pool index | build, look-up | carrier workers, `set_cell`, `reset` | wrap-around; zeroed at reset |
| Sensing-based scheduling (`ue_sl_sensing_sps.cc`) | ring of energies, ring of own transmissions, one reservation | `tick`, `resourceSelection`, `schedule`, `setTransmit` | carrier workers, other vehicles on the air | changes in one subframe only; deaf while it sends; counters that wrap |
| RLC UM (`rlc_um.cc`) | SDU queue and `vt_us`; receive window, `vr_ur`, `vr_ux`, `vr_uh`, the SDU being reassembled | `try_write_sdu`, `build_data_pdu`, `handle_data_pdu`, `timer_expired` | MAC, PDCP, timers | loss, order, repetition; the timer against arrivals; one window for all vehicles |
| Road-message queue (`Demo/mqtt_sub_v3.py`) | heap, cache per sign, counter | `put` (MQTT thread), `get` (UI thread) | MQTT broker, display | two threads, a cache without a lock |
| RRC, NAS, gateway, REST, PDCP | LTE connection state | per TTI and per PDU | MAC, IP | mostly unused by mode 4 |
| Other Python programs | sockets, RabbitMQ, files | publish, subscribe, measure | sidelink through IP | sequential loops |

One subframe travels as follows. The sync thread takes an idle worker, receives a millisecond of samples
into it and starts it. The worker decodes control information, opens a grant in a DL HARQ process, decodes
the data, hands the PDU to the PDU thread and returns to the pool; on the way it builds what this vehicle
sends in a later subframe, on the resources its reservation gives, and passes `worker_end`, where workers
wait for each other. The PDU thread hands the PDU to RLC, which puts PDUs into order and reassembles what the
sender cut. The RRC thread may send the sync thread to IDLE, change the cell and send it on at any moment.

What makes each component correct: a worker is used by one thread at a time and no hand-back is missed;
subframes leave in order; the PHY is reconfigured only while nobody uses it and every call of the higher
layers comes back; a buffer is in one place and no PDU waits in the queue for ever; redundancy is combined with the right
block, and a duplicate is recognised; vehicles that hear each other keep apart on the air; an SDU arrives
whole, once and in order, or not at all; a road message is shown as often as it says.

## 2. Modules

| Module | Models | State | Actions |
|---|---|---|---|
| `ThreadPool` | `thread_pool.cc`, its client loop in `sync.cc`, `phy::stop` | `status`, `wrunning`, `held` as in the code; `wpc`, `dpc`, `spc` are the positions of workers, sync thread and stopping thread | one per critical section, or per unprotected access |
| `PhyTx` (extends `ThreadPool`) | `worker_end`, `tx_worker_cnt`, `phy_common::reset` | `txSem`, `isFirstTx`, `txSemId`, `txWorkerCnt`; `pending` records dispatch order | `work_imp` split at every access to the chain |
| `TxFifo` | what the comment above `worker_end` promises | a queue | enter, leave |
| `MacRx` | `dl_harq.cc`, `pdu_queue.cc`, `buffer_pool.h`, `pdu_process` in `mac.cc` | `lock`, `ack`, `payload` per process; `avail`, `pduQ`, `haveData`, `running`; `news` is history | `LockProc` and `Allocate` are the two halves of `new_grant_dl`; `TbDecoded`; the PDU thread one access at a time |
| `SyncState` | `sync_state`, the main loop and the three calls | `curState`, `nextState`, `stateSetting`, `stateRunning`, `rrcMutex`, `outside`, overflow flags, `pool` | one per mutex section; `Reconfigured` is the whole reconfiguration between two requests |
| `SlHarq` | static sidelink scheduling, UL and DL HARQ | `txp` per sender and process, `rxp` per process of one receiver, what is on the air | a subframe is one sender step and one receiver step |
| `SensingSps` | `tick`, the energy measurement and `work_sl_tx` in `cc_worker.cc`, `schedule`, `resourceSelection`, `handleSrssi`, `random_with_retx` | `resv`, `energy`, `transmit`, `filled` per vehicle; `sends` is the air; `skipped`, `heard`, `apart` are history | one per outcome of `work_sl_tx`; vehicles take turns in a subframe |
| `RlcUm` | `rlc_um.cc`, the reordering timer | `tx` and `rx` with the names of the code; `air`; `input`, `output` are the SAPs | `TryWriteSdu`, `BuildDataPdu`, `HandleDataPdu`, `TimerStep` (flag cleared), `TimerExpired` (callback) |
| `LossyFifo` | what unacknowledged mode promises | accepted and delivered SDUs | accept, deliver |
| `RoadMessages` | `MsgPriorityQueue` in `mqtt_sub_v3.py`, `on_message`, `UserInterface.run` | `queue`, `cache`, `counter`; `mqtt` and `ui` are the threads' positions | one per call into the queue |
| `ThreadPoolProofs`, `PhyTxProofs`, `MacRxProofs`, `SyncStateProofs`, `SlHarqProofs`, `SensingSpsProofs`, `RoadMessagesProofs`, `RlcUmProofs` | | | theorems, section 6 |
| `MC...` | instances for TLC | | |

Abstractions worth knowing.

- A mutex whose critical section is one step is not a variable. A section that spans steps blocks the steps
  of others (`wpc = "presleep"`, `dpc = "scan"` in `ThreadPool`).
- Samples, payloads and soft bits are identities: a transport block is its sender and the subframe of its
  creation, a soft buffer the block for which it was last cleared.
- Radio and decoder results are nondeterministic. So is the length of processing: a worker may take any
  number of subframes.
- In `RlcUm` a byte is its sender, the number of its SDU and its position, so a wrong joint shows. The mutexes
  of `rlc_um_tx` and `rlc_um_rx` are held for one step each; only the timer acts outside (flag, then callback).
- In `SensingSps` a candidate resource is a subframe (`numChannels` is the width of the pool), energy is heard or
  not, and the workers of one vehicle finish a subframe before the next one is received.
- In `RoadMessages` an item is an index into the messages received, so that queue and cache share it as the
  dictionaries of the program do.
- In `MacRx` the block of a grant is either related to the saved one or not; `SlHarq` says when.
- `SyncState` reads `pool = "unset"` after `cell_select` as: there is a cell, and the table of its resource
  pool is a null pointer, because `phy_common::reset` zeroed it and `set_cell` was not called.
- In each module the operators marked "Fault:" are plausible wrong versions of the operator after them.
  No specification uses them; replacing the one by the other must break the property they are paired with.

## 3. Runs

| Run | Configuration | Question | Instance and why it is enough |
|---|---|---|---|
| `pool` | `ThreadPool_pool.cfg` | Is a held worker quiet, is no wakeup lost, does dispatching go on? | 2 workers, radio errors: one held, one behind or ahead of the scan, one lost. 11,004 states. With 3 workers the safety part is proved (section 6). |
| `tx` | `PhyTx_ring.cfg` | Do subframes leave in order, under one token, as from a FIFO, and is everything transmitted despite a reset and radio errors? | 2 workers, 1 reset: one extra token. 114,482 states. `InOrderTx`, `OneToken` and the FIFO are about runs without a reset; for any number of workers they are proved (section 6). |
| `macrx` | `MacRx_pool.cfg` | Is each buffer in one place, each grant closed, each PDU processed unless the last notification is overwritten? | 2 workers on 1 process (contention), 4 buffers, the least pool that suffices for a backlog of 1. 26,005 states. |
| `sync_gnss` | `SyncState_gnss.cfg` | Is the PHY reconfigured in IDLE only, one call at a time, and does each call return? | 2 callers, 3 calls: search, select and a concurrent call. 29,402 states. |
| `sync_ovf` | `SyncState_ovf.cfg` | Does an overflow end, does a master keep serving? | 1 caller, 2 calls, no GNSS, all three functions, also with a bad EARFCN. 8,270 states. |
| `harq` | `SlHarq_shared.cfg` | Right gap, right block, right duplicates? | 2 senders, 32 subframes: sender processes are reused from subframe 31 on, receiver processes after 8. 1,971,950 states. |
| `rlc` | `RlcUm_window.cfg` | Is what arrives whole, in order and once, and does every PDU leave the window? | 1 sender, numbers modulo 8 (window 4), 4 SDUs cut into two to four PDUs that overtake each other by up to 2, up to 2 lost in a row, one repeated. Numbers wrap. 145,943 states. |
| `sensing` | `SensingSps_share.cfg` | Do vehicles that heard each other keep apart, a master off its own sync subframes, does every period end in time? | 2 vehicles, one a master that comes up at any subframe and at times has nothing to send; period 4, window of 3 candidates, cycle of 16 subframes (four periods, so that subframe numbers wrap within a reservation), 1 missed subframe. 888,129 states. |
| `demo` | `RoadMessages_queue.cfg` | One entry per sign, nothing queued that is not cached, shown as often as it says, worked off, no `get` stuck? | 3 messages out of 3 kinds for 2 signs, with the priorities of `RSU_Messages.json`. 294,532 states. |
| `pool_stop`, `sync_mutex`, `rlc_dropped` | same prefix | see section 4 | the smallest instance that shows the behaviour |

Bounds. `MaxCalls`, `MaxResets` and `Horizon` bound counters that exist for the bound only. `Backlog` bounds
the PDUs queued while the PDU thread could run; it is a timing assumption about a real-time thread, and
`Backlog - 1 + 2 * (number of workers)` buffers is what it takes: with fewer, a worker waits for a buffer with
the process locked while the PDU thread waits for it. `Separated` in `PhyTx` is the assumption the code itself
states in `worker_end`: no two workers reach the test of `is_first_tx` at once. Without it two tokens arise.
`MaxSdus`, `MaxRepeats`, `MaxMissed` and `MaxMessages` bound counters. `IdleMissed` keeps the two
sources of silence in `SensingSps` apart to save states: with 0, a vehicle has always something to send once a
subframe was missed. The proofs fix neither. Two larger instances, checked beside the runs: `SensingSps_wide.cfg`
has period 6, a sensing window of 6, a master that synchronises twice in a period and a cycle of 18;
`SensingSps_residue.cfg` lets the set that `resourceSelection` returns before its window is full show a candidate.
Their invariants hold. `Skew` and `MaxOutage` in `RlcUm` are
assumptions about the radio, both below half the modulus: on the sidelink that is 512 PDUs, which do not pass
within the 15 ms of `t_reordering`.

Deadlock is not checked where the system may rightly stop: after shutdown (`ThreadPool`), after `stop()`
(`MacRx`), when radio errors have used up all workers (`tx`), and when the bounded number of SDUs or messages
is used up (`rlc`, `demo`).

Fairness.

- `ThreadPool`: every thread runs (weak fairness). The sync thread takes `mutex_queue` over and over, for
  microseconds in each millisecond, so a worker asking for it gets it (strong fairness of `FinishSignal`). The
  radio delivers subframes that are in sync again and again (strong fairness of `Dispatch`). Shutdown is never
  forced to happen; once begun it runs.
- `PhyTx`: the same, lifted to the extended state.
- `MacRx`: threads run, a mutex or buffer that keeps being released is obtained. Nothing need be received and
  nobody need stop the thread.
- `SyncState`: both sides run, SFN synchronisation comes to an end (it counts to a timeout). `SignalSpec` adds
  that a present signal is found in the end; only `sync_ovf` uses it.
- `RlcUm`: the MAC steps its timers in every TTI, and the mutex the callback asks for is held briefly. Neither
  arrivals nor grants are assumed.
- `SensingSps`: time goes on. Vehicles that stay off, and subframes that are missed, are left open.
- `RoadMessages`: both threads run. Messages may stop at any moment.

## 4. Where code and documentation part

| Run | Code | What is documented |
|---|---|---|
| `pool_stop` | `thread_pool.cc:95` writes the flag and signals without the worker's mutex, then joins; the start that should wake the worker comes after the join. | `thread_pool.cc:143` "Need to call start to wake it up" |
| `sync_mutex` | `sync.cc:747` tests `!try_lock()`, enters the block when it failed, and unlocks at line 774. | `sync.cc:201` "can not be called concurrently. A mutex is used to prevent it" |
| `rlc_dropped` | `rlc_um.cc:441` tests the room before the length indicator of the previous segment is added: with two bytes left no byte of the next SDU fits, yet the next PDU calls itself a continuation, and the receiver drops the SDU. | `rlc_um.cc:438` "First byte does not correspond to first byte of SDU"; `rlc_um_test.cc:182` expects every SDU |

More configurations are kept as reproductions; each shows a property failing for a reason that is worth
knowing. Run them with `tlc -config <file> MC<module>`.

- `SyncState_pool.cfg` (`PoolWhileWorking`): `phy_common.cc:855` zeroes the resource pool, `sync.cc:326` builds
  it again for another cell only, so selecting the current cell again leaves it empty.
- `SlHarq_wrap.cfg` (`RetxAfterGap`): `ul_harq.cc:149` and `:166` reduce an index of the pool modulo 10240, the
  length of a hyperframe, not of the pool; a second transmission across the end of the pool is late.
- `ThreadPool_leak.cfg` (`KeepsDispatching`): with radio errors. `sync.cc:709` neither starts nor releases the
  worker; after one error per worker the sync thread waits for ever.
- `PhyTx_reselect.cfg` (`OldestTransmits`): `phy_common.cc:838` sets `is_first_tx` and keeps the semaphores; the next
  worker adds a second token, and two workers transmit in either order.
- `SyncState_create.cfg` (`CallReturns`): `force_serving` leaves `state_running` set, so `cell_create`, which
  ends in `run_sfn_sync`, never returns on a master, and keeps `rrc_mutex`.
- `SyncState_resync.cfg` (`ReconfigInIdle`): without GNSS, `force_sfn_sync` takes the thread out of IDLE while a
  call reconfigures it.
- `SyncState_hang.cfg` (`CallReturns`): without GNSS, the same function replaces a requested state and leaves
  its caller waiting for `state_running`.
- `SlHarq_resize.cfg` (`CombinesSameBlock`): when the size setting changes and changes back, a retransmission
  matches a saved grant that belongs to another block.
- `RlcUm_shared.cfg` (`DeliveredIntact`): the receive entity is one per bearer. PDUs of two vehicles meet in one
  window, and segments of one are joined with those of the other.
- `RlcUm_race.cfg` (`ExpiryFindsGap`): the timer has expired and its callback waits for the mutex while the
  missing PDU arrives; the callback then throws away the SDU in progress although nothing is missing.
- `RoadMessages_dies.cfg` (`UiRuns`): the UI thread takes an entry between `pq.put` and the update of the cache;
  the look-up raises KeyError and ends the thread.
- `RoadMessages_clash.cfg` (`MqttRuns`): entries with equal priority and counter make the heap compare two
  dictionaries, a TypeError that nobody catches. `get` increments the counter and then uses it, `put` uses it and
  then increments it, so a faded message and the next one share it; 3 + 2 = 5 does the rest.
- `RoadMessages_stale.cfg` (`CacheTakesNew`): `mqtt_sub_v3.py:36` replaces the message received by the cached one,
  and line 52, "Update the cache with the new message", stores the old message again.

## 5. Properties

Each module has one type invariant. The others relate several actors or earlier and later states.

- `HeldIsQuiet`, `NoLostWakeup`: about the scan of `status[]` under the wrong lock. `find_finished_worker` holds
  `mutex_queue`, `finished()` writes under `mutex[id]` and then signals under `mutex_queue`. The second lock is
  what saves it: a worker that became idle behind the scan has its signal still to come.
- `StartedWorkRuns`, `DispatchesWhileWorkersLeft`: a start before the worker sleeps is remembered by the status
  word; a worker is lost by a radio error and in no other way.
- `InOrderTx`, `OneToken`, `ImplementsFifo`, `TransmitsAll`: order, uniqueness of the right to transmit, refinement
  of `TxFifo` (the mapping is the identity on `pending`), and progress. The first three speak of a chain that was
  not reset (`resets = 0`); progress does not.
- `OnePlace`, `PayloadUnderLock`: conservation of buffers across worker, PDU thread and reset.
- `GrantReturns`, `PduProcessed`, `StopReturns`: progress of both ends of the queue. `mac.cc:758` assigns `have_data`
  outside the mutex of `notify()`, so the flag of a PDU pushed in between is overwritten and the PDU waits for the
  next notification; if there is none it waits for ever. `PduProcessed` names that outcome (`news = "lost"` from some
  moment on) and says that nothing else strands a PDU; without the disjunct TLC finds it violated.
- `ReconfigInIdle`, `OneCallAtATime`, `CallReturns`: the three sentences of the comment above `cell_search`.
- `OverflowRecovers`, `ServingStays`: the overflow block ends its work and leaves a master alone.
- `RetxAfterGap`, `NoneOverdue`, `CombinesSameBlock`, `DuplicatesKnown`: blind HARQ under loss.
- `DeliveredIntact`, `ImplementsLossyFifo`: an SDU is delivered byte for byte, once, in the order of its sender.
  The refinement mapping names each delivered SDU by sender and number.
- `HeldTimed`, `HeldLeaves`: a PDU in the window is covered by the timer or by an expiry on its way, and leaves.
- `HeardStayApart`: the promise of sensing, for a vehicle that heard every resource of the other's reservation within
  its sensing window before it chose, missed no subframe, and had more quiet candidates than it must keep; without any
  of the three the code itself chooses a busy subframe. A vehicle without a packet is silent on its reservation
  (`cc_worker.cc:1218`, `ul_harq.cc:293`), so whoever was silent for a whole sensing window has been forgotten and may be
  chosen over. Within the window silence does no harm: one measured energy keeps the average above 0.
- `SyncKept`: a master hears nothing in its sync subframes, so they are no candidates (`resourceSelection` drops
  what was not monitored). A missed subframe leaves an old energy in the ring, hence `missed[v] = 0`; a choice
  before the window is full rests on no measurement, hence `sensed`.
- `OnTime`, `PeriodsEnd`: a reservation changes only in the call whose subframe equals the end of its period. A
  reservation is not older than its counter says unless that call was missed, and then it still ends, one round
  of subframe numbers later.
- `OnePerDevice`, `QueuedIsCached`: about the cache as the filter of the queue. Both speak of the time before a
  message is five minutes old: from then on `put` removes and stores entries of another message.
- `ShownAtMost`, `WorkedOff`: fading ends, whatever the threads interleave; `requeued` counts what `put` adds. The UI
  thread tests `empty()` and then calls the blocking `get()`; `put` can remove the entry in between, but puts another.

## 6. Proofs

`ThreadPoolProofs` proves, for every number of workers and with or without radio errors, `TypeCorrect`,
`HeldIsQuietHolds` and `NoLostWakeupHolds`. Neither property is inductive. `PoolInv` adds:

- `StopOrder`: no worker's flag falls before the sync thread is joined, so a worker that leaves
  `wait_to_start` early does so only when nobody dispatches any more.
- `Ownership`: a worker between pick-up and hand-back has status WORKING; the held one IDLE or WORKER_READY.
- `ScanCovered`: an idle worker behind the scan index has yet to signal. Its step needs that `FinishSignal`
  cannot run during a scan, which is the lock order of `finished()`.

`PhyTxProofs` proves two layers. The first has no assumption about the chain: `QueueInvariant` and `ChainTypeCorrect`
hold for every number of workers, however often the PHY is reset and even if two workers reach the test of
`is_first_tx` together. A step of the chain is a step of the pool or leaves it alone (`ChainIsPool`), so `PoolInv` is
available. On top, `QueueInv` has:

- `PendingMatches`: a subframe is pending exactly from its dispatch to its transmission, told by the position
  of its worker. With `PoolInv` it follows that a worker that is dispatched is not pending already.
- `NoneTwice`: no worker is pending twice. As the dispatched worker is not among the pending ones there are fewer than
  `NofWorkers` of them (`RoomForHeld`, an injection between finite sets).

`InOrderTxHolds`, `OneTokenHolds` and `ChainImplementsFifo`, the second layer, are proved for every ring size under
`ChainAssumed`: the first subframes are separated (the timing argument of `worker_end`) and the chain is not
reset while in use. The second assumption is needed: `PhyTx_reselect.cfg` shows the order broken without it.
`ChainInv` adds:

- `RingOrder`: pending workers have consecutive ring positions, counted back from `tx_worker_cnt`. There are fewer than
  `NofWorkers`, so positions do not coincide (`RingBackInjective`).
- `TokenPlace`: the token does not exist yet, or waits at the position of the oldest pending worker (the next
  position to be given out if there is none), or the oldest pending worker has it.

So a worker that passes its semaphore is the oldest (`OldestAtToken`), and what a transmission retires is the
head of the queue (`TransmitsHead`). TLC has checked `ChainInv` with three workers.

`SyncStateProofs` proves `TypeCorrect` without assumptions, and `ReconfigInIdleHolds` and `OneCallAtATimeHolds`
for any set of callers and any number of calls, if the clock comes from GNSS and `cell_create` is not among
the calls. The invariant is `SyncInv`: `SlaveGnss` (the overflow block is never entered), `Exclusion`
(whoever is past the lock is alone), and `Phase`, which says for each position of a caller what it knows of
the state machine: at rest before it asks, requested or granted while it waits, left once `state_running`
fell. The lemmas follow these parts. The assumptions are those of the modules' ASSUME statements, which TLC
evaluates in the runs.

`ServingStaysHolds`, the action property of a master, is proved under `Undisturbed`: one calling thread, or a radio
that reports no overflow. It does not need the GNSS clock or the absence of `cell_create`. One of the two is needed:
with several callers the main loop can find `rrc_mutex` taken and enter the block that handles a pending overflow.
The invariant is `MasterInv`. While the SFN search of a master is ahead or under way, some caller waits for it and
holds `outside` (`SyncSteered`, with `HoldsOutside`); once SERVING is requested or reached that caller keeps it, because
SERVING never reports its end and the wait has no other exit (`ServingSteered`; that the call then hangs is the finding
of `SyncState_hang.cfg`); an overflow is not answered by a return from CAMPING, where a master never is
(`NoOverflowReturn`); and SFN search is requested only after `cell_create` made the UE a master (`CreateFirst`). TLC has
checked it with one caller and overflows, and with three callers without.

`MacRxProofs` proves, for every number of workers, processes and buffers, `TypeCorrect`,
`PayloadUnderLockHolds` and `OnePlaceHolds`. Its invariant says where a buffer is: the mutex of a process is held
by the worker whose grant selected it and by nobody else (`LockFollowsGrant`); a process has a buffer only while
that worker decodes (`BufferWhileDecoding`); no two places hold the same buffer (`Apart`) and every buffer is in
one (`Somewhere`). The lock is what makes `Apart` inductive: without it two workers would write one `payload`.

`SlHarqProofs` proves `TypeCorrect` without assumptions, and `RetxAfterGapHolds` and `NoneOverdueHolds` for any
number of senders under two assumptions. `OneSize`: the size setting does not change, for a change makes the
sender start a new block in place of the second transmission. `NoWrap`: the run stays within the pool, and the
pool is shorter than 10240 minus the gap, so that the modulus of `ul_harq.cc` never acts; `SlHarq_wrap.cfg` shows the
gap broken otherwise. The invariant is `Scheduled`: for each process that owes a second transmission, the subframe
it is due in is the one that `NewTxPid` will lead back to, and is not past.

`CombinesSameBlockHolds` and `DuplicatesKnownHolds` hold under the same two assumptions, for any senders and any loss.
Their invariant, `BlockInv`, follows a block through both entities. A saved grant tells the subframe of the first
transmission, which with `NoWrap` is unique, so what the receiver saved can be compared with what was
sent. A block is `Remembered` if whatever the receiver saved in its subframe is its redundancy, marked decoded
exactly if the block was delivered. `OwedKnown` says it of every block whose second transmission is owed,
`OnAirKnown` of the one on the air, and `Past` that what was saved or delivered is not from the future, so that a new
block cannot be mistaken for an old one. TLC has checked it with two senders.

`RoadMessagesProofs` proves `OnePerDeviceHolds`, `QueuedIsCachedHolds` and `ShownAtMostHolds` for any messages, in
any number. For the first two the invariant holds while no message is old: `Cached` says that what is queued, or in
the hands of the UI thread, is in the cache or about to be, and that what the MQTT thread is about to queue is not;
`Single` follows from it at `pq.put`.
It holds because, in that time, nothing leaves the cache and nothing is removed from the middle of the queue.
What `list.remove` and `get` do to positions is `RemovedOne`, from the least-element principle.
`ShownAtMostHolds` needs no such condition: old messages, removals from the middle of the list and threads that have
ended are covered. Its invariant `ShowInv` keeps an account per message, `Claims`: what was shown, what may still
fade, its entries in the queue (a cardinality, `Copies`) and those in the hands of the two threads never add up to
more than `repeat + 1`, plus the times `put` queued it again. `CopiesEnd` and `CopiesRemoved` say what `pq.put`,
`get` and `list.remove` do to the cardinality, the latter through an injection of the remaining positions.

`SensingSpsProofs` proves, for any number of vehicles, any masters, lost subframes and parameters that satisfy
`SpsAssumption`, `TypeCorrect` and `OnTimeHolds`. The invariant is `Aged`: the current period of a reservation began
whole periods after the reservation, at `start`, and the subframe being prepared lies within it, or is the first
after it while the vehicle's call is still due. The lemmas compare numbers that are not reduced (`Began`) with
subframe numbers (`Same`), which works because a reservation lasts less than one round of 10240
(`Period * (c + 1) < Cycle`). `Called` is needed for masters: `schedule` is not called in synchronisation subframes,
and a period does not end in one because `SyncPeriod` divides `Period` and `Cycle` (`NoSyncAtEnd`). With a period
that 5 does not divide a reservation would outlive its counter.

`SyncKeptHolds` is proved for any number of vehicles under `Windows`: the delay and the selection window together are
no longer than a period, and a period no longer than the sensing window; the code has 4 + 46, 100 and 1000. The
invariant is `SyncInv`, for a master that missed no subframe: in the ring the places of its synchronisation subframes
within the sensing window hold no measurement (`UnheardSync`), those of the next subframes are already flagged as
transmitted (`FlaggedSync`), so a candidate that falls on one is not monitored, and a reservation, which moves by
whole periods, keeps off them (`Avoids`, again because `SyncPeriod` divides `Period`).

`HeardStayApartHolds` is proved for any number of vehicles, masters and lost subframes under `Spans`, three facts
about the parameters, each with what it is needed for:

- `TxDelay + SelWindow <= Period` (4 + 46 and 100): a reservation has each of its resources once in a period.
- `SenseWindow < Scale * Period` (1000 and 1200): a candidate is compared with at most `Scale` measurements, so that
  the rounded average `Level` is 0 only when nothing was measured but silence.
- `Period + SenseWindow < Period * Period` (1100 and 10000): the announced period, multiplied by `PStep` twice, never
  hits the selection window (`NothingAnnounced`). The theorem shows that sensing keeps its promise by measured energy
  alone, although the exclusion by announcement does nothing.

Subframe numbers wrap and a reservation moves, so nothing can be said about numbers directly. The proof counts
subframes back from the one to come (`Before`), measures the age of a reservation in the same way (`Age`) and calls a
subframe one of the reservation's when the difference is a whole number of periods (`FallsOn`, `Whole`). The property
speaks of subframes to come, and what is needed to keep it lies a sensing window in the past, so the inductive
invariant `HeedInv` joins the two, for vehicles that lost no subframe:

- `Careful`: of the subframes prepared, a vehicle sends in none but those of its reservation and its synchronisation
  subframes (`Announces`). It need not send in all of them.
- `Remembered`: each resource v has heard of u's reservation falls on the subframe it was heard in, and the ring of v
  still holds the energy measured there (`Trace`), for as long as a selection looks back that far. What v measured
  in other subframes of the resource, silence among it, does not matter: the energies are averaged.
- `Disjoint`: two vehicles of which one chose when it had heard all of the other's reservation have no
  resource in common modulo a period. It is stronger than the property, which says so of the subframes already
  prepared.

A candidate that falls on a remembered resource is therefore not monitored, or its level is above 0 (`LevelMeans`);
a vehicle that has more silent candidates than it must keep takes one of level 0 (`ChosenQuiet`), so the reservation
it chooses clashes with none it remembers. `NextHeeds`, `ProcessHeeds` and `IdleHeeds` show the invariant kept.

`RlcUmProofs` proves `TypeCorrect` and `HeldTimedHolds` for any senders, any even modulus, and any loss, repetition and
reordering, with no other assumption than the module's. The loops of `rlc_um.cc` are folds. That a function
folding over a sequence exists is `FoldExists`, by the least-element principle for the values of an ordinary function
(the induction theorems of the library take operators and cannot be used); `FoldValue` says that an invariant that
each turn keeps holds of the result. Every loop has a lemma of that form. The segments of one PDU change neither
`ur` nor `uh` nor the window (`Beside`). The first loop of `reassemble_rx_sdus` stops with `ur` at most a window
before `uh` (`CatchUpRounds`: each turn brings them one closer, and the PDU just received, at `uh - 1`, keeps the
window from running empty), the second with `ur` on a number that is not held (`InOrderRounds`). Together they give
`Settled`, which holds between two calls: every PDU kept lies after `ur` and before `uh`. A PDU that is kept therefore
means an open gap (`KeptBeyondGap`), and both `handle_data_pdu` and `timer_expired` end by starting the timer for one.
`Settled` allows `ur` beyond `uh`: when the callback of an expired timer comes so late that half the numbers have
passed, `timer_expired` runs past `uh`; it discards nothing that is held, and the window recovers with the next PDU
that is not old. The proof also shows that no PDU without a segment is sent (`FillBuilds`), on which the receiver relies.

`DeliveredIntactHolds` and `LossyFifoImplemented` prove what the bearer promises: every SDU handed to PDCP is one that
was handed over, byte for byte, and SDUs arrive in order and once, so that the bearer implements `LossyFifo`. They hold
for any even modulus, any sizes of SDUs and grants and any number of SDUs, under three assumptions:

- One sender. With two, `RlcUm_shared.cfg` shows `DeliveredIntact` violated.
- `Skew` and `MaxOutage`, the assumptions about the radio, are at most `Window`: half the numbers, 512 PDUs in the
  code. Beyond that no receiver can tell a late PDU from an early one.
- `Prompt`: while an expiry is on its way (`expiring`), the number in VR(UX) has not fallen below the window, that is,
  VR(UH) moves by at most `Window` between the start of t-Reordering and the moment `timer_expired` gets the mutex.
  The code does not enforce this, but nothing short of a stall breaks it: the mutex is held for one PDU at a time,
  t-Reordering is 15 ms (`rrc.cc:3324`), and 512 PDUs are half a second of a sidelink that sends one in every
  subframe. Without `Prompt` the theorem is false: with `Mod` 4, `Skew` and `MaxOutage` 2 and six SDUs TLC finds
  `VR(UR)` passing `VR(UH)`, later PDUs dropped as old, and the start of an SDU joined with a PDU whose number is a
  whole `Mod` later. The run `rlc` does not assume `Prompt` and reaches states where it is false, without a violation
  within its bounds.

Sequence numbers say little about a PDU once they wrap, so the invariant `BearerInv` is about a history (`Story`): the
SDUs accepted and, for every PDU sent so far, its *cut*, the place in the bytes of those SDUs where it ended. A cut may
lie inside an SDU only when the PDU was full (`Drafted`, `FillDrafted`), so consecutive PDUs continue each other. Every
PDU in the air or in the window is some PDU number I of the history and `Fits` it: its segments are the bytes between
two cuts. The receiver is described by three conjuncts. `Tracked` says which PDUs of the history its numbers stand for,
unwrapped: with the second and third assumption a number modulo `Mod` has one meaning at a time. `Waiting` says that a
partial SDU under reassembly is the start of an SDU up to the cut of the last PDU taken, with none of its successors
passed over. `Told` says that what was handed up are whole SDUs in the order of the history. Every turn of the two
loops of `reassemble_rx_sdus` and every segment of a PDU keeps the three; the loop that catches up with the window
discards the partial SDU when it passes a gap, and the proof shows that this is exactly what `Waiting` needs. `Linked`
joins the sender's half and the receiver's, `BearerStep` has one step per action, and `FifoStep` maps every step to
`Accept`, `Deliver` or a stutter of `LossyFifo`.

Only model-checked:

- Liveness (`TransmitsAll`, `WorkedOff`, `HeldLeaves` and the others): the prover has no rule for fairness.
- What becomes of the tokens when the chain is reset (`TransmitsAll`): there is no order to prove.

## 7. Not modelled

Signal processing, ASN.1 and security (numerical or generated; most of the repository's lines); random access,
scheduling requests, RRC connection control, NAS, USIM and BCCH/MCH reception (unused in mode 4); the MAC
multiplexer, which on one bearer is a single call of `build_data_pdu` (`hasPdu` in `SlHarq`, `Grants` in `RlcUm`);
radio and socket I/O (their failures are inputs); metrics and plotting; the Python programs other than the
subscriber, which are sequential loops around a library.

Within the modelled parts:

- `work_imp` before a cell is configured returns without passing the transmit chain; the models start with a
  configured cell. Unlocking a mutex that is not locked (second transport block of
  `dl_harq_process::tb_decoded`) is left out.
- `SensingSps`: that a second transmission is sent only if the first one was (`ul_harq.cc:267`): a silent vehicle is
  silent in each subframe on its own, which is more than the code does. Of the values an unwritten
  `CandidateResources` may show (`ue_sl_sensing_sps.h:159`) those that are no list of candidates of the window, and the
  division by its size. Calls of `schedule` and `addSCI` by several carrier workers at once (the file has no lock and says
  so); `addSCI` itself, whose exclusions take no effect because the announced period is multiplied by `PStep` a
  second time; entries of the ring that are older than one round of it, except those a missed subframe leaves;
  the do/while loop of the selection, which does not end when fewer than 0.2 of the candidates were monitored.
- `RlcUm`: `stop`, `reestablish`, `empty_queue` and the buffer state, since the sidelink bearer is configured once.
- `RoadMessages`: composition and display of images.

## 8. What is left

Every invariant and every action property that a run checks is stated by a theorem; the liveness properties are out
of the prover's reach.

To model: a composition of `SlHarq` with `RlcUm`, in which a lost block is the lost PDU; concurrent carrier workers
in `SensingSps`. The components of section 7 that are listed as unused, sequential or numerical would not gain from a
model of this kind.
