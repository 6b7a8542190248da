# A verification project for the BES2000 / BES2200 earbud firmware

TLA+ modules, TLC configurations and TLAPS proofs for the firmware of a pair of
Bluetooth earbuds (C and C++, BES2000 and BES2200 chips, RTX real-time kernel).
Paths below are paths of the repository under `src/`.  Where a choice of build
matters, the reference build is `config/JBL-C330-L/target.mk` (a left earbud of
a true-wireless pair); where other targets differ and the difference matters, it
is a CONSTANT of the module.  `ProfileManager` follows `config/JBL-C330-R/target.mk`,
the bud that talks to the phone.

The modules are translated from the code; its comments are quoted where they say
what a property is about.

Contents: 1 inventory - 2 threads - 3 properties that make each part correct -
4 plan - 5 modules - 6 runs - 7 theorems - 8 bounds - 9 fairness - 10 what
differs from the code's comments - 11 what is not modelled - 12 how to run.

## 1. Inventory

| component | sources | state it keeps | operations | what is hard |
|---|---|---|---|---|
| software timers | `utils/hwtimer_list`, `platform/hal/hal_timer.c` | timers in a free, an active and a fired list, with time deltas; one one-shot counter | alloc, free, start, stop, interrupt handler, callbacks | the handler gives its lock up around callbacks; calls race the expiry |
| paired-device records | `services/nvrecord` (`nvrecord.c`, `nvrec_config.c`) | a list of at most ten devices in a RAM pool, two copies in flash, flags that ask for a save | open, add, delete, set a volume, flush, back up, reset | power loss inside a write; flushes that preempt a change |
| env record | `services/nvrecord/nvrecord_env.c` | roles and test status in the same pool | init, get, set | stale pointers after a reset |
| record allocator | `services/nvrecord/nvrec_mempool.c` | headers in the pool: a chain by address, a list of the free ones | malloc, free, merge | three linked structures change at once, exhaustion |
| app thread | `apps/common/app_thread.c` | a mailbox of 20 blocks, one handler per module | put, get, free, dispatch, priority | a full mailbox asserts; handlers post to their own mailbox |
| media manager | `services/bt_app/app_bt_media_manager.cpp` | which streams are wanted, which plays | start, stop, switch to voice, stop media | voice, music and prompts interrupt each other, requests are answered later |
| prompt queue and merge | `services/bt_app/app_media_player.cpp`, `app_ring_merge.cpp`, `apps/audioplayers/app_audio.cpp` | a list of prompts, a ring mixed into a stream | append, pick, play next, clear | prompts end while others are requested |
| stream players | `services/bt_app/app_bt_stream.cpp`, `apps/audioplayers/*.cpp` | open streams, ring buffers | open, setup, close, volume | the buffers are filled and drained by two threads |
| byte queues | `utils/cqueue`, `utils/lockcqueue` | a ring of bytes: base, read, write, length | enqueue, enqueue in front, dequeue, peek | wrap-around; callers supply the locking |
| audioflinger | `services/audioflinger/audioflinger.c` | two DMA halves per stream | open, start, stop, close, DMA interrupt, thread | the interrupt signals a thread that must keep up |
| Bluetooth application | `services/bt_app/app_bt.cpp`, `app_a2dp.cpp`, `app_hfp.cpp`, `app_spp.cpp`, `app_bt_func.cpp` | connections, profiles, one reconnection mode, count and timer per phone | opening reconnection, events of two profiles, timer | attempts race incoming connections; the timer's function runs in another thread than the events |
| true-wireless pair | `services/bt_app/app_tws_*.cpp` | role, link to the other bud, forwarded audio | connect, role, stream, commands | two devices with one protocol, drift, lost packets |
| battery | `apps/battery/app_battery.cpp` | state of charge, charger, counters | measure, plug, timers | samples and plug interrupts race |
| keys | `platform/hal/hal_key.c`, `apps/key/app_key.cpp` | debounce and click counters, a table of handlers | interrupts, timer, dispatch | clicks, long presses and bounces |
| power up and down | `apps/main/apps.cpp`, `apps/common/app_utils.c` | power-on case, ten-second timers, frequency requests | boot, timers, reset, power off | everything must be saved before the power is cut |
| link to the BT core | `platform/hal/hal_intersys.c`, `utils/intersyshci` | two channels of shared memory: send records in two lists, the message being received, the parser's place, a wake lock | open, close, send, transmit and receive interrupts, poll | the other core reads the lists while they grow; a thread waits for ever for an interrupt |
| other drivers | `platform/hal`, `platform/drivers` | registers, locks | I2C, SPI, DMA, UART, USB, flash, codec | interrupts |
| boot and programmer | `tests/programmer`, `tests/dual_boot` | a protocol over UART | erase, burn, verify | lost messages |
| noise cancelling, LEDs, USB audio, factory tests, EQ | `apps/anc`, `apps/pwl`, `apps/usbaudio`, `apps/factory`, `services/audio_eq` | small | | |
| third-party and data | `rtos`, `platform/cmsis`, `services/bt_profiles`, `services/tws`, `services/multimedia`, `services/fs`, `utils/jansson`, `utils/libc`, `config/*/res`, `apps/apptester` | | | not the firmware's own logic |

How the parts interact:

- **Calls under a lock.**  `hwtimer_*`, the byte queues and the record pool are
  called directly.  `hwtimer_list` masks interrupts; the record pool is guarded
  by the Bluetooth stack's lock (`OS_LockStack`), which the writers of the flash
  do not take; a byte queue is guarded by whatever its user chose.
- **Messages.**  Keys, battery, media and Bluetooth events reach their handlers
  through the one mailbox of the app thread.  A media request is a message whose
  handler posts further messages (open or close a player) to the same mailbox, so
  a decision and its execution are separated by everything that was queued
  between them.
- **Interrupts and callbacks.**  The timer interrupt runs the callbacks of the
  software timers; the DMA interrupt signals the audioflinger thread, which calls
  the player's `more data' callbacks; a callback can ask for its own player to be
  closed only by posting.
- **Sleep.**  RTX's idle task starts and stops a software timer around the sleep
  and calls `hal_sleep_lowpower_hook`, which is where most records are saved.
- **Power.**  `app_deinit` saves the records, `app_reset` and the charger's code
  rewrite or clear both copies, and the power can be lost at any instruction.

## 2. Threads

RTX is preemptive with priorities and round robin among equals.  The app thread
(`app_thread.c`) and the TWS control thread have priority High, the Bluetooth
stack's thread and the audioflinger thread AboveNormal, `main` Normal.  The idle
task runs when no other thread is ready.  Software-timer callbacks run in
interrupt context, RTX timer callbacks in a kernel thread, to which an expiry that
has happened is delivered even if the timer is stopped meanwhile.  The Bluetooth
core is a second processor: it reads and writes the shared memory at its own pace.

For the modules this means: a record is changed by the Bluetooth thread, and the
app thread can run between any two of its instructions, but not the other way
round; the save in the idle task sees no change under way; a call of the timer
API can come from an interrupt that preempts the timer's own handler while a
callback runs.

## 3. What makes each part correct

- *software timers*: a timer is in exactly one list, the one its state names; the
  asserts of the handler hold whatever call slips in between the interrupt and
  the handler; the counter always belongs to the head of the active list; no
  expiry is lost; a timer runs early by no more than the margin of the counter, and
  is not forgotten; stopping an active timer succeeds.
- *records*: no device twice, no more than the capacity; a change that is not
  marked as unsaved is in the flash; a copy that can be loaded is a state the
  records were really in; a loss of power at any point of a write leaves a
  loadable copy; the order of the records is the order of pairing; pairing again
  keeps the settings.
- *record allocator*: nobody is given memory that another holds; every free block
  is in the free list, once; freed neighbours become one block again.
- *byte queues*: a bounded FIFO, whatever the lengths and the wrap-around.
- *app thread*: messages are handled in the order they were posted, a block goes
  back to the pool exactly once, the mailbox does not fill up.
- *media manager and players*: once all messages are handled, what plays is what
  has the highest priority among what was asked for; asserts on what plays hold;
  no player stays open that nobody wants.
- *audioflinger*: the half that is filled is not the one the DMA reads; stop
  returns, and no callback comes after it.
- *battery*, *keys*: every charger event is reported once; a press yields one
  event of the right length and click count, and the machine returns to idle.
- *link to the BT core*: a message that is sent is read once, in order, as it was
  sent, and its record is free again only then; the system stays awake exactly while
  something is being sent; packets arrive whole however they were cut; a thread
  that waits for the core goes on.
- *Bluetooth application*: what the user is told about the connection is true; a
  reconnection always has an attempt or a timer under way; retries end when the
  phone is gone.

## 4. Plan

In the order in which the modules are or will be written; the first group is the
core on which the rest rests.

| step | modules | composes | abstract specification | theorems |
|---|---|---|---|---|
| 1, done | `Lists`, `HwTimerList`, `HwTimerClock` | the API, the handler and the counter | -- (`HwTimerClock` states the times) | lists, counter and deltas agree; handler's asserts; never early, none forgotten |
| 2, done | `NvRecord` | Bluetooth thread, app thread, idle task, power | -- | records sound; what is clean is saved; backups copy the first section; order and settings kept |
| 3, done | `CQueue`, `ByteFifo` | the PCM buffer on the queue | `ByteFifo` | the ring implements the FIFO |
| 4, done | `MediaManager` | manager, prompt list and players through the app thread's mailbox | -- | manager consistent; asserts hold; what is chosen plays; calls settle and are heard; prompts end |
| 5 | `AppMailbox` | posting threads and the app thread | a FIFO of messages | no block is used twice |
| 6, done | `MemPool` | the allocator of the pool of `NvRecord` | `Heap`: parts nobody shares | chain and free list sound; free neighbours merged; the pool implements `Heap` |
| 7 | `Battery`, `Keys` | timers, interrupts and the app thread | press and click events | events follow presses |
| 8 | `Audioflinger` | DMA interrupt, thread, stop | a stream of halves | the filled half is not the one read |
| 9, in part | `ProfileManager` (done), `TwsLink` | the stack's events, the timer and its thread | -- | statuses true; no reconnection stalls |
| 10, done | `IntersysSend`; `H4`, `IntersysHci` | the channels and the core; the channel, the parser, the stack's thread and the interrupts | `MessageChannel` | the channels implement it; the parser stays in step; packets arrive |

Theorem still worth proving: the safety of the mailbox, once it is modelled.

## 5. Modules

**`Lists`** -- operators on linked lists seen as sequences without repetition:
`InList`, `Distinct`, `Position`, `Without`, `InsertAfter`.  **`ListLemmas`**
proves what they return.

**`HwTimerList`** -- `utils/hwtimer_list/hwtimer_list.c` over
`platform/hal/hal_timer.c`.  `state`, `time`, `free`, `active` and `fired` are the
fields of the timers and the three lists; `value`, `enabled` and `pending` are the
counter's registers and the interrupt; `elapsed` is what
`hal_timer_get_overrun_time` and `hal_timer_get_elapsed_time` are computed from.
Every API function is one action, because it runs with interrupts masked, except
for `hwtimer_alloc`, whose last assignments come after the unlock (`AllocInit`).
The handler is several actions (`IrqEnter`, `HandlerSpurious`, `HandlerExpire`,
`HandlerCallbackDone`), because it gives the lock up around each callback; any API
call can come between them.  A walk along the list that stops at the first timer
due later is written as the choice of the number `k` of timers it passes, with the
conditions that make `k` unique.  The store through `next->next` of the last
timer is undefined behaviour: in the model it is lost or faults (`halted`).

**`HwTimerClock`** adds history variables to `HwTimerList`: when each timer is due.

**`NvRecord`** -- `services/nvrecord/nvrecord.c`, with the callers that decide when
the flash is written (`app_audio.cpp`, `hal_sleep.c`, `apps.cpp`).  `ddb` is the
heap of the RAM pool, reduced to the list of devices and their settings; `crc` and
`crc_buildinfo` are the pool's header; `main` and `bak` are the two flash sections,
each with the stored checksum, the data, the build it names and whether it was
torn by a loss of power.  A checksum stands for the one heap it was computed over.
`nv_record_ddbrec_add` is two actions (`AddBegin`, `AddEnd`), and so is setting a
volume (`WriteSetting`, `nv_record_touch_cause_flush`), since the app thread can
run in between; a flush is one action, with a loss of power inside it as another.
`nv_record_open` is four actions, one per outcome of the checks of the copies.
`MCNvRecord` has the symmetry of the devices.

**`CQueue`** -- `utils/cqueue/cqueue.c` and the PCM buffer of
`apps/audioplayers/app_audio.cpp`.  `base`, `read`, `write` and `len` are the fields
of the structure; `block` is the buffer the caller passed in the last call, by which
the abstract queue sees what was written and what was read.  `PeekCQueue` yields
the two pieces, which `app_audio_pcmbuff_get` copies and drops.  The loop of
`EnCQueueFront` is a recursive function (`Walk`).  **`ByteFifo`** is the
abstract specification: a sequence of at most `Size` items.

**`MediaManager`** -- `services/bt_app/app_bt_media_manager.cpp`, the list of
`apps/audioplayers/app_audio.cpp` and the players of `app_bt_stream.cpp` and
`app_media_player.cpp`, in the reference build (`__TWS__`,
`__TWS_CALL_DUAL_CHANNEL__`, one phone).  `media_active`, `curr_active_media` and
`media_curr_sbc` are fields of `bt_meida`; `audio_list` and `gStreamplayer` are what
the list and the players keep; `mailbox` is what waits for the app thread.  Each
branch of `bt_media_start`, `bt_media_stop`, `app_media_stop_media` and of the two
handlers in `app_audio.cpp` is one action, which takes the message at the head of
the mailbox; what it posts goes to `out` and from there to the mailbox message by
message (`Posts`), so that other threads' posts can come between them.  The other
threads are actions that post: the call's link and its 650 ms delay
(`ScoConnected`, `ScoStart`, `ScoDisconnected`), the end of the hands-free profile,
which posts one more stop of the call (`ServiceDisconnected`), the watchdog that
restarts a call without samples (`bt_sco_check_pcm`), call events, prompts, and the
end of a prompt.
Music is asked for by the true-wireless library, which is binary: `MusicRequest` is
any start or stop.  A stream and its player have one name.  The callbacks of a
restart (`Answer`) look at the link when they run, not when they were posted.  The
codecs, the samples and the second phone are left out.

**`ProfileManager`** -- the profile connect manager of `services/bt_app/app_bt.cpp`
for one phone.  `reconnect_mode`, `hfp_connect`, `a2dp_connect`, `has_connected`,
`reconnect_cnt` and `connect_timer_cb` are fields of `app_bt_profile_manager`,
`hfp_act` and `a2dp_act` those of the phone's record.  An event of a profile is one
action (`HfConnected`, `HfDisconnected`, `A2dpOpen`, `A2dpClosed`), because the
stack's thread handles it under its lock; the timer's function is several
(`TimerHandler`, `TimerConnect`, `TimerRetry`, `TimerClear`), because it runs in the
kernel's timer thread and tests `connect_timer_cb` before it calls it and clears it
after.  `expired` is an expiry on its way to that thread.  The profile library is
external: an attempt is answered once, on a profile that is open or opening it is
refused without an event, and a phone that comes near may connect by itself.
`asked` tells the first request for the reconnection at power up from those that the
true-wireless code makes later.  `stall` is a history variable: how the last of these
reconnections can have come to wait for nothing.  It is `"refused"` when its attempt
was on an open profile, and `"wiped"` when the timer thread, at line 1353, cleared a
call of the retry that was set after the one it had just made.

**`IntersysSend`** -- the sending side of `platform/hal/hal_intersys.c`.  `in_use` and
`data` are the send records, `send_msg_list` and `send_pending_list` the two lists as
sequences of records, `chan_busy` and `busy_now` what decides on the wake lock, `ind`
and `done` the two interrupts of a channel.  `hal_intersys_send` is one action (its
body is under `int_lock`) and so is the interrupt for one channel.  The core is
external and reads one message at a time (`CoreRead`), so a send can come between
any two.  **`MessageChannel`** is the abstract specification: what was sent and not
read, and what was read and not given back.  A channel is one, under the mapping
that reads off the two lists.

**`H4`** -- the parser `hci_h4_receive_msg` as an operator from its state (`h4_pcb`),
a message and which of its packets find an SCO buffer, to the state after the message
and the packets that ended in it.  Its loop is a recursive function of the number of bytes
(`Rounds`), whose step is one round of the loop (`Round`, `OneByte`).  And `Place`, the reference definition of where a parser
should be after so many bytes.

**`IntersysHci`** -- `utils/intersyshci/intersyshci.cpp` and the main loop of
`besmain.cpp` on channel 0 of `IntersysSend`, with `H4`, in the default build without a
receiving thread (`INTERSYS_NO_THREAD`, `config/common.mk:351`).  `thread` is where
BesbtThread is: it waits for `evm_queue`, runs the stack, sends
(`SendData`: the signal is cleared, then the message handed over, then it waits for
the signal), and polls (`Poll`, `PollEnds`: the message is parsed, cleared, and then
the core is told).  The interrupts `SignalIrq` and `RxIrq` come between any two of
these steps.  The core puts packets into its stream (`CoreSends`) and shows any
piece of the stream as a message (`CoreShows`) when the last one was taken.
`PacketsAssumption` says what a packet of the core is: a type byte other than a
command's, the header of that type, and as many bytes of data as the header says.
`MCIntersysHci` has the packets.

**`MemPool`** -- `services/nvrecord/nvrec_mempool.c`.  `mem` maps the offset of every
header in the pool to its fields; a header that is merged away leaves the domain.
`Malloc` and `Free` are one action each (`pool_malloc` and `pool_free` mask
interrupts), built from the moves of the free list (`Unlink`, `Replace`, `Prepend`)
and of the chain (`Split`, `Merge`).  **`Heap`** is the abstract specification: parts
of the pool that are out and do not overlap.

Operators whose names end in `Fault` are changes of an action or an operator that
a mistake in the code could bring about (a missing reset, an off-by-one, a wrong
order); each is stated next to what it would change and no specification uses it.
They document which mistakes the properties can tell apart from the code.

## 6. Runs

| run | module, configuration | what it shows |
|---|---|---|
| `hwtimer_lists` | `HwTimerList`, `HwTimerList.cfg` | In every interleaving of the calls, the handler and its callbacks: each timer is in the list its state names, once (`ListsAgree`); the counter runs exactly while a timer is active (`RunsIffActive`) and agrees with the head's delta as the asserts demand (`CounterAgrees`); a counter that ran out always has its interrupt pending or being handled (`WakeUpComing`); a started timer fires or is stopped, whatever the others do (`StartedTimerFires`). |
| `hwtimer_clock` | `HwTimerClock`, `HwTimerClock.cfg` | A timer is early by at most one tick per setting of the counter (`NeverEarly`), and the handler leaves none behind that was due (`NoneForgotten`). |
| `hwtimer_stop` | `HwTimerList`, `HwTimerListStop.cfg` | Violated: stopping the last of several active timers stores through NULL (section 10). |
| `nvrecord` | `MCNvRecord`, `NvRecord.cfg` | Lists sound in RAM and in loadable copies (`RecordsSound`), unmarked means saved (`CleanMeansSaved`), the first copy valid while running (`RunningMeansSaved`), order of pairing kept (`RecencyKept`), a loadable backup copies the first section (`BackupCopiesMain`), with losses of power at every point and firmware downloads. |
| `nvrecord_settings` | `MCNvRecord`, `NvRecordSettings.cfg` | In a build with `_QUICK_PWR_ON_`: settings survive pairing again, and only the oldest record is evicted (`OthersKept`); a device that is added reaches the flash, unless it is removed or the power is lost (`AddedIsSaved`). |
| `cqueue` | `MCCQueue`, `CQueue.cfg` | Every sequence of writes, reads, peeks, discards and writes in front is one of a FIFO (`IsFifo`), and the three fields stay in step (`WriteBehindRead`). |
| `media` | `MediaManager`, `MediaManager.cfg` | Whatever music, prompts, calls, call events and restarts come in whatever order: the manager's state is one its branches expect (`CurrentFits`), no assert fails (`AssertsHold`), a call or music that the manager chose plays once the players' messages are handled (`ChoicePlays`), and no player stays open for a call that is over (`CallSettles`). |
| `media_calls` | `MediaManager`, `MediaManagerCalls.cfg` | Without the restart, and with a list that is never flushed: a call that goes on is heard when all is handled (`CallHeard`), and again after the last of the prompts that cut it off (`CallHeardAgain`); a prompt that keeps a call or music away is listed, about to be, or its end is about to be told (`PromptWillEnd`), also if it has no data or is refused. |
| `profiles` | `ProfileManager`, `ProfileManager.cfg` | In every order of answers, losses of the link, expiries, steps of the timer thread and repeated requests: what the user is told is true (`ConnectedTrue`); the reconnection at power up has an attempt or a timer that will call the retry, at the first request whatever happens, at a later one unless it was refused or its call wiped (`OpeningAlive`, section 10); a lost phone without hands-free has an attempt or a timer that is not refused (`RetryComing`); the bud gives up on a phone that is gone (`GivesUp`). |
| `intersys` | `IntersysSend`, `IntersysSend.cfg` | Two channels under one wake lock: each is a `MessageChannel` (`ChannelsKept`); a record is in use exactly while it is in a list of its channel, once (`RecordsAccounted`); the lock is held exactly while something is being sent (`AwakeWhileSending`); a record that is taken is given back (`GivenBack`). |
| `hci` | `MCIntersysHci`, `IntersysHci.cfg` | Packets of every kind cut into messages in every way, an SCO packet with or without a buffer: no byte is lost or read twice and the parser is where the packets put it (`InStep`); each packet reaches the stack whole and in order, or is an SCO packet that found no buffer (`InOrder`); the thread that waits for the core goes on (`SendEnds`), and the core is told that its message was read (`CoreTold`), though the notification was dropped at a full queue or the thread was sending. |
| `mempool` | `MemPool`, `MemPool.cfg` | Every order of taking and giving back, until the pool is full: the chain covers the pool without a gap (`ChainSound`), every block is held by one user or in the free list, once (`PoolAccounted`), free neighbours are merged (`AllMerged`), and nobody gets what another holds (`IsHeap`). |

The type invariants, `FiredServed` and `StreamsFirst` are not among the properties of the
runs where a theorem states them.

## 7. Theorems

All proofs are checked for every value of the constants that satisfies the named
assumptions (`HwTimerAssumption`, `NvRecordAssumption`, `SizeAssumption`, `CallsAssumption`,
`MediaAssumption`, `LimitAssumption`, `SendAssumption`, `PacketsAssumption`, `IdsAssumption`,
`PoolAssumption`).

**`HwTimerProofs`.**  For any number of timers, any intervals and any lateness of the
handler.
- `ListsAlwaysAgree`, `HandlerAssertsHold`.  `ListsAgree` is not inductive alone: the
  handler replaces the fired list, so the list it replaces must be known to be empty,
  which needs that timers are fired only while the handler is at its callbacks
  (`FiredServed`), and the handler takes the head of the active list, which must not
  be empty: the interrupt is entered only when the counter runs, and the counter runs
  only while a timer is active (`RunsIffActive`).  `IInv` is their conjunction with
  the types of the lists, `ListsTypeOK`; the deltas and the counter are not needed.
  One lemma per action.
- `TypeCorrect`, `CounterAlwaysAgrees`, `WakeUpNeverForgotten`, by the invariant
  `CInv`, which adds the deltas and the counter to `IInv`.  That no delta becomes
  negative rests on the asserts about the counter (`HeadCounted`): it is never ahead
  of the head, and if it ran out it did so at the head's time.  Those in turn need
  that, while it runs, what it has left and what has elapsed make up what the head's
  delta was loaded as, which is the third conjunct of `HeadCounted`.  A walk of the
  handler or of a start subtracts the deltas that it passes; what is left is computed
  by `SumOver`, a recursive function.
- `NeverServedEarly`, `NoneIsForgotten`, about `HwTimerClock`, by the invariant
  `DInv`: the time until an active timer fires is the sum of the deltas up to it less
  what has elapsed (`Until`), and it differs from what the caller asked for by no more
  than a tick for each setting of the counter on the one side (`NotAhead`), and by no
  more than the counter's margin and a tick for each call that found it run out on the
  other (`NotBehind`).  Inserting a timer, taking one out and splitting the list leave
  the sums of all others as they are; these are the lemmas on `CutAt`, `SplitAt` and
  `AddsUp`.

**`NvRecordProofs`.**  `TypeCorrect`, `RecordsAlwaysSound`, `UpdatesAreSaved`,
`RunningIsSaved`, `BackupsCopyMain`, `RecencyAlwaysKept`, `OthersAlwaysKept`.
The inductive invariant adds to `TypeOK`, `RecordsSound`, `CleanMeansSaved` and
`RunningMeansSaved`: between the two halves of an add there is room for the record
and the device is not listed (`AddHasRoom`); the checksum in RAM is that of the
first copy (`HeaderAgrees`), which is why a backup taken later copies the first
section or is invalid; and with the power off nothing is under way (`OffIsIdle`).
`RecencyKept` and `OthersKept` speak of steps: they follow from the invariant and from
what taking an element out of a list without repetition, dropping its head and
appending one do to the positions of the others (`WithoutKeepsOrder`,
`AppendKeepsOrder` of `ListLemmas`).

**`CQueueProofs`.**  `IndexesAgree`: `write` is `len` places behind `read`; its
inductive invariant adds the types.  `QueueIsFifo`: every step of the ring is a
step of `ByteFifo` under the mapping that reads `len` items from `read` on.  The
proof goes item by item: the k-th item of the mapped sequence after a step is
found at an index that is on one side or the other of the end of the buffer.  The loop
of `EnCQueueFront` is followed round by round (`Walked`, `WalkEnds`, by `AllNumbers`):
the places it writes are all different and none of them holds an item that waits.

**`MediaManagerProofs`.**  `ManagerConsistent`: `CurrentFits` is inductive by
itself, because every handler of the manager leaves a combination that its next
message finds in one of its branches and nobody else writes `bt_meida`.  The
handlers of the list and the other threads leave it alone, so the order and the
number of their messages do not matter.  `AssertsNeverFail`: the manager's two
asserts follow from `CurrentFits`; those of the list follow from `StreamsFirst`,
which holds since a stream that opens replaces the list and a prompt is appended.
The inductive invariant is `TypeOK`, `CurrentFits`, `StreamsFirst` and `AssertsHold`,
with one lemma per handler.

The other four speak of moments when nothing waits, so their invariants have to say
what every order of the messages that still wait will lead to.  They are stated on
`Queue`, the mailbox with what the running handler has still to post behind it, by two
operators: `Holds` (a message of some sort waits) and `Followed` (after each message of
one sort comes one of another).  Taking the head, posting behind the mailbox and
posting what a handler sent keep `Followed` under conditions on the one message alone
(`HeadTaken`, `InsertedBetween`, `QueuePosts`), so each step of the system is a
question about that message.  `ManagerDecides` sums up the manager's nine handlers by
the player they close, the player they open and what becomes current; `LiveOpened`,
`PromptOpened`, `LiveClosed`, `PromptClosed` sum up those of the list.

- `PromptPlays`: the list holds prompts only while a prompt is open, and a prompt that
  has ended has its close waiting.
- `StreamComing`, for `ManagersChoice`: a call or music that is current is open, or
  its opening waits behind every other opening and behind its own close.
- `CallGivesWay`, `VoiceCloses`, `CallEnds`, for `CallsSettle`: a prompt that keeps a
  call away is announced and comes after the close of what was open; a call that is
  over or gives way has its close waiting as long as it is open or listed; when the
  link is gone, a stop waits behind every start of the call, or a message whose
  callback will post one.
- `NoRestart`, `CallStarts`, for `CallsHeard`: without restarts no message has a
  callback, and a start of the call waits behind every stop.  Its hypothesis is
  `~RETRIGGER_VOICE`, a build without `__TWS_RETRIGGER_VOICE__`.
- `PromptComing`, for `PromptsWillEnd`, whose hypothesis is that the list never is
  `Flushed`: as long as `MAX_AUDIO_BUF_LIST` with a stream in it.  The code does drop
  prompts there (section 10), so this is as far as the property goes.

**`ProfileManagerProofs`.**  `TypeCorrect`, `ConnectedIsTrue`, `OpeningNeverStalls`,
`RetryNeverStalls`, for every limit of retries.
That a status says `success` exactly when its profile is open (`StatusesTrue`) makes
the report true.  For the stalls the invariant adds what the mode says of the link and
of the timer thread: in which of its steps it can be in which mode, and that the call
of the retry is set only while a timer or an expiry will find it.  For the first
request `OpeningFits` carries the argument: until it is made both profiles are closed
and the timer thread is idle (`NothingYet`), and when the timer thread is between the
call of the retry and its clearing, A2DP is not closed, so that no new call can be set
there.  `OpeningAlive` speaks of the history variable `stall` only for later requests.

**`IntersysProofs`.**  `TypeCorrect`, `NoneLeaks`, `SleepProhibited`,
`ChannelsImplement`, for any set of channels, any number of records and any messages.
The inductive invariant is, per channel, that its records in use are those of its two
lists, each once (`Accounted`), and the phases of a list: nothing is shown, or the
core has been told of the list, or is reading it and has read so many of its messages,
or has said that it read all (`Phases`); and that the lock is held while a channel is
busy (`LockHeld`).  A new record is not in the lists, so it changes no message that
the core has still to read; an interrupt for the end of a list finds it read to its
end.  `ChannelsImplement` shows that each step is a send, a read, a return of what was
read or a stutter for every channel.

Of the receiving side: `ParserInStep`, `PacketsArrive`, for any set of packets and any
number of them ahead; `ChannelUsed`, that BesbtThread and its interrupts, which call
the sending side in their own order, keep all of the above.  The inductive invariant
`HciInv` has two parts.  `Stage` is where the one message is: none, shown, taken, read
by the thread, or cleared, with what each flag, queue and the thread's place say of it;
so no message is parsed twice, and the core shows the next only when the last is
parsed and cleared.  `Owes` is the bytes: the packets that the core owes, joined, are
some bytes the parser has already seen and then what remains of the message and the
stream, and the parser is where those bytes put it (`Fits`).  A poll moves bytes from
the second part to the first.  `ByteStep` proves for one byte of a well-formed packet
that the loop goes from one place to the next or ends the packet whole; `OneRound` and
`MessageStep` extend this to the bytes of a message, across the ends of packets, by
`AllNumbers` on the number of bytes.  `JoinedAppend` and `JoinedHead` say what a new
packet and the end of one do to the joined bytes.

Two assumptions: `PacketsAssumption`, that what the core sends are packets (it is not
about how they are cut), without which the parser's place would mean nothing; and
`IdsAssumption`, that there is a channel.

**`MemPoolProofs`.**  `ChainAlwaysSound`, `AllAccounted`, `AlwaysMerged`, `PoolIsHeap`,
for a pool, headers and alignments of any size.  The chain by address and the free
list overlap in the headers, so each operator of the code (`Unlink`, `Replace`,
`Prepend`, `Split`, `Merge`) has a lemma that says what it leaves of both.  The
invariants are stated over a set of blocks (`Sound`), because in the middle of a
`Free` a header is already merged away and still in memory.  The inductive invariant
`PoolInv` is soundness of all headers with `HeldSound`, that what a user holds is a
block that is in use, in full.  A block that is given out is a part of one that was
free, so it overlaps no part that is out: `PoolIsHeap`.

**`ListLemmas`.**  What `Lists` returns, and the facts that induction over data needs.
The library's induction theorems take an operator as a parameter and cannot be used;
`LeastNumber` (a set of naturals that is not empty has a least element, from the
theory of finite intervals) and `AllNumbers` (a set that holds 0 and every successor
holds all) take a set instead, and `PartialSums` follows for the sums of deltas.

Only model-checked: all liveness and the fairness it rests on, which the provers do
not handle (`StartedTimerFires`, `AddedIsSaved`, `CallHeardAgain`, `GivesUp`,
`GivenBack`, `SendEnds`, `CoreTold`).

## 8. Bounds, and why they are enough

- `HwTimerList`: three timers, so that a list has a head, a middle and a last
  element and one timer can wait in the fired list while another is started;
  intervals of 0 to `MaxTicks` = 3 ticks, so that timers are due together, in
  either order and at the margin of one tick; the clock runs at most `MaxElapsed` =
  4 ticks past the setting of the counter, so that the handler can be late by more
  than a whole interval.
- `HwTimerClock`: `MaxRestarts` = 4 settings of the counter and `MaxRaces` = 1 call
  that finds the counter run out; `NeverEarly` is linear in the first and stated
  for none of the second.  A call that finds the counter run out starts the new timer
  early by the overrun (section 10), of which `NeverEarly` says nothing.
- `NvRecord`: three devices and two records, so that the list is full, a middle
  record exists before an eviction and a device can be evicted, paired again and
  evicted; two settings where settings matter and one where they do not; two
  builds, so that the backup is of another build than the firmware.  The run with
  settings has two devices and one record, so that each pairing evicts the other
  device, and no symmetry, because it checks a liveness property.  A list of ten
  differs from one of two in no branch.
- `CQueue`: five items and blocks of up to three, so that every block can end
  before, at and behind the end of the buffer with the queue empty, partly full and
  full.  The theorems cover every size.
- `MediaManager`: two prompts, one of them mergeable or silent, so that a prompt can
  wait behind another and be mixed in, refused or empty; a list flushed at two
  entries in `media`, and of four entries that the limits `Single` and `Few` never
  let fill in `media_calls`; other threads post while fewer than `MaxWaiting` = 2
  messages wait (the app thread and the end of a prompt always post), so that one
  message of another thread can come before, between and after the two that a
  handler posts.  `FEW` is 3 in the code; a smaller value in a run only makes the
  limit reachable.

- `ProfileManager`: `LIMIT` = 3 retries, so that there is a first, a middle and a
  last one (the code has 36 or 15, by build); one phone; any number of requests for
  the reconnection at power up, of which only the first is told from the others.  The theorems cover every
  limit.
- `IntersysSend`: two channels, so that the wake lock can be let go by the wrong one;
  three records, so that the first list can hold two messages, the second one, and
  the search can wrap to a record released before (a list of the core's with two
  records comes from two sent while one was read); two messages.
  The theorems cover any number.
- `IntersysHci`: packets of four lengths and three types, with and without data,
  whose other bytes look like the type of an SCO packet, so that a parser out of step
  does not notice; `PACKETS` = 2 ahead, so that a message can hold the end of one and
  the beginning of the next; `CREDITS` = 1 packet that the stack sends between two
  answers; `EVM_QUEUE` = 2 notifications, so that one of the core's is dropped.
- `MemPool`: a pool of 34 bytes with headers of 4 and lengths of 1 to 5 rounded up to
  2, so that five blocks can be out, lengths are rounded, a rest can be too small for
  a header, and the full pool is reached.

## 9. Fairness, and why the code justifies it

- `HwTimerList.LiveSpec`: weak fairness of the clock, and of the return of a
  callback (the callbacks in the tree do not block) and of the handler's early
  return.  Strong fairness of the interrupt and of the handler that finds a timer
  due: a call made with interrupts masked at the very tick the counter runs out
  can stop the head and clear the pending interrupt, so the interrupt is not
  continuously enabled; such a call does not hit that tick every time.
- `NvRecord.LiveSpec`: strong fairness of the save in the sleep hook, since the
  device goes to sleep again and again whenever no thread is ready; weak fairness
  of the second halves of a change, since threads finish what they do.
- `ByteFifo`, `CQueue`: none; a queue promises nothing until it is called.
- `MediaManager.FairSpec`: weak fairness of the app thread, which has the highest
  priority and never blocks on anything but its mailbox, and of the end of a prompt,
  whose data is finite.  `CallHeardAgain` holds for behaviours in which prompts stop
  being asked for; a prompt a second would keep the call away for ever.

- `ProfileManager.FairSpec`: weak fairness of an expiry and of the timer thread
  (kernel), of the loss of a link whose phone is away (the supervision timeout), and
  of an answer to every attempt, which the library's headers promise.  `GivesUp` is
  stated for a phone that stays away and requests that stop.
- `IntersysSend.SendFairSpec`: weak fairness of the interrupt and of the core, which
  reads what it is shown.
- `IntersysHci.FairSpec`: the same, weak fairness of both interrupts, and that
  BesbtThread runs when it can: it waits only for `evm_queue` and for the signal, so
  the formula says that it runs again and again, or waits for one of them again and
  again (`ThreadReady`).  This is weak fairness of its steps written without
  ENABLED, which would have TLC evaluate the parser twice.

## 10. Where the code differs from its comments

- `hwtimer_stop` of the last of two or more active timers executes
  `next->next->time += timer->time` with `next->next == NULL`
  (`hwtimer_list.c:370`).  The assert at line 377 says that stopping an active
  timer ends with `E_HWTIMER_OK`.  Run `hwtimer_stop`.

What the code does in states the properties leave out (seen while the modules were
written; no run states them):

- `nv_record_flash_backup` (`nvrecord.c:692`) writes the pool as it is, under the
  checksum of the last flush.  If a record has changed since, the copy is refused
  at the next start.  `BackupCopiesMain` speaks of backups that can be loaded.
- `is_backup_different_with_userdata` (`nvrecord.c:145`) compares the checksum
  stored in the backup with that of the first copy and not the contents: a backup
  torn after its header counts as equal and is not repaired.
- A flush of the app thread, which does not take the stack's lock, between the removal
  and the return of a record (`nvrecord.c:418`), followed by a loss of power, loses a
  device that was saved before.  `AddedIsSaved` leaves out the loss of power.
- `app_audio_manager_sendrequest` (`app_bt_media_manager.cpp:1239`) counts requests
  whose `aud_id` equals `BT_STREAM_VOICE`, a value of another enumeration (4, which is
  `AUD_ID_NUM_1`).  A call's request has the `aud_id` `MAX_RECORD_NUM` and is not
  counted, so `app_tws_connect.cpp:1879` does not hold music data back.  The count is
  not modelled.
- In the reconnection after a loss, with hands-free back and A2DP refused once, the
  timer's function tries hands-free, which is open, and never A2DP
  (`app_bt.cpp:1354`), until an event ends it.  `RetryComing` is stated without
  hands-free.
- The reconnection at power up asked for again with a profile open
  (`app_tws_connect.cpp:438` and others) is refused without an event; the mode is left
  when the profile closes.  `OpeningAlive` leaves out the reconnection that began with
  such a refused attempt (`stall` is `"refused"`), and no other state with a profile
  open.
- The timer thread calls the retry of A2DP and then clears `connect_timer_cb`
  (`app_bt.cpp:1352`).  If between the two lines A2DP closes, the reconnection at power
  up is asked for again and hands-free connects, the call that this event sets is
  cleared; the timer then tries hands-free, which is open, and the mode stays.
  `OpeningAlive` leaves out this reconnection (`stall` is `"wiped"`); that the first
  request cannot come to it is checked and proved.
- `hwtimer_start` that finds the head run out but not yet served measures the new
  timer from the expiry of the head and not from now (`hwtimer_list.c:231`), so that it
  fires early by the overrun.  `NeverEarly` is stated for `races` = 0.
- `nv_record_ddbrec_add` without memory for the record (`nvrecord.c:426`) returns after
  the old record, or the oldest one, has been taken out of the list, without marking
  the change.  The model always has memory: the products' pool of 4 KB does not fill
  with ten devices.
- `BESHCI_SendData` does not look at the result of `hal_intersys_send`
  (`intersyshci.cpp:723`): refused for want of a record, it would wait for ever.  With
  one packet at a time on channel 0 a record is always free; `SendEnds` shows it.
- Freeing a block without free neighbours when no block is free stores through a
  NULL `first_free` (`nvrec_mempool.c:469`).  The model reaches that state and takes the
  store as lost.  The products' pool of 4 KB does not fill with ten devices.

Of the media manager:

- With the restart of a call (`RETRIGGER_VOICE`), a link that comes back while the
  answer of a restart is still to be posted loses the call until the next event.
  `CallHeard` is therefore checked without the restart, `CallSettles` with it.
- The manager goes idle when told that a prompt is over
  (`app_bt_media_manager.cpp:1026`), but the next prompt can have been started while
  that message waited, and a stop of music that comes in between can leave the music
  player open.  `ChoicePlays` says nothing of an idle manager; what starts next
  closes what is open.
- When the list is flushed with a stream in it, the new prompt plays unlisted and the
  manager is never told that it ends; `PromptWillEnd` is checked where no flush
  happens.

## 11. What is not modelled, and why

`PROJECT.json` lists every component with its status.  In short:

- *data the properties do not tell apart*: callbacks' parameters, contents of the
  records other than device and settings, names of firmware builds, bytes of
  audio, wording and tone of prompts, traces.
- *of the records*: the env record and the fixed volumes in the same pool; a reset
  command of the factory tests that goes on with pointers into the old pool
  (`apps.cpp:1253`).
- *of the profile manager*: requests for the access mode, voice reports, a second
  phone (`__BT_ONE_BRING_TWO__`), HSP, and the build that connects other profiles by
  itself (`__AUTO_CONNECT_OTHER_PROFILE__`).
- *of the link to the Bluetooth core*: stopping and restarting reception and the
  pending head of a message that was taken in part (`bt_rx` takes all of it); several
  messages in one list of the core's; the build with a receiving thread; BLE's
  `BESHCI_SendBuffer` with its own flag; the checker that lets the sleep lock go after
  15 s (`intersys_sleep_checker`), which another thread runs without a lock; factory
  mode's close of a busy channel (`app_factory_bt.cpp:162`).
- *of the allocator*: the teardown, the debugging build, and `list_ext.c`.
- *planned*: the mailbox, battery, keys, audioflinger and TWS control (section 4).
- *binary libraries*: the Bluetooth stack, the TWS library and the codecs are not
  in the repository as source.
- *drivers*: the order of register accesses is the data sheet's, which the
  repository does not hold; images for boot and for production tests are separate
  programs.
- *third-party code and data*: the kernel, CMSIS, file system, JSON and C library,
  configuration resources.

## 12. How to run

`tlc -config HwTimerList.cfg HwTimerList` and likewise for each row of section 6;
`tlapm HwTimerProofs.tla`, `NvRecordProofs.tla`, `CQueueProofs.tla`,
`MediaManagerProofs.tla`, `ProfileManagerProofs.tla`, `IntersysProofs.tla`,
`MemPoolProofs.tla`, `ListLemmas.tla` for the proofs (`HwTimerProofs`
and `IntersysProofs` take a few minutes).  Each run takes less than two minutes on two
cores.
