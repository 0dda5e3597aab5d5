# TLA+ models of ESP32TelegramAlert

The firmware of `src/src` turns an ESP32-C6 board with a small screen, one key and
one LED into a Telegram pager: messages sent to a bot are queued, shown one at a time
and acknowledged with the key. This directory holds TLA+ models of its stateful
parts, the TLC configurations that check them and TLAPS proofs about them.

## 1. The system

One core, FreeRTOS, preemptive priorities: esp_timer (22), event loop (20), pager
task (4), button task (3), LVGL task and Wi-Fi monitor (2), LED task (1).

| Part | State | Operations | What must hold |
|---|---|---|---|
| `msg_queue.c`, `msg_store.c` | ring of pages behind `s_lock`, one NVS blob per slot and one meta blob | init, push (pager), pop (button), peek, peek_recent, count, dropped | FIFO, evicts its oldest, survives a power cut at any step |
| `pager_task.c` | `s_offset`, `s_saved_offset`, `s_ack_queue` | one lap: drain receipts, poll, answer commands, push, repaint, report deliveries, save offset; the press handler runs on the button task | no page lost, none paged twice without a reset, a receipt for every press, marks in the chat that are true |
| `telegram.c` | `*offset`, the batch | getUpdates and the calls that mark, reply, answer | offset monotone, never stalls (finding 3), never ahead of what is stored |
| `https_client.c`, `net_conn.c`, `socks5.c` | cached TLS session, response buffer, socket | one POST with deadline and abort check | nothing leaks on any way out, a bad session is dropped, every request ends |
| `ui.c`, `display.c` | what the glass shows, LVGL lock, SPI guard | render queue, set status, flush, flush done (interrupt) | glass shows the head; panel and card never share the bus; no deadlock |
| `screen.c` | phase, two timers, `s_lock` | activity, arm_off, phase and fade callbacks | a press lights the glass and it stays lit; an idle glass goes dark |
| `wifi_manager.c` | event bits, retry count, monitor task | connect_sta, event handler, monitor, roam, AP | a lost link is always found again |
| `settings.c`, `provision.c`, `main.c` | NVS keys, flags | load, save, force AP, portal form, boot decision | a reset during a save never boots half a configuration |
| `contacts.c` | table of chats, NVS blob | note, announce | the stalest chat is forgotten first, a reset keeps the table |
| `commands.c`, `inline_mode.c` | none of their own | answer /status, /last, inline queries | /last copes with concurrent pops |
| `sd_log.c` | FAT card on the shared bus | log a page | a page never overwrites another's file |
| `button.c`, `led.c` | debounce counters; pulse | sample, blink | one press per key stroke, a hold reaches the portal, the LED tells whether pages wait |

How they interact: the pager task calls `telegram_poll` (blocking up to 25 s), and
pushes what came; the button task pops and hands a receipt back through
`s_ack_queue`, whose length the poll's abort check watches; both repaint through
`ui_render_queue`; `screen_activity` reads the queue's count under the screen's lock;
the LED task polls the count. NVS (flash) outlives a reset, RAM does not.

What is hard: the two tasks and the esp_timer task interleave around three locks;
power may fail between any two flash writes; Telegram keeps an update until a later
poll confirms it, so a reset between the two replays it; any call over the network may
fail after Telegram has already acted on it. `PROJECT.json` lists each of these as a
hazard at the line where it bites.

## 2. Modules

| Module | What it is |
|---|---|
| `PageFifo` | what the page queue promises: a bounded evicting FIFO and a stored copy one operation behind |
| `MsgQueue` | the ring over NVS: `msg_queue.c` and `msg_store.c` |
| `MsgQueueProps` | its properties, its inductive invariant, and the refinement of `PageFifo` |
| `MsgQueueProofs` | the theorems |
| `MCMsgQueue` | the instance TLC checks |
| `Pager` | `pager_task.c` and `telegram_poll` over `PageFifo`, with the Telegram server |
| `PagerProps`, `PagerProofs`, `MCPager` | its properties, the theorems, its instance |
| `Screen`, `ScreenProps`, `MCScreen` | the backlight schedule of `screen.c`, with the presses and pushes that drive it |
| `Bus`, `BusProps`, `MCBus` | the LVGL lock and the SPI guard of `display.c`, with their users in `ui.c` and `sd_log.c` |
| `DisplayProofs` | the theorems of `Screen` and of `Bus` |
| `Wifi`, `WifiProps`, `WifiProofs`, `MCWifi` | `wifi_manager.c` and its part of `app_main`, with the Wi-Fi driver |
| `Settings`, `SettingsProps`, `SettingsProofs`, `MCSettings` | `settings.c`, the save of `provision.c`, and `app_main`'s choice between portal and networks |
| `Https`, `HttpsProps`, `HttpsProofs`, `MCHttps` | one request: `https_client.c`, `net_conn.c`, `socks5.c` and `call_api` |
| `Contacts` | the contact table of `contacts.c` |
| `Lap`, `LapProps`, `LapProofs`, `MCLap` | what a lap does besides paging, over `Contacts`: `filter_commands`, `dedupe_queries`, `commands.c` |
| `Front`, `FrontProps`, `FrontProofs`, `MCFront` | `button.c` and `led.c`, with the boots between them |

A definition such as `LoadFromZero` or `PushUnsaved` that stands just before an
action and appears in no formula is a slip of that action (a dropped guard, a missing
write). Each property is run against one, to see that it does break.

### MsgQueue

`slots`, `head`, `count`, `dropped`, `lock` are the statics of `msg_queue.c`; `flash` and
`meta` are the NVS blobs; `push` and `pop` say which flash write an operation
still owes. An operation is split where power may fail: `PushRam`, `PushSaveSlot`,
`PushSaveMeta`; `PopRam`, `PopSaveMeta`. `Load` is `msg_store_load` with its truncation at
the first slot it cannot read; `BeginClear`, `EraseSlot`, `EndClear` are the wipe
after a load that reports nothing. `Crash` may follow any step. `Failing` names the
writes that may return an error, which the code logs and ignores; `sound` is history, true
until one does.

An NVS write is one atomic, durable step: the library's own guarantee for
`nvs_set_blob`. `flash` of the slot blob is not committed by a call of its own,
which on this library only matters for deferred page state, not for the entry.

### PageFifo and Pager

`MsgQueue` implements `PageFifo` until a write fails (`ImplementsFifo`), so `Pager`
is built over `PageFifo` and inherits its three crash windows: after the push in RAM,
after the slot write (`Torn`), and before a pop's meta write.

`Pager` names a page by its update_id. `pc` is the place of the pager task in its lap,
`bpc` that of the button task in the press handler. `view` is what each has peeked and
not yet painted. `arrived` and `confirmed` are the server's: an update below
`confirmed` is gone. `mark` is the bot's reaction on a page; the fallback text reply and
the edit of an inline message stand behind the same mark. `Request` are the updates that
are answered on the spot and never paged, `Mute` the pages without a handle to report
to. `Crash` and `Boot` may come at any step of either task.

The button task runs below the pager task on one core: when the pager task is about to
peek for its repaint it holds the core until it blocks, which is the guard
`ButtonRuns`.

Simplified in `Pager`: `flashOffset` stands for both `s_saved_offset` and the value in NVS
(the write is taken to succeed; its failure would only replay more); a press on a dark glass
and a press on an empty queue change nothing here; commands and inline answers are one step
with the poll that brought them, and `Lap` takes that step apart; the SD log and the footer
are left out. Lengths are abstracted to `Large` updates, of which an answer within
`APP_HTTP_MAX_RESPONSE` holds `LargeFit`; an answer with more is refused whole
(`PollRefused`). `AckedPageGone` speaks of the moments when no press is being handled, and
excepts a page that was evicted or that a reset has queued again: what the glass shows of
these is told under "Seen while reading".

### Screen

`phase`, `level`, `lit` are `s_phase`, the backlight and `s_on`; `timer` is the set of timers
that run. ESP-IDF takes an expired timer off its list and only then calls back, and
the callback first waits for `s_lock`: `due` is that callback, and `Expire` and
`PhaseTimer`/`FadeTick` are two steps. `late` remembers that the schedule was restarted in
between. `screen_activity` is split at its two waits, for `s_lock` and for the queue's lock
inside `msg_queue_count`, because the pager task may hold the latter over flash writes.
A failed `ESP_ERROR_CHECK` clears `up`, and `Boot` follows. `Yields` is the priority of
the esp_timer task: others run only when it has nothing to do or is blocked. The
durations are abstracted to their order, except that a phase timer does not expire
between a restart and the count that follows it.

### Bus

`guard` is `s_spi_bus_sem`, `dma` a transfer the panel is still shifting out, `flushing`
LVGL's own flag. `Draw` leaves the guard taken, `TransferDone` is the interrupt that gives
it back, `DrawFails` the refusal after which no interrupt comes. `chunks` bounds the buffers
of one `lv_timer_handler`. `pc` holds each task's place.

### Wifi

`bits`, `retry`, `armed`, `linkUp`, `cur` are the statics of `wifi_manager.c`; `sta`, `cfg`,
`ap` and `events` are the driver and the event queue; `main` and `mon` are the places of the
main task in `app_main` and of the monitor. `try_network` is split at every place where an
event may fall: `TryDisconnect`, `TryConnect`, the wait, `TryClear`, `TryRecheck`. The
handler runs above both tasks, so these move only when no event is pending (`Quiet`). `air`
and `rssi` are the radio conditions, which change `MaxFlaps` times. A scan ranks the
networks on the air (`Ranking`, with the tie broken by the slot as the stable insertion sort
does) or fails. The roam cooldown, a scan that misses the current network and a scan that
fails are the free choice of `MaybeRoam` to stay.

### Settings

`nvs` is the `cfg` namespace, one value per key; `inUse` is `s_settings`; `left` the writes
a save still owes, in the order of `settings_save`. A value names the form and the field it
came from, so a mixture of two forms shows. `rest` stands for the keys between the networks
and the flags (time zone to proxy), which are saved and required alike. A cut may come
between any two writes; a boot may find the partition unusable and erase it (`BootErased`).
A rejected form changes nothing and is no step. Any write of a save or of
`settings_request_ap_and_restart` may fail (`WriteFails`), and as in the code the next one
follows as if nothing had happened. `faulty` remembers such a save: until a later save is
whole, `UsesLastForm` does not hold and is not claimed. Two faults compound: a token write
that fails leaves `provisioned` set over an old token, and a next save cut midway then boots
half of one form and half of another.

### Https

`pc` follows one request from `getaddrinfo` to the cleanup; `open`, `tls`, `buf` and `tickets`
count what it holds, so a way out that forgets something shows in the next request. `spent`
counts the slices of `select()` the deadline allows, and `pieces` the wakeups that complete
nothing (a bound: the peer may dribble that often in one request). The proxy's replies are
bytes: `owed` are those it has yet to send, `wire` those not yet received, `want` what
`read_all` still asks for. A bound name may have any length a byte can give. `Overrun` says
that more of it has been read than `discard` holds; what the compiler put behind the
buffer decides what comes of it, so two outcomes are modelled: nothing in use was hit and
the handshake goes on, or the callers' registers are gone and so is the program, until
the chip resets (`Astray`, `Recover`). Nothing is claimed of a program gone astray. A proxy
that asks for credentials nobody offered makes `authenticate` call `strlen(NULL)`, a panic and
a restart (`Unoffered`). The answer is counted in chunks, of which the first `Header` hold
the HTTP header. `session` is the key of the cached ticket, `key` the one the server now
uses; a server may refuse a ticket of another key with an alert, or take the full
handshake. `fine` says that the network holds up for the whole of a request; without it
any call may fail, and a proxy whose bound name overruns `discard` or that asks for what was
not offered is a network that does not hold up. Assumed: cJSON rejects a truncated body,
and a `recv` that times out is a failure (`SO_RCVTIMEO`). Each connection carries one
request (HTTP/1.0).

### Contacts and Lap

`contacts` is `s_blob`, `blob` the list in NVS. A stamp is refreshed only when it lags by
more than `Touch`. `behind`, `wrote` and `stale` are history that no reset touches: the last
write failed; the latest message ever noted of each chat, in the table or not; the chats
whose entry a reset took back from flash in a state RAM no longer had, because a write had
failed, and that have not been noted since. `contacts_announce` only reads. `Lap` walks the
updates of a poll as `pager_task` does, one loop iteration a step: sort the updates into the
two arrays in the order they came (`Those`), note the senders, drop superseded queries,
answer the commands and close their gaps in place, push, save the offset. `/last` is split
at every critical section of the queue (`BeginLast`, `ListPage`), and `Pop` may fall between
any two. `Kinds` stands for the text matching of `command_arg`. `Capacity` evicts as
`msg_queue_push` does; the flash copy of the queue is `Pager`'s matter and here the queue
survives a reset. Taps on the pending button are answered and leave nothing behind; a poll
that fails or is aborted leaves everything alone and is no step.

### Front

One `Sample` is one turn of `button_task`'s loop, with the counters in samples. `key` moves
freely, so every bounce pattern is covered. `samples`, `ready` and `presses` are history. A
press takes a page or not (`Screen` and `Pager` say when). `led_task` is split between reading
the count and showing it. The button runs only with the pager, the LED from the start of
the boot on and in the portal; `Cut` is a power cut, after which the LED's pixel is dark.

## 3. Runs

| Run | Instance | What it shows |
|---|---|---|
| `queue` | ring of 3, 3 pages, one old page, both writes may fail | until one does `WriteThrough`, `NeverTruncated`, `ImplementsFifo`; throughout `NoGhosts`, `RamFifo` |
| `pager` | 3 updates (a command, a page, a mute page), queue 1, receipt queue 1, 2 attempts, 1 reset; the first two updates do not fit into one answer | `TypeOK`, `NoPageLost`, `MarksHonest`, `NeverRequeued`, `ReadSticks`, `AckedPageGone`, `AcksResolved`, `UpdatesHandled` |
| `pager_stall` | the same | `OffsetNeverStalls` is violated: finding 3 |
| `screen` | queue of 2, a fade of 2 steps | `IsOnHonest`, `NeverStuckLit`, `PressLights`, `GoesDark` |
| `screen_late` | the same | `PressNotUndone` is violated: finding 1 |
| `bus` | 2 buffers to a frame, 3 tasks | `BusExclusive`, `GuardAccounted`, `NobodyStarves` |
| `wifi` | 2 networks of 2 strengths, 1 retry, 3 changes on the air | `TypeOK`, `LossNoticed`, `PortalIsLast`, `CurrentSlotTrue`, `Rejoins` |
| `wifi_lost` | the same | `Reconnects` is violated: finding 2 |
| `settings` | 3 networks, 2 forms of 5 fillings, 1 power cut, 1 failing write, from a new, a provisioned and an upgraded device | `UsesLastForm`, `NoBootLoop` |
| `https` | 2 addresses, with and without proxy and credentials, a poll of 2 slices and a call of 1, bound names of 0 and 17 bytes, answers of 1, 3 and 4 chunks against a limit of 3, one change of the server's key | `NothingLeaks`, `StreamAligned`, `RequestEnds`, `AnswersAgain` |
| `lap` | 3 updates of 7 forms from 3 chats and from none, a table of 2, 2 pages waiting, 1 reset | `EvictsStalest`, `RestartKeepsTable`, `LastFaithful`, `BatchSorted`, `LatestQueries` |
| `front` | debounce of 3 samples, long hold of 7, queue of 2, any number of cuts | `OnePressPerStroke`, `LongHoldOnly`, `HoldReachesPortal`, `LedTellsUnread` |

The type invariants of `Pager` and `Wifi` are checked and proved, those of `MsgQueue`,
`Screen`, `Bus`, `Https`, `Front` and `Settings` proved (section 4); the other modules'
properties pin their variables down themselves.

Bounds. A ring of three slots wraps, fills and evicts at every position of its head;
`MaxDropped = 2` lets it evict twice. Pages are symmetric. In `pager` the queue of one page
overflows on the second page, so eviction, the torn slot and a stale pop all happen, and
one reset may fall at any step of both tasks. The command and the first page pass the limit
together, so a poll that gets them one by one goes on to a batch of two pages, and one that
gets both stalls. A ring of two with liveness gives the
same results and a fourth update (no liveness) too.

A queue of two lets a press leave a page or none, and a press, a push and a callback meet in
every order, since none of them is bounded in number. A fade of two steps reaches 0 by both
branches of `fade_tick_cb`. Two buffers make LVGL wait for its own transfer. Two networks
are the fewest that can be walked, failed over and roamed between; three changes on the air
are a drop, a failed retry and a move of the network. Three networks in `settings` can have
a gap in front of two or between two; two forms and a cut let half of one lie under the
other, in front of either old device; one failing write may be any of them. In `https` a
second request starts from whatever the first left behind, without bound on their number;
two addresses let one fail and the next answer; 1, 3 and 4 chunks are an answer cut in its
header, one that fits and one that does not; a name of 17 bytes is the shortest that
overruns `discard`, the empty one the shortest there is. In `lap` three updates are the
fewest that evict twice, hold two commands in front of a page, or three queries of two
users; updates come 1 or 3 s apart, so that with `Touch` = 2 a stamp lags by one update or
two, or is refreshed at once. One failed write before the reset makes a chat stale: without
that exception `EvictsStalest` breaks in this run. In `front` a debounce of three samples
has an interior, and a hold of seven holds two debounces.

Fairness. `WF(PagerStep)`, `WF(ButtonStep)`: both tasks are always scheduled again, nothing
of higher priority runs without end, and no step of theirs waits on the user. `WF(Boot)`: a
device that lost power is switched on again. `SF(PollOk)`: a link that is tried for ever
works now and then, for an answer that fits; one that does not is never taken, and
`UpdatesHandled` excepts a device whose answer is above the limit for ever. There is no
fairness on presses, arrivals or resets. `Screen`: time passes and every task is scheduled.
`Bus`: a task that holds what it needs runs on and the hardware answers; `SF` on taking the
two locks, which FreeRTOS hands to the waiter of the highest priority while the others sleep
between laps. `Wifi`: the tasks run; `SF` on an attempt answered within its wait, for each
network, and on a scan that works; a network that is gone is noticed. `Settings`: the device
boots and acts; nobody has to submit a form. `Https`: the steps of the client run
(`select()` and `recv()` return in time by their own timeouts), the pager task asks again;
`SF` that a request now and then meets a network that holds up (`fine`), which only
`AnswersAgain` needs. Nobody resets a program gone astray. `Front`: each task and the boot
are scheduled; nobody has to press.

Findings.
1. `screen_late`: a phase callback that expired before the press but got `s_lock` after it
   finds the phase the press has set, dims the glass, and starts a timer that is
   already running: `ESP_ERROR_CHECK` reboots the device. If pages are left, the timer
   was stopped again and the glass stays dimmed instead.
2. `wifi_lost`: the monitor is armed only after SNTP. A link lost before that falls to the
   boot branch of the handler, which never clears `s_link_up`; with its retries used up
   nobody reconnects, and the monitor sees a link that is up.
3. `pager_stall`: an answer over 32 KB (two messages of 4096 Cyrillic letters) is refused
   before any update_id is read, so the offset stays and the same answer comes again for
   ever: the stall that `telegram.c:255-256` means to prevent.

Met while modelling, with no run of its own, since nothing in the repository says otherwise:
of a bound address that is a name, `request_connect` reads its length and two bytes more into
`discard[18]` (`socks5.c:210-211`), which a name of more than 16 bytes overruns. The `https`
run goes through it; its properties except a program that it led astray.

Seen while reading, not run: a push into a full queue replaces the blob of the oldest page
before the meta blob moves on, so a restart there shows the newest page first and has lost
the oldest, against the comment at `msg_queue.c:56-58` (`PageFifo.Torn` is that crash
window, and `NoPageLost` allows for it); `ui_render_queue` peeks before it locks, so a
button task preempted between the two, by a push that evicts or after it found the queue
empty, paints over the pager task's repaint what is no longer the head; the comment at
`contacts.c:118-119` says stamp and flash cannot disagree, which a failed write refutes;
`dropped` is restored from flash although `msg_queue.h:57` calls it a count since boot; a
page pushed again after a reset gets a "delivered" mark over its "read"; `telegram.c:264`
says the rest will be refetched although the offset has already moved past the update, which
never happens because the limit asked for equals the slots; `pager_task.c:71-75` says
nothing is queued behind a dark screen, which pages that arrive in the dark contradict; a
press pops the head of the queue even if a push evicted the page on the glass a moment
before; a press that found the glass lit may pop after the fade has ended;
`wifi_manager.c:298` divides the roam cooldown by 1000 and compares 60 with milliseconds,
which the 60 s period of the monitor hides; the failover goes on to the next network when a
try answered late, and so may tear down the link it has just got; after a failed boot
connect the force-AP flag keeps the device in the portal over resets until a form is saved;
`settings_save` ignores a failed write and still sets the flags; `form_get`
(`provision.c:173`) cuts a value to its field before it url-decodes it, so a network name in
Cyrillic, which arrives at three characters a byte, is stored as its first ten bytes.

## 4. Proofs

`MsgQueueProofs`, for every capacity, every set of pages and every bound:

- `QueueTypeCorrect`: `Spec => []TypeOK`, failing writes included.
- `QueueInvariant`: `Spec => [](sound => QueueInv)`; no step makes `sound` true again
  (`SoundFalls`).
- `QueueNeverTruncated`, `QueueWritesThrough`: the two safety invariants, from it.
- `QueueNoGhosts`, with any failing writes, from `PagesOnly`: once the queue is open, or meta
  names blobs to load, flash holds no blob of an earlier firmware.
- `QueueRamFifo`, with any failing writes: what RAM holds changes like a bounded FIFO.
- `QueueImplementsFifo`: until a write fails `MsgQueue` implements `PageFifo`, step by
  step; `QueueIsFifo` adds that with `Failing = {}` it does outright. The first needs `QueueRefinementInvariant`: `QueueInv` and, while the pager holds the lock,
  what the stored meta is behind by (`MetaBehind`), which says what a restart would load.

`NeverTruncated` and `WriteThrough` are not inductive: the first needs to know that the
slot a push advertises has been written (`Mirrored`, `LivePages`), the second that meta is
current when nobody holds the lock (`MetaCurrent`), and both which writes the
holder still owes (`Holders`). `QueueInv` is the conjunction. The lemmas on
`Index` (it is injective on a window no longer than the ring, it shifts by one) carry the
arithmetic; `LoadCountAll` says that the load restores everything when every advertised
slot is readable. There is one lemma per action that disturbs the ring.

`DisplayProofs`, for every capacity, every pair of levels and every length of the fade:
`ScreenTypeCorrect`, `ScreenIsOnHonest`, `ScreenNeverStuckLit` and the action property
`ScreenPressLights`, from `ScreenInvariant`. None of the last three is inductive: the level
and `s_on` agree only through the phase (`LitPhase`), and that a restart still stands when the
count is read (`Restarted`) needs to know who holds `s_lock`, an abort included
(`LockHeld`).

Its other half is about the bus, for every number of buffers: `BusTypeCorrect`,
`BusGuardAccounted` and `BusIsExclusive`, from `BusInvariant`. `GuardAccounted` needs its
three users to exclude each other (`OneUser`), and the interrupt to find no other flush
waiting (`FlushInHand`).

`HttpsProofs`, for any number of addresses, any limits and bound names of any length a byte
can give: `HttpsNothingLeaks` and `HttpsStreamAligned`, from `HttpsInvariant`. They say what
holds when the handshake returns; that it does is not said, for a name that overruns
`discard`. That nothing leaks needs to know at which places the response buffer belongs to
the request (`BufferOwned`); that TLS starts at the first byte of the server needs the books
of the SOCKS5 exchange: what the proxy has sent or owes is what `read_all` still wants plus
the parts of the reply that later reads ask for (`RepliesCounted`).

`FrontProofs`, for every debounce time and every longer hold: `FrontOnePress` and
`FrontLongHoldOnly`, from `FrontInvariant`. The code keeps two counters and the properties
speak of the last samples; `Agreed` says which samples `stable` counts and `NoRelease` what
`hold` promises about those since the press. `CounterIsWindow` carries both over a sample.

`WifiProofs`, for any networks, any number of retries and any changes on the air:
`WifiTypeCorrect`, `WifiLossNoticed`, `WifiPortalIsLast` and `WifiCurrentSlotTrue`, from
`WifiInvariant`. None is inductive. `EventsFit` says which events can be pending in which
state of the driver; `Walk` counts the attempts of the boot walk against the retries (before
`cfg` all, after it none), which is why the portal is the last resort; `HandOver` ties the
monitor, `armed` and the configured network to where `app_main` is; `LossFlagged` says that
wherever the monitor may be headed for its wait, a link that is down is still flagged.

`PagerProofs`, for any updates, capacities, attempts and number of resets:
`PagerTypeCorrect`, `PagerNoPageLost`, `PagerMarksHonest`, `PagerAckedPageGone` and the
action properties `PagerNeverRequeued` and `PagerReadSticks`, from `PagerInvariant`. `Turns`
says which task the operation on the queue belongs to; `Mirror` what the stored queue lags
by; `Kept` that a page below any of the three offsets is held somewhere, but for those of
the batch the lap has still to stow; `Replays` counts copies, one for each boot at most and
none for what is still to push; `GlassTrue` that a page gone for good is on its way to the
glass only while the button task has still to paint over it.

`LapProofs`, for every size of the contact table and of the queue, any updates and any
number of resets:

- `LapRestartKeepsTable`, from `LapTableInvariant`: not only the table but the blob, which
  failing writes may leave behind, must hold each chat once, since a reset reads it back.
- `LapStampsLag` and `LapEvictsStalest`, from `LapStamped`: but for a stale chat, a stamp in
  the table lags by no more than `Touch` behind every message of its chat the device is done
  with (`Heard`: a reset now would not bring it again, and the lap has passed it), and no
  stamp is later than its chat's latest message. Resets take `Heard` back with the offset
  and the table back with flash; that the two fit needs the updates to come in the order of
  their dates (`Dated`) and every message of the poll to be there to be noted (`ToNote`,
  from `LapInvariant`). `LeastRecent` exists by `SmallestIs`, from the well-foundedness of
  `<`.
- `LapLastFaithful`, `LapBatchSorted`, `LapLatestQueries`, from `LapInvariant`. They speak
  of the end of a loop, and the invariant of every turn of it: `Flow` bounds the indices,
  `Sifted` and `Deduped` say what the kept part of an array holds, that the rest is as the
  poll left it, both in the order of ids and nothing missing; `Walked` that the queue still
  ends like the window the walk began with, page for page from the newest, however many the
  key has cleared, and that what was passed and still waits is listed; `Queued` that no page
  waits twice, which makes "the page" well defined.

`SettingsProofs`, for any number of networks, any forms and fillings, and any number of power
cuts and failing writes:

- `SettingsUsesLastForm`, from `SettingsInvariant`. `UsesLastForm` speaks of a device that
  has left the portal; the invariant says what flash holds before that. `SaveInOrder` keeps
  the books of a save: what it has left to write is the end of what it set out to write, and
  what it has written stands in flash, because no two of its writes have the same key
  (`KeysDiffer`). `FlagsHonest` says that the flags keep the device in the portal until all
  fields are stored, and that once they let it go flash holds the whole of the last form
  (`StoredIsWhole`), over whatever an older firmware or half a save had left there.
- `ParsedPacks`: the compaction loop leaves every network that was filled in, in order, at the
  front and with its own password. Each turn (`PullKeeps`) fills the gap it finds with the
  nearest network behind it.
- `PackedWalks`: of such a form, what the connect loop walks is all of it.

The induction over the turns of the loop takes the first turn that went wrong, which
`SmallestIs` provides; so does the existence of the recursive function `pulled`
(`PullsExist`).

Every inductive invariant was first checked by TLC as an invariant of the module's run.
The proofs assume only the named assumptions on the constants, and `Failing = {}` where a
theorem says so.

Only model-checked: all liveness (`AcksResolved`, `UpdatesHandled`, `GoesDark`,
`NobodyStarves`, `Rejoins`, `RequestEnds`, `AnswersAgain`, `HoldReachesPortal`,
`LedTellsUnread`, `NoBootLoop`), which with its fairness is out of this prover's reach.
Every other property of a passing run is a theorem. The three findings are counterexamples
and stay with TLC by nature.

## 5. Not modelled

- `pager_font_*.c`: 75,010 of the repository's 81,560 lines of code are generated bitmap
  tables without behaviour. Of the 6,550 lines written by hand, the definitions here
  stand for some 2,700.
- Texts and layout: `ui_strings.*`, the widgets and status footer of `ui.c`, the answers
  `commands.c` and `inline_mode.c` format, the JSON of `telegram.c`, the portal's page.
- Form decoding in `provision.c` and the file naming in `sd_log.c`: string processing with no
  state of its own. What they do wrong is told in section 3.
- Panel set-up, PWM, the SoftAP and the DNS answer of the portal: I/O in a straight line.
- `settings_clear` has no caller.

## 6. Plan

1. (done) `PageFifo`, `MsgQueue`, its proofs; `Pager` over it; `Screen` and `Bus` with their
   proofs; `Wifi`; `Settings`; `Https`; `Contacts` under `Lap`; `Front`.
   Every safety and action property and the refinement are proved.
2. Proofs left: none. Liveness, with its fairness, is out of the prover's reach.
