# A TLA+ model of the anti-ban library

The repository is a Go library, package `antiban`, that wraps a whatsmeow
client: outgoing messages pass a queue and a chain of policies (pause, active
hours, warm-up, rate limits, per-recipient circuit breaker, time lock, contact
graph) before they are sent, and connection events feed the policies back.
`cmd/gateway` is an HTTP server around it. This directory holds TLA+ modules
that model the stateful parts, TLC configurations that check them on small
instances, and TLAPS proofs of the central invariants for all instances.

Run a configuration with `tlc -config MCEvents.cfg MCEvents`, a proof with
`tlapm EventsProofs.tla`.

## Inventory

| Component (source) | State | Operations | What is hard about it | Correct when |
|---|---|---|---|---|
| Send queue (`wrapper.go`) | channels `sendQueue`, `stopCh`, flag `started`, one goroutine per Start | `Start`, `Stop`, `SendMessage`, `sendLoop`, `processSend` | loops read the channel fields without the mutex; contexts end anywhere; sleeps cannot be interrupted | every message is answered once and truthfully; cancelled callers leave; stopped loops end |
| Pause control (`antiban.go`, `wrapper.go`) | `isPaused` | `Pause`, `Resume`, health callback, temporary-ban handler and timer | four kinds of writers of one Boolean, callbacks in goroutines that nothing orders | the flag says what the monitor decided, and a Pause holds until Resume (neither does in all cases) |
| Health monitor (`health.go`) | score, `pauseTriggered`, `lastDecay` | six Record methods, `SetPaused`, `Reset` | lazy decay, two thresholds with hysteresis | no event crosses a threshold unnoticed |
| State persistence (`persist.go`) | state in memory, `dirty`, file and temporary file | `SetPath`, `Load`, saves, `Flush`, auto-save, `Stop`, `Reset` | crashes and I/O errors between steps, two goroutines that save | the file is never torn; a clean manager is on disk; saves arrive |
| Rate limiter (`rate_limiter.go`) | three lists of timestamps, burst credit, the shared limits and delays | `CanSend`, `Record`, `AdaptLimits`, `GetDelay` | check and record are two calls with a delay and a network send between them; the limits are changed under other parts that read them | real sends stay within every window's cap |
| Ban recovery (`ban_recovery.go`) | phase, ban events, ramp day | `RecordBanEvent`, `Tick`, `Reset`, `GetStatus` | its multiplier is applied to the limits in other handlers | a ban throttles, recovery ramps up |
| Circuit breaker (`circuit_breaker.go`) | per recipient: state, failures, two times | `CanSend`, `GetJitter`, `RecordSuccess`, `RecordFailure` | reports of sends admitted earlier; lazy eviction | a failing recipient is refused for its cooldown and then admitted again |
| LID resolver, canonicalizer (`lid_resolver.go`, `jid_canonicalizer.go`) | two maps and a recency list | `Learn`, `OnIncomingEvent`, lookups | three structures changed together, eviction | the maps are inverse, the list holds exactly their keys, the size is bounded |
| Warm-up (`warmup.go`) | day, daily count, last send | `CanSend`, `Record`, `Reset`, `ExportState`, `ImportState` | calendar days that roll over only when asked, inactivity, a cap that others shrink | a day sees no more than its limit; the day number never runs ahead of the calendar |
| Time-lock guard (`timelock_guard.go`) | `blockedUntil`, generation, known chats | `Record463Error`, `autoLift`, `Lift`, `Reset`, `RegisterKnownChat`, `CanSend` | goroutines of older generations, two unlocked gaps | the end of a lock is announced, once, and not after a Lift |
| Contact graph (`contact_graph.go`) | per contact: state, daily count; joined groups | `CanMessage`, `RecordMessage`, handshakes, group joins | contacts nobody registered; answers that are stale when used | strangers are limited per day (they are not), groups are left alone while lurking |
| Retry tracker (`retry_tracker.go`) | retries per message | `RecordRetry`, `IsSpiraling`, `Clear` | one expiry goroutine per retry deletes the whole list | a fresh spiral is seen, and nothing else; the map empties |
| Delivery tracker (`delivery_tracker.go`) | two windows of times | `OnMessageSent`, `OnDeliveryReceipt`, `GetStats`, `Reset` | two lists pruned by one function; the alert has no caller | the statistics are those of the last hour |
| Group guard (`group_guard.go`) | window per operation | `Check`, `Reset`, `GetStats` | decides and records in one step, reads the clock twice | caps per ten minutes |
| Reconnect throttle (`reconn_throttle.go`) | time of reconnect | `OnReconnect`, `BeforeSend`, `Destroy` | lazy end of the ramp, reconnects inside it, a minimal delay that others raise | delays fall along the ramp and end with it |
| Scheduler (`scheduler.go`) | none (clock and configuration) | `IsActiveTime`, `MsUntilActive`, `AdjustDelay` | hours over midnight | waiting `MsUntilActive` leads into active time |
| Proxy rotator (`proxy_rotator.go`) | endpoints, ticker, stop channel | `Rotate`, `MarkFailure`, `ResurrectAll`, `StartRotateEvery`, `Stop` | the ticker field read without the mutex while Stop clears it | strategies choose as named; Stop ends the goroutines (and not the process, unless it is hasty) |
| Presets (`types.go`, `presets.go`, `profiles.go`) | configuration | `DefaultConfig`, `ResolveConfig` | merging of overrides | overrides win |
| Gateway (`cmd/gateway/main.go`) | server, templates, a channel for the QR code | HTTP handlers, shutdown | shutdown order | requests end |
| Content variator, device fingerprint | none kept | random edits | – | not modelled |
| whatsmeow (vendored), connection | `socket`, two flags, one keepalive loop per socket, any number of `autoReconnect` goroutines | `Connect`, `Disconnect`, `ResetConnection`, `onDisconnect`, stream errors, keepalive | flags changed outside the lock; each path leaves the reconnection to another | a client meant to be online is never left alone; a Disconnect holds |
| whatsmeow, requests | `responseWaiters`, one channel per request | `SendMessage`, `retryFrame`, `receiveResponse`, `clearResponseWaiters` | an untimed wait after a retry; connections that end between any two steps | no request waits for an answer that nobody can give |
| whatsmeow, the rest | – | – | encryption, stores, media, generated code | external |

`AntiBan` (`antiban.go`) owns one of each and serialises `BeforeSend`,
`AfterSend`, `AfterSendFailed` and the `On…` methods with `ab.mu`; `Pause`,
`Resume`, the health callback and the ban timer bypass that mutex. The send
loop calls `BeforeSend` before and `AfterSend…` after the network send;
`handleEvent` is called by whatsmeow, mostly on goroutines of their own.
`New` gives every part the address of the same configuration (antiban.go:78–94).
Most of it never changes; the caps and the two delays do, by
`RateLimiter.AdaptLimits`, and the warm-up and the reconnect throttle read them.
All hazards found, with their source lines, are in `PROJECT.json`.

## Modules

| Module | Models | Remarks |
|---|---|---|
| `SendQueue` | `wrapper.go`: client, callers, send loops | channels are numbered by the Start that made them, 0 is the nil channel |
| `SendService` | abstract: each submission is decided once and its caller told that decision or nothing | refined by `SendQueue` (mapping `Service` in `SendQueue`) |
| `HealthMonitor` | `health.go` | actions only; no callers |
| `PauseControl` | all writers of `isPaused`, with `HealthMonitor`'s actions | a handler is the sequence of calls it has still to make |
| `Persistence` | `persist.go` with `saveState`, `Start`, `Stop` of `wrapper.go` | disk, crash and new process |
| `TimeWindow` | the lists of times that three trackers count and prune, and the history of a fourth | operators only; the list is in order of time, so the pruned list is its end |
| `SharedConfig` | the caps and delays of the configuration, and `AdaptLimits` | extended by everything that reads them |
| `RateLimiter` | windows and burst | times are ages in ticks |
| `BanRecovery` | phases and multiplier | multipliers are fractions |
| `Recovery` | `antiban.go`: failed sends, stream errors, reconnects on top of the two | composition |
| `CircuitBreaker` | `circuit_breaker.go` under several loops | times are ages in ticks |
| `LidResolver` | the LID cache fed by `OnIncomingEvent` | `Learn` is a composition of four functions on a snapshot |
| `ContactBook` | abstract: a bounded list of pairs, latest first | refined by `LidResolver` (mapping `Book` in `LidResolver`) |
| `Scheduler`, `WarmUp` | `scheduler.go`, `warmup.go` | operators and actions |
| `Calendar` | `BeforeSend`'s calendar checks under several send loops, failed sends and reconnects | composes the two |
| `TimelockGuard`, `ContactGraph` | `timelock_guard.go`, `contact_graph.go` | actions only |
| `Admission` | `BeforeSend`'s checks of the chat, `AfterSend`, incoming messages, error 463, `Destroy` | composes the two under several loops |
| `TimelockLift` | the `autoLift` goroutines | on top of `TimelockGuard` |
| `ReconnectThrottle` | `reconn_throttle.go`, with the failed sends and reconnects that stretch the delays | times are ages in ticks |
| `GroupGuard`, `RetryTracker`, `DeliveryTracker` | the three window counters | |
| `ProxyRotator`, `ProxyTicker` | the choice of a proxy; the goroutines that rotate | |
| `Connection` | whatsmeow's `client.go`, `keepalive.go`, `connectionevents.go`, `socket/` | actions only |
| `Reconnection` | `Connection` with a record of what the program asked for | |
| `Requests` | `Connection` with the messages under way (`send.go`, `request.go`) | |
| `…Proofs` | TLAPS proofs | see below |
| `MC…` | instances for TLC | constants, symmetry, parts side by side; `MCStrangers` adds a count of messages per person |

Operators named "variant" in a comment change one definition the way a
plausible bug would. `PROJECT.json` lists which property each of them must
break; they are used for nothing else.

### Correspondence to the code, and abstractions

*SendQueue.* Start is two steps because the loops read both fields without
the mutex. `ReadQueueField` and `ReadStopField` are the two channel
evaluations of the `select`, in source order. `processSend` is the sequence
check, (sleep, recheck), (delay), send, answer. `BeforeSend` is a choice among
"send", "delay", "later" (blocked with a delay) and "block", and only "block"
while paused, which is its first test. `SendDone(l, "failed")` is a send that
went out and whose acknowledgement was lost. A panic (`crashed`) ends
everything. Message contents, canonicalisation of the recipient and content
variation are left out: no property depends on them.

*PauseControl.* whatsmeow starts most handlers with `go cli.dispatchEvent`, so
calls of different handlers interleave, while each call is atomic (it holds
`ab.mu` and `hm.mu`, or is one atomic store). The score is an integer, time
whole minutes; decay looks at minutes, so fractions only add scores between
the ones checked. Errors appear as the ban type that `ClassifyError` gives
them. The events without effect on health or pause (messages, receipts,
identity changes) are left out. Two histories carry the properties: `held`
says that a Pause is in force, by the operator or by the ban handler, and
`lone` that the last callback to start was alone in flight, with no Pause in
force, and that nobody called Pause, Resume or Health.Reset since.

*Persistence.* `saveState` is four steps because it takes two mutexes twice
each; `Flush` is one critical section, in steps because the process can die
in it. A rename is atomic, a write is not. A crash may happen anywhere; the
disk survives it. The warm-up fields are one number. Nothing in the wrapper
calls `SetPath` or `Load`; they are actions of the embedding program, allowed
before Start.

*RateLimiter, Recovery.* Times are appended as they come and read from one
clock, so a list is in order and what `prune` keeps is the end of it; that
this is the code's filter is `KeepAfterFilters` below. `admitted` holds the loops between a `CanSend` that
said yes and what becomes of the message; the real sends are kept in
`sentLog`, independently of the lists the code prunes. `GetDelay` is only time
that passes and is not modelled. `ClassifyError` is applied to error kinds, not
to strings.

*SharedConfig.* `AdaptLimits` multiplies three caps and divides two delays, all
with the truncation of the code and with the factor clamped to 1/10 .. 1.
`Recovery` has it with the phases of the ban recovery, which decide the factor.
In `Calendar` and `ReconnectThrottle` the factor is any that the recovery can
answer (`Factors`, with the default `RecoveryRampPct` of 1/4), at any failed
send or reconnect; each keeps to the fields it reads, the caps or the delays.
The delay that `BeforeSend` gives a message refused by the limiter
(antiban.go:130) comes from `AntiBan`'s own copy and does not change. Delays
above `DelayCap` are not told apart.

*CircuitBreaker.* `CanSend` and `GetJitter` are separate steps. Two loops
exist only after a restart; `BeforeSend` holds `ab.mu`, so for one loop the
two follow each other directly, and the model allows more.

*LidResolver.* JIDs are records of a user and a server; `extractJIDUser` takes
the user. A missing participant and a participant that is not a LID's partner
teach nothing, as in the code. Lookups change nothing: a pair that is used
does not become recent.

*Calendar.* A tick is an hour, and a loop that wakes acts within its hour.
`BeforeSend` is the whole handler: the scheduler refuses with the time to the
next active hour, `WarmUp.CanSend` changes the day as a side effect and
answers, and the checks after it may still refuse, with a delay ("blocked") or
without. `BeforeSendAtTheTurn` is the case in which `IsActiveTime` and the
second look in `MsUntilActive` fall on different sides of the hour. Days have
24 hours: `MsUntilActive` adds 24 hours for the next day's start
(scheduler.go:83), which misses it by an hour when the clocks change in
between; that night is left out. The growth
factor, a random number drawn once, is a constant chosen at the start; the
limit is computed in integers with the code's rounding down.

*Admission, TimelockLift.* `destroyed` is tested before `ab.mu` is taken, so
`Enters` and `Checks` are two steps. A message is "sending" from the answer to
the network call, with the delay in between. `Incoming` is the Message event,
which registers the sender even on a destroyed instance. In `TimelockLift` a
goroutine keeps whether the generation it loaded is still the current one,
which is all the code compares. The time lock is shared code: `Admission` has
no goroutines, `TimelockLift` no senders.

*RetryTracker, DeliveryTracker, GroupGuard, ReconnectThrottle.* Times are ages
in ticks or instants of a bounded clock. A receipt may come at any time,
whether or not a message is open. Histories (`recorded`, `lastHour`,
`allowed`, `rampAge`) remember what the pruned structures forget and are what
the properties compare with. A goroutine that sleeps may wake late.

*ProxyRotator, ProxyTicker.* `LastUsed` is a rank, random numbers are all
numbers of their range. The goroutine evaluates `pr.ticker.C` at the start of
each `select`; with a nil ticker that is a panic. A tick may already be in
the channel when the ticker is stopped.

*Connection, Reconnection, Requests.* `cli.socketLock` is held during a dial
and its handshake (`dialer`); every action that takes it needs it free. A
socket is open or not; when it is closed by the other side, or by
`Stop(true, true)`, a callback goroutine (`closing`) is on its way, after
`Stop(true, false)` it is not. Both flags are set as one step, because nothing
between the two stores reads both. `autoReconnect` goroutines are counted:
asleep, or past the sleep and waiting for the lock. A socket identity is used
again once nothing refers to it. In `Requests` the waiter, its channel (one
place) and the socket read are separate, since the connection may end between
any two; `Cleared` says that every step that takes `cli.socket` away calls
`clearResponseWaiters` in the same critical section, as each of the three
places in the code does. The answer of the server is taken from the map
and written to the channel in two steps, and a channel closed in between is
a panic. Being logged in is not told apart from being connected.
`handleConnectFailure` is a step that marks the end as expected, for the
reasons after which whatsmeow does not reconnect (a failed refresh of the CAT
included); for the others it changes nothing. Like a stream error "replaced"
it counts as the server's wish that the client be off.

## Runs

| Run | Instance | Shows |
|---|---|---|
| `events` | pause level 50, 2 handlers, 2 callbacks in flight, 1 ban timer; 2 sockets, 2 autoReconnects, 1 request | `Hysteresis`, `FlagFollowsHealth`, `NeverStranded`, `RetryNotForgotten`, `DisconnectSticks` |
| `send_queue` | 2 callers, queue of 1, 2 Starts | `Conservation`, `HonestReply`, `BoundedSlip`, `ImplementsSendService` |
| `client` | queue: 1 caller, 2 Starts; state file: 1 chat, 1 event goroutine, 1 send per process, 1 crash; fairness | `CancelFrees`, `Answered`, `StopEndsLoops`; `NeverTorn`, `CleanMeansSaved`, `SavedEventually` |
| `recovery` | 2 loops, windows of 1, 2 and 3 ticks, caps 1, 2 and 4, delays of 1 (up to 5), burst 1, 3 ban events | `WithinCaps`, `ThrottleApplied`, `DelayBounded`, `RampNeverFalls`, `OldBansForgiven` |
| `guards` | breaker: 2 recipients, 2 loops, threshold 2, cooldown 3; 2 group operations; 1 message retried; 3 proxies; 2 tickers; fairness | `StateMatchesFailures`, `RepeatedFailuresBlock`, `AutoRecovers`; `GroupCap`; `SpiralDetection`, `RetriesForgotten`; `DeliveryStatsExact`; `RotatorChoice`; `StopIsSafe`, `RotorsEnd` |
| `before_send` | 5 users in a cache of 3; days of 4 hours, 2 loops, a cap of 3 a day that shrinks; a person and a group, 2 loops; 3 lift goroutines; a ramp of 4 ticks, delays of 4 to 40; fairness | `MapsInverse`, `OrderMatchesCache`, `Bounded`, `ImplementsContactBook`; `WakesInActiveHours`, `WarmUpPace`; `AdmissionSlips`; `NoSpuriousLift`, `LiftAnnounced`; `ThrottleHolds` |
| `pause_conservative` | level 30 | violated: `PausedOnElevatedRisk` |
| `pause_held` | level 50 | violated: `PauseHolds` |
| `send_restart` | 2 Starts | violated: `StopReturns` |
| `persist_stop` | 1 chat, 1 send | violated: `StopSaves` |
| `recovery_ramp` | 1 loop | violated: `RampsUp` |
| `stranger_limit` | a person and a group, 2 loops, 1 message a day | violated: `StrangersLimited` |

`events`, `client`, `guards` and `before_send` hold components side by side: a variable
`part`, chosen at the start, says which of them runs. Every behaviour is one of
a single component, and a property of one is trivially true in the others'
behaviours. Nothing is lost by it: what a component shares with others (the
caps and delays) it lets change by itself, in every way the others can.

The passing runs have between 130,000 (`guards`) and 4.1 million (`events`)
distinct states.

### Bounds

- A cache of 3 with 5 users meets every relation between a new pair and the
  cached ones (LID known, number known, both, neither) below and at capacity.
- A queue of 1 is full with one message; the second caller then meets the full
  queue. Two Starts are enough for two loops on one queue; a third changes
  only how many. A second Stop ends every behaviour in a panic, so
  `StopEndsLoops` is about the first. The liveness run has one caller: with two
  it does not finish, so the wait behind another caller's message is covered
  by the safety run only.
- `MaxCallbacks = 2` gives two callbacks in either order. `MaxIdle` and
  `MinScore` bound the clock and the fall of the score (the code has no
  floor). The proofs do without these bounds.
- One crash in `Persistence`: a process sees no more of the earlier ones than
  the disk, and two processes produce every disk that `NeverTorn` allows. One
  send per process tells a copy made before it from one made after it, in the
  chats and in the counter; which of two racing savers is older is seen by it.
- Window lengths keep the order minute < hour < day; caps are chosen so that
  every cap is the binding one in some state. Two loops give the overlap of
  one message that `WithinCaps` allows for. A tick is the resolution of the
  comparison with the cutoff, where an entry exactly one window old goes.
- Two sockets: the old one whose callback or keepalive loop is still running,
  and the new one; a third would wait for the first to be forgotten. Two
  `autoReconnect` goroutines give the race between them; a spawn beyond
  `MaxAuto` waits, which only removes behaviours with more competitors. One
  request: requests touch each other only through `clearResponseWaiters`,
  which treats them alike.
- A day of four hours with two active ones has an hour before, two inside and
  one after; `InactivityTD` of two days lets a loop be silent for a day
  without starting over, and for longer. Three days of warm-up see a first, a
  middle and a last day. `ASSUME`s admit windows over midnight, and
  `WakesInActiveHours` is proved for them (and was checked with start 3, end 1).
- A cap of 3 a day with an initial limit of 1 is brought to 2, to 1
  and to 0, below that limit, by the factors of the recovery; delays of 4 reach `DelayCap` (40) by one factor
  of 1/10. In `recovery` the cap times the delay is 4, below `DelayCap`, so
  that `DelayBounded` is not true by the cutting off.
- Up to six receipts for three messages within an hour: more receipts than
  messages, and fewer.
- Three lift goroutines and three errors: one sleeping, one that has yet to
  load and one between comparison and mutex.
- Retries are kept for two windows and the lag, the longest a goroutine's
  retry can matter; four retries exceed the threshold twice.
- Two tickers: a rotor on the old ticker and one on the new.
- `MaxFailures` is above the threshold, so failures of probes and of sends
  admitted before the breaker opened occur.

### Fairness

The fair specifications are in the MC modules of the runs with liveness.
`client`, the queue: a goroutine that can run does (Go's scheduler), so each loop and
each waiting caller is weakly fair as a whole. The `select` is not asked to
choose any case; sleeps and delays end. whatsmeow's send returns. Calls from
outside (SendMessage, Stop, Pause, cancellations) are never forced.
`client`, the state file: the ticker fires, the auto-save goroutine, a flush and the
savers move on; nothing says that a write succeeds, which is why
`SavedEventually` excepts errors without end. `guards`: time passes, a send under way ends, sleeping
goroutines wake, and a rotor that can run does; `select` picks among ready
cases at random, so a closed stop channel is taken eventually although ticks
keep coming (strong fairness of `TakeStop`). `before_send`: time passes and the
lift goroutines run. `events` states safety only.

### Disagreements with the documentation

1. `pause_conservative`: health.go:9 says the monitor "auto-pauses on elevated
   risk". The callback in `New` (antiban.go:97) looks at the risk level
   instead of the monitor's decision, and below a score of 40 that is medium:
   the conservative preset (30) is paused for the monitor while messages go
   out. At 85 the error is on the other side: a pause lifted at 40..42 stays.
   Between 40 and 80 the two agree, which is proved.
2. `pause_held`: "Pause stops all outbound messaging until Resume is called"
   (antiban.go:287). The callback stores FALSE for every level below high,
   whoever set the flag, so the next lift ends an operator's pause.
3. `send_restart`: "Stop shuts down the send queue, saves state, and stops
   auto-save" (wrapper.go:97). Stop may be followed by Start, but the next
   Stop closes `StateManager.stopCh` a second time and panics (persist.go:65).
4. `persist_stop`: Stop flushes (wrapper.go:108) and then collects the state
   (109); what it collects is not written.
5. `recovery_ramp`: "gradually ramping up messaging activity after a ban"
   (ban_recovery.go:16); `AdaptLimits` multiplies the limits in place and
   nothing ever raises them.
6. `stranger_limit`: "batasi kontak stranger" (README.md:31; the limit is
   `cfg.MaxStrangerPerDay`, README.md:178). Sending enters nobody in the contact
   graph and `CanMessage` lets everybody without an entry pass (contact_graph.go:52
   and 158), and no call makes an entry that is a stranger's: the limit never
   applies.

Observed while modelling, without a run of its own:

- "Start launches the send queue loop and restores persisted state"
  (wrapper.go:73): it restores what the StateManager has in memory, and nothing
  in the repository calls `Load` or `SetPath`, so after a restart that is
  nothing unless the embedding program makes the two calls.
- A lift and the next pause start one callback goroutine each (health.go:75 and
  82) and nothing orders them: if the lift's is the last to write `isPaused`,
  the monitor's pause is triggered and messages go out. `PauseControl` has
  these behaviours; `FlagFollowsHealth` is about callbacks that do not overlap.
- README.md:26 gives the warm-up's limits as 20 on day 1 and 680 on day 7.
  `getDailyLimit` begins a step above the initial limit, ends at
  `MaxPerDay`, whatever that is, and follows it when `AdaptLimits` shrinks it.
- README.md:52 calls the LID cache an LRU cache; a lookup does not refresh an
  entry, so it evicts the least recently learned one.
- README.md:20 lists the warm-up before the active hours; the code asks for the
  hours first.
- `AfterSendFailed` with error 463 does not lock (only a stream error does),
  and nothing registers known chats, so a time lock stops all chats.
- A group operation, a retry, a handshake, a group join or a proxy reaches its
  guard only if the embedding program calls it; `checkAndAlert` and
  `WarmUp.ImportState` have no caller at all, so a restart begins the warm-up
  anew.
- `ProxyRotator.Stop` while a goroutine rotates, or twice, ends the process.
- `GetJitter` asks `CanSend` again: at the end of a cooldown the message is
  refused with delay 0 instead of being sent.
- Ban events in a different order end in different phases: a soft ban after a
  time lock raises the multiplier from 0, a time lock revives a dead account.
- `RetryTracker.GetStats` overwrites the count of "other" reasons.
- whatsmeow: the one connect after a 515 is not retried if it fails; a socket
  that dies between the end of the handshake and the assignment of its
  callback is installed and reported by nobody until something is sent on it
  (both are excepted in `NeverStranded`); a Disconnect that meets a running
  reconnection can be undone by it (excepted in `DisconnectSticks`); a stream
  error "replaced" of an old connection, handled late, marks the new one as
  expected to end; an answer that arrives while its request times out is
  written to a closed channel and ends the process (`panicked` in `Requests`);
  `FrameSocket.processData` counts the three bytes of the header as received
  when a frame is split over two websocket messages.

And of the modules of the first part: the score goes below zero
on reconnects (README.md:39 gives 0–100); a ban timer ends an operator's
pause, and a message that is past `BeforeSend` goes out during a pause (antiban.go:287; `BoundedSlip` says how many can); messages
still queued at Stop are never answered; nobody calls
`BanRecovery.Tick`, `TimelockGuard.RegisterKnownChat` or the delivery
tracker's `checkAndAlert`; `OnIncomingMessage` passes no participant, so the
LID cache learns nothing from messages, and `processSend` asks it for full
JIDs although its keys are user parts.

## Proofs

| Module | Theorem | Statement, for all values of the constants |
|---|---|---|
| `SendQueueProofs` | `MessagesConserved`, `RepliesHonest`, `SlipsBounded` | the three invariants of `send_queue` |
| | `SendRefines` | `Spec => ImplementsSendService` |
| `EventsProofs` | `HealthHysteresis` | `Spec => []Hysteresis`, every pause level |
| | `FlagAgrees` | `Spec => []FlagFollowsHealth`, pause levels 40..80 |
| | `ConnectionComesBack`, `DisconnectHolds` | `ReconSpec => []NeverStranded`, `ReconSpec => DisconnectSticks` |
| | `RetriesAnswered` | `NetSpec => []RetryNotForgotten` |
| `RecoveryProofs` | `CapsHold`, `ThrottleKept` | `Spec => []WithinCaps`, `Spec => []ThrottleApplied` |
| | `DelaysBounded` | `Spec => []DelayBounded` |
| | `RampOnlyRises`, `OldBansAreForgiven` | the action properties `RampNeverFalls` and `OldBansForgiven` |
| `WindowProofs` | `KeepAfterFilters` | pruning a list in order keeps exactly the times in the window, in order, and changes no count of a window up to its own |
| `PersistenceProofs` | `FileWhole`, `CleanIsSaved` | `PersistSpec => []NeverTorn`, `PersistSpec => []CleanMeansSaved` |
| `GuardsProofs` | `BreakerTypes`, `ProbeReopens`, `FailingIsBlocked` | the breaker's types and its two invariants in `guards` |
| | `CapKept`, `StatsExact` | `GroupSpec => []GroupCap`, `GroupSpec => []GroupStatsExact` |
| | `StopSafety` | `TickerSpec => []StopIsSafe` |
| | `StatsCountTheHour` | `DeliverySpec => []DeliveryStatsExact` |
| | `SpiralsAreDetected` | `RetrySpec => []SpiralDetection` |
| | `RotatorChooses` | `RotatorSpec => []RotatorChoice` |
| `BeforeSendProofs` | `SleepsUntilActive` | `CalendarSpec => []WakesInActiveHours`, all active hours |
| | `NeverAheadOfTheCalendar`, `WarmUpKeepsPace` | `CalendarSpec => []NeverAhead`; `[]WarmUpPace` if `InactivityTD >= HoursPerDay` |
| | `SlipsPerLoop` | `AdmissionSpec => []AdmissionSlips` |
| | `LiftsAreAwaited` | `LiftSpec => []NoSpuriousLift` |
| | `RampHolds` | `ThrottleSpec => []ThrottleHolds` |
| `LidResolverProofs` | `InvariantHolds`; `TypeCorrect`, `AlwaysInverse`, `AlwaysListed`, `AlwaysBounded` | the cache invariant, its types and its three invariants in `before_send` |
| | `BookRefines` | `Spec => ImplementsContactBook` |

The specifications are those of the components; the runs `events`, `client`,
`guards` and `before_send` put the same actions side by side.

Assumptions are the ones named in the modules that declare the constants, and
TLC evaluates them in every run. Nearly all say that a number is a number, or
positive. The others: `NoCaller`, `NoJID`, `NoSocket` and `NoChat` are not
members of the sets they are missing from; loops and senders are finitely many,
and the limiter and the calendar have at least one (`LimitAssumption`,
`LoopAssumption`), since the allowed overlap is counted in loops; windows grow
from minute to day (`WindowAssumption`); the preset's delays are not above
`DelayCap` (`LimitsAssumption`; it can be chosen as large as wanted); active hours start and end at
different hours of the day (`SchedulerAssumption`; the code treats equal ones
as no hours at all); no chat is a person and a group (`ContactAssumption`:
`IsGroup` tells them apart); a proxy's weight, any integer, is at most twice
the failures that are counted plus one (`RotatorAssumption`: beyond that number
another failure changes no weight, so the bound can be chosen for any weights).
Two theorems have a hypothesis of their own.
`FlagAgrees` holds for pause levels 40..80 only, as run `pause_conservative`
shows. `WarmUpKeepsPace` asks for an inactivity threshold of a day or more
(the default is 48 hours, types.go:194): with less, an inactivity reset could start the
count of a day over within that day.

*Send queue.* A property with cardinalities of places is unsuited for
induction. `SendInv` says instead, pairwise, that a caller's message is not in
two places (two positions of queues, two loops, a queue and a loop, either and
an answer), and where it must be in each state of the caller; the
cardinalities follow at the end. `HonestReply` needs the number of network
sends in each step of `processSend`. For `BoundedSlip` the invariant counts
`slips` together with the loops that are past their check, which can still
slip: a pause starts the count at zero and a send moves a loop from one side
to the other. In the refinement the abstract fate of a message is its
answer, or pending while it is in a queue or in a loop's hands; the lemmas
show that each step changes the fate or the reply of at most one caller.

*Pause.* `Hysteresis` needs only the monitor's types and that handlers make
calls of known kinds (`MonitorInv`). `FlagFollowsHealth` speaks about states
without callbacks in flight; its strengthening `Agreement` adds the states
with exactly one, which will write what agrees with `pauseTriggered`. A
second callback, a Pause, a Resume or a Reset clears `lone`, and after a Pause
it stays clear until a Resume. The level enters
through one lemma: for 40..80 the risk level at the moment of the decision
lies on the decision's side of the callback's thresholds.

*Connection.* `NeverStranded` is about one moment; what keeps it is who passes
the duty to reconnect on to whom. `ConnInv` says that only the installed
socket is open, that none is installed during a dial, and that a socket with a
callback to come is not open. `ReconInv` adds four facts. While the program is
online an end is expected only in the middle of a relogin or of a reconnect
that a keepalive loop forces (`ExpectedMidway`), so no other lost socket is
taken for a wanted end. A socket closed by a reset will be brought back by its
callback or by an `autoReconnect` (`ResetsFollowed`). A lost socket has a
callback or a reconnection behind it (`NotLost`). After a calm Disconnect the
end is expected and nobody is reconnecting (`CalmStays`), from which
`DisconnectSticks` follows.

*Requests.* `NetInv` adds to `RetryNotForgotten` that only a request that is
over has a closed channel, and that one which has still to write its retry on
an open socket has been told or has its waiter registered. Two lemmas carry
this through every step of the connection: the installed socket stays
followed until it is taken away, and whoever takes it away tells every waiter
in the same step.

*Windows.* All trackers count times in a list that they prune, while the
properties count a history that is not pruned by the code. `Agree(s, t, w)`
says that two lists have the same count for every window up to `w`; it
survives an append to both, a tick of both, and pruning of either by a window
of at least `w`. The lemmas are stated once and used by the limiter, the ban
events, the delivery tracker and the history of the retries.

*Recovery.* `WithinCaps` is not inductive: a loop that was let in sends later,
when the cap may already be reached. The invariant counts admitted loops as
sends, for each window, and adds the credit spent to the minute's cap; the
lists of the limiter agree with the history up to their window. `AdaptLimits`
only lowers limits. `ThrottleApplied` needs that the share of the phase in
force can only grow without a new ban (`ShareGrows`), with the products and
truncations of the code's integer arithmetic in lemmas of their own. For
`DelayBounded` neither factor is the invariant but the product: `Stretched`
says that the day's cap times the longest delay never exceeds the preset's
product, because what truncation takes from a cap and from a delay only makes
it smaller (`ProductFalls`). A cap above zero is at least one, which bounds
the delay.

*Persistence.* `DiskInv` ties the temporary file to the step of the running
flush: between write and rename it is the whole image of the state in memory,
which no save can change because the mutex is held.

*Circuit breaker.* `FailingIsBlocked` compares the code's counters with
history variables that forget nothing but successes and gaps longer than ten
minutes; the invariant says that an entry's failures are at least the streak
as long as the last failure is not stale, so that eviction of closed entries
cannot lose a streak that still counts.

*Group guard.* `GroupCap` is about the history of what was allowed, `Check`
counts its own pruned list. `GroupInv` says that inside the window the two are
the same finite set; one more stamp on a list below the limit stays within it,
and a later window only loses stamps.

*Proxy ticker.* `CalmStop`: without a ticker, and unless Stop was hasty, every
goroutine is parked, done or not started. `QuietSoon` counts late rotations
together with the goroutines that may still make one; whoever has rotated
finds no ticker.

*Retry tracker.* The list in the code has no times and is deleted as a whole,
by the goroutine of any retry of the message. `RetryInv` says of the retries
of a message, oldest first, which of them are in the list: the last ones, each
made since the last Clear and with its goroutine still asleep, hence young. And
why another one is not: it was cleared, or is as old as the window, or there is
a retry as old as the window that is not older than this one by more than the
window and the lag, whose goroutine may have deleted it. That last retry is
forgotten by the history only when this one is old itself. Out of a quiet
window none of the three reasons is possible, so the list is complete.

*Proxy rotator.* The searches are loops over the endpoints, written as
recursive functions. `Stepwise` is induction in a form without an operator as
parameter: the set of the steps after which a claim holds is all of them. It
follows from the well-foundedness of `<` on the numbers. With it `LoopRuns`
shows that every loop has a run, so that the recursive functions exist, and
`LoopStays` that a loop stays in its type. `findLRU` then keeps, after each
step, an endpoint that is no more recent than the working ones passed so far.
For the weights, the loops of `totalWeight` and of `shares` agree as long as
nothing cools down, shares are laid end to end without a gap or an overlap, and
a random number selects the endpoint whose share it falls into.

*Calendar.* That a sleeping message wakes in some active hour is not
inductive; `DueAtStart` says that it wakes exactly at their start, today's or
tomorrow's, and that the sleep is at most a day, so that midnight turns
tomorrow's start into today's and never takes today's away. `Behind` counts a
day that has turned and not been counted yet, which `CanSend` may count at any
time. For the daily cap, the messages recorded since midnight are those in the
code's count and those let in before the day rolled over. Until `CanSend` is
asked on the new day there are only the latter, one per loop (`CarriedOver`);
from then on the messages sent and the ones under way stay within the limit
and the allowance (`WithinLimit`). The limit is the one of the last message
that was let in (`granted`): the cap of the moment may be lower by then, since
every failed send and every reconnect scales it.

*Admission, lift, throttle.* The slips of a lock, of a lurking period and of a
Destroy are counted together with the loops that were let in before it, whose
number never grows afterwards. That an announcement is awaited rests on
`OneAnnouncer`: outside the two gaps only the goroutine of the current
generation can get to it. The ramp rests on two facts of arithmetic: a larger
divisor does not give a larger quotient, and dividing by a clamped factor does
not make a delay smaller (`DelaysAdapt`).

*LID cache.* None of the four properties is inductive alone: eviction finds
its victim through the list, so that the bound needs the list to match the
maps, and deleting the old pairs keeps the list right only if the maps are
inverse. `IInv` conjoins them with the absence of duplicates in the list. It
is proved for a snapshot through the four stages of `Learn`, one lemma each;
the cardinality argument (a list without duplicates is as long as its set of
entries) is what turns the list's length into the bound on the maps. For the
refinement the same stages are followed once more: each removal thins the list
(`Thinned`: an increasing map of places), what the two removals leave are
exactly the LIDs whose pair shares neither side with the new one, and `Evict`
is a cut at `MaxSize`.

Only model-checked are the liveness properties: `CancelFrees`, `Answered`,
`StopEndsLoops`, `SavedEventually`, `AutoRecovers`, `RetriesForgotten`,
`RotorsEnd` and `LiftAnnounced`. The prover handles neither fairness nor
ENABLED. Every other property of a passing run, the two refinements included,
has a theorem. The modules that are proved about use no RECURSIVE operator.

## Plan

The plan of modules, runs and safety proofs is carried out. Left open are the
hazards of `PROJECT.json` that have a note instead of a property, and proofs of
the liveness properties should the prover learn about fairness.

## Not modelled

- `content_variator.go`, `device_fingerprint.go`: random edits and choices of
  text; nothing later depends on them.
- `presets.go`, `profiles.go`: one assignment per field. The gateway: HTTP,
  YAML and SQL around calls that are modelled. The example program: calls only.
- `RateLimiter.GetDelay`: random delays; only time passes in the model.
- Most of the vendored whatsmeow, and with it most lines of the repository:
  more than three quarters are generated protobuf code (`whatsmeow/proto`),
  the rest mainly Signal sessions, stores, app state, media, pairing and the
  parsing of notifications. They carry none of the logic that this library
  adds, and their data would have to be abstracted away entirely; what the
  library depends on, the life of the connection and of a message on it, is
  modelled. The modules cover nearly all of package `antiban` that keeps
  state, which is about one in forty lines of the repository.
- A product of all checks of `BeforeSend` with all their environments. What the
  parts share is the configuration (see `SharedConfig`), which each of them lets
  change in every way the others can; the product would add no behaviour that
  a property distinguishes.
