# Verification of the RePhone Lua firmware

TLA+ models, TLC runs and TLAPS proofs for `src/`: the firmware that runs Lua
on the RePhone (MediaTek MT2502). The paths below are relative to `src/`.

## The system

The firmware is one application on a vendor kernel. Four kinds of activity
share plain C globals, mostly without locks:

- the **main thread** runs an event loop: system events, non-precise timers,
  device callbacks, and the Lua chunks the shell sends to it;
- the **shell thread** reads lines, compiles them, has the main thread execute
  them and prints the results (itself, with `lua_pcall`);
- **device callbacks** push console input into a ring;
- a **HISR timer** counts ticks every 101.5 ms and interrupts everything.

### Inventory

| component | state | operations | hard behaviour | what makes it correct | model |
|---|---|---|---|---|---|
| Watchdog (`Lua/main.c`, `Lua/lua/lvm.c`, `ldo.c`, `lauxlib.c`) | `sys_wdt_time`, `sys_wdt_rst_time`, `sys_wdt_rst_count`, `do_wdt_reset`, `wdg_reboot_cb` | HISR tick, `_reset_wdg`, panic, `os.onreboot` | three activities, no lock; the test and the clearing of a request are statements apart; a Lua callback that re-enters `_reset_wdg` | healthy: never reset; hung: always reset; at most so many resets | `Watchdog` |
| Console ring (`Lua/retarget.c`, `Lua/bt.c`) | `retarget_rx_buffer`, head, tail, signal, mutex, `retarget_target` | three producers, `retarget_getc`, `os.retarget` | wake-ups, overflow, wrap, stale posts | a drop-oldest queue; no lost wake-up; honest idle clock | `RxRing`, `DropOldest` |
| Idle shutdown (`Lua/main.c`, `Lua/lua/loslib.c`) | `no_activity_time`, `max_no_activity_time`, `wakeup_interval`, `shutdown_cb`, the alarm | `wdg_timer_callback`, `_scheduled_startup`, `os.schedule`, `wkupint`, `noacttime`, `onshutdown`, `shutdown` | counter shared by two threads; alarm computed from an old time | sleeps for a reason, when idle, and wakes | `SleepWake` |
| Ymodem (`common/ymodem.c`) | block number, packets received, errors | `Ymodem_Transmit`, `Ymodem_Receive` | loss, damage, time-outs, early start of an end | what is stored is what was sent; both ends stop | `Ymodem` |
| Shell (`Lua/shell.c`, `Lua/main.c`) | the message, the signal, `g_shell_result`, the shared `lua_State` | `loadline`, `remote_docall`, `shell_docall`, `report`, print, the callbacks | two threads on one `lua_State`; events served between the message and its execution | every result belongs to its line; errors land on their own thread | `Shell`, `RemoteCall` |
| Collector (`Lua/lua/lgc.c`, `lauxlib.c`) | colours, the gray lists, `tmudata`, the sweep | the steps, the barriers, `luaC_fullgc`, finalizers | any allocation may run a step or a whole cycle (EGC) in the middle of anything | nothing reachable is freed; garbage is; a finalizer once | `LuaGC`, `Heap` |
| Timers, NTP (`Lua/timer.c`, `Lua/sntp.c`) | the id of a timer; one timer, socket and callback for NTP | create, delete, collect; request, tick, datagram | identifiers used again; a second request; the answer racing the time-out | a timer is deleted by its owner; what a request opened is closed | `Timers` |
| HTTPS (`Lua/https.c`) | channel, request, segment, post buffers | get, post, cancel, seven callbacks | an answer after a cancel, a request during another | what is sent is what was asked | `Https` |
| Bluetooth (`Lua/bt.c`) | manager and SPP handles, connection, buffer, `retarget_target` | start, stop, callbacks | failures half way, a disconnection of the console | handles match what is open; the console is a device | `Bluetooth` |
| TCP (`Lua/tcp.c`) | `send_buf` | connect, events, close | two connections, one buffer | its own data, from a live buffer | `Tcp` |
| GSM calls (`Lua/gsm.c`) | `g_call_status`, `g_uid_info` | dial, accept, hang up, answers, indications | answers and indications out of order | a call that goes on can be hung up | `Calls` |
| 1-Wire (`Lua/sensor.c`) | the last discrepancy, the addresses found | `TM_OneWire_Search` and what repeats it | devices that come and go during the search | every device found once | `OneWire` |
| Thermometers (`Lua/sensor.c`) | parasite power, waiting time, start of the measurement | request, wait, read, resolution | a reading before the conversion has ended | no temperature older than its request | `Ds18b20` |
| Line editor, SMS, GPRS, GPIO, DHT11, I2C, audio, screen, drivers, check sums | - | - | - | - | see "Not modelled" |
| JavaScript firmware (`JS/`), `Https-demo/` | as above, smaller | - | - | - | see "Not modelled" |
| V7, the rest of Lua, cjson, struct, hashes, `include/`, `lib/` | - | - | - | - | vendored or external |

`PROJECT.json` lists the hazards line by line, with the property that covers
each or the reason why none does.

### Interaction

`retarget_getc` (shell thread) feeds the watchdog (`sys_wdt_rst_time = 0`) and
advances the idle clock. The timer callback (main thread) consumes both. The
modules share these variables by name, and each abstracts the other side:
`Watchdog` and `SleepWake` see `retarget_getc` as one step; `RxRing` sees it
statement by statement. `IdleClock` of `RxRing` is what lets `SleepWake` count
a second without input as a second.

`Shell` is the other composition: the shell thread and the main thread meet on
one `lua_State`. It takes a line as an input, whose way through the ring is
`RxRing`, and its `Reset` is the guarantee of `Watchdog` for a thread that has
stopped in `_exit`. `LuaGC` runs beside any of them, as every allocation may
collect; it shares no variable with the others.

The bindings share nothing but the main thread, which runs one call or callback
at a time, and each keeps its own static variables. `Bindings` is therefore
their sum: a behaviour is one of a program that uses one of them, and what holds
there holds when they interleave. What two of them do share is modelled in one
module: the timers of the SDK in `Timers`, `retarget_target` in `Bluetooth`.

## Modules

### Watchdog

One action per statement of `_reset_wdg`, for each of the two threads, since
the HISR and the other thread may come between any two; one action for the
HISR callback, which nothing interrupts. `pc` names the statement a thread is
at, `ctx` how it got into Lua (`lua_pcall` or `lua_call`), `depth` the nested
activations of `luaV_execute`. Time is in ticks and moves by `Interval`.
The variables after "history" in the declaration are read by properties only.

The code's values are `Interval = 22`, `Rst = 10834`, `Tmo = 13001`,
`MaxResets = 145`, `PanicTime = 99999`, LUAI_MAXCCALLS 200. The assumptions on
the constants hold for them with `Latency` up to 1060 ticks (4.9 s).

### RxRing and DropOldest

`DropOldest` is the promise: a bounded queue that loses its oldest element.
`RxRing` is the code: a callback per device (read, lock, post if empty, push
byte by byte, unlock) and `retarget_getc` (lock, test, wait, relock, count or
take, clear). `queue` in `RxRing` is the refinement mapping: the bytes from
tail to head. head and tail are modulo `Wrap`, as unsigned ints are.
A signal is a latch, as in the SDK: a post before the wait ends the wait.

### Ymodem

Both ends and a line between them. A symbol is a control byte or a packet with
its number; the line may drop or change any symbol, turn a packet bad, or take
its first byte, so that the rest is read as control bytes. Packets are numbered
modulo `SeqMod` as in the code; the file has fewer blocks than that (255 KB with
the code's 256): beyond it a repeated number is ambiguous in the protocol.
`Second` says when a second may pass at one end: with `hasty` at any time,
otherwise only while the line is silent at both ends. `hasty` is chosen once.

Not in the model: the text that `os.ysend`, `os.yrecv` and the log write to
the same line (in which the letter `a` is the code's ABORT2), and Bluetooth,
where `retarget_waitchars` returns -1 at once and no transfer can start.

### SleepWake

`wdg_timer_callback` after `_reset_wdg`, with the shell thread, the Lua
callbacks, the cable and the clock between any two statements. The clock counts
seconds modulo `Month`; an HMS alarm rings when it agrees with the clock modulo
`Day`, a DHMS alarm when it agrees modulo `Month`. An alarm that matches at the
moment the power goes down does not ring until the next time. The increment of
`no_activity_time` is one step: the shell thread has the higher priority.

### LuaGC and Heap

`Heap` is what a program relies on: what it can reach stays, a userdata with a
`__gc` is handed to it once after it became unreachable, an entry of a weak
table goes with its value only, nothing else changes; any garbage may go at any
time. `LuaGC` is `lgc.c`: the phases, one action per step (`singlestep`),
the lists gray, grayagain, weak and tmudata as sets, the barriers as parts of
the store that calls them, and `luaC_fullgc` from its beginning to its end
(`full`), since an emergency collection may start in any phase and calls no
finalizer. `color` is relative: the flip of the white in `atomic` renames what
is white to the other white. Every userdata is taken to have a `__gc`.
Upvalues, weak keys, coroutines, and the pace of the steps are left out.

### Shell and RemoteCall

`RemoteCall` is what the user is promised: a line is answered before the next,
it is executed once at most, by the other thread, and the answer is its outcome.
`Shell` is the code of both threads: `dotty`, `loadline`, `remote_docall`,
`report` and print on one, the message queue, `shell_docall` and the Lua
callbacks on the other, with the one Lua stack and the one chain of
`lua_longjmp`s. `overlap` becomes true when both are in the interpreter at once,
which nothing in the code prevents: a callback while the shell compiles or
prints, or a line during a callback. From then on anything may be on the stack
(`Put`) and an error may unwind the other thread's C stack (`Escape`). The
properties say what holds until then, and that until then it does hold is not
obvious: events are served between the compilation of a chunk and its execution,
with the chunk on the stack that their callbacks use.

### Timers, Https, Bluetooth, Tcp, Calls

One module per binding: what the Lua program calls, and what the SDK or the
network answers, in any order that the SDK allows. They show where the code's
one set of static variables stops to be enough. The history variables name that
moment: `overlapped` (a second request before the first has ended), `hungUp`
(the peer closes a connection with data), `crossed` (two calls, a refusal or a
late answer). Each property holds up to that moment, and TLC and the proofs show that
nothing else breaks it. What breaks after it is in the code:

- a Lua timer that was deleted is deleted again when it is collected, by its
  identifier, which may by then belong to another (`timer.c:70`);
- a second NTP request overwrites the timer and the socket of the first (`sntp.c:182`);
- `https.cancel` unsets the channel of the last request, and a POST never stores
  its channel (`https.c:117`); the channel of a GET whose answer is a single
  segment is not given back (`https.c:250`), which `ChannelsAreGivenBack` excludes;
- `send_buf` is freed and not cleared when the peer closes (`tcp.c:74`);
- after a failed bind the service is recorded as open (`bt.c:177`), and at a
  disconnection the console goes to device handle 0, whatever that is
  (`bt.c:128`); `PortIsWhole` holds in spite of both;
- `gsm.hang` ends the call of the last answer or indication, or none.

External, as these modules assume it: the SDK gives deleted timers' identifiers
again; asks to authorize a connection only while a service is bound, reports the
end of every connection, and sends no event of a closed service; the network
answers each action once.

### OneWire and Ds18b20

`OneWire` is the search bit by bit: all devices that follow a pass answer
together, `listening` is who still follows, and devices may come and go between
any two bits. An address is a sequence of `Bits` bits, 64 in the code; the proof is
for any number of them. No device has a first byte of zero, since the
code takes that for the end of the search.

`Ds18b20` is the request of a conversion from all thermometers, the wait, and
the reading. A sensor answers with what it has at any time: `stale` is set when
that is older than the request. A reset of the bus that nobody answers is the
fault: all sensors answer or none does. With parasite power the use of the bus
during a conversion loses it. Time is what the two kinds of resolution need.

### Mutants

Every property of a passing run has a mutant: an operator `Mutant...` before
the definition it stands in for, with a plausible slip of the code (a dropped
reset, an inverted test, a missing flush). No specification uses them; TLC
refutes the property when one replaces its original.

## Runs

| run | question | bounds |
|---|---|---|
| `watchdog` | are healthy boards left alone, hung boards reset, sessions bounded? | `Tmo = 7`, `Rst = 2`, two resets, C stack of 3: a window can outlast a whole watchdog period, both threads can hold a request, and the limit is reached |
| `watchdog_reboot` | does the limit reboot the board? (it does not: finding) | one reset |
| `rxring` | queue, wake-ups, clock | ring of 2, counters modulo 4, two devices with reads of 2 and 1 bytes, two characters: overflow, wrap and interleaved devices all happen |
| `ymodem` | is the transfer right? | 3 blocks, 2 faults, numbers modulo 4, 3 errors, 2 and 3 time-outs: every error path of both ends is taken; 105,433 states. `NoFalseSuccess` (a reported success means that the whole file arrived, at either end) is a claim about one fault, and TLC refutes it for two |
| `ymodem_resend` | are resends bounded by 10? (they are not: finding) | the code's constants, one fault |
| `ymodem_disk` | does a size mean a file? (it does not: finding) | the code's constants, no fault |
| `sleepwake` | does the board sleep for a reason, when idle, and wake? | a day of 4 seconds, a month of two days, limits 1 and 2, interval 2 or 0 |
| `sleepwake_missed` | does it wake within the interval? (it may not: finding) | the same |
| `luagc` | is anything reachable freed, or garbage kept? | Main and two objects of any kind, each with one reference, a stack of two: 47,653 states. A barrier, a weak entry, a finalizer that stores its userdata, and a full collection in every phase all happen; an object that is freed is used again for another. A chain black - white - white needs the third object that Main is |
| `luagc_finalizer` | are only dead userdata finalized? (no: finding) | Main, a table and three userdata; the program runs between cycles and in finalizers only |
| `shell` | does each line get its own answer? | line numbers modulo 3 tell an answer from that of the line before and the one before that; three events fill the queue before and behind a call; 46,974 states. |
| `bindings` | what do the statics of each binding guarantee? | two of everything that can be taken for another: timers, sockets, channels, URLs, connections, calls, thermometers; an NTP time-out of one tick; addresses of three bits with four devices, of which three are thermometers, and two places, so that the search has to stop early; 174,783 states. The proofs cover every other size |

`MCYmodem` and `MCShell` do not check deadlock: both ends of a transfer really
stop, and a Lua program need not end (`Endless` feeds the watchdog).

### Fairness

- `Watchdog`: time only. Threads may stop anywhere, which is the point.
- `RxRing`: weak fairness of each thread, since the kernel schedules them, and
  strong fairness of the shell thread's taking of the mutex: it has the higher
  priority, and producers hold the mutex for a bounded loop. Nothing obliges a
  device to send.
- `Ymodem`: each end runs. The line is not obliged to fail or to recover.
- `SleepWake`: the clock, the timer callback and the alarm. No Lua function is
  obliged to return, so `SleepsWhenIdle` excludes the time spent in one.
- `LuaGC`: weak fairness of the collector's steps, for a program that goes on
  allocating, and strong fairness of each object's finalizer, since `tmudata` is
  served in order. The program is obliged to nothing.
- `Shell`: weak fairness of the work of each thread, and of the reset after a
  panic, which `Watchdog` shows. Input, events, errors and the end of a Lua
  program are not obliged to happen: `Answered` excludes programs without end.
- `Timers`: the precise timer of a request ticks. `Https`: the SDK answers every
  request and unset, and the segments of an answer are finitely many. The other
  bindings have safety properties only.

## Findings

1. At the limit `_reset_wdg` calls a Lua `os.onreboot` callback, which cannot
   execute an instruction: `luaV_execute` calls `_reset_wdg` first, and the
   request is still pending. The calls nest until "C stack overflow"; under a
   `pcall` the board goes on (`watchdog_reboot`).
2. `Ymodem_Transmit` obeys every NAK; the comment promises ten
   (`ymodem_resend`).
3. `Ymodem_Receive` returns 1 when the disk is full, and `os.yrecv` prints
   "Received successfully" (`ymodem_disk`).
4. When the second of the alarm passes between the reading of the clock and
   the shutdown, the board sleeps for a day (`sleepwake_missed`).
5. `luaC_separateudata` is documented to move dead userdata to `tmudata`. When
   `luaC_fullgc` runs between two finalizers, the userdata still in `tmudata`
   are black from the cycle before, marking stops at them, and a userdata that is
   only reachable through one that the program has back is finalized while the
   program can reach it (`luagc_finalizer`). It stays allocated: `NoDangling`
   holds all the same.

## Proofs

`tlapm` checks, for all values of the constants that meet the named
assumptions, every safety invariant and action property of the runs, and the
three refinements. None of them is inductive as it stands; what each
module adds is this:

- `WatchdogProofs`: `AgeInv` (for `NoSpuriousFire`): while nobody is late, the
  hardware's age is at most the software's plus `Latency`; no request means that
  the software's age is at most `Rst`; and a pending request bounds the
  hardware's age by `Rst + Interval + Latency` plus the time it has been
  pending. `SilenceInv` (for `HangBound`): once the last sign of life is older
  than `Rst` no request is raised, and each thread that holds or may still take
  the pending one is worth one more period of the hardware (`Credit`).
  `KickInv` (for `KickBound`): the calls of vm_wdt_reset so far and those the
  threads may still make for the pending request (`Share`) are at most two per
  request within the limit. The properties say nothing of a thread between its
  test and its last statement, which is what the strengthenings are about.
- `RxRingProofs`: who holds the mutex is who is in the critical section
  (`Exclusion`); the ring holds at most N bytes, and whoever is about to take one
  finds it (`Occupancy`); a consumer that waits has a post pending if the ring has
  bytes or a producer is about to push some (`Wakeup`); a post that is left over
  can add one second per character (`Clock`). `RingIsQueue` is the refinement.
  Its lemmas are the arithmetic of counters that wrap (`Counters`, `Round`,
  `HeadBeyondTail`) and what one step does to the bytes between them
  (`TakeDelivers`, `PushArrives`); it needs `Wrap` to be a multiple of the
  size of the ring, as 2^32 is of 256.
- `YmodemProofs`: what is on the line are symbols of this transfer, whatever the
  line has done to them (`Line`), and the sender's block is one of the file
  (`Sending`); while the file has room, the receiver's count is the length of what it
  has stored, and one more for the name (`Receiving`, `Stored`). `FileIsPrefix`
  follows since a number modulo `SeqMod` is that of one block only, as the file
  has fewer (`ModIsIdentity`). `SuccessIsTrue` needs an account of the dialogue
  (`Account`): the acknowledgements that the sender has taken or will find on the
  line (`Owed`) against the packets the receiver has accepted (`Given`). As long as
  the file is not whole, a line with one fault at most is in one of five states
  (`Going`). `Exact`: all the packets sent and not yet accepted are on their way in
  order (`Chain`), and the fault may have made one acknowledgement too many;
  `Early`: a 'C' was changed into an EOT, which the receiver will acknowledge;
  `Behind`: the fault was another, the dialogue may be out of step, but the sender
  is owed no more than it was given, and so never sends the EOT; `Broken`: a packet
  has fallen apart into more errors than the receiver accepts, the first of which it
  may take for an EOT; `Closed`: the receiver has stopped. In each of them
  `Owed <= Given + 1 <= Blocks + 1`, and the sender has spent `Blocks + 2`
  acknowledgements when it is past the end of the file (`NotBeyond`, `Ended`). That
  a file once begun is not begun again is a matter of the order of packets
  (`Ordered`). The lemmas before it are about acknowledgements in words
  (`AcksOfConcat`, `FirstAndRest`) and chains (`ChainGrows`, `ChainShrinks`).
  `NothingGoesWrong` is `CleanTransfer` but for its termination: as long as the
  line has had no fault, no second passes in haste and the disk has room, what is on
  the line is known at each place of the sender (`Dialogue`), one symbol or answer at
  a time, and the crossing 'C's of the start cost either end two errors at most,
  which is what `Patient` asks of the constants (the code has 45, 10 and 45).
- `SleepWakeProofs`: the counter is ahead of the idle time only after a request
  (`Counted`), and not once it has been cleared (`Cleared`); past the checks there is
  a reason, or it has come too late (`Reason`).
  `SleepIsBounded` is the safety half of `WakesUp`, and what the finding about
  `RegularWakeup` costs at most: asleep, some number of seconds that fits into the
  rest of the day leads to the hour of the alarm (`AlarmAhead`), since `Month` is a
  multiple of `Day`. Its lemmas are about remainders (`HourLater`, `HourComes`).
- `LuaGCProofs`: `Tricolour` alone is not inductive. A gray object is on a list
  (`Queued`); what is not dead refers to nothing dead (`Sound`); what is dead or
  marked outside a cycle is still to be swept (`DeadUnswept`, `MarksUnswept`); the
  lists are empty outside marking (`Listless`); the stack is never black (`Root`).
  `NothingDangles` then is that all that can be reached is not dead
  (`ReachableAlive`), by the least set that is closed under references. The
  refinement of `Heap` needs that what `atomic` leaves white is closed under
  being referred to (`MarkedIsClosed`).
  Two theorems are about garbage. `DeadAreFreed`: what a sweep finds dead does not
  outlive it. `FullCollection`: `luaC_fullgc` leaves exactly what can be reached,
  since the program waits while its cycle marks, so that it marks and lists only
  what is kept (`MarksKept`), and its sweep leaves only what can be reached alive
  (`AliveAccessible`). An incremental cycle promises no such thing: what it has
  marked before the program drops it is left to the next.
- `ShellProofs`: where the call is (`Posted`), which thread is in the interpreter
  and whose `lua_longjmp` is on top (`Apart`), how deep the stack is (`Depth`), and what
  is on it until the threads meet (`Work`). `EachLineItsAnswer` maps `RemoteCall`'s
  stage to the place of the shell and to whether its line has run (`Stage`).
- `BindingsProofs`, per binding: a timer's owner knows it, and NTP has the timer and
  the socket it remembers and no others (`Owned`, `Client`); one request is in progress,
  and the static variables are its own from its setup to its answer (`Single`,
  `Ready`, `Posting`); connection, handle and console belong together (`Linked`, `Handled`,
  `OnConsole`); the connection that waits has the buffer (`Waiting`); there is one
  call (`Alone`).
  `RequestsAreTimed` and `ChannelsGoForward` are the safety half of `RequestsEnd`,
  without the fairness: a request of NTP that goes on has a timer (`TimerTicks`) whose
  ticks, and nothing else, count to `NTP_TIME_OUT` (`TicksCount`), and the channel
  of a GET, which is remembered while its answer is awaited (`Remembered`), takes
  a way with an end (`After`).
- `OneWireProofs`: those who follow a pass agree on the bits read (`Following`); the
  devices found are sorted, the search is past those and no others, and the last
  zero is the last place where a device took the other turn (`Going`, with `Behind`,
  `Sorted` and `LastTurn`). The lemmas before it are the order of addresses.
  `TemperaturesAreFresh`: after a request that nothing disturbs, every sensor has
  converted, or does for less time than the code has counted (`Converting`).

The invariants of sets and sequences are about any number of devices, objects,
threads' messages, timers, channels, connections and any length of the file, the
addresses and the ring. The assumptions are those named in each module.

Only model-checked: the liveness properties (`UptimeBounded`, `InputIsRead`, `Terminates`,
`CleanTransfer`, `WakesUp`, `SleepsWhenIdle`, `Collected`, `Answered`, `RequestsEnd`), which
need fairness and are beyond the prover.
The findings are counterexamples of TLC.

## Not modelled

Components, with the reason:

- **Line editor** (`Lua/lua/linenoise.c`): one sequential loop over one buffer. The
  build uses the short version at the end of the file; `Shell` takes a line as input.
- **SMS, GPRS settings** (`gsm.c`, `gprs.c`): calls of the SDK whose answers a
  callback prints or passes on; no state of their own but the callbacks' references.
- **GPIO, external interrupts, PWM, ADC** (`gpio.c`), **I2C, audio, screen**:
  thin wrappers of device handles, one call each, without interleavings beyond those
  of the callbacks in `Shell`.
- **DHT11** (`sensor.c`): the timing of edges within microseconds, with interrupts
  masked.
- **Display and touch drivers, check sums, hashes**: functions of registers and bytes.
- **Heap and C library glue** (`common/gccmain.c`): `_sbrk` over one block of
  memory, and stubs; the emergency collection that a failed allocation causes
  is in `LuaGC` (`FullGC`).
- **JavaScript firmware** (`JS/`), **`Https-demo/`**: older copies of the same
  parts around V7, with a subset of their functions.
- **V7, the rest of Lua, cjson, struct, `include/`, `lib/`**: vendored, or
  declarations of the SDK. They are by far the most lines of the repository
  (V7 alone has 18,559), which is why the share of it that the models cover is
  small: what is modelled is the code this firmware adds, and of Lua the part
  that it changes.

Left out of the modelled components: upvalues, weak keys and coroutines in `LuaGC`;
`https.on` and the text of an answer; the server in `tcp.c` (synchronous calls
in one function); the names of files, and the text that shares the line, in
`Ymodem`.

Met while reading, and not in a model:

- `gsm.c:250` tests the callback of another operation before it calls the one for
  the list of messages.
- `timer.c:29`, `tcp.c:42`: callbacks use the `lua_State` that registered
  them. When that was a coroutine which has been collected since, it is stale;
  `tcp.c` hands the SDK a userdata that may be collected while the connection is open.
- `gpio.c:63`: the handle of the ADC is zero at first, and zero counts as open
  (`gpio.c:625`).
- `gccmain.c:73`: when the block of memory is used up `_sbrk` logs it and returns
  the end of the heap, as if it had grown, and not -1.
- `sensor.c:1041`: the waiting time of thermometers is set from the answer
  whether or not the setting succeeded, and an error code is an answer too.
- A device that leaves during a 1-Wire search can make the search find another
  twice; `SearchFindsAll` is about searches during which nothing comes or goes,
  but for its first part (`Genuine`), that nothing is found which was never there.
- `ymodem.c:233`: a second name within a session opens a file and does not close the
  first. `Ymodem` has the restart of the file, not its handle.
