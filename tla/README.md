# lib_sp in TLA+

lib_sp is a small C++ library that opens a serial port, sends bytes on it and hands the bytes that
arrive to a callback of the application. It has one implementation for Linux (`serial_port_linux_base`)
and one for Windows (`serial_port_win_base`) behind the interface `iserial_port`, and it logs through
spdlog and fmt, which are part of the repository (`src/ext/spdlog`) and are compiled into it. This directory
holds TLA+ modules of that code, TLC configurations that check them on small instances, and TLAPS proofs.

File names below are short for: L `src/src/serial_port_linux_base.cpp`, LH its header, W and WH the same
for Windows, I and IC `serial_port_interface.h/.cpp`, P `serial_port_params.cpp`; files of spdlog and fmt
go by their own names.

## Inventory

| Component | State it keeps | Operations | Modelled in |
|---|---|---|---|
| Interface and factory (I, IC) | the object | `sp_create`, `sp_release`, the virtual calls | SerialPort, LinuxPort |
| Linux port (L, LH) | `_fd`, `_thread_recv_is_running`, `_thread_recv`, `_precv_data`, `_min_byte_read_notify`, `_spp`, `_mutex_recv` | `init`, `open`, `close`, `send`, `set_read_notify`; the receiver thread | LinuxPort |
| Linux line settings (L 437-602) | the termios of the tty | `set_port_params` | LinuxTermios |
| Check of properties (P) | none (tables) | `is_right`, `get_baud` (no caller) | SpParams |
| Windows port (W, WH) | `_handle`, thread handle, `_is_running`, the event, two `OVERLAPPED`s, `_is_init`, `_spp`, `_mutex_recv` | as on Linux, in a synchronous and an asynchronous mode | WinPort |
| Windows line settings (W 159-179, 728-772) | the DCB | `set_flow_ctl`, part of `open` | WinSettings |
| Enumeration of ports (L 260-435, W 515-675) | the listing under way | `get_available_serial_port` | PortList |
| Asynchronous logging (thread_pool, mpmc_blocking_q, async_logger, periodic_worker) | the queue, its condition variables, the threads, the flusher | log, flush, replacing the pool, `shutdown`; the worker loop | LogAsync |
| Registry and factory (registry, spdlog.h, synchronous_factory, cfg) | the map of loggers, the default, levels and settings for all | every call of `spdlog::` on them; `init` of a Windows port | LogRegistry |
| Rotating file (rotating_file_sink, file_helper) | files, `current_size_` | log, rotate, restart | LogRotation |
| Daily file (daily_file_sink) | files, `rotation_tp_`, `filenames_q_` | log, rotate, delete | DailySink, CircularQ |
| Duplicate filter, ring buffer, backtrace | last message, counters, rings | log, dump, enable, add and remove sinks | LogSinks, CircularQ |
| Remote sinks (tcp, event log, journal, Android) | sockets, handles, Winsock | log, connect, send | RemoteSinks |
| Message buffers (log_msg_buffer, memory_buffer) | memory, views | append, grow, move, copy, exchange | LogMsgBuffer |
| Pattern formatter, console sinks | the compiled pattern, cached times | compile, format, print | PatternFormatter |
| fmt: format strings | the reader's place | format, `compile`, FMT_COMPILE, the checker | FmtFormat, FmtSpecs, FmtCompile |
| fmt: arguments | the stores | push, clear, find | FmtArgs |
| fmt: printf | none | conversions | FmtPrintf |
| fmt: floating point, chrono, color, ranges, ostream, os, locale | none | - | no |
| Other sinks, `os`, `utils`, definitions, build, example | none | - | no |

How the parts interact. An application thread calls the object. `open` creates the descriptor, configures
the tty and, when `init` got a callback, a receiver thread. The receiver polls the tty with
`ioctl(FIONREAD)`, and when enough bytes wait it locks `_mutex_recv`, reads and calls `on_recv_data`
with the mutex held. `send` locks the same mutex around `::write`. `close` clears the running flag, joins
the receiver and closes the descriptor; it takes no lock. The flag, `_fd`, `_thread_recv` and the threshold
are plain members that several threads read and write: they are data races. The loop of the receiver
calls functions the compiler cannot see into (`ioctl`, `pthread_mutex_lock`), so it loads these members again each
round and finds an old or a new value; the model makes each access a step of its own, which gives both.

On Windows `open` creates the handle, configures it and, in asynchronous mode, starts a receiver whether or not
there is a callback. The receiver asks the driver for an event (`WaitCommEvent`) and sleeps on a manual-reset
event without a limit. `close` tells it to stop, waits 512 ms, and only then makes the driver complete the
wait, which wakes the receiver; it closes the handle and resets the event meanwhile. `send` shares one
`OVERLAPPED` among all threads and takes the mutex around `WriteFile`.

Logging has threads of its own. A logger posts a message into the queue of the pool, waiting for room or
overwriting; workers take messages out and hand them to the sinks; the periodic flusher posts flushes; `shutdown`
stops the flusher, drops the loggers and lets go of the pool, and whoever lets go last runs its destructor. The
registry says which loggers there are and what holds for all of them; `init` of a Windows port makes a rotating
logger there. A sink formats under its mutex and writes; the text comes from the pattern formatter, and that of the
message itself from fmt. A message that waits in a queue or a backtrace owns its text in a `log_msg_buffer`.

What is hard about it: the interleaving of receiver, `send` and `close`; every early return on the way
through `open` and `send`; a failure of a system call or of the device; calls from the callback, which runs
with a non-recursive mutex held; input at the size of the buffer; a receiver that outlives the time-out of
`close` and meets the next `open`; settings that outlive the program that wrote them; a full queue while workers
leave; a rename that fails half-way through a rotation; a connection that breaks in the middle of a message; values
kept from an earlier message; memory that changes hands with views into it; five ways through one format
string. The full list, with the line where each bites and the property that watches it, is `hazards` in
PROJECT.json.

What makes each part correct:

- Linux port: one thread at a time reads, delivers or writes; bytes are delivered in order and once;
  nothing of a closed port is left (thread, descriptor, mutex); `close` joins a thread that exists; `close` and `send`
  return; input that fits is read.
- Windows port: reads and writes exclude each other; `close` returns although the receiver sleeps, the receiver
  ends, and the driver holds nothing of a closed port; a receiver that sleeps under an open port will be woken;
  input is read (it is not).
- Line settings: the line has what the program asked for, whatever it had before (often it has not, see Runs).
  Enumeration: a port that stays is listed once, whatever is unplugged meanwhile.
- Interface: an open port delivers in order, and a closed port delivers nothing.
- Asynchronous logging: every message is in one place; a posting thread goes on; what was posted arrives; the
  pool ends with nothing left behind.
- Registry: map and default agree; a setting for all holds for each logger.
- Files: bounded, in order, without gaps; the newest are kept. Rings keep the newest.
- Remote: what a server reads is whole messages, or the loss of one is reported; no socket is lost.
- Text: a message shows what its pattern asks for; all ways through a format string agree; numbers read back;
  arguments are found by index and by name; a message keeps its own text.

## Modules

Serial port:

`SerialPort` is the abstract port: closed, opening, flushed, open or closing; the bytes on the wire, the bytes the
callback got. Opening drops what was on the wire; what comes between the flush and the settings stays and is delivered.

`LinuxPort` is the Linux object with its threads. `pc[t]` is where a thread stands; a receiver in
`on_recv_data` is at `"callback"` and may call the object from there. One action is one access to shared
state or one system call:

| Code | Actions |
|---|---|
| `init` L67, `set_read_notify` L188 | `InitPort`, `SetReadNotify` |
| `open` L87 | `Open` (the test), `OpenDevice` (`::open`), `OpenFcntl`, `OpenGetAttr`, `OpenFlush`, `OpenSetAttr` (the system calls of `open` and `set_port_params`, each of which but the flush may be refused), `StartRun`, `CreateThread` |
| `close` L156 | `Close`, `StopFlag`, `JoinThread`, `JoinReturn`, `DevClose`, `ClearFd`; also the error paths of `open` |
| `send` L207 | `Send`, `SendLock`, `SendCheck` (the -2 that keeps the mutex), `SendWrite` |
| `thread_recv_data_monitor` L634 | `RecvCheck`, `RecvPoll`, `RecvLock`, `RecvOpened`, `RecvRead`, `RecvTake`, `RecvNotify`, `RecvUnlock` |
| `sp_create`, `sp_release` IC28, IC44 | `Create`, `Release`, `UseAfterFree` |
| the tty and the line | `Arrive`, `Hangup` |

Results are reduced to `"ok"` and `"error"`. What the application and the system may do beyond the plain
documented use is a set of liberties, `Allowed`: no callback, a send on a closed port, a release of an open
port, a configuration or a thread creation that fails, a device that goes away. The flags set_port_params computes are in
LinuxTermios; here it is the order of its system calls that matters.

`LinuxPortRefinement` maps LinuxPort to SerialPort: a byte is on the wire while it is in the tty or in the
hands of the receiver, and the port is closed from the moment `::close` returned.

`WinPort` is the Windows object with its threads, the event and what the driver does with a wait and a write:

| Code | Actions |
|---|---|
| `init` W73, `set_read_notify` W338 | `InitPort`, `SetReadNotify` |
| `open` W111 | `Open`, `CreateFile` (with the name `GrowName` made), `OpenConfig` (`SetCommConfig`, `PurgeComm`, `SetCommMask`), `StartRun`, `StartThread`; every error but the first goes on to `CloseTest` |
| `close` W290 | `Close`, `CloseTest`, `StopFlag`, `StopWait` (512 ms), `Unmask` (`SetCommMask(0)`, `PurgeComm`), `CloseHandle`, `ClearHandle`, `ResetMonitor` |
| `send` W354 | `Send`, `SendPrepare`, `SendLock`, `SendWrite`, `SendResult`; synchronous: `SendLock`, `SyncWrite`, `LockOwned` |
| `thread_recv_data_monitor` W841 | `RecvStart`, `RecvCheck`, `RecvWait`, `RecvEnter`, `RecvResult`, `RecvEvents`, `RecvTx` |
| `read_data` W927 | `RecvReadTest`, `RecvReadLock`, `RecvReadFile` |
| driver, line | `CompleteWait`, `Raise`, `WriteDone`, `Arrive`, `TimeIsUp` |

A refused `WaitCommEvent` leaves `STATUS_PENDING` in the `OVERLAPPED`; a wait the driver holds is the only one a handle
may have; setting the event wakes whoever sleeps on it, even if it is reset at once. The second `lock()` of a
synchronous send, and a `lock()` in a function that is `noexcept`, by the owner of a `std::mutex`, are undefined:
the model lets them block, throw, or end the process. What the calls return and calls made from `on_recv_data` are left out
(the callback is reached only when `open` meets a reader of a closed port). What calls leave behind is counted: the prefixes `open` puts before the name (`prefixes`, which only `init` takes back;
past `PathCap` no file is found), and the events of sends that nobody closes (`lostEvents`, up to `EventCap`). Time is not
modelled: 512 ms pass when no
receiver can go on, or at any time with the liberty `"slow_threads"`.

`SpParams` is `sp_prop` with `is_right`. `LinuxTermios` is `set_port_params` on the bits of the four flag
words, with the values of the Linux headers, over sequences of init, open and close. A flag the code uses on
another word (INPCK, ISTRIP, IXON, IXOFF in `c_cflag`) hits the bit of that number there, as it does in the
code. Marks and `parity_mark` exist only on Windows. `LineParity` is what the tty makes of PARENB, PARODD and the stick bit
CMSPAR, which the code never writes. The numeric rate given to `cfsetispeed` is what C
libraries before glibc 2.42 refuse. `WinSettings` is the DCB over the same sequences, starting from any that a
driver may have. `PortList` walks over `/sys/class/tty` and `/dev/pts`, or over the device interfaces of Windows, one
device a step, while devices are taken away; a device is what the system answers about it; one whose name cannot be read is
listed under an empty one (`NoName`), since the result of `RegQueryValueEx` is not looked at.

Logging:

`LogAsync` has one step per critical section of `queue_mutex_`, and the `notify_one` after the unlock is another. A thread that
waits on a condition variable is at a wait place of `pc`; waits have the time-outs of the code. The pool lives as
long as somebody holds it; `Destroy`, `JoinWorkers` are its destructor, run by whoever lets go last.

`LogRegistry` gives every call of the registry one action, since each holds `logger_map_mutex_`; a logger lives as long
as the map, the default, the application or a port refers to it. `Keep` is what happens to the references in every
such call. The kinds of settings (formatter, flush level, error handler, backtrace) are handled alike.

`LogRotation` is `sink_it_` with `rotate_` in one action, `Log`: every rename, reopen and write in it may fail, and the
files are sequences of messages with the offsets at which they end. The program may end and start again, with a larger
or a smaller file found. `DailySink` has the days, the clock and messages that come late; `LogSinks` a logger with its
backtrace, the filter and the ring; both stand on `CircularQ`. `RemoteSinks` lets connections fail at every address,
break, and take a part of what is sent, or nothing (`SendsNothing`, after which `log()` is over and the message `"cut"`);
Winsock is counted for the process.

`LogMsgBuffer` models memory: an object has an inline store or a block of the heap, a view is a place, an offset and
a length, and cells nobody wrote are `Junk0`. The queue is that of the async logger or of a backtracer, whose logger
is cloned and swapped.

Text:

`PatternFormatter` compiles a list of fields as `compile_pattern_` does, formats messages of any times with it and
prints them on a console. A character is a field, the value shown and its place: what digits are spelled of is left
out, how many they are is not. `FmtSpecs` is the writer: integers in every base with sign, prefix, precision, padding
and width at `IntBits` bits, strings, characters, and the checks of specifications. `FmtFormat` is the parser with its handlers
(`format`, `count`, `compile`, `check`, `static`), for short and long strings; a reader is a record with
its place and the first error. `FmtCompile` is `compile()`, the chain of FMT_COMPILE, which does not compile when a
field names its argument, and that of `fmt::compile` of an FMT_STRING, which then writes through an array of parts. `FmtArgs` has the
argument stores and the view `format` reads, `FmtPrintf` the conversions of printf over the same writer.

`MCLinuxPort`, `MCWinPort`, `MCLinuxTermios`, `MCLogAsync` give constants their values; `MCSettings`, `MCSequential` (which has
those of MCSettings too) and `MCFormats` put parts side by side that share no state: a behaviour is one of a single part, chosen at the
beginning. `LinuxPortProofs`, `SettingsProofs`, `WinPortProofs`, `LogAsyncProofs`, `LogFilesProofs` (of
`LogRotation` and `LogRegistry`), `RemoteSinksProofs`, `RingProofs` (of `CircularQ`, `DailySink` and `LogSinks`) and
`FormatProofs` (of `FmtArgs`, `LogMsgBuffer`, `FmtSpecs` and `FmtFormat`) hold the proofs. The operators marked
"Mutant" are plausible mistakes in the code, kept beside the definition they would replace to see that a property
notices.

## Runs

| Run | Instance | Shows |
|---|---|---|
| linux_single | one application thread that never sends on a closed port nor releases an open one, room for 2 receivers, buffer 2, tty 3, 3 bytes, the device may go away; fairness | IsSerialPort (refinement), QuietWhenClosed, JoinsCreatedThread, CloseReturns, SendReturns, InputIsRead |
| linux_callback | one application thread and `close` and `send` from `on_recv_data`, every liberty, 2 receivers at once | OwnsMutex, ReadFits, OneInside, InOrder |
| linux_send_closed | a send on a closed port | SendReturns fails: the mutex stays locked |
| linux_no_receiver | `init` without a callback | JoinsCreatedThread fails: `close` joins what was not created. The same happens after an `open` that fails to configure the port |
| win_single | one thread, asynchronous mode, room for 2 receivers, configuration and thread creation may fail; `open` only once the old receiver ended; 512 ms suffice for a thread that can run; fairness | CloseReturns, ReceiverEnds, NothingHeldWhenClosed, SleeperIsAwaited |
| win_modes | one thread, both modes in turn, 2 receivers, opens before the last receiver has gone | OneInside |
| win_no_input | one thread, nothing fails | InputIsRead fails: `read_data` gives up when the handle is valid |
| termios_char_size | every number of data bits and parity, on a fresh tty | CharSizeAsAsked fails: clearing INPCK in `c_cflag` makes 5 data bits of 6, as it makes 7 of 8 |
| win_flow_control | the settings of sequential | HardwareIsRtsCts fails: hardware flow control turns XON/XOFF on |
| log_async | one application thread, one or two workers, the flusher, shutdown, a queue of 2, 2 messages for each thread; fairness | InOnePlace, DrainedWhenGone, InOrder, FlusherSurvives, ShutdownReturns, PostReturns, MessagesArrive |
| sequential | every sequence of configurations from what a tty (fresh, left by another program, left with mark parity) or a driver may have; listings of up to 3 devices and 2 pseudo terminals; registry: 2 loggers, 2 names, 2 levels, a port; rotation: 2 backups, limit 2, sizes 1 to 3, 5 messages; rings of 1 and 2; 5 days and 1 to 3 files; 2 sinks, 2 addresses, 3 sockets, 3 messages of 2 bytes | LineAsAsked, OneFlowControl, SteadyPortsListed, DefaultIsRegistered, GlobalsReachAll, SizeBounded, OldestFirst, NothingSkipped, NewestKept, RetainsNewest, WholeMessages, NoSocketLost |
| formats | patterns of 11 of the flags (`%n %D %S %z %u %s %+ %q %k %% %v`) in several widths with colour marks; format strings grown by up to 4 characters of 11 from 3 beginnings, with 3 lists of arguments, 6-bit integers; up to 3 arguments, packed and not; a queue of 2 messages that fit or do not; printf conversions with any of the flags, some widths and precisions, 5 lengths and 6 types of conversion | MessageShown, FormatsAgree, NumbersReadBack, ArgsFound, MessagesReadable, PrintfAgrees |

Five runs end in a violation: each shows a place where the code does not do what a comment of it says, quoted in
`findings` of PROJECT.json.

What the modules also show of the code, and no run is spent on:

- On Linux, more than 1024 bytes of input are never read. `sp_release` of an open port leaves a receiver on freed memory.
  A `pthread_create` that fails is not noticed (L613 looks for a negative result, its error numbers are positive), so that
  `open` returns 0 for a port that never receives.
- Of the settings on Linux (I names what is asked for): `parity_space` is no parity (L561), `stop_2` is one stop bit (L510), a
  stick bit another program left makes odd parity mark and even space (no branch writes CMSPAR), and software flow control
  sets IXON and IXOFF in `c_cflag` (L530): XON and XOFF are not heeded, and since the number of IXOFF is that of a
  bit of the speed there, a tty at 9600 gets the code of 3000000, which no later `open` takes back.
- On Windows, a synchronous send leaves the mutex locked for good, a second `open` closes the port, an `open` soon after a
  `close` revives the old receiver, a port whose name cannot be read is listed without one, the name of the port grows with
  every `open`, every send leaves an event object, and a second port with logging ends the process.
- In spdlog, replacing the thread pool under a running flusher ends the process; `%D`, `%E` and `%c` announce another size
  than they write; the duplicate filter counts the messages it keeps back, two of three equal ones, where the example of its
  header (dup_filter_sink.h:25-33) reports three; and a `::send` that takes no bytes ends `send()` with a part of the message on
  a connection that stays open, and nothing is thrown (tcp_client.h:137, where lines 118-119 say "Send exactly n_bytes").
- In fmt, `printf` writes a sign for `%+u`, a digit for `%.0d` of 0, and a mark of the base for `%#hhx` of a number that
  becomes 0 by its length (C decides after the conversion); an index one past the arguments of a
  `dynamic_format_arg_store` with names is not refused, and a first named argument that fails shifts the others; and a string of
  FMT_COMPILE that gives its argument a number or a name does not compile.

Bounds. `BufLen`, `QueueCap` and `MaxByte` scale 1024, the tty's queue and the traffic down: the receiver
compares the count with the threshold and with the buffer, so what matters is a count below, between and
above the two, which a buffer of 1 or 2 under a queue one larger gives. Two receivers are the least that can overlap
or swap, and the room for a thread that is left behind when the next one is created. With
`QueueCap > BufLen` the backlog the receiver skips is reached. Bytes and messages are numbered so that order and
repetition show. On Windows the amount of input is enough, one byte below or at the threshold; one handle is enough
because the port is opened exclusively. `PathCap` 2 and 1 let the name grow past the longest in two or three opens, where
the code has some 250 characters; nothing depends on how many events are lost, so `EventCap` is 1 or 0. A queue of 2 is full with a third poster and can be empty; two workers
are the least that compete for a wake-up, one is what keeps the order. Two backups and five messages
turn every file over; a message larger than the limit is among the sizes. Five days outlast three files. Two
addresses let the first fail; two sinks share Winsock; three sockets are one that does not connect, one that breaks and the next. The alphabet of format strings has one alignment (`<`), one sign, two
digits, one type and one name, and no fill but a blank is reached; four characters after the beginnings, of which one is in the
middle of a field, lead to an error or to the end of a field with any two or three of these. Their integers (-3, 5, 11) are
none at the limits; those of printf have 6, 4 or 3 bits by their length, and 8 and 16 are numbers that become 0 there.
Patterns are of eleven flags, loggers have no name (`NameLens`), and `%c` and `%E`, which MessageShown leaves out, are
not among the flags. A packed store of 2 and 3 arguments meet the limit
that is 15 in the code, and an inline store of 2 one that is 500.

Deadlock is checked in linux_single, linux_no_receiver, win_single, win_no_input and termios_char_size, where the code
must go on. It is not elsewhere: in linux_callback and linux_send_closed a callback may wait for the mutex it
holds, an abandoned mutex stops everyone and the process may crash; in win_modes likewise; in
log_async the program ends with shutdown; in sequential, win_flow_control and formats a listing ends, the messages are bounded and the process may
end.

Fairness. Every thread that can run does (weak fairness on the steps of a call and of the receiver); a
mutex that is free again and again is not refused for ever to one that waits (strong fairness on the two
lock steps, which the scheduler gives in practice and the default mutex does not promise in writing).
On Windows the driver completes the writes it holds, and weak fairness is enough. In LogAsync every thread that can
take a step does; the time-outs of the workers need not ever come, and the flusher wakes when it was told to stop. No call
has to be started, no byte has to arrive, the device need not come back.

## Proofs

Every theorem holds for every value of the constants under the assumptions of its module: callers and receivers are
different threads, null values are none of the things they stand beside, sizes and limits are naturals.

`LinuxPortProofs`, for every set of threads, receivers and descriptors and every choice of liberties:

- `TypeCorrect`: `Spec => []TypeOK`.
- `MutexCorrect`: `Spec => [](OwnsMutex /\ ReceiversDoNotSend)`. OwnsMutex is inductive only with two more facts:
  a receiver in its callback never gets past `lock()` in `send` (it owns the mutex, so the lock is not free), and no
  application thread is in a call on a freed object (`Create` resets the mutex). `MutexInv` is the three together.
- `MutualExclusion`: `Spec => []OneInside`, from MutexCorrect.
- `DeliveryInOrder`: `Spec => []InOrder`. The inductive invariant `OrderInv` orders everything in flight: what was
  delivered is before what a receiver holds, and that before the tty's queue; and a buffer is not empty only between
  `::read` and the callback. That two receivers do not swap needs OneInside.
- `BufferNeverOverrun`: `Spec => []ReadFits`, which is inductive together with TypeOK.

and, in the same module, for a port used by one thread (`UsedAlone`), every set of receivers and descriptors and every
size; `on_recv_data` may send and `init`, not open or close; the object is not freed while it is open; a device may be
gone, a thread may not start, a send may meet a closed port. A configuration that is refused is excluded, because
`open` calls `close` then, which the abstract port does not do:

- `SingleCorrect`: `Spec => []PortInv`. To the invariants above `SingleInv` adds that no two receivers live at a
  time (`OneAtATime`), none while the port is closed or opening (`NoneWhile`), that `close` joins the one that lives
  (`JoinsItsOwn`), that at most one descriptor is open and the port knows it (`OneDescriptor`), where in a call the port
  may be closed (`WhereClosed`), and that a thread is where its call puts it (`Places`).
- `ImplementsSerialPort`: `Spec => IsSerialPort`. The abstract port's input is what the receiver holds followed by the
  tty's queue; it is flushed from `tcflush` to the end of `open`, so that what arrives before `tcsetattr` is kept by both. Each step is shown to map to a step of SerialPort or to a stutter; that nothing jumps the queue is OrderInv,
  that there is only one hand is SingleInv.
- `CloseLeavesNothing`: `Spec => []QuietWhenClosed`, for a thread that sends on an open port only (`SendsOnlyOpen`; a send
  on a closed one keeps the mutex, as linux_send_closed shows). It needs `MutexInUse`: a mutex that is held is held by a
  thread inside.
- `CloseJoinsItsThread`: `Spec => []JoinsCreatedThread`, when every `init` brings a receiver and `pthread_create` succeeds (`AlwaysReceives`; linux_no_receiver shows what becomes of it
  otherwise). `JoinsInv` says that `_thread_recv` of an open port is a thread that was created and not joined, but while
  the port is being opened or its descriptor closed (`HasThread`), and that the process has not crashed. That the thread of
  the last session is gone when `open` creates the next is `NoneWhile`.

`WinPortProofs`, for every set of threads and both modes:

- `WinMutualExclusion`: `Spec => []OneInside`. The invariant `HeldInv` says that whoever is between lock and unlock owns
  the mutex. A step goes outside of the mutex, takes it when it is free, or moves on inside as its owner.

and for a port one thread uses (`UsedByOne`), with receivers left behind at any place of their loop:

- `WinAloneCorrect`: `Spec => []AloneInv`. The handle of the object is that of the driver, but for the one place between
  `CloseHandle` and the assignment (`CommIsHandle`); a file is created only without a handle (`NoneToCreate`);
  a driver without a handle waits for nobody and writes nothing (`QuietDriver`); and what it writes is the send its
  caller waits for (`WriteAwaited`).
- `NothingLeftWithDriver`: `Spec => []NothingHeldWhenClosed` follows from it.

`SettingsProofs`, of the sequential parts of lib_sp:

- `SettingsAsAsked`: `ConfigSpec => []LineAsAsked`, whatever a tty had before. LineAsAsked has the parity and the
  RTS/CTS handshake that were asked for, but for what the code does otherwise: space parity is none, any number of stop bits is
  one, and with a stick bit the tty had before odd is mark and even space. Software flow control is not part of it. It is inductive: set_parity and
  set_flow_ctl settle their flags whatever was there (`ParityLemma`, `StopLemma`, `FlowLemma`), and set_parity, which comes last, leaves
  RTS/CTS alone.
- `FlowControlIsOne`: `WinSettingsSpec => []OneFlowControl`, for whatever DCB a driver had. The pairing is the
  one of the code, XON/XOFF for hardware; that the enumeration has it the other way round is the finding of win_flow_control.
  `DcbInv` says the same flag by flag.
- `SteadyPortsAreListed`: `ListSpec => []SteadyPortsListed`, for every number of devices, unplugged in any order, but
  for the one with descriptor 0 on Linux and those after a device without description or key on Windows. On Linux
  `ListInv` says that a named port which stays is listed or yet to come, but for one when descriptor 0 was free (`Covered`);
  that none that is listed is come to again (`Once`); and that what is kept for the probe has the driver serial8250
  (`ProbeNeeded`). On Windows the list is the devices up to one without a name (`WinList`).

`LogAsyncProofs`, for every set of applications and workers, every size and policy of the queue; every crew has a worker and
the registry is no thread:

- `NothingLostNothingTwice`: `Spec => []InOnePlace`. Counting is not inductive: `PlaceInv` says instead that each accepted
  message is in exactly one of hand, queue, sinks and overwritten, and once there; that whatever is in a place was accepted;
  that ids are never above the count, so that a new message is in no place yet; and that a thread holds a message only where
  its code has one (`HandsFree`), so that taking the next overwrites none.
- `SinksInOrder`: `Spec => []InOrder`. `LineInv` says of the only worker that nothing passes anything: what is in the sinks
  comes before what it holds, that before the queue, the queue before what the applications hold, and sinks and queue are
  sorted, always for messages of one thread. That nobody else takes a message needs `CrewWorks` (only the crew works, and
  workers never post); that a new message is behind all others needs PlaceInv.
- `FlusherIsSafe`: `Spec => []FlusherSurvives`: an exception leaves the flusher only if `init_thread_pool` replaced the pool
  under it, which the model lets happen and where the process does end. While the loggers are registered and the registry was
  not given another pool, it holds the first one (`PoolIsHeld`), and a flush that comes later finds no logger.
- `PoolDrains`: `Spec => []DrainedWhenGone`, whoever lets go of the pool last. `HoldInv` is about the reference count:
  whoever is inside the pool holds it, only one ends it, nobody holds what is gone. `CountInv` counts the terminate messages:
  each that was made is with a worker that took it, in the queue behind every message, or on its way there (`Balance`), so
  that when as many were taken as there are workers the queue is empty. With PlaceInv every message is then in the
  sinks or overwritten.

`LogFilesProofs`, of the rotating sink, for every number and size of files and every pattern of failures, crashes and
restarts:

- `FilesBounded`: `RotationSpec => []SizeBounded`; `FilesInOrder`: `RotationSpec => []OldestFirst`;
  `NullFileNeverWritten`: `RotationSpec => []NeverNull`. The invariant `RotationInv` adds that offsets grow in a file, that
  no file has a message that was not logged yet, and `SizeKnown`: `current_size_` covers what is in the open file, and without an
  open file it demands a rotation. A rotation is proved file by file: moving one file up keeps `GoodFiles`.
- `NewestMessagesKept`: `RotationSpec => []NothingSkipped`. `CleanInv` says of files no call failed on that no place below a
  file is free (`Packed`) and that the numbers of their messages are an interval up to the last (`NoGap`): a rotation may
  then drop the oldest file only when every place is taken.

and of the registry, for every set of loggers, names, levels, settings and ports:

- `DefaultStaysRegistered`: `RegistrySpec => []DefaultIsRegistered`; `SettingsReachAll`: `RegistrySpec => []GlobalsReachAll`.
  The invariant `RegistryInv` says that every reference is to a logger that lives, under its own name, and that a logger
  nobody changed by itself has the global settings. Every call is a `Keep` of some map, default and references: one lemma shows that
  `Keep` of good arguments preserves the invariant, and one step per call that its arguments are good.

`RingProofs`, for every size, every order of calls and every clock:

- Lemmas say of `circular_q` that the sums modulo its size never go round twice (`RoundLemma`), and what `push_back`,
  `pop_front` and an overrun do to the contents, in order.
- `RingsKeepNewest`: `SinksSpec => []NewestKept`. `SinksInv` is that of the ring buffer and of the backtrace: what the
  ring holds is the newest of what it was given (`KeepsNewest`). The loops over the sinks and over the backtrace are recursive functions on numbers. That they exist and keep
  `KeepsNewest` needs induction, which the library states with an operator: the lemma `Induction` states it with a
  set, from the least element of a well-founded order.
- `NewestDaysRetained`: `DailySpec => []RetainsNewest`. `DailyInv` adds to it that the names in the queue are of
  days before that of the next rotation (`QueueInv`), so that a name that is pushed is a new one, and that what the sink
  knows and is on the disk is queued (`SinkInv`).

`RemoteSinksProofs`, for every set of sinks, addresses and outcomes of the calls:

- `EverySocketIsUsed`: `RemoteSpec => []NoSocketLost`. `SocketInv` adds that a sink which is connecting has no handle,
  so that the next one replaces none, and that only tcp sinks connect and send. The rest is that everything that happens to
  the sockets opens none (`NoneOpened`), but for the one that succeeds to connect.
- `ServersReadWholeMessages`: `RemoteSpec => []WholeMessages`. `StreamInv` says who has which bytes: what a sink has sent of
  its message is the end of its own stream and nowhere else, and between messages that end is the last byte of one
  or of the part of one that was cut by a write of no bytes (`Sending`, `StillCut`); a message is pending as long as one `log()` is about it (`Fates`). Every step but `Sends` only adds sockets
  nothing was sent on (`Grown`), and `MoreBytes` is what `Sends` does to a stream. That a send which failed closes the
  connection is what keeps the next message from following a part of one.

`FormatProofs`, for every set of types, texts and names, every number of packed arguments, every size of queue, inline
store and message, every format string and every width of an int. The loops of these models are recursive
functions: `LoopLemma` says that such a function exists and what it is, `Induction` (as in RingProofs) carries an
invariant along it.

- `ArgumentsFound`: `ArgsSpec => []ArgsFound`. `ArgsInv` says, as long as no name was lost, that the entries behind that of
  the table are the arguments given, in order, copies in a node of their own (`Placed`), and that the table has every
  name once, in the order of the arguments (`Table`), so that the first entry with a name is the first argument with it.
  `StaticTable` proves the same of the table a static store makes.
- `MessagesStayReadable`: `BufferSpec => []MessagesReadable`. `Owned` says that a buffer is in its object or in a block that
  nobody else has, and that no block is in use without an owner; then a call that changes some objects leaves the text of
  all others (`Frame`, `CarriesOn`). That `grow` finds a free block, of the many the model has, is the pigeonhole principle
  (`FreeLemma`). Constructing, appending, moving, copying and destroying are shown one by one to give the object what the
  other had (`Carries`), with views on its own memory. `BufferInv` puts each message in its slot (`Holds`) and says that
  nothing lives but the elements of the vectors in use and what the worker has; a copy is made of every slot, in use or
  not, and what a moved message left behind is still a buffer that can be assigned to.
- `NumbersRead`: `FormatSpec => []NumbersReadBack`. `IntegersReadBack` says it of `int_writer`, for every integer and all
  specifications: the digits that `format_uint` writes have the value of the number (`DigitsRead`, by induction over the
  quotients), zeros in front do not change it (`ZerosInFront`), blanks around it fall away (`TrimmedLemma`) and the mark
  of the base is found again (`BodyRead`). That the specifications of a field are such, whatever is in the string, is an invariant of
  the parser that compiles: `Sane` says of a reader that its specifications, references and parts are good, `Known`
  that its field has an argument, and one lemma for each function of the parser that it `Keeps` both. What `Number` reads and what
  an argument gives is never negative. The assumption is that arguments are records with an integer
  (`FormatAssumption`).

Only model-checked: everything under fairness, what needs ENABLED, the agreement of the ways through a format string,
printf and the pattern formatter. What RECURSIVE operators compute is out
of reach of the prover: FmtCompile, FmtPrintf and PatternFormatter use them and are checked over bounded
inputs only. `MaxInt` is a power of 2, which the provers do not know: that it is a natural number is a part of
`IntBitsAssumption`, which TLC evaluates.

## Not modelled

`get_version` and `is_opened` change nothing; `utils` and the wording of errors concern no property; the example is the
instance of linux_single. Results of calls on Windows and calls from `on_recv_data` there are left out. Of the remote sinks, a
`tcp_sink` that connects in its constructor and the text of the event log. Of fmt, floating point (Grisu and Dragon4 work on
64 and 128 bit words, beyond what TLC can hold), pointers, `L` grouping, chrono, color, ranges, ostream, os and locale. Of
spdlog, the sinks that hand each message to one call of the system (stdout, ostream, basic_file, msvc, syslog, null).

What would come next: an abstract port for Windows with the results of its calls, and that `format()` and a compiled
string agree, for which the lemmas of the parser in FormatProofs are a beginning.
