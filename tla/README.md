# Formal models of platform_serial

TLA+ models, TLC runs and TLAPS proofs about `platform_serial`, a Flutter plugin that gives
Dart applications one serial-port API on Linux, Windows, macOS, the web, Android and iOS. The
models are translated from the code; where the code and its documentation disagree, a run shows
it ("Findings").

## The system

    application
       |  SerialManager (lib/src/serial_manager.dart)   table of tracked ports, by name
       |  SerialPort    (lib/src/serial_port.dart)      _config, _isOpen, one event subscription
       v
    SerialPlatformInterface
       |-- method_channel_serial_platform.dart --> linux/platform_serial_plugin.cc (GTK main thread)
       |                                             --> linux/serial_port_manager.c (mutex, table)
       |                                                  --> linux/serial_port.c (fd, poll, termios)
       |                                       --> android/.../FlutterSerialPlugin.kt, SerialPortManager.kt
       |                                       --> ios/Classes (through ios_impl.dart)
       |-- windows_impl.dart  -- dart:ffi --> windows/*.cpp
       |-- macos_impl.dart    -- dart:ffi --> macos/Classes/serial_port_manager.mm
       `-- web_impl.dart      -- js interop -> Web Serial

| Component | State it keeps | Operations | What is hard | What makes it correct |
|---|---|---|---|---|
| Linux port manager | list of entries (handle, port), next handle, one mutex | open, close, close_by_name, find_handle, list, operations under the mutex, destroy | open and close run partly outside the mutex; three error paths of open | a name is open once; no descriptor leaks or is closed twice; a port stays alive while it is used; each call is atomic and returns |
| Linux serial port | fd, path, configuration, last error | open, close, read and write with timeout, flush, reset, modem lines | EINTR, EAGAIN, partial writes, deadlines, other users of the tty, a device that goes | counts are exact, deadlines are kept, errors say what happened |
| Linux plugin | active stream port, timer id | method calls; listen, cancel; 25 ms pump | pump and reads share the bytes; one stream for all ports | bytes arrive once and in order; one timer; errors are reported |
| SerialPort (Dart) | `_config`, `_isOpen`, subscription, three stream controllers | open, close, read, readUntil, write, flush, dispose ... | state checked before an await and used after it; abandoned reads | isOpen tells the truth; subscriptions end with the port; operations reach their own opening |
| SerialManager (Dart) | `_openPorts` by name | openPort, closePort, closeAll, getPort | ports that are closed or renamed behind its back; one of several closes fails | every call ends; a name finds its own port |
| Windows manager and port | map id to shared_ptr, lock; per-port lock | the same flat API, by id | device opened before the check; use during close | as Linux, up to a use that overlaps a close |
| Windows Dart platform | `_ports`, polling timer | open, close, read ..., event stream | native close that fails; poll across awaits | the table agrees with the native one |
| macOS handle and Dart platform | fd, kqueue; contexts | the same, 40 ms poll | edge-triggered readiness shared by two readers | data that is there is read |
| Web platform | `_ports`, per port buffer, reader, notifier | open, close, read, read loop | awaits between check and insert; readers and the end of the loop | no reader waits for ever; no context is lost |
| Android manager and port | map by name, permission requests; buffer, read loop | open, close, detach, permission result, read | coroutines; detach against open; a read loop that fails | a name is open once; the table agrees with the devices |
| iOS manager, port, drivers | map by name; connection, buffer | the same | suspensions between check and insert; timeouts of connections | as Android |

`PROJECT.json` lists the hazards, each at its line, with the properties that cover it or the
reason why none does yet.

## Modules

| Module | Models |
|---|---|
| `PortRegistry` | Abstract: what a native manager promises. A table of open ports in which every call takes effect in one step between its invocation and its return; handles are never issued twice. |
| `LinuxPortManager` | `linux/serial_port_manager.c` and the life of a descriptor in `linux/serial_port.c`. Implements `PortRegistry`. |
| `LinuxPortManagerProofs` | The theorems about `LinuxPortManager`. |
| `SerialFacade` | `lib/src/serial_port.dart` and `lib/src/serial_manager.dart` over an asynchronous platform. |
| `SerialFacadeProofs` | The theorems about `SerialFacade`. |
| `LinuxPlugin` | Received bytes on Linux, from the tty through `linux/platform_serial_plugin.cc`, the channels and the Dart listeners to the application. |
| `LinuxPluginProofs` | The theorems about `LinuxPlugin`. |
| `LinuxIO` | `linux/serial_port.c` on an open port: the loops of read and write with their clock, flush, reset, queries and modem lines. |
| `LinuxIOProofs` | The theorems about `LinuxIO`. |
| `SharedRegistry` | Abstract: what a manager promises whose ports are shared with the calls that use them. A close takes effect in two steps; a use that overlaps it may be served or refused. |
| `WindowsPortManager` | `windows/serial_port_manager.cpp`, the life of a handle in `windows/serial_port.cpp` and the C API of `windows/platform_serial_plugin.cpp`. Implements `SharedRegistry`. |
| `WindowsPortManagerProofs` | The theorems about `WindowsPortManager`. |
| `AndroidPort` | `SerialPortManager.kt` and `SerialPort.kt` of Android: one device from its permission to its detach, with the read loop. |
| `AndroidPortProofs` | The theorems about `AndroidPort`. |
| `WebPort` | `lib/src/platform/web_impl.dart`: one name, its contexts, their read loops and closes. |
| `WebPortProofs` | The theorems about `WebPort`. |

The detailed modules are not composed further: each stands below one `SerialPlatformInterface`,
and what `SerialFacade` assumes of the platform (answers in order, a failed open leaves nothing
open) is what the modules below it show where they can. `LinuxPlugin` composes the Dart side, the
channel, the plugin and the tty of Linux.

### LinuxPortManager

State: `mutex`, `table` (the linked list, as a set of entries), `next_handle` and `alive` are the
manager's; `kernel` says which descriptors are open on what; the rest is local to a thread: its
program counter `pc`, the call `op`, the entry it points to (`held`), its result `ret` and
`*handle_out` (`out`). Each label of `pc` is a stretch of code between two points where another
thread can interfere: `check`, `device`, `configure`, `insert`, `discard` and `report` are
`serial_port_manager_open`; `detach` and `closing` are the two closes; `enter` and `in_port` are
`serial_port_manager_with_port_locked`, which holds the mutex while the port operation blocks;
`find` and `list` are single critical sections, and a listing may fail (`glob`). The order of
entries in the list is left out (nothing but iteration sees it), and so is what a port operation
does to bytes.

External assumptions: `close(2)` of a tty does not fail on Linux; the kernel lets a tty be opened
more than once, so nothing but the manager keeps two ports apart; `serial_port_manager_destroy`
is called by the owner when no call is in progress (the code does not protect itself); an entry
that was freed reads as any value.

### SerialFacade

State: for each `SerialPort` object `config`, `isOpen`, its live subscriptions (`listening`) and
whether it is disposed; `openPorts` of the manager; for each asynchronous call in progress the
await it is at. A step runs from one await to the next, as Dart does. Platform calls wait in
`requests` and are answered in order by `PlatformAnswers`, and answers are delivered in order:
that is what the method channel and a plugin that handles calls on one thread do (Linux). An open
may fail for a reason of the device; a close of an open device does not fail (Linux; platforms
where it may are a hazard of their own). `served`, in an answer, and `settled`, in a request, are
history. All operations that are one platform call (`read`, `write`, `flush`, ...) are `Io`, with
the time-out of those that have one; those without one simply never take `IoTimesOut`.
`Overlap = FALSE` describes an application that awaits `open`, `close` and `dispose` of an object
before it calls another of them on the same object, as the example application does; operations
and calls on other objects overlap freely. It also does not reopen a disposed object.

The object that `openPortFromConfig` makes is the manager's alone until its open has returned: the
application can call it once it is `known`, which it also is when the application made it with
`createPort`. `dispose` returns after it has closed its three stream controllers one after the
other (`CloseControllers`, `ControllerCloses`); each ends, because a `done` event is delivered to
any listener that is not paused, and listeners of the application are taken not to be. That
`cancel()` of the event subscription throws is left out: the event channel hands what the platform
answers to a cancel to the framework's error report and not to `cancel()`.

### LinuxPlugin

State: on the Dart side the phase of each port's `open()` or `close()`, the message handler of the
one event channel (`handler`), the read in progress, the buffer of `readUntil` (`line`) and what
the application has got since the port is open (`stream`); in the plugin the table of open ports,
`active_stream_port`, `active_stream_source_id` and the timers GLib runs; the tty's bytes, which
are numbered in the order of arrival. Each handler of the GTK main thread is one step, because
nothing else runs on that thread, not even while a read waits in `poll(2)`. Flutter's part is
modelled from how the code uses it: messages of a channel arrive in order; starting to listen
replaces the channel's message handler and cancelling removes it; an event that finds no handler
is kept, at most one, for the next. A hung-up descriptor stays so until it is closed. `write` and
the other calls that do not touch received bytes are left out.

A read that the application gives up (`.timeout` in `serial_port.dart`: `ReadTimesOut`) goes on in
the plugin, at most `MaxLate` at a time: `abandoned` says which requests and answers are on
their way for nobody, and `LateAnswer` drops one of them. What it had taken from the tty is gone;
`missed` keeps it as history, so that `BytesReachTheApplication` can except exactly those bytes.
`readUntil` that gives up drops what it had collected, as the code does.

### LinuxIO

State: `room` is what the tty's output queue takes, `input` what it has received, `modem` its
lines; `configured` is the timeout the port was opened with. Of the call in progress there are its
position `pc`, its arguments `op`, and the locals of the code: `wait` is the timeout given to
`poll(2)`, `since` when that poll began, `total` the bytes written, `count` and `ret` the results.
The clock is `elapsed`, in milliseconds since the call began. Time passes in `poll` (`Tick`) and
wherever the thread is not scheduled (`Stall`); `late` adds up the stalls and the parts of polls
that a signal threw away. `sent` records which byte of the buffer each byte sent was; `before` and
`stolen` are history too. `turn` is the top of the write loop, `wait` and `poll` are
`serial_wait_for_fd`, `read` and `write` the system calls, `set` and `clear` the two ioctls of
`serial_port_set_control_signals`, `flush`, `reset` and `query` the calls that are one system call.
Around the call bytes arrive, the line drains, another process reads or writes the same tty, and
the device hangs up. A port has one call at a time because the manager's mutex is held during
it. The translation of a configuration to termios is left out.

Two conventions are worth knowing. A stall inside a poll that is then interrupted counts twice in
`late`, so `BackInTime` is an upper bound there. A timeout is `Forever` when it is negative, and
`configured` when a call passes a negative one, as `InForce` says. `TimesOutInTime` excepts a write
with timeout 0, which is reported as timed out at once: `linux_write_zero` shows it.

### WindowsPortManager

State: `mutex` (of the manager), `table` (`ports_`) and `next_port_id`; for each `SerialPort`
object its `handle` and who is in it (`busy`, its own mutex); per thread `pc`, `op`, the
`shared_ptr`s it has (`held`), the listing it gathers, the error code and `*port_id`. An object
lives while something refers to it, and its destructor closes its handle: that is why `Return`
closes what nothing refers to any more. `create` to `publish` are `OpenPort`, which opens the
device before it looks for the name; `erase` and `closing` are `ClosePort`; `lookup`, `acquire`
and `in_port` an operation, which runs under the port's mutex only; `enumerate`, `list` and
`probing` are `EnumeratePorts`, which holds the manager's mutex while it takes the mutex of each
listed port in turn. A device has two names, with and without the prefix `\\.\`, and the table compares
them as they are given. External: `CreateFileW` with share mode 0 fails while a handle is open on
the device; the device lists may be anything; SetupComm and its like may fail; an operation on a
device ends, with any of the codes of `OperationResults`, among them the one for a device that
does not exist any more. `Publish` waits for the mutex of a busy port of the same name with the
manager's mutex held, though `OpenPort` gives it up there; since the device is open exclusively,
there is no such port in any reachable state, which `NameIsNew` proves.

`SharedRegistry` is weaker than `PortRegistry` because the code is: a device that is gone is
reported as a port that is not open, and a look-up that comes before
`ClosePort` keeps the port alive past it, so an operation that overlaps a close may be served after
the entry left the table, or find the handle closed.

### AndroidPort

State: the manager's table (`openPorts`, for the one name), its pending permission request; for
each `SerialPort` object (a session) `opened`, `connected` (the claimed device), its buffer, the
queue of its `ioMutex`, the read loop's job, whether that is cancelled, and where it is; for each
coroutine its position and session. A step is what a coroutine does between two points where it may
be suspended or where another thread may interfere. `cut`, `stranded` and `announced` are history.

The end of the plugin closes all ports and then cancels its scope (`ScopeCancelled`, `stopped`): a
call of the application or of the receiver that is suspended, at `cancelAndJoin`, in the queue of an
`ioMutex` or at the permission question, ends there (`CallIsCancelled`, `WaitIsCancelled`). One that
is cancelled while it closes a port has taken it out of the table already, one that is cancelled
between the open of the device and the insertion has not put it there: the port stays claimed
(`stranded`) and waiting readers of a half-closed one are not told. The properties except that and
nothing else. The port is opened by one caller that awaits `openPort` (`SerialPort.open` on the Dart
side does); the receiver of detach broadcasts, the end of the plugin and the read loop run beside
it. External: the USB library's reads and writes return or throw; a mutex of kotlinx is fair; a
cancelled coroutine that would have to wait for a mutex throws instead; the user answers the
permission question or not.

### WebPort

State: the table entry, and for each context what the browser knows (`jsOpen`, `reader`, `writer`:
the locks on its streams) and what Dart knows (`task`, `closing`, `buffer`, `ended`). A step is the
code between two awaits. `ending` says the readable stream was cancelled; `refused` is history.
Each `openPort` may open another port, since the user chooses it. External: a stream has one reader
and one writer at a time, a port with a locked stream refuses to close, a cancelled stream ends its
pending read, a port can be opened when it is not open.

## Runs

| Run | Checks | Bounds |
|---|---|---|
| `linux_manager` | types, `OnePortPerName`, `DescriptorsAccounted`, `ConsistentLifetime`, the refinement of `PortRegistry` (`CallsAreAtomic`), `EveryCallReturns`; no deadlock | 2 threads, 2 names, 3 descriptors, 3 calls a thread |
| `facade` | types, `IsOpenTellsTheTruth`, `ListenersMatch`, `ServedByOwnOpening`, `OpenPortsStayInHand`, `LifecycleCallsReturn` | 2 calls in progress, 2 objects, 2 names, 5 calls in all |
| `linux_plugin` | types, `OneTimer`, `BytesInOrder`, `BytesReachTheApplication`, `HangUpIsReported` | 1 port, 2 bytes, 2 opens, 2 abandoned reads at a time |
| `linux_io` | types, `WrittenIsAPrefix`, `BackInTime`, `TimesOutInTime`, `EmptyReadsAreExplained`, `SignalsAsAsked`, `TimedCallsReturn` | 2 calls; buffers of 0 or 3 bytes over a queue of 2; timeouts 0, 2 or for ever; 1 signal, 1 stall, 1 act of another process, 2 arrivals; 2 lines |
| `windows` | types, `OneOpenPortPerDevice`, `HandleOutlivesItsUse`, `ListingIsASnapshot`, the refinement of `SharedRegistry` (`CallsAreRegular`), `EveryCallReturns` | 2 threads, 2 devices under 2 names each, 3 port objects, 4 calls in all |
| `android` | types, `NoLostConnection`, `NothingAfterClosed`, `ReadersOfClosedPortsReturn`, `EveryCallReturns` | 1 caller of open and close, 1 reader, 1 writer, 2 sessions, 1 chunk in a buffer |
| `web` | types, `NoLostPort`, `LoopEndsBeforeItsStream`, `NoMissedNotification`, `EveryCloseReturns` | 1 caller of open and close, 2 readers, 2 writers, 3 contexts, 1 chunk in a buffer |
| `linux_open_report` | `OpenReportsItsHandle` is violated | 2 threads, 1 name, 2 calls a thread |
| `facade_overlap` | `IsOpenTellsTheTruth` is violated when calls of one object overlap | 1 object, 1 name, 3 calls |
| `linux_two_streams` | `BytesReachTheApplication` is violated with two ports open | 2 ports, 1 byte each |
| `linux_read_until` | `ReadUntilSeesEveryByte` is violated | 1 port, 3 bytes |
| `linux_write_zero` | `ZeroMeansNoTimeout` is violated | 1 write of 1 or 2 bytes with timeout 0 over a queue of 1 |

Why the bounds are enough. The manager's races are between two threads: both open one name, one
closes what the other opens or uses, with a second name to tell ports apart; three calls let a
thread open, close and open again, so that handles and descriptors are reused; the third
descriptor lets two opens in progress coexist with a published port. Three threads and one name
were also explored for the invariants. In the facade, two calls in progress are what one event
loop needs to interleave an operation with a close or an open with an open, and five calls reach
an operation that is overtaken by a close and by the reopening of its device by another object.
In the plugin, two bytes show order and splitting, two opens show a port that is reopened with
messages of the first opening still on their way, and two abandoned reads show answers that are
late behind each other. A port that is swapped for another, one open at a time, was explored for
the invariants with no abandoned read; the proofs cover it for any number of ports.

In `LinuxIO` three bytes over a queue of two force a short write and a second turn, and leave room
for a refusal in between; a timeout of two leaves a turn with less than the whole timeout and one
with none; one signal and one stall each show lost time, and together a write that is interrupted
and then late. Two calls let a configured timeout, input and lines of one call meet the next. The
proofs do not depend on these numbers. In the Windows manager four calls are two opens of one
device under its two names with a close and a use or a listing between them, which is every pair
the two levels of locks can be contended by; three objects let one be closed and still referenced
while another is published and a third opened. On Android two sessions are a port and its
successor under the same name, the case in which a late close, detach or loop could hit the wrong
one; a third adds no new pair. On the web two readers compete for one notification and for one
chunk, two writers for the writable stream, and three contexts are a port, one refused by the
browser, and its successor.

Deadlock is checked for the Linux manager. In the other modules applications may stop calling and
bounds may be used up, so `CHECK_DEADLOCK FALSE` is set; that calls return is a liveness property
there.

Every property of a passing run has a mutant: a definition changed as a plausible bug in the
code would change it (`Mutant:` in the modules' comments), under which TLC finds the property
violated.

Fairness. A thread inside a call of the manager keeps running, and port operations end because
the waits of `serial_port.c` have time-outs (`tcdrain` ends when the line drains): weak fairness
of each thread's steps. Calls are finitely many in a behaviour, so no fairness of the mutex is
needed. In the facade the platform answers, and the event loop resumes each call: weak fairness
of those, none of the application. In the plugin the main loop serves its messages and its timer,
and the isolate its messages and its own timers: weak fairness of each; nothing is assumed of the
application or of the device. In `LinuxIO` the thread runs and the clock goes on in `poll`; nothing
makes the line take bytes or a byte arrive, so what is claimed is that calls with a timeout return.
In the Windows manager each thread inside a call keeps running; `ReadFile` and `WriteFile` end
because `ApplyTimeouts` bounds them when the timeouts are above zero. On Android coroutines that
can run do, and driver calls return; the user need not answer and an open that waits for the
answer is excepted. On the web Dart goes on and the browser ends a read that was cancelled; a write
need not end.

## Proofs

`LinuxPortManagerProofs` proves, for every set of threads, names and descriptors and every number
of calls, with no assumption but the three named ones of `LinuxPortManager` (the constants
`Nobody` and `Closed` differ from threads and names, `MaxCalls` is a natural number):

- `TypeCorrect`, `NameOpenOnce`, `NoDescriptorLost`, `LifetimeIsConsistent`: the invariants of
  the run `linux_manager`;
- `ManagerImplementsRegistry`: the manager implements `PortRegistry`.

The three safety invariants are not inductive alone. `IInv` adds `CallShape`, what a thread's
position says about its call (an opening thread between `device` and `insert` holds exactly one
entry with the name it was asked for; a thread is in a port operation exactly when it holds the
mutex; a result is undecided exactly before the step that decides it), and `HandlesIssued` (table
handles are below `next_handle`). `OnePortPerName` rests on the second look-up in the same step as
the insertion; `DescriptorsAccounted` on every entry in a thread's hands being its own until the
step that publishes it; `ConsistentLifetime` on the mutex being held from the look-up to the end of
the operation while detaching needs it free. The refinement maps the entries to records of handle
and name, the issued handles to `1 .. next_handle - 1`, and a call's state to what `ret` says; each
step is shown to be a step of the registry (a listing whose `glob` fails is `ListFails`) or to leave
it unchanged.

`LinuxIOProofs` proves every invariant of the run `linux_io`, for all buffer lengths, timeouts,
queue capacities, lines and numbers of calls, signals, stalls and rivals. It assumes what `LinuxIO`
names: lengths, timeouts and limits are natural numbers, the capacity a positive one
(`LengthsAssumption`, `TimeoutsAssumption`, `LimitsAssumption`, `CapacityAssumption`). The theorems
are `TypeCorrect`, `WritesAreExact`, `DeadlinesAreKept`, `TimeoutsAreTrue` (which except a write
with timeout 0 as its property does), `EmptyReadsExplained` and `SignalsFollow`. The properties
speak of calls that return, and are made inductive by `Shape`, at the end of `LinuxIO`, which says
what is so in the middle of a call:

- `WriteShape`: the bytes sent are the first `total` of the buffer. That another turn prolongs the
  run is the one fact about sequences it needs (`RunsConcatenate`).
- `TimeShape`: the wait that `poll` is given, or is in, ends neither before the call's timeout nor
  later than it by more than the lost time. This is what carries `BackInTime` and `TimesOutInTime`
  through the restart of `poll` after a signal, where the whole wait begins again and `late` grows
  by what had been waited, and through the turns of a write, whose waits shrink.
- `ReadShape`: a read that `poll` let through finds input, or a rival took it, or the device went.
- `SignalShape`: between the two ioctls the lines to be set are set.
- `CallShape`: a position belongs to one kind of call.

`WindowsPortManagerProofs` proves the safety invariants of the run `windows`, for every set of
threads, devices and port objects and every number of calls, from `NobodyAssumption`,
`InvalidAssumption` and `MaxCallsAssumption` of `WindowsPortManager`: `TypeCorrect`,
`DeviceOpenOnce`, `HandleOutlives` and `ListingsAreSnapshots`. The parts of its inductive
invariant, at the end of `WindowsPortManager`:

- `TableShape`: a device has one open handle, and every entry of `ports_` is open on the device it
  names. With `HandsShape` this gives the lemma `NameIsNew`: while a thread has a port open that
  is not in `ports_` yet, no entry is for the same device, so `OpenPort`'s check for the name,
  which comes after `CreateFileW`, never finds anything and `PublishPublishes`.
- `HandsShape`: a port that is being made or closed is open, is out of `ports_` and belongs to one
  thread; one that is used is open; one that was only looked up is open on its own device or
  closed, never on another, because an object that somebody refers to is not made anew.
- `HeldShape` and `CallShape`: which references a position holds, and which call it belongs to.
- `LockShape`: each mutex is held exactly where the positions say. That `Close` needs the port's
  mutex and an operation holds it carries `HandleOutlivesItsUse`.
- `ListingShape`: for each name, the listing found it open or has yet to ask it, exactly when it
  was to be asked at the start. `ports_` cannot change meanwhile, since the mutex is held.
- `IdentifierShape`: an identifier that is being closed is out of `ports_` and closed by one thread,
  and a port that was looked up is open only as long as its identifier is in `ports_` or being
  closed.

`ManagerImplementsSharedRegistry` proves the refinement of `SharedRegistry`. The abstract table,
`OpenPorts`, is `ports_` and the ports a close has taken out of it and not closed yet; the closing
identifiers are those of the threads that do so, and a call's state is read from `pc` and `ret`. Each
step of the manager is one of the registry, or leaves it unchanged. The delicate step comes after an
operation looked its port up: it meets the port open or closed. `IdentifierShape` says that a port
found open is still in `ports_` or being closed, so the registry may serve it, and that one found
closed has left `ports_`, so the registry may refuse it. An operation on a device that is gone is
the registry's `DeviceIsGone`.

`SerialFacadeProofs` proves `TypeCorrect` for every application, and the other safety invariants of
the run `facade` when `Overlap` is false: `OpenPortsAreKnown`, `ClosedPortsAreSilent` and
`OperationsStayWithTheirPort`, for any number of calls, objects and names, from `NoneAssumption`
and `BoundAssumption`. `facade_overlap` shows that the hypothesis is needed. The inductive
invariant, at the end of `SerialFacade`, follows an object through the queues:

- `OwnerShape`: an object has one open, close or closeAll at a time. `closeAll` owns the objects it
  has yet to close.
- `ObjectShape`: an object with no call agrees with the platform and with its subscription; one
  that is opened or closed is as the await says.
- `RequestShape`, `AnswerShape` and `OneRequest`: a call has one request or answer in the queues,
  and an object's platform state is what the open or close in the queue starts from or led to.
- `OrderShape`: an operation sent on a settled port finds the port open for it, and no close of that
  port is before it in the queue. That carries `ServedByOwnOpening` past closes and reopenings
  that the application started after it.

`LinuxPluginProofs` proves the safety properties of the run `linux_plugin` for any number of ports,
bytes and openings, from `NoneAssumption` and `BoundAssumption`: `TypeCorrect`,
`TimersAreNotLeaked`, `BytesKeepTheirOrder` and, when one port is used at a time (`Together` is
false), `OnePortLosesNothing`: no event is dropped while its port is open, which it takes two ports
to break; the run has one, because its liveness properties are too large for two. The other three
hold for several ports at once too. The order of bytes is an invariant of the whole way: what the
tty holds is later than what was taken from it (`DeviceShape`), messages on their way are in order
among themselves and before the tty's bytes (`MessageShape`, over `Coming`, which puts the event the
channel kept before those still to come), and what the application will get is later than what it
has (`StreamShape`). An event for a port that nobody listens to may be older; it is not delivered.
`PhaseShape` says that an `open()` or `close()` has one request or answer on its way, which is why
an answer finds the phase it expects; `ListenShape` that an open port is the one listened to when
there is only one.

`AndroidPortProofs` proves `TypeCorrect`, `NothingFollowsTheEnd` and `ConnectionsStayWithinReach`
for any numbers of coroutines and sessions, from `ProcessesAssumption` (callers, receiver and engine are
different coroutines) and `BoundsAssumption`. The first two follow from `IInv`: `LoopShape` says
that a read loop whose job is gone or whose device is given back is past its last read, `CloseShape`
that whoever goes to the driver to close it, or announces the end, comes after that.
`ConnectionsStayWithinReach` has the hypothesis `OneAtATime`, a single caller that awaits `openPort`
and `closePort`, as in the run; its invariant `ReachInv` adds `TableShape`: nothing is in the table
while a port is opened, and the receiver takes out what it saw or nothing. The theorem says that a
claimed device is in the table or in the hands of a call that inserts or closes it, unless the scope
was cancelled and such a call with it. The lemmas `WhoStops`, `WhoStrands` and
`StrandedForGood` carry that exception: only the end of the plugin sets `stopped`, only a cancelled
call that had a port in its hands strands it, and neither is undone.

`WebPortProofs` proves `TypeCorrect`, `StreamsOutliveLoops` and `ReadersAreTold` for any callers,
whether or not opens and closes overlap, and `PortsAreNotLost` when they do not (`OneAtATime`), from
`NoneAssumption` and `BoundsAssumption`. `LoopShape` says that the reader's lock is held exactly
while the loop runs and that a close which came to the port found it over, so the browser refuses
only because of a write; `PortShape` and `NameIsFree` that a port the browser has open is in the
table, or has a close before it, and that the name is free when a port enters the table.

In every proof there is one lemma for each part of the invariant, with one step for each action.
TLC checked each inductive invariant as an invariant of a run's configuration before it was
proved.

Model-checked only: liveness under fairness, which is out of the prover's reach (`EveryCallReturns`,
`LifecycleCallsReturn`, `BytesReachTheApplication`, `HangUpIsReported`, `TimedCallsReturn`,
`ReadersOfClosedPortsReturn`, `EveryCloseReturns`), and the action property `OpenPortsStayInHand`,
whose proof would need an invariant about the order of opens and closes in the platform's queue.
Every other safety invariant, action property and refinement that a passing run checks is also a
theorem. The violated properties are shown by their runs.

## Findings

1. `linux/serial_port_manager.c:317` reads the new entry's handle after it released the mutex
   (`linux_open_report`). One thread opens, another closes the same name at once, and the handle
   comes from freed memory. Only callers of the C API from several threads are exposed; the
   plugin calls it from one.
2. `lib/src/serial_port.dart:69`: of two overlapping `open()` calls, the one that fails marks the
   port closed that the other opened (`facade_overlap`). The port stays open in the platform.
3. `linux/platform_serial_plugin.cc:565`: with two ports open only the one that listened last is
   streamed (`linux_two_streams`).
4. `lib/src/serial_port.dart:195`: `readUntil` and the event pump share the port's bytes, and the
   pump takes those that arrive between two of its reads (`linux_read_until`).
5. `linux/serial_port.c:565` polls for no time at all when a write's timeout is 0 and answers
   `ETIMEDOUT` as soon as the tty has no room (`linux_write_zero`), while
   `lib/src/models/serial_config.dart:66` says "0 = no timeout".

## Observations

What the models make visible without contradicting anything the repository says of itself; the
properties of the passing runs are stated so that these show in their exceptions.

- Dart: `_openPorts` is keyed by the name given to `openPort` and never corrected. When a tracked
  port is closed directly and opened under another name, `getPort` and `openPort` still give it out
  under the first (`lib/src/serial_manager.dart:53`, `:87`). `readUntil` reads the configuration again
  before each byte, so after such a reopening it goes on under the new name.
- Linux: a signal starts `poll` over with the whole timeout (`linux/serial_port.c:343`), so a read or a
  write goes on past its timeout, once more for every signal; `BackInTime` excepts that time, and the
  comment at `:564` ("until the whole buffer is drained or the timeout expires") does not mention it.
- Linux: `tcdrain` has no timeout and runs with the manager's mutex held, so a line that does not
  drain stops all ports. A write with timeout 0 that finds room in each turn goes on for any number
  of turns, and a read with timeout 0 answers at once, with no bytes and without an error when there
  are none. A read that the application gave up still takes bytes, and they are lost
  (`BytesReachTheApplication` excepts them).
- Windows: the check for the name finds nothing in any reachable state; `CreateFileW` has refused
  before it. An operation on a device that was unplugged is answered with access denied, which the
  C API reports as "port already open"; if Windows answers that the device does not exist, it is
  reported as "port not found".
- Android: two overlapping `openPort` calls of one name would both insert, and the first port would
  be lost; `SerialPort.open` awaits, so one object does not do that, two objects can. A permission
  question that nobody answers leaves every caller of `openPort` waiting. The end of the plugin
  while an open is in progress leaves that open to go on beside `closeAll`, which does not see it.
  When the plugin then cancels its scope, a `closePort` or a detach that waits for the read loop or
  for an `ioMutex` ends there: the device stays claimed, nobody has the port, and a reader without a
  timeout stays in `bufferLock.wait()` (`NoLostConnection` and `ReadersOfClosedPortsReturn` except
  such a port). A read loop
  that fails cancels itself first, so it cannot wait for an `ioMutex` that is taken, and its port
  stays claimed and readers stay waiting until `closePort` (`ReadersOfClosedPortsReturn` excepts
  it).
- Web: a port closed while a write is pending is refused by the browser and forgotten by Dart
  (`NoLostPort` excepts it). A read loop that ends by itself does not tell waiting reads. Two
  objects that open one name at once can lose a context.

## Plan

Done: the Linux manager, the Dart facade, the Linux plugin, the reads and writes of
`serial_port.c`, the Windows manager, Android's and the web's ports; the registries the two native
managers implement; proofs of all their safety properties. Next, in this order:

1. What holds when calls of one object overlap: `SerialFacade` without `~Overlap` keeps its types,
   and which part of `IsOpenTellsTheTruth` survives (a port that says it is open, but is not) is
   open.
2. macOS readiness: one edge-triggered filter shared by the poll and by `read`.
3. iOS and the Windows Dart poll, where they add questions of their own.

## Not modelled

- The Windows Dart platform: each FFI call is synchronous, so its table and the native manager
  change together between two turns of the event loop.
- macOS: planned. Its native handle adds one question to those of Linux, the edge-triggered filter.
- The Android driver wrappers and iOS: thin layers over a USB library, ExternalAccessory and
  network connections, whose behaviour this code does not determine; iOS' manager has the shape of
  Android's.
- The Dart value classes, platform selection and the channel wrappers that nothing uses, the
  example application.
- Argument parsing and error messages of the plugins, termios settings, the contents of device
  lists.
