# A verification of iperf3 (Windows/MSVC port)

TLA+ modules that model the core of iperf3 as it is in `src/`: the control
protocol between one server and its clients, the worker threads of a test, the
timers and what they measure, the accounting of UDP datagrams, the command line
and the parameters of a test, the exchange and the printing of results, the
sockets of a server, and the Windows service that runs one.  TLC checks
them on small instances and TLAPS proves the most important results for every
value of the constants.  `PROJECT.json` maps each definition to the lines it
translates and lists runs, mutants, hazards, findings and theorems.

In this text `S` is `src/src/iperf_server_api.c`, `C` is
`src/src/iperf_client_api.c`, `A` is `src/src/iperf_api.c`, `W` is
`src/windows/compat/src/win32_compat.c` and `V` is
`src/windows/compat/src/win32_service.c`.

## 1. The system

An iperf3 server listens on one TCP port.  A client opens a control connection
to it, sends a cookie and, on request, its parameters as a JSON message; it then
opens the data connections, which reach the same listening socket and are told
apart by the cookie.  Both sides keep `test->state`; the server moves the test
forward by writing a state byte to the control connection, and the client
answers with a byte or a JSON message.  During `TEST_RUNNING` each data stream
has a worker thread on either side, and the main threads run timers.  At the end
the two sides exchange results and close.  A server serves one test at a time,
and refuses other clients with `ACCESS_DENIED` while a test is running.

### Components

| Component | State | Operations | Interacts with |
|---|---|---|---|
| Server control loop (`iperf_run_server`, `run` in `main.c`) | `state`, `ctrl_sck`, `streams`, `done`, `timer`, the process-wide `i_errno`, the listener | accept, refuse, read parameters, accept a stream, `TEST_END`, results, `cleanup_server`, timeouts, limit, signals | the clients through the control connection; worker threads; timers |
| Client control loop (`iperf_run_client`) | the same fields of its own test | connect, `iperf_handle_message_client`, end of the test, `cleanup_and_fail`, `iperf_client_end` | the server; worker threads; timers |
| Control messages (`iperf_set_send_state`, `JSON_read`, `JSON_write`) | the two byte streams | state byte, length and JSON, error code | both loops |
| Stream worker threads | `sp->done`, `test->done`, the stream's sockets | create, loop of send or receive, cancel, join | the main thread, without a lock; the peer's workers through the data connection |
| Timers (`timer.c`) | the sorted list of timers, the free list | create, run, reset, cancel, timeout | the callbacks of the loops |
| Time arithmetic (`iperf_time.c`) | none | add, compare, difference | timers, statistics, jitter |
| Statistics, omitted period, end conditions (`A`) | counters of the test and of each stream, interval results | `iperf_stats_callback`, reporter, `iperf_reset_stats`, end by time or amount | worker threads count while the main thread reads and resets |
| Server bitrate limit (`iperf_check_total_rate`) | a ring of intervals | record, average, end the test | statistics, server loop |
| UDP streams (`iperf_udp.c`) | number of the last datagram, losses, reordering, their values at the end of the omitted period | send (one datagram or a batch), receive | the network; `iperf_reset_stats` |
| Command line and defaults (`iperf_defaults`, `iperf_parse_arguments`) | the members of `iperf_test` | one option after the other, then the checks of the whole | decides what is exchanged and which sockets are opened |
| Test parameters and their reset | `iperf_test`, which a server keeps for all its clients | `send_parameters`, `get_parameters`, `iperf_reset_test` | both loops |
| Results and reports (`send_results`, `get_results`, `iperf_print_*`) | counters of both ends of each stream, what has been printed, JSON objects | interval report, exchange, summary, the server's output for its client | statistics, both loops |
| Sockets (`net.c`, `iperf_tcp.c`, `iperf_udp.c`, `iperf_sctp.c`) | descriptor numbers in `listener`, `prot_listener`, `ctrl_sck` and the streams | listen, accept, connect, replace, deny, close | both loops, worker threads, other clients |
| Windows service wrapper (V) | status of the service, stop event, server process | install, start, stop, remove; `service_main`, control handler | the service control manager; a server process |
| Units, texts, log, disk file, pid file, cJSON, `tcp_info` | | | see section 8 |

### What is hard

* Three parties, and more clients, act on one listening socket: a connection may
  belong to the test, be a new client, or come from a client that has gone.
* State bytes, JSON messages and error codes share one byte stream without type
  tags; a message too many or too few is read as something else.
* `i_errno` is one variable for all the tests of a server, and `cleanup_server`
  sends whatever it holds.
* Peers may vanish without closing; only timeouts can free whoever waits, and
  they cover some states only.
* Workers and main thread share flags, sockets and counters without locks; a
  worker must end even if it is blocked in a system call, and on Windows
  `pthread_cancel` does nothing.
* Timer callbacks change the list that `tmr_run` walks.
* Statistics are read and set to zero while workers add to them.
* A server keeps one `iperf_test` for all its clients: a member that
  `iperf_reset_test` forgets belongs to every later test.
* Options take effect in the order of the command line, and some set what
  others have set.
* Each end prints what it knows and takes the rest from the other, before or
  after the exchange, and the other may be of an earlier version.
* A number that was closed is given to the next socket, while a worker, a list
  of streams or a member of the test still has it; any system call of a function
  that holds a socket may fail.
* The service's stop handler runs in a thread of its own, and the server is a
  process of its own, which ends or does not end when it likes.

`PROJECT.json` lists these hazards at the lines where they bite, each with the
properties that would catch it going wrong.

### What makes each component correct

* Control loops: one control connection at a time; a client reports success only
  if results were exchanged; both sides agree on the streams and their order; a
  stranger does not disturb a test; the error that ends a test is told to its
  client and not to another; every client ends and the server becomes free.
* Workers: no thread outlives its test; `TEST_END` is sent only after the sender
  threads ended; a cancelled thread ends; both main threads return.
* Timers and statistics: an object is in one list; the list stays sorted; nothing
  fires early; each interval is reported once; intervals and totals agree; the
  end conditions are about what was measured; every test ends.
* UDP: losses are exact or understated, never overstated; a report is
  consistent whatever the order of the two threads' accesses.
* Time: comparison is the order of time, addition and difference are exact.
* Options and parameters: a client runs what its options ask for together or
  has given a reason to be refused; a server runs its client's test and nothing
  of an earlier one, within its own limits.
* Results: both ends report the same numbers, those that were counted; no byte
  is missing from the intervals; the server's output reaches the client that
  asks for it.
* Sockets: a kept number names what it was opened for; what is acquired is
  released, once; no byte of another connection is counted.
* Service: one server at a time, none after the service has stopped; a stop is
  obeyed; a server that exits is started again.

## 2. Modules

| Module | Models |
|---|---|
| `Session` | abstract specification: what the control protocol promises |
| `Control` | server and clients, the control connections and the listening socket |
| `ControlProofs` | `ControlInvariant` and its consequences; `Control` implements `Session`; errors are told; strangers do no harm; the scripts of the two sides: streams, framing, running together, whose error |
| `StreamThreads`, `ThreadsProofs` | main and worker threads of one test on both hosts, and theorems about them |
| `UdpStream`, `UdpProofs` | a UDP stream from sender to report, and theorems about it |
| `IperfTime` | `iperf_time.c` |
| `Timers` | `timer.c` as operators on a record of the two lists and the objects |
| `Measurement` | the main thread's timers and statistics against a worker that counts; extends `Timers`, which extends `IperfTime` |
| `MeasurementProofs` | theorems about time arithmetic, the timer lists and `Measurement` |
| `Options` | the members of `iperf_test`, the options and the checks of the command line, as operators |
| `Params`, `ParamsProofs` | a server and a sequence of clients that parse their options, exchange parameters and reset, and theorems about them; extends `Options` |
| `Results`, `ResultsProofs` | interval reports, the exchange of results and the summaries of both ends, and the theorem that the server's output arrives |
| `Calls` | every function that opens a socket, as the sequence of its calls that may fail and what it releases then |
| `Sockets`, `SocketsProofs` | the descriptors of a server through its tests, its workers and other clients, and theorems about them; extends `Calls` |
| `Service`, `ServiceProofs` | the Windows service, and the theorem that it leaves no server behind |
| `MCControl`, `MCThreads`, `MCMeasurement`, `MCParams`, `MCResults`, `MCSockets` | instances for TLC |

### `Control`

An action is the part of a handler from one return of `select` (or of a blocking
read) to the next blocking call; `spc` and `cpc` name that call.  Whatever the
handler calls on the way is part of the action: `cleanup_server`,
`iperf_set_send_state`, the error code that follows `SERVER_ERROR`, closing and
reopening the listener, cancelling the timer.

| Variable | Code |
|---|---|
| `spc`, `cpc` | where the process waits |
| `sstate`, `cstate` | `test->state` |
| `sctrl` | `test->ctrl_sck` of the server: a client's control connection, or `None` for -1 |
| `sstreams`, `cstreams` | `test->streams` |
| `stimer`, `sdone` | `test->timer`, `test->done` of the server |
| `i_errno`, `errOwner`, `cerr`, `cblame` | `i_errno` of each process, and (history) in whose test the error was raised |
| `listener`, `backlog` | the listening socket and the connections waiting in it |
| `toS`, `toC`, `sEnd`, `cEnd` | the two directions of a control connection and its ends: open, shut for writing, closed |
| `exchanged` | history: the clients that were sent results |

TCP is modelled as what it is to the code: a FIFO per direction, an end of file
after what was written, writes that may fail once the peer has closed, and a
reset (`Faults`).  A JSON message is a token: lengths and contents are left out.
Signals, timeouts, the bitrate limit and vanishing hosts are actions of their
own that may strike in each state where the code can meet them; `Faults` says
which system calls may fail.  Where the code calls `cleanup_server` before it sets
`i_errno` the model does too (`FailLate`, `LosesListener`).  Worker threads run from
the start of the test until they are joined, and each may write its own error into
`i_errno` at any moment, also between a handler's assignment and the place where
`cleanup_server` reads it (`StreamFails`, `Overwritten`).  Handlers with a
plausible wrong variant define it just before (`AnyCookie`, `TellNobody`,
`ShutdownKeepsSocket`...): these are the mutants.

`Session` keeps three things: who holds the server, who was sent results, and
what each client reports.  `Control` implements it with `holder` the client in
`ctrl_sck` and the outcome read off `cerr` and `cpc`.

### `StreamThreads`

Both hosts, with a worker per stream.  A worker alternates between the test of
`test->done` and `sp->done`, the system call, and waiting in it (a full buffer
when it sends, an empty one when it receives).  A main thread ends them in the
order of the list: set `sp->done`, `pthread_cancel`, `pthread_join`.  `setting`
says which hosts are Windows builds: there `pthread_cancel` does nothing
(W:365-371) and closing a socket wakes the thread that is blocked in it.
Control messages are abstracted to the peer's `pc`; `Control` models them.

### `UdpStream`

`Send` numbers a batch of datagrams with the width of the number on the wire;
`SendSoftError` is a failed write of a batch, which takes back one number; the
network loses, reorders and repeats.  `Receive` computes the new counters as
`iperf_udp_recv` does and `Store` stores them one at a time, because the main
thread reads them one at a time at the end of the omitted period (`OmitEnds`).  The
counters are plain `int64_t` members (`iperf.h`:240-249): stores and reads take
effect in any order.  `race` is history: by how much the highest number grew while
the main thread was reading.

### `Timers` and `Measurement`

`Timers` has an operator per function of `timer.c`; NULL is 0.  In `Measurement`
the main thread goes through `create`, `loop` (in `select`), `visit` and `call`
(inside `tmr_run`, with its local `now`, `t` and `next`), `join`, `final` and
`ended`.  `iperf_stats_callback` and `iperf_reset_stats` are cut at each access
to a shared counter, so that the worker may count in between; the worker adds to
the stream's counter, the interval's and the test's in three steps.  Time is in
microseconds of which a second has `UsecsPerSec`; the clock advances where the
main thread may read it next.  The worker is a receiver or a sender of one TCP
stream.  The ring of the bitrate limit has `MAX_INTERVAL` entries, of which a
setting uses as many as it averages.

### `Options` and `Params`

A test is a function from the names of its members to their values.  Most
options assign their argument to members and raise `client_flag` or
`server_flag`: they are rows of tables (`OutputOptions`, `LoadOptions`,
`SocketOptions`...), one row for each `case`; the options that do more (`-c`,
`-s`, `-u`, `--sctp`, `-R`, `--bidir`) are operators.  `ParseEnd` is what follows
the loop over the options: the checks in the code's order, each with its error,
and the members that are derived.  An argument is a number, or `Bad` for one
that the option's own checks refuse.  `ServerLacks` and `ClientLacks` are the
options that a build of either program was made without (`-D`, `--sctp`, `-m` on
Windows...): such an option is refused with `IEUNIMP`, or is not known at all, and
`set_protocol` fails for a protocol that is not built in.  Rates are multiplied as
the code does, modulo `RateMod` = 2^64.

In `Params` each program parses one option at a time, in any order.  A message
of parameters is a function on the members that are sent: always, if set, or for
UDP only.  `get_parameters` takes what it finds and leaves the rest, and
`iperf_reset_test` assigns what the code assigns; clients come one after the
other, so that what is left over meets the next.  Decoding a token is a choice
(`Authorized`).

### `Results`

The counters of a stream's two ends are chosen when a test starts (`loads`);
they are what an exchange may carry: bytes, retransmissions, numbers and losses
of datagrams, and their values at the end of the omitted period.
`send_results`, `get_results`, `iperf_print_intermediate` and
`iperf_print_results` are translated with their conditions; a printed line is a
record of the numbers that are on it, and of no others.  An end may be of an
earlier version that sends no omitted counters (`old`).  Rates, jitter, CPU
usage, units and wording are left out.

### `Calls` and `Sockets`

A function that opens a socket is a sequence of steps, each a system call that
may fail; a step says what it acquires, what it releases, and what the code
releases when it fails.  `Outcome` computes what is left over, or released twice,
when the k-th step fails, the file of `-F` included.  `Sockets` gives every number
its meaning (free,
listening, control, datagram, data, another client's) and follows the members of
`iperf_test` that hold numbers.  A worker reads the number of its stream, uses
it in a later step and counts in a third; in between the main thread may close
it and another client may be given it.  `end` records how a test ended and for
which numbers `close` was called again.  `Winsock` says whether `select` reports a
closed socket in `errno`.  The client has one action, since its process ends with
its test.

### `Service`

`service_main` is cut where it waits or calls something that takes time, the
control handler between its two calls.  The service control manager, the
processes and the event are modelled from how the code uses them: a control is
delivered to a service that accepts it, `SetEvent` of a closed handle does
nothing, a process that is not terminated runs on.  A crash of the service may
strike anywhere.  `escaped` is history: the servers that nobody will stop.

## 3. Runs

| Run | Instance | What it shows |
|---|---|---|
| `control_safety` | a bidirectional client that recreates the listener and a receiving client that may vanish; one stream each way; timeouts at any moment, limit, signals, a listener that cannot be opened, allocations and threads that fail | all safety properties of `Control`, and that it implements `Session` |
| `control_live` | a client whose parameters are refused and a sender with a type of service that may vanish; interrupts, resets, and every kind of call failing: to reopen the listener, of socket options, at the start of a test, of workers, of `select` | every client ends; the server does not keep a client for ever; errors are told |
| `control_completes` | a bidirectional client with two streams each way and a second client, no faults | an accepted client completes its test |
| `threads` | two POSIX hosts with every failure, and each mix of POSIX and Windows hosts for tests that run to their end or are killed; one stream each way | no thread outlives its test, no sender is left at `TEST_END`, cancelled threads end, main threads return |
| `threads_cancel` | two Windows hosts, a server with a bitrate limit | violation, finding 1 |
| `udp` | five numbers in batches of up to two, a number that wraps around at five, losses, reordering, duplicates, failed batches, accesses in any order | counters are consistent, losses exact or understated |
| `meters` | four kinds of client tests (timed with omitted period, a number of bytes sent with omitted period, received, received without reports) and a server with a bitrate limit, the mean of two intervals of three, that runs two tests | timers stay sane, reports are on time and once, end conditions and the limit are about what was measured, tests end |
| `params` | command lines of up to three out of 20 options for clients and 9 for the server, in every order, with and without the files they name; a server without SCTP, MPTCP and daemon mode, a client without `-C`; clients in sequence | a client runs what it was asked to, the server runs its client's test within its limits |
| `results` | one and two streams each way, TCP, UDP and SCTP, text, JSON and JSON stream on either end, with and without omitted period, retransmission counts and `--get-server-output`, a peer of an earlier version on either side, any number of tests in sequence | both ends report the same, intervals are complete, the server's output is complete |
| `sockets` | two tests of two streams, eight sets of options over three protocols, any one call failing, strangers and a guest | what is left behind or closed again is what section 7 names, kept numbers name what they were opened for, no byte of another connection is counted |
| `sockets_winsock` | two TCP tests on Winsock | violation, finding 2 |
| `service` | install, start, stop and remove at any moment, exits, crashes, three process numbers | no server is left behind, a stop is obeyed, a server that exits is started again |

### Properties

`Control`.  `StreamsMatch`: while a test runs, the
server's streams are those of its client, in the client's order, on which the
numbering of results depends.  `RunningTogether`: a client that acts on
`TEST_RUNNING` has a server that has all its streams.  `Framing`: nobody reads a
state where a message is and the reverse.  `ErrorIsOwn`: no client is told the
error of an earlier test.  `ErrorIsTold`: the error that ends a test is the last
thing its client is sent, except for the errors that the code sets after
`cleanup_server` (`SetLate`, section 7).  `StrangersAreHarmless`: a connection that is not part
of the test leaves it alone.  `SuccessMeansExchanged`: no success without
results.  `ControlInvariant`: the inductive invariant of section 5, of which
`OneControlConnection` (the server has at most one control connection open and
it is `ctrl_sck`) is a part.

`StreamThreads`.  `ThreadsJoined`, `NoSenderAfterTestEnd`, `CancelEndsThread`,
`MainsReturn`.  `ThreadsJoined` excludes the test that
`server_timer_proc` ends: there the code frees the streams without joining
(S:344), and the model shows threads that are left.

`UdpStream`.  `LossExact` (until a datagram is repeated; the numbers of a failed
batch that are not used again are losses), `LossNeverOverstated`, `LossWithinReport`:
the losses reported for the period after the omitted one exceed its datagrams by
no more than was counted while the main thread read the counters.

`Measurement`.  `TimersSane`, `OneReportPerInterval`, `IntervalsWithinTotal`,
`BytesMeasured`, `LimitIsAverage`, `OnTime`, `TestEnds`.  The `+ 1` in two of
them is the one block that the worker has added to some of its counters and not
yet to the others when they are reset: the code has no lock, so that this much
is lost or counted twice.

`Params`.  `CommandLine`: direction, protocol and end condition are those the
options ask for together, in whatever order, and a client that is refused has
been given a reason (it is stated of clients of a server that is up).
`ServerRunsTheTest`: whatever the earlier tests were, every exchanged member has
the value of the client, except where the server's build lacks what is asked for;
a member that stays (section 7) has the value sent, or that of the server's start
or of an earlier client.  `AdmittedWithinLimits`: all streams in both directions keep to the bitrate limit,
the duration with the omitted period to the maximum, and no user is let in
without credentials.  It excludes a total rate that does not fit into 64 bits
(section 7).

`Results`.  `ReportsAgree`, `IntervalsShowEverything` and `ServerOutputComplete`
compare what was printed with what each end counted.  `ReportsAgree` names the two
cases in which the code prints something else (section 7).  Of a peer of an earlier
version only bytes and retransmissions are compared: the code guesses the rest.

`Sockets`.  `ReleasedOnce` lists, by function, the only failures after which
something is left behind or released twice, and by end of the test the numbers for
which `close` is called again; it counts the open sockets between two tests.
`OwnDescriptors`: so nothing closes another's socket.
`ReceivedFromPeer`: a worker may read from a guest's connection after
`TEST_END`, but counts nothing of it.  `DeniedIsNoError` is finding 2.

`Service`.  `ServerStopsWithService` and `ServesUntilStopped`.

Each property of a passing run has a mutant in `PROJECT.json`: a plausible slip
in the code under which TLC finds it violated.

### Bounds, and why they are enough

* Two clients: one that holds the server and one that interferes; each client
  runs one test, so that a server serves two tests in sequence and what one test
  leaves behind (`i_errno`, `done`, the timer, the listener) meets the next.
  What does not depend on their number is proved for any set of clients.
* One stream each way, two in `control_completes`: the count that triggers
  `TEST_START` is reached in both; the bidirectional client of `control_safety`
  has a first and a last stream.
* `Cap` = 1, `NumStreams` = 2, `FromClient` = 1 in `StreamThreads`: the smallest
  test with a sender and a receiver on either host, and buffers that are full
  after one block.
* Five numbers with `CounterMod` = 5 and `Segments` = 2: losses of one and of
  several, a late datagram after each, a batch that fails between others, and the
  first number after wrapping around.
* `UsecsPerSec` = 2, so that a carry happens; `MaxLate` = 1, so that a timer
  of the length of an interval is due twice when the main thread returns to it;
  `MaxIdle` = 2 and three bytes, so that they may arrive before, during and
  after intervals; `MaxBlocks` = 2 blocks in a period where the test has no
  number of bytes; `Tests` = 2 for the free list and the ring of the limit, which
  the second test finds as the first left them.  The limited test has more
  intervals than it averages, so that the oldest entry is overwritten and the
  window moves.
* Three options: the three that concern one question meet in every order (two
  directions and a role, two ends and a role, a limit on one side and what is
  compared with it on the other).  `RateMod` = 2^26, so that four streams of 2^24
  wrap around to 0.  A server is asked for the
  next client after every test, without a bound.
* Two streams each way give a sum that differs from its parts; the loads differ
  between the streams and between the ends, with and without omitted counters.
* Six numbers for two streams, a control connection, a listener, a listener of
  datagrams and a guest: a number that is closed is given out again.  They are
  interchangeable, so that the run uses their symmetry.  Two tests, so that what
  one leaves meets the next; one failing call, since a failure ends the test.
* Three process numbers: a server that was given up, the one of the present
  service, and the next.
* `CHECK_DEADLOCK FALSE` is set where the bounded number of tests ends: after the
  last client has exited the server waits for ever, after the last test of
  `Measurement` and of `Sockets` nothing is left to do, a server of `Params` that
  has exited does nothing, and a service may be installed and never started.  In `StreamThreads` an explicit `Finished`
  step marks the end, and TLC checks that nothing else stops.

## 4. Fairness

* `Control`: weak fairness of the server's and of each client's steps (the
  operating system schedules a process that can run, and delivers what is in a
  socket), of the receive timeout and of the server's timer (timers that are
  armed expire).  None for signals, limits, faults or vanishing hosts.  `EndTest`
  is part of a client's steps: a test has a duration or an amount.
* `StreamThreads`: weak fairness of each thread and of the end of the test; a
  timeout is fair only when its peer has disappeared.
* `Measurement`: weak fairness of the main thread, of the worker and of the
  clock.  A client may never send `TEST_END`.
* `Service`: weak fairness of the regular steps of `service_main` (`MainSteps`), of
  the control handler and of the end of the process: Windows schedules every thread
  that can run.  The wait for the event and the server has no timeout (V:187): it is
  left only because one of the two is signalled, and its failure (`WaitFails`) is
  not fair.  None for commands, for the end of a server or for a crash.

## 5. What is proved

`ControlProofs`, for every set of clients, every mode, number of streams and
choice of faults, from `ConstantsAssumption` only (the constants have their
types and `None` is neither a client nor a connection):

* `Invariance`: `Spec => []ControlInvariant`;
* `TypeCorrect`, `OneAtATime` (`OneControlConnection`) and `Success`
  (`SuccessMeansExchanged`) follow from it.

`OneControlConnection` is not inductive: that `AcceptClient` opens no second
connection depends on `ctrl_sck` being -1 in `IPERF_START`, hence `SocketAndPc`;
and a timer that fires with `ctrl_sck` = -1 would close nothing, hence the timer
is armed only in a test.  `SuccessMeansExchanged` depends on what is on its way
to a client: a `DISPLAY_RESULTS` is followed by success, so that it must have
been preceded by the exchange, and an error code must be an error
(`GoodQueues`).  The proof has a lemma for each action; lemmas about the common
parts (`CleanupInvariant`, `FailInvariant`, `ShutdownInvariant`,
`ClientFailInvariant`) and about the queues (`GoodWrite`, `GoodTail`) carry most
of it.

Also in `ControlProofs`, that `Control` implements `Session`:

* `Refinement`: `Spec => ImplementsSession`, with `holder` the client in
  `ctrl_sck`.  Initial states map to initial states; each action is one of
  `Session`'s or leaves what `Session` sees alone.  That a client that exits with
  success was sent results comes from `ControlInvariant`; that a client whose
  report is made keeps it needs a strengthening (`NoErrorYet`): a client
  that has not ended has no error yet.
* `ErrorsAreTold` (`ErrorIsTold`, an action property), for any set of faults and
  whatever the workers write into `i_errno`.  A step that calls `cleanup_server`
  either has set `i_errno` before, or sets one of `SetLate` after it; `OwnedIsError`
  says that an `i_errno` that belongs to a test is an error, so that it is sent.
* `StrangersDoNoHarm` (`StrangersAreHarmless`), where no test sets a type of
  service (`Tos = {}`) and no connection is reset: with a type of service the code
  does let a stranger end a test (section 7).

The last part of `ControlProofs` is about the protocol, and needs no other
assumption except where stated.  `StreamsMatch`, `RunningTogether` and `Framing` are far from inductive:
each depends on what either side has written and the other not yet read, over the
whole test.  `ProtocolInvariant` therefore gives each side a script.  `Says` is the
sequence of tokens that the server writes to its client in a regular test and
`ClientSays` the client's; a place of a process (`ServerSent`, `ServerRead`,
`ClientSent`, `ClientRead`) is a position in both; what is in a queue is the piece
of the script between the writer's and the reader's position, followed, if the
writer has given up, by one of its final messages (`Final`, `ClientFinal`) or the
end of file.  `AcceptedStreams`, `QueuedConns` and `ComingStreams` do the same for
the data connections: those that the server has, those in the backlog and those
that the client will still open are, in this order, the streams of the client.

* `ProtocolInvariance`: the invariant;
* `StreamsInOrder` (`StreamsMatch`), `RunTogether` (`RunningTogether`) and
  `FramingKept` (`Framing`) follow from it;
* `ErrorsAreOwn` (`ErrorIsOwn`), if none of the calls fails whose error is set
  after `cleanup_server` (`LateFaults`), which sends the error of an earlier test
  then: an error code on its way was raised in the test of the client it is on its way to
  (`OwnErrors`), or the client will read no more.

With these every safety property of `Control` is proved.

`ThreadsProofs`, for any number of streams in either direction, any size of the
buffers and any mix of POSIX and Windows hosts:
`NoThreadOutlivesTest` (`ThreadsJoined`) and `RegularEnd`
(`NoSenderAfterTestEnd`).  The invariant `ThreadsInvariant` says that the threads
that a join loop has passed have ended (`Passed`) and that a thread whose
`sp->done` is set and which still runs is the one being joined
(`CancelledIsJoined`): this is why `cleanup_and_fail`, which leaves out streams
with `sp->done`, leaves out no running thread.

`UdpProofs`, for every width of the number and every number of datagrams:

* `UdpTypeCorrect`: no counter becomes negative, for any network and batch;
* `ReportConsistent`: `LossWithinReport`, for any order of stores and reads.  The
  invariant `ReportInv` says that the losses never grow by more than the highest
  number, and that a counter which has been read is behind or ahead of the other
  at most by what was counted since the first read began (`race.during`);
* `LossesAreExact` (`LossExact`), with batches that fail: the invariant `ExactInv`
  ties the numbers on the wire to the order of sending, numbers that were skipped
  included;
* `LossesNotOverstated` (`LossNeverOverstated`): the losses counted are at most the
  missing numbers below the highest, and a repeated datagram can only lower them
  (`Bounded`, together with `ExactInv`).

`MeasurementProofs` has three parts.

Time arithmetic, for every size of the two fields: `CompareIsOrder`, `AddIsSum`
(unless the seconds wrap around), `DiffIsDistance`.

Timer lists: lemmas that the operations of `timer.c` keep `TimersOK`, that is, each
object is in one of the two lists, once, and the active timers are in the order of
their times; and what they do to the place of a timer in its list.

The measurement itself, for every set of settings, every time that the main thread
may be late and every number of tests, blocks and ticks:

* `TimersStaySane` (`TimersSane`).  It is not inductive: that `tmr_run` takes no timer
  from the active list that a slot still names depends on the callback of a timer
  that runs once having set its slot to NULL.  `TimerInv` adds the types (`Data`),
  what can be left to do of `iperf_stats_callback` and `iperf_reset_stats`
  (`OpsOK`), that a slot names an active timer of its own kind or none, and every
  active timer is named by its slot unless its callback runs (`SlotsOK`, `HeapOK`),
  and what the variables of `tmr_run` name (`RunOK`).
* `IntervalsStayWithinTotal` (`IntervalsWithinTotal`): the invariant `Within` follows
  the counters of the worker and the sums of the callback through every
  interleaving with `iperf_reset_stats`.
* `BytesAreMeasured` (`BytesMeasured`), provided that no test for a number of bytes
  has a receiver with an omitted period, for which the code falls short (section 7).
  The invariant is `Reached`.
* `EveryIntervalReported` (`OneReportPerInterval`).  The two periodic timers have no
  common state; that the statistics and the report of an interval alternate comes
  from their places in the list.  `Order` says that the two have the same time and
  are neighbours, the stats timer first, or that `tmr_run` or the callback of the
  omit timer has moved the first and comes to the second next; `Reports` says
  at which places of `tmr_run` one interval waits for its report (`Waiting`), and that
  none does elsewhere.
* `TimersAreOnTime` (`OnTime`), as long as the clock stays farther than the longest
  period from the end of its seconds (`FarFromWrap`).  `Punctual` says that the
  stats timer is never earlier than the end of the interval that it is to gather
  next, although it is moved by its period and not set from the clock, and that the
  timer of the test is not earlier than the test's end.

`ParamsProofs`, for any options of the tables, in any number and any order, on the
server and on each client, any builds of the two programs, any number of clients
and any size of the file:

* `ParamsInvariance`: the invariant `ParamsInvariant` says what a test structure may
  hold while its options are read (`Parsing`), in a server between two tests
  (`Idle`), and in a client that has passed the checks (`Ready`) or is connected
  (`Asking`).
* `TheTestAskedFor` (`ServerRunsTheTest`).  It is not inductive: `get_parameters`
  sets only the members that the client has sent, so that it rests on
  `iperf_reset_test` having put the others back (`Idle`), after every earlier
  test and every refusal; of the members that it leaves, on their values being
  among those of the server's start and of the earlier clients (`asked`).
* `LimitsAreKept` (`AdmittedWithinLimits`), for every `RateMod`: from what
  `get_parameters` refuses, where a product that is smaller than `RateMod` is
  exact, and what the checks of the client leave.
* `LinesAreUnderstood` (`CommandLine`): `LineInvariant` says of the part of the line
  that has been read that each member has the value of the last option that sets it
  (`Stated`, in three groups: `Course`, `Amounts`, `Flags`).  The induction is over
  the steps that read the options and not over the line, which is why a line of any
  length is within reach.

They assume (`CommandOptions`) that `getopt_long` returns known options only, that a
negative duration is refused by its conversion and that the name of a file is set.

`ResultsProofs`, for every set of settings whose flags are Booleans: `OutputArrives`
(`ServerOutputComplete`).  `OutputInv` says that what the server keeps for a client
that has asked for it is all that it has printed in this test, at each place of the
two programs, also where `get_server_output` stays from an earlier client.

`SocketsProofs`, for any set of numbers, any number of streams, whatever tests are
asked for (`Tests` is any set of protocols and options), any calls that fail and
any number of tests and guests: `NumbersAreOwn` (`OwnDescriptors`) and
`BytesAreOwn` (`ReceivedFromPeer`).  `SocketsInvariant` names, for each phase of a
test, what each kept number may mean: the guest exists only while a test runs or
is displayed (`GuestIsShort`), the listening sockets are those that the listen
functions leave (`Listeners`), and `prot_listener` is given up before a number
can go to a guest.  `ReceivedFromPeer` needs that while bytes are counted every
stream still has its own connection (`Connections`), so that what a worker has
read came from it (`WorkersRead`).

`ServiceProofs`, for every finite set of process numbers: `ServersStop`
(`ServerStopsWithService`).  That at most one server runs is not inductive: that
`start_child_server` finds no server depends on `g_child` being empty unless
`service_main` waits for it or ends it, and that nothing runs after `STOPPED` on
this status being reported in the last states only; `ServiceInvariant` says both.

## 6. What is only model-checked

Liveness (`ClientsFinish`, `ServerIsFreed`, `AdmittedCompletes`,
`CancelEndsThread`, `MainsReturn`, `TestEnds`, `ServesUntilStopped`), which is out
of the prover's reach.  `LimitIsAverage`, `ReportsAgree` and
`IntervalsShowEverything` are about sums over sequences and sets, whose value is
defined by recursion: induction over data is out of reach too.  `ReleasedOnce`
counts what the sequences of `Calls` leave behind, a fold over each of them.
Every other property of a run that passes is a theorem of section 5.

## 7. Findings

1. `threads_cancel`.  The Windows `pthread_cancel` does nothing; if the server's
   limit and the client's end of the test coincide, each sender is blocked on a
   buffer that nobody reads and both main threads wait in `pthread_join`.
2. `sockets_winsock`.  `is_closed` asks for `errno == EBADF` after `select`, which
   Winsock does not set.  A connection that `iperf_tcp_accept` has denied and
   closed is taken for a stream, `iperf_new_stream` fails on it, and
   `cleanup_server` ends the test of another client.

### Further divergences

These are in the model as they are in the code.  The first group shows in a
setting that the passing runs leave out; to see one, add it to the `.cfg` file.

* A type of service (`Tos` = `MCFirst` in `MCControlSafety.cfg`): `CREATE_STREAMS`
  applies socket options to a connection that was denied and closed (S:788); the
  option fails and ends the test, although S:219-220 says that such a connection
  must not.  `StrangersAreHarmless` is violated.
* `--idle-timeout` "in case it gets stuck" (`iperf3.1`:249) is tested in
  `IPERF_START` only (S:706): a server that only sends waits for ever for a client
  that vanished before the test started.  `ServerIsFreed` is violated with
  `Refused` = `MCNobody`, `Vanish` = `MCFirst` and `HasIdleTimeout` = `TRUE` in
  `MCControlLive.cfg`.
* An error that is set after `cleanup_server` (below) lets the code send what
  `i_errno` held before: `ErrorIsOwn` is violated in `MCControlSafety.cfg` with the
  fault `reopen`, `sockopt` or `select`.
* `iperf_reset_stats` does not reset `test->bytes_received` (A:3689): with
  `-R -n -O` the bytes of the omitted period count towards the end of the test, and
  `BytesMeasured` is violated for a receiver of bytes with an omitted period.
* With `-n` or `-k` and `-i 0` no timer wakes the main thread of a sending client
  (C:652), which does not notice that its bytes are sent: `TestEnds` is violated for a
  sender of bytes with the interval 0.
* "Authentication failure doesn't count for 1-off test" (`main.c`:204), but the
  loop asks for `i_errno == IEAUTHTEST`, which no code assigns: a one-off server
  exits after a client with wrong credentials (`ServerLoop`, `AuthError`).

### What the properties make exceptions for

The runs reach these cases, all but the last; the property names each of them and
holds otherwise.

* `SetLate` in `Control`: `cleanup_server` is to "Try to send the error code to the
  client" (S:465), but where `select` fails (S:689-691), a socket option of a stream
  cannot be set (S:800-806, 829-834, 843-849) or the listener cannot be recreated
  after the last stream (S:907-912), it is called before `i_errno` is set: the
  client is told nothing, or the error of an earlier test.
* `Overwritten` in `Control`: a worker whose send or receive fails writes
  `IESTREAMWRITE` or `IESTREAMREAD` into `i_errno` (A:2240, A:2272), which is not
  protected; the client may be told this error instead of the one that the main
  thread has just set.
* A failed batch of datagrams takes back one number, although "Don't count messages
  that no data was sent from them. Allows "resending" a massage with the same
  numbering" (`iperf_udp.c`:336-337) is about all of them: the other numbers of the
  batch are never sent and the receiver counts them as lost (`LossExact`).
* `race.during` in `UdpStream`: the two counters are plain members that the worker
  stores and `iperf_reset_stats` reads (A:3693) without a lock or a barrier.  On
  ARM64, or if the compiler reorders them, and also if a datagram is counted between
  the two reads, the saved values belong to different datagrams, and a report may
  show more losses than datagrams by what was counted meanwhile.
* `ProtocolRun` and `Unread` in `Params`: `set_protocol` fails for a protocol that is
  not built in (A:910-911), and `get_parameters` ignores it (A:2578-2579): a server
  without SCTP, such as the MSVC build, runs TCP for a client that asks for SCTP and
  tells nobody.  What a build does not support it does not read (A:2602-2605).
* `Sticky` in `Params`: `get_server_output`, `repeating_payload`, `flowlabel`,
  `mptcp` and `pacing_timer` are not reset and belong to every later client of a
  server.
* `RateMod` in `Params`: "a test to abort if the client specifies a test of more than
  n bits per second" (`iperf3.1`:259), but the product of rate, streams and
  directions is computed in `uint64_t` (A:2687, A:2693): `-P 4 -b` 2^62 asks for 0
  bits per second and is admitted.
* `JsonPackets` in `Results`: "We usually want that to be the sender's value"
  (A:4318-4319), but from the sender's count is subtracted what the printing end
  itself has omitted (A:4327-4328, and A:4259, A:4520 for the sum): a client of
  `-R -O` prints a number that neither end has counted.
* Retransmissions of SCTP in `Results`: a stream that the client receives has the
  -1 of "not available" printed as its count (A:2778, A:2958, A:4277-4287).
* `Leaves` in `Sockets`: a connection that fails between `accept` and
  `iperf_new_stream`, or in it, where the file opened at A:4895 is left too
  (A:4916-4921); the former `prot_listener` of UDP until its reply is sent; the
  socket of a failing `iperf_sctp_listen`; on the client the sockets of UDP and a
  list of addresses of SCTP.  A server keeps these descriptors for its life.
* `Repeats` and `ClosedAgain` in `Sockets`: `iperf_sctp_bindx` closes the socket that
  its caller closes too; `freeaddrinfo` is given a list that was not asked for when a
  device but no address is to be bound; `cleanup_server` closes the streams that
  `TEST_END` has closed (S:275, S:510), a `prot_listener` that is the listener it
  has just closed (S:531, S:535), and a listener that a failing `iperf_tcp_listen`
  has closed (`iperf_tcp.c`:340-369).  `OwnDescriptors` says that the number is free
  by then, so that no other socket is closed.
* `ThreadsJoined`: a test that `server_timer_proc` ends.
* `ServerStopsWithService`: a server that does not end within five seconds of
  `TerminateProcess`, one whose wait has failed, and one whose service was killed:
  it belongs to no job object, and the next start makes a second one.
* `RingAssumption` in `Measurement`: the ring is allocated with `MAX_INTERVAL` = 60
  entries (A:3227, A:3611), and an interval of 60 s over statistics of 0.1 s asks
  for 600 (A:2026): the code does not see to it that they fit.

## 8. What is not modelled

Left out within modelled components: jitter and the values of UDP buffer sizes,
several streams, numbers of blocks (also as an end condition, C:773) and interval
durations in `Measurement`, `tmr_cleanup` and `tmr_destroy`, failing `malloc` but
for what the start of a test and a stream allocate, what the client's own workers
write into the client's `i_errno`, functions that cannot fail with the arguments
they are given (`pthread_sigmask`, S:85; `pthread_attr_init` and
`pthread_attr_destroy`, S:963-985), the second check of the total rate (S:923-929:
the product that `get_parameters` has accepted), workers that send in `Sockets`,
two control handlers at once in `Service` (the manager delivers one control at a
time), options whose argument is only stored beyond the row of their table.

Not modelled:

* the pid file: it is read into a buffer without a terminating zero and tested
  before it is created, so that the code promises nothing about two servers;
* the log file and the disk file: pure I/O;
* units, DSCP names and `getopt_long`: conversions of one string without state,
  of which unit tests cover the first;
* texts (`iperf_locale.c`, `iperf_error.c`): tables;
* decoding and checking of credentials: calls of OpenSSL, a choice in `Params`;
* cJSON (vendored) and `tcp_info` (reads of kernel statistics).

## 9. Plan

Done, in this order: `Session`, `Control` and `ControlProofs`; `StreamThreads`;
`UdpStream` and `UdpProofs`; `IperfTime`, `Timers` and `Measurement`; `Options`
and `Params`; `Results`; `Calls` and `Sockets`; `Service` and `ServiceProofs`.

Left to model: several streams and numbers of blocks in `Measurement`; senders in
`Sockets`, whose bytes may reach a guest after `TEST_END`.

Proved: every safety property but the four of section 6, in `ControlProofs`,
`UdpProofs`, `ServiceProofs`, `ThreadsProofs`, `SocketsProofs`,
`MeasurementProofs`, `ResultsProofs` and `ParamsProofs`.  What is left is out of the
prover's reach: liveness, and sums and folds over sequences.
