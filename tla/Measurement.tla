---------------------------- MODULE Measurement ----------------------------
(***************************************************************************)
(* What one host measures during a test: the main thread runs the timers   *)
(* that end the omitted period, gather an interval, report it and end the  *)
(* test, while a worker thread counts the blocks that it transfers.  The   *)
(* counters are atomic integers that both threads use without a lock.      *)
(***************************************************************************)
EXTENDS Timers

CONSTANTS
  Settings,    \* the tests a run covers
  Grace,       \* what a server grants a client beyond the duration
  MAX_INTERVAL, \* the entries of the ring of the bitrate limit
  Tests,       \* bound: the tests that a server runs, one after the other
  MaxLate,     \* bound: how late the main thread may be for a timer
  MaxIdle,     \* bound: how long a test without a duration may lack its bytes
  MaxBlocks    \* bound: the blocks of a period, where no number of bytes is set

(* Periods in microseconds, 0 for an option that is not used.              *)
SettingSet ==
  [role : {"c", "s"}, sender : BOOLEAN, duration : Nat, omit : Nat,
   interval : Nat, bytes : Nat, limit : Nat, periods : Nat \ {0}]

ASSUME MeasurementAssumption ==
  /\ Settings \subseteq SettingSet
  /\ Grace \in Nat
  /\ MAX_INTERVAL \in Nat
  /\ {Tests, MaxLate, MaxIdle, MaxBlocks} \subseteq Nat \ {0}

(* The ring has room for the intervals that are averaged.  The code does   *)
(* not see to it: 60 seconds in intervals of a tenth have no room in 60    *)
(* entries.                                                                *)
ASSUME RingAssumption == \A s \in Settings : s.periods <= MAX_INTERVAL

VARIABLES
  setting,    \* the member of Settings that this behaviour is about
  tests,      \* tests begun
  clock,      \* CLOCK_MONOTONIC, or QueryPerformanceCounter
  tmr,        \* the timers of the process
  slot,       \* test->timer, stats_timer, reporter_timer, omit_timer
  pc,         \* where the main thread is
  run,        \* the local variables now, t and next of tmr_run
  ops,        \* what is left of iperf_stats_callback or iperf_reset_stats
  temp,       \* the two sums of iperf_stats_callback, read one after the other
  done,       \* test->done
  omitting,   \* test->omitting
  ctrl,       \* is test->ctrl_sck open?
  worker,     \* the counter that the worker has added its block to last
  rp,         \* the stream's bytes, bytes_sent_omit and bytes of this interval
  testBytes,  \* test->bytes_sent or test->bytes_received
  rate,       \* the ring of the server's bitrate limit
  seen        \* history: what happened in this test

env == <<setting, tests, clock>>
timers == <<tmr, slot>>
loop == <<pc, run>>
callback == <<ops, temp>>
flags == <<done, omitting, ctrl>>
counters == <<worker, rp, testBytes>>
results == <<rate, seen>>
vars == <<env, timers, loop, callback, flags, counters, results>>
main == <<tests, timers, loop, callback, flags, rate>>

Slots == {"timer", "stats", "reporter", "omit"}
StatsOps == <<"read", "total", "save">>
ResetOps == <<"test", "bytes", "interval", "stats", "reporter">>
PCs == {"idle", "create", "loop", "visit", "call", "join", "final", "ended"}

(* The bytes that the result of the stream will show.                      *)
Measured == rp.bytes - rp.omit

TypeOK ==
  /\ setting \in Settings
  /\ tests \in 0..Tests
  /\ clock \in Times
  /\ slot \in [Slots -> 0..Len(tmr.heap)]
  /\ pc \in PCs
  /\ run.t \in 0..Len(tmr.heap) /\ run.next \in 0..Len(tmr.heap)
  /\ done \in BOOLEAN /\ omitting \in BOOLEAN /\ ctrl \in BOOLEAN
  /\ worker \in {"stopped", "ready", "stream", "interval"}
  /\ rp \in [bytes : Nat, omit : Nat, interval : Nat]
  /\ Measured \in Nat
  /\ testBytes \in Nat
  /\ rate.index \in 0..(setting.periods - 1)

NoRun == [now |-> [secs |-> 0, usecs |-> 0], t |-> None, next |-> None]
NoRate == [ring |-> [i \in 0..(MAX_INTERVAL - 1) |-> 0], index |-> 0,
           count |-> 0, exceeded |-> FALSE]
NothingSeen == [saved |-> 0, unreported |-> 0, intervals |-> 0, start |-> 0,
                raced |-> 0, by |-> "none", recorded |-> <<>>]

Init ==
  /\ setting \in Settings
  /\ tests = 0
  /\ clock = [secs |-> 0, usecs |-> 0]
  /\ tmr = NoTimers
  /\ slot = [s \in Slots |-> None]
  /\ pc = "idle"
  /\ run = NoRun
  /\ ops = <<>>
  /\ temp = [bytes |-> 0, total |-> 0]
  /\ done = FALSE /\ omitting = FALSE /\ ctrl = FALSE
  /\ worker = "stopped"
  /\ rp = [bytes |-> 0, omit |-> 0, interval |-> 0]
  /\ testBytes = 0
  /\ rate = NoRate
  /\ seen = NothingSeen

----------------------------------------------------------------------------
(* The timers of a test.                                                   *)

(* The periods of the timers, 0 where a timer is not created.              *)
TestPeriod ==
  IF setting.duration = 0 THEN 0
  ELSE setting.duration + setting.omit + (IF setting.role = "s" THEN Grace ELSE 0)

Period(s) == CASE s = "timer" -> TestPeriod
               [] s \in {"stats", "reporter"} -> setting.interval
               [] s = "omit" -> setting.omit

Create(s, now) ==
  IF Period(s) = 0
  THEN slot' = [slot EXCEPT ![s] = None] /\ UNCHANGED tmr
  ELSE /\ slot' = [slot EXCEPT ![s] = TmrNew(tmr)]
       /\ tmr' = TmrCreate(tmr, now, s, Period(s), s \in {"stats", "reporter"})

(* create_client_timers, create_server_timers: the time is taken once for  *)
(* all of them.  The streams are new and iperf_reset_test has been called. *)
CreateOrderSwapped == <<"timer", "reporter", "stats">>
CreateOrder        == <<"timer", "stats", "reporter">>

CreateTimers ==
  /\ pc = "idle" /\ tests < (IF setting.role = "s" THEN Tests ELSE 1)
  /\ tests' = tests + 1
  /\ ops' = CreateOrder
  /\ run' = [NoRun EXCEPT !.now = clock]
  /\ done' = FALSE /\ ctrl' = TRUE
  /\ rp' = [bytes |-> 0, omit |-> 0, interval |-> 0]
  /\ testBytes' = 0
  /\ rate' = NoRate
  /\ seen' = [NothingSeen EXCEPT !.start = InUsecs(clock)]
  /\ pc' = "create"
  /\ UNCHANGED <<setting, clock, timers, temp, omitting, worker>>

CreateTimer ==
  /\ pc = "create" /\ ops # <<>>
  /\ Create(Head(ops), run.now)
  /\ ops' = Tail(ops)
  /\ UNCHANGED <<env, loop, temp, flags, counters, results>>

(* create_client_omit_timer, create_server_omit_timer, which take the time *)
(* again; then the workers are created.  A client looks at once whether    *)
(* the test is over, a server goes to select.                              *)
CreateOmitTimer ==
  /\ pc = "create" /\ ops = <<>>
  /\ Create("omit", clock)
  /\ omitting' = (setting.omit # 0)
  /\ worker' = "ready"
  /\ run' = NoRun
  /\ pc' = IF setting.role = "c" THEN "visit" ELSE "loop"
  /\ UNCHANGED <<env, callback, done, ctrl, rp, testBytes, results>>

----------------------------------------------------------------------------
(* The loop of the main thread.                                            *)

(* select returns when the first timer is due, and tmr_run begins.  The    *)
(* sockets of the streams are in no set that select watches.               *)
Select ==
  /\ pc = "loop" /\ TmrTimeout(tmr, clock) = 0
  /\ run' = [now |-> clock, t |-> First(tmr), next |-> None]
  /\ pc' = "visit"
  /\ UNCHANGED <<env, timers, callback, flags, counters, results>>

(* test_timer_proc, and server_timer_proc, which tells the client, frees   *)
(* the streams without joining their workers and closes the connection.    *)
TestTimerKeepsSlot ==
  /\ done' = TRUE
  /\ seen' = [seen EXCEPT !.by = "time"]
  /\ ops' = <<>>
  /\ UNCHANGED <<slot, omitting, ctrl, worker>>

ClientTimer ==
  /\ setting.role = "c"
  /\ seen' = [seen EXCEPT !.by = "time"]
  /\ UNCHANGED <<ctrl, worker>>

ServerTimer ==
  /\ setting.role = "s" /\ ~ done
  /\ worker' = "stopped"
  /\ ctrl' = FALSE
  /\ seen' = [seen EXCEPT !.by = "time"]

ServerTimerLate ==
  /\ setting.role = "s" /\ done
  /\ UNCHANGED <<ctrl, worker, seen>>

TestTimerProc ==
  /\ slot' = [slot EXCEPT !["timer"] = None]
  /\ done' = TRUE
  /\ ClientTimer \/ ServerTimer \/ ServerTimerLate
  /\ ops' = <<>>
  /\ UNCHANGED omitting

(* client_stats_timer_proc, server_stats_timer_proc: unless the test is    *)
(* done, iperf_stats_callback.                                             *)
StatsTimerProc ==
  /\ ops' = IF done THEN <<>> ELSE StatsOps
  /\ seen' = IF done THEN seen ELSE [seen EXCEPT !.intervals = @ + 1]
  /\ UNCHANGED <<slot, flags, worker>>

(* client_reporter_timer_proc, server_reporter_timer_proc.                 *)
ReporterTimerProc ==
  /\ ops' = <<>>
  /\ seen' = IF done THEN seen ELSE [seen EXCEPT !.unreported = @ - 1]
  /\ UNCHANGED <<slot, flags, worker>>

(* client_omit_timer_proc, server_omit_timer_proc: iperf_reset_stats, then *)
(* the periodic timers begin anew.                                         *)
OmitTimerProc ==
  /\ slot' = [slot EXCEPT !["omit"] = None]
  /\ omitting' = FALSE
  /\ ops' = ResetOps
  /\ seen' = [seen EXCEPT !.intervals = 0, !.start = InUsecs(run.now)]
  /\ UNCHANGED <<done, ctrl, worker>>

(* tmr_run: next is read before the callback moves or cancels timers.      *)
Call ==
  /\ pc = "visit"
  /\ run.t # None /\ Due(tmr, run.t, run.now)
  /\ run' = [run EXCEPT !.next = NextOf(tmr, run.t)]
  /\ LET proc == tmr.heap[run.t].proc IN
     \/ proc = "timer" /\ TestTimerProc
     \/ proc = "stats" /\ StatsTimerProc
     \/ proc = "reporter" /\ ReporterTimerProc
     \/ proc = "omit" /\ OmitTimerProc
  /\ pc' = "call"
  /\ UNCHANGED <<env, tmr, temp, rp, testBytes, rate>>

(* The callback returns and tmr_run goes on to the timer it has read.      *)
Return ==
  /\ pc = "call" /\ ops = <<>>
  /\ tmr' = Rescheduled(tmr, run.t)
  /\ run' = [run EXCEPT !.t = run.next, !.next = None]
  /\ pc' = "visit"
  /\ UNCHANGED <<env, slot, callback, flags, counters, results>>

----------------------------------------------------------------------------
(* iperf_stats_callback: the interval is read twice, then set to zero.     *)

Doing(op) == pc \in {"call", "final"} /\ ops # <<>> /\ Head(ops) = op /\ ops' = Tail(ops)

ReadInterval ==
  /\ Doing("read")
  /\ temp' = [temp EXCEPT !.bytes = rp.interval]
  /\ UNCHANGED <<env, timers, loop, flags, counters, results>>

ReadTotal ==
  /\ Doing("total")
  /\ temp' = [temp EXCEPT !.total = rp.interval]
  /\ UNCHANGED <<env, timers, loop, flags, counters, results>>

(* iperf_check_total_rate: a ring of the traffic of the last intervals.    *)
NextIndex(i) == IF i + 1 >= setting.periods THEN 0 ELSE i + 1

SumOf(s) == FoldLeft(LAMBDA a, b : a + b, 0, s)
BitsPerSecond(bytes) == (bytes * 8) \div setting.periods

CheckTotalRateAdding(bytes) ==
  IF done \/ setting.limit = 0 \/ setting.role # "s" THEN rate
  ELSE LET i     == NextIndex(rate.index)
           ring  == [rate.ring EXCEPT ![i] = @ + bytes]
           total == SumOf([k \in 1..setting.periods |-> ring[k - 1]])
       IN  [ring |-> ring, index |-> i, count |-> rate.count + 1,
            exceeded |-> rate.exceeded \/
                         /\ rate.count + 1 >= setting.periods
                         /\ BitsPerSecond(total) > setting.limit]
CheckTotalRate(bytes) ==
  IF done \/ setting.limit = 0 \/ setting.role # "s" THEN rate
  ELSE LET i     == NextIndex(rate.index)
           ring  == [rate.ring EXCEPT ![i] = bytes]
           total == SumOf([k \in 1..setting.periods |-> ring[k - 1]])
       IN  [ring |-> ring, index |-> i, count |-> rate.count + 1,
            exceeded |-> rate.exceeded \/
                         /\ rate.count + 1 >= setting.periods
                         /\ BitsPerSecond(total) > setting.limit]

IntervalKept == rp.interval
IntervalZero == 0

SaveInterval ==
  /\ Doing("save")
  /\ rp' = [rp EXCEPT !.interval = IntervalZero]
  /\ rate' = CheckTotalRate(temp.total)
  /\ seen' = [seen EXCEPT !.saved = IF omitting THEN @ ELSE @ + temp.bytes,
                          !.unreported = @ + 1,
                          !.recorded = IF done \/ setting.limit = 0 THEN @ ELSE Append(@, temp.total)]
  /\ temp' = [bytes |-> 0, total |-> 0]
  /\ UNCHANGED <<env, timers, loop, flags, worker, testBytes>>

(* iperf_reset_stats: test->bytes_sent, but not test->bytes_received.      *)
TestBytesKept == testBytes
TestBytesReset == IF setting.sender THEN 0 ELSE testBytes

ZeroTestBytes ==
  /\ Doing("test")
  /\ testBytes' = TestBytesReset
  /\ UNCHANGED <<env, timers, loop, temp, flags, worker, rp, results>>

(* What was sent is remembered, what was received is set to zero.          *)
OmitBytes ==
  /\ Doing("bytes")
  /\ rp' = IF setting.sender THEN [rp EXCEPT !.omit = rp.bytes]
                             ELSE [rp EXCEPT !.bytes = 0]
  /\ UNCHANGED <<env, timers, loop, temp, flags, worker, testBytes, results>>

ZeroInterval ==
  /\ Doing("interval")
  /\ rp' = [rp EXCEPT !.interval = 0]
  /\ UNCHANGED <<env, timers, loop, temp, flags, worker, testBytes, results>>

(* Then the omit timer's callback resets the timers that exist.            *)
ResetTimer(s) ==
  /\ Doing(s)
  /\ tmr' = IF slot[s] = None THEN tmr ELSE TmrReset(tmr, run.now, slot[s])
  /\ UNCHANGED <<env, slot, loop, temp, flags, counters, results>>

----------------------------------------------------------------------------
(* The end of a test.                                                      *)

(* tmr_run returns: no timer is left, or the next one is not due.          *)
RunEnds == pc = "visit" /\ ~ (run.t # None /\ Due(tmr, run.t, run.now))

BytesReached == setting.bytes # 0 /\ testBytes >= setting.bytes

(* The client's end conditions.                                            *)
EndConditionTimeOnly == ~ omitting /\ done
EndCondition == ~ omitting /\ (done \/ BytesReached)

CheckClient ==
  /\ RunEnds /\ setting.role = "c"
  /\ IF EndCondition
     THEN pc' = "join" /\ seen' = [seen EXCEPT !.by = IF done THEN @ ELSE "bytes"]
     ELSE pc' = "loop" /\ UNCHANGED seen
  /\ run' = NoRun
  /\ UNCHANGED <<env, timers, callback, flags, counters, rate>>

(* A client that receives also wakes up to see whether data still arrives; *)
(* tmr_run has then nothing to do.                                         *)
WakeToCheck ==
  /\ pc = "loop" /\ setting.role = "c" /\ ~ setting.sender
  /\ TmrTimeout(tmr, clock) # 0 /\ EndCondition
  /\ pc' = "join"
  /\ seen' = [seen EXCEPT !.by = IF done THEN @ ELSE "bytes"]
  /\ UNCHANGED <<env, timers, run, callback, flags, counters, rate>>

(* The senders are cancelled and joined, between two blocks, before the    *)
(* last interval is gathered.                                              *)
JoinSender ==
  /\ pc = "join" /\ (setting.sender => worker = "ready")
  /\ worker' = IF setting.sender THEN "stopped" ELSE worker
  /\ done' = TRUE
  /\ ops' = StatsOps
  /\ pc' = "final"
  /\ UNCHANGED <<env, timers, run, temp, omitting, ctrl, rp, testBytes, results>>

(* A server goes on unless the limit is exceeded or its timer has closed   *)
(* the connections.                                                        *)
CheckServer ==
  /\ RunEnds /\ setting.role = "s"
  /\ pc' = IF ~ ctrl \/ rate.exceeded THEN "ended" ELSE "loop"
  /\ run' = NoRun
  /\ UNCHANGED <<env, timers, callback, flags, counters, results>>

(* TEST_END arrives; later the client's IPERF_DONE ends the loop, which    *)
(* runs the timers until then.                                             *)
HandleTestEnd ==
  /\ pc = "loop" /\ setting.role = "s" /\ ~ done
  /\ done' = TRUE
  /\ ops' = StatsOps
  /\ pc' = "final"
  /\ seen' = [seen EXCEPT !.by = "client"]
  /\ UNCHANGED <<env, timers, run, temp, omitting, ctrl, counters, rate>>

HandleDone ==
  /\ pc = "loop" /\ setting.role = "s" /\ done
  /\ pc' = "ended"
  /\ UNCHANGED <<env, timers, run, callback, flags, counters, results>>

(* The last interval has been gathered: its report, and the results.       *)
LastReport ==
  /\ pc = "final" /\ ops = <<>>
  /\ seen' = [seen EXCEPT !.unreported = @ - 1]
  /\ pc' = IF setting.role = "c" THEN "ended" ELSE "loop"
  /\ UNCHANGED <<env, timers, run, callback, flags, counters, rate>>

(* cleanup_server, or iperf_free_test in a client: every timer that a slot *)
(* still names is cancelled, and the workers are joined.                   *)
CancelOrder ==
  IF setting.role = "s" THEN <<"stats", "reporter", "omit", "timer">>
                        ELSE <<"omit", "timer", "stats", "reporter">>

Cancelled(tm, s) == IF slot[s] = None THEN tm ELSE TmrCancel(tm, slot[s])

Cleanup ==
  /\ pc = "ended" /\ worker \in {"ready", "stopped"}
  /\ LET o == CancelOrder IN
     tmr' = Cancelled(Cancelled(Cancelled(Cancelled(tmr, o[1]), o[2]), o[3]), o[4])
  /\ slot' = [s \in Slots |-> None]
  /\ worker' = "stopped"
  /\ pc' = "idle"
  /\ UNCHANGED <<env, run, callback, flags, rp, testBytes, results>>

----------------------------------------------------------------------------
(* The worker: iperf_tcp_send or iperf_tcp_recv count a block in the       *)
(* stream, then iperf_send_mt or iperf_recv_mt count it in the test.       *)

Resetting == pc = "call" /\ tmr.heap[run.t].proc = "omit" /\ ops # <<>>

(* A receiver counts while the state is TEST_RUNNING; what arrives later   *)
(* is left out, since only a counter that is not used any more counts it.  *)
Counting == setting.sender \/ (IF setting.role = "s" THEN ~ done ELSE pc # "ended")

CountStream ==
  /\ worker = "ready" /\ Counting
  /\ Measured < (IF setting.bytes # 0 THEN setting.bytes ELSE MaxBlocks)
  /\ worker' = "stream"
  /\ rp' = [rp EXCEPT !.bytes = @ + 1]
  /\ UNCHANGED <<setting, clock, testBytes, seen, main>>

CountInterval ==
  /\ worker = "stream"
  /\ worker' = "interval"
  /\ rp' = [rp EXCEPT !.interval = @ + 1]
  /\ UNCHANGED <<setting, clock, testBytes, seen, main>>

CountTest ==
  /\ worker = "interval"
  /\ worker' = "ready"
  /\ testBytes' = testBytes + 1
  /\ seen' = [seen EXCEPT !.raced = IF Resetting THEN @ + 1 ELSE @]
  /\ UNCHANGED <<setting, clock, rp, main>>

(* Time passes.  The main thread reads the clock only when it creates      *)
(* timers and when select returns: time that passes elsewhere may as well  *)
(* pass before the next of these.                                          *)
Tick ==
  /\ pc \in {"create", "loop"} /\ ops = <<>>
  /\ tmr.timers # <<>>
  /\ InUsecs(clock) < InUsecs(tmr.heap[First(tmr)].time) + MaxLate
  /\ setting.duration = 0 => InUsecs(clock) < MaxIdle \/ BytesReached
  /\ setting.role = "s" /\ done => slot["timer"] # None
  /\ clock' = AddUsecs(clock, 1)
  /\ UNCHANGED <<setting, counters, seen, main>>

----------------------------------------------------------------------------
Main ==
  \/ CreateTimers \/ CreateTimer \/ CreateOmitTimer
  \/ Select \/ Call \/ Return
  \/ ReadInterval \/ ReadTotal \/ SaveInterval
  \/ ZeroTestBytes \/ OmitBytes \/ ZeroInterval
  \/ \E s \in {"stats", "reporter"} : ResetTimer(s)
  \/ CheckClient \/ WakeToCheck \/ JoinSender
  \/ CheckServer \/ HandleDone \/ LastReport \/ Cleanup

Worker == CountStream \/ CountInterval \/ CountTest

Next == Main \/ HandleTestEnd \/ Worker \/ Tick

(* The operating system runs both threads, and time passes.  A client may  *)
(* never send TEST_END.                                                    *)
Spec == Init /\ [][Next]_vars /\ WF_vars(Main) /\ WF_vars(Worker) /\ WF_vars(Tick)

----------------------------------------------------------------------------
(* Properties.                                                             *)

(* However callbacks, tmr_run and cleanup move timers between the lists:   *)
(* an object is in one list, once; the active list is sorted; a slot that  *)
(* is not NULL and the variables of tmr_run name active timers.  A callback *)
(* that ran once must clear its slot, or cleanup_server frees it twice.    *)
TimersSane ==
  /\ TypeOK
  /\ Partitioned(tmr) /\ Sorted(tmr)
  /\ \A s \in Slots : slot[s] # None => Contains(tmr.timers, slot[s])
  /\ pc \in {"visit", "call"} => \A t \in {run.t, run.next} \ {None} :
       pc = "call" \/ t = run.t => Contains(tmr.timers, t)

(* Each interval that iperf_stats_callback gathers is reported once before *)
(* the next: stats_timer and reporter_timer have the same period and keep  *)
(* their order through lateness, rescheduling and the end of the omitted   *)
(* period.                                                                 *)
OneReportPerInterval == seen.unreported \in {0, 1}

(* The intervals reported after the omitted period add up to no more than  *)
(* the total of the stream, but for the one block that the worker was      *)
(* counting when the period ended.                                         *)
IntervalsWithinTotal ==
  ~ omitting /\ ops = <<>> => seen.saved + rp.interval <= Measured + 1

(* A test that ends because enough bytes were transferred has measured     *)
(* them, but for the blocks that the worker counted while iperf_reset_stats *)
(* was running and one that it was counting then.                          *)
BytesMeasured ==
  seen.by = "bytes" => Measured + seen.raced + 1 >= setting.bytes

(* The server ends a test for its bitrate exactly when the mean of some    *)
(* consecutive intervals, as many as are averaged, is above the limit      *)
(* (which is compared in whole bits per second): the ring holds the last   *)
(* intervals of this test and of no earlier one.                           *)
LimitIsAverage ==
  LET n == setting.periods
      total(k) == SumOf(SubSeq(seen.recorded, k - n + 1, k))
      ends == IF setting.role # "s" THEN {}
              ELSE n..Len(seen.recorded)
  IN  /\ rate.exceeded => \E k \in ends : total(k) * 8 > setting.limit * n
      /\ (\E k \in ends : total(k) * 8 >= (setting.limit + 1) * n) => rate.exceeded

(* No interval is gathered and no test is ended by its timer before its    *)
(* time has passed, counted from the start or from the end of the omitted  *)
(* period, however late earlier callbacks ran.                             *)
OnTime ==
  /\ seen.intervals * setting.interval <= InUsecs(clock) - seen.start
  /\ seen.by = "time" /\ setting.omit = 0 =>
       setting.duration <= InUsecs(clock) - seen.start

(* Every test ends: the main thread notices that the time is over or that  *)
(* enough was transferred.                                                 *)
TestEnds == (pc # "idle") ~> (pc = "ended")
============================================================================
