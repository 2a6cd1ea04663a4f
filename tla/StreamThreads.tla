--------------------------- MODULE StreamThreads ---------------------------
(***************************************************************************)
(* The threads of one TCP test: on each host the main thread, which runs   *)
(* the loop of iperf_run_client or of iperf_run_server, and one worker     *)
(* thread for each data stream.  The workers share test->done, sp->done    *)
(* and the sockets with the main thread without any lock.                  *)
(*                                                                         *)
(* The main thread stops a worker by setting sp->done, calling             *)
(* pthread_cancel and then pthread_join, one stream after the other in the *)
(* order of test->streams.  On POSIX the workers sit in cancellation       *)
(* points; the Windows port's pthread_cancel does nothing, but closing a   *)
(* socket wakes the thread that is blocked in it.                          *)
(*                                                                         *)
(* A control message is seen by what its sender has done: the other host   *)
(* acts on the pc of its peer.                                             *)
(***************************************************************************)
EXTENDS Naturals, FiniteSets

CONSTANTS
  NumStreams,   \* the streams, in the order of test->streams
  FromClient,   \* the streams 1..FromClient are sent by the client
  Cap,          \* what the two socket buffers of a stream hold
  Settings      \* the builds of the two hosts and what may happen to them

Hosts == {"C", "S"}

ASSUME ThreadsAssumption ==
  /\ NumStreams \in Nat \ {0}
  /\ FromClient \in 0..NumStreams
  /\ Cap \in Nat \ {0}
  /\ Settings \subseteq
       [windows : SUBSET Hosts,      \* pthread_cancel and close as on Windows
        limited : BOOLEAN,           \* the server may exceed its bitrate limit
        slowPeers : BOOLEAN,         \* --rcv-timeout expires though the peer lives
        createFails : SUBSET Hosts,  \* pthread_create may fail
        killed : SUBSET Hosts,       \* a signal may end the process
        vanish : SUBSET Hosts]       \* the host may disappear, closing nothing

Streams == 1..NumStreams
Other(h) == IF h = "C" THEN "S" ELSE "C"
Sender(h, i) == (h = "C") <=> (i <= FromClient)
Receives(h) == \E i \in Streams : ~Sender(h, i)

VARIABLES
  setting,  \* the setting in which the test runs
  pc,       \* where each main thread is
  joining,  \* the stream whose thread each main thread joins, or 0
  worker,   \* where each worker is: at the test of the flags ("check"), about
            \* to call the system ("io"), in a call that waits ("blocked")
  done,     \* test->done
  spdone,   \* sp->done; with it goes pthread_cancel
  sock,     \* each host's end of each data connection
  buf,      \* what each data connection holds
  alive,    \* the host has not disappeared
  expired   \* server_timer_proc has freed the server's streams

mains == <<setting, pc, joining, alive, expired>>
vars == <<mains, worker, done, spdone, sock, buf>>

TypeOK ==
  /\ setting \in Settings
  /\ pc \in [Hosts -> {"starting", "running", "joinSenders", "ended", "results",
                       "joinReceivers", "failJoin", "cleanup", "stopped"}]
  /\ joining \in [Hosts -> 0..NumStreams]
  /\ worker \in [Hosts -> [Streams -> {"none", "check", "io", "blocked", "exited"}]]
  /\ done \in [Hosts -> BOOLEAN]
  /\ spdone \in [Hosts -> [Streams -> BOOLEAN]]
  /\ sock \in [Hosts -> [Streams -> {"open", "shut", "closed"}]]
  /\ buf \in [Streams -> 0..Cap]
  /\ alive \in [Hosts -> BOOLEAN]
  /\ expired \in BOOLEAN

(* TEST_RUNNING is on its way: the streams are connected, no thread runs.  *)
Init ==
  /\ setting \in Settings
  /\ pc = [h \in Hosts |-> "starting"]
  /\ joining = [h \in Hosts |-> 0]
  /\ worker = [h \in Hosts |-> [i \in Streams |-> "none"]]
  /\ done = [h \in Hosts |-> FALSE]
  /\ spdone = [h \in Hosts |-> [i \in Streams |-> FALSE]]
  /\ sock = [h \in Hosts |-> [i \in Streams |-> "open"]]
  /\ buf = [i \in Streams |-> 0]
  /\ alive = [h \in Hosts |-> TRUE]
  /\ expired = FALSE

----------------------------------------------------------------------------
(* The worker threads.                                                     *)

(* No thread of h uses the connection of stream i any more: the peer sees  *)
(* it closed.  On POSIX a thread that is blocked in it keeps it open.      *)
Released(h, i) ==
  sock[h][i] = "closed" /\ (h \in setting.windows \/ worker[h][i] # "blocked")

Goes(h, i, where) == worker' = [worker EXCEPT ![h][i] = where]

(* The condition of the while loop of the worker.                          *)
CheckTestDoneOnly(h, i) == done[h]
CheckDone(h, i) == done[h] \/ spdone[h][i]

Check(h, i) ==
  /\ alive[h] /\ worker[h][i] = "check"
  /\ Goes(h, i, IF CheckDone(h, i) THEN "exited" ELSE "io")
  /\ UNCHANGED <<mains, done, spdone, sock, buf>>

(* The call fails: the socket is closed, before the call or, on Windows,   *)
(* during it; the connection is reset; or what was sent is never           *)
(* acknowledged by a peer that has disappeared.                            *)
CallFails(h, i) ==
  \/ sock[h][i] = "closed" /\ (worker[h][i] = "io" \/ h \in setting.windows)
  \/ Released(Other(h), i)
  \/ Sender(h, i) /\ worker[h][i] = "blocked" /\ ~alive[Other(h)]

(* write() finds room in the kernel's buffers of stream i.                 *)
HasRoom(i) == buf[i] < Cap

(* iperf_tcp_send and iperf_tcp_recv.  At the end of the input recv        *)
(* returns 0, which the worker does not tell from a timeout.               *)
Call(h, i) ==
  /\ alive[h] /\ worker[h][i] \in {"io", "blocked"}
  /\ \/ /\ CallFails(h, i)
        /\ Goes(h, i, "exited")
        /\ UNCHANGED buf
     \/ /\ sock[h][i] # "closed" \/ worker[h][i] = "blocked"
        /\ Sender(h, i) /\ HasRoom(i)
        /\ buf' = [buf EXCEPT ![i] = @ + 1]
        /\ Goes(h, i, "check")
     \/ /\ sock[h][i] # "closed" \/ worker[h][i] = "blocked"
        /\ ~Sender(h, i) /\ buf[i] > 0
        /\ buf' = [buf EXCEPT ![i] = @ - 1]
        /\ Goes(h, i, "check")
     \/ /\ sock[h][i] # "closed" \/ worker[h][i] = "blocked"
        /\ ~Sender(h, i) /\ buf[i] = 0
        /\ sock[Other(h)][i] = "shut" \/ Released(Other(h), i)
        /\ Goes(h, i, "check")
        /\ UNCHANGED buf
     \/ /\ worker[h][i] = "io" /\ sock[h][i] # "closed"
        /\ IF Sender(h, i) THEN ~HasRoom(i) ELSE buf[i] = 0
        /\ Goes(h, i, "blocked")
        /\ UNCHANGED buf
  /\ UNCHANGED <<mains, done, spdone, sock>>

(* A cancellation that is noticed between two system calls only.           *)
CancelledBetweenCalls(h, i) ==
  /\ alive[h] /\ h \notin setting.windows
  /\ spdone[h][i] /\ worker[h][i] = "io"
  /\ Goes(h, i, "exited")
  /\ UNCHANGED <<mains, done, spdone, sock, buf>>

(* A cancellation that was requested takes effect in the system call.      *)
Cancelled(h, i) ==
  /\ alive[h] /\ h \notin setting.windows
  /\ spdone[h][i] /\ worker[h][i] \in {"io", "blocked"}
  /\ Goes(h, i, "exited")
  /\ UNCHANGED <<mains, done, spdone, sock, buf>>

Worker(h, i) == Check(h, i) \/ Call(h, i) \/ Cancelled(h, i)

----------------------------------------------------------------------------
(* The main threads.                                                       *)

(* The thread of stream i of host h has ended or was never created.        *)
Ended(h, i) == worker[h][i] \in {"none", "exited"}

(* Main thread h begins to end the test after an error: cleanup_and_fail   *)
(* in the client, cleanup_server in the server.                            *)
Failing(h) ==
  /\ pc' = [pc EXCEPT ![h] = IF h = "C" THEN "failJoin" ELSE "cleanup"]
  /\ joining' = [joining EXCEPT ![h] = 0]

(* The threads are created in the order of the list; the k-th creation may *)
(* fail.                                                                   *)
Start(h) ==
  /\ alive[h] /\ pc[h] = "starting"
  /\ \/ /\ pc' = [pc EXCEPT ![h] = "running"]
        /\ worker' = [worker EXCEPT ![h] = [i \in Streams |-> "check"]]
        /\ UNCHANGED joining
     \/ /\ h \in setting.createFails
        /\ \E k \in Streams :
             worker' = [worker EXCEPT ![h] =
                          [i \in Streams |-> IF i < k THEN "check" ELSE "none"]]
        /\ Failing(h)
  /\ UNCHANGED <<done, spdone, sock, buf, alive, expired, setting>>

(* The streams that the loop in which main thread h is will still cancel   *)
(* and join: cleanup_and_fail leaves out those with sp->done.              *)
ToJoin(h) ==
  {i \in Streams :
     /\ i > joining[h]
     /\ pc[h] = "joinSenders"   => Sender(h, i)
     /\ pc[h] = "joinReceivers" => ~Sender(h, i)
     /\ pc[h] = "failJoin"      => ~spdone[h][i]}

InJoinLoop(h) == pc[h] \in {"joinSenders", "joinReceivers", "failJoin", "cleanup"}

(* pthread_join without waiting.                                           *)
JoinAtOnce(h) == TRUE

(* pthread_join of the previous stream has returned.                       *)
JoinReturned(h) == joining[h] # 0 => Ended(h, joining[h])

(* The next stream of the loop: sp->done, pthread_cancel, pthread_join.    *)
CancelNext(h) ==
  /\ alive[h] /\ InJoinLoop(h) /\ JoinReturned(h)
  /\ ToJoin(h) # {}
  /\ LET i == CHOOSE j \in ToJoin(h) : \A k \in ToJoin(h) : j <= k IN
     /\ joining' = [joining EXCEPT ![h] = i]
     /\ spdone' = [spdone EXCEPT ![h][i] = TRUE]
  /\ UNCHANGED <<pc, worker, done, sock, buf, alive, expired, setting>>

LoopDone(h) == alive[h] /\ InJoinLoop(h) /\ JoinReturned(h) /\ ToJoin(h) = {}

(* The ending condition of the test: with a duration, test_timer_proc has  *)
(* set test->done; with a number of bytes or blocks it is not yet set.     *)
EndTestWithoutJoin ==
  /\ alive["C"] /\ pc["C"] = "running"
  /\ done' = [done EXCEPT !["C"] = TRUE]
  /\ pc' = [pc EXCEPT !["C"] = "ended"]
  /\ UNCHANGED <<joining, worker, spdone, sock, buf, alive, expired, setting>>

EndTest ==
  /\ alive["C"] /\ pc["C"] = "running"
  /\ \E timed \in BOOLEAN : done' = [done EXCEPT !["C"] = timed]
  /\ pc' = [pc EXCEPT !["C"] = "joinSenders"]
  /\ joining' = [joining EXCEPT !["C"] = 0]
  /\ UNCHANGED <<worker, spdone, sock, buf, alive, expired, setting>>

(* All sender threads are joined.  On Windows their sockets are shut;      *)
(* then test->done and TEST_END, which may fail if the server is gone.     *)
SendersJoined ==
  /\ pc["C"] = "joinSenders" /\ LoopDone("C")
  /\ sock' = [sock EXCEPT !["C"] =
       [i \in Streams |-> IF "C" \in setting.windows /\ Sender("C", i)
                         THEN "shut" ELSE @[i]]]
  /\ done' = [done EXCEPT !["C"] = TRUE]
  /\ \/ pc' = [pc EXCEPT !["C"] = "ended"] /\ UNCHANGED joining
     \/ pc["S"] = "stopped" /\ Failing("C")
  /\ UNCHANGED <<worker, spdone, buf, alive, expired, setting>>

CloseAll(h) == sock' = [sock EXCEPT ![h] = [i \in Streams |-> "closed"]]

(* TEST_END in iperf_handle_message_server, up to the exchange of results. *)
OnTestEnd ==
  /\ alive["S"] /\ pc["S"] = "running" /\ pc["C"] = "ended"
  /\ pc' = [pc EXCEPT !["S"] = "results"]
  /\ done' = [done EXCEPT !["S"] = TRUE]
  /\ CloseAll("S")
  /\ UNCHANGED <<joining, worker, spdone, buf, alive, expired, setting>>

(* DISPLAY_RESULTS in the client: iperf_client_end, and the loop is over.  *)
OnResults ==
  /\ alive["C"] /\ pc["C"] = "ended" /\ pc["S"] = "results"
  /\ pc' = [pc EXCEPT !["C"] = "joinReceivers"]
  /\ joining' = [joining EXCEPT !["C"] = 0]
  /\ CloseAll("C")
  /\ UNCHANGED <<worker, done, spdone, buf, alive, expired, setting>>

ReceiversJoined ==
  /\ pc["C"] = "joinReceivers" /\ LoopDone("C")
  /\ pc' = [pc EXCEPT !["C"] = "stopped"]
  /\ UNCHANGED <<joining, worker, done, spdone, sock, buf, alive, expired, setting>>

(* The end of cleanup_and_fail (iperf_client_end) and of cleanup_server.   *)
FailureJoined(h) ==
  /\ pc[h] \in {"failJoin", "cleanup"} /\ LoopDone(h)
  /\ pc' = [pc EXCEPT ![h] = "stopped"]
  /\ CloseAll(h)
  /\ UNCHANGED <<joining, worker, done, spdone, buf, alive, expired, setting>>

(* The server's loop ends: IPERF_DONE or the end of the input, or, with    *)
(* the streams closed first, CLIENT_TERMINATE.                             *)
OnClientLeaves ==
  /\ alive["S"] /\ pc["S"] \in {"running", "results"} /\ alive["C"]
  /\ pc["C"] \in {"joinReceivers", "stopped"}
  /\ Failing("S")
  /\ \/ UNCHANGED sock
     \/ "C" \in setting.killed /\ CloseAll("S")
  /\ UNCHANGED <<worker, done, spdone, buf, alive, expired, setting>>

(* SERVER_ERROR (sent before cleanup_server joins anything),               *)
(* SERVER_TERMINATE or the end of the input in the client.                 *)
OnServerLeaves ==
  /\ alive["C"] /\ pc["C"] \in {"running", "ended"} /\ alive["S"]
  /\ pc["S"] \in {"cleanup", "stopped"}
  /\ Failing("C")
  /\ UNCHANGED <<worker, done, spdone, sock, buf, alive, expired, setting>>

(* Nothing was received for rcv_timeout (IENOMSG).                         *)
NoData(h) ==
  /\ alive[h] /\ pc[h] = "running" /\ Receives(h)
  /\ ~alive[Other(h)] \/ setting.slowPeers
  /\ Failing(h)
  /\ UNCHANGED <<worker, done, spdone, sock, buf, alive, expired, setting>>

(* What is sent on the control connection to a host that has disappeared   *)
(* is never acknowledged, and the exchange of results times out.           *)
ControlTimeout(h) ==
  /\ alive[h] /\ pc[h] \in {"ended", "results"} /\ ~alive[Other(h)]
  /\ Failing(h)
  /\ UNCHANGED <<worker, done, spdone, sock, buf, alive, expired, setting>>

(* bitrate_limit_exceeded in the server.                                   *)
BitrateExceeded ==
  /\ alive["S"] /\ pc["S"] = "running" /\ setting.limited
  /\ Failing("S")
  /\ UNCHANGED <<worker, done, spdone, sock, buf, alive, expired, setting>>

(* server_timer_proc: the streams are closed and freed without joining     *)
(* their threads; then select() fails and cleanup_server finds no stream.  *)
ServerTimer ==
  /\ alive["S"] /\ pc["S"] = "running" /\ ~done["S"]
  /\ ~alive["C"] \/ setting.slowPeers
  /\ done' = [done EXCEPT !["S"] = TRUE]
  /\ CloseAll("S")
  /\ expired' = TRUE
  /\ pc' = [pc EXCEPT !["S"] = "stopped"]
  /\ UNCHANGED <<joining, worker, spdone, buf, alive, setting>>

(* iperf_got_sigend ends the process, and with it its threads.             *)
Kill(h) ==
  /\ alive[h] /\ h \in setting.killed /\ pc[h] # "stopped"
  /\ pc' = [pc EXCEPT ![h] = "stopped"]
  /\ worker' = [worker EXCEPT ![h] = [i \in Streams |->
                  IF @[i] = "none" THEN "none" ELSE "exited"]]
  /\ CloseAll(h)
  /\ UNCHANGED <<joining, done, spdone, buf, alive, expired, setting>>

(* The host disappears; nothing is closed, nothing more is sent.           *)
Disappear(h) ==
  /\ alive[h] /\ h \in setting.vanish /\ pc[h] # "stopped"
  /\ alive' = [alive EXCEPT ![h] = FALSE]
  /\ UNCHANGED <<pc, joining, worker, done, spdone, sock, buf, expired, setting>>

----------------------------------------------------------------------------
MainStep(h) == Start(h) \/ CancelNext(h) \/ FailureJoined(h)
ClientStep == SendersJoined \/ OnResults \/ ReceiversJoined \/ OnServerLeaves
ServerStep == OnTestEnd \/ OnClientLeaves

(* Both main threads have returned or are gone.                            *)
Finished ==
  /\ \A h \in Hosts : pc[h] = "stopped" \/ ~alive[h]
  /\ UNCHANGED vars

Next ==
  \/ ClientStep \/ ServerStep \/ EndTest
  \/ BitrateExceeded \/ ServerTimer \/ Finished
  \/ \E h \in Hosts :
       \/ MainStep(h) \/ NoData(h) \/ ControlTimeout(h) \/ Kill(h) \/ Disappear(h)
       \/ \E i \in Streams : Worker(h, i)

Spec == Init /\ [][Next]_vars

(* Threads that can run do run, the test has an end, and the timeouts that *)
(* a host that has disappeared leaves running expire.                      *)
Fairness ==
  /\ WF_vars(ClientStep) /\ WF_vars(ServerStep)
  /\ WF_vars(EndTest)
  /\ WF_vars(~alive["C"] /\ ServerTimer)
  /\ \A h \in Hosts :
       /\ WF_vars(MainStep(h))
       /\ WF_vars(~alive[Other(h)] /\ NoData(h))
       /\ WF_vars(ControlTimeout(h))
       /\ \A i \in Streams : WF_vars(Worker(h, i))

FairSpec == Spec /\ Fairness

----------------------------------------------------------------------------
(* Properties.                                                             *)

(* When a main thread returns, no thread of that test is left that could   *)
(* use a stream which iperf_reset_test or iperf_free_test then frees.  The *)
(* exception is a test that server_timer_proc has ended.                   *)
ThreadsJoined ==
  \A h \in Hosts : (pc[h] = "stopped" /\ ~(h = "S" /\ expired)) =>
    \A i \in Streams : Ended(h, i)

(* The server acts on TEST_END, and closes the streams, only when no       *)
(* sender thread of the client is left that would meet the closed          *)
(* connection and report an error; and the client itself never closes the  *)
(* socket of a sender thread that still runs.                              *)
NoSenderAfterTestEnd ==
  /\ (pc["S"] = "results" /\ pc["C"] = "ended") =>
       \A i \in Streams : Sender("C", i) => Ended("C", i)
  /\ \A i \in Streams :
       (Sender("C", i) /\ worker["C"][i] \in {"io", "blocked"}) =>
         sock["C"][i] = "open"

(* A thread that is cancelled ends even if it is in a system call (the     *)
(* comment on pthread_setcanceltype in both worker functions).             *)
CancelEndsThread ==
  \A h \in Hosts : \A i \in Streams :
    spdone[h][i] ~> (Ended(h, i) \/ ~alive[h])

(* Both main threads return, whatever the other host does.                 *)
MainsReturn == \A h \in Hosts : <>(pc[h] = "stopped" \/ ~alive[h])
============================================================================
