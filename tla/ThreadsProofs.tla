--------------------------- MODULE ThreadsProofs ---------------------------
(***************************************************************************)
(* No thread outlives its test, and no sender thread of the client meets a *)
(* closed connection at the regular end of the test: for any number of     *)
(* streams in either direction, any size of the socket buffers and any     *)
(* setting of the two hosts.                                               *)
(***************************************************************************)
EXTENDS StreamThreads, WellFoundedInduction, TLAPS

Places == {"starting", "running", "joinSenders", "ended", "results",
           "joinReceivers", "failJoin", "cleanup", "stopped"}

Flags == {"none", "check", "io", "blocked", "exited"}

\* A join loop counts stream i among its own: the loop of iperf_run_client at
\* the end of the test the senders, the last one the receivers, the loops of
\* cleanup_and_fail and of cleanup_server all of them.
InLoop(h, i) ==
  /\ pc[h] = "joinSenders"   => Sender(h, i)
  /\ pc[h] = "joinReceivers" => ~Sender(h, i)

\* Before create_threads nothing of a stream has been touched.
NotStarted ==
  \A h \in Hosts : pc[h] = "starting" =>
    \A i \in Streams :
      worker[h][i] = "none" /\ ~spdone[h][i] /\ sock[h][i] = "open"

\* The threads that a join loop has passed have ended.
Passed ==
  \A h \in Hosts : InJoinLoop(h) =>
    \A i \in Streams : (i < joining[h] /\ InLoop(h, i)) => Ended(h, i)

\* Only the thread that is being joined can have sp->done set and still run:
\* this is why cleanup_and_fail may leave out the streams with sp->done.
CancelledIsJoined ==
  \A h \in Hosts : \A i \in Streams :
    (spdone[h][i] /\ ~Ended(h, i)) => (InJoinLoop(h) /\ joining[h] = i)

\* From TEST_END on the client has no sender thread.
SendersEnded ==
  pc["C"] \in {"ended", "joinReceivers"} =>
    \A i \in Streams : Sender("C", i) => Ended("C", i)

\* The client shuts or closes the socket of a sender after its thread.
SocketsOfSenders ==
  \A i \in Streams :
    (Sender("C", i) /\ sock["C"][i] # "open") => Ended("C", i)

\* Each main thread is in loops of its own program only.
OwnPlaces ==
  /\ pc["C"] \notin {"results", "cleanup"}
  /\ pc["S"] \notin {"joinSenders", "ended", "joinReceivers", "failJoin"}

ThreadsInvariant ==
  /\ TypeOK
  /\ NotStarted
  /\ Passed
  /\ CancelledIsJoined
  /\ SendersEnded
  /\ SocketsOfSenders
  /\ OwnPlaces
  /\ ThreadsJoined

\* The first stream of a loop.
LEMMA LeastElement ==
  ASSUME NEW n \in Nat, NEW S \in SUBSET (1..n), S # {}
  PROVE  \E j \in S : \A k \in S : j <= k
<1> DEFINE R == {ss \in Nat \X Nat : ss[1] < ss[2]}
<1>1. IsWellFoundedOn(R, Nat)
  BY NatLessThanWellFounded, Zenon DEF OpToRel
<1>2. \A k, j \in Nat : <<k, j>> \in R <=> k < j
  OBVIOUS
<1> HIDE DEF R
<1>3. S \subseteq Nat
  OBVIOUS
<1>4. PICK j \in S : \A k \in S : ~(<<k, j>> \in R)
  BY <1>1, <1>3, WFMin, Zenon
<1>5. \A k \in S : j \in Nat /\ k \in Nat /\ ~(k < j)
  BY <1>2, <1>3, <1>4, Zenon
<1> QED
  BY <1>5

\* What the proofs use of the assumption on the constants.
LEMMA Sizes ==
  /\ NumStreams \in Nat \ {0} /\ 0 \in 0..NumStreams
  /\ Cap \in Nat \ {0} /\ 0 \in 0..Cap
BY ThreadsAssumption

LEMMA InitInvariant == Init => ThreadsInvariant
<1> SUFFICES ASSUME Init PROVE ThreadsInvariant
  OBVIOUS
<1>1. TypeOK
  BY Sizes, Zenon DEF Init, TypeOK
<1>2. /\ \A h \in Hosts : pc[h] = "starting"
      /\ \A h \in Hosts, i \in Streams : worker[h][i] = "none"
      /\ \A h \in Hosts, i \in Streams : ~spdone[h][i] /\ sock[h][i] = "open"
  BY DEF Init
<1>3. NotStarted /\ Passed /\ CancelledIsJoined /\ ThreadsJoined
  BY <1>2 DEF NotStarted, Passed, CancelledIsJoined, ThreadsJoined, InJoinLoop
<1>4. SendersEnded /\ SocketsOfSenders /\ OwnPlaces
  BY <1>2 DEF SendersEnded, SocketsOfSenders, OwnPlaces, Hosts
<1> QED
  BY <1>1, <1>3, <1>4 DEF ThreadsInvariant

----------------------------------------------------------------------------
(* The worker threads.                                                     *)

\* A step of one worker moves that worker only, and only one that still runs.
LEMMA WorkerMoves ==
  ASSUME TypeOK, NEW h \in Hosts, NEW i \in Streams, Worker(h, i)
  PROVE  /\ TypeOK'
         /\ ~Ended(h, i)
         /\ UNCHANGED <<mains, done, spdone, sock>>
         /\ \A g \in Hosts, j \in Streams : (g # h \/ j # i) =>
              worker'[g][j] = worker[g][j]
<1>1. PICK where \in Flags : Goes(h, i, where)
  BY DEF Worker, Check, Call, Cancelled, Flags
<1>2. /\ UNCHANGED <<mains, done, spdone, sock>>
      /\ worker[h][i] \in {"check", "io", "blocked"}
  BY DEF Worker, Check, Call, Cancelled
<1>3. buf' \in [Streams -> 0..Cap]
  <2>1. buf \in [Streams -> 0..Cap] /\ Cap \in Nat
    BY ThreadsAssumption DEF TypeOK
  <2>2. CASE Check(h, i) \/ Cancelled(h, i)
    BY <2>1, <2>2 DEF Check, Cancelled
  <2>3. CASE Call(h, i)
    <3>1. CASE UNCHANGED buf
      BY <2>1, <3>1
    <3>2. CASE HasRoom(i) /\ buf' = [buf EXCEPT ![i] = @ + 1]
      BY <2>1, <3>2 DEF HasRoom
    <3>3. CASE buf[i] > 0 /\ buf' = [buf EXCEPT ![i] = @ - 1]
      BY <2>1, <3>3
    <3> QED
      BY <2>3, <3>1, <3>2, <3>3 DEF Call
  <2> QED
    BY <2>2, <2>3 DEF Worker
<1>4. worker' \in [Hosts -> [Streams -> Flags]]
  BY <1>1 DEF Goes, TypeOK, Flags
<1>5. \A g \in Hosts, j \in Streams : (g # h \/ j # i) =>
        worker'[g][j] = worker[g][j]
  BY <1>1 DEF Goes, TypeOK
<1> QED
  BY <1>2, <1>3, <1>4, <1>5 DEF TypeOK, Ended, mains, Flags

LEMMA WorkerInvariant ==
  ASSUME ThreadsInvariant, NEW h \in Hosts, NEW i \in Streams, Worker(h, i)
  PROVE  ThreadsInvariant'
<1>1. /\ TypeOK' /\ ~Ended(h, i)
      /\ UNCHANGED <<setting, pc, joining, alive, expired, done, spdone, sock>>
  BY WorkerMoves DEF ThreadsInvariant, mains
<1>2. \A g \in Hosts, j \in Streams : Ended(g, j) => Ended(g, j)'
  BY WorkerMoves DEF ThreadsInvariant, Ended
<1>3. pc[h] # "starting"
  BY <1>1 DEF ThreadsInvariant, NotStarted, Ended
<1>4. NotStarted'
  BY <1>1, <1>3, WorkerMoves DEF ThreadsInvariant, NotStarted
<1>5. Passed'
  BY <1>1, <1>2 DEF ThreadsInvariant, Passed, InJoinLoop, InLoop, Sender
<1>6. CancelledIsJoined'
  BY <1>1, <1>2 DEF ThreadsInvariant, CancelledIsJoined, InJoinLoop
<1>7. SendersEnded' /\ SocketsOfSenders'
  BY <1>1, <1>2 DEF ThreadsInvariant, SendersEnded, SocketsOfSenders, Hosts
<1>8. OwnPlaces' /\ ThreadsJoined'
  BY <1>1, <1>2 DEF ThreadsInvariant, OwnPlaces, ThreadsJoined
<1> QED
  BY <1>1, <1>4, <1>5, <1>6, <1>7, <1>8 DEF ThreadsInvariant

----------------------------------------------------------------------------
(* The join loops.                                                         *)

\* What a loop that is over has seen to: all of its threads have ended.
LEMMA LoopJoined ==
  ASSUME ThreadsInvariant, NEW h \in Hosts, LoopDone(h),
         NEW i \in Streams, InLoop(h, i)
  PROVE  Ended(h, i)
<1>1. InJoinLoop(h) /\ i \notin ToJoin(h) /\ JoinReturned(h)
  BY DEF LoopDone
<1>2. joining[h] \in 0..NumStreams /\ i \in 1..NumStreams /\ NumStreams \in Nat
  BY ThreadsAssumption DEF ThreadsInvariant, TypeOK, Streams
<1>3. CASE i < joining[h]
  BY <1>1, <1>3 DEF ThreadsInvariant, Passed
<1>4. CASE i = joining[h]
  BY <1>1, <1>2, <1>4 DEF JoinReturned
<1>5. CASE i > joining[h]
  <2>1. pc[h] = "failJoin" /\ spdone[h][i]
    BY <1>1, <1>5 DEF ToJoin, InLoop
  <2> QED
    BY <2>1, <1>2, <1>5 DEF ThreadsInvariant, CancelledIsJoined
<1> QED
  BY <1>2, <1>3, <1>4, <1>5

\* Outside a join loop, and when a join has returned, no thread that has been
\* cancelled runs.
LEMMA NoneCancelled ==
  ASSUME ThreadsInvariant, NEW h \in Hosts, InJoinLoop(h) => JoinReturned(h),
         NEW i \in Streams, spdone[h][i]
  PROVE  Ended(h, i)
<1>1. i # 0
  BY DEF Streams
<1> QED
  BY <1>1 DEF ThreadsInvariant, CancelledIsJoined, JoinReturned

LEMMA CancelNextInvariant ==
  ASSUME ThreadsInvariant, NEW h \in Hosts, CancelNext(h)
  PROVE  ThreadsInvariant'
<1> DEFINE n == CHOOSE j \in ToJoin(h) : \A k \in ToJoin(h) : j <= k
<1>1. /\ InJoinLoop(h) /\ JoinReturned(h) /\ ToJoin(h) # {}
      /\ joining' = [joining EXCEPT ![h] = n]
      /\ spdone' = [spdone EXCEPT ![h][n] = TRUE]
      /\ UNCHANGED <<setting, pc, worker, done, sock, buf, alive, expired>>
  BY DEF CancelNext
<1>2. n \in ToJoin(h) /\ \A k \in ToJoin(h) : n <= k
  <2>1. ToJoin(h) \subseteq 1..NumStreams
    BY DEF ToJoin, Streams
  <2>2. \E j \in ToJoin(h) : \A k \in ToJoin(h) : j <= k
    BY <1>1, <2>1, LeastElement, ThreadsAssumption
  <2> QED
    BY <2>2
<1> HIDE DEF n
<1>3. n \in Streams /\ n > joining[h]
  BY <1>2 DEF ToJoin
<1>4. TypeOK'
  BY <1>1, <1>3 DEF ThreadsInvariant, TypeOK, Streams
<1>5. \A g \in Hosts, i \in Streams :
        /\ Ended(g, i)' <=> Ended(g, i)
        /\ InLoop(g, i)' <=> InLoop(g, i)
        /\ InJoinLoop(g)' <=> InJoinLoop(g)
        /\ g # h => (joining'[g] = joining[g] /\ spdone'[g] = spdone[g])
        /\ i # n => spdone'[g][i] = spdone[g][i]
        /\ joining'[h] = n
  BY <1>1, <1>3 DEF Ended, InLoop, InJoinLoop, Sender, ThreadsInvariant, TypeOK
<1>6. Passed'
  <2> SUFFICES ASSUME NEW g \in Hosts, InJoinLoop(g), NEW i \in Streams,
                      i < joining'[g], InLoop(g, i)
               PROVE  Ended(g, i)
    BY <1>5 DEF Passed
  <2>1. CASE g # h
    BY <1>5, <2>1 DEF ThreadsInvariant, Passed
  <2>2. CASE g = h
    <3>1. i < n /\ i \notin ToJoin(h)
      BY <1>2, <1>3, <1>5, <2>2 DEF Streams, ToJoin
    <3>2. joining[h] \in Nat /\ i \in Nat
      BY DEF ThreadsInvariant, TypeOK, Streams
    <3>3. CASE i < joining[h]
      BY <2>2, <3>3 DEF ThreadsInvariant, Passed
    <3>4. CASE i = joining[h]
      BY <1>1, <2>2, <3>4 DEF JoinReturned, Streams
    <3>5. CASE i > joining[h]
      <4>1. spdone[h][i]
        BY <2>2, <3>1, <3>5 DEF ToJoin, InLoop
      <4> QED
        BY <1>1, <2>2, <4>1, NoneCancelled
    <3> QED
      BY <3>2, <3>3, <3>4, <3>5
  <2> QED
    BY <2>1, <2>2
<1>7. CancelledIsJoined'
  <2> SUFFICES ASSUME NEW g \in Hosts, NEW i \in Streams, spdone'[g][i], ~Ended(g, i)
               PROVE  InJoinLoop(g) /\ joining'[g] = i
    BY <1>5 DEF CancelledIsJoined
  <2>1. CASE g # h
    BY <1>5, <2>1 DEF ThreadsInvariant, CancelledIsJoined
  <2>2. CASE g = h /\ i # n
    BY <1>1, <1>5, <2>2, NoneCancelled
  <2>3. CASE g = h /\ i = n
    BY <1>1, <1>5, <2>3
  <2> QED
    BY <2>1, <2>2, <2>3
<1>8. NotStarted'
  BY <1>1, <1>5 DEF ThreadsInvariant, NotStarted, InJoinLoop
<1>9. SendersEnded' /\ SocketsOfSenders' /\ OwnPlaces' /\ ThreadsJoined'
  BY <1>1 DEF ThreadsInvariant, SendersEnded, SocketsOfSenders, OwnPlaces,
              ThreadsJoined, Ended
<1> QED
  BY <1>4, <1>6, <1>7, <1>8, <1>9 DEF ThreadsInvariant

----------------------------------------------------------------------------
(* The main threads.                                                       *)

\* A main thread goes on to another part of its program and leaves threads and
\* flags alone.  It begins a loop at the first stream; no thread that the loop
\* would leave out runs, and none at all where the main thread returns.
LEMMA MoveInvariant ==
  ASSUME ThreadsInvariant, NEW h \in Hosts, NEW where \in Places,
         pc[h] # "stopped", InJoinLoop(h) => JoinReturned(h),
         pc' = [pc EXCEPT ![h] = where],
         where \notin IF h = "C" THEN {"starting", "results", "cleanup"}
                     ELSE {"starting", "joinSenders", "ended", "joinReceivers",
                           "failJoin"},
         IF where \in {"joinSenders", "joinReceivers", "failJoin", "cleanup"}
           THEN joining' = [joining EXCEPT ![h] = 0]
           ELSE joining' = joining,
         UNCHANGED <<worker, spdone, buf, alive, setting>>,
         done' \in [Hosts -> BOOLEAN],
         sock' \in [Hosts -> [Streams -> {"open", "shut", "closed"}]],
         \A g \in Hosts : g # h => sock'[g] = sock[g],
         expired' \in BOOLEAN,
         SendersEnded', SocketsOfSenders', ThreadsJoined'
  PROVE  ThreadsInvariant'
<1>1. pc \in [Hosts -> Places] /\ joining \in [Hosts -> 0..NumStreams]
  BY DEF ThreadsInvariant, TypeOK, Places
<1>2. pc' \in [Hosts -> Places] /\ joining' \in [Hosts -> 0..NumStreams]
  BY <1>1, Sizes
<1>3. TypeOK'
  BY <1>2, Zenon DEF ThreadsInvariant, TypeOK, Places
<1>4. /\ \A g \in Hosts : g # h => (pc'[g] = pc[g] /\ joining'[g] = joining[g])
      /\ pc'[h] = where
      /\ InJoinLoop(h)' => joining'[h] = 0
  BY <1>1 DEF InJoinLoop
<1>5. NotStarted'
  BY <1>4 DEF ThreadsInvariant, NotStarted
<1>6. Passed'
  BY <1>4 DEF ThreadsInvariant, Passed, InJoinLoop, InLoop, Sender, Ended, Streams
<1>7. CancelledIsJoined'
  BY <1>4, NoneCancelled DEF ThreadsInvariant, CancelledIsJoined, InJoinLoop, Ended
<1>8. OwnPlaces'
  BY <1>4 DEF ThreadsInvariant, OwnPlaces, Hosts
<1> QED
  BY <1>3, <1>5, <1>6, <1>7, <1>8 DEF ThreadsInvariant

\* Every way into cleanup_and_fail and into cleanup_server that leaves the
\* client's sockets alone.
LEMMA FailingInvariant ==
  ASSUME ThreadsInvariant, NEW h \in Hosts, Failing(h),
         pc[h] \in {"running", "ended", "results"},
         UNCHANGED <<worker, done, spdone, buf, alive, expired, setting>>,
         sock' \in [Hosts -> [Streams -> {"open", "shut", "closed"}]],
         sock' = sock \/ (h = "S" /\ sock'["C"] = sock["C"])
  PROVE  ThreadsInvariant'
<1>1. ~InJoinLoop(h) /\ done' \in [Hosts -> BOOLEAN] /\ expired' \in BOOLEAN
  BY DEF InJoinLoop, ThreadsInvariant, TypeOK
<1>2. \A g \in Hosts : g # h => (sock'[g] = sock[g] /\ pc'[g] = pc[g])
  BY DEF Failing, Hosts, ThreadsInvariant, TypeOK
<1>3. pc'[h] \notin {"ended", "joinReceivers", "stopped"}
  BY DEF Failing, ThreadsInvariant, TypeOK
<1>4. SendersEnded' /\ SocketsOfSenders' /\ ThreadsJoined'
  BY <1>2, <1>3 DEF ThreadsInvariant, SendersEnded, SocketsOfSenders,
                    ThreadsJoined, Ended, Hosts
<1>5. CASE h = "C"
  BY <1>1, <1>2, <1>4, <1>5, MoveInvariant DEF Failing, Places
<1>6. CASE h # "C"
  BY <1>1, <1>2, <1>4, <1>6, MoveInvariant DEF Failing, Places
<1> QED
  BY <1>5, <1>6

LEMMA LeavesInvariant ==
  ASSUME ThreadsInvariant,
         \/ OnClientLeaves \/ OnServerLeaves \/ BitrateExceeded
         \/ \E h \in Hosts : NoData(h) \/ ControlTimeout(h)
  PROVE  ThreadsInvariant'
<1>1. sock \in [Hosts -> [Streams -> {"open", "shut", "closed"}]]
      /\ "C" \in Hosts /\ "S" \in Hosts
  BY DEF ThreadsInvariant, TypeOK, Hosts
<1>2. CASE OnClientLeaves
  <2>1. /\ sock' \in [Hosts -> [Streams -> {"open", "shut", "closed"}]]
        /\ sock'["C"] = sock["C"]
    BY <1>1, <1>2 DEF OnClientLeaves, CloseAll
  <2> QED
    BY <1>1, <1>2, <2>1, FailingInvariant DEF OnClientLeaves
<1>3. CASE OnServerLeaves
  BY <1>1, <1>3, FailingInvariant DEF OnServerLeaves
<1>4. CASE BitrateExceeded
  BY <1>1, <1>4, FailingInvariant DEF BitrateExceeded
<1>5. ASSUME NEW h \in Hosts, NoData(h) \/ ControlTimeout(h)
      PROVE  ThreadsInvariant'
  BY <1>1, <1>5, FailingInvariant DEF NoData, ControlTimeout
<1> QED
  BY <1>2, <1>3, <1>4, <1>5

LEMMA CloseAllType ==
  ASSUME TypeOK, NEW h \in Hosts, CloseAll(h)
  PROVE  /\ sock' \in [Hosts -> [Streams -> {"open", "shut", "closed"}]]
         /\ \A g \in Hosts : g # h => sock'[g] = sock[g]
BY DEF TypeOK, CloseAll

LEMMA StartInvariant ==
  ASSUME ThreadsInvariant, NEW h \in Hosts, Start(h)
  PROVE  ThreadsInvariant'
<1>1. /\ pc \in [Hosts -> Places] /\ joining \in [Hosts -> 0..NumStreams]
      /\ worker \in [Hosts -> [Streams -> Flags]]
      /\ pc[h] = "starting"
      /\ UNCHANGED <<done, spdone, sock, buf, alive, expired, setting>>
      /\ \A i \in Streams : ~spdone[h][i] /\ sock[h][i] = "open"
  BY DEF ThreadsInvariant, TypeOK, Places, Flags, Start, NotStarted
<1>2. /\ pc'[h] \in {"running", IF h = "C" THEN "failJoin" ELSE "cleanup"}
      /\ pc'[h] # "running" => joining'[h] = 0
      /\ pc' \in [Hosts -> Places] /\ joining' \in [Hosts -> 0..NumStreams]
      /\ \A g \in Hosts : g # h => (pc'[g] = pc[g] /\ joining'[g] = joining[g])
  <2>1. CASE pc' = [pc EXCEPT ![h] = "running"] /\ UNCHANGED joining
    BY <1>1, <2>1 DEF Places
  <2>2. CASE Failing(h)
    BY <1>1, <2>2, Sizes DEF Failing, Places
  <2> QED
    BY <2>1, <2>2 DEF Start
<1>3. /\ worker' \in [Hosts -> [Streams -> Flags]]
      /\ \A g \in Hosts : g # h => worker'[g] = worker[g]
  <2>1. PICK ws \in [Streams -> Flags] : worker' = [worker EXCEPT ![h] = ws]
    BY DEF Start, Flags
  <2> QED
    BY <1>1, <2>1
<1>4. TypeOK'
  BY <1>1, <1>2, <1>3, Zenon DEF ThreadsInvariant, TypeOK, Places, Flags
<1>5. NotStarted'
  BY <1>1, <1>2, <1>3 DEF ThreadsInvariant, NotStarted
<1>6. Passed'
  <2> SUFFICES ASSUME NEW g \in Hosts, InJoinLoop(g)', NEW i \in Streams,
                      i < joining'[g], InLoop(g, i)'
               PROVE  Ended(g, i)'
    BY DEF Passed
  <2>1. g # h
    BY <1>2 DEF InJoinLoop, Streams
  <2> QED
    BY <1>1, <1>2, <1>3, <2>1
       DEF ThreadsInvariant, Passed, InJoinLoop, InLoop, Sender, Ended
<1>7. CancelledIsJoined'
  <2> SUFFICES ASSUME NEW g \in Hosts, NEW i \in Streams, spdone[g][i], ~Ended(g, i)'
               PROVE  InJoinLoop(g)' /\ joining'[g] = i
    BY <1>1 DEF CancelledIsJoined
  <2>1. g # h
    BY <1>1
  <2> QED
    BY <1>2, <1>3, <2>1 DEF ThreadsInvariant, CancelledIsJoined, InJoinLoop, Ended
<1>8. ThreadsJoined'
  BY <1>1, <1>2, <1>3 DEF ThreadsInvariant, ThreadsJoined, Ended
<1>9. SendersEnded' /\ SocketsOfSenders' /\ OwnPlaces'
  BY <1>1, <1>2, <1>3 DEF ThreadsInvariant, SendersEnded, SocketsOfSenders,
                          OwnPlaces, Ended, Hosts
<1> QED
  BY <1>4, <1>5, <1>6, <1>7, <1>8, <1>9 DEF ThreadsInvariant

LEMMA EndTestInvariant ==
  ASSUME ThreadsInvariant, EndTest
  PROVE  ThreadsInvariant'
<1>1. "C" \in Hosts /\ ~InJoinLoop("C") /\ done' \in [Hosts -> BOOLEAN]
  BY DEF EndTest, InJoinLoop, ThreadsInvariant, TypeOK, Hosts
<1>2. SendersEnded' /\ SocketsOfSenders' /\ ThreadsJoined'
  BY <1>1 DEF EndTest, ThreadsInvariant, TypeOK, SendersEnded, SocketsOfSenders,
              ThreadsJoined, Ended
<1> QED
  BY <1>1, <1>2, MoveInvariant DEF EndTest, Places, ThreadsInvariant, TypeOK

LEMMA SendersJoinedInvariant ==
  ASSUME ThreadsInvariant, SendersJoined
  PROVE  ThreadsInvariant'
<1>1. /\ "C" \in Hosts /\ JoinReturned("C")
      /\ \A i \in Streams : Sender("C", i) => Ended("C", i)
  BY LoopJoined DEF SendersJoined, LoopDone, InLoop, Hosts
<1>2. /\ done' \in [Hosts -> BOOLEAN]
      /\ sock' \in [Hosts -> [Streams -> {"open", "shut", "closed"}]]
      /\ \A g \in Hosts : g # "C" => sock'[g] = sock[g]
      /\ \A i \in Streams : ~Sender("C", i) => sock'["C"][i] = sock["C"][i]
  BY <1>1 DEF SendersJoined, ThreadsInvariant, TypeOK
<1>3. PICK where \in {"ended", "failJoin"} :
        /\ pc' = [pc EXCEPT !["C"] = where]
        /\ joining' = IF where = "ended" THEN joining
                      ELSE [joining EXCEPT !["C"] = 0]
  BY DEF SendersJoined, Failing
<1>4. SendersEnded' /\ SocketsOfSenders' /\ ThreadsJoined'
  BY <1>1, <1>3 DEF SendersJoined, ThreadsInvariant, TypeOK, SendersEnded,
                    SocketsOfSenders, ThreadsJoined, Ended
<1> QED
  BY <1>1, <1>2, <1>3, <1>4, MoveInvariant
     DEF SendersJoined, Places, ThreadsInvariant, TypeOK

\* TEST_END and the expiry of server_timer in the server.
LEMMA ServerClosesInvariant ==
  ASSUME ThreadsInvariant, OnTestEnd \/ ServerTimer
  PROVE  ThreadsInvariant'
<1>1. /\ "S" \in Hosts /\ ~InJoinLoop("S") /\ pc["S"] = "running"
      /\ done' \in [Hosts -> BOOLEAN] /\ expired' \in BOOLEAN
      /\ sock' \in [Hosts -> [Streams -> {"open", "shut", "closed"}]]
      /\ \A g \in Hosts : g # "S" => sock'[g] = sock[g]
  <2>1. "S" \in Hosts /\ CloseAll("S") /\ TypeOK
    BY DEF OnTestEnd, ServerTimer, ThreadsInvariant, Hosts
  <2>2. done' = [done EXCEPT !["S"] = TRUE] /\ expired' \in {expired, TRUE}
    BY DEF OnTestEnd, ServerTimer
  <2>3. pc["S"] = "running" /\ ~InJoinLoop("S")
    BY DEF OnTestEnd, ServerTimer, InJoinLoop
  <2> QED
    BY <2>1, <2>2, <2>3, CloseAllType DEF TypeOK
<1>2. PICK where \in {"results", "stopped"} :
        /\ pc' = [pc EXCEPT !["S"] = where]
        /\ where = "stopped" => expired'
        /\ where # "stopped" => expired' = expired
  BY DEF OnTestEnd, ServerTimer
<1>3. SendersEnded' /\ SocketsOfSenders' /\ ThreadsJoined'
  BY <1>1, <1>2 DEF OnTestEnd, ServerTimer, ThreadsInvariant, TypeOK, SendersEnded,
                    SocketsOfSenders, ThreadsJoined, Ended, Hosts
<1> QED
  BY <1>1, <1>2, <1>3, MoveInvariant DEF OnTestEnd, ServerTimer, Places

LEMMA OnResultsInvariant ==
  ASSUME ThreadsInvariant, OnResults
  PROVE  ThreadsInvariant'
<1>1. /\ "C" \in Hosts /\ ~InJoinLoop("C") /\ pc["C"] = "ended"
      /\ done' \in [Hosts -> BOOLEAN] /\ expired' \in BOOLEAN
      /\ sock' \in [Hosts -> [Streams -> {"open", "shut", "closed"}]]
      /\ \A g \in Hosts : g # "C" => sock'[g] = sock[g]
  BY DEF OnResults, CloseAll, InJoinLoop, ThreadsInvariant, TypeOK, Hosts
<1>2. SendersEnded' /\ SocketsOfSenders' /\ ThreadsJoined'
  BY <1>1 DEF OnResults, ThreadsInvariant, TypeOK, SendersEnded, SocketsOfSenders,
              ThreadsJoined, Ended, Hosts
<1> QED
  BY <1>1, <1>2, MoveInvariant DEF OnResults, Places

\* The main thread returns from its last join loop.
LEMMA ReturnsInvariant ==
  ASSUME ThreadsInvariant, NEW h \in Hosts,
         FailureJoined(h) \/ (h = "C" /\ ReceiversJoined)
  PROVE  ThreadsInvariant'
<1>1. LoopDone(h) /\ \A i \in Streams : Ended(h, i)
  <2>1. CASE FailureJoined(h)
    BY <2>1, LoopJoined DEF FailureJoined, InLoop
  <2>2. CASE h = "C" /\ ReceiversJoined
    BY <2>2, LoopJoined DEF ReceiversJoined, InLoop, ThreadsInvariant, SendersEnded
  <2> QED
    BY <2>1, <2>2
<1>2. /\ pc[h] # "stopped" /\ JoinReturned(h)
      /\ pc' = [pc EXCEPT ![h] = "stopped"]
      /\ UNCHANGED <<joining, worker, done, spdone, buf, alive, expired, setting>>
  BY DEF FailureJoined, ReceiversJoined, LoopDone
<1>3. /\ done' \in [Hosts -> BOOLEAN] /\ expired' \in BOOLEAN
      /\ sock' \in [Hosts -> [Streams -> {"open", "shut", "closed"}]]
      /\ \A g \in Hosts : g # h => sock'[g] = sock[g]
  BY <1>2, CloseAllType DEF FailureJoined, ReceiversJoined, ThreadsInvariant, TypeOK
<1>4. SendersEnded' /\ SocketsOfSenders' /\ ThreadsJoined'
  BY <1>1, <1>2, <1>3 DEF ThreadsInvariant, TypeOK, SendersEnded, SocketsOfSenders,
                          ThreadsJoined, Ended, Hosts
<1> QED
  BY <1>2, <1>3, <1>4, MoveInvariant DEF Places

LEMMA KillInvariant ==
  ASSUME ThreadsInvariant, NEW h \in Hosts, Kill(h)
  PROVE  ThreadsInvariant'
<1>1. /\ pc \in [Hosts -> Places] /\ worker \in [Hosts -> [Streams -> Flags]]
      /\ sock \in [Hosts -> [Streams -> {"open", "shut", "closed"}]]
      /\ pc' = [pc EXCEPT ![h] = "stopped"]
      /\ UNCHANGED <<joining, done, spdone, buf, alive, expired, setting>>
  BY DEF ThreadsInvariant, TypeOK, Places, Flags, Kill
<1>2. /\ worker' \in [Hosts -> [Streams -> Flags]]
      /\ pc' \in [Hosts -> Places]
      /\ sock' \in [Hosts -> [Streams -> {"open", "shut", "closed"}]]
      /\ pc'[h] = "stopped"
      /\ \A i \in Streams : Ended(h, i)'
      /\ \A g \in Hosts : g # h => /\ worker'[g] = worker[g] /\ pc'[g] = pc[g]
                                   /\ sock'[g] = sock[g]
  BY <1>1 DEF Kill, CloseAll, Ended, Places, Flags
<1>3. TypeOK'
  BY <1>1, <1>2, Zenon DEF ThreadsInvariant, TypeOK, Places, Flags
<1>4. NotStarted' /\ Passed'
  BY <1>1, <1>2 DEF ThreadsInvariant, NotStarted, Passed, InJoinLoop, InLoop, Sender,
                    Ended
<1>5. CancelledIsJoined' /\ ThreadsJoined'
  BY <1>1, <1>2 DEF ThreadsInvariant, CancelledIsJoined, ThreadsJoined, InJoinLoop,
                    Ended
<1>6. SendersEnded' /\ SocketsOfSenders' /\ OwnPlaces'
  BY <1>1, <1>2 DEF ThreadsInvariant, SendersEnded, SocketsOfSenders, OwnPlaces,
                    Ended, Hosts
<1> QED
  BY <1>3, <1>4, <1>5, <1>6 DEF ThreadsInvariant

----------------------------------------------------------------------------
(* The theorems.                                                           *)

LEMMA StepInvariant == ThreadsInvariant /\ [Next]_vars => ThreadsInvariant'
<1> SUFFICES ASSUME ThreadsInvariant, [Next]_vars
             PROVE  ThreadsInvariant'
  OBVIOUS
<1>1. CASE SendersJoined
  BY <1>1, SendersJoinedInvariant
<1>2. CASE OnResults
  BY <1>2, OnResultsInvariant
<1>3. CASE OnTestEnd \/ ServerTimer
  BY <1>3, ServerClosesInvariant
<1>4. CASE EndTest
  BY <1>4, EndTestInvariant
<1>5. CASE OnClientLeaves \/ OnServerLeaves \/ BitrateExceeded
  BY <1>5, LeavesInvariant
<1>6. CASE ReceiversJoined
  BY <1>6, ReturnsInvariant DEF Hosts
<1>7. ASSUME NEW h \in Hosts, Start(h)
      PROVE  ThreadsInvariant'
  BY <1>7, StartInvariant
<1>8. ASSUME NEW h \in Hosts, CancelNext(h)
      PROVE  ThreadsInvariant'
  BY <1>8, CancelNextInvariant
<1>9. ASSUME NEW h \in Hosts, FailureJoined(h)
      PROVE  ThreadsInvariant'
  BY <1>9, ReturnsInvariant
<1>10. ASSUME NEW h \in Hosts, NoData(h) \/ ControlTimeout(h)
       PROVE  ThreadsInvariant'
  BY <1>10, LeavesInvariant
<1>11. ASSUME NEW h \in Hosts, Kill(h)
       PROVE  ThreadsInvariant'
  BY <1>11, KillInvariant
<1>12. ASSUME NEW h \in Hosts, NEW i \in Streams, Worker(h, i)
       PROVE  ThreadsInvariant'
  BY <1>12, WorkerInvariant
<1>13. ASSUME NEW h \in Hosts, Disappear(h)
       PROVE  ThreadsInvariant'
  <2>1. /\ alive' \in [Hosts -> BOOLEAN]
        /\ UNCHANGED <<setting, pc, joining, worker, done, spdone, sock, buf, expired>>
    BY <1>13 DEF Disappear, ThreadsInvariant, TypeOK
  <2> QED
    BY <2>1 DEF ThreadsInvariant, TypeOK, NotStarted, Passed, CancelledIsJoined,
       SendersEnded, SocketsOfSenders, OwnPlaces, ThreadsJoined, InJoinLoop,
       InLoop, Ended
<1>14. CASE Finished \/ UNCHANGED vars
  <2>1. UNCHANGED <<setting, pc, joining, worker, done, spdone, sock, buf, alive,
                    expired>>
    BY <1>14 DEF Finished, vars, mains
  <2> QED
    BY <2>1 DEF ThreadsInvariant, TypeOK, NotStarted, Passed, CancelledIsJoined,
       SendersEnded, SocketsOfSenders, OwnPlaces, ThreadsJoined, InJoinLoop,
       InLoop, Ended
<1> QED
  BY <1>1, <1>2, <1>3, <1>4, <1>5, <1>6, <1>7, <1>8, <1>9, <1>10, <1>11, <1>12,
     <1>13, <1>14
     DEF Next, ClientStep, ServerStep, MainStep

\* The threads and flags of the two hosts always have their types, and the
\* join loops of the main threads keep their order.
THEOREM Invariance == Spec => []ThreadsInvariant
<1>1. Init => ThreadsInvariant
  BY InitInvariant
<1>2. ThreadsInvariant /\ [Next]_vars => ThreadsInvariant'
  BY StepInvariant
<1> QED
  BY <1>1, <1>2, PTL DEF Spec

\* Flags, sockets, threads and the places of the main threads keep their
\* types: no join loop leaves the list of streams, no thread is created twice.
THEOREM TypeCorrect == Spec => []TypeOK
<1>1. ThreadsInvariant => TypeOK
  BY DEF ThreadsInvariant
<1> QED
  BY <1>1, Invariance, PTL

\* Whatever ends the test, on either platform: when iperf_run_client or
\* iperf_run_server returns, every worker has been joined, so that what
\* iperf_free_test and iperf_reset_test free is used by nobody.  The one
\* exception is server_timer_proc, which frees the streams itself.
THEOREM NoThreadOutlivesTest == Spec => []ThreadsJoined
<1>1. ThreadsInvariant => ThreadsJoined
  BY DEF ThreadsInvariant
<1> QED
  BY <1>1, Invariance, PTL

\* The regular end of a test: TEST_END is sent after the last sender thread of
\* the client, and the client closes no socket under a sender thread.
THEOREM RegularEnd == Spec => []NoSenderAfterTestEnd
<1>1. ThreadsInvariant => NoSenderAfterTestEnd
  BY DEF ThreadsInvariant, NoSenderAfterTestEnd, SendersEnded, SocketsOfSenders, Ended
<1> QED
  BY <1>1, Invariance, PTL
============================================================================
