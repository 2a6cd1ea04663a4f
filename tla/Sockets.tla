------------------------------ MODULE Sockets ------------------------------
(***************************************************************************)
(* The descriptors of a server: which socket a number names while the main *)
(* thread opens, accepts and closes sockets, while its calls fail, while   *)
(* the workers of the streams use the numbers they have read before, and   *)
(* while other clients knock.  A number that has been closed may be given  *)
(* to the next socket.                                                     *)
(***************************************************************************)
EXTENDS Calls

CONSTANTS Fds, NoFd,    \* the numbers the system gives out, and -1
          NumStreams,
          Tests,        \* the tests clients ask for: [proto, opts]
          ServerOptions,
          MaxTests,     \* bounds the tests of one server
          MaxFailures,  \* bounds the system calls that fail
          Winsock       \* select reports a closed socket in errno only if not

ASSUME SocketsAssumption ==
  /\ NumStreams \in Nat \ {0} /\ NoFd \notin Fds
  /\ IsFiniteSet(Fds) /\ Cardinality(Fds) >= NumStreams + 3
  /\ MaxTests \in Nat /\ MaxFailures \in Nat
  /\ Tests \subseteq [proto : {"tcp", "udp", "sctp"}, opts : SUBSET STRING]
  /\ Winsock \in BOOLEAN

VARIABLES fds,     \* what each number names
          test,    \* the fields of struct iperf_test that hold numbers
          worker,  \* where the worker of each stream is
          guest,   \* the connection iperf_accept is about to deny
          calls,   \* the calls that have failed, and what they left behind
          tests, mixed,
          end      \* where a test was given up, and what was closed again

vars == <<fds, test, worker, guest, calls, tests, mixed, end>>

Ids == 1 .. NumStreams

Open(f, n, what) == [f EXCEPT ![n] = what]
Close(f, S) == [n \in Fds |-> IF n \in S THEN "free" ELSE f[n]]
Free(f) == {n \in Fds : f[n] = "free"}
Holds == {test.streams[i] : i \in DOMAIN test.streams}

\* close is called for the numbers S, one of which has been closed before
Again(what, S) ==
  IF \E n \in S \ {NoFd} : fds[n] = "free"
  THEN {<<what, test.proto, end.at>>} ELSE {}

\* the main thread is in select
Main == guest = NoFd

NoTest == [st |-> "off", proto |-> "tcp", opts |-> {}, listener |-> NoFd,
           prot |-> NoFd, ctrl |-> NoFd, streams |-> <<>>, done |-> FALSE]

Init == /\ fds = [n \in Fds |-> "free"]
        /\ test = NoTest
        /\ worker = [i \in Ids |-> "none"]
        /\ guest = NoFd /\ calls = <<>> /\ tests = 0 /\ mixed = FALSE
        /\ end = [at |-> "none", again |-> {}]

Outcomes(f, opts, before) ==
  {Outcome(f, opts, k, before) :
     k \in {0} \cup (IF Len(calls) < MaxFailures THEN Failures(f, opts)
                     ELSE {})}

Failed(fn, left) == [fn |-> fn, left |-> left, twice |-> {}]
Fails(fn) == /\ Len(calls) < MaxFailures
             /\ calls' = Append(calls, Failed(fn, {}))

Note(fn, o) == calls' = IF o.ok THEN calls
                        ELSE Append(calls, [fn |-> fn, left |-> o.left,
                                            twice |-> o.twice])

\* a step of the main thread that fails ends in cleanup_server
Over(f) == /\ test' = [test EXCEPT !.st = "over"]
           /\ fds' = f
           /\ end' = [end EXCEPT !.at = test.st]

----------------------------------------------------------------------------
(* The listening sockets                                                   *)
\* iperf_server_listen; its failure ends the process
StartServer ==
  /\ test.st = "off" /\ tests < MaxTests
  /\ \E o \in Outcomes(netannounce("stream"), ServerOptions, {}),
        n \in Free(fds) :
       /\ Note(<<"tcp", "announce">>, o)
       /\ IF o.ok THEN /\ fds' = Open(fds, n, "listen")
                       /\ test' = [NoTest EXCEPT !.st = "start",
                                                 !.listener = n]
          ELSE /\ test' = [NoTest EXCEPT !.st = "exit"]
               /\ UNCHANGED fds
  /\ tests' = tests + 1
  /\ end' = [at |-> "none", again |-> {}]
  /\ UNCHANGED <<worker, guest, mixed>>

Listening(f, listener, prot, o) ==
  [fds |-> f, listener |-> listener, prot |-> prot, out |-> o]

\* mutant: the number of the new listener is not kept
TcpListen_OldListener(f, opts) ==
  LET again == opts \cap Recreate # {}
      f1 == IF again THEN Close(f, {test.listener}) ELSE f
  IN  {Listening(Open(f1, n, "listen"), test.listener, n, o) :
         o \in {p \in Outcomes(iperf_tcp_listen(opts), opts, {}) : p.ok},
         n \in IF again THEN Free(f1) ELSE {test.listener}}

\* the listener is closed first when it has to be made anew; after a failure
\* test->listener is the old number or the new one, and neither is open
TcpListen(f, opts) ==
  LET again == opts \cap Recreate # {}
      f1 == IF again THEN Close(f, {test.listener}) ELSE f
      held == IF again THEN {} ELSE {"s"}
      new == IF again THEN Free(f1) ELSE {test.listener}
  IN  {IF o.ok THEN Listening(Open(f1, n, "listen"), n, n, o)
       ELSE Listening(Close(f1, {n}), test.listener, NoFd, o) :
         o \in Outcomes(iperf_tcp_listen(opts), opts, held), n \in new}

UdpListen(f, opts) ==
  {IF o.ok THEN Listening(Open(f, n, "dgram"), test.listener, n, o)
   ELSE Listening(f, test.listener, NoFd, o) :
     o \in Outcomes(iperf_udp_listen, ServerOptions, {}), n \in Free(f)}

SctpListen(f, opts) ==
  LET f1 == Close(f, {test.listener}) IN
  {IF o.ok THEN Listening(Open(f1, n, "listen"), n, n, o)
   ELSE Listening(IF "s" \in o.left THEN Open(f1, n, "listen") ELSE f1,
                  NoFd, NoFd, o) :
     o \in Outcomes(iperf_sctp_listen, opts \cup ServerOptions, {}),
     n \in Free(f1)}

protocol_listen(t, f) ==
  CASE t.proto = "tcp"  -> TcpListen(f, t.opts)
    [] t.proto = "udp"  -> UdpListen(f, t.opts)
    [] t.proto = "sctp" -> SctpListen(f, t.opts)

\* iperf_accept of a free server, with iperf_exchange_parameters
AcceptClient ==
  /\ test.st = "start"
  /\ \E t \in Tests, n \in Free(fds) :
       LET f == Open(fds, n, "ctrl") IN
       \E x \in protocol_listen(t, f) :
         /\ fds' = x.fds
         /\ test' = [test EXCEPT !.st = IF x.out.ok THEN "create" ELSE "over",
                                 !.proto = t.proto, !.opts = t.opts,
                                 !.listener = x.listener, !.prot = x.prot,
                                 !.ctrl = n]
         /\ Note(<<t.proto, "listen">>, x.out)
         /\ end' = IF x.out.ok THEN end ELSE [end EXCEPT !.at = "listen"]
  /\ UNCHANGED <<worker, guest, tests, mixed>>

\* accept, an option, the cookie or the parameters fail
AcceptFails ==
  /\ test.st = "start"
  /\ Fails(<<"tcp", "control">>)
  /\ \E n \in Free(fds) \cup {NoFd} :
       /\ test' = [test EXCEPT !.st = "over", !.ctrl = n]
       /\ fds' = IF n = NoFd THEN fds ELSE Open(fds, n, "ctrl")
  /\ end' = [end EXCEPT !.at = "start"]
  /\ UNCHANGED <<worker, guest, tests, mixed>>

----------------------------------------------------------------------------
(* The connections of the streams                                          *)
Creating == test.st = "create" /\ Len(test.streams) < NumStreams

\* test->listener, although prot_listener was found readable
Accepting == /\ Creating /\ test.proto # "udp"
             /\ fds[test.listener] = "listen"

protocol_accept == IF test.proto = "tcp" THEN iperf_tcp_accept
                   ELSE iperf_sctp_accept

AcceptStream ==
  /\ Accepting
  /\ \E a \in Outcomes(protocol_accept, test.opts, {}), n \in Free(fds) :
       IF ~a.ok
       THEN /\ Over(IF "s" \in a.left THEN Open(fds, n, "data") ELSE fds)
            /\ Note(<<test.proto, "accept">>, a)
       ELSE \E o \in Outcomes(ServerStream, test.opts, {"s"}) :
            LET f == Open(fds, n, "data") IN
            /\ Note(<<test.proto, "stream">>, o)
            /\ IF o.ok THEN /\ test' = [test EXCEPT !.streams = Append(@, n)]
                            /\ fds' = f /\ UNCHANGED end
               ELSE Over(IF "s" \in o.left THEN f ELSE fds)
  /\ UNCHANGED <<worker, guest, tests, mixed>>

\* select fails for a closed descriptor
is_closed(f, n) == ~Winsock /\ f[n] = "free"

\* the connection has another cookie: it is denied and closed, and its number
\* returned; nothing can be set on it, and it cannot become a stream
DenyStream ==
  /\ Accepting
  /\ \E n \in Free(fds) :
       IF "-S" \in test.opts \/ ~is_closed(fds, n)
       THEN /\ Over(fds)
            /\ calls' = Append(calls, Failed(<<test.proto, "denied">>, {}))
       ELSE UNCHANGED <<test, fds, calls, end>>
  /\ UNCHANGED <<worker, guest, tests, mixed>>

\* unlike iperf_tcp_accept, iperf_sctp_accept fails if it cannot answer
DenyFails ==
  /\ Accepting /\ test.proto = "sctp"
  /\ Fails(<<"sctp", "deny">>) /\ Over(fds)
  /\ UNCHANGED <<worker, guest, tests, mixed>>

\* prot_listener becomes the stream, and is replaced
UdpAccept ==
  /\ Creating /\ test.proto = "udp"
  /\ \E o \in Outcomes(iperf_udp_accept, test.opts, {"s"}) :
       IF ~o.ok
       THEN Over(fds) /\ calls' = Append(calls, Failed(<<"udp", "accept">>, {}))
       ELSE \E r \in Outcomes(UdpReplace, ServerOptions, {}) :
         IF ~r.ok
         THEN /\ test' = [test EXCEPT !.st = "over", !.prot = NoFd]
              /\ fds' = Open(fds, test.prot, "data")
              /\ end' = [end EXCEPT !.at = "create"]
              /\ calls' = Append(calls, Failed(<<"udp", "replace">>,
                                               r.left \cup {"s"}))
         ELSE \E x \in Outcomes(UdpReply \o ServerStream, test.opts, {"s"}),
                 n \in Free(fds) :
              LET f == Open(Open(fds, test.prot,
                                 IF x.ok \/ "s" \in x.left THEN "data"
                                 ELSE "free"), n, "dgram")
              IN /\ test' = [test EXCEPT !.prot = n,
                                         !.st = IF x.ok THEN @ ELSE "over",
                                         !.streams =
                                           IF x.ok THEN Append(@, test.prot)
                                           ELSE @]
                 /\ fds' = f
                 /\ end' = IF x.ok THEN end ELSE [end EXCEPT !.at = "create"]
                 /\ Note(<<"udp", "stream">>, x)
  /\ UNCHANGED <<worker, guest, tests, mixed>>

\* the listener has the options of the streams: it is replaced
Reopens == test.proto = "tcp" /\ test.opts \cap {"-N", "-M", "-w"} # {}

StartTest ==
  /\ test.st = "create" /\ Len(test.streams) = NumStreams
  /\ \E ok \in BOOLEAN :
     IF Reopens
     THEN LET f == Close(fds, {test.listener}) IN
          \E o \in Outcomes(netannounce("stream"), ServerOptions, {}),
             n \in Free(f) :
            /\ ok = o.ok
            /\ Note(<<"tcp", "announce">>, o)
            /\ fds' = IF ok THEN Open(f, n, "listen") ELSE f
            /\ test' = [test EXCEPT !.listener = IF ok THEN n ELSE NoFd,
                                    !.prot = IF ok THEN NoFd ELSE @,
                                    !.st = IF ok THEN "running" ELSE "over"]
     ELSE /\ fds' = IF test.proto = "tcp" THEN fds
                    ELSE Close(fds, {test.prot})
          /\ test' = [test EXCEPT !.prot = NoFd,
                                  !.st = IF ok THEN "running" ELSE "over"]
          /\ IF ok THEN UNCHANGED calls ELSE Fails(<<test.proto, "start">>)
  /\ end' = [at |-> IF test'.st = "running" THEN end.at ELSE "begin",
             again |-> end.again \cup
                       IF Reopens THEN Again("listener", {test.listener})
                       ELSE IF test.proto = "tcp" THEN {}
                       ELSE Again("prot", {test.prot})]
  /\ worker' = [i \in Ids |-> IF test'.st = "running" THEN "loop" ELSE "none"]
  /\ UNCHANGED <<guest, tests, mixed>>

----------------------------------------------------------------------------
(* The workers                                                             *)
Told == test.done \/ test.st = "join"

WorkerTest(i) ==
  /\ worker[i] = "loop"
  /\ worker' = [worker EXCEPT ![i] = IF Told THEN "end" ELSE "use"]
  /\ UNCHANGED <<fds, test, guest, calls, tests, mixed, end>>

\* recv on the number that the stream has
WorkerReceives(i) ==
  /\ worker[i] = "use"
  /\ worker' = [worker EXCEPT ![i] = fds[test.streams[i]]]
  /\ UNCHANGED <<fds, test, guest, calls, tests, mixed, end>>

\* pthread_cancel ends a worker that waits in recv
WorkerCancelled(i) ==
  /\ worker[i] = "use" /\ test.st = "join"
  /\ worker' = [worker EXCEPT ![i] = "end"]
  /\ UNCHANGED <<fds, test, guest, calls, tests, mixed, end>>

\* mutant: late bytes are counted too
Counts_Late(st) == TRUE

\* bytes are counted in the state TEST_RUNNING only
Counts(st) == st = "running"

WorkerCounts(i) ==
  /\ worker[i] \notin {"none", "loop", "use", "end"}
  /\ worker' = [worker EXCEPT ![i] = IF @ = "free" THEN "end" ELSE "loop"]
  /\ mixed' = (mixed \/ (worker[i] \notin {"data", "free"} /\
                         Counts(test.st)))
  /\ UNCHANGED <<fds, test, guest, calls, tests, end>>

----------------------------------------------------------------------------
(* The end of a test                                                       *)
\* TEST_END has been read: the state has changed, nothing is closed yet
ReadTestEnd ==
  /\ Main /\ test.st = "running"
  /\ test' = [test EXCEPT !.st = "test_end", !.done = TRUE]
  /\ UNCHANGED <<fds, worker, guest, calls, tests, mixed, end>>

\* the numbers stay in the streams
TestEnd ==
  /\ test.st = "test_end"
  /\ fds' = Close(fds, Holds)
  /\ \/ test' = [test EXCEPT !.st = "display"] /\ UNCHANGED calls
     \/ test' = [test EXCEPT !.st = "over"] /\ Fails(<<"tcp", "results">>)
  /\ end' = [at |-> "test_end", again |-> end.again \cup
                                          Again("stream", Holds)]
  /\ UNCHANGED <<worker, guest, tests, mixed>>

ClientTerminates ==
  /\ Main /\ test.st = "running"
  /\ test' = [test EXCEPT !.st = "over"]
  /\ fds' = Close(fds, Holds)
  /\ end' = [at |-> "terminate", again |-> end.again \cup
                                           Again("stream", Holds)]
  /\ UNCHANGED <<worker, guest, calls, tests, mixed>>

\* IPERF_DONE, a lost client, a timeout or the bitrate limit
TestOver ==
  /\ Main
  /\ Creating \/ test.st \in {"start", "running", "display"}
  /\ Over(fds)
  /\ UNCHANGED <<worker, guest, calls, tests, mixed>>

\* another client connects: iperf_accept denies it
GuestArrives ==
  /\ Main /\ test.st \in {"running", "display"}
  /\ test.listener # NoFd /\ fds[test.listener] = "listen"
  /\ \/ /\ \E n \in Free(fds) : guest' = n /\ fds' = Open(fds, n, "guest")
        /\ UNCHANGED <<test, calls, end>>
     \/ Over(fds) /\ Fails(<<"tcp", "guest">>) /\ UNCHANGED guest
  /\ UNCHANGED <<worker, tests, mixed>>

GuestLeaves ==
  /\ ~Main
  /\ fds' = Close(fds, {guest}) /\ guest' = NoFd
  /\ UNCHANGED <<test, worker, calls, tests, mixed, end>>

\* cleanup_server, until the workers have been told and are waited for
Cleanup ==
  /\ test.st = "over"
  /\ test' = [test EXCEPT !.st = "join"]
  /\ UNCHANGED <<fds, worker, guest, calls, tests, mixed, end>>

CleanupCloses ==
  /\ test.st = "join"
  /\ \A i \in Ids : worker[i] \in {"none", "end"}
  /\ fds' = Close(fds, Holds \cup {test.ctrl, test.listener, test.prot})
  /\ end' = [end EXCEPT !.again =
                @ \cup Again("stream", Holds) \cup
                Again("ctrl", {test.ctrl}) \cup
                Again("listener", {test.listener}) \cup
                (IF test.prot = test.listener /\ test.prot # NoFd
                 THEN {<<"prot", test.proto, end.at>>}
                 ELSE Again("prot", {test.prot}))]
  /\ test' = NoTest
  /\ worker' = [i \in Ids |-> "none"]
  /\ UNCHANGED <<guest, calls, tests, mixed>>

----------------------------------------------------------------------------
(* The client, whose process ends with its test                            *)
Connect == [tcp |-> iperf_tcp_connect, udp |-> iperf_udp_connect,
            sctp |-> iperf_sctp_connect]

ClientConnects ==
  /\ test.st = "off" /\ calls = <<>>
  /\ \E t \in Tests :
       \/ \E o \in Outcomes(Connect[t.proto], t.opts, {}) :
            ~o.ok /\ Note(<<t.proto, "connect">>, o)
       \/ \E o \in Outcomes(ClientStream, t.opts, {"s"}) :
            ~o.ok /\ Note(<<t.proto, "create">>, o)
  /\ UNCHANGED <<fds, test, worker, guest, tests, mixed, end>>

Next == \/ StartServer \/ AcceptClient \/ AcceptFails \/ AcceptStream
        \/ DenyStream \/ DenyFails \/ UdpAccept \/ StartTest
        \/ ReadTestEnd \/ TestEnd \/ ClientTerminates \/ TestOver
        \/ GuestArrives \/ GuestLeaves \/ Cleanup \/ CleanupCloses
        \/ ClientConnects
        \/ \E i \in Ids : \/ WorkerTest(i) \/ WorkerReceives(i)
                          \/ WorkerCancelled(i) \/ WorkerCounts(i)

Spec == Init /\ [][Next]_vars

----------------------------------------------------------------------------
(* Properties                                                              *)
Opened == {n \in Fds : fds[n] # "free"}

\* the calls of the server after which a socket is nobody's
LostSockets == {k \in DOMAIN calls : /\ calls[k].fn[2] \notin {"connect",
                                                              "create"}
                                     /\ "s" \in calls[k].left}

\* the failures after which the code leaves something behind: a connection
\* that does not become a stream, with its files, the former prot_listener of UDP, the
\* socket of a failing listen in SCTP, and on the client the sockets of UDP
\* and, with -B and -w, the local address of SCTP
Leaves(c) ==
  \/ c.fn[2] \in {"stream", "create"} /\ c.left \subseteq {"s", "buffer",
                                                        "file"}
  \/ c.fn[1] = "udp" /\ c.fn[2] \in {"connect", "replace"} /\ c.left = {"s"}
  \/ c.fn = <<"sctp", "listen">> /\ c.left = {"s"}
  \/ c.fn = <<"sctp", "connect">> /\ c.left = {"local"}

\* the failures after which something is released that is not held: the
\* socket by iperf_sctp_bindx and its caller, and a list that was not asked
\* for, when a device but no address is to be bound
Repeats(c) ==
  \/ c.fn[1] = "sctp" /\ c.twice = {"s"}
  \/ c.fn[2] = "connect" /\ c.twice = {"local"}

\* the numbers that close is called for a second time, by the end of the
\* test that leaves them in struct iperf_test: those of the streams after
\* TEST_END or CLIENT_TERMINATE; prot_listener if it is the listener still,
\* or was when the new listener failed; the listener after a failing
\* iperf_tcp_listen, and with SCTP, where it is the prot_listener that has
\* been closed at the start of the test
ClosedAgain ==
  ({"stream"} \X {"tcp", "udp", "sctp"} \X
     {"test_end", "display", "terminate"}) \cup
  {<<"prot", "tcp", "create">>, <<"prot", "sctp", "create">>,
   <<"prot", "tcp", "begin">>, <<"listener", "tcp", "listen">>} \cup
  ({"listener"} \X {"sctp"} \X
     {"begin", "running", "test_end", "display", "terminate"})

\* Whatever system call fails, what a function has acquired is released,
\* and once, except at the places named above; close is called for a number
\* that has been closed only at the ends of a test named above; between two
\* tests no socket is open but those that were lost there.
ReleasedOnce ==
  /\ \A k \in DOMAIN calls :
       /\ calls[k].left = {} \/ Leaves(calls[k])
       /\ calls[k].twice = {} \/ Repeats(calls[k])
  /\ end.again \subseteq ClosedAgain
  /\ test.st = "off" => Cardinality(Opened) = Cardinality(LostSockets)

\* Every number that the server keeps names what it was opened for, or
\* nothing: so cleanup_server and the end of a test close no other socket.
\* While streams are created the listener that is accepted from is open, and
\* until TEST_END each stream has a connection of its own.
OwnDescriptors ==
  /\ \A n \in Holds : Main => fds[n] \in {"data", "free"}
  /\ test.listener # NoFd => fds[test.listener] \in {"listen", "free"}
  /\ test.ctrl # NoFd => fds[test.ctrl] = "ctrl"
  /\ test.prot # NoFd => fds[test.prot] \in {"listen", "dgram", "free"}
  /\ Creating => /\ test.prot # NoFd /\ fds[test.prot] # "free"
                 /\ test.proto # "udp" => fds[test.listener] = "listen"
  /\ test.st \in {"create", "running"} =>
       /\ Cardinality(Holds) = Len(test.streams)
       /\ \A n \in Holds : fds[n] = "data"

\* A connection that iperf_tcp_accept has denied and closed does not end the
\* test.
DeniedIsNoError == \A k \in DOMAIN calls : calls[k].fn[2] # "denied"

\* No byte counted for a stream has come from another connection, although
\* a worker may read from a number that TEST_END has closed and a guest has
\* been given since.
ReceivedFromPeer == ~mixed

=============================================================================
