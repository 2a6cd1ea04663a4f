--------------------------- MODULE SocketsProofs ---------------------------
(***************************************************************************)
(* No number that the server keeps comes to name a socket of another       *)
(* purpose while it may still be used or closed, and no byte is counted    *)
(* for a stream that has come from another connection: for any number of   *)
(* streams, any numbers, any tests asked for, any calls that fail and any  *)
(* number of tests and guests.                                             *)
(***************************************************************************)
EXTENDS Sockets, FiniteSetTheorems, TLAPS

Phases == {"off", "exit", "start", "create", "running", "test_end", "display",
           "over", "join"}

Names == {"free", "listen", "dgram", "ctrl", "data", "guest"}

Number == Fds \cup {NoFd}

TestStruct == [st : Phases, proto : {"tcp", "udp", "sctp"},
               opts : SUBSET STRING, listener : Number, prot : Number,
               ctrl : Number, streams : Seq(Fds), done : BOOLEAN]

Typed ==
  /\ fds \in [Fds -> Names]
  /\ test \in TestStruct
  /\ guest \in Number
  /\ DOMAIN worker = Ids

\* The main thread is with a guest only while a test runs or its results are
\* shown.
GuestIsShort ==
  guest # NoFd => test.st \in {"running", "display"} /\ fds[guest] = "guest"

\* Until it is closed each number names what it was opened for; only the
\* number of a stream that TEST_END has closed may meanwhile be the guest's.
KeptNumbers ==
  /\ \A i \in DOMAIN test.streams :
       fds[test.streams[i]] \in {"data", "free"} \/ test.streams[i] = guest
  /\ test.listener # NoFd => fds[test.listener] \in {"listen", "free"}
  /\ test.ctrl # NoFd => fds[test.ctrl] = "ctrl"
  /\ test.prot # NoFd => fds[test.prot] \in {"listen", "dgram", "free"}

\* The listening sockets, as iperf_server_listen and the listen function of
\* the protocol leave them; prot_listener is given up when the test starts.
Listeners ==
  /\ test.st \in {"start", "create"} =>
       test.listener # NoFd /\ fds[test.listener] = "listen"
  /\ test.st = "create" =>
       /\ test.prot # NoFd
       /\ IF test.proto = "udp" THEN fds[test.prot] = "dgram"
          ELSE test.prot = test.listener
  /\ test.st \in {"start", "running", "test_end", "display"} =>
       test.prot = NoFd
  /\ test.st = "start" => test.ctrl = NoFd /\ test.streams = <<>>

\* Until TEST_END each stream has an open connection of its own.
Connections ==
  /\ test.st \in {"create", "running"} =>
       /\ \A i \in DOMAIN test.streams : fds[test.streams[i]] = "data"
       /\ \A i, j \in DOMAIN test.streams :
            test.streams[i] = test.streams[j] => i = j
  /\ test.st = "running" => Len(test.streams) = NumStreams

\* While bytes are counted, whatever a worker has read came from a data
\* connection.
WorkersRead ==
  test.st = "running" =>
    \A i \in Ids : worker[i] \in {"none", "loop", "use", "end", "data"}

SocketsInvariant ==
  /\ Typed
  /\ GuestIsShort
  /\ KeptNumbers
  /\ Listeners
  /\ Connections
  /\ WorkersRead
  /\ ReceivedFromPeer

----------------------------------------------------------------------------
(* One step                                                                *)
USE DEF TestStruct

\* The server has no test before it is started.
LEMMA Initially == Init => SocketsInvariant
  BY SocketsAssumption
  DEF Init, NoTest, SocketsInvariant, Phases, Names, Number, Ids, Typed,
      GuestIsShort, KeptNumbers, Listeners, Connections, WorkersRead,
      ReceivedFromPeer

\* iperf_server_listen.
LEMMA StartServerKeeps ==
  ASSUME SocketsInvariant, StartServer
  PROVE  SocketsInvariant'
  <1> USE SocketsAssumption
      DEF SocketsInvariant, Typed, Phases, Names, Number, Ids
  <1>1. PICK n \in Free(fds) :
          \/ /\ fds' = Open(fds, n, "listen")
             /\ test' = [NoTest EXCEPT !.st = "start", !.listener = n]
          \/ test' = [NoTest EXCEPT !.st = "exit"] /\ UNCHANGED fds
    BY DEF StartServer
  <1>2. n \in Fds /\ fds[n] = "free" /\ UNCHANGED <<worker, guest, mixed>>
    BY DEF Free, StartServer
  <1>3. guest = NoFd
    BY DEF StartServer, GuestIsShort
  <1>4. \E l \in Number, s \in {"start", "exit"} :
          /\ test' = [st |-> s, proto |-> "tcp", opts |-> {}, listener |-> l,
                      prot |-> NoFd, ctrl |-> NoFd, streams |-> <<>>,
                      done |-> FALSE]
          /\ l = NoFd \/ fds'[l] = "listen"
          /\ s = "start" => l # NoFd
    <2>1. CASE test' = [NoTest EXCEPT !.st = "exit"]
      <3>1. test' = [st |-> "exit", proto |-> "tcp", opts |-> {},
                     listener |-> NoFd, prot |-> NoFd, ctrl |-> NoFd,
                     streams |-> <<>>, done |-> FALSE]
        BY <2>1 DEF NoTest
      <3> QED
        BY <3>1
    <2>2. CASE /\ fds' = Open(fds, n, "listen")
               /\ test' = [NoTest EXCEPT !.st = "start", !.listener = n]
      <3>1. test' = [st |-> "start", proto |-> "tcp", opts |-> {},
                     listener |-> n, prot |-> NoFd, ctrl |-> NoFd,
                     streams |-> <<>>, done |-> FALSE]
        BY <2>2 DEF NoTest
      <3>2. fds'[n] = "listen" /\ n # NoFd
        BY <1>2, <2>2 DEF Open
      <3> QED
        BY <1>2, <3>1, <3>2
    <2> QED
      BY <1>1, <2>1, <2>2
  <1>5. fds' \in [Fds -> Names]
    BY <1>1, <1>2 DEF Open
  <1>6. Typed'
    BY <1>2, <1>4, <1>5
  <1> QED
    BY <1>2, <1>3, <1>4, <1>6
    DEF GuestIsShort, KeptNumbers, Listeners, Connections, WorkersRead,
        ReceivedFromPeer

\* A client whose parameters cannot be had.
LEMMA AcceptFailsKeeps ==
  ASSUME SocketsInvariant, AcceptFails
  PROVE  SocketsInvariant'
  <1> USE SocketsAssumption
      DEF SocketsInvariant, Typed, Phases, Names, Number, Ids, AcceptFails,
          Open, Free
  <1>1. Typed'
    BY DEF Listeners, Connections
  <1>2. GuestIsShort'
    BY DEF GuestIsShort
  <1>3. KeptNumbers'
    BY DEF GuestIsShort, KeptNumbers, Listeners, Connections
  <1>4. Listeners'
    BY DEF GuestIsShort, KeptNumbers, Listeners
  <1>5. Connections'
    BY DEF GuestIsShort, KeptNumbers, Listeners, Connections
  <1>6. WorkersRead'
    BY DEF WorkersRead, Connections
  <1>7. ReceivedFromPeer'
    BY DEF WorkersRead, ReceivedFromPeer
  <1> QED
    BY <1>1, <1>2, <1>3, <1>4, <1>5, <1>6, <1>7

\* A connection with another cookie.
LEMMA DenyKeeps ==
  ASSUME SocketsInvariant, DenyStream \/ DenyFails
  PROVE  SocketsInvariant'
  <1> USE SocketsAssumption
      DEF SocketsInvariant, Typed, Phases, Names, Number, Ids, DenyStream,
          DenyFails, Accepting, Creating, Over
  <1>1. Typed'
    BY DEF Listeners, Connections
  <1>2. GuestIsShort'
    BY DEF GuestIsShort
  <1>3. KeptNumbers'
    BY DEF GuestIsShort, KeptNumbers, Listeners, Connections
  <1>4. Listeners'
    BY DEF GuestIsShort, KeptNumbers, Listeners
  <1>5. Connections'
    BY DEF GuestIsShort, KeptNumbers, Listeners, Connections
  <1>6. WorkersRead'
    BY DEF WorkersRead, Connections
  <1>7. ReceivedFromPeer'
    BY DEF WorkersRead, ReceivedFromPeer
  <1> QED
    BY <1>1, <1>2, <1>3, <1>4, <1>5, <1>6, <1>7

\* A step that only moves on in the life of the test, from a phase in which
\* more is promised.
LEMMA PhaseKeeps ==
  ASSUME SocketsInvariant, UNCHANGED <<fds, worker, guest, mixed>>,
         \/ Main /\ test.st = "running" /\
            test' = [test EXCEPT !.st = "test_end", !.done = TRUE]
         \/ guest = NoFd /\ test' = [test EXCEPT !.st = "over"]
         \/ guest = NoFd /\ test' = [test EXCEPT !.st = "join"]
  PROVE  SocketsInvariant'
  <1> USE SocketsAssumption
      DEF SocketsInvariant, Typed, Phases, Names, Number, Ids
  <1>1. /\ UNCHANGED <<test.proto, test.opts, test.listener, test.prot>>
        /\ UNCHANGED <<test.ctrl, test.streams>>
        /\ test'.st \in {"test_end", "over", "join"} /\ guest = NoFd
        /\ test'.st = "test_end" => test.st = "running"
    BY DEF Main
  <1>2. test' \in TestStruct
    <2>1. CASE test' = [test EXCEPT !.st = "test_end", !.done = TRUE]
      BY <2>1
    <2>2. CASE test' = [test EXCEPT !.st = "over"]
      BY <2>2
    <2>3. CASE test' = [test EXCEPT !.st = "join"]
      BY <2>3
    <2> QED
      BY <2>1, <2>2, <2>3
  <1>3. Typed'
    BY <1>2
  <1> QED
    BY <1>1, <1>3
    DEF GuestIsShort, KeptNumbers, Listeners, Connections, WorkersRead,
        ReceivedFromPeer

\* The end of a test, without its sockets.
LEMMA OverKeeps ==
  ASSUME SocketsInvariant, ReadTestEnd \/ TestOver \/ Cleanup
  PROVE  SocketsInvariant'
  <1>1. UNCHANGED <<fds, worker, guest, mixed>>
    BY DEF ReadTestEnd, TestOver, Cleanup, Over
  <1>2. \/ Main /\ test.st = "running" /\
            test' = [test EXCEPT !.st = "test_end", !.done = TRUE]
        \/ guest = NoFd /\ test' = [test EXCEPT !.st = "over"]
        \/ guest = NoFd /\ test' = [test EXCEPT !.st = "join"]
    BY DEF ReadTestEnd, TestOver, Cleanup, Over, Main, SocketsInvariant,
           GuestIsShort
  <1> QED
    BY <1>1, <1>2, PhaseKeeps

\* The client's own calls touch none of the server's numbers.
LEMMA ClientKeeps ==
  ASSUME SocketsInvariant, ClientConnects
  PROVE  SocketsInvariant'
  <1>1. UNCHANGED <<fds, test, worker, guest, mixed>>
    BY DEF ClientConnects
  <1> QED
    BY <1>1
    DEF SocketsInvariant, Typed, GuestIsShort, KeptNumbers, Listeners,
        Connections, WorkersRead, ReceivedFromPeer

\* The connections of the streams are closed.
LEMMA ClosingKeeps ==
  ASSUME SocketsInvariant, TestEnd \/ ClientTerminates
  PROVE  SocketsInvariant'
  <1> USE SocketsAssumption
      DEF SocketsInvariant, Typed, Phases, Names, Number, Ids
  <1>1. /\ fds' = Close(fds, Holds) /\ UNCHANGED <<worker, guest, mixed>>
        /\ guest = NoFd
        /\ \/ test' = [test EXCEPT !.st = "over"]
           \/ /\ test.st = "test_end"
              /\ test' = [test EXCEPT !.st = "display"]
    BY DEF TestEnd, ClientTerminates, Main, Over, GuestIsShort
  <1>2. /\ UNCHANGED <<test.proto, test.opts, test.listener, test.prot>>
        /\ UNCHANGED <<test.ctrl, test.streams>>
        /\ test'.st \in {"over", "display"}
        /\ test'.st = "display" => test.st = "test_end"
    BY <1>1
  <1>3. Typed'
    BY <1>1 DEF Close
  <1>4. \A n \in Fds : fds'[n] = IF n \in Holds THEN "free" ELSE fds[n]
    BY <1>1 DEF Close
  <1>5. KeptNumbers'
    <2>1. test.ctrl # NoFd => test.ctrl \notin Holds
      BY <1>1 DEF KeptNumbers, Holds
    <2>2. \A i \in DOMAIN test.streams :
            test.streams[i] \in Fds /\ test.streams[i] \in Holds
      BY DEF Holds
    <2> QED
      BY <1>1, <1>2, <1>3, <1>4, <2>1, <2>2 DEF KeptNumbers
  <1> QED
    BY <1>1, <1>2, <1>3, <1>5
    DEF GuestIsShort, Listeners, Connections, WorkersRead, ReceivedFromPeer

\* Another client is denied.
LEMMA GuestKeeps ==
  ASSUME SocketsInvariant, GuestArrives \/ GuestLeaves
  PROVE  SocketsInvariant'
  <1> USE SocketsAssumption
      DEF SocketsInvariant, Typed, Phases, Names, Number, Ids, GuestArrives,
          GuestLeaves, Main, Open, Close, Free, Over
  <1>0. fds' \in [Fds -> Names] /\ guest' \in Number
    BY DEF GuestIsShort
  <1>1. Typed'
    <2>1. test' = test \/ test' = [test EXCEPT !.st = "over"]
      OBVIOUS
    <2>2. test' \in TestStruct
      BY <2>1
    <2> QED
      BY <1>0, <2>2
  <1>2. GuestIsShort'
    BY DEF GuestIsShort
  <1>3. KeptNumbers'
    BY DEF GuestIsShort, KeptNumbers, Listeners, Connections
  <1>4. Listeners'
    BY DEF GuestIsShort, KeptNumbers, Listeners
  <1>5. Connections'
    BY DEF GuestIsShort, KeptNumbers, Listeners, Connections
  <1>6. WorkersRead'
    BY DEF WorkersRead, Connections
  <1>7. ReceivedFromPeer'
    BY DEF WorkersRead, ReceivedFromPeer
  <1> QED
    BY <1>1, <1>2, <1>3, <1>4, <1>5, <1>6, <1>7

\* cleanup_server closes everything and the test is reset.
LEMMA CleanupKeeps ==
  ASSUME SocketsInvariant, CleanupCloses
  PROVE  SocketsInvariant'
  <1> USE SocketsAssumption
      DEF SocketsInvariant, Typed, Phases, Names, Number, Ids, CleanupCloses,
          NoTest, Holds, Close
  <1>1. Typed'
    BY DEF Listeners, Connections
  <1>2. GuestIsShort'
    BY DEF GuestIsShort
  <1>3. KeptNumbers'
    BY DEF GuestIsShort, KeptNumbers, Listeners, Connections
  <1>4. Listeners'
    BY DEF GuestIsShort, KeptNumbers, Listeners
  <1>5. Connections'
    BY DEF GuestIsShort, KeptNumbers, Listeners, Connections
  <1>6. WorkersRead'
    BY DEF WorkersRead, Connections
  <1>7. ReceivedFromPeer'
    BY DEF WorkersRead, ReceivedFromPeer
  <1> QED
    BY <1>1, <1>2, <1>3, <1>4, <1>5, <1>6, <1>7

\* The workers: what they read from a number in TEST_RUNNING is data.
LEMMA WorkersKeep ==
  ASSUME SocketsInvariant, NEW i \in Ids,
         WorkerTest(i) \/ WorkerReceives(i) \/ WorkerCancelled(i) \/
         WorkerCounts(i)
  PROVE  SocketsInvariant'
  <1> USE SocketsAssumption DEF SocketsInvariant
  <1>1. UNCHANGED <<fds, test, guest>>
    BY DEF WorkerTest, WorkerReceives, WorkerCancelled, WorkerCounts
  <1>2. DOMAIN worker' = Ids
    BY DEF Typed, WorkerTest, WorkerReceives, WorkerCancelled, WorkerCounts
  <1>3. Typed' /\ GuestIsShort' /\ KeptNumbers' /\ Listeners' /\ Connections'
    BY <1>1, <1>2
    DEF Typed, GuestIsShort, KeptNumbers, Listeners, Connections
  <1>4. WorkersRead'
    <2>1. SUFFICES ASSUME test.st = "running", NEW j \in Ids
                   PROVE  worker'[j] \in {"none", "loop", "use", "end", "data"}
      BY <1>1 DEF WorkersRead
    <2>2. fds[test.streams[i]] = "data"
      BY <2>1 DEF Connections, Typed, Ids
    <2>3. worker[i] \in {"none", "loop", "use", "end", "data"} /\
          worker[j] \in {"none", "loop", "use", "end", "data"}
      BY <2>1 DEF WorkersRead
    <2> QED
      BY <2>2, <2>3
      DEF Typed, WorkerTest, WorkerReceives, WorkerCancelled, WorkerCounts
  <1>5. ReceivedFromPeer'
    BY DEF WorkersRead, ReceivedFromPeer, WorkerTest, WorkerReceives,
           WorkerCancelled, WorkerCounts, Counts
  <1> QED
    BY <1>3, <1>4, <1>5

\* The listen functions of the protocols: the control connection n stays, and
\* the listener and prot_listener are new, old or closed.
LEMMA ListenKeeps ==
  ASSUME Typed, test.st = "start", NEW t \in Tests, NEW n \in Free(fds),
         test.listener # NoFd, fds[test.listener] = "listen",
         NEW x \in protocol_listen(t, Open(fds, n, "ctrl"))
  PROVE  /\ x.fds \in [Fds -> Names]
         /\ x.listener \in Number /\ x.prot \in Number
         /\ x.fds[n] = "ctrl"
         /\ x.listener # NoFd => x.fds[x.listener] \in {"listen", "free"}
         /\ x.prot # NoFd => x.fds[x.prot] \in {"listen", "dgram"}
         /\ x.out.ok => /\ x.listener # NoFd /\ x.prot # NoFd
                        /\ x.fds[x.listener] = "listen"
                        /\ IF t.proto = "udp" THEN x.fds[x.prot] = "dgram"
                           ELSE x.prot = x.listener
  <1> DEFINE f == Open(fds, n, "ctrl")
             l == test.listener
  <1> USE SocketsAssumption DEF Names, Number
  <1>1. /\ f \in [Fds -> Names] /\ n \in Fds /\ l \in Fds
        /\ f[n] = "ctrl" /\ f[l] = "listen"
    BY DEF Typed, Open, Free
  <1>2. t.proto \in {"tcp", "udp", "sctp"}
    OBVIOUS
  <1> HIDE DEF f
  <1>3. CASE t.proto = "tcp"
    <2> DEFINE f1 == IF t.opts \cap Recreate # {} THEN Close(f, {l}) ELSE f
           O == Outcomes(iperf_tcp_listen(t.opts), t.opts,
                         IF t.opts \cap Recreate # {} THEN {} ELSE {"s"})
           M == IF t.opts \cap Recreate # {} THEN Free(f1) ELSE {l}
           X(o, m) == IF o.ok THEN Listening(Open(f1, m, "listen"), m, m, o)
                      ELSE Listening(Close(f1, {m}), l, NoFd, o)
    <2>1. x \in TcpListen(f, t.opts)
      BY <1>3 DEF protocol_listen, f
    <2>2. TcpListen(f, t.opts) = {X(o, m) : o \in O, m \in M}
      BY DEF TcpListen
    <2> HIDE DEF X, O
    <2>3. PICK o \in O, m \in M : x = X(o, m)
      BY <2>1, <2>2
    <2>4. /\ f1 \in [Fds -> Names] /\ f1[n] = "ctrl" /\ m \in Fds /\ m # n
          /\ f1[l] \in {"listen", "free"}
      BY <1>1 DEF Close, Free
    <2> HIDE DEF f1, M
    <2> QED
      BY <1>1, <1>3, <2>3, <2>4 DEF X, Listening, Open, Close
  <1>4. CASE t.proto = "udp"
    <2>1. PICK o \in Outcomes(iperf_udp_listen, ServerOptions, {}),
               m \in Free(f) :
            x = IF o.ok THEN Listening(Open(f, m, "dgram"), l, m, o)
                ELSE Listening(f, l, NoFd, o)
      BY <1>4 DEF protocol_listen, UdpListen, f
    <2> QED
      BY <1>1, <1>4, <2>1 DEF Listening, Open, Free
  <1>5. CASE t.proto = "sctp"
    <2> DEFINE f1 == Close(f, {l})
           O == Outcomes(iperf_sctp_listen, t.opts \cup ServerOptions, {})
           M == Free(f1)
           X(o, m) == IF o.ok THEN Listening(Open(f1, m, "listen"), m, m, o)
                      ELSE Listening(IF "s" \in o.left
                                     THEN Open(f1, m, "listen")
                                     ELSE f1, NoFd, NoFd, o)
    <2>1. x \in SctpListen(f, t.opts)
      BY <1>5 DEF protocol_listen, f
    <2>2. SctpListen(f, t.opts) = {X(o, m) : o \in O, m \in M}
      BY DEF SctpListen
    <2> HIDE DEF X, O, M
    <2>3. PICK o \in O, m \in M : x = X(o, m)
      BY <2>1, <2>2
    <2>4. f1 \in [Fds -> Names] /\ f1[n] = "ctrl" /\ m \in Fds /\ m # n
      BY <1>1 DEF Close, Free, M
    <2> HIDE DEF f1
    <2> QED
      BY <1>1, <1>5, <2>3, <2>4 DEF X, Listening, Open
  <1> QED
    BY <1>2, <1>3, <1>4, <1>5

\* iperf_accept of a free server.
LEMMA AcceptClientKeeps ==
  ASSUME SocketsInvariant, AcceptClient
  PROVE  SocketsInvariant'
  <1> USE SocketsAssumption DEF SocketsInvariant
  <1>1. PICK t \in Tests, n \in Free(fds) :
          \E x \in protocol_listen(t, Open(fds, n, "ctrl")) :
            /\ fds' = x.fds
            /\ test' = [test EXCEPT !.st = IF x.out.ok THEN "create"
                                            ELSE "over",
                                    !.proto = t.proto, !.opts = t.opts,
                                    !.listener = x.listener,
                                    !.prot = x.prot, !.ctrl = n]
    BY DEF AcceptClient
  <1>2. PICK x \in protocol_listen(t, Open(fds, n, "ctrl")) :
          /\ fds' = x.fds
          /\ test' = [test EXCEPT !.st = IF x.out.ok THEN "create" ELSE "over",
                                  !.proto = t.proto, !.opts = t.opts,
                                  !.listener = x.listener,
                                  !.prot = x.prot, !.ctrl = n]
    BY <1>1
  <1>3. /\ test.st = "start" /\ test.streams = <<>>
        /\ test.listener # NoFd /\ fds[test.listener] = "listen"
        /\ UNCHANGED <<worker, guest, mixed>> /\ guest = NoFd
    BY DEF AcceptClient, Listeners, GuestIsShort
  <1>4. /\ x.fds \in [Fds -> Names]
        /\ x.listener \in Number /\ x.prot \in Number
        /\ x.fds[n] = "ctrl"
        /\ x.listener # NoFd => x.fds[x.listener] \in {"listen", "free"}
        /\ x.prot # NoFd => x.fds[x.prot] \in {"listen", "dgram"}
        /\ x.out.ok => /\ x.listener # NoFd /\ x.prot # NoFd
                       /\ x.fds[x.listener] = "listen"
                       /\ IF t.proto = "udp" THEN x.fds[x.prot] = "dgram"
                          ELSE x.prot = x.listener
    BY <1>3, ListenKeeps
  <1>5. /\ t.proto \in {"tcp", "udp", "sctp"} /\ t.opts \in SUBSET STRING
        /\ n \in Fds
    BY DEF Free
  <1>6. /\ test'.st = IF x.out.ok THEN "create" ELSE "over"
        /\ test'.proto = t.proto /\ test'.listener = x.listener
        /\ test'.prot = x.prot /\ test'.ctrl = n /\ test'.streams = <<>>
    BY <1>2, <1>3 DEF Typed
  <1>7. test' \in TestStruct
    BY <1>2, <1>4, <1>5 DEF Typed, Phases, Number
  <1>8. Typed'
    BY <1>2, <1>3, <1>4, <1>7 DEF Typed
  <1> QED
    BY <1>2, <1>3, <1>4, <1>5, <1>6, <1>8
    DEF GuestIsShort, KeptNumbers, Listeners, Connections, WorkersRead,
        ReceivedFromPeer

\* A failing step that may leave a new socket open, which nobody keeps.
LEMMA LostKeeps ==
  ASSUME SocketsInvariant, guest = NoFd, NEW n \in Free(fds),
         fds' = fds \/ fds' = Open(fds, n, "data"),
         test' = [test EXCEPT !.st = "over"],
         test.listener # NoFd => test.listener # n,
         test.prot # NoFd => test.prot # n,
         \A i \in DOMAIN test.streams : test.streams[i] # n,
         UNCHANGED <<worker, guest, mixed>>
  PROVE  SocketsInvariant'
  <1> USE SocketsAssumption DEF SocketsInvariant, Number
  <1>1. /\ UNCHANGED <<test.proto, test.opts, test.listener, test.prot>>
        /\ UNCHANGED <<test.ctrl, test.streams>> /\ test'.st = "over"
    BY DEF Typed
  <1>2. /\ fds' \in [Fds -> Names]
        /\ \A m \in Fds : m # n => fds'[m] = fds[m]
    BY DEF Typed, Free, Open, Names
  <1>3. test' \in TestStruct
    BY DEF Typed, Phases
  <1>4. Typed'
    BY <1>2, <1>3 DEF Typed
  <1>5. KeptNumbers'
    <2>1. test.ctrl # NoFd => test.ctrl # n
      BY DEF KeptNumbers, Free
    <2>2. test.listener \in Number /\ test.prot \in Number /\
          test.ctrl \in Number /\ test.streams \in Seq(Fds)
      BY DEF Typed
    <2> QED
      BY <1>1, <1>2, <2>1, <2>2 DEF KeptNumbers
  <1> QED
    BY <1>1, <1>4, <1>5
    DEF GuestIsShort, Listeners, Connections, WorkersRead, ReceivedFromPeer

\* While streams are created a free number is none of those the server keeps.
LEMMA FreshNumber ==
  ASSUME SocketsInvariant, test.st = "create", NEW n \in Free(fds)
  PROVE  /\ n \in Fds /\ n # NoFd
         /\ test.listener # n /\ test.prot # n /\ test.ctrl # n
         /\ \A i \in DOMAIN test.streams : test.streams[i] # n
         /\ guest = NoFd
  BY SocketsAssumption
  DEF SocketsInvariant, Typed, GuestIsShort, KeptNumbers, Listeners,
      Connections, Free, Number

\* A stream at the end of the list.
LEMMA AppendedNumber ==
  ASSUME NEW s \in Seq(Fds), NEW n \in Fds
  PROVE  /\ Append(s, n) \in Seq(Fds)
         /\ DOMAIN Append(s, n) = DOMAIN s \cup {Len(s) + 1}
         /\ Append(s, n)[Len(s) + 1] = n
         /\ \A i \in DOMAIN s : Append(s, n)[i] = s[i] /\ s[i] \in Fds
  <1>1. Append(s, n) \in Seq(Fds) /\ Len(Append(s, n)) = Len(s) + 1
    OBVIOUS
  <1>2. DOMAIN s = 1 .. Len(s) /\ DOMAIN Append(s, n) = 1 .. Len(s) + 1
    BY <1>1
  <1>3. 1 .. Len(s) + 1 = 1 .. Len(s) \cup {Len(s) + 1}
    OBVIOUS
  <1> QED
    BY <1>1, <1>2, <1>3

\* iperf_tcp_accept, iperf_sctp_accept and iperf_new_stream.
LEMMA AcceptStreamKeeps ==
  ASSUME SocketsInvariant, AcceptStream
  PROVE  SocketsInvariant'
  <1> USE SocketsAssumption DEF SocketsInvariant
  <1>1. test.st = "create" /\ UNCHANGED <<worker, guest, mixed>>
    BY DEF AcceptStream, Accepting, Creating
  <1>2. PICK n \in Free(fds) :
          \/ /\ test' = [test EXCEPT !.st = "over"]
             /\ fds' = fds \/ fds' = Open(fds, n, "data")
          \/ /\ test' = [test EXCEPT !.streams = Append(@, n)]
             /\ fds' = Open(fds, n, "data")
    BY DEF AcceptStream, Over
  <1>3. /\ n \in Fds /\ n # NoFd
        /\ test.listener # n /\ test.prot # n /\ test.ctrl # n
        /\ \A i \in DOMAIN test.streams : test.streams[i] # n
        /\ guest = NoFd
    BY <1>1, FreshNumber
  <1>4. CASE /\ test' = [test EXCEPT !.st = "over"]
             /\ fds' = fds \/ fds' = Open(fds, n, "data")
    BY <1>1, <1>3, <1>4, LostKeeps
  <1>5. CASE /\ test' = [test EXCEPT !.streams = Append(@, n)]
             /\ fds' = Open(fds, n, "data")
    <2>1. /\ UNCHANGED <<test.st, test.proto, test.opts, test.listener>>
          /\ UNCHANGED <<test.ctrl, test.prot>>
          /\ test'.streams = Append(test.streams, n)
      BY <1>5 DEF Typed
    <2>2. /\ test.streams \in Seq(Fds) /\ test'.streams \in Seq(Fds)
          /\ DOMAIN test'.streams = DOMAIN test.streams \cup
                                    {Len(test.streams) + 1}
          /\ test'.streams[Len(test.streams) + 1] = n
          /\ \A i \in DOMAIN test.streams :
               /\ test'.streams[i] = test.streams[i] /\ test.streams[i] \in Fds
      <3>1. test.streams \in Seq(Fds)
        BY DEF Typed
      <3> QED
        BY <1>3, <2>1, <3>1, AppendedNumber
    <2>3. /\ fds' \in [Fds -> Names] /\ fds'[n] = "data"
          /\ \A m \in Fds : m # n => fds'[m] = fds[m]
      BY <1>3, <1>5 DEF Typed, Open, Names
    <2>4. test' \in TestStruct
      <3>1. Append(test.streams, n) \in Seq(Fds)
        BY <2>1, <2>2
      <3>2. test' = [test EXCEPT !.streams = Append(test.streams, n)]
        BY <1>5
      <3> HIDE DEF SocketsInvariant
      <3>3. test \in TestStruct
        BY DEF Typed, SocketsInvariant
      <3> QED
        BY <3>1, <3>2, <3>3
    <2>5. Typed'
      BY <1>1, <2>3, <2>4 DEF Typed
    <2>6. KeptNumbers'
      <3>1. \A i \in DOMAIN test'.streams :
              fds'[test'.streams[i]] \in {"data", "free"} \/
              test'.streams[i] = guest
        BY <1>3, <2>2, <2>3 DEF KeptNumbers
      <3>2. test.listener \in Number /\ test.prot \in Number /\
            test.ctrl \in Number
        BY DEF Typed
      <3> QED
        BY <1>1, <1>3, <2>1, <2>3, <3>1, <3>2 DEF KeptNumbers, Number
    <2>7. Connections'
      <3>1. \A i \in DOMAIN test'.streams : fds'[test'.streams[i]] = "data"
        BY <1>1, <1>3, <2>2, <2>3 DEF Connections
      <3>2. \A i, j \in DOMAIN test'.streams :
              test'.streams[i] = test'.streams[j] => i = j
        BY <1>1, <1>3, <2>2 DEF Connections
      <3> QED
        BY <1>1, <2>1, <3>1, <3>2 DEF Connections
    <2>8. Listeners'
      BY <1>1, <1>3, <2>1, <2>3 DEF Listeners, Typed, Number
    <2> QED
      BY <1>1, <1>3, <2>1, <2>5, <2>6, <2>7, <2>8
      DEF GuestIsShort, WorkersRead, ReceivedFromPeer
  <1> QED
    BY <1>2, <1>4, <1>5

\* iperf_udp_accept: prot_listener becomes the stream, another one takes its
\* place.
LEMMA UdpAcceptKeeps ==
  ASSUME SocketsInvariant, UdpAccept
  PROVE  SocketsInvariant'
  <1> USE SocketsAssumption DEF SocketsInvariant
  <1> DEFINE p == test.prot
  <1>1. /\ test.st = "create" /\ test.proto = "udp"
        /\ UNCHANGED <<worker, guest, mixed>>
    BY DEF UdpAccept, Creating
  <1>2. /\ p \in Fds /\ fds[p] = "dgram" /\ guest = NoFd
        /\ test.streams \in Seq(Fds)
        /\ test.listener \in Fds /\ fds[test.listener] = "listen"
        /\ test.ctrl \in Number
        /\ test.ctrl # NoFd => fds[test.ctrl] = "ctrl"
        /\ \A i \in DOMAIN test.streams :
             test.streams[i] \in Fds /\ fds[test.streams[i]] = "data"
    BY <1>1 DEF Typed, Number, GuestIsShort, KeptNumbers, Listeners, Connections
  <1>3. \/ test' = [test EXCEPT !.st = "over"] /\ fds' = fds
        \/ /\ test' = [test EXCEPT !.st = "over", !.prot = NoFd]
           /\ fds' = Open(fds, p, "data")
        \/ \E n \in Free(fds), w \in {"data", "free"} :
             /\ test' = [test EXCEPT !.prot = n, !.st = "over"]
             /\ fds' = Open(Open(fds, p, w), n, "dgram")
        \/ \E n \in Free(fds) :
             /\ test' = [test EXCEPT !.prot = n, !.streams = Append(@, p)]
             /\ fds' = Open(Open(fds, p, "data"), n, "dgram")
    BY DEF UdpAccept, Over
  <1> HIDE DEF p
  <1>4. CASE test' = [test EXCEPT !.st = "over"] /\ fds' = fds
    BY <1>1, <1>2, <1>4, PhaseKeeps
  <1>5. test \in TestStruct
    BY DEF Typed
  <1>6. CASE /\ test' = [test EXCEPT !.st = "over", !.prot = NoFd]
             /\ fds' = Open(fds, p, "data")
    <2>1. test' \in TestStruct
      BY <1>5, <1>6 DEF Phases, Number
    <2>2. /\ test'.st = "over" /\ test'.prot = NoFd
          /\ UNCHANGED <<test.listener, test.ctrl, test.streams>>
      BY <1>5, <1>6
    <2>3. /\ fds' \in [Fds -> Names]
          /\ \A m \in Fds : m # p => fds'[m] = fds[m]
      BY <1>2, <1>6 DEF Open, Names, Typed
    <2>4. Typed'
      BY <1>1, <2>1, <2>3 DEF Typed
    <2>5. KeptNumbers'
      BY <1>2, <2>2, <2>3 DEF KeptNumbers, Number
    <2> QED
      BY <1>1, <1>2, <2>2, <2>4, <2>5
      DEF GuestIsShort, Listeners, Connections, WorkersRead, ReceivedFromPeer
  <1>7. ASSUME NEW n \in Free(fds), NEW w \in {"data", "free"},
               test' = [test EXCEPT !.prot = n, !.st = "over"],
               fds' = Open(Open(fds, p, w), n, "dgram")
        PROVE  SocketsInvariant'
    <2>1. n \in Fds /\ fds[n] = "free"
      BY DEF Free
    <2>2. test' \in TestStruct
      BY <1>5, <1>7, <2>1 DEF Phases, Number
    <2>3. /\ test'.st = "over" /\ test'.prot = n
          /\ UNCHANGED <<test.listener, test.ctrl, test.streams>>
      BY <1>5, <1>7
    <2>4. /\ fds' \in [Fds -> Names] /\ fds'[n] = "dgram"
          /\ \A m \in Fds : m # p /\ m # n => fds'[m] = fds[m]
      BY <1>2, <1>7, <2>1 DEF Open, Names, Typed
    <2>5. Typed'
      BY <1>1, <2>2, <2>4 DEF Typed
    <2>6. KeptNumbers'
      <3>1. \A i \in DOMAIN test.streams :
              fds'[test.streams[i]] \in {"data", "free"}
        BY <1>2, <2>1, <2>4
      <3>2. /\ fds'[test.listener] = "listen"
            /\ test.ctrl # NoFd => fds'[test.ctrl] = "ctrl"
        BY <1>2, <2>1, <2>4 DEF Number
      <3> QED
        BY <2>3, <2>4, <3>1, <3>2 DEF KeptNumbers
    <2> QED
      BY <1>1, <1>2, <2>3, <2>5, <2>6
      DEF GuestIsShort, Listeners, Connections, WorkersRead, ReceivedFromPeer
  <1>8. ASSUME NEW n \in Free(fds),
               test' = [test EXCEPT !.prot = n, !.streams = Append(@, p)],
               fds' = Open(Open(fds, p, "data"), n, "dgram")
        PROVE  SocketsInvariant'
    <2>1. n \in Fds /\ fds[n] = "free" /\ n # NoFd
      BY DEF Free
    <2>2. /\ Append(test.streams, p) \in Seq(Fds)
          /\ DOMAIN Append(test.streams, p) = DOMAIN test.streams \cup
                                               {Len(test.streams) + 1}
          /\ Append(test.streams, p)[Len(test.streams) + 1] = p
          /\ \A i \in DOMAIN test.streams :
               Append(test.streams, p)[i] = test.streams[i]
      BY <1>2, AppendedNumber
    <2>3. test' = [test EXCEPT !.prot = n,
                               !.streams = Append(test.streams, p)]
      BY <1>8
    <2>4. test' \in TestStruct
      <3> HIDE DEF SocketsInvariant
      <3> QED
        BY <1>5, <2>1, <2>2, <2>3 DEF Number
    <2>5. /\ test'.prot = n /\ test'.streams = Append(test.streams, p)
          /\ UNCHANGED <<test.st, test.proto, test.listener, test.ctrl>>
      BY <1>5, <2>3
    <2>6. /\ fds' \in [Fds -> Names] /\ fds'[n] = "dgram" /\ fds'[p] = "data"
          /\ \A m \in Fds : m # p /\ m # n => fds'[m] = fds[m]
      BY <1>2, <1>8, <2>1 DEF Open, Names, Typed
    <2>7. Typed'
      BY <1>1, <2>4, <2>6 DEF Typed
    <2>8. \A i \in DOMAIN test'.streams : fds'[test'.streams[i]] = "data"
      BY <1>2, <2>1, <2>2, <2>5, <2>6
    <2>9. \A i, j \in DOMAIN test'.streams :
            test'.streams[i] = test'.streams[j] => i = j
      BY <1>1, <1>2, <2>2, <2>5 DEF Connections
    <2>10. KeptNumbers'
      BY <1>2, <2>1, <2>5, <2>6, <2>8 DEF KeptNumbers, Number
    <2>11. Listeners' /\ Connections'
      BY <1>1, <1>2, <2>1, <2>5, <2>6, <2>8, <2>9 DEF Listeners, Connections
    <2> QED
      BY <1>1, <1>2, <2>5, <2>7, <2>10, <2>11
      DEF GuestIsShort, WorkersRead, ReceivedFromPeer
  <1> QED
    BY <1>3, <1>4, <1>6, <1>7, <1>8

\* The test starts: the listening sockets are replaced or closed.
LEMMA StartTestKeeps ==
  ASSUME SocketsInvariant, StartTest
  PROVE  SocketsInvariant'
  <1> USE SocketsAssumption DEF SocketsInvariant
  <1> DEFINE l == test.listener
  <1>1. /\ test.st = "create" /\ Len(test.streams) = NumStreams
        /\ UNCHANGED <<guest, mixed>>
        /\ worker' = [i \in Ids |-> IF test'.st = "running" THEN "loop"
                                    ELSE "none"]
    BY DEF StartTest
  <1>2. /\ l \in Fds /\ fds[l] = "listen" /\ guest = NoFd
        /\ test.prot \in Fds
        /\ IF test.proto = "udp" THEN fds[test.prot] = "dgram"
           ELSE test.prot = l
        /\ test.streams \in Seq(Fds)
        /\ test.ctrl \in Number
        /\ test.ctrl # NoFd => fds[test.ctrl] = "ctrl"
        /\ \A i \in DOMAIN test.streams :
             test.streams[i] \in Fds /\ fds[test.streams[i]] = "data"
    BY <1>1 DEF Typed, Number, GuestIsShort, KeptNumbers, Listeners, Connections
  <1>3. \/ \E n \in Fds :
             /\ n = l \/ fds[n] = "free"
             /\ fds' = Open(Close(fds, {l}), n, "listen")
             /\ test' = [test EXCEPT !.listener = n, !.prot = NoFd,
                                     !.st = "running"]
        \/ /\ test.proto = "tcp" /\ fds' = Close(fds, {l})
           /\ test' = [test EXCEPT !.listener = NoFd, !.st = "over"]
        \/ \E st \in {"running", "over"} :
             /\ fds' = fds \/ fds' = Close(fds, {test.prot})
             /\ test' = [test EXCEPT !.prot = NoFd, !.st = st]
    <2>1. CASE Reopens
      <3>1. PICK ok \in BOOLEAN, n \in Free(Close(fds, {l})) :
              /\ fds' = IF ok THEN Open(Close(fds, {l}), n, "listen")
                        ELSE Close(fds, {l})
              /\ test' = [test EXCEPT !.listener = IF ok THEN n ELSE NoFd,
                                      !.prot = IF ok THEN NoFd ELSE @,
                                      !.st = IF ok THEN "running" ELSE "over"]
        BY <2>1 DEF StartTest
      <3>2. n \in Fds /\ (n = l \/ fds[n] = "free")
        BY <1>2 DEF Free, Close
      <3>3. CASE ok
        BY <3>1, <3>2, <3>3
      <3>4. CASE ~ok
        <4>1. test' = [test EXCEPT !.listener = NoFd, !.st = "over"]
          BY <3>1, <3>4 DEF Typed
        <4> QED
          BY <2>1, <3>1, <3>4, <4>1 DEF Reopens
      <3> QED
        BY <3>1, <3>3, <3>4
    <2>2. CASE ~Reopens
      BY <2>2 DEF StartTest
    <2> QED
      BY <2>1, <2>2
  <1> HIDE DEF l
  <1>4. test \in TestStruct
    BY DEF Typed
  <1>5. ASSUME NEW n \in Fds, n = l \/ fds[n] = "free",
               fds' = Open(Close(fds, {l}), n, "listen"),
               test' = [test EXCEPT !.listener = n, !.prot = NoFd,
                                    !.st = "running"]
        PROVE  SocketsInvariant'
    <2>1. test' \in TestStruct
      BY <1>4, <1>5 DEF Phases, Number
    <2>2. /\ test'.st = "running" /\ test'.listener = n /\ test'.prot = NoFd
          /\ UNCHANGED <<test.ctrl, test.streams>>
      BY <1>4, <1>5
    <2>3. /\ fds' \in [Fds -> Names] /\ fds'[n] = "listen"
          /\ \A m \in Fds : m # l /\ m # n => fds'[m] = fds[m]
      BY <1>2, <1>5 DEF Open, Close, Names, Typed
    <2>4. Typed'
      BY <1>1, <1>2, <2>1, <2>3 DEF Typed
    <2>5. \A i \in DOMAIN test.streams : fds'[test.streams[i]] = "data"
      BY <1>2, <1>5, <2>3
    <2>6. test.ctrl # NoFd => fds'[test.ctrl] = "ctrl"
      BY <1>2, <1>5, <2>3 DEF Number
    <2>7. KeptNumbers' /\ Connections'
      BY <1>1, <2>2, <2>3, <2>5, <2>6 DEF KeptNumbers, Connections
    <2> QED
      BY <1>1, <1>2, <2>2, <2>4, <2>7
      DEF GuestIsShort, Listeners, WorkersRead, ReceivedFromPeer
  <1>6. CASE /\ test.proto = "tcp" /\ fds' = Close(fds, {l})
             /\ test' = [test EXCEPT !.listener = NoFd, !.st = "over"]
    <2>1. test' \in TestStruct
      BY <1>4, <1>6 DEF Phases, Number
    <2>2. /\ test'.st = "over" /\ test'.listener = NoFd /\ test'.prot = l
          /\ UNCHANGED <<test.ctrl, test.streams>>
      BY <1>2, <1>4, <1>6
    <2>3. /\ fds' \in [Fds -> Names] /\ fds'[l] = "free"
          /\ \A m \in Fds : m # l => fds'[m] = fds[m]
      BY <1>2, <1>6 DEF Close, Names, Typed
    <2> QED
      BY <1>1, <1>2, <2>1, <2>2, <2>3
      DEF Typed, GuestIsShort, KeptNumbers, Listeners, Connections,
          WorkersRead, ReceivedFromPeer, Number
  <1>7. ASSUME NEW st \in {"running", "over"},
               fds' = fds \/ fds' = Close(fds, {test.prot}),
               test' = [test EXCEPT !.prot = NoFd, !.st = st]
        PROVE  SocketsInvariant'
    <2>1. test' \in TestStruct
      BY <1>4, <1>7 DEF Phases, Number
    <2>2. /\ test'.st = st /\ test'.prot = NoFd
          /\ UNCHANGED <<test.ctrl, test.streams, test.listener>>
      BY <1>4, <1>7
    <2>3. /\ fds' \in [Fds -> Names] /\ fds'[l] \in {"listen", "free"}
          /\ \A m \in Fds : m # test.prot => fds'[m] = fds[m]
      BY <1>2, <1>7 DEF Close, Names, Typed
    <2> QED
      BY <1>1, <1>2, <2>1, <2>2, <2>3
      DEF Typed, GuestIsShort, KeptNumbers, Listeners, Connections,
          WorkersRead, ReceivedFromPeer, Number, l
  <1> QED
    BY <1>3, <1>5, <1>6, <1>7

\* The invariant is kept by every step.
LEMMA NextKeeps ==
  ASSUME SocketsInvariant, [Next]_vars
  PROVE  SocketsInvariant'
  <1>1. CASE UNCHANGED vars
    BY <1>1
    DEF vars, SocketsInvariant, Typed, GuestIsShort, KeptNumbers, Listeners,
        Connections, WorkersRead, ReceivedFromPeer
  <1> QED
    BY <1>1, StartServerKeeps, AcceptClientKeeps, AcceptFailsKeeps,
       AcceptStreamKeeps, DenyKeeps, UdpAcceptKeeps, StartTestKeeps,
       OverKeeps, ClosingKeeps, GuestKeeps, CleanupKeeps, ClientKeeps,
       WorkersKeep
    DEF Next

----------------------------------------------------------------------------
(* The theorems                                                            *)
\* For every number of streams, whatever tests are asked for and whatever
\* fails: the invariant that the two theorems below rest on.
THEOREM SocketsInvariance == Spec => []SocketsInvariant
  BY Initially, NextKeeps, PTL DEF Spec

\* A stream has a number of its own: the numbers are as many as the streams.
LEMMA OwnNumbers ==
  ASSUME SocketsInvariant, test.st \in {"create", "running"}
  PROVE  Cardinality(Holds) = Len(test.streams)
  <1> DEFINE s == test.streams
  <1>1. s \in Seq(Fds) /\ \A i, j \in DOMAIN s : s[i] = s[j] => i = j
    BY DEF SocketsInvariant, Typed, Connections
  <1>2. /\ DOMAIN s = 1 .. Len(s) /\ Len(s) \in Nat
        /\ s \in [1 .. Len(s) -> Holds]
    BY <1>1 DEF Holds
  <1>3. s \in Bijection(1 .. Len(s), Holds)
    BY <1>1, <1>2 DEF Holds, Bijection, Injection, Surjection, IsInjective
  <1>4. IsFiniteSet(1 .. Len(s)) /\ Cardinality(1 .. Len(s)) = Len(s)
    BY <1>2, FS_Interval
  <1> QED
    BY <1>3, <1>4, FS_Bijection DEF ExistsBijection

\* OwnDescriptors: every number that the server keeps in struct iperf_test and
\* in its streams names what it was opened for, or nothing, so that the end of
\* a test closes no other socket; while streams are created the listener is
\* open, and until TEST_END each stream has a connection of its own.
THEOREM NumbersAreOwn == Spec => []OwnDescriptors
  <1>1. SocketsInvariant => OwnDescriptors
    <2> SUFFICES ASSUME SocketsInvariant PROVE OwnDescriptors
      OBVIOUS
    <2>1. test.st \in {"create", "running"} =>
            Cardinality(Holds) = Len(test.streams)
      BY OwnNumbers
    <2>2. \A n \in Holds : Main => fds[n] \in {"data", "free"}
      BY SocketsAssumption
      DEF SocketsInvariant, KeptNumbers, Holds, Main, Typed
    <2>3. test.st \in {"create", "running"} =>
            \A n \in Holds : fds[n] = "data"
      BY DEF SocketsInvariant, Connections, Holds
    <2>4. Creating => /\ test.prot # NoFd /\ fds[test.prot] # "free"
                      /\ test.proto # "udp" => fds[test.listener] = "listen"
      BY DEF SocketsInvariant, Listeners, Creating
    <2> QED
      BY <2>1, <2>2, <2>3, <2>4
      DEF OwnDescriptors, SocketsInvariant, KeptNumbers
  <1> QED
    BY <1>1, SocketsInvariance, PTL

\* ReceivedFromPeer: no byte counted for a stream has come from another
\* connection, although a worker may read from a number that TEST_END has
\* closed and that a guest has been given since; bytes are counted in
\* TEST_RUNNING only, and then the number is still the stream's.
THEOREM BytesAreOwn == Spec => []ReceivedFromPeer
  BY SocketsInvariance, PTL DEF SocketsInvariant

=============================================================================
