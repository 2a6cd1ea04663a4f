------------------------------ MODULE Control ------------------------------
(***************************************************************************)
(* The control protocol of iperf3: the server's test loop, any number of   *)
(* clients, and the TCP control connection of each.                        *)
(*                                                                         *)
(* The server (iperf_run_server inside the for(;;) of run) serves one      *)
(* client at a time.  Both sides keep test->state, write it to the control *)
(* socket as one byte, and follow some bytes with a JSON message or with   *)
(* an error code.  A handler runs from one return of select() to the next  *)
(* blocking call, so an action is the part of a handler between two        *)
(* blocking calls; the pc variables name the blocking call.                *)
(*                                                                         *)
(* The data streams are TCP: they are accepted on the listening socket the *)
(* control connections use, so one backlog holds both.                     *)
(***************************************************************************)
EXTENDS Naturals, Sequences, FiniteSets

CONSTANTS
  Clients,       \* the client processes, each of which runs one test
  None,          \* "no socket": the value -1 of ctrl_sck
  NumStreams,    \* test->num_streams (-P)
  Mode,          \* test->mode of each client
  Refused,       \* clients whose parameters exceed the server's limits
  Tos,           \* clients whose test sets a type of service (-S, --dscp)
  Reopens,       \* clients whose test recreates the listener (-N, -M, -w)
  Limited,       \* the server has a bitrate limit that a test may exceed
  HasIdleTimeout,\* the server has --idle-timeout
  HasTestTimer,  \* the tests have a duration, so that the server arms a timer
  OneOff,        \* the server has --one-off
  SlowPeers,     \* timeouts may also expire while the peer is alive
  Interrupts,    \* clients that may be interrupted by a signal
  ServerSignal,  \* the server may be interrupted by a signal
  Vanish,        \* clients whose host may disappear without closing anything
  Faults         \* failures of system calls: the kinds in AllFaults

(* "listen", "reopen": of netannounce, at the start and in a test;         *)
(* "sockopt": of the options that a stream's socket gets; "start": of what *)
(* the start of a test allocates; "stream": of a worker's send or receive; *)
(* "select" and "reset": of select(), and of a read after a reset.         *)
AllFaults == {"reset", "reopen", "listen", "sockopt", "start", "stream",
              "select"}

ASSUME ConstantsAssumption ==
  /\ None \notin Clients
  /\ None \notin [c : Clients, i : Nat]
  /\ NumStreams \in Nat \ {0}
  /\ Mode \in [Clients -> {"SENDER", "RECEIVER", "BIDIRECTIONAL"}]
  /\ Refused \subseteq Clients
  /\ Tos \subseteq Clients
  /\ Reopens \subseteq Clients
  /\ Interrupts \subseteq Clients
  /\ Vanish \subseteq Clients
  /\ Limited \in BOOLEAN
  /\ HasIdleTimeout \in BOOLEAN
  /\ HasTestTimer \in BOOLEAN
  /\ OneOff \in BOOLEAN
  /\ SlowPeers \in BOOLEAN
  /\ ServerSignal \in BOOLEAN
  /\ Faults \subseteq AllFaults

----------------------------------------------------------------------------
(* The values of test->state, those a side can have or put on the wire.    *)
States == {"NONE", "IPERF_START", "PARAM_EXCHANGE", "CREATE_STREAMS",
           "TEST_START", "TEST_RUNNING", "TEST_END", "EXCHANGE_RESULTS",
           "DISPLAY_RESULTS", "IPERF_DONE", "SERVER_TERMINATE",
           "CLIENT_TERMINATE", "ACCESS_DENIED", "SERVER_ERROR"}

(* The states with a positive code: all but 0, ACCESS_DENIED (-1) and      *)
(* SERVER_ERROR (-2).                                                      *)
Positive == States \ {"NONE", "ACCESS_DENIED", "SERVER_ERROR"}

(* The values of i_errno that the modelled paths set.                      *)
Errors == {"IENONE", "IECONNECT", "IECTRLCLOSE", "IERECVMESSAGE",
           "IESENDMESSAGE", "IERECVCOOKIE", "IERECVPARAMS", "IERECVRESULTS",
           "IENOMSG", "IETOTALRATE", "IECLIENTTERM", "IESERVERTERM",
           "IEACCESSDENIED", "IESERVERTESTDURATIONEXPIRED", "IESELECT",
           "IELISTEN", "IESTREAMLISTEN", "IESTREAMCONNECT", "IESETTOS",
           "IESETUSERTIMEOUT", "IESETCONGESTION", "IECREATESTREAM",
           "IEINITTEST", "IEPTHREADCREATE", "IESTREAMREAD", "IESTREAMWRITE",
           "IECTRLWRITE"}

(* What is written on a control connection: a state byte, a JSON message,  *)
(* or a SERVER_ERROR byte followed by i_errno and errno.  The owner of an  *)
(* error is the client in whose test i_errno was set (not on the wire).    *)
Tokens == [k : {"state", "json", "error"},
           v : States \cup Errors \cup {"PARAMS", "RESULTS"},
           o : Clients \cup {None}]

Byte(s)     == [k |-> "state", v |-> s, o |-> None]
Json(m)     == [k |-> "json",  v |-> m, o |-> None]
Err(e, c)   == [k |-> "error", v |-> e, o |-> c]

(* A connection of client c: 0 is its control connection, i its i-th       *)
(* stream.  A bidirectional test has num_streams streams each way.         *)
Expected(c) == IF Mode[c] = "BIDIRECTIONAL" THEN 2 * NumStreams ELSE NumStreams
Conns       == [c : Clients, i : Nat]

(* The server receives in the test of c unless the client only receives.   *)
ServerReceivesBothWays(c) == Mode[c] = "BIDIRECTIONAL"
ServerReceives(c) == Mode[c] # "RECEIVER"

VARIABLES
  spc,        \* where the server is: "down", "loop", "params", "results",
              \* "badfd", "sync" or "exited"
  sstate,     \* the server's test->state
  sctrl,      \* the connection in ctrl_sck, or None
  sstreams,   \* the accepted streams, in the order of test->streams
  sdone,      \* the server's test->done
  stimer,     \* test->timer # NULL in the server
  i_errno,    \* the server process's i_errno, never set back to IENONE
  errOwner,   \* the client in whose test i_errno was last set
  listener,   \* the listening socket is open
  backlog,    \* connections waiting in the listening socket
  toS,        \* toS[c]: what client c wrote and the server has not read
  toC,        \* toC[c]: what the server wrote and client c has not read
  sEnd,       \* the server's end of each control connection
  cEnd,       \* the client's end of each control connection
  cpc,        \* where each client is: "init", "loop", "streams", "results",
              \* "sync", "exited" or "vanished"
  cstate,     \* each client's test->state
  cstreams,   \* the number of streams each client has connected
  cerr,       \* each client's i_errno
  cblame,     \* the owner of the error in cerr when the server sent it
  exchanged   \* clients to which the server has sent results

serverVars == <<spc, sstate, sctrl, sstreams, sdone, stimer, i_errno, errOwner,
                listener, backlog, sEnd, exchanged>>
clientVars == <<cEnd, cpc, cstate, cstreams, cerr, cblame>>
vars == <<serverVars, clientVars, toS, toC>>

TypeOK ==
  /\ spc \in {"down", "loop", "params", "results", "badfd", "sync", "exited"}
  /\ sstate \in States
  /\ sctrl \in Conns \cup {None}
  /\ sstreams \in Seq(Conns)
  /\ sdone \in BOOLEAN
  /\ stimer \in BOOLEAN
  /\ i_errno \in Errors
  /\ errOwner \in Clients \cup {None}
  /\ listener \in BOOLEAN
  /\ backlog \in Seq(Conns)
  /\ toS \in [Clients -> Seq(Tokens)]
  /\ toC \in [Clients -> Seq(Tokens)]
  /\ sEnd \in [Clients -> {"none", "queued", "open", "shut", "closed"}]
  /\ cEnd \in [Clients -> {"none", "open", "shut", "closed"}]
  /\ cpc \in [Clients -> {"init", "loop", "streams", "results", "sync",
                          "exited", "vanished"}]
  /\ cstate \in [Clients -> States]
  /\ cstreams \in [Clients -> Nat]
  /\ cerr \in [Clients -> Errors]
  /\ cblame \in [Clients -> Clients \cup {None}]
  /\ exchanged \subseteq Clients

Init ==
  /\ spc = "down"
  /\ sstate = "NONE"
  /\ sctrl = None
  /\ sstreams = <<>>
  /\ sdone = FALSE
  /\ stimer = FALSE
  /\ i_errno = "IENONE"
  /\ errOwner = None
  /\ listener = FALSE
  /\ backlog = <<>>
  /\ toS = [c \in Clients |-> <<>>]
  /\ toC = [c \in Clients |-> <<>>]
  /\ sEnd = [c \in Clients |-> "none"]
  /\ cEnd = [c \in Clients |-> "none"]
  /\ cpc = [c \in Clients |-> "init"]
  /\ cstate = [c \in Clients |-> "NONE"]
  /\ cstreams = [c \in Clients |-> 0]
  /\ cerr = [c \in Clients |-> "IENONE"]
  /\ cblame = [c \in Clients |-> None]
  /\ exchanged = {}


----------------------------------------------------------------------------
(* Sockets.                                                                *)

(* The client closed its end, so that a write to it may fail or be lost.   *)
Gone(c) == cEnd[c] = "closed"
WriteMayFail(k) == Gone(k.c)

(* A timeout of select() or of Nread() may expire.                         *)
Late(c) == SlowPeers \/ cpc[c] = "vanished"

(* The queues ch to the clients after the server writes on connection k.   *)
(* What it writes on a stream, or to a client that is gone, nobody reads.  *)
SWrite(ch, k, toks) ==
  IF k.i = 0 /\ ~Gone(k.c) THEN [ch EXCEPT ![k.c] = @ \o toks] ELSE ch

(* The server's ends when the listening socket is closed and everything    *)
(* that waits in it is reset, and the server's end of k becomes e.         *)
ResetQueued(ends)  == [c \in Clients |->
                         IF ends[c] = "queued" THEN "closed" ELSE ends[c]]
SetEnd(ends, k, e) == IF k.i = 0 THEN [ends EXCEPT ![k.c] = e] ELSE ends

(* At the end of the input of client c's control connection.               *)
AtEOF(c) == toS[c] = <<>> /\ cEnd[c] \in {"shut", "closed"}

(* What the server reads next on its control connection.                   *)
NextIs(tok) == sctrl.i = 0 /\ toS[sctrl.c] # <<>> /\ Head(toS[sctrl.c]) = tok
Consume     == toS' = [toS EXCEPT ![sctrl.c] = Tail(@)]

----------------------------------------------------------------------------
(* The server.                                                             *)

(* Shutdown without the reset of ctrl_sck, and without that of the streams. *)
ShutdownKeepsSocket(ends) ==
  /\ spc' = IF OneOff THEN "exited" ELSE "down"
  /\ sctrl' = sctrl
  /\ sstate' = "NONE"
  /\ sstreams' = <<>>
  /\ sdone' = FALSE
  /\ stimer' = FALSE
  /\ listener' = FALSE
  /\ backlog' = <<>>
  /\ sEnd' = ResetQueued(ends)

ShutdownKeepsStreams(ends) ==
  /\ spc' = IF OneOff THEN "exited" ELSE "down"
  /\ sctrl' = None
  /\ sstate' = "NONE"
  /\ sstreams' = sstreams
  /\ sdone' = FALSE
  /\ stimer' = FALSE
  /\ listener' = FALSE
  /\ backlog' = <<>>
  /\ sEnd' = ResetQueued(ends)

(* The rest of cleanup_server once the control socket is closed, the       *)
(* return of iperf_run_server, and iperf_reset_test in run.                *)
Shutdown(ends) ==
  /\ spc' = IF OneOff THEN "exited" ELSE "down"
  /\ sctrl' = None
  /\ sstate' = "NONE"
  /\ sstreams' = <<>>
  /\ sdone' = FALSE
  /\ stimer' = FALSE
  /\ listener' = FALSE
  /\ backlog' = <<>>
  /\ sEnd' = ResetQueued(ends)

(* cleanup_server sends the error code that it finds in i_errno.           *)
TellNobody(ch, k, e, o) == ch
TellClient(ch, k, e, o) ==
  IF e = "IENONE" THEN ch ELSE SWrite(ch, k, <<Err(e, o)>>)

(* cleanup_server, up to the blocking iperf_sync_close_socket, with k in   *)
(* ctrl_sck and i_errno = e of owner o, when the handler has left the      *)
(* queues to the clients as ch.                                            *)
CleanupServer(k, ch, e, o) ==
  /\ spc' = "sync"
  /\ sctrl' = k
  /\ sstate' = IF e = "IENONE" THEN "IPERF_DONE" ELSE "SERVER_ERROR"
  /\ toC' = TellClient(ch, k, e, o)
  /\ UNCHANGED <<sstreams, stimer, listener>>

(* A worker whose send or receive fails sets i_errno, which is one for the *)
(* process, and ends.  The workers run from the last stream on until       *)
(* cleanup_server has joined them, so each use of i_errno may find theirs. *)
(* (pthread_sigmask, whose failure they report too, has valid arguments.)  *)
StreamErrors(c) ==
  {e \in {"IESTREAMREAD", "IESTREAMWRITE"} :
     /\ "stream" \in Faults
     /\ e = "IESTREAMREAD" => ServerReceives(c)
     /\ e = "IESTREAMWRITE" => Mode[c] # "SENDER"}

Workers == sctrl # None /\ Len(sstreams) = Expected(sctrl.c)
Overwritten(e) == {e} \cup IF Workers THEN StreamErrors(sctrl.c) ELSE {}

StreamFails ==
  /\ spc \in {"loop", "results", "sync"} /\ Workers
  /\ i_errno' \in StreamErrors(sctrl.c)
  /\ errOwner' = sctrl.c
  /\ UNCHANGED <<spc, sstate, sctrl, sstreams, sdone, stimer, listener,
                 backlog, sEnd, exchanged, clientVars, toS, toC>>

(* A handler on connection k fails with e: i_errno is set, then cleanup.   *)
FailSetsLater(k, e) ==
  /\ CleanupServer(k, toC, i_errno, errOwner)
  /\ i_errno' = e
  /\ errOwner' = k.c
  /\ sEnd' = SetEnd(sEnd, k, "shut")
  /\ UNCHANGED <<sdone, exchanged>>

FailWith(k, e) ==
  /\ i_errno' = e
  /\ errOwner' = k.c
  /\ CleanupServer(k, toC, e, k.c)
  /\ sEnd' = SetEnd(sEnd, k, "shut")
  /\ UNCHANGED <<sdone, exchanged>>

Fail(k, e) == \E x \in Overwritten(e) : FailWith(k, x)

(* cleanup_server runs with the i_errno of earlier, then i_errno is e.     *)
FailLate(e) ==
  /\ spc' = "sync"
  /\ sctrl' = sctrl
  /\ sstate' = IF i_errno = "IENONE" THEN sstate ELSE "SERVER_ERROR"
  /\ toC' = TellClient(toC, sctrl, i_errno, errOwner)
  /\ sEnd' = SetEnd(sEnd, sctrl, "shut")
  /\ i_errno' = e
  /\ errOwner' = sctrl.c
  /\ UNCHANGED <<sstreams, sdone, stimer, listener, exchanged>>

(* iperf_sync_close_socket: the write side is shut; read and discard until *)
(* the client's end of file or ten seconds of silence, then close.         *)
SyncClose ==
  /\ spc = "sync"
  /\ AtEOF(sctrl.c) \/ sctrl.i # 0 \/ toS[sctrl.c] # <<>> \/ Late(sctrl.c)
  /\ IF sctrl.i = 0 /\ toS[sctrl.c] # <<>>
     THEN /\ Consume
          /\ UNCHANGED <<spc, sctrl, sstate, sstreams, sdone, stimer,
                         listener, backlog, sEnd>>
     ELSE /\ Shutdown(SetEnd(sEnd, sctrl, "closed"))
          /\ UNCHANGED toS
  /\ UNCHANGED <<i_errno, errOwner, toC, exchanged, clientVars>>

(* iperf_server_listen and the start of the loop of iperf_run_server.      *)
Listen ==
  /\ spc = "down"
  /\ spc' = "loop"
  /\ listener' = TRUE
  /\ sstate' = "IPERF_START"
  /\ UNCHANGED <<sctrl, sstreams, sdone, stimer, i_errno, errOwner, backlog,
                 sEnd, exchanged, clientVars, toS, toC>>

(* netannounce fails: rc is -2 and the process exits.                      *)
ListenFails ==
  /\ spc = "down"
  /\ "listen" \in Faults
  /\ spc' = "exited"
  /\ i_errno' = "IELISTEN"
  /\ errOwner' = None
  /\ UNCHANGED <<sstate, sctrl, sstreams, sdone, stimer, listener, backlog,
                 sEnd, exchanged, clientVars, toS, toC>>

(* The queues to the clients when connection k is refused: ACCESS_DENIED   *)
(* is written and the socket closed.  If its cookie is unread the close is *)
(* a reset, which may overtake the byte.                                   *)
Denied(k, lost) ==
  IF lost THEN toC ELSE SWrite(toC, k, <<Byte("ACCESS_DENIED")>>)

(* iperf_accept when no test is running, up to the blocking JSON_read of   *)
(* get_parameters.  Any connection in the backlog is taken for a client's  *)
(* control connection.                                                     *)
AcceptClient ==
  /\ spc = "loop" /\ sstate = "IPERF_START" /\ backlog # <<>>
  /\ backlog' = Tail(backlog)
  /\ LET k == Head(backlog) IN
     \/ /\ spc' = "params"
        /\ sctrl' = k
        /\ sstate' = "PARAM_EXCHANGE"
        /\ toC' = SWrite(toC, k, <<Byte("PARAM_EXCHANGE")>>)
        /\ sEnd' = SetEnd(sEnd, k, "open")
        /\ UNCHANGED <<sstreams, sdone, stimer, i_errno, errOwner, listener,
                       exchanged>>
     \/ /\ WriteMayFail(k)
        /\ Fail(k, "IESENDMESSAGE")
     \/ /\ "reset" \in Faults /\ Gone(k.c)
        /\ Fail(k, "IERECVCOOKIE")
  /\ UNCHANGED <<toS, clientVars>>

(* iperf_accept without its test of ctrl_sck, and without its close.       *)
AcceptTakesOver ==
  /\ spc = "loop" /\ sstate \notin {"IPERF_START", "CREATE_STREAMS"}
  /\ backlog # <<>>
  /\ spc' = "params"
  /\ sctrl' = Head(backlog)
  /\ sstate' = "PARAM_EXCHANGE"
  /\ toC' = SWrite(toC, Head(backlog), <<Byte("PARAM_EXCHANGE")>>)
  /\ sEnd' = SetEnd(sEnd, Head(backlog), "open")
  /\ backlog' = Tail(backlog)
  /\ UNCHANGED <<sstreams, sdone, stimer, i_errno, errOwner, listener,
                 exchanged, toS, clientVars>>

AcceptForgets ==
  /\ spc = "loop" /\ sstate \notin {"IPERF_START", "CREATE_STREAMS"}
  /\ backlog # <<>>
  /\ sEnd' = SetEnd(sEnd, Head(backlog), "open")
  /\ backlog' = Tail(backlog)
  /\ UNCHANGED <<spc, sstate, sctrl, sstreams, sdone, stimer, i_errno,
                 errOwner, listener, exchanged, toS, toC, clientVars>>

(* iperf_accept while a test is running, except in CREATE_STREAMS.         *)
AcceptBusy ==
  /\ spc = "loop" /\ sstate \notin {"IPERF_START", "CREATE_STREAMS"}
  /\ backlog # <<>>
  /\ \E lost \in BOOLEAN : toC' = Denied(Head(backlog), lost)
  /\ sEnd' = SetEnd(sEnd, Head(backlog), "closed")
  /\ backlog' = Tail(backlog)
  /\ UNCHANGED <<spc, sstate, sctrl, sstreams, sdone, stimer, i_errno,
                 errOwner, listener, exchanged, toS, clientVars>>

(* The listening socket is closed and opened again if the test asks for    *)
(* socket options; whoever waited in it is reset.                          *)
Reopen(rest) ==
  IF sctrl.c \in Reopens
  THEN backlog' = <<>> /\ sEnd' = ResetQueued(sEnd)
  ELSE backlog' = rest /\ sEnd' = sEnd

(* The listener cannot be recreated: cleanup_server tells the client the   *)
(* error sent, of owner o, and i_errno is e in the end.                    *)
LosesListener(sent, o, e) ==
  /\ "reopen" \in Faults /\ sctrl.c \in Reopens
  /\ spc' = "sync"
  /\ sctrl' = sctrl
  /\ sstate' = IF sent = "IENONE" THEN sstate ELSE "SERVER_ERROR"
  /\ toC' = TellClient(toC, sctrl, sent, o)
  /\ sEnd' = SetEnd(ResetQueued(sEnd), sctrl, "shut")
  /\ listener' = FALSE
  /\ backlog' = <<>>
  /\ i_errno' = e
  /\ errOwner' = sctrl.c
  /\ UNCHANGED <<sstreams, sdone, stimer, exchanged>>

(* get_parameters, iperf_tcp_listen and the rest of                        *)
(* iperf_exchange_parameters.                                              *)
ReadParams ==
  /\ spc = "params" /\ NextIs(Json("PARAMS"))
  /\ Consume
  /\ \/ /\ sctrl.c \in Refused
        /\ Fail(sctrl, "IETOTALRATE")
        /\ UNCHANGED backlog
     \/ /\ sctrl.c \notin Refused
        /\ LosesListener("IESTREAMLISTEN", sctrl.c, "IESTREAMLISTEN")
     \/ /\ sctrl.c \notin Refused
        /\ WriteMayFail(sctrl)
        /\ Fail(sctrl, "IESENDMESSAGE")
        /\ UNCHANGED backlog
     \/ /\ sctrl.c \notin Refused
        /\ spc' = "loop"
        /\ sstate' = "CREATE_STREAMS"
        /\ toC' = SWrite(toC, sctrl, <<Byte("CREATE_STREAMS")>>)
        /\ Reopen(backlog)
        /\ UNCHANGED <<sctrl, sstreams, sdone, stimer, i_errno, errOwner,
                       listener, exchanged>>
  /\ UNCHANGED clientVars

(* JSON_read meets the end of the input, ten seconds of silence, or bytes  *)
(* that are not a JSON message.                                            *)
NoJson ==
  \/ sctrl.i # 0
  \/ AtEOF(sctrl.c)
  \/ toS[sctrl.c] = <<>> /\ Late(sctrl.c)
  \/ toS[sctrl.c] # <<>> /\ Head(toS[sctrl.c]).k # "json"

ReadParamsFails ==
  /\ spc = "params" /\ NoJson
  /\ Fail(sctrl, "IERECVPARAMS")
  /\ UNCHANGED <<backlog, toS, clientVars>>

(* The start of the test fails with e when the messages toks are written,  *)
(* the listener has been recreated.                                        *)
StartFails(toks, e) ==
  LET again == sctrl.c \in Reopens IN
  /\ CleanupServer(sctrl, SWrite(toC, sctrl, toks), e, sctrl.c)
  /\ backlog' = IF again THEN <<>> ELSE Tail(backlog)
  /\ sEnd' = SetEnd(IF again THEN ResetQueued(sEnd) ELSE sEnd, sctrl, "shut")
  /\ i_errno' = e
  /\ errOwner' = sctrl.c
  /\ UNCHANGED <<sdone, exchanged>>

(* The last stream is accepted: the listener is recreated if it must be,   *)
(* then TEST_START, the timers, TEST_RUNNING and the threads, the first of *)
(* which may run already when another cannot be created.  If the listener  *)
(* cannot be recreated, cleanup_server runs with the i_errno of earlier    *)
(* and i_errno is set after it.  The total rate, which get_parameters has  *)
(* found below the limit, is computed again to the same value, and the     *)
(* functions on thread attributes cannot fail.                             *)
StartTest ==
  \/ /\ sstate' = "TEST_RUNNING"
     /\ stimer' = HasTestTimer
     /\ sstreams' = Append(sstreams, Head(backlog))
     /\ toC' = SWrite(toC, sctrl, <<Byte("TEST_START"), Byte("TEST_RUNNING")>>)
     /\ Reopen(Tail(backlog))
     /\ UNCHANGED <<spc, sctrl, sdone, i_errno, errOwner, listener, exchanged>>
  \/ WriteMayFail(sctrl) /\ StartFails(<<>>, "IESENDMESSAGE")
  \/ "start" \in Faults /\ StartFails(<<Byte("TEST_START")>>, "IEINITTEST")
  \/ /\ "start" \in Faults
     /\ \E e \in {"IEPTHREADCREATE"} \cup StreamErrors(sctrl.c) :
          StartFails(<<Byte("TEST_START"), Byte("TEST_RUNNING")>>, e)
  \/ LosesListener(i_errno, errOwner, "IELISTEN")

(* The cookie tells the client's streams from other connections.           *)
AnyCookie(k)  == TRUE
SameCookie(k) == k.c = sctrl.c

(* The stream that is accepted is the last one of the test.                *)
LastButOne == Len(sstreams) + 2 = Expected(sctrl.c)
OneTooMany == Len(sstreams) = Expected(sctrl.c)
LastStream == Len(sstreams) + 1 = Expected(sctrl.c)

(* iperf_tcp_accept and the rest of the CREATE_STREAMS branch of the loop. *)
(* After a refused connection, iperf_common_sockopts works on the closed   *)
(* socket.                                                                 *)
AcceptStream ==
  /\ spc = "loop" /\ sstate = "CREATE_STREAMS" /\ backlog # <<>>
  /\ LET k == Head(backlog) IN
     \/ /\ SameCookie(k) /\ ~LastStream
        /\ sstreams' = Append(sstreams, k)
        /\ backlog' = Tail(backlog)
        /\ UNCHANGED <<spc, sstate, sctrl, sdone, stimer, i_errno, errOwner,
                       listener, toC, sEnd, exchanged>>
     \/ /\ SameCookie(k) /\ LastStream
        /\ StartTest
     \/ /\ ~SameCookie(k) /\ sctrl.c \notin Tos
        /\ toC' = Denied(k, FALSE)
        /\ sEnd' = SetEnd(sEnd, k, "closed")
        /\ backlog' = Tail(backlog)
        /\ UNCHANGED <<spc, sstate, sctrl, sstreams, sdone, stimer, i_errno,
                       errOwner, listener, exchanged>>
     \/ /\ ~SameCookie(k) /\ sctrl.c \in Tos
        /\ CleanupServer(sctrl, Denied(k, FALSE), "IESETTOS", sctrl.c)
        /\ sEnd' = SetEnd(SetEnd(sEnd, k, "closed"), sctrl, "shut")
        /\ i_errno' = "IESETTOS"
        /\ errOwner' = sctrl.c
        /\ backlog' = Tail(backlog)
        /\ UNCHANGED <<sdone, exchanged>>
     \/ /\ "reset" \in Faults /\ Gone(k.c)
        /\ Fail(sctrl, "IERECVCOOKIE")
        /\ backlog' = Tail(backlog)
     \/ /\ "sockopt" \in Faults /\ SameCookie(k)
        /\ \E e \in {"IESETUSERTIMEOUT", "IESETCONGESTION"} : FailLate(e)
        /\ backlog' = Tail(backlog)
     \/ /\ "start" \in Faults /\ SameCookie(k)
        /\ Fail(sctrl, "IECREATESTREAM")
        /\ backlog' = Tail(backlog)
  /\ UNCHANGED <<toS, clientVars>>

(* iperf_handle_message_server, TEST_END, up to the JSON_read of           *)
(* get_results.                                                            *)
OnTestEnd ==
  /\ spc = "loop" /\ sctrl # None /\ NextIs(Byte("TEST_END"))
  /\ Consume
  /\ sdone' = TRUE
  /\ \/ /\ spc' = "results"
        /\ sstate' = "EXCHANGE_RESULTS"
        /\ toC' = SWrite(toC, sctrl, <<Byte("EXCHANGE_RESULTS")>>)
        /\ UNCHANGED <<sctrl, sstreams, stimer, listener, i_errno, errOwner,
                       sEnd>>
     \/ /\ WriteMayFail(sctrl)
        /\ \E e \in Overwritten("IESENDMESSAGE") :
             i_errno' = e /\ CleanupServer(sctrl, toC, e, sctrl.c)
        /\ sEnd' = SetEnd(sEnd, sctrl, "shut")
        /\ errOwner' = sctrl.c
  /\ UNCHANGED <<backlog, exchanged, clientVars>>

(* The rest of it: get_results, send_results, DISPLAY_RESULTS.             *)
ResultsAfterState == <<Byte("DISPLAY_RESULTS"), Json("RESULTS")>>
ResultsThenState  == <<Json("RESULTS"), Byte("DISPLAY_RESULTS")>>

ReadResults ==
  /\ spc = "results" /\ NextIs(Json("RESULTS"))
  /\ Consume
  /\ \/ /\ spc' = "loop"
        /\ sstate' = "DISPLAY_RESULTS"
        /\ toC' = SWrite(toC, sctrl, ResultsThenState)
        /\ exchanged' = exchanged \cup {sctrl.c}
        /\ UNCHANGED <<sctrl, sstreams, sdone, stimer, i_errno, errOwner,
                       listener, sEnd>>
     \/ /\ WriteMayFail(sctrl)
        /\ Fail(sctrl, "IESENDMESSAGE")
  /\ UNCHANGED <<backlog, clientVars>>

ReadResultsFails ==
  /\ spc = "results" /\ NoJson
  /\ Fail(sctrl, "IERECVRESULTS")
  /\ UNCHANGED <<backlog, toS, clientVars>>

(* iperf_handle_message_server, the messages that end the loop: the        *)
(* client's IPERF_DONE leaves i_errno as it was, CLIENT_TERMINATE and the  *)
(* end of the input set it.                                                *)
OnClientLeaves ==
  /\ spc = "loop" /\ sctrl # None
  /\ \/ /\ NextIs(Byte("IPERF_DONE"))
        /\ Consume
        /\ CleanupServer(sctrl, toC, i_errno, errOwner)
        /\ sEnd' = SetEnd(sEnd, sctrl, "shut")
        /\ UNCHANGED <<sdone, i_errno, errOwner, exchanged>>
     \/ /\ NextIs(Byte("CLIENT_TERMINATE"))
        /\ Consume
        /\ Fail(sctrl, "IECLIENTTERM")
     \/ /\ AtEOF(sctrl.c)
        /\ Fail(sctrl, "IECTRLCLOSE")
        /\ UNCHANGED toS
  /\ UNCHANGED <<backlog, clientVars>>

----------------------------------------------------------------------------
(* Timeouts, limits and signals at the server.                             *)

(* select() returns 0: nothing can be read on any socket.                  *)
Silent(c) == backlog = <<>> /\ toS[c] = <<>> /\ cEnd[c] = "open" /\ Late(c)

(* No data for rcv_timeout while the server receives.                      *)
NoDataTimeout ==
  /\ spc = "loop" /\ sctrl # None
  /\ ServerReceives(sctrl.c) /\ Silent(sctrl.c)
  /\ Fail(sctrl, "IENOMSG")
  /\ UNCHANGED <<backlog, toS, clientVars>>

(* No client for idle_timeout: iperf_run_server returns 2.                 *)
IdleTimeout ==
  /\ spc = "loop" /\ sstate = "IPERF_START" /\ HasIdleTimeout
  /\ backlog = <<>>
  /\ Shutdown(sEnd)
  /\ UNCHANGED <<i_errno, errOwner, exchanged, toS, toC, clientVars>>

(* server_timer_proc: the test has outlived its duration.  Nothing is done *)
(* if the test is over; otherwise the control socket is closed but its     *)
(* descriptor stays in the set that select() watches.                      *)
ServerTimer ==
  /\ spc = "loop" /\ stimer /\ Late(sctrl.c)
  /\ stimer' = FALSE
  /\ \/ /\ sdone
        /\ UNCHANGED <<spc, sstate, sctrl, sstreams, sdone, i_errno, errOwner,
                       toC, sEnd>>
     \/ /\ ~sdone
        /\ sdone' = TRUE
        /\ \/ /\ i_errno' \in Overwritten("IESERVERTESTDURATIONEXPIRED")
              /\ toC' = SWrite(toC, sctrl, <<Err(i_errno', sctrl.c)>>)
           \/ /\ WriteMayFail(sctrl)
              /\ i_errno' = "IESENDMESSAGE"
              /\ toC' = toC
        /\ errOwner' = sctrl.c
        /\ sstate' = "SERVER_ERROR"
        /\ sstreams' = <<>>
        /\ sEnd' = SetEnd(sEnd, sctrl, "closed")
        /\ sctrl' = None
        /\ spc' = "badfd"
  /\ UNCHANGED <<listener, backlog, exchanged, toS, clientVars>>

(* The next select() fails on the closed descriptor.                       *)
SelectFails ==
  /\ spc = "badfd"
  /\ Shutdown(sEnd)
  /\ i_errno' = "IESELECT"
  /\ errOwner' = None
  /\ UNCHANGED <<exchanged, toS, toC, clientVars>>

(* select() fails in any other way: i_errno is set after cleanup_server.   *)
SelectBreaks ==
  /\ spc = "loop" /\ "select" \in Faults
  /\ \/ /\ sctrl = None
        /\ Shutdown(sEnd)
        /\ i_errno' = "IESELECT"
        /\ errOwner' = None
        /\ UNCHANGED <<exchanged, toC>>
     \/ /\ sctrl # None
        /\ FailLate("IESELECT")
        /\ UNCHANGED backlog
  /\ UNCHANGED <<toS, clientVars>>

(* bitrate_limit_exceeded at the top of the loop: the error is sent, and   *)
(* then sent again by cleanup_server; if the write of the state fails the  *)
(* error becomes that of the write, if that of the code fails it becomes   *)
(* IECTRLWRITE after cleanup_server.                                       *)
BitrateExceeded ==
  /\ spc = "loop" /\ sstate = "TEST_RUNNING" /\ Limited
  /\ \E e \in Overwritten("IETOTALRATE") \cup {"IESENDMESSAGE"} :
     \E x \in Overwritten(e) :
       /\ e = "IESENDMESSAGE" => WriteMayFail(sctrl)
       /\ CleanupServer(sctrl, SWrite(toC, sctrl, <<Err(e, sctrl.c)>>), x, sctrl.c)
       /\ \/ i_errno' = x
          \/ WriteMayFail(sctrl) /\ i_errno' = "IECTRLWRITE"
  /\ sEnd' = SetEnd(sEnd, sctrl, "shut")
  /\ errOwner' = sctrl.c
  /\ UNCHANGED <<sdone, exchanged, backlog, toS, clientVars>>

(* iperf_got_sigend in the server: SERVER_TERMINATE and exit.              *)
ServerInterrupted ==
  /\ ServerSignal /\ spc # "exited"
  /\ toC' = IF sctrl = None \/ spc = "sync" THEN toC
            ELSE SWrite(toC, sctrl, <<Byte("SERVER_TERMINATE")>>)
  /\ sstate' = IF sctrl = None THEN sstate ELSE "SERVER_TERMINATE"
  /\ sdone' = (sdone \/ sstate = "TEST_RUNNING")
  /\ spc' = "exited"
  /\ i_errno' = "IESERVERTERM"
  /\ errOwner' = IF sctrl = None THEN None ELSE sctrl.c
  /\ sctrl' = None
  /\ listener' = FALSE
  /\ backlog' = <<>>
  /\ sEnd' = [c \in Clients |-> IF sEnd[c] = "none" THEN "none" ELSE "closed"]
  /\ UNCHANGED <<sstreams, stimer, exchanged, toS, clientVars>>

----------------------------------------------------------------------------
(* The clients.                                                            *)

(* Client c writes; what it writes to a closed socket is lost.             *)
CWrite(c, tok) ==
  toS' = IF sEnd[c] = "closed" THEN toS ELSE [toS EXCEPT ![c] = Append(@, tok)]
CWriteMayFail(c) == sEnd[c] = "closed"

(* A failure that leaves i_errno alone.                                    *)
ClientFailSilently(c, st, e, o) ==
  /\ cpc' = [cpc EXCEPT ![c] = "sync"]
  /\ cEnd' = [cEnd EXCEPT ![c] = "shut"]
  /\ UNCHANGED <<cerr, cblame, toS, cstate>>

(* cleanup_and_fail and iperf_client_end, up to iperf_sync_close_socket:   *)
(* in a positive state st the server is told IPERF_DONE.                   *)
ClientFail(c, st, e, o) ==
  /\ cerr' = [cerr EXCEPT ![c] = e]
  /\ cblame' = [cblame EXCEPT ![c] = o]
  /\ cpc' = [cpc EXCEPT ![c] = "sync"]
  /\ cEnd' = [cEnd EXCEPT ![c] = "shut"]
  /\ IF st \in Positive
     THEN /\ CWrite(c, Byte("IPERF_DONE"))
          /\ cstate' = [cstate EXCEPT ![c] = "IPERF_DONE"]
     ELSE /\ UNCHANGED toS
          /\ cstate' = [cstate EXCEPT ![c] = st]

(* iperf_connect: the control connection, and the cookie.                  *)
Connect(c) ==
  /\ cpc[c] = "init"
  /\ \/ /\ listener
        /\ backlog' = Append(backlog, [c |-> c, i |-> 0])
        /\ sEnd' = [sEnd EXCEPT ![c] = "queued"]
        /\ cEnd' = [cEnd EXCEPT ![c] = "open"]
        /\ cpc' = [cpc EXCEPT ![c] = "loop"]
        /\ UNCHANGED cerr
     \/ /\ ~listener
        /\ cpc' = [cpc EXCEPT ![c] = "exited"]
        /\ cerr' = [cerr EXCEPT ![c] = "IECONNECT"]
        /\ UNCHANGED <<backlog, sEnd, cEnd>>
  /\ UNCHANGED <<spc, sstate, sctrl, sstreams, sdone, stimer, i_errno,
                 errOwner, listener, exchanged, toS, toC, cstate, cstreams,
                 cblame>>

(* iperf_handle_message_client reads the next byte.                        *)
Reads(c, tok) ==
  /\ cpc[c] = "loop" /\ toC[c] # <<>> /\ Head(toC[c]) = tok
  /\ toC' = [toC EXCEPT ![c] = Tail(@)]

OnParamExchange(c) ==
  /\ Reads(c, Byte("PARAM_EXCHANGE"))
  /\ \/ /\ CWrite(c, Json("PARAMS"))
        /\ cstate' = [cstate EXCEPT ![c] = "PARAM_EXCHANGE"]
        /\ UNCHANGED <<cpc, cEnd, cerr, cblame>>
     \/ /\ CWriteMayFail(c)
        /\ ClientFail(c, "PARAM_EXCHANGE", "IESENDMESSAGE", None)
  /\ UNCHANGED <<cstreams, serverVars>>

OnCreateStreams(c) ==
  /\ Reads(c, Byte("CREATE_STREAMS"))
  /\ cstate' = [cstate EXCEPT ![c] = "CREATE_STREAMS"]
  /\ cpc' = [cpc EXCEPT ![c] = "streams"]
  /\ UNCHANGED <<cEnd, cstreams, cerr, cblame, toS, serverVars>>

(* iperf_create_streams: one iperf_tcp_connect after the other.            *)
ConnectStream(c) ==
  /\ cpc[c] = "streams"
  /\ \/ /\ listener
        /\ cstreams' = [cstreams EXCEPT ![c] = @ + 1]
        /\ backlog' = Append(backlog, [c |-> c, i |-> cstreams[c] + 1])
        /\ cpc' = IF cstreams[c] + 1 = Expected(c)
                  THEN [cpc EXCEPT ![c] = "loop"] ELSE cpc
        /\ UNCHANGED <<cEnd, cstate, cerr, cblame, toS>>
     \/ /\ ~listener
        /\ ClientFail(c, "CREATE_STREAMS", "IESTREAMCONNECT", None)
        /\ UNCHANGED <<cstreams, backlog>>
  /\ UNCHANGED <<spc, sstate, sctrl, sstreams, sdone, stimer, i_errno,
                 errOwner, listener, sEnd, exchanged, toC>>

OnTestStart(c) ==
  \E st \in {"TEST_START", "TEST_RUNNING"} :
    /\ Reads(c, Byte(st))
    /\ cstate' = [cstate EXCEPT ![c] = st]
    /\ UNCHANGED <<cpc, cEnd, cstreams, cerr, cblame, toS, serverVars>>

(* The end condition of the loop of iperf_run_client holds: TEST_END.      *)
EndTest(c) ==
  /\ cpc[c] = "loop" /\ cstate[c] = "TEST_RUNNING"
  /\ \/ /\ CWrite(c, Byte("TEST_END"))
        /\ cstate' = [cstate EXCEPT ![c] = "TEST_END"]
        /\ UNCHANGED <<cpc, cEnd, cerr, cblame>>
     \/ /\ CWriteMayFail(c)
        /\ ClientFail(c, "TEST_END", "IESENDMESSAGE", None)
  /\ UNCHANGED <<toC, cstreams, serverVars>>

(* EXCHANGE_RESULTS: send_results, up to the JSON_read of get_results.     *)
OnExchangeResults(c) ==
  /\ Reads(c, Byte("EXCHANGE_RESULTS"))
  /\ \/ /\ CWrite(c, Json("RESULTS"))
        /\ cstate' = [cstate EXCEPT ![c] = "EXCHANGE_RESULTS"]
        /\ cpc' = [cpc EXCEPT ![c] = "results"]
        /\ UNCHANGED <<cEnd, cerr, cblame>>
     \/ /\ CWriteMayFail(c)
        /\ ClientFail(c, "EXCHANGE_RESULTS", "IESENDMESSAGE", None)
  /\ UNCHANGED <<cstreams, serverVars>>

ClientReadResults(c) ==
  /\ cpc[c] = "results"
  /\ \/ /\ toC[c] # <<>> /\ Head(toC[c]) = Json("RESULTS")
        /\ toC' = [toC EXCEPT ![c] = Tail(@)]
        /\ cpc' = [cpc EXCEPT ![c] = "loop"]
        /\ UNCHANGED <<cEnd, cstate, cerr, cblame, toS>>
     \/ /\ \/ toC[c] # <<>> /\ Head(toC[c]).k # "json"
           \/ toC[c] = <<>> /\ (SlowPeers \/ sEnd[c] \in {"shut", "closed"})
        /\ ClientFail(c, "EXCHANGE_RESULTS", "IERECVRESULTS", None)
        /\ UNCHANGED toC
  /\ UNCHANGED <<cstreams, serverVars>>

(* DISPLAY_RESULTS: iperf_client_end tells the server IPERF_DONE.          *)
OnDisplayResults(c) ==
  /\ Reads(c, Byte("DISPLAY_RESULTS"))
  /\ CWrite(c, Byte("IPERF_DONE"))
  /\ cstate' = [cstate EXCEPT ![c] = "IPERF_DONE"]
  /\ cpc' = [cpc EXCEPT ![c] = "sync"]
  /\ cEnd' = [cEnd EXCEPT ![c] = "shut"]
  /\ UNCHANGED <<cstreams, cerr, cblame, serverVars>>

(* The server ends the test: SERVER_TERMINATE, ACCESS_DENIED, SERVER_ERROR *)
(* with its code, or the end of the input.                                 *)
OnServerLeaves(c) ==
  /\ \/ /\ Reads(c, Byte("SERVER_TERMINATE"))
        /\ ClientFail(c, "SERVER_TERMINATE", "IESERVERTERM", None)
     \/ /\ Reads(c, Byte("ACCESS_DENIED"))
        /\ ClientFail(c, "ACCESS_DENIED", "IEACCESSDENIED", None)
     \/ /\ toC[c] # <<>> /\ Head(toC[c]).k = "error"
        /\ Reads(c, Head(toC[c]))
        /\ ClientFail(c, "SERVER_ERROR", Head(toC[c]).v, Head(toC[c]).o)
     \/ /\ cpc[c] = "loop" /\ toC[c] = <<>> /\ sEnd[c] \in {"shut", "closed"}
        /\ \E e \in {"IECTRLCLOSE", "IERECVMESSAGE"} :
             ClientFail(c, cstate[c], e, None)
        /\ UNCHANGED toC
  /\ UNCHANGED <<cstreams, serverVars>>

(* No data for rcv_timeout while the client receives.                      *)
ClientNoData(c) ==
  /\ cpc[c] = "loop" /\ cstate[c] = "TEST_RUNNING" /\ Mode[c] # "SENDER"
  /\ SlowPeers /\ toC[c] = <<>> /\ sEnd[c] = "open"
  /\ ClientFail(c, "TEST_RUNNING", "IENOMSG", None)
  /\ UNCHANGED <<cstreams, toC, serverVars>>

(* iperf_sync_close_socket: discard the input until the server's end of    *)
(* file or ten seconds of silence; then the process exits.                 *)
ClientSyncClose(c) ==
  /\ cpc[c] = "sync"
  /\ sEnd[c] \in {"shut", "closed"} \/ SlowPeers
  /\ toC' = [toC EXCEPT ![c] = <<>>]
  /\ cpc' = [cpc EXCEPT ![c] = "exited"]
  /\ cEnd' = [cEnd EXCEPT ![c] = "closed"]
  /\ UNCHANGED <<cstate, cstreams, cerr, cblame, toS, serverVars>>

(* iperf_got_sigend in the client: CLIENT_TERMINATE and exit.              *)
ClientInterrupted(c) ==
  /\ c \in Interrupts /\ cpc[c] \in {"loop", "streams", "results"}
  /\ CWrite(c, Byte("CLIENT_TERMINATE"))
  /\ cstate' = [cstate EXCEPT ![c] = "CLIENT_TERMINATE"]
  /\ cerr' = [cerr EXCEPT ![c] = "IECLIENTTERM"]
  /\ cpc' = [cpc EXCEPT ![c] = "exited"]
  /\ cEnd' = [cEnd EXCEPT ![c] = "closed"]
  /\ toC' = [toC EXCEPT ![c] = <<>>]
  /\ UNCHANGED <<cstreams, cblame, serverVars>>

(* The host of c disappears: nothing is closed, nothing more is sent.      *)
ClientVanishes(c) ==
  /\ c \in Vanish /\ cpc[c] \in {"loop", "streams", "results"}
  /\ cpc' = [cpc EXCEPT ![c] = "vanished"]
  /\ UNCHANGED <<cstate, cstreams, cerr, cblame, cEnd, toS, toC, serverVars>>

----------------------------------------------------------------------------
(* The steps that the server and the clients take unless they stop.        *)
ServerStep ==
  \/ Listen \/ SyncClose \/ SelectFails
  \/ AcceptClient \/ AcceptBusy \/ AcceptStream
  \/ ReadParams \/ ReadParamsFails
  \/ OnTestEnd \/ ReadResults \/ ReadResultsFails \/ OnClientLeaves

ClientStep(c) ==
  \/ Connect(c) \/ OnParamExchange(c) \/ OnCreateStreams(c)
  \/ ConnectStream(c) \/ OnTestStart(c) \/ EndTest(c)
  \/ OnExchangeResults(c) \/ ClientReadResults(c) \/ OnDisplayResults(c)
  \/ OnServerLeaves(c) \/ ClientSyncClose(c)

Next ==
  \/ ServerStep
  \/ NoDataTimeout \/ IdleTimeout \/ ServerTimer
  \/ BitrateExceeded \/ ListenFails \/ ServerInterrupted
  \/ StreamFails \/ SelectBreaks
  \/ \E c \in Clients :
       ClientStep(c) \/ ClientNoData(c) \/ ClientInterrupted(c) \/ ClientVanishes(c)

Spec == Init /\ [][Next]_vars

(* Processes that can run do run, and timers that are armed expire.        *)
Fairness ==
  /\ WF_vars(ServerStep)
  /\ WF_vars(NoDataTimeout)
  /\ WF_vars(ServerTimer)
  /\ \A c \in Clients : WF_vars(ClientStep(c))

FairSpec == Spec /\ Fairness

----------------------------------------------------------------------------
(* Properties.                                                             *)

(* The server has at most one control connection open (iperf_accept        *)
(* refuses the others), and it is the one in ctrl_sck.                     *)
OneControlConnection ==
  \A c \in Clients : sEnd[c] \in {"open", "shut"} => sctrl = [c |-> c, i |-> 0]

(* While the server runs a test, its streams are the streams of the        *)
(* client that holds the control connection, all of them and in the order  *)
(* in which that client made them: iperf_add_stream numbers them the same  *)
(* way on both sides, which get_results relies on.                         *)
StreamsMatch ==
  (spc = "loop" /\ sstate \in {"TEST_RUNNING", "DISPLAY_RESULTS"}) =>
    sstreams = [j \in 1..Expected(sctrl.c) |-> [c |-> sctrl.c, i |-> j]]

(* A client acts on TEST_RUNNING only when the server that sent it has all *)
(* the streams of that client, or has given up on the test.                *)
RunningTogether ==
  \A c \in Clients :
    (cpc[c] = "loop" /\ cstate[c] = "TEST_RUNNING" /\ sEnd[c] = "open") =>
      /\ sctrl = [c |-> c, i |-> 0]
      /\ sstate = "TEST_RUNNING"
      /\ Len(sstreams) = cstreams[c]

(* A client exits without an error only if the server has received its     *)
(* results and sent its own (TEST_END in iperf_handle_message_server).     *)
SuccessMeansExchanged ==
  \A c \in Clients :
    (cpc[c] \in {"sync", "exited"} /\ cerr[c] = "IENONE") => c \in exchanged

(* The byte stream keeps its framing: whoever reads a state byte does not  *)
(* meet a JSON message, and whoever reads a JSON message meets one unless  *)
(* the peer has given up.                                                  *)
Framing ==
  /\ (spc = "loop" /\ sctrl # None /\ sctrl.i = 0 /\ toS[sctrl.c] # <<>>) =>
       Head(toS[sctrl.c]).v \in {"TEST_END", "IPERF_DONE", "CLIENT_TERMINATE"}
  /\ (spc = "params" /\ sctrl.i = 0 /\ toS[sctrl.c] # <<>>) =>
       Head(toS[sctrl.c]).v \in {"PARAMS", "IPERF_DONE", "CLIENT_TERMINATE"}
  /\ (spc = "results" /\ toS[sctrl.c] # <<>>) =>
       Head(toS[sctrl.c]).v \in {"RESULTS", "IPERF_DONE", "CLIENT_TERMINATE"}
  /\ \A c \in Clients :
       /\ (cpc[c] = "loop" /\ toC[c] # <<>>) => Head(toC[c]).k # "json"
       /\ (cpc[c] = "results" /\ toC[c] # <<>>) =>
            \/ Head(toC[c]) = Json("RESULTS")
            \/ Head(toC[c]).k = "error"
            \/ Head(toC[c]) = Byte("SERVER_TERMINATE")

(* An error code that a client reports as the server's was raised in the   *)
(* test of that client: i_errno is a global that no test resets.           *)
ErrorIsOwn == \A c \in Clients : cblame[c] \in {c, None}

(* The errors that iperf_run_server sets after cleanup_server: the client  *)
(* is told what i_errno was before, if anything.                           *)
SetLate == {"IELISTEN", "IESETUSERTIMEOUT", "IESETCONGESTION", "IESELECT"}

(* The error that ends a test is the one its client is told, but for those *)
(* in SetLate: whatever fails, the workers' sends and receives included,   *)
(* the handler sets i_errno first and cleanup_server writes it last of all *)
(* to the control connection, and not an error of an earlier test.         *)
ErrorIsTold ==
  [][(spc # "sync" /\ spc' = "sync" /\ sctrl'.i = 0 /\ ~Gone(sctrl'.c)
        /\ errOwner' = sctrl'.c /\ i_errno' \notin SetLate)
     => LET q == toC'[sctrl'.c] IN
        q # <<>> /\ q[Len(q)] = Err(i_errno', errOwner')]_vars

(* A connection that has nothing to do with the running test does not end  *)
(* it, whatever the state of the test.                                     *)
StrangersAreHarmless ==
  [][(spc = "loop" /\ sctrl # None /\ backlog # <<>> /\ Head(backlog).c # sctrl.c
        /\ backlog' = Tail(backlog) /\ listener')
     => (spc' = "loop" /\ sctrl' = sctrl /\ sstate' = sstate)]_vars

(* The inductive invariant behind OneControlConnection and                 *)
(* SuccessMeansExchanged.  ctrl_sck is -1 exactly outside of a test, the   *)
(* timer is armed in a test only, a DISPLAY_RESULTS on its way to a client *)
(* means that the server has sent it results, and an error on its way is   *)
(* one.                                                                    *)
SocketAndPc ==
  /\ (sctrl = None) <=> (\/ spc \in {"down", "badfd", "exited"}
                         \/ spc = "loop" /\ sstate = "IPERF_START")
  /\ (stimer /\ spc # "exited") => sctrl # None

GoodToken(t, c, ex) ==
  /\ t = Byte("DISPLAY_RESULTS") => c \in ex
  /\ t.k = "error" => t.v \in Errors \ {"IENONE"}

GoodQueues(ch, ex) ==
  \A c \in Clients : \A j \in 1..Len(ch[c]) : GoodToken(ch[c][j], c, ex)

ControlInvariant ==
  /\ TypeOK
  /\ SocketAndPc
  /\ OneControlConnection
  /\ GoodQueues(toC, exchanged)
  /\ SuccessMeansExchanged

(* Every client process ends, however the server and the other clients     *)
(* behave.                                                                 *)
ClientsFinish == \A c \in Clients : <>(cpc[c] \in {"exited", "vanished"})

(* The server does not keep a client for ever.                             *)
ServerIsFreed == (sctrl # None) ~> (sctrl = None)

(* A client whose control connection is accepted completes its test, even  *)
(* if other clients try to connect at any moment.                          *)
AdmittedCompletes ==
  \A c \in Clients :
    (spc = "params" /\ sctrl = [c |-> c, i |-> 0])
      ~> (cpc[c] = "exited" /\ cerr[c] = "IENONE")

(* The control protocol implements the specification Session.              *)
Outcome(c) ==
  IF cerr[c] # "IENONE" \/ cpc[c] = "vanished" THEN "failed"
  ELSE IF cpc[c] \in {"sync", "exited"} THEN "ok" ELSE "pending"

Abstract == INSTANCE Session WITH
  holder  <- IF sctrl = None THEN None ELSE IF sctrl.i # 0 THEN None ELSE sctrl.c,
  outcome <- [c \in Clients |-> Outcome(c)]

ImplementsSession == Abstract!Spec
============================================================================
