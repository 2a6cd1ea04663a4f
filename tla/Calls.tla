------------------------------- MODULE Calls -------------------------------
(***************************************************************************)
(* The functions that open sockets, each as the sequence of the system     *)
(* calls that can fail.  A step acquires resources, or releases them; when *)
(* it fails the function releases some of what it holds and returns -1.    *)
(* The resources are the new socket "s", the lists that getaddrinfo        *)
(* allocates, the file behind a stream's buffer and the file of -F.  Error *)
(* codes, address families and the values of options are left out.         *)
(***************************************************************************)
EXTENDS Integers, Sequences, FiniteSets

\* with, without: the options with which the step is taken
\* get, put: acquired, released;  frees: released when the step fails
\* may: released when the step fails, if it is held
\* again: closed although frees has closed it
Step(with, without, get, put, frees) ==
  [with |-> with, without |-> without, get |-> get, put |-> put,
   frees |-> frees, may |-> {}, again |-> {}]

Get(r, frees) == Step({}, {}, {r}, {}, frees)
Put(r) == Step({}, {}, {}, {r}, {})
Try(frees) == Step({}, {}, {}, {}, frees)
Opt(o, frees) == Step({o}, {}, {}, {}, frees)

\* -w: the size is set for both directions
SetBuffers(frees) == <<Opt("-w", frees), Opt("-w", frees)>>
\* the sizes are read back and compared with what was asked for
ReadBuffers(frees) == <<Try(frees), Opt("-w", frees), Try(frees),
                        Opt("-w", frees)>>

----------------------------------------------------------------------------
(* net.c                                                                   *)
bind_to_device(frees) == <<Opt("--bind-dev", frees)>>

create_socket ==
  <<Step({"-B"}, {}, {"local"}, {}, {}),
    [Get("server", {}) EXCEPT !.may = {"local"}],
    [Get("s", {"server"}) EXCEPT !.may = {"local"}]>> \o
  bind_to_device({"s", "local", "server"}) \o
  <<Step({"-B"}, {}, {}, {"local"}, {"s", "local", "server"}),
    Step({"--cport"}, {"-B"}, {}, {}, {"s", "server"})>>

timeout_connect(frees) == Try(frees)

netdial == create_socket \o
           <<timeout_connect({"s", "server"}), Put("server")>>

netannounce(type) ==
  <<Get("res", {}), Get("s", {"res"})>> \o
  bind_to_device({"s", "res"}) \o
  <<Try({"s", "res"}), Try({"s", "res"}), Try({"s", "res"}), Put("res")>> \o
  (IF type = "stream" THEN <<Try({"s"})>> ELSE <<>>)

----------------------------------------------------------------------------
(* iperf_tcp.c                                                             *)
\* the options for which the listening socket is thrown away
Recreate == {"-N", "-m", "-M", "-w"}

iperf_tcp_listen(opts) ==
  (IF opts \cap Recreate = {} THEN <<>>
   ELSE <<Get("res", {}), Get("s", {"res"}), Opt("-N", {"s", "res"}),
          Opt("-M", {"s", "res"})>> \o SetBuffers({"s", "res"}) \o
        <<Try({"s", "res"}), Try({"s", "res"}), Try({"s", "res"}),
          Put("res"), Try({"s"})>>) \o
  ReadBuffers({"s"})

\* mutant: the connection is not closed when the cookie cannot be read
iperf_tcp_accept_NoClose == <<Get("s", {}), Try({})>>

iperf_tcp_accept == <<Get("s", {}), Try({"s"})>>

\* the flow label, the connection and the cookie
TcpDials(all) ==
  <<Opt("-L", all), Opt("-L", all), Try(all), Put("server"), Try({"s"})>>

iperf_tcp_connect ==
  LET all == {"s", "server"} IN
  create_socket \o
  <<Opt("-N", all), Opt("-M", all)>> \o SetBuffers(all) \o
  <<Opt("--snd-timeout", all)>> \o ReadBuffers(all) \o TcpDials(all)

----------------------------------------------------------------------------
(* iperf_udp.c                                                             *)
iperf_udp_buffercheck(frees) == SetBuffers(frees) \o ReadBuffers(frees)

iperf_udp_listen == netannounce("datagram")

\* the socket so far stays prot_listener until it is replaced
iperf_udp_accept ==
  <<Try({}), Try({})>> \o iperf_udp_buffercheck({})

\* the new prot_listener, then the reply: s is nobody's if one of them fails
UdpReplace == netannounce("datagram")
UdpReply == <<Try({})>>

iperf_udp_connect ==
  netdial \o iperf_udp_buffercheck({}) \o <<Try({}), Try({}), Try({})>>

----------------------------------------------------------------------------
(* iperf_sctp.c                                                            *)
\* the last call of iperf_sctp_bindx closes the socket, as its caller does
iperf_sctp_bindx(frees) ==
  <<Opt("-X", frees), [Opt("-X", frees) EXCEPT !.again = {"s"}]>>

iperf_sctp_listen ==
  LET all == {"s", "res"} IN
  <<Get("res", {}), Get("s", {"res"})>> \o SetBuffers(all) \o
  bind_to_device(all) \o <<Try(all), Try(all)>> \o iperf_sctp_bindx(all) \o
  <<Step({}, {"-X"}, {}, {}, all), Put("res"), Try({})>>

\* the listener is called with the cookie of another client: the answer
\* may fail too
iperf_sctp_accept == <<Get("s", {}), Try({"s"})>>

\* the options of SCTP, the connection and the cookie
SctpDials(all) ==
  <<Opt("-N", all), Opt("-M", all), Opt("--nstreams", all)>> \o
  iperf_sctp_bindx(all) \o
  <<Try(all), Try(all), Try(all), Put("server")>>

iperf_sctp_connect ==
  LET all == {"s", "server"} IN
  <<Step({"-B"}, {}, {"local"}, {}, {}),
    [Get("server", {}) EXCEPT !.may = {"local"}],
    Get("s", {"local", "server"})>> \o
  SetBuffers(all) \o bind_to_device({"s", "local", "server"}) \o
  <<Step({"-B"}, {}, {}, {"local"}, {"s", "local", "server"}),
    Step({"--cport"}, {"-B"}, {}, {}, all)>> \o
  SctpDials(all)

----------------------------------------------------------------------------
(* What follows a new connection: its socket is nobody's until             *)
(* iperf_new_stream, in iperf_api.c, has made a stream of it.              *)
\* the file that backs the stream's buffer is closed on the last error only,
\* that of -F on none
iperf_new_stream ==
  <<Get("buffer", {}), Try({}), Step({"-F"}, {}, {"file"}, {}, {}),
    Try({"buffer"})>>

iperf_common_sockopts == <<Opt("-S", {})>>

\* iperf_run_server, after protocol->accept
ServerStream == iperf_common_sockopts \o
                <<Opt("--snd-timeout", {"s"}), Opt("-C", {"s"})>> \o
                iperf_new_stream

\* iperf_create_streams, after protocol->connect
ClientStream == <<Opt("-C", {"s"})>> \o iperf_new_stream

----------------------------------------------------------------------------
(* Running a function with the options opts: fail is the number of the     *)
(* step that fails, or 0.                                                  *)
Steps(f, opts) == SelectSeq(f, LAMBDA x : x.with \subseteq opts /\
                                          x.without \cap opts = {})

\* what the function holds when it reaches step k of rows
Held(rows, k, before) ==
  {r \in before \cup UNION {rows[j].get : j \in 1 .. k - 1} :
     \E j \in 0 .. k - 1 :
       /\ IF j = 0 THEN r \in before ELSE r \in rows[j].get
       /\ \A i \in j + 1 .. k - 1 : r \notin rows[i].put}

\* left: held and not released; twice: released although not held
Outcome(f, opts, fail, before) ==
  LET rows == Steps(f, opts)
      held == Held(rows, IF fail = 0 THEN Len(rows) + 1 ELSE fail, before)
  IN  IF fail = 0
      THEN [ok |-> TRUE, left |-> held \ {"s", "buffer", "file"},
            twice |-> {}]
      ELSE LET x == rows[fail] IN
           [ok |-> FALSE,
            left |-> held \ (x.frees \cup x.may),
            twice |-> (x.frees \ held) \cup (x.again \cap held)]

Failures(f, opts) == {k \in DOMAIN Steps(f, opts) :
                        Steps(f, opts)[k].put = {} \/
                        Steps(f, opts)[k].frees # {}}
=============================================================================
