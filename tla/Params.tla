------------------------------- MODULE Params -------------------------------
(***************************************************************************)
(* One server and the clients that use it one after the other, as far as   *)
(* the parameters of their tests go: each program parses its command line  *)
(* (Options), the client sends the parameters of its test                  *)
(* (send_parameters), the server takes them (get_parameters), lets the     *)
(* client in or not (test_is_authorized), runs the test and clears its     *)
(* structure for the next one (iperf_reset_test).  The structure outlives  *)
(* the test, so what is not cleared belongs to every later client.         *)
(***************************************************************************)
EXTENDS Options, FiniteSets

CONSTANTS
  ServerLacks,     \* the options that the build of the server lacks
  ClientLacks,     \* and those that the build of the clients lacks
  RateMod,         \* 2^64: a rate is a uint64_t
  ServerOptions,   \* the options that a server may be started with
  ClientOptions,   \* the options that a client may be started with
  MaxOptions,      \* bound: the options of one command line
  FileSize,        \* the size of the file that -F names
  Mss              \* the segment size of a control connection, 0: unknown

\* getopt_long knows no other option; a negative duration is refused and
\* the name of a file is a string that is set
CommandOptions ==
  {x \in [o : OptionNames, a : Int] :
     /\ x.o = "-t" /\ x.a < 0 => x.a = Bad
     /\ x.o = "--authorized-users-path" => x.a # 0}

ASSUME ParamsAssumption ==
  /\ ServerLacks \subseteq BuildOptions /\ ClientLacks \subseteq BuildOptions
  /\ RateMod \in Nat \ {0}
  /\ ServerOptions \subseteq CommandOptions
  /\ ClientOptions \subseteq CommandOptions
  /\ MaxOptions \in Nat
  /\ FileSize \in Nat
  /\ Mss \subseteq 0 .. MaxUdpBlksize

VARIABLES
  server,   \* the server's struct iperf_test
  spc,      \* "parse" | "idle" | "test" | "exit"
  client,   \* the struct iperf_test of the client at work
  cpc,      \* "parse" | "parsed" | "connected" | "test" | "exit"
  line,     \* the command line of the program that is parsing its options
  asked     \* history: for each sticky member the value that the server
            \* started with and those that its clients have sent

vars == <<server, spc, client, cpc, line, asked>>

\* the members that a client sets and iperf_reset_test leaves as they are
Sticky == {"get_server_output", "repeating_payload", "flowlabel", "mptcp",
           "pacing_timer"}

Init == /\ server = iperf_defaults /\ spc = "parse"
        /\ client = iperf_defaults /\ cpc = "exit"
        /\ line = <<>>
        /\ asked = [f \in Sticky |-> {}]

----------------------------------------------------------------------------
(* The command lines.                                                      *)
Environment == {{}, {"key"}, {"users"}, {"stat"}}

ServerOption ==
  /\ spc = "parse" /\ Len(line) < MaxOptions
  /\ \E x \in ServerOptions :
       LET p == ParseBuilt(ServerLacks, server, x) IN
       /\ server' = p.t /\ line' = Append(line, x)
       /\ spc' = IF p.err = "none" THEN "parse" ELSE "exit"
  /\ UNCHANGED <<client, cpc, asked>>

ServerStarts ==
  /\ spc = "parse"
  /\ \E env \in Environment :
       LET p == ParseEnd(server, env, FileSize) IN
       /\ server' = p.t
       /\ spc' = IF p.err = "none" /\ p.t["role"] = "s"
                 THEN "idle" ELSE "exit"
       /\ asked' = [f \in Sticky |-> {p.t[f]}]
  /\ line' = <<>>
  /\ UNCHANGED <<client, cpc>>

ClientAppears ==
  /\ spc = "idle" /\ cpc = "exit"
  /\ client' = iperf_defaults /\ cpc' = "parse" /\ line' = <<>>
  /\ UNCHANGED <<server, spc, asked>>

ClientOption ==
  /\ cpc = "parse" /\ Len(line) < MaxOptions
  /\ \E x \in ClientOptions :
       LET p == ParseBuilt(ClientLacks, client, x) IN
       /\ client' = p.t /\ line' = Append(line, x)
       /\ cpc' = IF p.err = "none" THEN "parse" ELSE "exit"
  /\ UNCHANGED <<server, spc, asked>>

ClientStarts ==
  /\ cpc = "parse"
  /\ \E env \in Environment :
       LET p == ParseEnd(client, env, FileSize) IN
       /\ client' = p.t
       /\ cpc' = IF p.err = "none" /\ p.t["role"] = "c"
                 THEN "parsed" ELSE "exit"
  /\ UNCHANGED <<server, spc, line, asked>>

\* iperf_connect: the block size of a UDP test comes from the connection
UdpBlksize(t, mss) == IF t["blksize"] # 0 THEN t["blksize"]
                      ELSE IF mss # 0 THEN mss ELSE DefaultUdpBlksize

Connected(t, mss) ==
  IF t["protocol"] # "udp" THEN t
  ELSE LET u == [t EXCEPT !["blksize"] = UdpBlksize(t, mss)] IN
       IF t["gso"] = 1 THEN Segmented(u, u["blksize"]) ELSE u

ClientConnects ==
  /\ cpc = "parsed"
  /\ \E mss \in Mss : client' = Connected(client, mss)
  /\ cpc' = "connected" /\ line' = <<>>
  /\ UNCHANGED <<server, spc, asked>>

----------------------------------------------------------------------------
(* The parameters on the wire: a function whose domain is what was sent.   *)
SentAlways == {"protocol", "omit", "duration", "bytes", "blocks",
               "num_streams"}
SentForUdp == {"gso", "gso_dg_size", "gso_bf_size", "gro", "gro_bf_size"}
SentIfSet == {"mss", "no_delay", "reverse", "bidirectional", "mptcp",
              "socket_bufsize", "blksize", "rate", "fqrate", "pacing_timer",
              "burst", "tos", "flowlabel", "title", "extra_data",
              "congestion", "get_server_output", "udp_counters_64bit",
              "repeating_payload", "zerocopy", "dont_fragment",
              "skip_rx_copy"}

send_parameters(t) ==
  [f \in SentAlways \cup
         {f \in SentIfSet : t[f] # 0} \cup
         {f \in SentForUdp : t["protocol"] = "udp"} \cup
         {f \in {"server_affinity"} : t[f] # -1} \cup
         {f \in {"authtoken"} : HaveSSL /\ Both(t)}
   |-> IF f = "authtoken" THEN 1 ELSE t[f]]

\* the members that the build of the server does not read
Unread == (IF "-m" \in ServerLacks THEN {"mptcp"} ELSE {}) \cup
          (IF "--dont-fragment" \in ServerLacks THEN {"dont_fragment"}
           ELSE {})

\* the members that are taken as they are sent
Taken(s, msg) ==
  [f \in DOMAIN s |->
     IF f \in DOMAIN msg \ Unread THEN msg[f]
     ELSE IF f \in {"bytes", "blocks"} THEN 0 ELSE s[f]]

\* a file cannot be sent in datagrams: the protocol stays as it was, as it
\* does when set_protocol does not find the one that was sent
TakeProtocol(s, msg) ==
  IF msg["protocol"] = "udp" /\ s["diskfile_name"] # 0
  THEN s ELSE set_protocol(s, msg["protocol"], Protocols(ServerLacks))

TakeDirection(s, msg) ==
  LET r == IF "reverse" \in DOMAIN msg THEN iperf_set_test_reverse(s) ELSE s
  IN  IF "bidirectional" \in DOMAIN msg
      THEN iperf_set_test_bidirectional(r) ELSE r

\* a client of an earlier version does not send the size of its segments
TakeSegments(s) ==
  IF s["protocol"] = "udp" /\ s["gso"] = 1 /\ s["gso_dg_size"] = 0
  THEN Segmented(s, s["blksize"]) ELSE s

get_parameters(s, msg) ==
  LET p == TakeProtocol(s, msg)
      t == [Taken(p, msg) EXCEPT !["protocol"] = p["protocol"]]
      d == TakeSegments(TakeDirection(t, msg))
  IN  IF d["mode"] # "RECEIVER" /\ d["protocol"] = "tcp" /\ HaveRetransmits
      THEN [d EXCEPT !["sender_has_retransmits"] = 1] ELSE d

\* mutant: one direction of a bidirectional test is not counted
TotalRate_OneWay(t, rate) == (t["num_streams"] * rate) % RateMod

\* in uint64_t, whatever the product is
TotalRate(t, rate) ==
  (t["num_streams"] * rate * (IF t["mode"] = "BIDIRECTIONAL" THEN 2 ELSE 1))
    % RateMod

\* the last of the code's checks that fails gives the error
Refusal(s, t, msg) ==
  LET limit == s["bitrate_limit"]  max == s["max_server_duration"] IN
  FirstError(<<
    Check(limit # 0 /\ (\/ TotalRate(t, t["rate"]) > limit
                        \/ TotalRate(t, t["fqrate"]) > limit),
          "IETOTALRATE"),
    Check(max > 0 /\ (t["duration"] + t["omit"] > max \/ t["duration"] = 0),
          "IEMAXSERVERTESTDURATIONEXCEEDED"),
    Check(msg["protocol"] = "udp" /\ s["diskfile_name"] # 0,
          "IEUDPFILETRANSFER") >>)

NeedsAuth(s) == HaveSSL /\ ServerBoth(s)

\* decode_auth_setting and check_authentication: a token may be refused
Authorized(t, valid) == NeedsAuth(t) => t["authtoken"] = 1 /\ valid

----------------------------------------------------------------------------
(* The end of a test on the server: main.c's loop.                         *)
ResetFields ==
  {"congestion", "mode", "sender_has_retransmits", "protocol", "omit",
   "duration", "server_affinity", "reverse", "bidirectional", "no_delay",
   "num_streams", "socket_bufsize", "blksize", "rate", "fqrate", "burst",
   "mss", "tos", "gso_dg_size", "gso_bf_size", "gro_bf_size",
   "dont_fragment", "zerocopy", "skip_rx_copy", "authtoken",
   "client_username", "udp_counters_64bit", "title", "extra_data"}

\* mutant: the rate of the last test stays
iperf_reset_test_KeepsRate(t) ==
  [f \in DOMAIN t |->
     IF f = "role" THEN "s"
     ELSE IF f \in ResetFields \ {"rate"} THEN Default(f) ELSE t[f]]

iperf_reset_test(t) ==
  [f \in DOMAIN t |->
     IF f = "role" THEN "s"
     ELSE IF f \in ResetFields THEN Default(f) ELSE t[f]]

\* the errors that count as the one test of a one-off server
CountsAsTest(err) == err # "IEAUTHTEST"

\* what follows iperf_run_server: t is the test that it leaves behind, err
\* the error that it ended with, "none" if it returned 0
ServerLoop(t, err) ==
  /\ server' = iperf_reset_test(t)
  /\ spc' = IF t["one_off"] = 1 /\ CountsAsTest(err) THEN "exit" ELSE "idle"
  /\ client' = iperf_defaults /\ cpc' = "exit"

\* test_is_authorized returns -1 and sets no error: what i_errno holds is
\* left over from before
AuthError == "stale"

\* iperf_exchange_parameters
ExchangeParameters ==
  /\ spc = "idle" /\ cpc = "connected"
  /\ \E valid \in BOOLEAN :
       LET msg == send_parameters(client)
           t == get_parameters(server, msg)
           err == Refusal(server, t, msg)
       IN  \/ /\ err = "none" /\ Authorized(t, valid)
              /\ server' = t /\ spc' = "test" /\ cpc' = "test"
              /\ UNCHANGED client
           \/ /\ err = "none" /\ ~Authorized(t, valid)
              /\ ServerLoop(t, AuthError)
           \/ /\ err # "none"
              /\ ServerLoop(t, err)
  /\ asked' = [f \in Sticky |->
                 asked[f] \cup (IF client[f] # 0 THEN {client[f]} ELSE {})]
  /\ UNCHANGED line

TestEnds ==
  /\ spc = "test"
  /\ \E err \in {"none", "IESTREAMREAD"} : ServerLoop(server, err)
  /\ UNCHANGED <<line, asked>>

\* --idle-timeout: iperf_run_server returns 2, or exits with --one-off
IdleTimeout ==
  /\ spc = "idle" /\ cpc = "exit" /\ server["idle_timeout"] > 0
  /\ server' = iperf_reset_test(server)
  /\ spc' = IF server["one_off"] = 1 THEN "exit" ELSE "idle"
  /\ UNCHANGED <<client, cpc, line, asked>>

Next == \/ ServerOption \/ ServerStarts
        \/ ClientAppears \/ ClientOption \/ ClientStarts \/ ClientConnects
        \/ ExchangeParameters \/ TestEnds \/ IdleTimeout

Spec == Init /\ [][Next]_vars

----------------------------------------------------------------------------
(* What a command line means, whatever the order of its options.           *)
Given(l) == {l[i].o : i \in DOMAIN l}

\* the position of the last option of O
Last(l, O) == LET is == {i \in DOMAIN l : l[i].o \in O}
              IN  CHOOSE i \in is : \A j \in is : j <= i
Argument(l, o) == l[Last(l, {o})].a

ServerOnly == {"-D", "-1", "--server-bitrate-limit",
               "--server-bitrate-limit/", "--idle-timeout",
               "--server-max-duration", "--rsa-private-key-path",
               "--authorized-users-path", "--time-skew-threshold",
               "--use-pkcs1-padding"}
ProtocolAsked(l) ==
  IF Given(l) \cap {"-u", "--sctp", "-m"} = {} THEN "tcp"
  ELSE LET o == l[Last(l, {"-u", "--sctp", "-m"})].o
       IN  IF o = "-u" THEN "udp" ELSE IF o = "-m" THEN "tcp" ELSE "sctp"
ModeAsked(l) == IF "--bidir" \in Given(l) THEN "BIDIRECTIONAL"
                ELSE IF "-R" \in Given(l) THEN "RECEIVER" ELSE "SENDER"
EndsAsked(l) == {o \in {"-n", "-k"} \cap Given(l) : Argument(l, o) # 0}
                \cup ({"-t"} \cap Given(l))

\* a reason to refuse the command line of a client
Refusable(l) ==
  \/ "-c" \notin Given(l) \/ "-s" \in Given(l)
  \/ Given(l) \cap (ServerOnly \cup ClientLacks) # {}
  \/ {"-R", "--bidir"} \subseteq Given(l)
  \/ \E i \in DOMAIN l : l[i].a = Bad
  \/ Cardinality(EndsAsked(l)) > 1
  \/ ProtocolAsked(l) = "udp" /\ "-F" \in Given(l)
  \/ Given(l) \cap {"--username", "--rsa-public-key-path"} # {}
  \/ "--rcv-timeout" \in Given(l) /\ ModeAsked(l) = "SENDER"
  \/ "-l" \in Given(l) /\ Argument(l, "-l") \notin
       (IF ProtocolAsked(l) = "udp" THEN MinUdpBlksize .. MaxUdpBlksize
        ELSE 1 .. MaxBlksize)

\* c is the test that the options of l ask for together
AsAsked(c, l) ==
  /\ "-c" \in Given(l) /\ Given(l) \cap ServerOnly = {}
  /\ c["mode"] = ModeAsked(l)
  /\ c["protocol"] = ProtocolAsked(l)
  /\ c["sender_has_retransmits"] = 1 <=>
       /\ ModeAsked(l) # "RECEIVER" /\ ProtocolAsked(l) = "tcp"
       /\ HaveRetransmits
  /\ LET ends == {f \in {"duration", "bytes", "blocks"} : c[f] # 0}
     IN  /\ Cardinality(ends) <= 1
         /\ ends = {} => "-t" \in Given(l) /\ Argument(l, "-t") = 0

\* iperf_parse_arguments: a client that starts has the direction, the
\* protocol and the one end condition that its options ask for together, in
\* whatever order they are given, and a client that is refused gave a reason.
CommandLine ==
  /\ cpc = "parsed" => AsAsked(client, line)
  /\ spc = "idle" /\ cpc = "exit" /\ line # <<>> => Refusable(line)

Exchanged(t) == SentAlways \cup SentIfSet \cup {"server_affinity"} \cup
                (IF t["protocol"] = "udp" THEN SentForUdp ELSE {})

\* what the server makes of the protocol that a client asks for
ProtocolRun(c) == IF c["protocol"] \in Protocols(ServerLacks)
                  THEN c["protocol"] ELSE "tcp"

\* get_parameters after iperf_reset_test: the test that the server runs is
\* the one its client asked for, whatever the tests before it were, but for
\* what the build of the server lacks: it runs TCP for a protocol that it
\* does not have, and it does not read Unread.  A sticky member that the
\* client leaves at 0 has the value of the server's own start or one that
\* an earlier client sent.  The server sends what the client receives.
ServerRunsTheTest ==
  spc = "test" =>
    /\ server["protocol"] = ProtocolRun(client)
    /\ \A f \in Exchanged(client) \ (Sticky \cup Unread \cup {"protocol"}) :
         server[f] = client[f]
    /\ \A f \in Sticky : IF client[f] # 0 /\ f \notin Unread
                         THEN server[f] = client[f]
                         ELSE server[f] \in asked[f]
    /\ server["mode"] = CASE client["mode"] = "SENDER" -> "RECEIVER"
                          [] client["mode"] = "RECEIVER" -> "SENDER"
                          [] client["mode"] = "BIDIRECTIONAL" ->
                               "BIDIRECTIONAL"
    /\ server["sender_has_retransmits"] = 1 <=>
         server["mode"] # "RECEIVER" /\ server["protocol"] = "tcp" /\
         HaveRetransmits

\* get_parameters and test_is_authorized: a test that is admitted keeps to
\* the limits that the server was started with, both directions of all its
\* streams counted, unless the rate that it asks for in all does not fit
\* into 64 bits, and on a server with a list of users its client sent
\* credentials; what the server was started with outlives every test.
AdmittedWithinLimits ==
  spc = "test" =>
    LET ways == IF client["mode"] = "BIDIRECTIONAL" THEN 2 ELSE 1
        n == client["num_streams"] * ways
        Within(rate) == n * rate <= server["bitrate_limit"] \/
                        n * rate >= RateMod
    IN  /\ server["bitrate_limit"] > 0 =>
             Within(client["rate"]) /\ Within(client["fqrate"])
        /\ server["max_server_duration"] > 0 =>
             client["duration"] \in 1 .. server["max_server_duration"]
                                        - client["omit"]
        /\ server["diskfile_name"] # 0 => client["protocol"] # "udp"
        /\ NeedsAuth(server) => Both(client)
=============================================================================
