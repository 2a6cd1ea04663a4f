------------------------------ MODULE Options ------------------------------
(***************************************************************************)
(* The test structure of iperf3 as its users fill it: iperf_defaults,      *)
(* iperf_parse_arguments and the setters they call.  A test is a function  *)
(* from the names of its members to their values; a flag is 0 or 1, a      *)
(* string that is set is 1, a time interval is in tenths of a second.      *)
(* An option is [o |-> its name, a |-> its argument]; the argument Bad     *)
(* stands for one that the option's checks refuse.                         *)
(***************************************************************************)
EXTENDS Integers, Sequences

CONSTANTS
  HaveSSL,          \* is the build linked with OpenSSL?
  HaveRetransmits   \* has_tcpinfo_retransmits(): not on Windows

ASSUME OptionsAssumption == HaveSSL \in BOOLEAN /\ HaveRetransmits \in BOOLEAN

Bad == -1

DefaultTcpBlksize == 131072
DefaultUdpBlksize == 1460
DefaultSctpBlksize == 65536
MaxUdpBlksize == 65507
MinUdpBlksize == 16
MaxBlksize == 1048576
DefaultUdpRate == 1048576

----------------------------------------------------------------------------
(* The members that one option assigns its argument to, the flags that it  *)
(* raises and the error of an argument that is refused ("none": whatever   *)
(* the argument is, it is taken).                                          *)
Row(option, fields, also, err) ==
  [option |-> option, fields |-> fields, also |-> also, err |-> err]
Client == {"client_flag"}
Server == {"server_flag"}

OutputOptions ==
  {Row("-p", {"server_port"}, {}, "IEBADPORT"),
   Row("-f", {"unit_format"}, {}, "IEBADFORMAT"),
   Row("-i", {"stats_interval", "reporter_interval"}, {}, "IEINTERVAL"),
   Row("-D", {"daemon"}, Server, "none"),
   Row("-1", {"one_off"}, Server, "none"),
   Row("-V", {"verbose"}, {}, "none"),
   Row("-J", {"json_output"}, {}, "none"),
   Row("--json-stream", {"json_output", "json_stream"}, {}, "none"),
   Row("--json-stream-full-output", {"json_stream_full_output"}, {},
       "none")}

\* --nstreams has no break: it runs on into -b.  What follows a slash in
\* the argument of -b and --server-bitrate-limit, or a comma in that of -A,
\* is an option of its own.
LoadOptions ==
  {Row("--nstreams", {"num_ostreams", "rate"},
       {"client_flag", "rate_flag"}, "IEUNITVAL"),
   Row("-b", {"rate"}, {"client_flag", "rate_flag"}, "IEUNITVAL"),
   Row("-b/", {"burst"}, {"client_flag", "rate_flag"}, "IEBURST"),
   Row("--server-bitrate-limit", {"bitrate_limit"}, Server, "IEUNITVAL"),
   Row("--server-bitrate-limit/", {"bitrate_limit_interval"}, Server,
       "IETOTALINTERVAL"),
   Row("-t", {"duration"}, {"client_flag", "duration_flag"}, "IEDURATION"),
   Row("-n", {"bytes"}, Client, "IEUNITVAL"),
   Row("-k", {"blocks"}, Client, "IEUNITVAL"),
   Row("-l", {"blksize_arg"}, Client, "IEUNITVAL"),
   Row("-P", {"num_streams"}, Client, "IENUMSTREAMS")}

SocketOptions ==
  {Row("-w", {"socket_bufsize"}, Client, "IEBUFSIZE"),
   Row("-B", {"bind_address"}, {}, "IEBINDDEVNOSUPPORT"),
   Row("--bind-dev", {"bind_dev"}, {}, "none"),
   Row("--cport", {"bind_port"}, {}, "IEBADPORT"),
   Row("-M", {"mss"}, Client, "IEMSS"),
   Row("-N", {"no_delay"}, Client, "none"),
   Row("-4", {"domain"}, {}, "none"),
   Row("-6", {"domain"}, {}, "none"),
   Row("-S", {"tos"}, Client, "IEBADTOS"),
   Row("--dscp", {"tos"}, Client, "IEBADTOS"),
   Row("--extra-data", {"extra_data"}, Client, "none"),
   Row("-L", {"flowlabel"}, Client, "IESETFLOW"),
   Row("-X", {"xbind_addrs"}, {}, "IESETSCTPBINDX"),
   Row("-Z", {"zerocopy"}, Client, "IENOSENDFILE")}

TestOptions ==
  {Row("--repeating-payload", {"repeating_payload"}, Client, "none"),
   Row("--timestamps", {"timestamps"}, {}, "none"),
   Row("-O", {"omit"}, Client, "IEOMIT"),
   Row("-F", {"diskfile_name"}, {}, "none"),
   Row("--idle-timeout", {"idle_timeout"}, Server, "IEIDLETIMEOUT"),
   Row("--server-max-duration", {"max_server_duration"}, Server,
       "IEDURATION"),
   Row("--rcv-timeout", {"rcv_timeout"}, {"rcv_timeout_flag"},
       "IERCVTIMEOUT"),
   Row("--snd-timeout", {"snd_timeout"}, {}, "IESNDTIMEOUT"),
   Row("--cntl-ka", {"cntl_ka"}, {}, "IECNTLKA"),
   Row("-A", {"affinity"}, {}, "IEAFFINITY"),
   Row("-A/", {"affinity", "server_affinity"}, Client, "IEAFFINITY")}

OtherOptions ==
  {Row("-T", {"title"}, Client, "none"),
   Row("-C", {"congestion"}, Client, "none"),
   Row("-d", {"debug"}, {}, "none"),
   Row("-I", {"pidfile"}, {}, "none"),
   Row("--logfile", {"logfile"}, {}, "none"),
   Row("--forceflush", {"forceflush"}, {}, "none"),
   Row("--get-server-output", {"get_server_output"}, Client, "none"),
   Row("--udp-counters-64bit", {"udp_counters_64bit"}, Client, "none"),
   Row("--no-fq-socket-pacing", {"fqrate"}, Client, "none"),
   Row("--fq-rate", {"fqrate"}, Client, "IEUNITVAL"),
   Row("--dont-fragment", {"dont_fragment"}, Client, "none"),
   Row("--skip-rx-copy", {"skip_rx_copy"}, Client, "none"),
   Row("--pacing-timer", {"pacing_timer"}, Client, "IEUNITVAL"),
   Row("--connect-timeout", {"connect_timeout"}, Client, "IEUNITVAL"),
   Row("--gsro", {"gso", "gro"}, {"gsro_flag"}, "none")}

AuthOptions ==
  {Row("--username", {"client_username"}, Client, "none"),
   Row("--rsa-public-key-path", {"client_rsa_public_key"}, Client, "none"),
   Row("--rsa-private-key-path", {"server_rsa_private_key"}, Server,
       "none"),
   Row("--authorized-users-path", {"server_authorized_users"}, {}, "none"),
   Row("--time-skew-threshold", {"server_skew_threshold"}, Server,
       "IESKEWTHRESHOLD"),
   Row("--use-pkcs1-padding", {"use_pkcs1_padding"}, Server, "none")}

Rows == OutputOptions \cup LoadOptions \cup SocketOptions \cup TestOptions
        \cup OtherOptions \cup (IF HaveSSL THEN AuthOptions ELSE {})

Table == [o \in {r.option : r \in Rows} |->
            CHOOSE r \in Rows : r.option = o]

\* the options that do more than a row says
RoleOptions == {"-s", "-c"}
ProtocolOptions == {"-u", "--sctp", "-m"}
DirectionOptions == {"-R", "--bidir"}

\* the options that a build may lack, by the macros of iperf_config.h, and
\* the protocols of a build: iperf_defaults lists SCTP if it was found
BuildOptions ==
  {"-D", "--sctp", "--nstreams", "-X", "-L", "-Z", "-A", "-A/", "-C",
   "--no-fq-socket-pacing", "--fq-rate", "-m", "--dont-fragment",
   "--skip-rx-copy", "--bind-dev", "--cntl-ka"}
AllProtocols == {"tcp", "udp", "sctp"}
Protocols(lacks) ==
  AllProtocols \ (IF "--sctp" \in lacks THEN {"sctp"} ELSE {})

OptionNames == DOMAIN Table \cup RoleOptions \cup ProtocolOptions \cup
               DirectionOptions

----------------------------------------------------------------------------
(* The members of a new test: iperf_new_test clears the structure and      *)
(* iperf_defaults sets what is not zero.                                   *)
NonZero == [role |-> "none", mode |-> "RECEIVER", protocol |-> "tcp",
            duration |-> 10, affinity |-> -1, server_affinity |-> -1,
            server_port |-> 5201, stats_interval |-> 10,
            reporter_interval |-> 10, num_streams |-> 1,
            unit_format |-> 97, blksize |-> DefaultTcpBlksize,
            bitrate_limit_interval |-> 50, pacing_timer |-> 1000,
            gso_bf_size |-> MaxUdpBlksize, gro_bf_size |-> MaxUdpBlksize,
            connect_timeout |-> -1, rcv_timeout |-> 120000]

Fields ==
  (UNION {r.fields \cup r.also : r \in Rows}) \cup
  DOMAIN NonZero \cup
  {"client_flag", "server_flag", "sender_has_retransmits", "reverse",
   "bidirectional", "mptcp", "server_hostname", "gso_dg_size",
   "bitrate_limit_stats_per_interval", "authtoken", "client_username",
   "client_rsa_public_key", "server_rsa_private_key",
   "server_authorized_users", "server_skew_threshold", "use_pkcs1_padding"}

Default(f) == IF f \in DOMAIN NonZero THEN NonZero[f] ELSE 0

iperf_defaults == [f \in Fields |-> Default(f)]

\* t with value v in the members fs
Put(t, fs, v) == [f \in DOMAIN t |-> IF f \in fs THEN v ELSE t[f]]

check_sender_has_retransmits(t) ==
  [t EXCEPT !["sender_has_retransmits"] =
     IF t["mode"] # "RECEIVER" /\ t["protocol"] = "tcp" /\ HaveRetransmits
     THEN 1 ELSE 0]

\* which way the data of a test in one direction goes
Direction(role, reverse) ==
  IF (role = "c") = (reverse = 0) THEN "SENDER" ELSE "RECEIVER"

\* mutant: an option -R before -c is forgotten
iperf_set_test_role_Forward(t, role) ==
  check_sender_has_retransmits(
    [t EXCEPT !["role"] = role,
              !["mode"] = IF t["reverse"] = 0 /\ t["bidirectional"] = 1
                          THEN "BIDIRECTIONAL"
                          ELSE Direction(role, 0)])

iperf_set_test_role(t, role) ==
  check_sender_has_retransmits(
    [t EXCEPT !["role"] = role,
              !["mode"] = IF t["reverse"] = 0 /\ t["bidirectional"] = 1
                          THEN "BIDIRECTIONAL"
                          ELSE Direction(role, t["reverse"])])

iperf_set_test_reverse(t) ==
  check_sender_has_retransmits(
    [t EXCEPT !["reverse"] = 1,
              !["mode"] = IF t["role"] = "none" THEN @
                          ELSE Direction(t["role"], 1)])

iperf_set_test_bidirectional(t) ==
  [t EXCEPT !["bidirectional"] = 1, !["mode"] = "BIDIRECTIONAL"]

\* a protocol that is not in the list of the build is not set, and the
\* result, -1, is one that no caller looks at
set_protocol(t, p, protocols) ==
  IF p \in protocols
  THEN check_sender_has_retransmits([t EXCEPT !["protocol"] = p]) ELSE t

----------------------------------------------------------------------------
(* iperf_parse_arguments: a parse is [t |-> the test so far, err |-> the   *)
(* error or "none"]; after an error the remaining options are not read.    *)
Parsed(t) == [t |-> t, err |-> "none"]
Failed(t, e) == [t |-> t, err |-> e]

ParseRow(t, r, a) ==
  IF a = Bad /\ r.err # "none" THEN Failed(Put(t, r.fields, a), r.err)
  ELSE Parsed(Put(Put(t, r.fields, a), r.also, 1))

ParseRole(t, o) ==
  LET role == IF o = "-s" THEN "s" ELSE "c" IN
  IF t["role"] \notin {"none", role} THEN Failed(t, "IESERVCLIENT")
  ELSE Parsed(Put(iperf_set_test_role(t, role),
                  IF role = "c" THEN {"server_hostname"} ELSE {}, 1))

\* a build that knows --sctp has the protocol
ParseProtocol(t, o) ==
  CASE o = "-u" -> Parsed(Put(set_protocol(t, "udp", AllProtocols),
                              Client, 1))
    [] o = "--sctp" -> Parsed(Put(set_protocol(t, "sctp", AllProtocols),
                                  Client, 1))
    [] o = "-m" -> Parsed(Put(set_protocol(t, "tcp", AllProtocols),
                              {"mptcp"}, 1))

ParseDirection(t, o) ==
  IF t[IF o = "-R" THEN "bidirectional" ELSE "reverse"] = 1
  THEN Failed(t, "IEREVERSEBIDIR")
  ELSE Parsed(Put(IF o = "-R" THEN iperf_set_test_reverse(t)
                  ELSE iperf_set_test_bidirectional(t), Client, 1))

ParseOption(p, x) ==
  IF p.err # "none" THEN p
  ELSE CASE x.o \in RoleOptions -> ParseRole(p.t, x.o)
         [] x.o \in ProtocolOptions -> ParseProtocol(p.t, x.o)
         [] x.o \in DirectionOptions -> ParseDirection(p.t, x.o)
         [] OTHER -> ParseRow(p.t, Table[x.o], x.a)

\* an option of a build that lacks some: getopt_long does not know it, or
\* its case in the switch is IEUNIMP
ParseBuilt(lacks, t, x) ==
  IF x.o \in lacks THEN Failed(t, "IEUNIMP") ELSE ParseOption(Parsed(t), x)

----------------------------------------------------------------------------
(* What follows the last option.  env holds what fails outside: the key    *)
(* or the list of users cannot be read, the size of the file is unknown.   *)
Raised(t, f) == t[f] # 0
Both(t) == Raised(t, "client_username") /\ Raised(t, "client_rsa_public_key")
Either(t) == Raised(t, "client_username") \/ Raised(t, "client_rsa_public_key")
ServerBoth(t) == /\ Raised(t, "server_rsa_private_key")
                 /\ Raised(t, "server_authorized_users")
ServerEither(t) == \/ Raised(t, "server_rsa_private_key")
                   \/ Raised(t, "server_authorized_users")

\* the checks in their order, each the error that it gives or "none"
Check(fails, err) == IF fails THEN err ELSE "none"

RoleChecks(t) == <<
  Check(t["role"] = "c" /\ Raised(t, "server_flag"), "IESERVERONLY"),
  Check(t["role"] = "s" /\ Raised(t, "client_flag"), "IECLIENTONLY"),
  Check(t["role"] = "s" /\ Raised(t, "gsro_flag"), "IECLIENTONLY") >>

AuthChecks(t, env) == <<
  Check(t["role"] = "s" /\ Either(t), "IECLIENTONLY"),
  Check(t["role"] = "c" /\ Either(t) /\ ~Both(t), "IESETCLIENTAUTH"),
  Check(t["role"] = "c" /\ Both(t) /\ "key" \in env, "IESETCLIENTAUTH"),
  Check(t["role"] = "c" /\ ServerEither(t), "IESERVERONLY"),
  Check(t["role"] = "c" /\ t["server_skew_threshold"] # 0, "IESERVERONLY"),
  Check(t["role"] = "c" /\ Raised(t, "rcv_timeout_flag")
                       /\ t["mode"] = "SENDER", "IERVRSONLYRCVTIMEOUT"),
  Check(t["role"] = "s" /\ ServerEither(t) /\ ~ServerBoth(t),
        "IESETSERVERAUTH"),
  Check(t["role"] = "s" /\ Raised(t, "server_authorized_users")
                       /\ "users" \in env, "IESERVERAUTHUSERS"),
  Check(t["role"] = "s" /\ Raised(t, "server_rsa_private_key")
                       /\ "key" \in env, "IESETSERVERAUTH") >>

\* the block size: 0 with UDP until the control connection is known
DefaultBlksize(protocol) ==
  CASE protocol = "udp" -> 0
    [] protocol = "sctp" -> DefaultSctpBlksize
    [] protocol = "tcp" -> DefaultTcpBlksize

Blksize(t) == IF t["blksize_arg"] # 0 THEN t["blksize_arg"]
              ELSE DefaultBlksize(t["protocol"])

SizeChecks(t) == <<
  Check(Raised(t, "diskfile_name") /\ t["protocol"] = "udp",
        "IEUDPFILETRANSFER"),
  Check(\/ t["protocol"] # "udp" /\ Blksize(t) <= 0
        \/ Blksize(t) > MaxBlksize, "IEBLOCKSIZE"),
  Check(t["protocol"] = "udp" /\ Blksize(t) > 0 /\
          (Blksize(t) < MinUdpBlksize \/ Blksize(t) > MaxUdpBlksize),
        "IEUDPBLOCKSIZE") >>

EndChecks(t) == <<
  Check(\/ Raised(t, "duration_flag") /\ (t["bytes"] # 0 \/ t["blocks"] # 0)
        \/ t["bytes"] # 0 /\ t["blocks"] # 0, "IEENDCONDITIONS"),
  Check(t["role"] = "none", "IENOROLE") >>

FirstError(checks) ==
  LET failed == {i \in DOMAIN checks : checks[i] # "none"} IN
  IF failed = {} THEN "none"
  ELSE checks[CHOOSE i \in failed : \A j \in failed : i <= j]

\* the segments that a send may carry: whole datagrams
Segmented(t, size) ==
  IF size > 0
  THEN [t EXCEPT !["gso_dg_size"] = size,
                 !["gso_bf_size"] = (@ \div size) * size]
  ELSE [t EXCEPT !["gso_dg_size"] = DefaultUdpBlksize]

Rate(t) == IF Raised(t, "rate_flag") THEN t["rate"]
           ELSE IF t["protocol"] = "udp" THEN DefaultUdpRate ELSE 0

SkewThreshold(t) ==
  IF HaveSSL /\ t["role"] = "s" /\ t["server_skew_threshold"] = 0
     /\ Raised(t, "server_rsa_private_key")
  THEN 10 ELSE t["server_skew_threshold"]

SetSizes(t) ==
  LET g == IF t["protocol"] = "udp" /\ t["gso"] = 1
           THEN Segmented(t, Blksize(t)) ELSE t
  IN  [g EXCEPT !["blksize"] = Blksize(t), !["rate"] = Rate(t),
                !["server_skew_threshold"] = SkewThreshold(t)]

\* -F without an end of its own: the file's size ends the test
SetEnd(t, env, fileSize) ==
  LET b == IF /\ t["bytes"] = 0 /\ t["blocks"] = 0
              /\ ~Raised(t, "duration_flag")
              /\ Raised(t, "diskfile_name") /\ t["role"] = "c"
              /\ "stat" \notin env
           THEN [t EXCEPT !["bytes"] = fileSize] ELSE t
  IN  IF (b["bytes"] # 0 \/ b["blocks"] # 0) /\ ~Raised(b, "duration_flag")
      THEN [b EXCEPT !["duration"] = 0] ELSE b

Round(a, b) == (2 * a + b) \div (2 * b)

\* the statistics that make up one interval of the server's bitrate limit
SetLimitInterval(t) ==
  LET n == t["bitrate_limit_interval"]  s == t["stats_interval"] IN
  IF n = 0 THEN t
  ELSE [t EXCEPT !["bitrate_limit_stats_per_interval"] =
                    IF n <= s \/ s = 0 THEN 1 ELSE Round(n, s)]

ParseEnd(t, env, fileSize) ==
  LET ended == SetEnd(SetSizes(t), env, fileSize)
      err == FirstError(RoleChecks(t) \o
                        (IF HaveSSL THEN AuthChecks(t, env) ELSE <<>>) \o
                        SizeChecks(t) \o EndChecks(ended))
  IN  IF err = "none" THEN Parsed(SetLimitInterval(ended))
      ELSE Failed(t, err)
=============================================================================
