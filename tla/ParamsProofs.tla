---------------------------- MODULE ParamsProofs ----------------------------
(***************************************************************************)
(* The parameters of a test, for every set of options of server and        *)
(* clients, every number of options on a line and every number of tests.   *)
(***************************************************************************)
EXTENDS Params, FiniteSetTheorems, WellFoundedInduction, TLAPS

----------------------------------------------------------------------------
(* The tables.                                                             *)

\* the members that only an option of a client sets
ClientOnly ==
  {"mss", "no_delay", "reverse", "bidirectional", "socket_bufsize", "rate",
   "fqrate", "burst", "tos", "title", "extra_data", "congestion",
   "udp_counters_64bit", "zerocopy", "dont_fragment", "skip_rx_copy",
   "server_affinity", "rate_flag"}

\* the members that no row of the table sets
Fixed == {"role", "mode", "protocol", "sender_has_retransmits", "reverse",
          "bidirectional", "authtoken", "gso_dg_size", "blksize"}

RowOK(r) ==
  /\ \A f \in Fixed : f \notin r.fields /\ f \notin r.also
  /\ "client_flag" \notin r.fields
  /\ "duration" \notin r.also
  /\ "duration" \in r.fields => r.option = "-t" /\ r.err # "none"
  /\ "client_flag" \notin r.also =>
       \A f \in ClientOnly : f \notin r.fields /\ f \notin r.also

(* The rows keep to the members that their options are for.                *)
LEMMA RowsOK == \A r \in Rows : RowOK(r)
<1>1. \A r \in OutputOptions : RowOK(r)
  BY DEF OutputOptions, Row, Client, Server, RowOK, Fixed, ClientOnly
<1>2. \A r \in LoadOptions : RowOK(r)
  BY DEF LoadOptions, Row, Client, Server, RowOK, Fixed, ClientOnly
<1>3. \A r \in SocketOptions : RowOK(r)
  BY DEF SocketOptions, Row, Client, Server, RowOK, Fixed, ClientOnly
<1>4. \A r \in TestOptions : RowOK(r)
  BY DEF TestOptions, Row, Client, Server, RowOK, Fixed, ClientOnly
<1>5. \A r \in OtherOptions : RowOK(r)
  BY DEF OtherOptions, Row, Client, Server, RowOK, Fixed, ClientOnly
<1>6. \A r \in AuthOptions : RowOK(r)
  BY DEF AuthOptions, Row, Client, Server, RowOK, Fixed, ClientOnly
<1> QED BY <1>1, <1>2, <1>3, <1>4, <1>5, <1>6 DEF Rows

(* The row of an option is one of the rows, and of this option.            *)
LEMMA TableRow ==
  ASSUME NEW o \in DOMAIN Table
  PROVE  Table[o] \in Rows /\ Table[o].option = o
<1>1. PICK r \in Rows : r.option = o
  BY DEF Table
<1> QED BY <1>1 DEF Table

\* the members that the proofs name
Names ==
  SentAlways \cup SentForUdp \cup SentIfSet \cup Fixed \cup ClientOnly \cup
  {"client_flag", "server_flag", "gsro_flag", "rate_flag", "duration_flag",
   "blksize_arg", "diskfile_name", "bitrate_limit", "max_server_duration",
   "client_username", "client_rsa_public_key", "server_rsa_private_key",
   "server_authorized_users", "one_off", "idle_timeout",
   "bitrate_limit_interval", "bitrate_limit_stats_per_interval",
   "stats_interval", "server_skew_threshold", "gso_bf_size",
   "server_affinity", "rcv_timeout_flag"}

(* Every member that a proof names is a member of a test.                  *)
LEMMA KnownFields == Names \subseteq Fields
<1>1. \A r \in OutputOptions \cup LoadOptions \cup SocketOptions \cup
               TestOptions \cup OtherOptions :
        \A f \in r.fields \cup r.also : f \in Fields
  BY DEF Fields, Rows
<1>2. {"one_off", "stats_interval"} \subseteq Fields
  <2>1. Row("-1", {"one_off"}, Server, "none") \in OutputOptions
    BY DEF OutputOptions
  <2>2. Row("-i", {"stats_interval", "reporter_interval"}, {}, "IEINTERVAL")
          \in OutputOptions
    BY DEF OutputOptions
  <2> QED BY <1>1, <2>1, <2>2 DEF Row
<1>3. {"rate", "rate_flag", "burst", "bitrate_limit", "duration_flag",
       "bytes", "blocks", "blksize_arg"} \subseteq Fields
  <2>1. /\ Row("-b", {"rate"}, {"client_flag", "rate_flag"}, "IEUNITVAL")
             \in LoadOptions
        /\ Row("-b/", {"burst"}, {"client_flag", "rate_flag"}, "IEBURST")
             \in LoadOptions
        /\ Row("--server-bitrate-limit", {"bitrate_limit"}, Server,
               "IEUNITVAL") \in LoadOptions
        /\ Row("-t", {"duration"}, {"client_flag", "duration_flag"},
               "IEDURATION") \in LoadOptions
        /\ Row("-n", {"bytes"}, Client, "IEUNITVAL") \in LoadOptions
        /\ Row("-k", {"blocks"}, Client, "IEUNITVAL") \in LoadOptions
        /\ Row("-l", {"blksize_arg"}, Client, "IEUNITVAL") \in LoadOptions
    BY DEF LoadOptions
  <2> QED BY <1>1, <2>1 DEF Row
<1>4. {"socket_bufsize", "mss", "no_delay", "tos", "extra_data",
       "flowlabel", "zerocopy"} \subseteq Fields
  <2>1. /\ Row("-w", {"socket_bufsize"}, Client, "IEBUFSIZE")
             \in SocketOptions
        /\ Row("-M", {"mss"}, Client, "IEMSS") \in SocketOptions
        /\ Row("-N", {"no_delay"}, Client, "none") \in SocketOptions
        /\ Row("-S", {"tos"}, Client, "IEBADTOS") \in SocketOptions
        /\ Row("--extra-data", {"extra_data"}, Client, "none")
             \in SocketOptions
        /\ Row("-L", {"flowlabel"}, Client, "IESETFLOW") \in SocketOptions
        /\ Row("-Z", {"zerocopy"}, Client, "IENOSENDFILE") \in SocketOptions
    BY DEF SocketOptions
  <2> QED BY <1>1, <2>1 DEF Row
<1>5. {"repeating_payload", "omit", "diskfile_name", "idle_timeout",
       "max_server_duration", "rcv_timeout_flag"} \subseteq Fields
  <2>1. /\ Row("--repeating-payload", {"repeating_payload"}, Client, "none")
             \in TestOptions
        /\ Row("-O", {"omit"}, Client, "IEOMIT") \in TestOptions
        /\ Row("-F", {"diskfile_name"}, {}, "none") \in TestOptions
        /\ Row("--idle-timeout", {"idle_timeout"}, Server, "IEIDLETIMEOUT")
             \in TestOptions
        /\ Row("--server-max-duration", {"max_server_duration"}, Server,
               "IEDURATION") \in TestOptions
        /\ Row("--rcv-timeout", {"rcv_timeout"}, {"rcv_timeout_flag"},
               "IERCVTIMEOUT") \in TestOptions
    BY DEF TestOptions
  <2> QED BY <1>1, <2>1 DEF Row
<1>6. {"title", "congestion", "get_server_output", "udp_counters_64bit",
       "fqrate", "dont_fragment", "skip_rx_copy", "gso", "gro",
       "gsro_flag"} \subseteq Fields
  <2>1. /\ Row("-T", {"title"}, Client, "none") \in OtherOptions
        /\ Row("-C", {"congestion"}, Client, "none") \in OtherOptions
        /\ Row("--get-server-output", {"get_server_output"}, Client, "none")
             \in OtherOptions
        /\ Row("--udp-counters-64bit", {"udp_counters_64bit"}, Client,
               "none") \in OtherOptions
        /\ Row("--fq-rate", {"fqrate"}, Client, "IEUNITVAL")
             \in OtherOptions
        /\ Row("--dont-fragment", {"dont_fragment"}, Client, "none")
             \in OtherOptions
        /\ Row("--skip-rx-copy", {"skip_rx_copy"}, Client, "none")
             \in OtherOptions
        /\ Row("--gsro", {"gso", "gro"}, {"gsro_flag"}, "none")
             \in OtherOptions
    BY DEF OtherOptions
  <2> QED BY <1>1, <2>1 DEF Row
<1>7. \A f \in DOMAIN NonZero : f \in Fields
  BY DEF Fields
<1>8. {"role", "mode", "protocol", "duration", "server_affinity",
       "num_streams", "blksize", "bitrate_limit_interval", "pacing_timer",
       "gso_bf_size", "gro_bf_size", "stats_interval"} \subseteq Fields
  BY <1>7 DEF NonZero
<1>9. {"client_flag", "server_flag", "sender_has_retransmits", "reverse",
       "bidirectional", "mptcp", "gso_dg_size",
       "bitrate_limit_stats_per_interval", "authtoken", "client_username",
       "client_rsa_public_key", "server_rsa_private_key",
       "server_authorized_users", "server_skew_threshold"} \subseteq Fields
  BY DEF Fields
<1> QED
  BY <1>2, <1>3, <1>4, <1>5, <1>6, <1>8, <1>9
     DEF Names, SentAlways, SentForUdp, SentIfSet, Fixed, ClientOnly

----------------------------------------------------------------------------
(* The checks that follow the last option.                                 *)

Clear(checks) == \A i \in DOMAIN checks : checks[i] = "none"

CheckErrors ==
  {"none", "IESERVERONLY", "IECLIENTONLY", "IESETCLIENTAUTH",
   "IERVRSONLYRCVTIMEOUT", "IESETSERVERAUTH", "IESERVERAUTHUSERS",
   "IEUDPFILETRANSFER", "IEBLOCKSIZE", "IEUDPBLOCKSIZE", "IEENDCONDITIONS",
   "IENOROLE", "IETOTALRATE", "IEMAXSERVERTESTDURATIONEXCEEDED"}

(* If no error is found then no check has failed.                          *)
LEMMA NoError ==
  ASSUME NEW checks \in Seq(CheckErrors), FirstError(checks) = "none"
  PROVE  Clear(checks)
<1> DEFINE R == {ss \in Nat \X Nat : ss[1] < ss[2]}
           F == {i \in DOMAIN checks : checks[i] # "none"}
<1> SUFFICES ASSUME F # {} PROVE FALSE
  BY DEF Clear
<1>1. IsWellFoundedOn(R, Nat)
  BY NatLessThanWellFounded, Zenon DEF OpToRel
<1>2. \A k, j \in Nat : <<k, j>> \in R <=> k < j
  OBVIOUS
<1>3. F \subseteq Nat
  OBVIOUS
<1>4. FirstError(checks) = checks[CHOOSE i \in F : \A j \in F : i <= j]
  BY DEF FirstError
<1>5. \A i \in F : checks[i] # "none"
  OBVIOUS
<1> HIDE DEF R, F
<1>6. PICK n \in F : \A j \in F : ~(<<j, n>> \in R)
  BY <1>1, <1>3, WFMin, Zenon
<1>7. \A j \in F : n <= j
  <2>1. \A j \in F : j \in Nat /\ n \in Nat /\ ~(j < n)
    BY <1>2, <1>3, <1>6, Zenon
  <2> QED BY <2>1
<1>8. (CHOOSE i \in F : \A j \in F : i <= j) \in F
  BY <1>7
<1> QED BY <1>4, <1>5, <1>8

(* If no check has failed then no error is found.                          *)
LEMMA NoFailure ==
  ASSUME NEW checks, Clear(checks)
  PROVE  FirstError(checks) = "none"
BY DEF Clear, FirstError

(* A sequence of checks is clear if its parts are.                         *)
LEMMA ClearParts ==
  ASSUME NEW a \in Seq(CheckErrors), NEW b \in Seq(CheckErrors)
  PROVE  /\ a \o b \in Seq(CheckErrors)
         /\ Clear(a \o b) <=> Clear(a) /\ Clear(b)
<1>1. /\ a \o b \in Seq(CheckErrors) /\ Len(a) \in Nat
      /\ DOMAIN a = 1 .. Len(a) /\ DOMAIN b = 1 .. Len(b)
      /\ DOMAIN (a \o b) = 1 .. Len(a) + Len(b)
  OBVIOUS
<1>2. \A i \in DOMAIN a : i \in DOMAIN (a \o b) /\ (a \o b)[i] = a[i]
  BY <1>1
<1>3. \A i \in DOMAIN b :
        Len(a) + i \in DOMAIN (a \o b) /\ (a \o b)[Len(a) + i] = b[i]
  BY <1>1
<1>4. \A i \in DOMAIN (a \o b) :
        \/ i \in DOMAIN a
        \/ i - Len(a) \in DOMAIN b /\ i = Len(a) + (i - Len(a))
  BY <1>1
<1>5. Clear(a \o b) => Clear(a) /\ Clear(b)
  BY <1>2, <1>3 DEF Clear
<1>6. ASSUME Clear(a), Clear(b), NEW i \in DOMAIN (a \o b)
      PROVE  (a \o b)[i] = "none"
  <2>1. CASE i \in DOMAIN a
    BY <1>2, <1>6, <2>1 DEF Clear
  <2>2. CASE i - Len(a) \in DOMAIN b /\ i = Len(a) + (i - Len(a))
    <3>1. (a \o b)[i] = b[i - Len(a)]
      BY <1>3, <2>2
    <3> QED BY <1>6, <2>2, <3>1 DEF Clear
  <2> QED BY <1>4, <2>1, <2>2
<1> QED BY <1>1, <1>5, <1>6 DEF Clear

(* The checks in a sequence of two and three.                              *)
LEMMA ClearTuples ==
  /\ \A a, b \in CheckErrors :
       /\ <<a, b>> \in Seq(CheckErrors)
       /\ Clear(<<a, b>>) <=> a = "none" /\ b = "none"
  /\ \A a, b, c \in CheckErrors :
       /\ <<a, b, c>> \in Seq(CheckErrors)
       /\ Clear(<<a, b, c>>) <=> a = "none" /\ b = "none" /\ c = "none"
<1>1. ASSUME NEW a \in CheckErrors, NEW b \in CheckErrors
      PROVE  Clear(<<a, b>>) <=> a = "none" /\ b = "none"
  <2>1. DOMAIN <<a, b>> = {1, 2}
    OBVIOUS
  <2> QED BY <2>1 DEF Clear
<1>2. ASSUME NEW a \in CheckErrors, NEW b \in CheckErrors,
             NEW c \in CheckErrors
      PROVE  Clear(<<a, b, c>>) <=> a = "none" /\ b = "none" /\ c = "none"
  <2>1. DOMAIN <<a, b, c>> = {1, 2, 3}
    OBVIOUS
  <2> QED BY <2>1 DEF Clear
<1> QED BY <1>1, <1>2

(* When the checks of each kind fail.                                      *)
RoleFails(t) ==
  \/ t["role"] = "c" /\ Raised(t, "server_flag")
  \/ t["role"] = "s" /\ Raised(t, "client_flag")
  \/ t["role"] = "s" /\ Raised(t, "gsro_flag")

AuthFails(t, env) ==
  \/ t["role"] = "s" /\ Either(t)
  \/ t["role"] = "c" /\ Either(t) /\ ~Both(t)
  \/ t["role"] = "c" /\ Both(t) /\ "key" \in env
  \/ t["role"] = "c" /\ ServerEither(t)
  \/ t["role"] = "c" /\ t["server_skew_threshold"] # 0
  \/ t["role"] = "c" /\ Raised(t, "rcv_timeout_flag")
                     /\ t["mode"] = "SENDER"
  \/ t["role"] = "s" /\ ServerEither(t) /\ ~ServerBoth(t)
  \/ t["role"] = "s" /\ Raised(t, "server_authorized_users")
                     /\ "users" \in env
  \/ t["role"] = "s" /\ Raised(t, "server_rsa_private_key")
                     /\ "key" \in env

SizeFails(t) ==
  \/ Raised(t, "diskfile_name") /\ t["protocol"] = "udp"
  \/ t["protocol"] # "udp" /\ Blksize(t) <= 0
  \/ Blksize(t) > MaxBlksize
  \/ t["protocol"] = "udp" /\ Blksize(t) > 0 /\
       (Blksize(t) < MinUdpBlksize \/ Blksize(t) > MaxUdpBlksize)

EndFails(t) ==
  \/ Raised(t, "duration_flag") /\ (t["bytes"] # 0 \/ t["blocks"] # 0)
  \/ t["bytes"] # 0 /\ t["blocks"] # 0
  \/ t["role"] = "none"

LEMMA RoleClear ==
  ASSUME NEW t
  PROVE  /\ RoleChecks(t) \in Seq(CheckErrors)
         /\ Clear(RoleChecks(t)) <=> ~RoleFails(t)
<1> DEFINE a == Check(t["role"] = "c" /\ Raised(t, "server_flag"),
                      "IESERVERONLY")
           b == Check(t["role"] = "s" /\ Raised(t, "client_flag"),
                      "IECLIENTONLY")
           c == Check(t["role"] = "s" /\ Raised(t, "gsro_flag"),
                      "IECLIENTONLY")
<1>1. a \in CheckErrors /\ b \in CheckErrors /\ c \in CheckErrors
  BY DEF Check, CheckErrors
<1>2. a = "none" /\ b = "none" /\ c = "none" <=> ~RoleFails(t)
  BY DEF Check, RoleFails
<1>3. RoleChecks(t) = <<a, b, c>>
  BY DEF RoleChecks
<1> HIDE DEF a, b, c
<1> QED BY <1>1, <1>2, <1>3, ClearTuples

LEMMA AuthClear ==
  ASSUME NEW t, NEW env
  PROVE  /\ AuthChecks(t, env) \in Seq(CheckErrors)
         /\ Clear(AuthChecks(t, env)) <=> ~AuthFails(t, env)
<1> DEFINE s == AuthChecks(t, env)
<1>1. \A i \in 1 .. 9 : s[i] \in CheckErrors
  BY DEF AuthChecks, Check, CheckErrors
<1>2. DOMAIN s = 1 .. 9
  BY DEF AuthChecks
<1>3. s \in Seq(CheckErrors)
  BY <1>1, <1>2 DEF AuthChecks
<1>4. /\ s[1] = "none" <=> ~(t["role"] = "s" /\ Either(t))
      /\ s[2] = "none" <=> ~(t["role"] = "c" /\ Either(t) /\ ~Both(t))
      /\ s[3] = "none" <=> ~(t["role"] = "c" /\ Both(t) /\ "key" \in env)
      /\ s[4] = "none" <=> ~(t["role"] = "c" /\ ServerEither(t))
      /\ s[5] = "none" <=>
           ~(t["role"] = "c" /\ t["server_skew_threshold"] # 0)
      /\ s[6] = "none" <=> ~(t["role"] = "c" /\
             Raised(t, "rcv_timeout_flag") /\ t["mode"] = "SENDER")
      /\ s[7] = "none" <=>
           ~(t["role"] = "s" /\ ServerEither(t) /\ ~ServerBoth(t))
      /\ s[8] = "none" <=> ~(t["role"] = "s" /\
             Raised(t, "server_authorized_users") /\ "users" \in env)
      /\ s[9] = "none" <=> ~(t["role"] = "s" /\
             Raised(t, "server_rsa_private_key") /\ "key" \in env)
  BY DEF AuthChecks, Check
<1> HIDE DEF s
<1>5. Clear(s) <=> \A i \in 1 .. 9 : s[i] = "none"
  BY <1>2 DEF Clear
<1>6. 1 .. 9 = {1, 2, 3, 4, 5, 6, 7, 8, 9}
  OBVIOUS
<1>7. Clear(s) <=> /\ s[1] = "none" /\ s[2] = "none" /\ s[3] = "none"
                   /\ s[4] = "none" /\ s[5] = "none" /\ s[6] = "none"
                   /\ s[7] = "none" /\ s[8] = "none" /\ s[9] = "none"
  BY <1>5, <1>6
<1> QED BY <1>3, <1>4, <1>7 DEF AuthFails, s

LEMMA SizeClear ==
  ASSUME NEW t
  PROVE  /\ SizeChecks(t) \in Seq(CheckErrors)
         /\ Clear(SizeChecks(t)) <=> ~SizeFails(t)
<1> DEFINE a == Check(Raised(t, "diskfile_name") /\ t["protocol"] = "udp",
                      "IEUDPFILETRANSFER")
           b == Check(\/ t["protocol"] # "udp" /\ Blksize(t) <= 0
                      \/ Blksize(t) > MaxBlksize, "IEBLOCKSIZE")
           c == Check(t["protocol"] = "udp" /\ Blksize(t) > 0 /\
                        (\/ Blksize(t) < MinUdpBlksize
                         \/ Blksize(t) > MaxUdpBlksize), "IEUDPBLOCKSIZE")
<1>1. a \in CheckErrors /\ b \in CheckErrors /\ c \in CheckErrors
  BY DEF Check, CheckErrors
<1>2. a = "none" /\ b = "none" /\ c = "none" <=> ~SizeFails(t)
  BY DEF Check, SizeFails
<1>3. SizeChecks(t) = <<a, b, c>>
  BY DEF SizeChecks
<1> HIDE DEF a, b, c
<1> QED BY <1>1, <1>2, <1>3, ClearTuples

LEMMA EndClear ==
  ASSUME NEW t
  PROVE  /\ EndChecks(t) \in Seq(CheckErrors)
         /\ Clear(EndChecks(t)) <=> ~EndFails(t)
<1> DEFINE a == Check(\/ Raised(t, "duration_flag") /\
                         (t["bytes"] # 0 \/ t["blocks"] # 0)
                      \/ t["bytes"] # 0 /\ t["blocks"] # 0,
                      "IEENDCONDITIONS")
           b == Check(t["role"] = "none", "IENOROLE")
<1>1. a \in CheckErrors /\ b \in CheckErrors
  BY DEF Check, CheckErrors
<1>2. a = "none" /\ b = "none" <=> ~EndFails(t)
  BY DEF Check, EndFails
<1>3. EndChecks(t) = <<a, b>>
  BY DEF EndChecks
<1> HIDE DEF a, b
<1> QED BY <1>1, <1>2, <1>3, ClearTuples

----------------------------------------------------------------------------
(* A program that reads its options.                                       *)

Numeric == {"duration", "omit", "rate", "fqrate", "num_streams",
            "bitrate_limit", "max_server_duration"}

IsTest(t) == DOMAIN t = Fields /\ \A f \in Numeric : t[f] \in Int

\* the direction follows from the options so far, in whatever order
Directed(t) ==
  /\ t["role"] \in {"none", "s", "c"}
  /\ t["reverse"] \in {0, 1} /\ t["bidirectional"] \in {0, 1}
  /\ ~(t["reverse"] = 1 /\ t["bidirectional"] = 1)
  /\ t["mode"] = IF t["bidirectional"] = 1 THEN "BIDIRECTIONAL"
                 ELSE IF t["role"] = "none" THEN "RECEIVER"
                 ELSE Direction(t["role"], t["reverse"])

\* without an option for clients their members are as they were
Unasked(t) ==
  t["client_flag"] = 0 =>
    /\ t["protocol"] = "tcp"
    /\ t["role"] # "c" => t["sender_has_retransmits"] = 0
    /\ \A f \in ClientOnly : t[f] = Default(f)

Parsing(t) ==
  /\ IsTest(t) /\ Directed(t) /\ Unasked(t)
  /\ t["duration"] >= 0
  /\ t["protocol"] \in {"tcp", "udp", "sctp"}
  /\ t["authtoken"] = 0

(* The default of each member that the proofs name.                        *)
LEMMA Defaults ==
  /\ Default("role") = "none" /\ Default("mode") = "RECEIVER"
  /\ Default("protocol") = "tcp" /\ Default("duration") = 10
  /\ Default("server_affinity") = -1 /\ Default("num_streams") = 1
  /\ Default("blksize") = DefaultTcpBlksize
  /\ \A f \in (Numeric \ {"duration", "num_streams"}) \cup
              (ClientOnly \ {"server_affinity"}) \cup
              {"authtoken", "client_flag", "sender_has_retransmits"} :
       Default(f) = 0
BY DEF Default, NonZero, Numeric, ClientOnly

LEMMA DefaultsParsing == Parsing(iperf_defaults)
<1>1. \A f \in Names : f \in Fields /\ iperf_defaults[f] = Default(f)
  BY KnownFields DEF iperf_defaults
<1>2. DOMAIN iperf_defaults = Fields
  BY DEF iperf_defaults
<1>3. IsTest(iperf_defaults)
  BY <1>1, <1>2, Defaults
     DEF IsTest, Numeric, Names, SentAlways, SentIfSet
<1>4. Directed(iperf_defaults)
  BY <1>1, Defaults DEF Directed, Names, Fixed, ClientOnly
<1>5. Unasked(iperf_defaults)
  BY <1>1, Defaults DEF Unasked, Names, Fixed
<1>6. /\ iperf_defaults["duration"] >= 0
      /\ iperf_defaults["protocol"] = "tcp"
      /\ iperf_defaults["authtoken"] = 0
  BY <1>1, Defaults DEF Names, SentAlways, Fixed
<1> QED BY <1>3, <1>4, <1>5, <1>6 DEF Parsing

(* Put changes the members that it is given and no other.                  *)
LEMMA PutMembers ==
  ASSUME NEW t, NEW fs, NEW v
  PROVE  /\ DOMAIN Put(t, fs, v) = DOMAIN t
         /\ \A f \in DOMAIN t :
              Put(t, fs, v)[f] = IF f \in fs THEN v ELSE t[f]
BY DEF Put

(* An option that has a row.                                               *)
LEMMA RowStep ==
  ASSUME NEW t, DOMAIN t = Fields, NEW r \in Rows, NEW a,
         ParseRow(t, r, a).err = "none"
  PROVE  LET u == ParseRow(t, r, a).t IN
         /\ ~(a = Bad /\ r.err # "none")
         /\ DOMAIN u = Fields
         /\ \A f \in Fields : u[f] = IF f \in r.also THEN 1
                                     ELSE IF f \in r.fields THEN a ELSE t[f]
<1> DEFINE u == Put(Put(t, r.fields, a), r.also, 1)
<1>1. ParseRow(t, r, a).t = u /\ ~(a = Bad /\ r.err # "none")
  <2>1. CASE a = Bad /\ r.err # "none"
    BY <2>1 DEF ParseRow, Failed, Parsed
  <2>2. CASE ~(a = Bad /\ r.err # "none")
    BY <2>2 DEF ParseRow, Parsed
  <2> QED BY <2>1, <2>2
<1>2. /\ DOMAIN u = Fields
      /\ \A f \in Fields : u[f] = IF f \in r.also THEN 1
                                  ELSE IF f \in r.fields THEN a ELSE t[f]
  BY PutMembers
<1> HIDE DEF u
<1> QED BY <1>1, <1>2

LEMMA RowParsing ==
  ASSUME NEW t, NEW r \in Rows, NEW a \in Int, Parsing(t),
         r.option = "-t" /\ a < 0 => a = Bad,
         ParseRow(t, r, a).err = "none"
  PROVE  Parsing(ParseRow(t, r, a).t)
<1> DEFINE u == ParseRow(t, r, a).t
<1>2. RowOK(r)
  BY RowsOK
<1>3. DOMAIN t = Fields
  BY DEF Parsing, IsTest
<1>4. /\ DOMAIN u = Fields /\ ~(a = Bad /\ r.err # "none")
      /\ \A f \in Fields : u[f] = IF f \in r.also THEN 1
                                  ELSE IF f \in r.fields THEN a ELSE t[f]
  BY <1>3, RowStep
<1>5. \A f \in Names : f \in Fields
  BY KnownFields
<1>6. \A f \in Fixed : u[f] = t[f]
  BY <1>2, <1>4, <1>5 DEF RowOK, Names
<1> HIDE DEF u
<1>7. IsTest(u)
  BY <1>4, <1>5 DEF Parsing, IsTest, Numeric, Names, SentAlways, SentIfSet
<1>8. Directed(u)
  BY <1>6 DEF Parsing, Directed, Fixed
<1>9. Unasked(u)
  <2>1. CASE "client_flag" \in r.also
    BY <1>4, <1>5, <2>1 DEF Unasked, Names
  <2>2. CASE "client_flag" \notin r.also
    <3>1. u["client_flag"] = t["client_flag"]
      BY <1>2, <1>4, <1>5, <2>2 DEF RowOK, Names
    <3>2. \A f \in ClientOnly : u[f] = t[f]
      BY <1>2, <1>4, <1>5, <2>2 DEF RowOK, Names
    <3>3. /\ u["protocol"] = t["protocol"] /\ u["role"] = t["role"]
          /\ u["sender_has_retransmits"] = t["sender_has_retransmits"]
      BY <1>6 DEF Fixed
    <3> QED BY <3>1, <3>2, <3>3 DEF Parsing, Unasked
  <2> QED BY <2>1, <2>2
<1>10. u["duration"] >= 0
  <2>1. u["duration"] = IF "duration" \in r.fields THEN a ELSE t["duration"]
    BY <1>2, <1>4, <1>5 DEF RowOK, Names, SentAlways
  <2>2. "duration" \in r.fields => a # Bad /\ r.option = "-t"
    BY <1>2, <1>4 DEF RowOK
  <2>3. t["duration"] >= 0
    BY DEF Parsing
  <2>4. CASE "duration" \in r.fields
    BY <2>1, <2>2, <2>4
  <2> QED BY <2>1, <2>3, <2>4
<1>11. u["protocol"] = t["protocol"] /\ u["authtoken"] = t["authtoken"]
  BY <1>6 DEF Fixed
<1> QED BY <1>7, <1>8, <1>9, <1>10, <1>11 DEF Parsing, u

(* The setters change what they are named for, and whether the sender has  *)
(* a count of retransmissions.                                             *)
Retransmits(mode, protocol) ==
  IF mode # "RECEIVER" /\ protocol = "tcp" /\ HaveRetransmits THEN 1 ELSE 0

LEMMA CheckMembers ==
  ASSUME NEW t, DOMAIN t = Fields
  PROVE  LET u == check_sender_has_retransmits(t) IN
         /\ DOMAIN u = Fields
         /\ u["sender_has_retransmits"] =
              Retransmits(t["mode"], t["protocol"])
         /\ \A f \in Fields \ {"sender_has_retransmits"} : u[f] = t[f]
<1>1. "sender_has_retransmits" \in Fields
  BY KnownFields DEF Names, Fixed
<1> QED BY <1>1 DEF check_sender_has_retransmits, Retransmits

LEMMA RoleMembers ==
  ASSUME NEW t, DOMAIN t = Fields, NEW role
  PROVE  LET u == iperf_set_test_role(t, role) IN
         /\ DOMAIN u = Fields
         /\ u["role"] = role
         /\ u["mode"] = IF t["reverse"] = 0 /\ t["bidirectional"] = 1
                        THEN "BIDIRECTIONAL"
                        ELSE Direction(role, t["reverse"])
         /\ u["sender_has_retransmits"] =
              Retransmits(u["mode"], u["protocol"])
         /\ \A f \in Fields \ {"sender_has_retransmits", "role", "mode"} :
              u[f] = t[f]
<1> DEFINE m == IF t["reverse"] = 0 /\ t["bidirectional"] = 1
                THEN "BIDIRECTIONAL" ELSE Direction(role, t["reverse"])
           v == [t EXCEPT !["role"] = role, !["mode"] = m]
<1>1. {"role", "mode", "protocol"} \subseteq Fields
  BY KnownFields DEF Names, Fixed
<1> HIDE DEF m
<1>2. /\ DOMAIN v = Fields /\ v["role"] = role /\ v["mode"] = m
      /\ \A f \in Fields \ {"role", "mode"} : v[f] = t[f]
  BY <1>1
<1>3. iperf_set_test_role(t, role) = check_sender_has_retransmits(v)
  BY DEF iperf_set_test_role, m
<1> HIDE DEF v
<1> QED BY <1>1, <1>2, <1>3, CheckMembers DEF m

LEMMA ReverseMembers ==
  ASSUME NEW t, DOMAIN t = Fields
  PROVE  LET u == iperf_set_test_reverse(t) IN
         /\ DOMAIN u = Fields
         /\ u["reverse"] = 1
         /\ u["mode"] = IF t["role"] = "none" THEN t["mode"]
                        ELSE Direction(t["role"], 1)
         /\ u["sender_has_retransmits"] =
              Retransmits(u["mode"], u["protocol"])
         /\ \A f \in Fields \ {"sender_has_retransmits", "reverse", "mode"} :
              u[f] = t[f]
<1> DEFINE m == IF t["role"] = "none" THEN t["mode"]
                ELSE Direction(t["role"], 1)
           v == [t EXCEPT !["reverse"] = 1, !["mode"] = m]
<1>1. {"reverse", "mode", "protocol"} \subseteq Fields
  BY KnownFields DEF Names, Fixed
<1>2. iperf_set_test_reverse(t) = check_sender_has_retransmits(v)
  BY DEF iperf_set_test_reverse
<1> HIDE DEF m
<1>3. /\ DOMAIN v = Fields /\ v["reverse"] = 1 /\ v["mode"] = m
      /\ \A f \in Fields \ {"reverse", "mode"} : v[f] = t[f]
  BY <1>1
<1> HIDE DEF v
<1> QED BY <1>1, <1>2, <1>3, CheckMembers DEF m

LEMMA BidirectionalMembers ==
  ASSUME NEW t, DOMAIN t = Fields
  PROVE  LET u == iperf_set_test_bidirectional(t) IN
         /\ DOMAIN u = Fields
         /\ u["bidirectional"] = 1 /\ u["mode"] = "BIDIRECTIONAL"
         /\ \A f \in Fields \ {"bidirectional", "mode"} : u[f] = t[f]
<1>1. {"bidirectional", "mode"} \subseteq Fields
  BY KnownFields DEF Names, Fixed
<1> QED BY <1>1 DEF iperf_set_test_bidirectional

LEMMA ProtocolMembers ==
  ASSUME NEW t, DOMAIN t = Fields, NEW protocols, NEW p \in protocols
  PROVE  LET u == set_protocol(t, p, protocols) IN
         /\ DOMAIN u = Fields
         /\ u["protocol"] = p
         /\ u["sender_has_retransmits"] = Retransmits(t["mode"], p)
         /\ \A f \in Fields \ {"sender_has_retransmits", "protocol"} :
              u[f] = t[f]
<1> DEFINE v == [t EXCEPT !["protocol"] = p]
<1>1. {"protocol", "mode"} \subseteq Fields
  BY KnownFields DEF Names, Fixed
<1>2. /\ DOMAIN v = Fields /\ v["protocol"] = p
      /\ \A f \in Fields \ {"protocol"} : v[f] = t[f]
  BY <1>1
<1>3. set_protocol(t, p, protocols) = check_sender_has_retransmits(v)
  BY DEF set_protocol
<1> HIDE DEF v
<1> QED BY <1>1, <1>2, <1>3, CheckMembers

(* The options that do more than a row says.                               *)
LEMMA RoleStep ==
  ASSUME NEW t, DOMAIN t = Fields, NEW o \in RoleOptions,
         ParseRole(t, o).err = "none"
  PROVE  LET u == ParseRole(t, o).t
             role == IF o = "-s" THEN "s" ELSE "c"
         IN
         /\ DOMAIN u = Fields /\ t["role"] \in {"none", role}
         /\ u["role"] = role
         /\ u["mode"] = IF t["reverse"] = 0 /\ t["bidirectional"] = 1
                        THEN "BIDIRECTIONAL"
                        ELSE Direction(role, t["reverse"])
         /\ u["sender_has_retransmits"] =
              Retransmits(u["mode"], u["protocol"])
         /\ \A f \in Names \ {"sender_has_retransmits", "role", "mode"} :
              u[f] = t[f]
<1> DEFINE role == IF o = "-s" THEN "s" ELSE "c"
           v == iperf_set_test_role(t, role)
           u == Put(v, IF role = "c" THEN {"server_hostname"} ELSE {}, 1)
<1>1. ParseRole(t, o).t = u /\ t["role"] \in {"none", role}
  BY DEF ParseRole, Failed, Parsed
<1>2. Names \subseteq Fields
  BY KnownFields
<1> HIDE DEF role
<1>3. /\ DOMAIN v = Fields /\ v["role"] = role
      /\ v["mode"] = IF t["reverse"] = 0 /\ t["bidirectional"] = 1
                     THEN "BIDIRECTIONAL" ELSE Direction(role, t["reverse"])
      /\ v["sender_has_retransmits"] = Retransmits(v["mode"], v["protocol"])
      /\ \A f \in Fields \ {"sender_has_retransmits", "role", "mode"} :
           v[f] = t[f]
  BY RoleMembers
<1> HIDE DEF v
<1>4. DOMAIN u = Fields /\ \A f \in Fields \ {"server_hostname"} : u[f] = v[f]
  BY <1>3, PutMembers
<1> HIDE DEF u
<1>5. "server_hostname" \notin Names
  BY DEF Names, SentAlways, SentForUdp, SentIfSet, Fixed, ClientOnly
<1>6. \A f \in {"role", "mode", "protocol", "sender_has_retransmits"} :
        u[f] = v[f]
  <2>1. {"role", "mode", "protocol", "sender_has_retransmits"}
          \subseteq Names
    BY DEF Names, Fixed
  <2> QED BY <1>2, <1>4, <1>5, <2>1
<1>7. \A f \in Names \ {"sender_has_retransmits", "role", "mode"} :
        u[f] = t[f]
  BY <1>2, <1>3, <1>4, <1>5
<1> QED BY <1>1, <1>3, <1>4, <1>6, <1>7 DEF role

LEMMA RoleParsing ==
  ASSUME NEW t, NEW o \in RoleOptions, Parsing(t),
         ParseRole(t, o).err = "none"
  PROVE  Parsing(ParseRole(t, o).t)
<1> DEFINE role == IF o = "-s" THEN "s" ELSE "c"
           u == ParseRole(t, o).t
<1>1. DOMAIN t = Fields /\ role \in {"s", "c"}
  BY DEF Parsing, IsTest
<1> HIDE DEF role
<1>2. /\ DOMAIN u = Fields /\ u["role"] = role
      /\ u["mode"] = IF t["reverse"] = 0 /\ t["bidirectional"] = 1
                     THEN "BIDIRECTIONAL" ELSE Direction(role, t["reverse"])
      /\ u["sender_has_retransmits"] = Retransmits(u["mode"], u["protocol"])
      /\ \A f \in Names \ {"sender_has_retransmits", "role", "mode"} :
           u[f] = t[f]
  BY <1>1, RoleStep DEF role
<1> HIDE DEF u
<1>3. /\ u["reverse"] = t["reverse"]
      /\ u["bidirectional"] = t["bidirectional"]
      /\ u["protocol"] = t["protocol"] /\ u["authtoken"] = t["authtoken"]
      /\ u["client_flag"] = t["client_flag"]
      /\ u["duration"] = t["duration"]
  BY <1>2 DEF Names, Fixed, SentAlways
<1>4. IsTest(u)
  BY <1>2 DEF Parsing, IsTest, Numeric, Names, SentAlways, SentIfSet
<1>5. Directed(u)
  BY <1>1, <1>2, <1>3 DEF Parsing, Directed
<1>6. Unasked(u)
  <2>1. \A f \in ClientOnly : u[f] = t[f]
    BY <1>2 DEF Names, ClientOnly
  <2> SUFFICES ASSUME t["client_flag"] = 0
               PROVE  u["role"] # "c" => u["sender_has_retransmits"] = 0
    BY <1>3, <2>1 DEF Parsing, Unasked
  <2>2. t["reverse"] = 0 /\ t["bidirectional"] = 0
    BY Defaults DEF Parsing, Unasked, ClientOnly
  <2> QED BY <1>1, <1>2, <2>2 DEF Retransmits, Direction
<1> QED BY <1>3, <1>4, <1>5, <1>6 DEF Parsing, u

LEMMA ProtocolStep ==
  ASSUME NEW t, DOMAIN t = Fields, NEW o \in ProtocolOptions
  PROVE  LET u == ParseProtocol(t, o).t IN
         /\ ParseProtocol(t, o).err = "none"
         /\ DOMAIN u = Fields
         /\ u["protocol"] = IF o = "-u" THEN "udp"
                            ELSE IF o = "-m" THEN "tcp" ELSE "sctp"
         /\ u["sender_has_retransmits"] =
              Retransmits(u["mode"], u["protocol"])
         /\ u["client_flag"] = IF o = "-m" THEN t["client_flag"] ELSE 1
         /\ \A f \in Names \ {"sender_has_retransmits", "protocol", "mptcp",
                               "client_flag"} : u[f] = t[f]
<1> DEFINE p == IF o = "-u" THEN "udp" ELSE IF o = "-m" THEN "tcp" ELSE "sctp"
           fs == IF o = "-m" THEN {"mptcp"} ELSE {"client_flag"}
           v == set_protocol(t, p, AllProtocols)
           u == Put(v, fs, 1)
<1>1. ParseProtocol(t, o).t = u /\ ParseProtocol(t, o).err = "none"
  BY DEF ParseProtocol, Parsed, ProtocolOptions, Client
<1>2. /\ Names \subseteq Fields
      /\ {"protocol", "client_flag", "mode", "sender_has_retransmits"}
           \subseteq Names
  BY KnownFields DEF Names, Fixed
<1>0. p \in AllProtocols
  BY DEF AllProtocols
<1> HIDE DEF p
<1>3. /\ DOMAIN v = Fields /\ v["protocol"] = p
      /\ v["sender_has_retransmits"] = Retransmits(t["mode"], p)
      /\ \A f \in Fields \ {"sender_has_retransmits", "protocol"} :
           v[f] = t[f]
  BY <1>0, ProtocolMembers
<1> HIDE DEF v
<1>4. /\ DOMAIN u = Fields
      /\ \A f \in Fields : u[f] = IF f \in fs THEN 1 ELSE v[f]
  BY <1>3, PutMembers
<1>5. fs \subseteq {"mptcp", "client_flag"}
  OBVIOUS
<1> HIDE DEF u
<1>6. \A f \in Fields \ {"mptcp", "client_flag"} : u[f] = v[f]
  BY <1>4, <1>5
<1>7. /\ u["protocol"] = p /\ u["mode"] = t["mode"]
      /\ u["sender_has_retransmits"] = Retransmits(t["mode"], p)
  BY <1>2, <1>3, <1>6
<1>8. u["client_flag"] = IF o = "-m" THEN t["client_flag"] ELSE 1
  BY <1>2, <1>3, <1>4
<1>9. \A f \in Names \ {"sender_has_retransmits", "protocol", "mptcp",
                        "client_flag"} : u[f] = t[f]
  BY <1>2, <1>3, <1>6
<1> QED BY <1>1, <1>4, <1>7, <1>8, <1>9 DEF p

LEMMA ProtocolParsing ==
  ASSUME NEW t, NEW o \in ProtocolOptions, Parsing(t)
  PROVE  Parsing(ParseProtocol(t, o).t)
<1> DEFINE u == ParseProtocol(t, o).t
<1>1. DOMAIN t = Fields
  BY DEF Parsing, IsTest
<1>2. /\ DOMAIN u = Fields
      /\ u["protocol"] = IF o = "-u" THEN "udp"
                         ELSE IF o = "-m" THEN "tcp" ELSE "sctp"
      /\ u["client_flag"] = IF o = "-m" THEN t["client_flag"] ELSE 1
      /\ u["sender_has_retransmits"] = Retransmits(u["mode"], u["protocol"])
      /\ \A f \in Names \ {"sender_has_retransmits", "protocol", "mptcp",
                            "client_flag"} : u[f] = t[f]
  BY <1>1, ProtocolStep
<1> HIDE DEF u
<1>3. /\ u["reverse"] = t["reverse"] /\ u["role"] = t["role"]
      /\ u["bidirectional"] = t["bidirectional"] /\ u["mode"] = t["mode"]
      /\ u["authtoken"] = t["authtoken"] /\ u["duration"] = t["duration"]
  BY <1>2 DEF Names, Fixed, SentAlways
<1>4. IsTest(u)
  BY <1>2 DEF Parsing, IsTest, Numeric, Names, SentAlways, SentIfSet
<1>5. Directed(u)
  BY <1>3 DEF Parsing, Directed
<1>6. Unasked(u)
  <2>1. \A f \in ClientOnly : u[f] = t[f]
    BY <1>2 DEF Names, ClientOnly
  <2> SUFFICES ASSUME u["client_flag"] = 0
               PROVE  u["role"] # "c" => u["sender_has_retransmits"] = 0
    BY <1>2, <2>1 DEF Parsing, Unasked
  <2>2. o = "-m" /\ t["client_flag"] = 0
    BY <1>2
  <2>3. t["reverse"] = 0 /\ t["bidirectional"] = 0
    BY <2>2, Defaults DEF Parsing, Unasked, ClientOnly
  <2>4. u["role"] # "c" => u["mode"] = "RECEIVER"
    BY <1>3, <2>3 DEF Parsing, Directed, Direction
  <2> QED BY <1>2, <2>4 DEF Retransmits
<1>7. u["protocol"] \in {"tcp", "udp", "sctp"}
  BY <1>2
<1> QED BY <1>3, <1>4, <1>5, <1>6, <1>7 DEF Parsing, u

LEMMA DirectionStep ==
  ASSUME NEW t, DOMAIN t = Fields, NEW o \in DirectionOptions,
         ParseDirection(t, o).err = "none"
  PROVE  LET u == ParseDirection(t, o).t IN
         /\ DOMAIN u = Fields /\ u["client_flag"] = 1
         /\ o = "-R" =>
              /\ t["bidirectional"] # 1 /\ u["reverse"] = 1
              /\ u["bidirectional"] = t["bidirectional"]
              /\ u["mode"] = IF t["role"] = "none" THEN t["mode"]
                             ELSE Direction(t["role"], 1)
              /\ u["sender_has_retransmits"] =
                   Retransmits(u["mode"], u["protocol"])
         /\ o = "--bidir" =>
              /\ t["reverse"] # 1 /\ u["bidirectional"] = 1
              /\ u["reverse"] = t["reverse"]
              /\ u["mode"] = "BIDIRECTIONAL"
              /\ u["sender_has_retransmits"] = t["sender_has_retransmits"]
         /\ \A f \in Names \ {"sender_has_retransmits", "reverse", "mode",
                               "bidirectional", "client_flag"} : u[f] = t[f]
<1> DEFINE v == IF o = "-R" THEN iperf_set_test_reverse(t)
                ELSE iperf_set_test_bidirectional(t)
           u == Put(v, Client, 1)
           Ways4 == {"sender_has_retransmits", "reverse", "mode",
                     "bidirectional"}
<1>1. /\ ParseDirection(t, o).t = u
      /\ t[IF o = "-R" THEN "bidirectional" ELSE "reverse"] # 1
  BY DEF ParseDirection, Parsed, Failed
<1>2. /\ Names \subseteq Fields
      /\ Ways4 \cup {"protocol", "client_flag"} \subseteq Names
  BY KnownFields DEF Names, Fixed
<1>3. DOMAIN v = Fields /\ \A f \in Fields \ Ways4 : v[f] = t[f]
  BY ReverseMembers, BidirectionalMembers
<1>4. o = "-R" =>
        /\ v["reverse"] = 1 /\ v["bidirectional"] = t["bidirectional"]
        /\ v["mode"] = IF t["role"] = "none" THEN t["mode"]
                       ELSE Direction(t["role"], 1)
        /\ v["sender_has_retransmits"] =
             Retransmits(v["mode"], v["protocol"])
  BY <1>2, ReverseMembers
<1>5. o = "--bidir" =>
        /\ v["bidirectional"] = 1 /\ v["reverse"] = t["reverse"]
        /\ v["mode"] = "BIDIRECTIONAL"
        /\ v["sender_has_retransmits"] = t["sender_has_retransmits"]
  BY <1>2, BidirectionalMembers
<1> HIDE DEF v
<1>6. /\ DOMAIN u = Fields /\ u["client_flag"] = 1
      /\ \A f \in Fields \ {"client_flag"} : u[f] = v[f]
  BY <1>2, <1>3, PutMembers DEF Client
<1> HIDE DEF u
<1>7. \A f \in Ways4 \cup {"protocol"} : u[f] = v[f]
  BY <1>2, <1>6
<1>8. \A f \in Names \ (Ways4 \cup {"client_flag"}) : u[f] = t[f]
  BY <1>2, <1>3, <1>6
<1>9. o = "-R" =>
        /\ t["bidirectional"] # 1 /\ u["reverse"] = 1
        /\ u["bidirectional"] = t["bidirectional"]
        /\ u["mode"] = IF t["role"] = "none" THEN t["mode"]
                       ELSE Direction(t["role"], 1)
        /\ u["sender_has_retransmits"] =
             Retransmits(u["mode"], u["protocol"])
  BY <1>1, <1>4, <1>7
<1>10. o = "--bidir" =>
         /\ t["reverse"] # 1 /\ u["bidirectional"] = 1
         /\ u["reverse"] = t["reverse"]
         /\ u["mode"] = "BIDIRECTIONAL"
         /\ u["sender_has_retransmits"] = t["sender_has_retransmits"]
  BY <1>1, <1>5, <1>7
<1> QED BY <1>1, <1>6, <1>8, <1>9, <1>10

LEMMA DirectionParsing ==
  ASSUME NEW t, NEW o \in DirectionOptions, Parsing(t),
         ParseDirection(t, o).err = "none"
  PROVE  Parsing(ParseDirection(t, o).t)
<1> DEFINE u == ParseDirection(t, o).t
<1>1. DOMAIN t = Fields
  BY DEF Parsing, IsTest
<1>2. /\ DOMAIN u = Fields /\ u["client_flag"] = 1
      /\ o = "-R" =>
           /\ t["bidirectional"] # 1 /\ u["reverse"] = 1
           /\ u["bidirectional"] = t["bidirectional"]
           /\ u["mode"] = IF t["role"] = "none" THEN t["mode"]
                          ELSE Direction(t["role"], 1)
      /\ o = "--bidir" =>
           /\ t["reverse"] # 1 /\ u["bidirectional"] = 1
           /\ u["reverse"] = t["reverse"]
           /\ u["mode"] = "BIDIRECTIONAL"
      /\ \A f \in Names \ {"sender_has_retransmits", "reverse", "mode",
                            "bidirectional", "client_flag"} : u[f] = t[f]
  BY <1>1, DirectionStep
<1> HIDE DEF u
<1>3. IsTest(u)
  BY <1>2 DEF Parsing, IsTest, Numeric, Names, SentAlways, SentIfSet
<1>4. /\ u["protocol"] = t["protocol"] /\ u["authtoken"] = t["authtoken"]
      /\ u["duration"] = t["duration"] /\ u["role"] = t["role"]
  BY <1>2 DEF Names, Fixed, SentAlways
<1>5. Directed(u)
  <2>1. CASE o = "-R"
    BY <1>2, <1>4, <2>1 DEF Parsing, Directed
  <2>2. CASE o = "--bidir"
    BY <1>2, <1>4, <2>2 DEF Parsing, Directed
  <2> QED BY <2>1, <2>2 DEF DirectionOptions
<1>6. Unasked(u)
  BY <1>2 DEF Unasked
<1> QED BY <1>3, <1>4, <1>5, <1>6 DEF Parsing, u

(* Every option that is taken.                                             *)
LEMMA OptionParsing ==
  ASSUME NEW t, NEW x \in CommandOptions, Parsing(t),
         ParseOption(Parsed(t), x).err = "none"
  PROVE  Parsing(ParseOption(Parsed(t), x).t)
<1>1. Parsed(t).err = "none" /\ Parsed(t).t = t
  BY DEF Parsed
<1>2. CASE x.o \in RoleOptions
  <2>1. ParseOption(Parsed(t), x) = ParseRole(t, x.o)
    BY <1>1, <1>2
       DEF ParseOption, RoleOptions, ProtocolOptions, DirectionOptions
  <2> QED BY <1>2, <2>1, RoleParsing
<1>3. CASE x.o \in ProtocolOptions
  <2>1. ParseOption(Parsed(t), x) = ParseProtocol(t, x.o)
    BY <1>1, <1>3
       DEF ParseOption, RoleOptions, ProtocolOptions, DirectionOptions
  <2> QED BY <1>3, <2>1, ProtocolParsing
<1>4. CASE x.o \in DirectionOptions
  <2>1. ParseOption(Parsed(t), x) = ParseDirection(t, x.o)
    BY <1>1, <1>4
       DEF ParseOption, RoleOptions, ProtocolOptions, DirectionOptions
  <2> QED BY <1>4, <2>1, DirectionParsing
<1>5. CASE x.o \notin RoleOptions \cup ProtocolOptions \cup
                      DirectionOptions
  <2>1. ParseOption(Parsed(t), x) = ParseRow(t, Table[x.o], x.a)
    BY <1>1, <1>5 DEF ParseOption
  <2>2. x.o \in DOMAIN Table /\ x.a \in Int
    BY <1>5 DEF CommandOptions, OptionNames
  <2>3. Table[x.o] \in Rows /\ Table[x.o].option = x.o
    BY <2>2, TableRow
  <2>4. x.o = "-t" /\ x.a < 0 => x.a = Bad
    BY DEF CommandOptions
  <2> HIDE DEF Bad
  <2> QED BY <2>1, <2>2, <2>3, <2>4, RowParsing
<1> QED BY <1>2, <1>3, <1>4, <1>5

LEMMA BuiltParsing ==
  ASSUME NEW lacks, NEW t, NEW x \in CommandOptions, Parsing(t),
         ParseBuilt(lacks, t, x).err = "none"
  PROVE  Parsing(ParseBuilt(lacks, t, x).t)
<1>1. ParseBuilt(lacks, t, x) = ParseOption(Parsed(t), x)
  BY DEF ParseBuilt, Failed
<1> QED BY <1>1, OptionParsing

----------------------------------------------------------------------------
(* A program that has read its options.                                    *)

SetAtEnd == {"blksize", "rate", "gso_dg_size", "gso_bf_size",
             "server_skew_threshold", "bytes", "duration",
             "bitrate_limit_stats_per_interval"}

(* The segments of a sender, whose size is never 0.                        *)
LEMMA SegmentedMembers ==
  ASSUME NEW t, DOMAIN t = Fields, NEW size
  PROVE  LET u == Segmented(t, size) IN
         /\ DOMAIN u = Fields
         /\ u["gso_dg_size"] # 0
         /\ \A f \in Fields \ {"gso_dg_size", "gso_bf_size"} : u[f] = t[f]
<1>1. {"gso_dg_size", "gso_bf_size"} \subseteq Fields
  BY KnownFields DEF Names, Fixed
<1>2. CASE size = 0
  BY <1>1, <1>2 DEF Segmented, DefaultUdpBlksize
<1>3. CASE size # 0
  BY <1>1, <1>3 DEF Segmented, DefaultUdpBlksize
<1> QED BY <1>2, <1>3

(* What follows the last option sets the members SetAtEnd.                 *)
LEMMA SizesMembers ==
  ASSUME NEW t, DOMAIN t = Fields
  PROVE  LET u == SetSizes(t) IN
         /\ DOMAIN u = Fields
         /\ u["blksize"] = Blksize(t)
         /\ u["rate"] = Rate(t)
         /\ \A f \in Fields \ {"blksize", "rate", "gso_dg_size",
                               "gso_bf_size", "server_skew_threshold"} :
              u[f] = t[f]
<1> DEFINE g == IF t["protocol"] = "udp" /\ t["gso"] = 1
                THEN Segmented(t, Blksize(t)) ELSE t
<1>1. {"blksize", "rate", "server_skew_threshold", "gso_dg_size",
       "gso_bf_size", "rate_flag"} \subseteq Fields
  BY KnownFields DEF Names, Fixed, SentIfSet
<1>2. /\ DOMAIN g = Fields
      /\ \A f \in Fields \ {"gso_dg_size", "gso_bf_size"} : g[f] = t[f]
  BY SegmentedMembers
<1>3. SetSizes(t) =
        [g EXCEPT !["blksize"] = Blksize(t), !["rate"] = Rate(t),
                  !["server_skew_threshold"] = SkewThreshold(t)]
  BY DEF SetSizes
<1> HIDE DEF g
<1>4. /\ DOMAIN SetSizes(t) = Fields /\ SetSizes(t)["blksize"] = Blksize(t)
      /\ SetSizes(t)["rate"] = Rate(t)
      /\ \A f \in Fields \ {"blksize", "rate", "server_skew_threshold"} :
           SetSizes(t)[f] = g[f]
  BY <1>1, <1>2, <1>3
<1> QED BY <1>1, <1>2, <1>4

LEMMA EndMembers ==
  ASSUME NEW t, DOMAIN t = Fields, NEW env, NEW size
  PROVE  LET u == SetLimitInterval(SetEnd(t, env, size)) IN
         /\ DOMAIN u = Fields
         /\ u["duration"] \in {t["duration"], 0}
         /\ \A f \in Fields \ {"bytes", "duration",
                               "bitrate_limit_stats_per_interval"} :
              u[f] = t[f]
<1> DEFINE b == IF /\ t["bytes"] = 0 /\ t["blocks"] = 0
                   /\ ~Raised(t, "duration_flag")
                   /\ Raised(t, "diskfile_name") /\ t["role"] = "c"
                   /\ "stat" \notin env
                THEN [t EXCEPT !["bytes"] = size] ELSE t
           e == SetEnd(t, env, size)
<1>1. {"bytes", "duration", "bitrate_limit_stats_per_interval"}
        \subseteq Fields
  BY KnownFields DEF Names, SentAlways
<1>2. DOMAIN b = Fields /\ \A f \in Fields \ {"bytes"} : b[f] = t[f]
  BY <1>1
<1>3. \/ e = b
      \/ e = [b EXCEPT !["duration"] = 0]
  BY DEF SetEnd
<1> HIDE DEF b, e
<1>4. /\ DOMAIN e = Fields /\ e["duration"] \in {t["duration"], 0}
      /\ \A f \in Fields \ {"bytes", "duration"} : e[f] = t[f]
  BY <1>1, <1>2, <1>3
<1>5. /\ DOMAIN SetLimitInterval(e) = Fields
      /\ \A f \in Fields \ {"bitrate_limit_stats_per_interval"} :
           SetLimitInterval(e)[f] = e[f]
  BY <1>1, <1>4 DEF SetLimitInterval
<1> QED BY <1>1, <1>4, <1>5 DEF e

(* A command line is accepted if no check fails.                           *)
LEMMA Accepted ==
  ASSUME NEW t, NEW env, NEW size
  PROVE  LET e == SetEnd(SetSizes(t), env, size)
             p == ParseEnd(t, env, size)
         IN
         /\ p.err = "none" <=>
              /\ ~RoleFails(t) /\ ~(HaveSSL /\ AuthFails(t, env))
              /\ ~SizeFails(t) /\ ~EndFails(e)
         /\ p.t = IF p.err = "none" THEN SetLimitInterval(e) ELSE t
<1> DEFINE e == SetEnd(SetSizes(t), env, size)
           a == IF HaveSSL THEN AuthChecks(t, env) ELSE <<>>
           all == RoleChecks(t) \o a \o SizeChecks(t) \o EndChecks(e)
           err == FirstError(all)
<1>1. ParseEnd(t, env, size) =
        IF err = "none" THEN Parsed(SetLimitInterval(e)) ELSE Failed(t, err)
  BY DEF ParseEnd
<1> HIDE DEF err, e, a, all
<1>2. /\ err = "none" <=> ParseEnd(t, env, size).err = "none"
      /\ ParseEnd(t, env, size).t =
           IF err = "none" THEN SetLimitInterval(e) ELSE t
  BY <1>1 DEF Parsed, Failed
<1>3. a \in Seq(CheckErrors) /\ (Clear(a) <=> ~(HaveSSL /\ AuthFails(t, env)))
  <2>1. CASE HaveSSL
    BY <2>1, AuthClear DEF a
  <2>2. CASE ~HaveSSL
    BY <2>2 DEF a, Clear
  <2> QED BY <2>1, <2>2
<1>4. /\ RoleChecks(t) \in Seq(CheckErrors)
      /\ SizeChecks(t) \in Seq(CheckErrors)
      /\ EndChecks(e) \in Seq(CheckErrors)
  BY RoleClear, SizeClear, EndClear
<1>5. /\ RoleChecks(t) \o a \in Seq(CheckErrors)
      /\ Clear(RoleChecks(t) \o a) <=> Clear(RoleChecks(t)) /\ Clear(a)
  BY <1>3, <1>4, ClearParts
<1>6. /\ (RoleChecks(t) \o a) \o SizeChecks(t) \in Seq(CheckErrors)
      /\ Clear((RoleChecks(t) \o a) \o SizeChecks(t)) <=>
           Clear(RoleChecks(t) \o a) /\ Clear(SizeChecks(t))
  BY <1>4, <1>5, ClearParts
<1>7. /\ all \in Seq(CheckErrors)
      /\ Clear(all) <=> Clear((RoleChecks(t) \o a) \o SizeChecks(t)) /\
                        Clear(EndChecks(e))
  BY <1>4, <1>6, ClearParts DEF all
<1>8. err = "none" <=> Clear(all)
  BY <1>7, NoError, NoFailure DEF err
<1>9. err = "none" <=> /\ ~RoleFails(t) /\ ~(HaveSSL /\ AuthFails(t, env))
                       /\ ~SizeFails(t) /\ ~EndFails(e)
  BY <1>3, <1>5, <1>6, <1>7, <1>8, RoleClear, SizeClear, EndClear
<1> QED BY <1>2, <1>9 DEF e

\* a server between two tests
Idle(s) ==
  /\ IsTest(s)
  /\ s["role"] = "s" /\ s["mode"] = "RECEIVER" /\ s["authtoken"] = 0
  /\ s["protocol"] = "tcp" /\ s["sender_has_retransmits"] = 0
  /\ \A f \in ClientOnly \ {"rate_flag"} : s[f] = Default(f)

\* a client that has read its options, and one that is connected
Ready(c) ==
  /\ IsTest(c) /\ Directed(c) /\ c["role"] = "c" /\ c["duration"] >= 0
  /\ c["protocol"] \in {"tcp", "udp", "sctp"}
  /\ c["protocol"] # "udp" => c["blksize"] # 0

Asking(c) ==
  /\ Ready(c) /\ c["blksize"] # 0
  /\ c["protocol"] = "udp" /\ c["gso"] = 1 => c["gso_dg_size"] # 0

(* What a command line that is accepted leaves.                            *)
LEMMA AcceptedMembers ==
  ASSUME NEW t, Parsing(t), NEW env, NEW size,
         ParseEnd(t, env, size).err = "none"
  PROVE  LET u == ParseEnd(t, env, size).t IN
         /\ IsTest(u) /\ u["duration"] >= 0
         /\ u["blksize"] = Blksize(t) /\ u["rate"] = Rate(t)
         /\ \A f \in Names \ SetAtEnd : u[f] = t[f]
<1> DEFINE v == SetSizes(t)
           u == SetLimitInterval(SetEnd(v, env, size))
<1>1. DOMAIN t = Fields /\ Names \subseteq Fields
  BY KnownFields DEF Parsing, IsTest
<1>2. ParseEnd(t, env, size).t = u
  BY Accepted
<1>3. /\ DOMAIN v = Fields /\ v["blksize"] = Blksize(t)
      /\ v["rate"] = Rate(t)
      /\ \A f \in Fields \ {"blksize", "rate", "gso_dg_size", "gso_bf_size",
                            "server_skew_threshold"} : v[f] = t[f]
  BY <1>1, SizesMembers
<1> HIDE DEF v
<1>4. /\ DOMAIN u = Fields /\ u["duration"] \in {v["duration"], 0}
      /\ \A f \in Fields \ {"bytes", "duration",
                            "bitrate_limit_stats_per_interval"} : u[f] = v[f]
  BY <1>3, EndMembers
<1> HIDE DEF u
<1>5. {"blksize", "rate", "duration"} \subseteq Fields
  BY <1>1 DEF Names, SentAlways, SentIfSet
<1>6. u["blksize"] = Blksize(t) /\ u["rate"] = Rate(t)
  BY <1>3, <1>4, <1>5
<1>7. u["duration"] \in {t["duration"], 0}
  BY <1>3, <1>4, <1>5
<1>8. \A f \in Names \ SetAtEnd : u[f] = t[f]
  BY <1>1, <1>3, <1>4 DEF SetAtEnd
<1>9. \A f \in Numeric : t[f] \in Int /\ f \in Names
  BY DEF Parsing, IsTest, Numeric, Names, SentAlways, SentIfSet
<1>10. Rate(t) \in Int
  BY <1>9 DEF Rate, DefaultUdpRate, Numeric
<1>11. u["duration"] \in Int /\ u["duration"] >= 0
  BY <1>7, <1>9 DEF Numeric, Parsing
<1>12. \A f \in Numeric : u[f] \in Int
  BY <1>6, <1>8, <1>9, <1>10, <1>11 DEF Numeric, SetAtEnd
<1> QED BY <1>2, <1>4, <1>6, <1>8, <1>11, <1>12 DEF IsTest

(* A server that starts is idle.                                           *)
LEMMA ServerIdle ==
  ASSUME NEW t, Parsing(t), NEW env, NEW size,
         ParseEnd(t, env, size).err = "none",
         ParseEnd(t, env, size).t["role"] = "s"
  PROVE  Idle(ParseEnd(t, env, size).t)
<1> DEFINE u == ParseEnd(t, env, size).t
<1>1. /\ IsTest(u) /\ u["rate"] = Rate(t)
      /\ \A f \in Names \ SetAtEnd : u[f] = t[f]
  BY AcceptedMembers
<1>3. ~(t["role"] = "s" /\ t["client_flag"] # 0)
  BY Accepted DEF RoleFails, Raised
<1>4. u["role"] = "s"
  OBVIOUS
<1> HIDE DEF u
<1>5. /\ u["role"] = t["role"] /\ u["mode"] = t["mode"]
      /\ u["authtoken"] = t["authtoken"] /\ u["protocol"] = t["protocol"]
      /\ u["sender_has_retransmits"] = t["sender_has_retransmits"]
  BY <1>1 DEF Names, Fixed, SetAtEnd
<1>6. /\ t["protocol"] = "tcp" /\ t["sender_has_retransmits"] = 0
      /\ \A f \in ClientOnly : t[f] = Default(f)
  BY <1>3, <1>4, <1>5 DEF Parsing, Unasked
<1>7. /\ t["reverse"] = 0 /\ t["bidirectional"] = 0 /\ t["rate_flag"] = 0
      /\ Default("rate") = 0
  BY <1>6, Defaults DEF ClientOnly
<1>8. u["mode"] = "RECEIVER"
  BY <1>4, <1>5, <1>7 DEF Parsing, Directed, Direction
<1>9. Rate(t) = 0
  BY <1>6, <1>7 DEF Rate, Raised
<1>10. \A f \in ClientOnly \ {"rate"} : u[f] = Default(f)
  <2>1. \A f \in ClientOnly \ {"rate"} : f \in Names \ SetAtEnd
    BY DEF Names, SetAtEnd, ClientOnly
  <2> QED BY <1>1, <1>6, <2>1
<1>11. u["authtoken"] = 0
  BY <1>5 DEF Parsing
<1> QED BY <1>1, <1>4, <1>5, <1>6, <1>7, <1>8, <1>9, <1>10, <1>11
        DEF Idle, u

(* A client that starts, and one that has connected.                       *)
LEMMA ClientReady ==
  ASSUME NEW t, Parsing(t), NEW env, NEW size,
         ParseEnd(t, env, size).err = "none",
         ParseEnd(t, env, size).t["role"] = "c"
  PROVE  Ready(ParseEnd(t, env, size).t)
<1> DEFINE u == ParseEnd(t, env, size).t
<1>1. /\ IsTest(u) /\ u["duration"] >= 0 /\ u["blksize"] = Blksize(t)
      /\ \A f \in Names \ SetAtEnd : u[f] = t[f]
  BY AcceptedMembers
<1>3. ~(t["protocol"] # "udp" /\ Blksize(t) <= 0)
  BY Accepted DEF SizeFails
<1>4. u["role"] = "c"
  OBVIOUS
<1> HIDE DEF u
<1>5. /\ u["role"] = t["role"] /\ u["mode"] = t["mode"]
      /\ u["protocol"] = t["protocol"] /\ u["reverse"] = t["reverse"]
      /\ u["bidirectional"] = t["bidirectional"]
  BY <1>1 DEF Names, Fixed, SetAtEnd
<1>6. Directed(u)
  BY <1>5 DEF Parsing, Directed
<1>7. u["protocol"] # "udp" => u["blksize"] # 0
  <2>1. Blksize(t) = 0 => Blksize(t) <= 0
    OBVIOUS
  <2> QED BY <1>1, <1>3, <1>5, <2>1
<1>8. u["protocol"] \in {"tcp", "udp", "sctp"}
  BY <1>5 DEF Parsing
<1> QED BY <1>1, <1>4, <1>6, <1>7, <1>8 DEF Ready, u

LEMMA ClientAsks ==
  ASSUME NEW t, Ready(t), NEW mss
  PROVE  Asking(Connected(t, mss))
<1> DEFINE v == [t EXCEPT !["blksize"] = UdpBlksize(t, mss)]
           w == IF t["gso"] = 1 THEN Segmented(v, v["blksize"]) ELSE v
<1>1. DOMAIN t = Fields /\ Names \subseteq Fields
  BY KnownFields DEF Ready, IsTest
<1>2. CASE t["protocol"] # "udp"
  BY <1>2 DEF Connected, Asking, Ready
<1>3. CASE t["protocol"] = "udp"
  <2>1. Connected(t, mss) = w
    BY <1>3 DEF Connected
  <2>2. UdpBlksize(t, mss) # 0
    BY DEF UdpBlksize, DefaultUdpBlksize
  <2>3. {"blksize", "gso"} \subseteq Fields
    BY <1>1 DEF Names, Fixed, SentForUdp
  <2>4. /\ DOMAIN v = Fields /\ v["blksize"] # 0
        /\ \A f \in Fields \ {"blksize"} : v[f] = t[f]
    BY <1>1, <2>2, <2>3
  <2> HIDE DEF v
  <2>5. /\ DOMAIN w = Fields
        /\ t["gso"] = 1 => w["gso_dg_size"] # 0
        /\ \A f \in Fields \ {"gso_dg_size", "gso_bf_size"} : w[f] = v[f]
    BY <2>4, SegmentedMembers
  <2> HIDE DEF w
  <2>6. /\ w["blksize"] # 0 /\ w["gso"] = t["gso"]
        /\ \A f \in Names \ {"gso_dg_size", "gso_bf_size", "blksize"} :
             w[f] = t[f]
    <3>1. w["blksize"] = v["blksize"] /\ w["gso"] = v["gso"]
      BY <2>3, <2>5
    <3> QED BY <1>1, <2>3, <2>4, <2>5, <3>1
  <2>7. /\ w["role"] = t["role"] /\ w["mode"] = t["mode"]
        /\ w["protocol"] = t["protocol"] /\ w["reverse"] = t["reverse"]
        /\ w["bidirectional"] = t["bidirectional"]
        /\ w["duration"] = t["duration"]
    BY <2>6 DEF Names, Fixed, SentAlways
  <2>8. IsTest(w)
    BY <2>5, <2>6
       DEF Ready, IsTest, Numeric, Names, SentAlways, SentIfSet
  <2>9. Directed(w)
    BY <2>7 DEF Ready, Directed
  <2> QED BY <2>1, <2>5, <2>6, <2>7, <2>8, <2>9 DEF Ready, Asking
<1> QED BY <1>2, <1>3

(* iperf_reset_test leaves an idle server, whatever the test was.          *)
LEMMA ResetIdle ==
  ASSUME NEW t, IsTest(t)
  PROVE  Idle(iperf_reset_test(t))
<1> DEFINE u == iperf_reset_test(t)
<1>1. DOMAIN t = Fields /\ Names \subseteq Fields
  BY KnownFields DEF IsTest
<1>2. /\ DOMAIN u = Fields
      /\ \A f \in Fields : u[f] = IF f = "role" THEN "s"
                                  ELSE IF f \in ResetFields
                                       THEN Default(f) ELSE t[f]
  BY <1>1 DEF iperf_reset_test
<1> HIDE DEF u
<1>3. \A f \in Names \cap ResetFields : u[f] = Default(f)
  BY <1>1, <1>2 DEF ResetFields
<1>4. /\ u["role"] = "s" /\ u["mode"] = "RECEIVER" /\ u["authtoken"] = 0
      /\ u["protocol"] = "tcp" /\ u["sender_has_retransmits"] = 0
  BY <1>1, <1>2, <1>3, Defaults DEF Names, Fixed, ResetFields
<1>5. \A f \in ClientOnly \ {"rate_flag"} : u[f] = Default(f)
  BY <1>3 DEF ClientOnly, Names, ResetFields
<1>6. \A f \in Numeric : u[f] \in {t[f], Default(f)}
  BY <1>1, <1>2 DEF Numeric, Names, SentAlways, SentIfSet
<1>7. \A f \in Numeric : Default(f) \in Int
  BY Defaults DEF Numeric
<1>8. IsTest(u)
  BY <1>2, <1>6, <1>7 DEF IsTest
<1> QED BY <1>4, <1>5, <1>8 DEF Idle, u

----------------------------------------------------------------------------
(* The exchange of the parameters.                                         *)

Wire == SentAlways \cup SentIfSet \cup SentForUdp \cup
        {"server_affinity", "authtoken"}

(* What a client sends.                                                    *)
LEMMA Sent ==
  ASSUME NEW c
  PROVE  LET msg == send_parameters(c) IN
         /\ DOMAIN msg \subseteq Wire
         /\ \A f \in SentAlways : f \in DOMAIN msg
         /\ \A f \in SentIfSet : f \in DOMAIN msg <=> c[f] # 0
         /\ c["protocol"] = "udp" => \A f \in SentForUdp : f \in DOMAIN msg
         /\ "server_affinity" \in DOMAIN msg <=> c["server_affinity"] # -1
         /\ "authtoken" \in DOMAIN msg <=> HaveSSL /\ Both(c)
         /\ \A f \in DOMAIN msg \ {"authtoken"} : msg[f] = c[f]
<1> DEFINE D == SentAlways \cup {f \in SentIfSet : c[f] # 0} \cup
                {f \in SentForUdp : c["protocol"] = "udp"} \cup
                {f \in {"server_affinity"} : c[f] # -1} \cup
                {f \in {"authtoken"} : HaveSSL /\ Both(c)}
           msg == send_parameters(c)
<1>1. /\ DOMAIN msg = D
      /\ \A f \in D : msg[f] = IF f = "authtoken" THEN 1 ELSE c[f]
  BY DEF send_parameters
<1>2. /\ "server_affinity" \notin SentAlways \cup SentIfSet \cup SentForUdp
      /\ "authtoken" \notin SentAlways \cup SentIfSet \cup SentForUdp
      /\ SentIfSet \cap SentAlways = {} /\ SentIfSet \cap SentForUdp = {}
  BY DEF SentAlways, SentIfSet, SentForUdp
<1>3. /\ "server_affinity" \in D <=> c["server_affinity"] # -1
      /\ "authtoken" \in D <=> HaveSSL /\ Both(c)
  BY <1>2
<1>4. /\ \A f \in SentAlways : f \in D
      /\ c["protocol"] = "udp" => \A f \in SentForUdp : f \in D
      /\ D \subseteq Wire
  BY DEF Wire
<1>5. \A f \in SentIfSet : f \in D <=> c[f] # 0
  <2> SUFFICES ASSUME NEW f \in SentIfSet PROVE f \in D <=> c[f] # 0
    OBVIOUS
  <2>1. f \notin SentAlways /\ f \notin SentForUdp /\ f # "server_affinity"
        /\ f # "authtoken"
    BY <1>2
  <2> QED BY <2>1
<1> HIDE DEF D
<1> QED BY <1>1, <1>3, <1>4, <1>5

\* the members that get_parameters does not only take as they are sent
Derived == {"protocol", "sender_has_retransmits", "mode", "reverse",
            "bidirectional", "gso_dg_size", "gso_bf_size"}

(* What a server makes of it.                                              *)
LEMMA Got ==
  ASSUME NEW s, Idle(s), NEW c
  PROVE  LET msg == send_parameters(c)
             t == get_parameters(s, msg)
             D == DOMAIN msg
         IN
         /\ DOMAIN t = Fields
         /\ \A f \in Names \ Derived :
              t[f] = IF f \in D \ Unread THEN msg[f]
                     ELSE IF f \in {"bytes", "blocks"} THEN 0 ELSE s[f]
         /\ ~(msg["protocol"] = "udp" /\ s["diskfile_name"] # 0) =>
              /\ t["protocol"] = ProtocolRun(msg)
              /\ t["sender_has_retransmits"] =
                   Retransmits(t["mode"], t["protocol"])
         /\ t["reverse"] = IF "reverse" \in D THEN 1 ELSE 0
         /\ t["bidirectional"] = IF "bidirectional" \in D THEN 1 ELSE 0
         /\ t["mode"] = IF "bidirectional" \in D THEN "BIDIRECTIONAL"
                        ELSE IF "reverse" \in D THEN "SENDER" ELSE "RECEIVER"
         /\ \A f \in {"gso_dg_size", "gso_bf_size"} :
              f \in D /\ "gso_dg_size" \in D /\
              ~(t["gso"] = 1 /\ msg["gso_dg_size"] = 0) => t[f] = msg[f]
<1> DEFINE msg == send_parameters(c)
           D == DOMAIN msg
           p == TakeProtocol(s, msg)
           k == Taken(p, msg)
           a == [k EXCEPT !["protocol"] = p["protocol"]]
           r == IF "reverse" \in D THEN iperf_set_test_reverse(a) ELSE a
           b == IF "bidirectional" \in D
                THEN iperf_set_test_bidirectional(r) ELSE r
           d == TakeSegments(b)
           t == get_parameters(s, msg)
           plain == ~(msg["protocol"] = "udp" /\ s["diskfile_name"] # 0)
           Val(f) == IF f \in D \ Unread THEN msg[f]
                     ELSE IF f \in {"bytes", "blocks"} THEN 0 ELSE s[f]
<1>1. /\ DOMAIN s = Fields /\ Names \subseteq Fields /\ s["role"] = "s"
      /\ s["mode"] = "RECEIVER"
  BY KnownFields DEF Idle, IsTest
<1>2. D \subseteq Wire
  BY Sent
<1>3. t = IF d["mode"] # "RECEIVER" /\ d["protocol"] = "tcp" /\
             HaveRetransmits
          THEN [d EXCEPT !["sender_has_retransmits"] = 1] ELSE d
  BY DEF get_parameters, TakeDirection
<1>4. /\ DOMAIN p = Fields
      /\ \A f \in Fields \ {"sender_has_retransmits", "protocol"} :
           p[f] = s[f]
      /\ plain => /\ p["protocol"] = ProtocolRun(msg)
                  /\ p["sender_has_retransmits"] = 0
  <2>1. CASE plain /\ msg["protocol"] \in Protocols(ServerLacks)
    <3>1. p = set_protocol(s, msg["protocol"], Protocols(ServerLacks))
      BY <2>1 DEF TakeProtocol
    <3> QED BY <1>1, <2>1, <3>1, ProtocolMembers
            DEF ProtocolRun, Retransmits
  <2>2. CASE ~(plain /\ msg["protocol"] \in Protocols(ServerLacks))
    <3>1. p = s
      BY <2>2 DEF TakeProtocol, set_protocol
    <3> QED BY <1>1, <2>2, <3>1 DEF Idle, ProtocolRun
  <2> QED BY <2>1, <2>2
<1>5. Derived \subseteq Names
  BY DEF Derived, Names, Fixed
<1> HIDE DEF msg, p, plain
<1>6. /\ DOMAIN k = Fields
      /\ \A f \in Fields : k[f] = IF f \in D \ Unread THEN msg[f]
                                  ELSE IF f \in {"bytes", "blocks"} THEN 0
                                  ELSE p[f]
  BY <1>4 DEF Taken
<1> HIDE DEF k
<1>7. /\ DOMAIN a = Fields /\ a["protocol"] = p["protocol"]
      /\ \A f \in Fields \ {"protocol"} : a[f] = k[f]
  BY <1>1, <1>5, <1>6 DEF Derived
<1> HIDE DEF a
<1>8. /\ a["role"] = "s" /\ a["mode"] = "RECEIVER"
      /\ a["sender_has_retransmits"] = p["sender_has_retransmits"]
  <2>1. {"role", "mode", "sender_has_retransmits"} \cap Wire = {}
    BY DEF Wire, SentAlways, SentIfSet, SentForUdp
  <2>2. {"role", "mode", "sender_has_retransmits"} \subseteq Fields
    BY <1>1 DEF Names, Fixed
  <2>3. \A f \in {"role", "mode", "sender_has_retransmits"} : a[f] = p[f]
    BY <1>2, <1>6, <1>7, <2>1, <2>2
  <2> QED BY <1>1, <1>4, <2>2, <2>3
<1>9. \A f \in Fields \ {"sender_has_retransmits", "protocol"} :
        a[f] = Val(f)
  BY <1>4, <1>6, <1>7
<1> HIDE DEF Val
<1>10. /\ DOMAIN r = Fields
       /\ r["mode"] = IF "reverse" \in D THEN "SENDER" ELSE "RECEIVER"
       /\ r["reverse"] = IF "reverse" \in D THEN 1 ELSE a["reverse"]
       /\ r["sender_has_retransmits"] =
            IF "reverse" \in D THEN Retransmits(r["mode"], r["protocol"])
            ELSE a["sender_has_retransmits"]
       /\ \A f \in Fields \ {"sender_has_retransmits", "reverse", "mode"} :
            r[f] = a[f]
  BY <1>7, <1>8, ReverseMembers DEF Direction
<1> HIDE DEF r
<1>11. /\ DOMAIN b = Fields
       /\ b["mode"] = IF "bidirectional" \in D THEN "BIDIRECTIONAL"
                      ELSE r["mode"]
       /\ b["bidirectional"] = IF "bidirectional" \in D THEN 1
                               ELSE r["bidirectional"]
       /\ \A f \in Fields \ {"bidirectional", "mode"} : b[f] = r[f]
  BY <1>10, BidirectionalMembers
<1> HIDE DEF b
<1>12. /\ DOMAIN d = Fields
       /\ \A f \in Fields \ {"gso_dg_size", "gso_bf_size"} : d[f] = b[f]
       /\ ~(b["gso"] = 1 /\ b["gso_dg_size"] = 0) => d = b
  BY <1>11, SegmentedMembers DEF TakeSegments
<1> HIDE DEF d
<1>13. /\ DOMAIN t = Fields
       /\ \A f \in Fields \ {"sender_has_retransmits"} : t[f] = d[f]
       /\ t["sender_has_retransmits"] =
            IF d["mode"] # "RECEIVER" /\ d["protocol"] = "tcp" /\
               HaveRetransmits
            THEN 1 ELSE d["sender_has_retransmits"]
  BY <1>1, <1>3, <1>5, <1>12 DEF Derived
<1> HIDE DEF t
<1>14. \A f \in Names \ Derived : t[f] = Val(f)
  BY <1>1, <1>9, <1>10, <1>11, <1>12, <1>13 DEF Derived
<1>15. t["mode"] = IF "bidirectional" \in D THEN "BIDIRECTIONAL"
                   ELSE IF "reverse" \in D THEN "SENDER" ELSE "RECEIVER"
  BY <1>1, <1>5, <1>10, <1>11, <1>12, <1>13 DEF Derived
<1>16. /\ t["reverse"] = IF "reverse" \in D THEN 1 ELSE 0
       /\ t["bidirectional"] = IF "bidirectional" \in D THEN 1 ELSE 0
  <2>1. s["reverse"] = 0 /\ s["bidirectional"] = 0
    BY Defaults DEF Idle, ClientOnly
  <2>2. {"reverse", "bidirectional"} \subseteq Fields
    BY <1>1, <1>5 DEF Derived
  <2>3. /\ "reverse" \notin D => a["reverse"] = 0
        /\ "bidirectional" \notin D => a["bidirectional"] = 0
    BY <1>9, <2>1, <2>2 DEF Val
  <2>4. t["reverse"] = r["reverse"] /\ t["bidirectional"] = b["bidirectional"]
    BY <1>11, <1>12, <1>13, <2>2
  <2>5. r["bidirectional"] = a["bidirectional"]
    BY <1>10, <2>2
  <2> QED BY <1>10, <1>11, <2>3, <2>4, <2>5
<1>17. t["protocol"] = p["protocol"]
  <2>1. "protocol" \in Fields
    BY <1>1, <1>5 DEF Derived
  <2> QED BY <1>7, <1>10, <1>11, <1>12, <1>13, <2>1
<1>18. plain => t["sender_has_retransmits"] =
                  Retransmits(t["mode"], t["protocol"])
  <2>1. {"sender_has_retransmits", "mode", "protocol"} \subseteq Fields
    BY <1>1, <1>5 DEF Derived
  <2>2. /\ d["mode"] = t["mode"] /\ d["protocol"] = t["protocol"]
        /\ r["protocol"] = t["protocol"]
    BY <1>10, <1>11, <1>12, <1>13, <2>1
  <2>3. d["sender_has_retransmits"] = r["sender_has_retransmits"]
    BY <1>11, <1>12, <2>1
  <2>4. plain => a["sender_has_retransmits"] = 0
    BY <1>4, <1>8
  <2> QED BY <1>10, <1>11, <1>13, <1>15, <2>2, <2>3, <2>4 DEF Retransmits
<1>19. \A f \in {"gso_dg_size", "gso_bf_size"} :
         f \in D /\ "gso_dg_size" \in D /\
         ~(t["gso"] = 1 /\ msg["gso_dg_size"] = 0) => t[f] = msg[f]
  <2>1. {"gso_dg_size", "gso_bf_size", "gso"} \subseteq Fields
    BY <1>1, <1>5 DEF Derived, Names, SentForUdp
  <2>2. t["gso"] = b["gso"]
    BY <1>12, <1>13, <2>1
  <2>3. \A f \in {"gso_dg_size", "gso_bf_size"} :
          b[f] = IF f \in D THEN msg[f] ELSE s[f]
    BY <1>9, <1>10, <1>11, <2>1 DEF Val, Unread
  <2>4. \A f \in {"gso_dg_size", "gso_bf_size"} : t[f] = d[f]
    BY <1>13, <2>1
  <2> SUFFICES ASSUME NEW f \in {"gso_dg_size", "gso_bf_size"}, f \in D,
                      "gso_dg_size" \in D,
                      ~(t["gso"] = 1 /\ msg["gso_dg_size"] = 0)
               PROVE  t[f] = msg[f]
    OBVIOUS
  <2> QED BY <1>12, <2>2, <2>3, <2>4
<1> QED
  BY <1>4, <1>13, <1>14, <1>15, <1>16, <1>17, <1>18, <1>19
     DEF Val, plain, t, msg

(* A test that is not refused passes all checks of the server.             *)
LEMMA NotRefused ==
  ASSUME NEW s, NEW t, NEW msg, Refusal(s, t, msg) = "none"
  PROVE  /\ ~(s["bitrate_limit"] # 0 /\
                (\/ TotalRate(t, t["rate"]) > s["bitrate_limit"]
                 \/ TotalRate(t, t["fqrate"]) > s["bitrate_limit"]))
         /\ ~(s["max_server_duration"] > 0 /\
                (\/ t["duration"] + t["omit"] > s["max_server_duration"]
                 \/ t["duration"] = 0))
         /\ ~(msg["protocol"] = "udp" /\ s["diskfile_name"] # 0)
<1> DEFINE limit == s["bitrate_limit"]
           max == s["max_server_duration"]
           a == Check(limit # 0 /\ (\/ TotalRate(t, t["rate"]) > limit
                                    \/ TotalRate(t, t["fqrate"]) > limit),
                      "IETOTALRATE")
           b == Check(max > 0 /\ (\/ t["duration"] + t["omit"] > max
                                  \/ t["duration"] = 0),
                      "IEMAXSERVERTESTDURATIONEXCEEDED")
           c == Check(msg["protocol"] = "udp" /\ s["diskfile_name"] # 0,
                      "IEUDPFILETRANSFER")
<1>1. a \in CheckErrors /\ b \in CheckErrors /\ c \in CheckErrors
  BY DEF Check, CheckErrors
<1>2. Refusal(s, t, msg) = FirstError(<<a, b, c>>)
  BY DEF Refusal
<1>3. /\ a = "none" => ~(limit # 0 /\
           (\/ TotalRate(t, t["rate"]) > limit
            \/ TotalRate(t, t["fqrate"]) > limit))
      /\ b = "none" => ~(max > 0 /\ (\/ t["duration"] + t["omit"] > max
                                     \/ t["duration"] = 0))
      /\ c = "none" => ~(msg["protocol"] = "udp" /\ s["diskfile_name"] # 0)
  BY DEF Check
<1> HIDE DEF a, b, c
<1>4. a = "none" /\ b = "none" /\ c = "none"
  <2>1. <<a, b, c>> \in Seq(CheckErrors)
    BY <1>1, ClearTuples
  <2>2. Clear(<<a, b, c>>)
    BY <1>2, <2>1, NoError
  <2> QED BY <1>1, <2>2, ClearTuples
<1> QED BY <1>3, <1>4

\* ServerRunsTheTest and AdmittedWithinLimits, of any two structures
RunsTest(s, c, past) ==
  /\ s["protocol"] = ProtocolRun(c)
  /\ \A f \in Exchanged(c) \ (Sticky \cup Unread \cup {"protocol"}) :
       s[f] = c[f]
  /\ \A f \in Sticky : IF c[f] # 0 /\ f \notin Unread THEN s[f] = c[f]
                       ELSE s[f] \in past[f]
  /\ s["mode"] = CASE c["mode"] = "SENDER" -> "RECEIVER"
                   [] c["mode"] = "RECEIVER" -> "SENDER"
                   [] c["mode"] = "BIDIRECTIONAL" -> "BIDIRECTIONAL"
  /\ s["sender_has_retransmits"] = 1 <=>
       s["mode"] # "RECEIVER" /\ s["protocol"] = "tcp" /\ HaveRetransmits

Ways(c) == IF c["mode"] = "BIDIRECTIONAL" THEN 2 ELSE 1

WithinLimits(s, c) ==
  /\ s["bitrate_limit"] > 0 =>
       \A f \in {"rate", "fqrate"} :
         \/ c["num_streams"] * Ways(c) * c[f] <= s["bitrate_limit"]
         \/ c["num_streams"] * Ways(c) * c[f] >= RateMod
  /\ s["max_server_duration"] > 0 =>
       c["duration"] \in 1 .. s["max_server_duration"] - c["omit"]
  /\ s["diskfile_name"] # 0 => c["protocol"] # "udp"
  /\ NeedsAuth(s) => Both(c)

(* An exchange leaves a test in any case.                                  *)
LEMMA ExchangeIsTest ==
  ASSUME NEW s, Idle(s), NEW c, Asking(c)
  PROVE  IsTest(get_parameters(s, send_parameters(c)))
<1> DEFINE msg == send_parameters(c)
           t == get_parameters(s, msg)
<1>1. /\ DOMAIN t = Fields
      /\ \A f \in Names \ Derived :
           t[f] = IF f \in DOMAIN msg \ Unread THEN msg[f]
                  ELSE IF f \in {"bytes", "blocks"} THEN 0 ELSE s[f]
  BY Got
<1>2. \A f \in DOMAIN msg \ {"authtoken"} : msg[f] = c[f]
  BY Sent
<1> HIDE DEF t, msg
<1>3. \A f \in Numeric :
        f \in Names \ Derived /\ f \notin {"bytes", "blocks", "authtoken"}
  BY DEF Numeric, Derived, Names, SentAlways, SentIfSet
<1>4. \A f \in Numeric : t[f] \in {c[f], s[f]}
  BY <1>1, <1>2, <1>3
<1>5. \A f \in Numeric : c[f] \in Int /\ s[f] \in Int
  BY DEF Idle, Asking, Ready, IsTest
<1> QED BY <1>1, <1>4, <1>5 DEF IsTest, t, msg

(* The server runs the test that its client asked for.                     *)
LEMMA ExchangeRunsTest ==
  ASSUME NEW s, Idle(s), NEW c, Asking(c), NEW past,
         \A f \in Sticky : s[f] \in past[f],
         LET msg == send_parameters(c)
         IN  Refusal(s, get_parameters(s, msg), msg) = "none"
  PROVE  RunsTest(get_parameters(s, send_parameters(c)), c, past)
<1> DEFINE msg == send_parameters(c)
           D == DOMAIN msg
           t == get_parameters(s, msg)
<1>1. ~(msg["protocol"] = "udp" /\ s["diskfile_name"] # 0)
  BY NotRefused
<1>2. /\ \A f \in SentAlways : f \in D
      /\ \A f \in SentIfSet : f \in D <=> c[f] # 0
      /\ c["protocol"] = "udp" => \A f \in SentForUdp : f \in D
      /\ "server_affinity" \in D <=> c["server_affinity"] # -1
      /\ \A f \in D \ {"authtoken"} : msg[f] = c[f]
  BY Sent
<1>3. /\ \A f \in Names \ Derived :
           t[f] = IF f \in D \ Unread THEN msg[f]
                  ELSE IF f \in {"bytes", "blocks"} THEN 0 ELSE s[f]
      /\ t["protocol"] = ProtocolRun(msg)
      /\ t["sender_has_retransmits"] = Retransmits(t["mode"], t["protocol"])
      /\ t["reverse"] = IF "reverse" \in D THEN 1 ELSE 0
      /\ t["bidirectional"] = IF "bidirectional" \in D THEN 1 ELSE 0
      /\ t["mode"] = IF "bidirectional" \in D THEN "BIDIRECTIONAL"
                     ELSE IF "reverse" \in D THEN "SENDER" ELSE "RECEIVER"
      /\ \A f \in {"gso_dg_size", "gso_bf_size"} :
           f \in D /\ "gso_dg_size" \in D /\
           ~(t["gso"] = 1 /\ msg["gso_dg_size"] = 0) => t[f] = msg[f]
  BY <1>1, Got
<1> HIDE DEF t, msg
<1>0. Unread \subseteq {"mptcp", "dont_fragment"}
  BY DEF Unread
<1>4. /\ t["protocol"] = ProtocolRun(c)
      /\ t["reverse"] = c["reverse"]
      /\ t["bidirectional"] = c["bidirectional"]
  <2>1. "protocol" \in SentAlways /\ "reverse" \in SentIfSet
        /\ "bidirectional" \in SentIfSet
    BY DEF SentAlways, SentIfSet
  <2>2. c["reverse"] \in {0, 1} /\ c["bidirectional"] \in {0, 1}
    BY DEF Asking, Ready, Directed
  <2>3. t["protocol"] = ProtocolRun(c)
    BY <1>2, <1>3, <2>1 DEF ProtocolRun
  <2> QED BY <1>2, <1>3, <2>1, <2>2, <2>3
<1>5. \A f \in SentAlways \ {"protocol"} : t[f] = c[f]
  <2>1. \A f \in SentAlways \ {"protocol"} :
          f \in Names \ Derived /\ f # "authtoken" /\ f \notin Unread
    BY <1>0 DEF Names, Derived, SentAlways
  <2> QED BY <1>2, <1>3, <1>4, <2>1
<1>6. \A f \in SentIfSet \ Unread : c[f] # 0 => t[f] = c[f]
  <2>1. \A f \in SentIfSet \ {"reverse", "bidirectional"} :
          f \in Names \ Derived /\ f # "authtoken"
    BY DEF Names, Derived, SentIfSet, SentAlways
  <2> QED BY <1>2, <1>3, <1>4, <2>1
<1>7. \A f \in SentIfSet \ Sticky : c[f] = 0 => t[f] = c[f]
  <2> SUFFICES ASSUME NEW f \in SentIfSet \ Sticky, c[f] = 0
               PROVE  t[f] = 0
    OBVIOUS
  <2>1. f # "blksize"
    BY DEF Asking
  <2>2. CASE f \in {"reverse", "bidirectional"}
    BY <1>4, <2>2
  <2>3. CASE f \notin {"reverse", "bidirectional"}
    <3>1. f \in Names \ Derived /\ f \notin {"bytes", "blocks"}
          /\ f \in ClientOnly \ {"server_affinity", "rate_flag"}
      BY <2>1, <2>3 DEF Names, Derived, SentIfSet, Sticky, ClientOnly
    <3>2. s[f] = 0
      BY <3>1, Defaults DEF Idle
    <3>3. f \notin D
      BY <1>2
    <3> QED BY <1>3, <3>1, <3>2, <3>3
  <2> QED BY <2>2, <2>3
<1>8. t["server_affinity"] = c["server_affinity"]
  <2>1. "server_affinity" \in Names \ Derived /\ "server_affinity" \notin Unread
    BY <1>0 DEF Names, Derived
  <2>2. s["server_affinity"] = -1
    BY Defaults DEF Idle, ClientOnly
  <2> QED BY <1>2, <1>3, <2>1, <2>2
<1>9. ASSUME c["protocol"] = "udp", NEW f \in SentForUdp
      PROVE  t[f] = c[f]
  <2>1. CASE f \notin {"gso_dg_size", "gso_bf_size"}
    <3>1. f \in Names \ Derived /\ f # "authtoken" /\ f \notin Unread
      BY <1>0, <2>1 DEF Names, Derived, SentForUdp
    <3> QED BY <1>2, <1>3, <1>9, <3>1
  <2>2. CASE f \in {"gso_dg_size", "gso_bf_size"}
    <3>1. {"gso", "gso_dg_size"} \subseteq SentForUdp
      BY DEF SentForUdp
    <3>2. t["gso"] = c["gso"] /\ msg["gso_dg_size"] = c["gso_dg_size"]
      <4>1. "gso" \in Names \ Derived /\ "gso" \notin Unread
        BY <1>0 DEF Names, Derived, SentForUdp
      <4> QED BY <1>2, <1>3, <1>9, <3>1, <4>1
    <3>3. ~(c["gso"] = 1 /\ c["gso_dg_size"] = 0)
      BY <1>9 DEF Asking
    <3> QED BY <1>2, <1>3, <1>9, <2>2, <3>1, <3>2, <3>3
  <2> QED BY <2>1, <2>2
<1>10. \A f \in Exchanged(c) \ (Sticky \cup Unread \cup {"protocol"}) :
         t[f] = c[f]
  BY <1>5, <1>6, <1>7, <1>8, <1>9 DEF Exchanged
<1>11. \A f \in Sticky : IF c[f] # 0 /\ f \notin Unread THEN t[f] = c[f]
                         ELSE t[f] \in past[f]
  <2> SUFFICES ASSUME NEW f \in Sticky, c[f] = 0 \/ f \in Unread
               PROVE  t[f] \in past[f]
    <3>1. Sticky \subseteq SentIfSet
      BY DEF Sticky, SentIfSet
    <3> QED BY <1>6, <3>1
  <2>1. /\ f \in SentIfSet /\ f \in Names \ Derived
        /\ f \notin {"bytes", "blocks"}
    BY DEF Sticky, SentIfSet, Names, Derived
  <2>2. f \notin D \ Unread
    BY <1>2, <2>1
  <2> QED BY <1>3, <2>1, <2>2
<1>12. t["mode"] = CASE c["mode"] = "SENDER" -> "RECEIVER"
                     [] c["mode"] = "RECEIVER" -> "SENDER"
                     [] c["mode"] = "BIDIRECTIONAL" -> "BIDIRECTIONAL"
  <2>1. "reverse" \in SentIfSet /\ "bidirectional" \in SentIfSet
    BY DEF SentIfSet
  <2>2. t["mode"] = IF c["bidirectional"] # 0 THEN "BIDIRECTIONAL"
                    ELSE IF c["reverse"] # 0 THEN "SENDER" ELSE "RECEIVER"
    BY <1>2, <1>3, <2>1
  <2>3. /\ c["reverse"] \in {0, 1} /\ c["bidirectional"] \in {0, 1}
        /\ c["mode"] = IF c["bidirectional"] = 1 THEN "BIDIRECTIONAL"
                       ELSE IF c["reverse"] = 0 THEN "SENDER"
                       ELSE "RECEIVER"
    BY DEF Asking, Ready, Directed, Direction
  <2> QED BY <2>2, <2>3
<1>13. t["sender_has_retransmits"] = 1 <=>
         t["mode"] # "RECEIVER" /\ t["protocol"] = "tcp" /\ HaveRetransmits
  BY <1>3 DEF Retransmits
<1> QED BY <1>4, <1>10, <1>11, <1>12, <1>13 DEF RunsTest, t, msg

(* A test that is admitted keeps to the limits of the server.              *)
LEMMA ExchangeWithinLimits ==
  ASSUME NEW s, Idle(s), NEW c, Asking(c), NEW valid,
         LET msg == send_parameters(c)
             t == get_parameters(s, msg)
         IN  Refusal(s, t, msg) = "none" /\ Authorized(t, valid)
  PROVE  WithinLimits(get_parameters(s, send_parameters(c)), c)
<1> DEFINE msg == send_parameters(c)
           D == DOMAIN msg
           t == get_parameters(s, msg)
           limit == s["bitrate_limit"]
           max == s["max_server_duration"]
           n == c["num_streams"]
<1>1. /\ ~(limit # 0 /\ (\/ TotalRate(t, t["rate"]) > limit
                         \/ TotalRate(t, t["fqrate"]) > limit))
      /\ ~(max > 0 /\ (t["duration"] + t["omit"] > max \/ t["duration"] = 0))
      /\ ~(msg["protocol"] = "udp" /\ s["diskfile_name"] # 0)
  BY NotRefused
<1>2. Authorized(t, valid)
  OBVIOUS
<1>3. RunsTest(t, c, [f \in Sticky |-> {s[f]}])
  BY ExchangeRunsTest
<1>4. /\ D \subseteq Wire
      /\ "authtoken" \in D <=> HaveSSL /\ Both(c)
  BY Sent
<1>5. \A f \in Names \ Derived :
        t[f] = IF f \in D \ Unread THEN msg[f]
               ELSE IF f \in {"bytes", "blocks"} THEN 0 ELSE s[f]
  BY Got
<1>6. /\ msg["protocol"] = c["protocol"]
  <2>1. "protocol" \in D /\ \A f \in D \ {"authtoken"} : msg[f] = c[f]
    BY Sent DEF SentAlways
  <2> QED BY <2>1
<1> HIDE DEF t, msg
<1>7. /\ t["bitrate_limit"] = limit /\ t["max_server_duration"] = max
      /\ t["diskfile_name"] = s["diskfile_name"]
      /\ "authtoken" \notin D => t["authtoken"] = s["authtoken"]
  <2>1. /\ {"bitrate_limit", "max_server_duration", "diskfile_name"}
             \cap (Wire \cup {"bytes", "blocks"}) = {}
        /\ {"bitrate_limit", "max_server_duration", "diskfile_name",
            "authtoken"} \subseteq Names \ Derived
    BY DEF Wire, Names, Derived, Fixed, SentAlways, SentIfSet, SentForUdp
  <2> QED BY <1>4, <1>5, <2>1
<1>8. /\ t["duration"] = c["duration"] /\ t["omit"] = c["omit"]
      /\ t["num_streams"] = n
      /\ t["rate"] = c["rate"] /\ t["fqrate"] = c["fqrate"]
  <2>1. {"duration", "omit", "num_streams", "rate", "fqrate"}
          \subseteq Exchanged(c) \ (Sticky \cup Unread \cup {"protocol"})
    BY DEF Exchanged, Sticky, SentAlways, SentIfSet, Unread
  <2> QED BY <1>3, <2>1 DEF RunsTest
<1>9. /\ limit \in Int /\ max \in Int /\ n \in Int /\ c["duration"] \in Int
      /\ c["omit"] \in Int /\ c["rate"] \in Int /\ c["fqrate"] \in Int
      /\ c["duration"] >= 0
  BY DEF Idle, Asking, Ready, IsTest, Numeric
<1>10. /\ c["mode"] \in {"SENDER", "RECEIVER", "BIDIRECTIONAL"}
       /\ t["mode"] = "BIDIRECTIONAL" <=> c["mode"] = "BIDIRECTIONAL"
  <2>1. c["mode"] \in {"SENDER", "RECEIVER", "BIDIRECTIONAL"}
    BY DEF Asking, Ready, Directed, Direction
  <2> QED BY <1>3, <2>1 DEF RunsTest
<1>11. ASSUME NEW rate \in Int
       PROVE  TotalRate(t, rate) = (n * Ways(c) * rate) % RateMod
  <2>1. n * rate * Ways(c) = n * Ways(c) * rate
    BY <1>9 DEF Ways
  <2>2. Ways(c) = IF t["mode"] = "BIDIRECTIONAL" THEN 2 ELSE 1
    BY <1>10 DEF Ways
  <2> QED BY <1>8, <2>1, <2>2 DEF TotalRate
<1>12. ASSUME limit > 0, NEW rate \in Int, ~(TotalRate(t, rate) > limit)
       PROVE  n * Ways(c) * rate <= limit \/ n * Ways(c) * rate >= RateMod
  <2> DEFINE asks == n * Ways(c) * rate
  <2>1. asks \in Int /\ RateMod \in Nat \ {0}
    BY <1>9, <1>12, ParamsAssumption DEF Ways
  <2>2. ~(asks % RateMod > limit)
    BY <1>11, <1>12
  <2> HIDE DEF n, limit, asks
  <2>3. CASE asks < 0
    BY <1>9, <1>12, <2>1, <2>3 DEF asks
  <2>4. CASE asks >= RateMod
    BY <2>4 DEF asks
  <2>5. CASE asks >= 0 /\ asks < RateMod
    <3>1. asks % RateMod = asks
      BY <2>1, <2>5
    <3> QED BY <1>9, <2>1, <2>2, <3>1 DEF asks
  <2> QED BY <2>1, <2>3, <2>4, <2>5
<1>13. limit > 0 => \A f \in {"rate", "fqrate"} :
                      \/ n * Ways(c) * c[f] <= limit
                      \/ n * Ways(c) * c[f] >= RateMod
  <2> SUFFICES ASSUME limit > 0, NEW f \in {"rate", "fqrate"}
               PROVE  \/ n * Ways(c) * c[f] <= limit
                      \/ n * Ways(c) * c[f] >= RateMod
    OBVIOUS
  <2>1. limit # 0
    BY <1>9
  <2>2. ~(TotalRate(t, c[f]) > limit) /\ c[f] \in Int
    BY <1>1, <1>8, <1>9, <2>1
  <2> QED BY <1>12, <2>2
<1>14. max > 0 => c["duration"] \in 1 .. max - c["omit"]
  BY <1>1, <1>8, <1>9
<1>15. NeedsAuth(t) => Both(c)
  <2> SUFFICES ASSUME NeedsAuth(t), ~Both(c) PROVE FALSE
    OBVIOUS
  <2>1. t["authtoken"] = 1
    BY <1>2 DEF Authorized
  <2>2. s["authtoken"] = 0
    BY DEF Idle
  <2> QED BY <1>4, <1>7, <2>1, <2>2
<1> QED
  BY <1>1, <1>6, <1>7, <1>13, <1>14, <1>15 DEF WithinLimits, t, msg

----------------------------------------------------------------------------
(* The invariant.                                                          *)

ParamsInvariant ==
  /\ spc = "parse" => Parsing(server)
  /\ spc = "idle" => Idle(server)
  /\ spc \in {"idle", "test"} => \A f \in Sticky : server[f] \in asked[f]
  /\ spc = "test" => /\ cpc = "test" /\ IsTest(server)
                     /\ RunsTest(server, client, asked)
                     /\ WithinLimits(server, client)
  /\ cpc = "parse" => Parsing(client)
  /\ cpc = "parsed" => Ready(client)
  /\ cpc = "connected" => Asking(client)

LEMMA InitInvariant == Init => ParamsInvariant
BY DefaultsParsing DEF Init, ParamsInvariant

(* iperf_reset_test leaves the sticky members.                             *)
LEMMA ResetSticky ==
  ASSUME NEW t, IsTest(t)
  PROVE  \A f \in Sticky : iperf_reset_test(t)[f] = t[f]
<1>1. Sticky \subseteq DOMAIN t
  BY KnownFields DEF IsTest, Names, Sticky, SentIfSet
<1>2. \A f \in Sticky : f # "role" /\ f \notin ResetFields
  BY DEF Sticky, ResetFields
<1> QED BY <1>1, <1>2 DEF iperf_reset_test

(* An exchange sets a sticky member to what is sent or not at all.         *)
LEMMA ExchangeSticky ==
  ASSUME NEW s, Idle(s), NEW c, NEW f \in Sticky
  PROVE  \/ get_parameters(s, send_parameters(c))[f] = s[f]
         \/ c[f] # 0 /\ get_parameters(s, send_parameters(c))[f] = c[f]
<1> DEFINE msg == send_parameters(c)
           t == get_parameters(s, msg)
<1>1. /\ f \in SentIfSet /\ f \in Names \ Derived
      /\ f \notin {"bytes", "blocks", "authtoken"}
  BY DEF Sticky, SentIfSet, Names, Derived
<1>2. f \in DOMAIN msg => c[f] # 0 /\ msg[f] = c[f]
  BY <1>1, Sent
<1>3. t[f] = IF f \in DOMAIN msg \ Unread THEN msg[f] ELSE s[f]
  BY <1>1, Got
<1> HIDE DEF t, msg
<1>4. t[f] = s[f] \/ (c[f] # 0 /\ t[f] = c[f])
  BY <1>2, <1>3
<1> QED BY <1>4 DEF t, msg

LEMMA ServerLoopInvariant ==
  ASSUME NEW t, IsTest(t), NEW err, ServerLoop(t, err),
         \A f \in Sticky : t[f] \in asked'[f]
  PROVE  ParamsInvariant'
<1>1. Idle(server') /\ spc' \in {"exit", "idle"} /\ cpc' = "exit"
  BY ResetIdle DEF ServerLoop
<1>2. \A f \in Sticky : server'[f] \in asked'[f]
  BY ResetSticky DEF ServerLoop
<1> QED BY <1>1, <1>2 DEF ParamsInvariant

LEMMA NextInvariant == ParamsInvariant /\ [Next]_vars => ParamsInvariant'
<1> SUFFICES ASSUME ParamsInvariant, [Next]_vars PROVE ParamsInvariant'
  OBVIOUS
<1>1. CASE ServerOption
  <2>1. PICK x \in ServerOptions :
          /\ server' = ParseBuilt(ServerLacks, server, x).t
          /\ spc' = IF ParseBuilt(ServerLacks, server, x).err = "none"
                    THEN "parse" ELSE "exit"
    BY <1>1 DEF ServerOption
  <2>2. x \in CommandOptions /\ Parsing(server)
    BY <1>1, ParamsAssumption DEF ServerOption, ParamsInvariant
  <2>3. spc' = "parse" => Parsing(server')
    BY <2>1, <2>2, BuiltParsing
  <2>4. spc' \in {"parse", "exit"} /\ UNCHANGED <<client, cpc>>
    BY <1>1, <2>1 DEF ServerOption
  <2> QED BY <2>3, <2>4 DEF ParamsInvariant
<1>2. CASE ServerStarts
  <2>1. PICK env \in Environment :
          /\ server' = ParseEnd(server, env, FileSize).t
          /\ spc' = IF ParseEnd(server, env, FileSize).err = "none" /\
                       ParseEnd(server, env, FileSize).t["role"] = "s"
                    THEN "idle" ELSE "exit"
          /\ asked' = [f \in Sticky |-> {ParseEnd(server, env, FileSize).t[f]}]
    BY <1>2 DEF ServerStarts
  <2>2. Parsing(server)
    BY <1>2 DEF ServerStarts, ParamsInvariant
  <2>3. spc' = "idle" => Idle(server')
    BY <2>1, <2>2, ServerIdle
  <2>4. spc' \in {"idle", "exit"} /\ UNCHANGED <<client, cpc>>
    BY <1>2, <2>1 DEF ServerStarts
  <2>5. \A f \in Sticky : server'[f] \in asked'[f]
    BY <2>1
  <2> QED BY <2>3, <2>4, <2>5 DEF ParamsInvariant
<1>3. CASE ClientAppears
  BY <1>3, DefaultsParsing DEF ClientAppears, ParamsInvariant
<1>4. CASE ClientOption
  <2>1. PICK x \in ClientOptions :
          /\ client' = ParseBuilt(ClientLacks, client, x).t
          /\ cpc' = IF ParseBuilt(ClientLacks, client, x).err = "none"
                    THEN "parse" ELSE "exit"
    BY <1>4 DEF ClientOption
  <2>2. x \in CommandOptions /\ Parsing(client)
    BY <1>4, ParamsAssumption DEF ClientOption, ParamsInvariant
  <2>3. cpc' = "parse" => Parsing(client')
    BY <2>1, <2>2, BuiltParsing
  <2>4. /\ cpc = "parse" /\ cpc' \in {"parse", "exit"}
        /\ UNCHANGED <<server, spc, asked>>
    BY <1>4, <2>1 DEF ClientOption
  <2> QED BY <2>3, <2>4 DEF ParamsInvariant
<1>5. CASE ClientStarts
  <2>1. PICK env \in Environment :
          /\ client' = ParseEnd(client, env, FileSize).t
          /\ cpc' = IF ParseEnd(client, env, FileSize).err = "none" /\
                       ParseEnd(client, env, FileSize).t["role"] = "c"
                    THEN "parsed" ELSE "exit"
    BY <1>5 DEF ClientStarts
  <2>2. Parsing(client)
    BY <1>5 DEF ClientStarts, ParamsInvariant
  <2>3. cpc' = "parsed" => Ready(client')
    BY <2>1, <2>2, ClientReady
  <2>4. /\ cpc = "parse" /\ cpc' \in {"parsed", "exit"}
        /\ UNCHANGED <<server, spc, asked>>
    BY <1>5, <2>1 DEF ClientStarts
  <2> QED BY <2>3, <2>4 DEF ParamsInvariant
<1>6. CASE ClientConnects
  <2>1. PICK mss \in Mss : client' = Connected(client, mss)
    BY <1>6 DEF ClientConnects
  <2>2. Ready(client)
    BY <1>6 DEF ClientConnects, ParamsInvariant
  <2>3. Asking(client')
    BY <2>1, <2>2, ClientAsks
  <2>4. /\ cpc = "parsed" /\ cpc' = "connected"
        /\ UNCHANGED <<server, spc, asked>>
    BY <1>6 DEF ClientConnects
  <2> QED BY <2>3, <2>4 DEF ParamsInvariant
<1>7. CASE ExchangeParameters
  <2> DEFINE msg == send_parameters(client)
             t == get_parameters(server, msg)
             err == Refusal(server, t, msg)
  <2>1. /\ Idle(server) /\ Asking(client)
        /\ \A f \in Sticky : server[f] \in asked[f]
    BY <1>7 DEF ExchangeParameters, ParamsInvariant
  <2>0. /\ \A f \in Sticky : t[f] \in asked'[f]
        /\ \A f \in Sticky : server[f] \in asked'[f]
    <3>1. \A f \in Sticky :
            asked'[f] = asked[f] \cup
                          (IF client[f] # 0 THEN {client[f]} ELSE {})
      BY <1>7 DEF ExchangeParameters
    <3>2. \A f \in Sticky :
            t[f] = server[f] \/ (client[f] # 0 /\ t[f] = client[f])
      BY <2>1, ExchangeSticky
    <3> HIDE DEF t
    <3> QED BY <2>1, <3>1, <3>2
  <2>2. IsTest(t)
    BY <2>1, ExchangeIsTest
  <2>3. PICK valid \in BOOLEAN :
          \/ /\ err = "none" /\ Authorized(t, valid)
             /\ server' = t /\ spc' = "test" /\ cpc' = "test"
             /\ UNCHANGED client
          \/ /\ err = "none" /\ ~Authorized(t, valid)
             /\ ServerLoop(t, AuthError)
          \/ /\ err # "none"
             /\ ServerLoop(t, err)
    BY <1>7 DEF ExchangeParameters
  <2>4. CASE /\ err = "none" /\ Authorized(t, valid)
             /\ server' = t /\ spc' = "test" /\ cpc' = "test"
             /\ UNCHANGED client
    <3>1. RunsTest(t, client, asked')
      BY <2>0, <2>1, <2>4, ExchangeRunsTest
    <3>2. WithinLimits(t, client)
      BY <2>1, <2>4, ExchangeWithinLimits
    <3> HIDE DEF t
    <3> QED BY <2>0, <2>2, <2>4, <3>1, <3>2 DEF ParamsInvariant
  <2>5. CASE ServerLoop(t, AuthError) \/ ServerLoop(t, err)
    <3> HIDE DEF t, err
    <3> QED BY <2>0, <2>2, <2>5, ServerLoopInvariant
  <2> QED BY <2>3, <2>4, <2>5
<1>8. CASE TestEnds
  <2>1. IsTest(server) /\ \A f \in Sticky : server[f] \in asked'[f]
    BY <1>8 DEF TestEnds, ParamsInvariant
  <2>2. PICK err \in {"none", "IESTREAMREAD"} : ServerLoop(server, err)
    BY <1>8 DEF TestEnds
  <2> QED BY <2>1, <2>2, ServerLoopInvariant
<1>9. CASE IdleTimeout
  <2>1. IsTest(server)
    BY <1>9 DEF IdleTimeout, ParamsInvariant, Idle
  <2>2. Idle(server')
    BY <1>9, <2>1, ResetIdle DEF IdleTimeout
  <2>3. spc' \in {"exit", "idle"} /\ UNCHANGED <<client, cpc, asked>>
    BY <1>9 DEF IdleTimeout
  <2>4. \A f \in Sticky : server'[f] \in asked'[f]
    BY <1>9, <2>1, ResetSticky DEF IdleTimeout, ParamsInvariant
  <2> QED BY <2>2, <2>3, <2>4 DEF ParamsInvariant
<1>10. CASE UNCHANGED vars
  BY <1>10 DEF vars, ParamsInvariant
<1> QED
  BY <1>1, <1>2, <1>3, <1>4, <1>5, <1>6, <1>7, <1>8, <1>9, <1>10 DEF Next

(* What a structure means at every step of iperf_parse_arguments, of the   *)
(* exchange and of iperf_reset_test.                                       *)
THEOREM ParamsInvariance == Spec => []ParamsInvariant
<1>1. Init => ParamsInvariant
  BY InitInvariant
<1>2. ParamsInvariant /\ [Next]_vars => ParamsInvariant'
  BY NextInvariant
<1> QED BY <1>1, <1>2, PTL DEF Spec

(* get_parameters after iperf_reset_test: the server runs the test that    *)
(* its client asked for, for all options, all builds of the two programs   *)
(* and after any number of tests, but for what its build lacks and for the *)
(* sticky members, which an earlier client may have set.                   *)
THEOREM TheTestAskedFor == Spec => []ServerRunsTheTest
<1>1. ParamsInvariant => ServerRunsTheTest
  BY DEF ParamsInvariant, RunsTest, ServerRunsTheTest
<1> QED BY <1>1, ParamsInvariance, PTL

(* get_parameters and test_is_authorized: no test that is admitted exceeds *)
(* the limits that the server was started with, unless the rate that it    *)
(* asks for does not fit into uint64_t.                                    *)
THEOREM LimitsAreKept == Spec => []AdmittedWithinLimits
<1>1. ParamsInvariant => AdmittedWithinLimits
  BY DEF ParamsInvariant, WithinLimits, Ways, AdmittedWithinLimits
<1> QED BY <1>1, ParamsInvariance, PTL

----------------------------------------------------------------------------
(* What the options of a command line ask for.                             *)

(* Which row sets a member that the checks at the end of the line read.    *)
RowSets(r) ==
  /\ \A f \in {"bytes", "blocks", "blksize_arg", "duration",
               "server_authorized_users"} : f \notin r.also
  /\ "bytes" \in r.fields <=> r.option = "-n"
  /\ "blocks" \in r.fields <=> r.option = "-k"
  /\ "blksize_arg" \in r.fields <=> r.option = "-l"
  /\ "duration" \in r.fields <=> r.option = "-t"
  /\ "server_authorized_users" \in r.fields <=>
       r.option = "--authorized-users-path"

RowRaises(r) ==
  /\ "duration_flag" \notin r.fields /\ "server_flag" \notin r.fields
  /\ "duration_flag" \in r.also <=> r.option = "-t"
  /\ "server_flag" \in r.also => r.option \in ServerOnly
  /\ r.option \in ServerOnly =>
       "server_flag" \in r.also \/ r.option = "--authorized-users-path"

RowNames(r) ==
  /\ "diskfile_name" \in r.fields \cup r.also => r.option = "-F"
  /\ "rcv_timeout_flag" \in r.fields \cup r.also =>
       r.option = "--rcv-timeout"
  /\ "client_username" \in r.fields \cup r.also => r.option = "--username"
  /\ "client_rsa_public_key" \in r.fields \cup r.also =>
       r.option = "--rsa-public-key-path"
  /\ "server_rsa_private_key" \in r.fields \cup r.also =>
       r.option = "--rsa-private-key-path"
  /\ "server_skew_threshold" \in r.fields \cup r.also =>
       r.option = "--time-skew-threshold"

LEMMA RowsSet == \A r \in Rows : RowSets(r)
<1>1. \A r \in OutputOptions : RowSets(r)
  BY DEF OutputOptions, RowSets, Row, Client, Server
<1>2. \A r \in LoadOptions : RowSets(r)
  BY DEF LoadOptions, RowSets, Row, Client, Server
<1>3. \A r \in SocketOptions : RowSets(r)
  BY DEF SocketOptions, RowSets, Row, Client, Server
<1>4. \A r \in TestOptions : RowSets(r)
  BY DEF TestOptions, RowSets, Row, Client, Server
<1>5. \A r \in OtherOptions : RowSets(r)
  BY DEF OtherOptions, RowSets, Row, Client, Server
<1>6. \A r \in AuthOptions : RowSets(r)
  BY DEF AuthOptions, RowSets, Row, Client, Server
<1> QED BY <1>1, <1>2, <1>3, <1>4, <1>5, <1>6 DEF Rows

LEMMA RowsRaise == \A r \in Rows : RowRaises(r)
<1>1. \A r \in OutputOptions : RowRaises(r)
  BY DEF OutputOptions, RowRaises, Row, Client, Server, ServerOnly
<1>2. \A r \in LoadOptions : RowRaises(r)
  BY DEF LoadOptions, RowRaises, Row, Client, Server, ServerOnly
<1>3. \A r \in SocketOptions : RowRaises(r)
  BY DEF SocketOptions, RowRaises, Row, Client, Server, ServerOnly
<1>4. \A r \in TestOptions : RowRaises(r)
  BY DEF TestOptions, RowRaises, Row, Client, Server, ServerOnly
<1>5. \A r \in OtherOptions : RowRaises(r)
  BY DEF OtherOptions, RowRaises, Row, Client, Server, ServerOnly
<1>6. \A r \in AuthOptions : RowRaises(r)
  BY DEF AuthOptions, RowRaises, Row, Client, Server, ServerOnly
<1> QED BY <1>1, <1>2, <1>3, <1>4, <1>5, <1>6 DEF Rows

LEMMA RowsName == \A r \in Rows : RowNames(r)
<1>1. \A r \in OutputOptions : RowNames(r)
  BY DEF OutputOptions, RowNames, Row, Client, Server
<1>2. \A r \in LoadOptions : RowNames(r)
  BY DEF LoadOptions, RowNames, Row, Client, Server
<1>3. \A r \in SocketOptions : RowNames(r)
  BY DEF SocketOptions, RowNames, Row, Client, Server
<1>4. \A r \in TestOptions : RowNames(r)
  BY DEF TestOptions, RowNames, Row, Client, Server
<1>5. \A r \in OtherOptions : RowNames(r)
  BY DEF OtherOptions, RowNames, Row, Client, Server
<1>6. \A r \in AuthOptions : RowNames(r)
  BY DEF AuthOptions, RowNames, Row, Client, Server
<1> QED BY <1>1, <1>2, <1>3, <1>4, <1>5, <1>6 DEF Rows

(* The list of users is an option of builds with OpenSSL.                  *)
LEMMA UsersNeedSSL ==
  \A r \in Rows : r.option = "--authorized-users-path" => HaveSSL
<1>1. \A r \in OutputOptions \cup LoadOptions :
        r.option # "--authorized-users-path"
  BY DEF OutputOptions, LoadOptions, Row
<1>2. \A r \in SocketOptions \cup TestOptions \cup OtherOptions :
        r.option # "--authorized-users-path"
  BY DEF SocketOptions, TestOptions, OtherOptions, Row
<1> QED BY <1>1, <1>2 DEF Rows

\* i is the position of the last option of O
Latest(l, O, i) ==
  /\ i \in DOMAIN l /\ l[i].o \in O
  /\ \A j \in DOMAIN l : l[j].o \in O => j <= i

(* The last option of a kind is found.                                     *)
LEMMA LatestIsLast ==
  ASSUME NEW l \in Seq(CommandOptions), NEW O, NEW i, Latest(l, O, i)
  PROVE  Last(l, O) = i /\ l[i].o \in Given(l)
<1> DEFINE is == {k \in DOMAIN l : l[k].o \in O}
<1>1. i \in is /\ \A j \in is : j <= i
  BY DEF Latest
<1>2. is \subseteq Int
  OBVIOUS
<1>3. l[i].o \in Given(l)
  BY DEF Latest, Given
<1>4. Last(l, O) = CHOOSE k \in is : \A j \in is : j <= k
  BY DEF Last
<1> HIDE DEF is
<1>5. \A k \in is : (\A j \in is : j <= k) => k = i
  BY <1>1, <1>2
<1>6. (CHOOSE k \in is : \A j \in is : j <= k) = i
  BY <1>1, <1>5
<1> QED BY <1>3, <1>4, <1>6

(* One more option.                                                        *)
LEMMA OneMore ==
  ASSUME NEW l \in Seq(CommandOptions), NEW x \in CommandOptions
  PROVE  LET m == Append(l, x) IN
         /\ m \in Seq(CommandOptions) /\ m # <<>>
         /\ Len(l) + 1 \in DOMAIN m /\ m[Len(l) + 1] = x
         /\ \A i \in DOMAIN l : i \in DOMAIN m /\ m[i] = l[i]
         /\ \A i \in DOMAIN m : i = Len(l) + 1 \/ i \in DOMAIN l
         /\ Given(m) = Given(l) \cup {x.o}
<1> DEFINE m == Append(l, x)
<1>1. /\ m \in Seq(CommandOptions) /\ m # <<>>
      /\ Len(l) + 1 \in DOMAIN m /\ m[Len(l) + 1] = x
      /\ \A i \in DOMAIN l : i \in DOMAIN m /\ m[i] = l[i]
      /\ \A i \in DOMAIN m : i = Len(l) + 1 \/ i \in DOMAIN l
  OBVIOUS
<1> HIDE DEF m
<1>2. \A o : o \in Given(m) <=> o \in Given(l) \/ o = x.o
  BY <1>1 DEF Given
<1>3. Given(m) = Given(l) \cup {x.o}
  BY <1>2
<1> QED BY <1>1, <1>3 DEF m

LEMMA LatestNow ==
  ASSUME NEW l \in Seq(CommandOptions), NEW x \in CommandOptions, NEW O
  PROVE  /\ x.o \in O => Latest(Append(l, x), O, Len(l) + 1)
         /\ x.o \notin O => \A i : Latest(l, O, i) =>
                              /\ Latest(Append(l, x), O, i)
                              /\ Append(l, x)[i] = l[i]
<1> DEFINE m == Append(l, x)
<1>1. /\ Len(l) + 1 \in DOMAIN m /\ m[Len(l) + 1] = x
      /\ \A i \in DOMAIN l : i \in DOMAIN m /\ m[i] = l[i]
      /\ \A i \in DOMAIN m : i = Len(l) + 1 \/ i \in DOMAIN l
  BY OneMore
<1>2. DOMAIN l = 1 .. Len(l) /\ Len(l) \in Nat
  OBVIOUS
<1> HIDE DEF m
<1>3. x.o \in O => Latest(m, O, Len(l) + 1)
  BY <1>1, <1>2 DEF Latest
<1>4. x.o \notin O => \A i : Latest(l, O, i) => Latest(m, O, i) /\ m[i] = l[i]
  BY <1>1 DEF Latest
<1> QED BY <1>3, <1>4 DEF m

(* A member that one option sets to its argument, each time it is given.   *)
Holds(t, f, l, o) ==
  \/ o \notin Given(l) /\ t[f] = Default(f)
  \/ \E i \in DOMAIN l : Latest(l, {o}, i) /\ t[f] = l[i].a

LEMMA HoldsArgument ==
  ASSUME NEW t, NEW f, NEW l \in Seq(CommandOptions), NEW o,
         Holds(t, f, l, o)
  PROVE  IF o \in Given(l) THEN t[f] = Argument(l, o)
         ELSE t[f] = Default(f)
<1>1. CASE o \notin Given(l) /\ t[f] = Default(f)
  BY <1>1
<1>2. CASE \E i \in DOMAIN l : Latest(l, {o}, i) /\ t[f] = l[i].a
  <2>1. PICK i \in DOMAIN l : Latest(l, {o}, i) /\ t[f] = l[i].a
    BY <1>2
  <2>2. Last(l, {o}) = i /\ l[i].o \in Given(l)
    BY <2>1, LatestIsLast
  <2>3. l[i].o = o
    BY <2>1 DEF Latest
  <2> QED BY <2>1, <2>2, <2>3 DEF Argument
<1> QED BY <1>1, <1>2 DEF Holds

LEMMA HoldsNow ==
  ASSUME NEW t, NEW u, NEW f, NEW l \in Seq(CommandOptions), NEW o,
         NEW x \in CommandOptions, Holds(t, f, l, o),
         u[f] = IF x.o = o THEN x.a ELSE t[f]
  PROVE  Holds(u, f, Append(l, x), o)
<1> DEFINE m == Append(l, x)
<1>1. /\ Len(l) + 1 \in DOMAIN m /\ m[Len(l) + 1] = x
      /\ \A i \in DOMAIN l : i \in DOMAIN m /\ m[i] = l[i]
      /\ Given(m) = Given(l) \cup {x.o}
  BY OneMore
<1>2. CASE x.o = o
  <2>1. Latest(m, {o}, Len(l) + 1)
    BY <1>2, LatestNow
  <2> HIDE DEF m
  <2> QED BY <1>1, <1>2, <2>1 DEF Holds, m
<1>3. CASE x.o # o
  <2>1. \A i : Latest(l, {o}, i) => Latest(m, {o}, i) /\ m[i] = l[i]
    BY <1>3, LatestNow
  <2> HIDE DEF m
  <2>2. CASE o \notin Given(l) /\ t[f] = Default(f)
    BY <1>1, <1>3, <2>2 DEF Holds, m
  <2>3. CASE \E i \in DOMAIN l : Latest(l, {o}, i) /\ t[f] = l[i].a
    BY <1>1, <1>3, <2>1, <2>3 DEF Holds, m
  <2> QED BY <2>2, <2>3 DEF Holds
<1> QED BY <1>2, <1>3

\* the protocol that an option asks for
Named(o) == IF o = "-u" THEN "udp" ELSE IF o = "-m" THEN "tcp" ELSE "sctp"

ProtocolStated(t, l) ==
  \/ Given(l) \cap ProtocolOptions = {} /\ t["protocol"] = "tcp"
  \/ \E i \in DOMAIN l : /\ Latest(l, ProtocolOptions, i)
                         /\ t["protocol"] = Named(l[i].o)

\* role, direction and protocol are those of the options so far
Course(t, l) ==
  /\ t["role"] = "c" <=> "-c" \in Given(l)
  /\ t["role"] = "s" <=> "-s" \in Given(l)
  /\ t["reverse"] = 1 <=> "-R" \in Given(l)
  /\ t["bidirectional"] = 1 <=> "--bidir" \in Given(l)
  /\ ProtocolStated(t, l)
  /\ t["role"] = "c" =>
       t["sender_has_retransmits"] = Retransmits(t["mode"], t["protocol"])

\* so are the ends of the test and the size of a block
Amounts(t, l) ==
  /\ Holds(t, "bytes", l, "-n") /\ Holds(t, "blocks", l, "-k")
  /\ Holds(t, "blksize_arg", l, "-l") /\ Holds(t, "duration", l, "-t")
  /\ t["duration_flag"] # 0 <=> "-t" \in Given(l)

\* a member that is not 0 was given, and so was an option for servers
Flags(t, l) ==
  /\ t["diskfile_name"] # 0 => "-F" \in Given(l)
  /\ t["rcv_timeout_flag"] # 0 => "--rcv-timeout" \in Given(l)
  /\ t["client_username"] # 0 => "--username" \in Given(l)
  /\ t["client_rsa_public_key"] # 0 => "--rsa-public-key-path" \in Given(l)
  /\ t["server_rsa_private_key"] # 0 => "--rsa-private-key-path" \in Given(l)
  /\ t["server_skew_threshold"] # 0 => "--time-skew-threshold" \in Given(l)
  /\ t["server_authorized_users"] # 0 =>
       "--authorized-users-path" \in Given(l)
  /\ t["server_flag"] # 0 => Given(l) \cap ServerOnly # {}
  /\ Given(l) \cap ServerOnly # {} =>
       \/ t["server_flag"] # 0
       \/ HaveSSL /\ t["server_authorized_users"] # 0

Stated(t, l) == Course(t, l) /\ Amounts(t, l) /\ Flags(t, l)

(* Without an option.                                                      *)
LEMMA StatedFirst == Stated(iperf_defaults, <<>>)
<1>1. Given(<<>>) = {}
  BY DEF Given
<1>2. \A f \in Names : iperf_defaults[f] = Default(f)
  BY KnownFields DEF iperf_defaults
<1>3. \A f \in {"duration_flag", "diskfile_name", "rcv_timeout_flag",
                "client_username", "client_rsa_public_key",
                "server_rsa_private_key", "server_skew_threshold",
                "server_authorized_users", "server_flag"} :
        f \in Names /\ Default(f) = 0
  BY DEF Names, Default, NonZero
<1>4. Course(iperf_defaults, <<>>)
  <2>1. {"role", "reverse", "bidirectional", "protocol"} \subseteq Names
    BY DEF Names, Fixed
  <2>2. /\ iperf_defaults["role"] = "none" /\ iperf_defaults["reverse"] = 0
        /\ iperf_defaults["bidirectional"] = 0
        /\ iperf_defaults["protocol"] = "tcp"
    BY <1>2, <2>1, Defaults DEF ClientOnly
  <2> QED BY <1>1, <2>2 DEF Course, ProtocolStated
<1>5. Amounts(iperf_defaults, <<>>)
  <2>1. {"bytes", "blocks", "blksize_arg", "duration", "duration_flag"}
          \subseteq Names
    BY DEF Names, SentAlways
  <2>2. iperf_defaults["duration_flag"] = 0
    BY <1>2, <1>3
  <2> QED BY <1>1, <1>2, <2>1, <2>2 DEF Amounts, Holds
<1>6. Flags(iperf_defaults, <<>>)
  <2>1. \A f \in {"diskfile_name", "rcv_timeout_flag",
                "client_username", "client_rsa_public_key",
                "server_rsa_private_key", "server_skew_threshold",
                "server_authorized_users", "server_flag"} :
          iperf_defaults[f] = 0
    BY <1>2, <1>3
  <2> QED BY <1>1, <2>1 DEF Flags
<1> QED BY <1>4, <1>5, <1>6 DEF Stated

Special == RoleOptions \cup ProtocolOptions \cup DirectionOptions

\* the members of Amounts and Flags
Told == {"bytes", "blocks", "blksize_arg", "duration", "duration_flag",
         "diskfile_name", "rcv_timeout_flag", "client_username",
         "client_rsa_public_key", "server_rsa_private_key",
         "server_skew_threshold", "server_authorized_users", "server_flag"}

(* An option that is not in the table leaves amounts and flags alone.      *)
LEMMA SpecialTold ==
  ASSUME NEW t, NEW u, NEW l \in Seq(CommandOptions),
         NEW x \in CommandOptions, x.o \in Special,
         \A f \in Told : u[f] = t[f]
  PROVE  /\ Amounts(t, l) => Amounts(u, Append(l, x))
         /\ Flags(t, l) => Flags(u, Append(l, x))
<1> DEFINE m == Append(l, x)
<1>1. Given(m) = Given(l) \cup {x.o}
  BY OneMore
<1>2. /\ x.o \notin {"-n", "-k", "-l", "-t"}
      /\ x.o \notin {"-F", "--rcv-timeout", "--username",
                     "--rsa-public-key-path"}
      /\ x.o \notin ServerOnly
  BY DEF Special, RoleOptions, ProtocolOptions, DirectionOptions, ServerOnly
<1>3. ASSUME Amounts(t, l)
      PROVE  Amounts(u, m)
  <2>1. Holds(u, "bytes", m, "-n")
    BY <1>2, <1>3, HoldsNow DEF Amounts, Told
  <2>2. Holds(u, "blocks", m, "-k")
    BY <1>2, <1>3, HoldsNow DEF Amounts, Told
  <2>3. Holds(u, "blksize_arg", m, "-l")
    BY <1>2, <1>3, HoldsNow DEF Amounts, Told
  <2>4. Holds(u, "duration", m, "-t")
    BY <1>2, <1>3, HoldsNow DEF Amounts, Told
  <2>5. u["duration_flag"] # 0 <=> "-t" \in Given(m)
    BY <1>1, <1>2, <1>3 DEF Amounts, Told
  <2> QED BY <2>1, <2>2, <2>3, <2>4, <2>5 DEF Amounts
<1> HIDE DEF m
<1>4. ASSUME Flags(t, l)
      PROVE  Flags(u, m)
  <2>1. Given(l) \subseteq Given(m)
    BY <1>1
  <2>2. Given(m) \cap ServerOnly = Given(l) \cap ServerOnly
    BY <1>1, <1>2
  <2> QED BY <1>4, <2>1, <2>2 DEF Flags, Told
<1> QED BY <1>3, <1>4 DEF m

(* An option of the table.                                                 *)
LEMMA RowTold ==
  ASSUME NEW t, NEW u, NEW l \in Seq(CommandOptions),
         NEW x \in CommandOptions, NEW r \in Rows, r.option = x.o,
         \A f \in Told : u[f] = IF f \in r.also THEN 1
                                ELSE IF f \in r.fields THEN x.a ELSE t[f]
  PROVE  /\ Amounts(t, l) => Amounts(u, Append(l, x))
         /\ Flags(t, l) => Flags(u, Append(l, x))
<1> DEFINE m == Append(l, x)
<1>1. Given(m) = Given(l) \cup {x.o}
  BY OneMore
<1>2. RowSets(r) /\ RowRaises(r) /\ RowNames(r)
  BY RowsSet, RowsRaise, RowsName
<1>3. ASSUME Amounts(t, l)
      PROVE  Amounts(u, m)
  <2>1. /\ u["bytes"] = IF x.o = "-n" THEN x.a ELSE t["bytes"]
        /\ u["blocks"] = IF x.o = "-k" THEN x.a ELSE t["blocks"]
        /\ u["blksize_arg"] = IF x.o = "-l" THEN x.a ELSE t["blksize_arg"]
        /\ u["duration"] = IF x.o = "-t" THEN x.a ELSE t["duration"]
    BY <1>2 DEF RowSets, Told
  <2>2. Holds(u, "bytes", m, "-n")
    BY <1>3, <2>1, HoldsNow DEF Amounts
  <2>3. Holds(u, "blocks", m, "-k")
    BY <1>3, <2>1, HoldsNow DEF Amounts
  <2>4. Holds(u, "blksize_arg", m, "-l")
    BY <1>3, <2>1, HoldsNow DEF Amounts
  <2>5. Holds(u, "duration", m, "-t")
    BY <1>3, <2>1, HoldsNow DEF Amounts
  <2>6. u["duration_flag"] # 0 <=> "-t" \in Given(m)
    BY <1>1, <1>2, <1>3 DEF Amounts, Told, RowRaises
  <2> QED BY <2>2, <2>3, <2>4, <2>5, <2>6 DEF Amounts
<1> HIDE DEF m
<1>4. ASSUME Flags(t, l)
      PROVE  Flags(u, m)
  <2>1. /\ u["diskfile_name"] # 0 => "-F" \in Given(m)
        /\ u["rcv_timeout_flag"] # 0 => "--rcv-timeout" \in Given(m)
        /\ u["client_username"] # 0 => "--username" \in Given(m)
        /\ u["client_rsa_public_key"] # 0 =>
             "--rsa-public-key-path" \in Given(m)
        /\ u["server_rsa_private_key"] # 0 =>
             "--rsa-private-key-path" \in Given(m)
        /\ u["server_skew_threshold"] # 0 =>
             "--time-skew-threshold" \in Given(m)
    BY <1>1, <1>2, <1>4 DEF Flags, Told, RowNames
  <2>2. u["server_authorized_users"] =
          IF x.o = "--authorized-users-path" THEN x.a
          ELSE t["server_authorized_users"]
    BY <1>2 DEF RowSets, Told
  <2>3. u["server_authorized_users"] # 0 =>
          "--authorized-users-path" \in Given(m)
    BY <1>1, <1>4, <2>2 DEF Flags
  <2>4. u["server_flag"] = IF "server_flag" \in r.also THEN 1
                           ELSE t["server_flag"]
    BY <1>2 DEF RowRaises, Told
  <2>5. u["server_flag"] # 0 => Given(m) \cap ServerOnly # {}
    BY <1>1, <1>2, <1>4, <2>4 DEF Flags, RowRaises
  <2>6. x.o = "--authorized-users-path" => x.a # 0 /\ HaveSSL
    BY UsersNeedSSL DEF CommandOptions
  <2>7. ASSUME Given(m) \cap ServerOnly # {}
        PROVE  \/ u["server_flag"] # 0
               \/ HaveSSL /\ u["server_authorized_users"] # 0
    <3>1. CASE x.o \in ServerOnly
      BY <1>2, <2>2, <2>4, <2>6, <3>1 DEF RowRaises
    <3>2. CASE x.o \notin ServerOnly
      <4>1. Given(l) \cap ServerOnly # {}
        BY <1>1, <2>7, <3>2
      <4> QED BY <1>4, <2>2, <2>4, <2>6, <4>1 DEF Flags
    <3> QED BY <3>1, <3>2
  <2> QED BY <2>1, <2>3, <2>5, <2>7 DEF Flags
<1> QED BY <1>3, <1>4 DEF m

(* The protocol after one more option.                                     *)
LEMMA ProtocolNow ==
  ASSUME NEW t, NEW u, NEW l \in Seq(CommandOptions),
         NEW x \in CommandOptions, ProtocolStated(t, l),
         u["protocol"] = IF x.o \in ProtocolOptions THEN Named(x.o)
                         ELSE t["protocol"]
  PROVE  ProtocolStated(u, Append(l, x))
<1> DEFINE m == Append(l, x)
<1>1. /\ Len(l) + 1 \in DOMAIN m /\ m[Len(l) + 1] = x
      /\ \A i \in DOMAIN l : i \in DOMAIN m /\ m[i] = l[i]
      /\ Given(m) = Given(l) \cup {x.o}
  BY OneMore
<1>2. CASE x.o \in ProtocolOptions
  <2>1. Latest(m, ProtocolOptions, Len(l) + 1)
    BY <1>2, LatestNow
  <2> HIDE DEF m
  <2> QED BY <1>1, <1>2, <2>1 DEF ProtocolStated, m
<1>3. CASE x.o \notin ProtocolOptions
  <2>1. \A i : Latest(l, ProtocolOptions, i) =>
          Latest(m, ProtocolOptions, i) /\ m[i] = l[i]
    BY <1>3, LatestNow
  <2> HIDE DEF m
  <2>2. CASE Given(l) \cap ProtocolOptions = {} /\ t["protocol"] = "tcp"
    <3>1. Given(m) \cap ProtocolOptions = {}
      BY <1>1, <1>3, <2>2
    <3> QED BY <1>3, <2>2, <3>1 DEF ProtocolStated, m
  <2>3. CASE \E i \in DOMAIN l : /\ Latest(l, ProtocolOptions, i)
                                 /\ t["protocol"] = Named(l[i].o)
    <3>1. PICK i \in DOMAIN l : /\ Latest(l, ProtocolOptions, i)
                                /\ t["protocol"] = Named(l[i].o)
      BY <2>3
    <3>2. /\ i \in DOMAIN m /\ Latest(m, ProtocolOptions, i)
          /\ u["protocol"] = Named(m[i].o)
      BY <1>1, <1>3, <2>1, <3>1
    <3> QED BY <3>2 DEF ProtocolStated, m
  <2> QED BY <2>2, <2>3 DEF ProtocolStated
<1> QED BY <1>2, <1>3

(* One more option of each kind, if it is taken.                           *)
LEMMA RowStated ==
  ASSUME NEW t, Parsing(t), NEW l \in Seq(CommandOptions), Stated(t, l),
         NEW x \in CommandOptions, x.o \notin Special,
         NEW r \in Rows, r.option = x.o, ParseRow(t, r, x.a).err = "none"
  PROVE  Stated(ParseRow(t, r, x.a).t, Append(l, x))
<1> DEFINE u == ParseRow(t, r, x.a).t
           m == Append(l, x)
<1>1. DOMAIN t = Fields /\ Names \subseteq Fields
  BY KnownFields DEF Parsing, IsTest
<1>2. \A f \in Fields : u[f] = IF f \in r.also THEN 1
                               ELSE IF f \in r.fields THEN x.a ELSE t[f]
  BY <1>1, RowStep
<1> HIDE DEF u
<1>3. Told \subseteq Fields /\ Fixed \subseteq Fields
  <2>1. Told \subseteq Names /\ Fixed \subseteq Names
    BY DEF Told, Names, SentAlways
  <2> QED BY <1>1, <2>1
<1>4. Amounts(u, m) /\ Flags(u, m)
  BY <1>2, <1>3, RowTold DEF Stated
<1>5. \A f \in Fixed : u[f] = t[f]
  BY <1>2, <1>3, RowsOK DEF RowOK
<1>6. Given(m) = Given(l) \cup {x.o}
  BY OneMore
<1>7. /\ x.o \notin {"-c", "-s", "-R", "--bidir"}
      /\ x.o \notin ProtocolOptions
  BY DEF Special, RoleOptions, DirectionOptions
<1>8. /\ u["role"] = t["role"] /\ u["reverse"] = t["reverse"]
      /\ u["bidirectional"] = t["bidirectional"]
      /\ u["protocol"] = t["protocol"] /\ u["mode"] = t["mode"]
      /\ u["sender_has_retransmits"] = t["sender_has_retransmits"]
  BY <1>5 DEF Fixed
<1>9. ProtocolStated(u, m)
  BY <1>7, <1>8, ProtocolNow DEF Stated, Course
<1> HIDE DEF m
<1>10. Course(u, m)
  BY <1>6, <1>7, <1>8, <1>9 DEF Stated, Course
<1> QED BY <1>4, <1>10 DEF Stated, u, m

LEMMA RoleStated ==
  ASSUME NEW t, Parsing(t), NEW l \in Seq(CommandOptions), Stated(t, l),
         NEW x \in CommandOptions, x.o \in RoleOptions,
         ParseRole(t, x.o).err = "none"
  PROVE  Stated(ParseRole(t, x.o).t, Append(l, x))
<1> DEFINE u == ParseRole(t, x.o).t
           m == Append(l, x)
           role == IF x.o = "-s" THEN "s" ELSE "c"
<1>1. DOMAIN t = Fields
  BY DEF Parsing, IsTest
<1>2. /\ t["role"] \in {"none", role} /\ u["role"] = role
      /\ u["sender_has_retransmits"] = Retransmits(u["mode"], u["protocol"])
      /\ \A f \in Names \ {"sender_has_retransmits", "role", "mode"} :
           u[f] = t[f]
  BY <1>1, RoleStep
<1> HIDE DEF u
<1>3. \A f \in Told \cup {"reverse", "bidirectional", "protocol"} :
        u[f] = t[f]
  BY <1>2 DEF Told, Names, SentAlways, Fixed
<1>4. Amounts(u, m) /\ Flags(u, m)
  BY <1>3, SpecialTold DEF Stated, Special
<1>5. Given(m) = Given(l) \cup {x.o}
  BY OneMore
<1>6. x.o \notin ProtocolOptions \cup {"-R", "--bidir"}
  BY DEF RoleOptions, ProtocolOptions
<1>7. ProtocolStated(u, m)
  BY <1>3, <1>6, ProtocolNow DEF Stated, Course
<1>8. /\ u["role"] = "c" <=> "-c" \in Given(m)
      /\ u["role"] = "s" <=> "-s" \in Given(m)
  BY <1>2, <1>5 DEF Stated, Course, RoleOptions
<1> HIDE DEF m, role
<1>9. /\ u["reverse"] = 1 <=> "-R" \in Given(m)
      /\ u["bidirectional"] = 1 <=> "--bidir" \in Given(m)
  BY <1>3, <1>5, <1>6 DEF Stated, Course
<1>10. Course(u, m)
  BY <1>2, <1>7, <1>8, <1>9 DEF Course
<1> QED BY <1>4, <1>10 DEF Stated, u, m

LEMMA ProtocolOptionStated ==
  ASSUME NEW t, Parsing(t), NEW l \in Seq(CommandOptions), Stated(t, l),
         NEW x \in CommandOptions, x.o \in ProtocolOptions
  PROVE  Stated(ParseProtocol(t, x.o).t, Append(l, x))
<1> DEFINE u == ParseProtocol(t, x.o).t
           m == Append(l, x)
<1>1. DOMAIN t = Fields
  BY DEF Parsing, IsTest
<1>2. /\ u["protocol"] = Named(x.o)
      /\ u["sender_has_retransmits"] = Retransmits(u["mode"], u["protocol"])
      /\ \A f \in Names \ {"sender_has_retransmits", "protocol", "mptcp",
                            "client_flag"} : u[f] = t[f]
  BY <1>1, ProtocolStep DEF Named
<1> HIDE DEF u
<1>3. \A f \in Told \cup {"reverse", "bidirectional", "role"} :
        u[f] = t[f]
  BY <1>2 DEF Told, Names, SentAlways, Fixed
<1>4. Amounts(u, m) /\ Flags(u, m)
  BY <1>3, SpecialTold DEF Stated, Special
<1>5. Given(m) = Given(l) \cup {x.o}
  BY OneMore
<1>6. x.o \notin {"-R", "--bidir", "-c", "-s"}
  BY DEF ProtocolOptions
<1>7. ProtocolStated(u, m)
  BY <1>2, ProtocolNow DEF Stated, Course
<1> HIDE DEF m
<1>8. Course(u, m)
  BY <1>2, <1>3, <1>5, <1>6, <1>7 DEF Stated, Course
<1> QED BY <1>4, <1>8 DEF Stated, u, m

LEMMA DirectionStated ==
  ASSUME NEW t, Parsing(t), NEW l \in Seq(CommandOptions), Stated(t, l),
         NEW x \in CommandOptions, x.o \in DirectionOptions,
         ParseDirection(t, x.o).err = "none"
  PROVE  Stated(ParseDirection(t, x.o).t, Append(l, x))
<1> DEFINE u == ParseDirection(t, x.o).t
           m == Append(l, x)
<1>1. DOMAIN t = Fields /\ Directed(t)
  BY DEF Parsing, IsTest
<1>2. /\ x.o = "-R" =>
           /\ u["reverse"] = 1 /\ u["bidirectional"] = t["bidirectional"]
           /\ u["sender_has_retransmits"] =
                Retransmits(u["mode"], u["protocol"])
      /\ x.o = "--bidir" =>
           /\ t["reverse"] # 1 /\ u["bidirectional"] = 1
           /\ u["reverse"] = t["reverse"] /\ u["mode"] = "BIDIRECTIONAL"
           /\ u["sender_has_retransmits"] = t["sender_has_retransmits"]
      /\ \A f \in Names \ {"sender_has_retransmits", "reverse", "mode",
                            "bidirectional", "client_flag"} : u[f] = t[f]
  BY <1>1, DirectionStep
<1> HIDE DEF u
<1>3. \A f \in Told \cup {"role", "protocol"} : u[f] = t[f]
  BY <1>2 DEF Told, Names, SentAlways, Fixed
<1>4. Amounts(u, m) /\ Flags(u, m)
  BY <1>3, SpecialTold DEF Stated, Special
<1>5. Given(m) = Given(l) \cup {x.o}
  BY OneMore
<1>6. x.o \notin ProtocolOptions \cup {"-c", "-s"} /\ x.o \in {"-R", "--bidir"}
  BY DEF ProtocolOptions, DirectionOptions
<1>7. ProtocolStated(u, m)
  BY <1>3, <1>6, ProtocolNow DEF Stated, Course
<1>8. u["role"] = "c" => u["sender_has_retransmits"] =
                           Retransmits(u["mode"], u["protocol"])
  <2>1. CASE x.o = "-R"
    BY <1>2, <2>1
  <2>2. CASE x.o = "--bidir" /\ u["role"] = "c"
    <3>1. t["role"] = "c" /\ t["mode"] \in {"BIDIRECTIONAL", "SENDER"}
      BY <1>1, <1>2, <1>3, <2>2 DEF Directed, Direction
    <3>2. t["sender_has_retransmits"] =
            Retransmits(t["mode"], t["protocol"])
      BY <3>1 DEF Stated, Course
    <3> QED BY <1>2, <1>3, <2>2, <3>1, <3>2 DEF Retransmits
  <2> QED BY <1>6, <2>1, <2>2
<1> HIDE DEF m
<1>9. Course(u, m)
  BY <1>2, <1>3, <1>5, <1>6, <1>7, <1>8 DEF Stated, Course
<1> QED BY <1>4, <1>9 DEF Stated, u, m

(* An option that is taken, and one that is refused.                       *)
LEMMA OptionStated ==
  ASSUME NEW t, Parsing(t), NEW l \in Seq(CommandOptions), Stated(t, l),
         NEW x \in CommandOptions
  PROVE  LET p == ParseOption(Parsed(t), x) IN
         IF p.err = "none" THEN Stated(p.t, Append(l, x))
         ELSE Refusable(Append(l, x))
<1> DEFINE p == ParseOption(Parsed(t), x)
           m == Append(l, x)
<1>1. Parsed(t).err = "none" /\ Parsed(t).t = t
  BY DEF Parsed
<1>2. /\ Given(m) = Given(l) \cup {x.o}
      /\ Len(l) + 1 \in DOMAIN m /\ m[Len(l) + 1] = x
  BY OneMore
<1>3. CASE x.o \in RoleOptions
  <2>1. p = ParseRole(t, x.o)
    BY <1>1, <1>3
       DEF ParseOption, RoleOptions, ProtocolOptions, DirectionOptions
  <2>2. ASSUME p.err # "none" PROVE Refusable(m)
    <3>1. \/ x.o = "-s"
          \/ x.o = "-c" /\ t["role"] \notin {"none", "c"}
      BY <1>3, <2>1, <2>2 DEF ParseRole, Parsed, RoleOptions
    <3>2. t["role"] \in {"none", "s", "c"}
      BY DEF Parsing, Directed
    <3>3. "-s" \in Given(m)
      BY <1>2, <3>1, <3>2 DEF Stated, Course
    <3> HIDE DEF m
    <3> QED BY <3>3 DEF Refusable
  <2> QED BY <1>3, <2>1, <2>2, RoleStated
<1>4. CASE x.o \in ProtocolOptions
  <2>1. p = ParseProtocol(t, x.o)
    BY <1>1, <1>4
       DEF ParseOption, RoleOptions, ProtocolOptions, DirectionOptions
  <2>2. p.err = "none"
    BY <1>4, <2>1, ProtocolStep DEF Parsing, IsTest
  <2> QED BY <1>4, <2>1, <2>2, ProtocolOptionStated
<1>5. CASE x.o \in DirectionOptions
  <2>1. p = ParseDirection(t, x.o)
    BY <1>1, <1>5
       DEF ParseOption, RoleOptions, ProtocolOptions, DirectionOptions
  <2>2. ASSUME p.err # "none" PROVE Refusable(m)
    <3>1. \/ x.o = "-R" /\ t["bidirectional"] = 1
          \/ x.o = "--bidir" /\ t["reverse"] = 1
      BY <1>5, <2>1, <2>2 DEF ParseDirection, Parsed, DirectionOptions
    <3>2. "-R" \in Given(m) /\ "--bidir" \in Given(m)
      BY <1>2, <3>1 DEF Stated, Course
    <3> HIDE DEF m
    <3> QED BY <3>2 DEF Refusable
  <2> QED BY <1>5, <2>1, <2>2, DirectionStated
<1>6. CASE x.o \notin Special
  <2>1. p = ParseRow(t, Table[x.o], x.a)
    BY <1>1, <1>6 DEF ParseOption, Special
  <2>2. x.o \in DOMAIN Table
    BY <1>6 DEF CommandOptions, OptionNames, Special
  <2>3. Table[x.o] \in Rows /\ Table[x.o].option = x.o
    BY <2>2, TableRow
  <2>4. ASSUME p.err # "none" PROVE Refusable(m)
    <3>1. x.a = Bad
      BY <2>1, <2>4 DEF ParseRow, Parsed
    <3>2. \E i \in DOMAIN m : m[i].a = Bad
      BY <1>2, <3>1
    <3> HIDE DEF m
    <3> QED BY <3>2 DEF Refusable
  <2> QED BY <1>6, <2>1, <2>3, <2>4, RowStated
<1> QED BY <1>3, <1>4, <1>5, <1>6 DEF Special

(* The same of an option that the build may lack.                          *)
LEMMA BuiltStated ==
  ASSUME NEW t, Parsing(t), NEW l \in Seq(CommandOptions), Stated(t, l),
         NEW x \in CommandOptions
  PROVE  LET p == ParseBuilt(ClientLacks, t, x) IN
         IF p.err = "none" THEN Stated(p.t, Append(l, x))
         ELSE Refusable(Append(l, x))
<1>1. CASE x.o \in ClientLacks
  <2>1. ParseBuilt(ClientLacks, t, x).err # "none"
    BY <1>1 DEF ParseBuilt, Failed
  <2>2. Given(Append(l, x)) = Given(l) \cup {x.o}
    BY OneMore
  <2>3. Given(Append(l, x)) \cap (ServerOnly \cup ClientLacks) # {}
    BY <1>1, <2>2
  <2> QED BY <2>1, <2>3 DEF Refusable
<1>2. CASE x.o \notin ClientLacks
  <2>1. ParseBuilt(ClientLacks, t, x) = ParseOption(Parsed(t), x)
    BY <1>2 DEF ParseBuilt
  <2> QED BY <2>1, OptionStated
<1> QED BY <1>1, <1>2

(* What Stated says of the line as a whole.                                *)
LEMMA StatedAsked ==
  ASSUME NEW t, Parsing(t), NEW l \in Seq(CommandOptions), Stated(t, l)
  PROVE  /\ t["protocol"] = ProtocolAsked(l)
         /\ t["role"] = "c" => t["mode"] = ModeAsked(l)
         /\ t["bytes"] # 0 <=> "-n" \in Given(l) /\ Argument(l, "-n") # 0
         /\ t["blocks"] # 0 <=> "-k" \in Given(l) /\ Argument(l, "-k") # 0
         /\ t["blksize_arg"] # 0 =>
              "-l" \in Given(l) /\ t["blksize_arg"] = Argument(l, "-l")
         /\ t["duration"] = IF "-t" \in Given(l) THEN Argument(l, "-t")
                            ELSE 10
<1>1. t["protocol"] = ProtocolAsked(l)
  <2>1. ProtocolOptions = {"-u", "--sctp", "-m"}
    BY DEF ProtocolOptions
  <2>2. CASE Given(l) \cap ProtocolOptions = {} /\ t["protocol"] = "tcp"
    BY <2>1, <2>2 DEF ProtocolAsked
  <2>3. CASE \E i \in DOMAIN l : /\ Latest(l, ProtocolOptions, i)
                                 /\ t["protocol"] = Named(l[i].o)
    <3>1. PICK i \in DOMAIN l : /\ Latest(l, ProtocolOptions, i)
                                /\ t["protocol"] = Named(l[i].o)
      BY <2>3
    <3>2. Last(l, ProtocolOptions) = i /\ l[i].o \in Given(l)
      BY <3>1, LatestIsLast
    <3>3. l[i].o \in ProtocolOptions
      BY <3>1 DEF Latest
    <3>4. Given(l) \cap ProtocolOptions # {}
      BY <3>2, <3>3
    <3> QED BY <2>1, <3>1, <3>2, <3>4 DEF ProtocolAsked, Named
  <2> QED BY <2>2, <2>3 DEF Stated, Course, ProtocolStated
<1>2. t["role"] = "c" => t["mode"] = ModeAsked(l)
  BY DEF Stated, Course, Parsing, Directed, Direction, ModeAsked
<1>3. /\ Default("bytes") = 0 /\ Default("blocks") = 0
      /\ Default("blksize_arg") = 0 /\ Default("duration") = 10
  BY DEF Default, NonZero
<1>4. /\ IF "-n" \in Given(l) THEN t["bytes"] = Argument(l, "-n")
         ELSE t["bytes"] = Default("bytes")
      /\ IF "-k" \in Given(l) THEN t["blocks"] = Argument(l, "-k")
         ELSE t["blocks"] = Default("blocks")
      /\ IF "-l" \in Given(l) THEN t["blksize_arg"] = Argument(l, "-l")
         ELSE t["blksize_arg"] = Default("blksize_arg")
      /\ IF "-t" \in Given(l) THEN t["duration"] = Argument(l, "-t")
         ELSE t["duration"] = Default("duration")
  BY HoldsArgument DEF Stated, Amounts
<1> QED BY <1>1, <1>2, <1>3, <1>4

(* Two ends are more than one.                                             *)
LEMMA TwoEnds ==
  ASSUME NEW l, NEW a \in EndsAsked(l), NEW b \in EndsAsked(l), a # b
  PROVE  Cardinality(EndsAsked(l)) > 1
<1>1. EndsAsked(l) \subseteq {"-n", "-k", "-t"}
  BY DEF EndsAsked
<1>2. IsFiniteSet({"-n", "-k", "-t"})
  <2>1. {"-n", "-k", "-t"} = ({"-n"} \cup {"-k"}) \cup {"-t"}
    OBVIOUS
  <2>2. IsFiniteSet({"-n"} \cup {"-k"})
    BY FS_Singleton, FS_AddElement
  <2> QED BY <2>1, <2>2, FS_AddElement
<1>3. IsFiniteSet(EndsAsked(l))
  BY <1>1, <1>2, FS_Subset
<1>4. /\ IsFiniteSet({a} \cup {b})
      /\ Cardinality({a} \cup {b}) = 2
  <2>1. IsFiniteSet({a}) /\ Cardinality({a}) = 1 /\ b \notin {a}
    BY FS_Singleton
  <2>2. /\ IsFiniteSet({a} \cup {b})
        /\ Cardinality({a} \cup {b}) = Cardinality({a}) + 1
    BY <2>1, FS_AddElement
  <2> QED BY <2>1, <2>2
<1>5. {a} \cup {b} \in SUBSET EndsAsked(l)
  OBVIOUS
<1>6. Cardinality({a} \cup {b}) <= Cardinality(EndsAsked(l))
  BY <1>3, <1>5, FS_Subset
<1>7. Cardinality(EndsAsked(l)) \in Nat
  BY <1>3, FS_CardinalityType
<1> QED BY <1>4, <1>6, <1>7

LEMMA AtMostOne ==
  ASSUME NEW S, NEW y, S \subseteq {y}
  PROVE  Cardinality(S) <= 1
<1>1. IsFiniteSet({y}) /\ Cardinality({y}) = 1
  BY FS_Singleton
<1>2. S \in SUBSET {y}
  OBVIOUS
<1> QED BY <1>1, <1>2, FS_Subset

(* The ends of the test after the last option.                             *)
LEMMA EndsSet ==
  ASSUME NEW t, DOMAIN t = Fields, NEW env, NEW size
  PROVE  LET e == SetEnd(SetSizes(t), env, size)
             u == SetLimitInterval(e)
         IN
         /\ \A f \in {"role", "duration_flag", "blocks"} : e[f] = t[f]
         /\ \/ e["bytes"] = t["bytes"]
            \/ /\ t["bytes"] = 0 /\ t["blocks"] = 0
               /\ ~Raised(t, "duration_flag")
         /\ e["duration"] = IF /\ e["bytes"] # 0 \/ e["blocks"] # 0
                               /\ ~Raised(t, "duration_flag")
                            THEN 0 ELSE t["duration"]
         /\ \A f \in {"bytes", "blocks", "duration"} : u[f] = e[f]
<1> DEFINE v == SetSizes(t)
           e == SetEnd(v, env, size)
           file == /\ v["bytes"] = 0 /\ v["blocks"] = 0
                   /\ ~Raised(v, "duration_flag")
                   /\ Raised(v, "diskfile_name") /\ v["role"] = "c"
                   /\ "stat" \notin env
           b == IF file THEN [v EXCEPT !["bytes"] = size] ELSE v
<1>1. {"bytes", "blocks", "duration", "role", "duration_flag"} \subseteq Fields
  BY KnownFields DEF Names, SentAlways, Fixed
<1>2. /\ DOMAIN v = Fields
      /\ \A f \in {"bytes", "blocks", "duration", "role", "duration_flag"} :
           v[f] = t[f]
  BY <1>1, SizesMembers
<1>3. e = IF (b["bytes"] # 0 \/ b["blocks"] # 0)
             /\ ~Raised(b, "duration_flag")
          THEN [b EXCEPT !["duration"] = 0] ELSE b
  BY DEF SetEnd
<1> HIDE DEF v
<1>4. /\ DOMAIN b = Fields
      /\ \A f \in {"blocks", "duration", "role", "duration_flag"} :
           b[f] = t[f]
      /\ \/ b["bytes"] = t["bytes"]
         \/ /\ t["bytes"] = 0 /\ t["blocks"] = 0
            /\ ~Raised(t, "duration_flag")
  BY <1>1, <1>2 DEF Raised
<1> HIDE DEF b, e
<1>5. /\ DOMAIN e = Fields
      /\ \A f \in {"bytes", "blocks", "role", "duration_flag"} : e[f] = b[f]
      /\ e["duration"] = IF /\ b["bytes"] # 0 \/ b["blocks"] # 0
                            /\ ~Raised(b, "duration_flag")
                         THEN 0 ELSE b["duration"]
  BY <1>1, <1>3, <1>4
<1>6. \A f \in {"bytes", "blocks", "duration"} :
        SetLimitInterval(e)[f] = e[f]
  BY <1>1, <1>5 DEF SetLimitInterval
<1>7. e["duration"] = IF /\ e["bytes"] # 0 \/ e["blocks"] # 0
                         /\ ~Raised(t, "duration_flag")
                      THEN 0 ELSE t["duration"]
  BY <1>4, <1>5 DEF Raised
<1>8. /\ \A f \in {"role", "duration_flag", "blocks"} : e[f] = t[f]
      /\ \/ e["bytes"] = t["bytes"]
         \/ /\ t["bytes"] = 0 /\ t["blocks"] = 0
            /\ ~Raised(t, "duration_flag")
  BY <1>4, <1>5
<1> QED BY <1>6, <1>7, <1>8 DEF e, v

(* A size that is refused was given.                                       *)
LEMMA SizeRefused ==
  ASSUME NEW t, Parsing(t), NEW l \in Seq(CommandOptions), Stated(t, l),
         SizeFails(t)
  PROVE  Refusable(l)
<1>1. /\ t["protocol"] = ProtocolAsked(l)
      /\ t["blksize_arg"] # 0 =>
           "-l" \in Given(l) /\ t["blksize_arg"] = Argument(l, "-l")
  BY StatedAsked
<1>2. CASE Raised(t, "diskfile_name") /\ t["protocol"] = "udp"
  <2>1. ProtocolAsked(l) = "udp" /\ "-F" \in Given(l)
    BY <1>1, <1>2 DEF Stated, Flags, Raised
  <2> QED BY <2>1 DEF Refusable
<1>3. CASE ~(Raised(t, "diskfile_name") /\ t["protocol"] = "udp")
  <2>1. \/ t["protocol"] # "udp" /\ Blksize(t) <= 0
        \/ Blksize(t) > MaxBlksize
        \/ t["protocol"] = "udp" /\ Blksize(t) > 0 /\
             (Blksize(t) < MinUdpBlksize \/ Blksize(t) > MaxUdpBlksize)
    BY <1>3 DEF SizeFails
  <2>2. t["protocol"] \in {"tcp", "udp", "sctp"}
    BY DEF Parsing
  <2>3. t["blksize_arg"] # 0
    <3>1. SUFFICES ASSUME t["blksize_arg"] = 0 PROVE FALSE
      OBVIOUS
    <3>2. Blksize(t) = DefaultBlksize(t["protocol"])
      BY <3>1 DEF Blksize
    <3>3. /\ DefaultBlksize("udp") = 0
          /\ DefaultBlksize("sctp") = DefaultSctpBlksize
          /\ DefaultBlksize("tcp") = DefaultTcpBlksize
      BY DEF DefaultBlksize
    <3>4. ~(0 > MaxBlksize) /\ ~(0 > 0)
      BY SMT DEF MaxBlksize
    <3>5. /\ ~(DefaultSctpBlksize <= 0) /\ ~(DefaultTcpBlksize <= 0)
          /\ ~(DefaultSctpBlksize > MaxBlksize)
          /\ ~(DefaultTcpBlksize > MaxBlksize)
      BY SMT DEF MaxBlksize, DefaultSctpBlksize, DefaultTcpBlksize
    <3> QED BY <2>1, <2>2, <3>2, <3>3, <3>4, <3>5
  <2>4. "-l" \in Given(l) /\ Blksize(t) = Argument(l, "-l")
    BY <1>1, <2>3 DEF Blksize
  <2>5. Argument(l, "-l") \notin
          (IF ProtocolAsked(l) = "udp" THEN MinUdpBlksize .. MaxUdpBlksize
           ELSE 1 .. MaxBlksize)
    <3> DEFINE n == Argument(l, "-l")
    <3>1. \/ t["protocol"] # "udp" /\ (n <= 0 \/ n > MaxBlksize)
          \/ /\ t["protocol"] = "udp"
             /\ n > MaxBlksize \/ n < MinUdpBlksize \/ n > MaxUdpBlksize
      BY <2>1, <2>4
    <3> HIDE DEF n
    <3>2. \A k \in 1 .. MaxBlksize : ~(k <= 0) /\ ~(k > MaxBlksize)
      <4>1. MaxBlksize \in Int
        BY SMT DEF MaxBlksize
      <4> QED BY <4>1
    <3>3. \A k \in MinUdpBlksize .. MaxUdpBlksize :
            ~(k > MaxBlksize) /\ ~(k < MinUdpBlksize) /\ ~(k > MaxUdpBlksize)
      <4>1. /\ MaxBlksize \in Int /\ MinUdpBlksize \in Int
            /\ MaxUdpBlksize \in Int /\ MaxUdpBlksize <= MaxBlksize
        BY SMT DEF MaxBlksize, MinUdpBlksize, MaxUdpBlksize
      <4> QED BY <4>1
    <3> QED BY <1>1, <3>1, <3>2, <3>3 DEF n
  <2> QED BY <2>4, <2>5 DEF Refusable
<1> QED BY <1>2, <1>3

(* So were two ends of the test.                                           *)
LEMMA EndRefused ==
  ASSUME NEW t, Parsing(t), NEW l \in Seq(CommandOptions), Stated(t, l),
         NEW env, NEW size, t["role"] = "c",
         EndFails(SetEnd(SetSizes(t), env, size))
  PROVE  Refusable(l)
<1> DEFINE e == SetEnd(SetSizes(t), env, size)
<1>1. DOMAIN t = Fields
  BY DEF Parsing, IsTest
<1>2. /\ e["role"] = t["role"] /\ e["duration_flag"] = t["duration_flag"]
      /\ e["blocks"] = t["blocks"]
      /\ \/ e["bytes"] = t["bytes"]
         \/ /\ t["bytes"] = 0 /\ t["blocks"] = 0
            /\ ~Raised(t, "duration_flag")
  BY <1>1, EndsSet
<1> HIDE DEF e
<1>3. \/ Raised(t, "duration_flag") /\ (t["bytes"] # 0 \/ t["blocks"] # 0)
      \/ t["bytes"] # 0 /\ t["blocks"] # 0
  BY <1>2 DEF EndFails, Raised, e
<1>4. /\ t["bytes"] # 0 => "-n" \in EndsAsked(l)
      /\ t["blocks"] # 0 => "-k" \in EndsAsked(l)
  BY StatedAsked DEF EndsAsked
<1>5. Raised(t, "duration_flag") => "-t" \in EndsAsked(l)
  BY DEF Stated, Amounts, EndsAsked, Raised
<1>6. Cardinality(EndsAsked(l)) > 1
  <2>1. "-n" # "-k" /\ "-n" # "-t" /\ "-k" # "-t"
    OBVIOUS
  <2> QED BY <1>3, <1>4, <1>5, <2>1, TwoEnds
<1> QED BY <1>6 DEF Refusable

(* A client that is refused after its last option gave a reason.           *)
LEMMA LineRefused ==
  ASSUME NEW t, Parsing(t), NEW l \in Seq(CommandOptions), Stated(t, l),
         NEW env, NEW size,
         \/ ParseEnd(t, env, size).err # "none"
         \/ ParseEnd(t, env, size).t["role"] # "c"
  PROVE  Refusable(l)
<1>1. CASE t["role"] # "c"
  BY <1>1 DEF Stated, Course, Refusable
<1>2. CASE t["role"] = "c"
  <2>1. ParseEnd(t, env, size).err # "none"
    <3>1. ParseEnd(t, env, size).err = "none" =>
            ParseEnd(t, env, size).t["role"] = t["role"]
      BY AcceptedMembers DEF Names, Fixed, SetAtEnd
    <3> QED BY <1>2, <3>1
  <2>2. \/ RoleFails(t) \/ AuthFails(t, env) \/ SizeFails(t)
        \/ EndFails(SetEnd(SetSizes(t), env, size))
    BY <2>1, Accepted
  <2>3. CASE RoleFails(t)
    <3>1. Given(l) \cap ServerOnly # {}
      BY <1>2, <2>3 DEF RoleFails, Raised, Stated, Flags
    <3> QED BY <3>1 DEF Refusable
  <2>4. CASE AuthFails(t, env)
    <3>1. \/ Either(t)
          \/ ServerEither(t) \/ t["server_skew_threshold"] # 0
          \/ Raised(t, "rcv_timeout_flag") /\ t["mode"] = "SENDER"
      BY <1>2, <2>4 DEF AuthFails, Both, Either
    <3>2. CASE Either(t)
      <4>1. Given(l) \cap {"--username", "--rsa-public-key-path"} # {}
        BY <3>2 DEF Either, Raised, Stated, Flags
      <4> QED BY <4>1 DEF Refusable
    <3>3. CASE ServerEither(t) \/ t["server_skew_threshold"] # 0
      <4>1. Given(l) \cap ServerOnly # {}
        BY <3>3 DEF ServerEither, Raised, Stated, Flags, ServerOnly
      <4> QED BY <4>1 DEF Refusable
    <3>4. CASE Raised(t, "rcv_timeout_flag") /\ t["mode"] = "SENDER"
      <4>1. "--rcv-timeout" \in Given(l)
        BY <3>4 DEF Raised, Stated, Flags
      <4>2. ModeAsked(l) = "SENDER"
        BY <1>2, <3>4, StatedAsked
      <4> QED BY <4>1, <4>2 DEF Refusable
    <3> QED BY <3>1, <3>2, <3>3, <3>4
  <2>5. CASE SizeFails(t)
    BY <2>5, SizeRefused
  <2>6. CASE EndFails(SetEnd(SetSizes(t), env, size))
    BY <1>2, <2>6, EndRefused
  <2> QED BY <2>2, <2>3, <2>4, <2>5, <2>6
<1> QED BY <1>1, <1>2

(* A client that starts runs what its options ask for.                     *)
LEMMA LineAccepted ==
  ASSUME NEW t, Parsing(t), NEW l \in Seq(CommandOptions), Stated(t, l),
         NEW env, NEW size, ParseEnd(t, env, size).err = "none",
         ParseEnd(t, env, size).t["role"] = "c"
  PROVE  AsAsked(ParseEnd(t, env, size).t, l)
<1> DEFINE e == SetEnd(SetSizes(t), env, size)
           u == ParseEnd(t, env, size).t
           ends == {f \in {"duration", "bytes", "blocks"} : u[f] # 0}
<1>1. DOMAIN t = Fields
  BY DEF Parsing, IsTest
<1>2. /\ u = SetLimitInterval(e) /\ ~EndFails(e) /\ ~RoleFails(t)
      /\ ~(HaveSSL /\ AuthFails(t, env))
  BY Accepted
<1>3. /\ u["role"] = t["role"] /\ u["mode"] = t["mode"]
      /\ u["protocol"] = t["protocol"]
      /\ u["sender_has_retransmits"] = t["sender_has_retransmits"]
  BY AcceptedMembers DEF Names, Fixed, SetAtEnd
<1>4. t["role"] = "c"
  BY <1>3
<1>5. /\ e["duration_flag"] = t["duration_flag"]
      /\ e["duration"] = IF /\ e["bytes"] # 0 \/ e["blocks"] # 0
                            /\ ~Raised(t, "duration_flag")
                         THEN 0 ELSE t["duration"]
      /\ u["bytes"] = e["bytes"] /\ u["blocks"] = e["blocks"]
      /\ u["duration"] = e["duration"]
  BY <1>1, <1>2, EndsSet
<1> HIDE DEF u, e
<1>6. "-c" \in Given(l) /\ Given(l) \cap ServerOnly = {}
  <2>1. ~Raised(t, "server_flag")
    BY <1>2, <1>4 DEF RoleFails
  <2>2. ~(HaveSSL /\ Raised(t, "server_authorized_users"))
    BY <1>2, <1>4 DEF AuthFails, ServerEither
  <2> QED BY <1>4, <2>1, <2>2 DEF Raised, Stated, Course, Flags
<1>7. u["mode"] = ModeAsked(l) /\ u["protocol"] = ProtocolAsked(l)
  BY <1>3, <1>4, StatedAsked
<1>8. u["sender_has_retransmits"] = 1 <=>
        /\ ModeAsked(l) # "RECEIVER" /\ ProtocolAsked(l) = "tcp"
        /\ HaveRetransmits
  BY <1>3, <1>4, <1>7 DEF Stated, Course, Retransmits
<1>9. /\ ~(Raised(t, "duration_flag") /\ (u["bytes"] # 0 \/ u["blocks"] # 0))
      /\ ~(u["bytes"] # 0 /\ u["blocks"] # 0)
      /\ u["duration"] = IF u["bytes"] # 0 \/ u["blocks"] # 0 THEN 0
                         ELSE t["duration"]
  BY <1>2, <1>5 DEF EndFails, Raised
<1>10. \E y : ends \subseteq {y}
  <2>1. \/ u["bytes"] = 0 /\ u["blocks"] = 0
        \/ u["duration"] = 0 /\ u["blocks"] = 0
        \/ u["duration"] = 0 /\ u["bytes"] = 0
    BY <1>9
  <2>2. \/ ends \subseteq {"duration"} \/ ends \subseteq {"bytes"}
        \/ ends \subseteq {"blocks"}
    BY <2>1
  <2> QED BY <2>2
<1>11. Cardinality(ends) <= 1
  BY <1>10, AtMostOne
<1>12. ends = {} => "-t" \in Given(l) /\ Argument(l, "-t") = 0
  <2>1. SUFFICES ASSUME ends = {}
                 PROVE  "-t" \in Given(l) /\ Argument(l, "-t") = 0
    OBVIOUS
  <2>2. u["duration"] = 0 /\ u["bytes"] = 0 /\ u["blocks"] = 0
    BY <2>1
  <2>3. t["duration"] = 0
    BY <1>9, <2>2
  <2> QED BY <2>3, StatedAsked
<1> QED BY <1>6, <1>7, <1>8, <1>11, <1>12 DEF AsAsked, u

----------------------------------------------------------------------------
(* The command lines of the clients.                                       *)

LineInvariant ==
  /\ line \in Seq(CommandOptions)
  /\ spc = "parse" => cpc = "exit"
  /\ cpc = "parse" => Stated(client, line)
  /\ cpc \in {"connected", "test"} => line = <<>>
  /\ CommandLine

LEMMA LineStep ==
  ParamsInvariant /\ LineInvariant /\ [Next]_vars => LineInvariant'
<1> SUFFICES ASSUME ParamsInvariant, LineInvariant, [Next]_vars
             PROVE  LineInvariant'
  OBVIOUS
<1> USE DEF LineInvariant, CommandLine
<1>1. CASE ServerOption
  <2>1. PICK x \in ServerOptions : line' = Append(line, x)
    BY <1>1 DEF ServerOption
  <2>2. line' \in Seq(CommandOptions)
    BY <2>1, OneMore, ParamsAssumption
  <2>3. /\ spc = "parse" /\ cpc = "exit" /\ spc' \in {"parse", "exit"}
        /\ UNCHANGED <<client, cpc>>
    BY <1>1 DEF ServerOption
  <2> QED BY <2>2, <2>3
<1>2. CASE ServerStarts
  BY <1>2 DEF ServerStarts
<1>3. CASE ClientAppears
  BY <1>3, StatedFirst DEF ClientAppears
<1>4. CASE ClientOption
  <2>1. PICK x \in ClientOptions :
          /\ client' = ParseBuilt(ClientLacks, client, x).t
          /\ line' = Append(line, x)
          /\ cpc' = IF ParseBuilt(ClientLacks, client, x).err = "none"
                    THEN "parse" ELSE "exit"
    BY <1>4 DEF ClientOption
  <2>2. /\ x \in CommandOptions /\ Parsing(client)
        /\ Stated(client, line)
    BY <1>4, ParamsAssumption DEF ClientOption, ParamsInvariant
  <2>3. line' \in Seq(CommandOptions)
    BY <2>1, <2>2, OneMore
  <2>4. /\ cpc' = "parse" => Stated(client', line')
        /\ cpc' = "exit" => Refusable(line')
    BY <2>1, <2>2, BuiltStated
  <2>5. cpc = "parse" /\ cpc' \in {"parse", "exit"} /\ UNCHANGED spc
    BY <1>4, <2>1 DEF ClientOption
  <2> QED BY <2>3, <2>4, <2>5
<1>5. CASE ClientStarts
  <2>1. PICK env \in Environment :
          /\ client' = ParseEnd(client, env, FileSize).t
          /\ cpc' = IF ParseEnd(client, env, FileSize).err = "none" /\
                       ParseEnd(client, env, FileSize).t["role"] = "c"
                    THEN "parsed" ELSE "exit"
    BY <1>5 DEF ClientStarts
  <2>2. Parsing(client) /\ Stated(client, line)
    BY <1>5 DEF ClientStarts, ParamsInvariant
  <2>3. /\ cpc' = "parsed" => AsAsked(client', line)
        /\ cpc' = "exit" => Refusable(line)
    BY <2>1, <2>2, LineAccepted, LineRefused
  <2>4. /\ cpc = "parse" /\ cpc' \in {"parsed", "exit"}
        /\ UNCHANGED <<spc, line>>
    BY <1>5, <2>1 DEF ClientStarts
  <2> QED BY <2>3, <2>4
<1>6. CASE ClientConnects
  BY <1>6 DEF ClientConnects
<1>7. CASE ExchangeParameters
  <2>1. line = <<>> /\ line' = line /\ spc = "idle"
    BY <1>7 DEF ExchangeParameters
  <2>2. cpc' \in {"test", "exit"} /\ spc' \in {"test", "exit", "idle"}
    BY <1>7 DEF ExchangeParameters, ServerLoop
  <2> QED BY <2>1, <2>2
<1>8. CASE TestEnds
  <2>1. line = <<>> /\ line' = line
    BY <1>8 DEF TestEnds, ParamsInvariant
  <2>2. cpc' = "exit" /\ spc' \in {"exit", "idle"}
    BY <1>8 DEF TestEnds, ServerLoop
  <2> QED BY <2>1, <2>2
<1>9. CASE IdleTimeout
  BY <1>9 DEF IdleTimeout
<1>10. CASE UNCHANGED vars
  BY <1>10 DEF vars
<1> QED
  BY <1>1, <1>2, <1>3, <1>4, <1>5, <1>6, <1>7, <1>8, <1>9, <1>10 DEF Next

(* iperf_parse_arguments: a client that starts runs what its options ask   *)
(* for together, and a client that is refused gave a reason, for all       *)
(* options, in any number and any order.                                   *)
THEOREM LinesAreUnderstood == Spec => []CommandLine
<1>1. Init => LineInvariant
  BY DEF Init, LineInvariant, CommandLine
<1>2. ParamsInvariant /\ LineInvariant /\ [Next]_vars => LineInvariant'
  BY LineStep
<1>3. LineInvariant => CommandLine
  BY DEF LineInvariant
<1> QED BY <1>1, <1>2, <1>3, ParamsInvariance, PTL DEF Spec

=============================================================================
