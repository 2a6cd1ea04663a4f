------------------------------ MODULE MCParams ------------------------------
(* The instance of Params that TLC checks.                                 *)
EXTENDS Params

Opt(o, a) == [o |-> o, a |-> a]

MCServerOptions ==
  {Opt("-s", 1), Opt("-1", 1), Opt("-D", 1), Opt("-F", 1),
   Opt("--server-bitrate-limit", 100), Opt("--server-max-duration", 11),
   Opt("--idle-timeout", 5), Opt("--rsa-private-key-path", 1),
   Opt("--authorized-users-path", 1)}

\* -P 4 with -b 2^24 asks for 2^26, which is RateMod
MCClientOptions ==
  {Opt("-c", 1), Opt("-u", 1), Opt("--sctp", 1), Opt("-m", 1),
   Opt("-R", 1), Opt("--bidir", 1), Opt("-t", 9), Opt("-O", 2),
   Opt("-n", 7), Opt("-k", Bad), Opt("-l", 8), Opt("-F", 1),
   Opt("-b", 20), Opt("-b", 16777216), Opt("--fq-rate", 60),
   Opt("-P", 4), Opt("-C", 1), Opt("--get-server-output", 1),
   Opt("--username", 1), Opt("--rsa-public-key-path", 1)}
=============================================================================
