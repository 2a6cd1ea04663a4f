----------------------------- MODULE MCThreads -----------------------------
(* Instances of StreamThreads for TLC.                                     *)
EXTENDS StreamThreads

(* POSIX hosts of which the processes are not killed.                      *)
Posix ==
  [windows |-> {}, limited |-> TRUE, slowPeers |-> TRUE,
   createFails |-> Hosts, killed |-> {}, vanish |-> Hosts]

(* Tests that run to their end or are killed; w are the Windows builds.    *)
Calm(w) ==
  [windows |-> w, limited |-> FALSE, slowPeers |-> FALSE,
   createFails |-> {}, killed |-> Hosts, vanish |-> {}]

(* Two Windows hosts and a server with a bitrate limit.                    *)
WindowsLimited == [Calm(Hosts) EXCEPT !.limited = TRUE]

MCSettings == {Posix} \cup {Calm(w) : w \in SUBSET Hosts}
MCLimited == {WindowsLimited}

============================================================================
