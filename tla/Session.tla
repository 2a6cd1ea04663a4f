------------------------------ MODULE Session ------------------------------
(***************************************************************************)
(* What the control protocol promises: the server serves one client at a   *)
(* time, it exchanges results with the client that holds it only, and a    *)
(* client reports success only after that exchange.                        *)
(***************************************************************************)
CONSTANTS Clients, None

VARIABLES
  holder,     \* the client whose test the server runs, or None
  exchanged,  \* the clients that were sent the server's results
  outcome     \* what each client reports when it ends

vars == <<holder, exchanged, outcome>>

Init ==
  /\ holder = None
  /\ exchanged = {}
  /\ outcome = [c \in Clients |-> "pending"]

Admit(c) ==
  /\ holder = None
  /\ holder' = c
  /\ UNCHANGED <<exchanged, outcome>>

Exchange ==
  /\ holder # None
  /\ holder \notin exchanged
  /\ exchanged' = exchanged \cup {holder}
  /\ UNCHANGED <<holder, outcome>>

Release ==
  /\ holder # None
  /\ holder' = None
  /\ UNCHANGED <<exchanged, outcome>>

Succeed(c) ==
  /\ outcome[c] = "pending" /\ c \in exchanged
  /\ outcome' = [outcome EXCEPT ![c] = "ok"]
  /\ UNCHANGED <<holder, exchanged>>

Fail(c) ==
  /\ outcome[c] = "pending"
  /\ outcome' = [outcome EXCEPT ![c] = "failed"]
  /\ UNCHANGED <<holder, exchanged>>

Next ==
  \/ Exchange \/ Release
  \/ \E c \in Clients : Admit(c) \/ Succeed(c) \/ Fail(c)

Spec == Init /\ [][Next]_vars
============================================================================
