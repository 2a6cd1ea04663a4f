--------------------------- MODULE ServiceProofs ---------------------------
(***************************************************************************)
(* The service leaves no server behind, for any set of process numbers and *)
(* any order of commands, exits and crashes.                               *)
(***************************************************************************)
EXTENDS Service, FiniteSetTheorems, TLAPS

\* g_child is a process exactly while service_main waits for it or ends it;
\* STOPPED is reported only after that, and a server that runs otherwise is
\* one that has been given up.
ServiceInvariant ==
  /\ alive \subseteq Pids
  /\ child \in Pids \cup {NoPid}
  /\ alive \ escaped \subseteq {child}
  /\ pc \notin {"wait", "terminate"} => child = NoPid
  /\ status = "STOPPED" => pc \in {"close", "returned", "none"}

\* When no process is in g_child, every server that runs has been given up.
LEMMA AllEscaped ==
  ASSUME ServiceInvariant, child = NoPid
  PROVE  alive \subseteq escaped
BY ServiceAssumption DEF ServiceInvariant

\* Stop, which service_main reaches from five places, gives up the server it
\* had, whether or not that server still runs.
LEMMA StopInvariant ==
  ASSUME ServiceInvariant, NEW left, Stop(left), alive' \subseteq alive,
         left = {child} \/ (left = {} /\ child = NoPid)
  PROVE  ServiceInvariant'
<1>1. alive' \subseteq escaped \cup left
  BY AllEscaped DEF ServiceInvariant
<1>2. alive' \ escaped' \subseteq {child'}
  BY <1>1 DEF Stop
<1> QED
  BY <1>2 DEF Stop, ServiceInvariant

LEMMA StepInvariant == ServiceInvariant /\ [Next]_vars => ServiceInvariant'
<1> SUFFICES ASSUME ServiceInvariant, [Next]_vars
             PROVE  ServiceInvariant'
  OBVIOUS
<1>1. CASE install_service \/ remove_service \/ stop_service_cmd
  BY <1>1 DEF install_service, remove_service, stop_service_cmd, process,
              servers, ServiceInvariant
<1>2. CASE start_service_cmd
  BY <1>2 DEF start_service_cmd, servers, ServiceInvariant
<1>3. CASE service_control_handler
  BY <1>3 DEF service_control_handler, HandlerReports, HandlerSets, servers,
              ServiceInvariant
<1>4. CASE CreateEvent
  BY <1>4 DEF CreateEvent, servers, ServiceInvariant
<1>5. CASE start_child_server
  <2>1. child = NoPid /\ alive \subseteq escaped
    BY <1>5, AllEscaped DEF start_child_server, ServiceInvariant
  <2>2. CASE UNCHANGED alive /\ Stop({})
    BY <2>1, <2>2, StopInvariant
  <2>3. CASE /\ \E p \in Pids \ alive : /\ child' = p
                                        /\ alive' = alive \cup {p}
                                        /\ escaped' = escaped \ {p}
             /\ pc' = "wait" /\ UNCHANGED status
    BY <1>5, <2>1, <2>3 DEF start_child_server, ServiceInvariant
  <2> QED
    BY <1>5, <2>2, <2>3 DEF start_child_server
<1>6. CASE WaitStop
  BY <1>6 DEF WaitStop, servers, ServiceInvariant
<1>7. CASE WaitChild
  BY <1>7 DEF WaitChild, ServiceInvariant
<1>8. CASE WaitFails
  BY <1>8, StopInvariant DEF WaitFails
<1>9. CASE Terminate
  BY <1>9, StopInvariant DEF Terminate
<1>10. CASE Pause
  <2>1. child = NoPid
    BY <1>10 DEF Pause, ServiceInvariant
  <2>2. CASE event = "set"
    BY <1>10, <2>1, <2>2, StopInvariant DEF Pause
  <2>3. CASE event # "set"
    BY <1>10, <2>1, <2>3 DEF Pause, ServiceInvariant
  <2> QED
    BY <2>2, <2>3
<1>11. CASE CloseEvent \/ ProcessEnds
  BY <1>11 DEF CloseEvent, ProcessEnds, servers, ServiceInvariant
<1>12. CASE ServerExits
  BY <1>12 DEF ServerExits, process, ServiceInvariant
<1>13. CASE Crash
  BY <1>13 DEF Crash, ServiceInvariant
<1>14. CASE UNCHANGED vars
  BY <1>14 DEF vars, ServiceInvariant
<1> QED
  BY <1>1, <1>2, <1>3, <1>4, <1>5, <1>6, <1>7, <1>8, <1>9, <1>10, <1>11,
     <1>12, <1>13, <1>14 DEF Next, service_main, MainSteps

\* The invariant says what is promised: a set within {child} has at most one
\* member, and with STOPPED there is no child.
LEMMA InvariantSuffices == ServiceInvariant => ServerStopsWithService
<1> SUFFICES ASSUME ServiceInvariant
             PROVE  ServerStopsWithService
  OBVIOUS
<1>1. Cardinality(alive \ escaped) <= 1
  <2>1. IsFiniteSet({child}) /\ Cardinality({child}) = 1
    BY FS_Singleton
  <2>2. Cardinality(alive \ escaped) <= Cardinality({child})
    BY <2>1, FS_Subset DEF ServiceInvariant
  <2> QED
    BY <2>1, <2>2
<1>2. status = "STOPPED" => alive \subseteq escaped
  BY AllEscaped DEF ServiceInvariant
<1> QED
  BY <1>1, <1>2 DEF ServerStopsWithService, ServiceInvariant

\* service_main, the control handler and the commands, whatever exits or is
\* killed in between: a service never has two servers, and once it has
\* reported STOPPED only servers that were given up still run.
THEOREM ServersStop == Spec => []ServerStopsWithService
<1>1. Init => ServiceInvariant
  BY DEF Init, ServiceInvariant
<1>2. ServiceInvariant /\ [Next]_vars => ServiceInvariant'
  BY StepInvariant
<1>3. ServiceInvariant => ServerStopsWithService
  BY InvariantSuffices
<1> QED
  BY <1>1, <1>2, <1>3, PTL DEF Spec
=============================================================================
