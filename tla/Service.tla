------------------------------ MODULE Service ------------------------------
(***************************************************************************)
(* The Windows service: service_main keeps one server process running and  *)
(* waits for its end or for the stop event, which the control handler sets *)
(* from a thread of its own.  The service control manager (SCM) and the    *)
(* processes are external.  The service process may crash.  Names, paths   *)
(* and the log are left out.                                               *)
(***************************************************************************)
EXTENDS Integers, FiniteSets

CONSTANTS Pids,      \* of the server processes that run at one time
          NoPid

ASSUME ServiceAssumption == IsFiniteSet(Pids) /\ NoPid \notin Pids

VARIABLES scm,       \* "none", "installed" or "marked" for deletion
          status,    \* what SetServiceStatus has last been told
          pc,        \* where service_main is, "none" without a process
          event,     \* g_stop_event
          handler,   \* where service_control_handler is
          child,     \* g_child
          alive,     \* the server processes that run
          escaped    \* the servers that nobody will stop any more

vars == <<scm, status, pc, event, handler, child, alive, escaped>>

Init == /\ scm = "none" /\ status = "STOPPED" /\ pc = "none"
        /\ event = "null" /\ handler = "idle"
        /\ child = NoPid /\ alive = {} /\ escaped = {}

process == <<status, pc, event, handler>>
servers == <<child, alive, escaped>>

----------------------------------------------------------------------------
(* The commands                                                            *)
install_service == /\ scm = "none"
                   /\ scm' = "installed"
                   /\ UNCHANGED <<process, servers>>

\* StartService starts the process, which registers its handler; a service
\* that runs counts as started
start_service_cmd == /\ scm = "installed" /\ pc = "none"
                     /\ pc' = "registered" /\ status' = "START_PENDING"
                     /\ UNCHANGED <<scm, event, handler, servers>>

\* dwControlsAccepted
Accepts == status = "RUNNING"

\* ControlService calls the handler of a service that accepts the control
stop_service_cmd == /\ scm # "none" /\ Accepts /\ handler = "idle"
                    /\ handler' = "called"
                    /\ UNCHANGED <<scm, status, pc, event, servers>>

\* a service that runs is deleted when its process has ended
remove_service == /\ scm = "installed"
                  /\ scm' = IF pc = "none" THEN "none" ELSE "marked"
                  /\ UNCHANGED <<process, servers>>

----------------------------------------------------------------------------
(* service_control_handler                                                 *)
HandlerReports == /\ handler = "called"
                  /\ status' = "STOP_PENDING" /\ handler' = "reported"
                  /\ UNCHANGED <<scm, pc, event, servers>>

\* mutant: the event is not set
HandlerSets_NoEvent == /\ handler = "reported"
                       /\ handler' = "idle"
                       /\ UNCHANGED <<scm, status, pc, event, servers>>

\* SetEvent of a handle that has been closed does nothing
HandlerSets == /\ handler = "reported"
               /\ event' = IF event = "reset" THEN "set" ELSE event
               /\ handler' = "idle"
               /\ UNCHANGED <<scm, status, pc, servers>>

----------------------------------------------------------------------------
(* service_main                                                            *)
\* the service ends: STOPPED is reported, then the event is closed
Stop(left) == /\ status' = "STOPPED" /\ pc' = "close"
              /\ child' = NoPid
              /\ escaped' = (escaped \cup left) \cap alive'

CreateEvent ==
  /\ pc = "registered"
  /\ \/ event' = "reset" /\ status' = "RUNNING" /\ pc' = "start"
     \/ event' = event /\ status' = "STOPPED" /\ pc' = "returned"
  /\ UNCHANGED <<scm, handler, servers>>

start_child_server ==
  /\ pc = "start"
  /\ \/ /\ \E p \in Pids \ alive : /\ child' = p
                                   /\ alive' = alive \cup {p}
                                   /\ escaped' = escaped \ {p}
        /\ pc' = "wait" /\ UNCHANGED status
     \/ UNCHANGED alive /\ Stop({})
  /\ UNCHANGED <<scm, event, handler>>

\* both handles signalled: the event is the first of the two
WaitStop ==
  /\ pc = "wait" /\ event = "set"
  /\ pc' = "terminate"
  /\ UNCHANGED <<scm, status, event, handler, servers>>

WaitChild ==
  /\ pc = "wait" /\ event # "set" /\ child \notin alive
  /\ pc' = "pause" /\ child' = NoPid
  /\ UNCHANGED <<scm, status, event, handler, alive, escaped>>

\* the wait itself fails: the handles are closed, the server runs on
WaitFails ==
  /\ pc = "wait"
  /\ UNCHANGED alive /\ Stop({child})
  /\ UNCHANGED <<scm, event, handler>>

\* mutant: the server is not terminated
Terminate_NotSent ==
  /\ pc = "terminate"
  /\ UNCHANGED alive /\ Stop({})
  /\ UNCHANGED <<scm, event, handler>>

\* TerminateProcess, and 5 s for the server to end
Terminate ==
  /\ pc = "terminate"
  /\ \/ alive' = alive \ {child}
     \/ UNCHANGED alive
  /\ Stop({child})
  /\ UNCHANGED <<scm, event, handler>>

\* one second without a stop, then the next server
Pause ==
  /\ pc = "pause"
  /\ UNCHANGED alive
  /\ IF event = "set" THEN Stop({})
     ELSE pc' = "start" /\ UNCHANGED <<status, child, escaped>>
  /\ UNCHANGED <<scm, event, handler>>

CloseEvent ==
  /\ pc = "close"
  /\ event' = "null" /\ pc' = "returned"
  /\ UNCHANGED <<scm, status, handler, servers>>

\* the dispatcher returns when the handler has, and the process ends: the
\* SCM takes the service as stopped
ProcessEnds ==
  /\ pc = "returned" /\ handler = "idle"
  /\ pc' = "none" /\ status' = "STOPPED" /\ event' = "null"
  /\ scm' = IF scm = "marked" THEN "none" ELSE scm
  /\ UNCHANGED <<handler, servers>>

----------------------------------------------------------------------------
(* Faults                                                                  *)
\* a server process ends, for whatever reason
ServerExits == /\ \E p \in alive : alive' = alive \ {p}
               /\ UNCHANGED <<scm, process, child, escaped>>

\* the service process is killed: its server is not
Crash ==
  /\ pc # "none"
  /\ pc' = "none" /\ status' = "STOPPED" /\ event' = "null"
  /\ handler' = "idle" /\ child' = NoPid
  /\ escaped' = (escaped \cup {child}) \cap alive
  /\ scm' = IF scm = "marked" THEN "none" ELSE scm
  /\ UNCHANGED alive

\* the steps that service_main takes of itself; a failure of the wait, which
\* has no timeout, is a fault that nothing brings about
MainSteps == \/ CreateEvent \/ start_child_server
             \/ WaitStop \/ WaitChild
             \/ Terminate \/ Pause \/ CloseEvent

service_main == MainSteps \/ WaitFails

service_control_handler == HandlerReports \/ HandlerSets

Next == \/ install_service \/ start_service_cmd \/ stop_service_cmd
        \/ remove_service \/ service_main \/ service_control_handler
        \/ ProcessEnds \/ ServerExits \/ Crash

\* Windows schedules every thread that can run
Fairness == /\ WF_vars(MainSteps) /\ WF_vars(service_control_handler)
            /\ WF_vars(ProcessEnds)

Spec == Init /\ [][Next]_vars /\ Fairness

----------------------------------------------------------------------------
(* Properties                                                              *)
\* The service has one server at a time, and none once it has reported
\* STOPPED: only a server whose end was not waited for to the end, or whose
\* service crashed, outlives it.
ServerStopsWithService ==
  /\ Cardinality(alive \ escaped) <= 1
  /\ status = "STOPPED" => alive \subseteq escaped
  /\ alive \ escaped \subseteq {child}

\* A service that is told to stop reports STOPPED and its process ends,
\* wherever service_main was when the handler was called; until then a server
\* that exits is started again.
ServesUntilStopped ==
  /\ (handler = "called") ~> (pc = "none" /\ status = "STOPPED")
  /\ (pc = "wait" /\ child \notin alive) ~>
       (child \in alive \/ event = "set" \/
        pc \in {"close", "returned", "none"})
=============================================================================
