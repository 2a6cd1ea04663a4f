--------------------------- MODULE ControlProofs ---------------------------
(***************************************************************************)
(* Proofs about Control, for every set of clients, number of streams,      *)
(* assignment of modes and choice of faults: its own invariants, that it   *)
(* implements Session, and the order of the messages and of the streams.   *)
(***************************************************************************)
EXTENDS Control, TLAPS, SequenceTheorems

----------------------------------------------------------------------------
(* What is written on a control connection is a token.                     *)

(* What a side writes is a state byte, a JSON message or an error code.    *)
LEMMA TokenTypes ==
  /\ \A s \in States : Byte(s) \in Tokens
  /\ Json("PARAMS") \in Tokens /\ Json("RESULTS") \in Tokens
  /\ \A e \in Errors, o \in Clients \cup {None} : Err(e, o) \in Tokens
BY DEF Byte, Json, Err, Tokens

(* SWrite, SetEnd and ResetQueued keep the types of what they change.      *)
LEMMA SWriteType ==
  ASSUME NEW ch \in [Clients -> Seq(Tokens)], NEW k \in Conns,
         NEW toks \in Seq(Tokens)
  PROVE  SWrite(ch, k, toks) \in [Clients -> Seq(Tokens)]
<1>1. ch[k.c] \o toks \in Seq(Tokens)
  BY ConcatProperties DEF Conns
<1>2. QED
  BY <1>1 DEF SWrite, Conns

(* Telling a client of an error keeps the queues well typed.               *)
LEMMA TellClientType ==
  ASSUME NEW ch \in [Clients -> Seq(Tokens)], NEW k \in Conns,
         NEW e \in Errors, NEW o \in Clients \cup {None}
  PROVE  TellClient(ch, k, e, o) \in [Clients -> Seq(Tokens)]
<1>1. <<Err(e, o)>> \in Seq(Tokens)
  BY TokenTypes
<1>2. QED
  BY <1>1, SWriteType DEF TellClient

(* SetEnd and ResetQueued keep the ends of the connections well typed.     *)
LEMMA EndTypes ==
  ASSUME NEW ends \in [Clients -> {"none", "queued", "open", "shut", "closed"}],
         NEW k \in Conns,
         NEW e \in {"none", "queued", "open", "shut", "closed"}
  PROVE  /\ SetEnd(ends, k, e) \in [Clients -> {"none", "queued", "open", "shut", "closed"}]
         /\ ResetQueued(ends) \in [Clients -> {"none", "queued", "open", "shut", "closed"}]
BY DEF SetEnd, ResetQueued, Conns

(* Refusing a connection keeps the queues well typed.                      *)
LEMMA DeniedType ==
  ASSUME TypeOK, NEW k \in Conns, NEW lost \in BOOLEAN
  PROVE  Denied(k, lost) \in [Clients -> Seq(Tokens)]
<1>1. <<Byte("ACCESS_DENIED")>> \in Seq(Tokens)
  BY TokenTypes DEF States
<1>2. QED
  BY <1>1, SWriteType DEF Denied, TypeOK

(* accept() on a backlog that is not empty returns a connection.           *)
LEMMA BacklogHead ==
  ASSUME TypeOK, backlog # <<>>
  PROVE  Head(backlog) \in Conns /\ Tail(backlog) \in Seq(Conns)
BY HeadTailProperties DEF TypeOK

(* cleanup_server and a failing handler keep the types.                    *)
LEMMA CleanupType ==
  ASSUME TypeOK, NEW k \in Conns, NEW ch \in [Clients -> Seq(Tokens)],
         NEW e \in Errors, NEW o \in Clients \cup {None},
         CleanupServer(k, ch, e, o)
  PROVE  /\ spc' = "sync" /\ sstate' \in States /\ sctrl' = k
         /\ toC' \in [Clients -> Seq(Tokens)]
         /\ UNCHANGED <<sstreams, stimer, listener>>
BY TellClientType DEF CleanupServer, States

(* What i_errno holds when it is used is an error, whichever worker may    *)
(* have set it after the step that failed.                                 *)
LEMMA OverwrittenIsError ==
  /\ \A c : StreamErrors(c) \subseteq Errors \ {"IENONE"}
  /\ \A e \in Errors \ {"IENONE"} : Overwritten(e) \subseteq Errors \ {"IENONE"}
BY DEF Overwritten, StreamErrors, Errors

(* A handler that fails ends the test with an error.                       *)
LEMMA FailIsWith ==
  ASSUME NEW k, NEW e \in Errors \ {"IENONE"}, Fail(k, e)
  PROVE  \E x \in Errors \ {"IENONE"} : FailWith(k, x)
BY OverwrittenIsError DEF Fail

(* The same, where it does not matter which error.                         *)
LEMMA FailIsAnError ==
  ASSUME NEW k, NEW e \in Errors, Fail(k, e)
  PROVE  \E x \in Errors : FailWith(k, x)
BY OverwrittenIsError DEF Fail, Overwritten

(* A handler that fails keeps the types.                                   *)
LEMMA FailType ==
  ASSUME TypeOK, NEW k \in Conns, NEW e \in Errors, FailWith(k, e),
         UNCHANGED clientVars, backlog' \in Seq(Conns),
         toS' \in [Clients -> Seq(Tokens)]
  PROVE  TypeOK'
<1>1. k.c \in Clients /\ toC \in [Clients -> Seq(Tokens)]
  BY DEF Conns, TypeOK
<1>2. CleanupServer(k, toC, e, k.c)
  BY DEF FailWith
<1>3. /\ spc' = "sync" /\ sstate' \in States /\ sctrl' = k
      /\ toC' \in [Clients -> Seq(Tokens)]
      /\ UNCHANGED <<sstreams, stimer, listener>>
  BY <1>1, <1>2, CleanupType
<1>4. sEnd' \in [Clients -> {"none", "queued", "open", "shut", "closed"}]
  BY EndTypes DEF FailWith, TypeOK
<1>5. QED
  BY <1>1, <1>3, <1>4 DEF FailWith, TypeOK, clientVars

(* The end of cleanup_server and iperf_reset_test keep the types.          *)
LEMMA ShutdownType ==
  ASSUME TypeOK,
         NEW ends \in [Clients -> {"none", "queued", "open", "shut", "closed"}],
         Shutdown(ends)
  PROVE  /\ spc' \in {"down", "exited"} /\ sctrl' = None /\ sstate' \in States
         /\ sstreams' \in Seq(Conns) /\ sdone' \in BOOLEAN /\ stimer' \in BOOLEAN
         /\ listener' \in BOOLEAN /\ backlog' \in Seq(Conns)
         /\ sEnd' \in [Clients -> {"none", "queued", "open", "shut", "closed"}]
<1>1. sdone' \in BOOLEAN /\ stimer' \in BOOLEAN /\ listener' \in BOOLEAN
  BY Zenon DEF Shutdown
<1>2. spc' \in {"down", "exited"} /\ sctrl' = None /\ sstate' \in States
  BY DEF Shutdown, States
<1>3. sstreams' \in Seq(Conns) /\ backlog' \in Seq(Conns)
  BY DEF Shutdown
<1>4. sEnd' \in [Clients -> {"none", "queued", "open", "shut", "closed"}]
  BY DEF Shutdown, ResetQueued
<1>5. QED
  BY <1>1, <1>2, <1>3, <1>4

(* Reading from the control connection keeps the queues well typed.        *)
LEMMA ConsumeType ==
  ASSUME TypeOK, sctrl \in Conns, toS[sctrl.c] # <<>>, Consume
  PROVE  toS' \in [Clients -> Seq(Tokens)]
<1>1. sctrl.c \in Clients
  BY DEF Conns
<1>2. Tail(toS[sctrl.c]) \in Seq(Tokens)
  BY <1>1, HeadTailProperties DEF TypeOK
<1>3. QED
  BY <1>1, <1>2 DEF Consume, TypeOK

----------------------------------------------------------------------------
(* What the queues to the clients hold.                                    *)

(* Writing good tokens leaves good queues.                                 *)
LEMMA GoodWrite ==
  ASSUME NEW ch \in [Clients -> Seq(Tokens)], NEW k \in Conns, NEW ex,
         NEW toks \in Seq(Tokens), GoodQueues(ch, ex),
         \A j \in 1..Len(toks) : GoodToken(toks[j], k.c, ex)
  PROVE  GoodQueues(SWrite(ch, k, toks), ex)
<1> SUFFICES ASSUME NEW c \in Clients, NEW j \in 1..Len(SWrite(ch, k, toks)[c])
             PROVE  GoodToken(SWrite(ch, k, toks)[c][j], c, ex)
  BY DEF GoodQueues
<1>1. CASE SWrite(ch, k, toks)[c] = ch[c]
  BY <1>1 DEF GoodQueues
<1>2. CASE SWrite(ch, k, toks)[c] # ch[c]
  <2>1. c = k.c /\ SWrite(ch, k, toks)[c] = ch[c] \o toks
    BY <1>2 DEF SWrite, Conns
  <2>2. ch[c] \in Seq(Tokens) /\ Len(ch[c]) \in Nat /\ Len(toks) \in Nat
    BY LenProperties
  <2>3. Len(ch[c] \o toks) = Len(ch[c]) + Len(toks)
    BY <2>2, ConcatProperties
  <2>4. CASE j \in 1..Len(ch[c])
    <3>1. (ch[c] \o toks)[j] = ch[c][j]
      BY <2>1, <2>2, <2>3, <2>4, ConcatProperties
    <3>2. QED
      BY <2>1, <2>4, <3>1 DEF GoodQueues
  <2>5. CASE j \notin 1..Len(ch[c])
    <3>1. j \in 1..(Len(ch[c]) + Len(toks))
      BY <2>1, <2>3
    <3>2. j - Len(ch[c]) \in 1..Len(toks)
      BY <2>2, <2>5, <3>1
    <3>3. (ch[c] \o toks)[j] = toks[j - Len(ch[c])]
      BY <2>2, <2>5, <3>1, ConcatProperties
    <3>4. QED
      BY <2>1, <3>2, <3>3
  <2>6. QED
    BY <2>4, <2>5
<1>3. QED
  BY <1>1, <1>2

(* Reading leaves good queues.                                             *)
LEMMA GoodTail ==
  ASSUME NEW ch \in [Clients -> Seq(Tokens)], NEW c \in Clients, NEW ex,
         GoodQueues(ch, ex), ch[c] # <<>>
  PROVE  GoodQueues([ch EXCEPT ![c] = Tail(@)], ex)
<1> DEFINE nch == [ch EXCEPT ![c] = Tail(@)]
<1> SUFFICES ASSUME NEW d \in Clients, NEW j \in 1..Len(nch[d])
             PROVE  GoodToken(nch[d][j], d, ex)
  BY DEF GoodQueues
<1>1. CASE d # c
  BY <1>1 DEF GoodQueues
<1>2. CASE d = c
  <2>1. nch[d] = Tail(ch[c]) /\ ch[c] \in Seq(Tokens)
    BY <1>2
  <2>2. Len(nch[d]) = Len(ch[c]) - 1 /\ Len(ch[c]) \in Nat
    BY <2>1, HeadTailProperties, LenProperties
  <2>3. nch[d][j] = ch[c][j + 1]
    <3>1. \A i \in 1..Len(Tail(ch[c])) : Tail(ch[c])[i] = ch[c][i + 1]
      BY <2>1, HeadTailProperties
    <3>2. QED
      BY <2>1, <3>1
  <2>4. j + 1 \in 1..Len(ch[c])
    BY <2>2
  <2>5. QED
    BY <1>2, <2>3, <2>4 DEF GoodQueues
<1>3. QED
  BY <1>1, <1>2

(* Discarding all that was received leaves good queues.                    *)
LEMMA GoodEmpty ==
  ASSUME NEW ch \in [Clients -> Seq(Tokens)], NEW c \in Clients, NEW ex,
         GoodQueues(ch, ex)
  PROVE  GoodQueues([ch EXCEPT ![c] = <<>>], ex)
BY DEF GoodQueues

(* cleanup_server writes real errors only.                                 *)
LEMMA GoodTell ==
  ASSUME NEW ch \in [Clients -> Seq(Tokens)], NEW k \in Conns, NEW ex,
         NEW e \in Errors, NEW o \in Clients \cup {None}, GoodQueues(ch, ex)
  PROVE  GoodQueues(TellClient(ch, k, e, o), ex)
<1>1. CASE e = "IENONE"
  BY <1>1 DEF TellClient
<1>2. CASE e # "IENONE"
  <2>1. <<Err(e, o)>> \in Seq(Tokens)
    BY TokenTypes
  <2>2. GoodToken(Err(e, o), k.c, ex)
    BY <1>2 DEF GoodToken, Err, Byte
  <2>3. \A j \in 1..Len(<<Err(e, o)>>) : GoodToken(<<Err(e, o)>>[j], k.c, ex)
    BY <2>2
  <2>4. QED
    BY <1>2, <2>1, <2>3, GoodWrite DEF TellClient
<1>3. QED
  BY <1>1, <1>2

(* A state byte other than DISPLAY_RESULTS may go to any client.           *)
LEMMA GoodByte ==
  ASSUME NEW ch \in [Clients -> Seq(Tokens)], NEW k \in Conns, NEW ex,
         NEW st \in States \ {"DISPLAY_RESULTS"}, GoodQueues(ch, ex)
  PROVE  /\ SWrite(ch, k, <<Byte(st)>>) \in [Clients -> Seq(Tokens)]
         /\ GoodQueues(SWrite(ch, k, <<Byte(st)>>), ex)
<1>1. <<Byte(st)>> \in Seq(Tokens)
  BY TokenTypes
<1>2. GoodToken(Byte(st), k.c, ex)
  BY DEF GoodToken, Byte
<1>3. \A j \in 1..Len(<<Byte(st)>>) : GoodToken(<<Byte(st)>>[j], k.c, ex)
  BY <1>2
<1>4. QED
  BY <1>1, <1>3, GoodWrite, SWriteType

----------------------------------------------------------------------------
(* The invariant is inductive.                                             *)

Ends == {"none", "queued", "open", "shut", "closed"}

(* The invariant holds when the processes have just started.               *)
THEOREM InitInvariant == Init => ControlInvariant
<1> SUFFICES ASSUME Init PROVE ControlInvariant
  OBVIOUS
<1>1. TypeOK
  <2>1. sdone \in BOOLEAN /\ stimer \in BOOLEAN /\ listener \in BOOLEAN
    BY Zenon DEF Init
  <2>2. QED
    BY <2>1 DEF Init, TypeOK, States, Errors
<1>2. SocketAndPc
  BY DEF Init, SocketAndPc
<1>3. OneControlConnection
  BY DEF Init, OneControlConnection
<1>4. GoodQueues(toC, exchanged)
  BY DEF Init, GoodQueues
<1>5. SuccessMeansExchanged
  BY DEF Init, SuccessMeansExchanged
<1>6. QED
  BY <1>1, <1>2, <1>3, <1>4, <1>5 DEF ControlInvariant

(* The server is in a test: ctrl_sck holds a connection.                   *)
LEMMA InTest ==
  ASSUME ControlInvariant,
         \/ spc \in {"params", "results", "sync"}
         \/ spc = "loop" /\ sstate # "IPERF_START"
         \/ spc = "loop" /\ sctrl # None
         \/ spc = "loop" /\ stimer
  PROVE  sctrl \in Conns /\ sctrl # None /\ sctrl.c \in Clients
BY DEF ControlInvariant, SocketAndPc, TypeOK, Conns

(* The end of the connection in ctrl_sck changes.                          *)
LEMMA SetCtrlEnd ==
  ASSUME TypeOK, OneControlConnection, NEW k \in Conns, sctrl \in {k, None},
         NEW e \in Ends, sEnd' = SetEnd(sEnd, k, e), sctrl' = k
  PROVE  OneControlConnection'
<1> SUFFICES ASSUME NEW c \in Clients, sEnd'[c] \in {"open", "shut"}
             PROVE  sctrl' = [c |-> c, i |-> 0]
  BY DEF OneControlConnection
<1>1. CASE sEnd'[c] = sEnd[c]
  <2>1. sctrl = [c |-> c, i |-> 0]
    BY <1>1 DEF OneControlConnection
  <2>2. sctrl # None
    BY <2>1, ConstantsAssumption
  <2>3. QED
    BY <2>1, <2>2
<1>2. CASE sEnd'[c] # sEnd[c]
  <2>1. k.i = 0 /\ k.c = c
    BY <1>2 DEF SetEnd, TypeOK, Conns
  <2>2. k = [c |-> c, i |-> 0]
    BY <2>1 DEF Conns
  <2>3. QED
    BY <2>2
<1>3. QED
  BY <1>1, <1>2

(* A failing handler keeps the invariant.                                  *)
LEMMA FailInvariant ==
  ASSUME ControlInvariant, NEW k \in Conns, sctrl \in {k, None},
         NEW f \in Errors \ {"IENONE"}, Fail(k, f), UNCHANGED clientVars,
         backlog' \in Seq(Conns), toS' \in [Clients -> Seq(Tokens)]
  PROVE  ControlInvariant'
<1> PICK e \in Errors \ {"IENONE"} : FailWith(k, e)
  BY FailIsWith
<1>1. k.c \in Clients /\ None \notin Clients
  BY ConstantsAssumption DEF Conns
<1>2. TypeOK'
  BY FailType DEF ControlInvariant
<1>3. CleanupServer(k, toC, e, k.c) /\ exchanged' = exchanged
  BY DEF FailWith
<1>4. SocketAndPc'
  <2>1. k # None
    BY ConstantsAssumption DEF Conns
  <2>2. QED
    BY <1>3, <2>1 DEF SocketAndPc, CleanupServer
<1>5. OneControlConnection'
  <2>1. sEnd' = SetEnd(sEnd, k, "shut") /\ sctrl' = k
    BY DEF FailWith, CleanupServer
  <2>2. QED
    BY <2>1, SetCtrlEnd DEF ControlInvariant, Ends
<1>6. GoodQueues(toC, exchanged)'
  BY <1>1, <1>3, GoodTell DEF ControlInvariant, CleanupServer, TypeOK
<1>7. SuccessMeansExchanged'
  BY <1>3 DEF ControlInvariant, SuccessMeansExchanged, clientVars
<1>8. QED
  BY <1>2, <1>4, <1>5, <1>6, <1>7 DEF ControlInvariant

(* What the clients report does not change in a step of the server.        *)
LEMMA ServerKeepsSuccess ==
  ASSUME SuccessMeansExchanged, UNCHANGED clientVars, exchanged \subseteq exchanged'
  PROVE  SuccessMeansExchanged'
BY DEF SuccessMeansExchanged, clientVars

(* The test ends and the client is told e, possibly no error, on the       *)
(* connection in ctrl_sck; the queues to the clients are ch before, and    *)
(* the ends of the connections ends before the socket is shut.             *)
LEMMA GivesUpInvariant ==
  ASSUME ControlInvariant, sctrl \in Conns,
         NEW ch \in [Clients -> Seq(Tokens)], GoodQueues(ch, exchanged),
         NEW e \in Errors, NEW o \in Clients \cup {None},
         spc' = "sync", sctrl' = sctrl, sstate' \in States,
         toC' = TellClient(ch, sctrl, e, o),
         UNCHANGED <<sstreams, stimer, listener>>,
         NEW ends \in [Clients -> Ends],
         \A c \in Clients : ends[c] \in {"open", "shut"} => ends[c] = sEnd[c],
         sEnd' = SetEnd(ends, sctrl, "shut"),
         i_errno' \in Errors, errOwner' \in Clients \cup {None},
         sdone' \in BOOLEAN,
         exchanged' = exchanged, UNCHANGED clientVars,
         backlog' \in Seq(Conns), toS' \in [Clients -> Seq(Tokens)]
  PROVE  ControlInvariant'
<1>1. sctrl.c \in Clients /\ sctrl # None
  BY ConstantsAssumption DEF Conns
<1>2. toC' \in [Clients -> Seq(Tokens)]
  BY TellClientType
<1>3. sEnd' \in [Clients -> Ends]
  BY EndTypes DEF Ends
<1>4. TypeOK'
  BY <1>2, <1>3 DEF ControlInvariant, TypeOK, clientVars, Ends
<1>5. SocketAndPc'
  BY <1>1 DEF SocketAndPc
<1>6. OneControlConnection'
  <2> SUFFICES ASSUME NEW c \in Clients, sEnd'[c] \in {"open", "shut"}
               PROVE  sctrl = [c |-> c, i |-> 0]
    BY DEF OneControlConnection
  <2>1. CASE sEnd'[c] = ends[c]
    BY <2>1 DEF ControlInvariant, OneControlConnection
  <2>2. CASE sEnd'[c] # ends[c]
    <3>1. sctrl.i = 0 /\ sctrl.c = c
      BY <2>2 DEF SetEnd
    <3>2. QED
      BY <3>1 DEF Conns
  <2>3. QED
    BY <2>1, <2>2
<1>7. GoodQueues(toC, exchanged)'
  BY <1>1, GoodTell
<1>8. SuccessMeansExchanged'
  BY ServerKeepsSuccess DEF ControlInvariant
<1>9. QED
  BY <1>4, <1>5, <1>6, <1>7, <1>8 DEF ControlInvariant

(* cleanup_server with i_errno = e keeps the invariant.                    *)
LEMMA CleanupInvariant ==
  ASSUME ControlInvariant, sctrl \in Conns,
         NEW ch \in [Clients -> Seq(Tokens)], GoodQueues(ch, exchanged),
         NEW e \in Errors, NEW o \in Clients \cup {None},
         CleanupServer(sctrl, ch, e, o),
         NEW ends \in [Clients -> Ends],
         \A c \in Clients : ends[c] \in {"open", "shut"} => ends[c] = sEnd[c],
         sEnd' = SetEnd(ends, sctrl, "shut"),
         i_errno' \in Errors, errOwner' \in Clients \cup {None},
         sdone' \in BOOLEAN,
         exchanged' = exchanged, UNCHANGED clientVars,
         backlog' \in Seq(Conns), toS' \in [Clients -> Seq(Tokens)]
  PROVE  ControlInvariant'
<1>1. /\ spc' = "sync" /\ sctrl' = sctrl /\ toC' = TellClient(ch, sctrl, e, o)
      /\ UNCHANGED <<sstreams, stimer, listener>>
  BY DEF CleanupServer
<1>2. sstate' \in States
  BY DEF CleanupServer, States
<1>3. QED
  BY <1>1, <1>2, GivesUpInvariant

(* cleanup_server keeps the invariant when i_errno is set after it.        *)
LEMMA FailLateInvariant ==
  ASSUME ControlInvariant, sctrl \in Conns, NEW e \in Errors, FailLate(e),
         UNCHANGED clientVars,
         backlog' \in Seq(Conns), toS' \in [Clients -> Seq(Tokens)]
  PROVE  ControlInvariant'
<1>1. /\ toC \in [Clients -> Seq(Tokens)] /\ GoodQueues(toC, exchanged)
      /\ i_errno \in Errors /\ errOwner \in Clients \cup {None}
      /\ sEnd \in [Clients -> Ends] /\ sstate \in States /\ sdone \in BOOLEAN
  BY DEF ControlInvariant, TypeOK, Ends
<1>2. /\ spc' = "sync" /\ sctrl' = sctrl
      /\ toC' = TellClient(toC, sctrl, i_errno, errOwner)
      /\ sEnd' = SetEnd(sEnd, sctrl, "shut")
      /\ UNCHANGED <<sstreams, sdone, stimer, listener, exchanged>>
  BY DEF FailLate
<1>3. sstate' \in States
  BY <1>1 DEF FailLate, States
<1>4. i_errno' \in Errors /\ errOwner' \in Clients \cup {None}
  BY DEF FailLate, Conns
<1>5. QED
  BY <1>1, <1>2, <1>3, <1>4, GivesUpInvariant

(* The server is back at the top of run, without a control connection.     *)
LEMMA ShutdownInvariant ==
  ASSUME ControlInvariant, NEW ends \in [Clients -> Ends], Shutdown(ends),
         \A c \in Clients : ends[c] \notin {"open", "shut"},
         i_errno' \in Errors, errOwner' \in Clients \cup {None},
         UNCHANGED <<exchanged, toC, toS, clientVars>>
  PROVE  ControlInvariant'
<1>1. TypeOK'
  BY ShutdownType DEF ControlInvariant, TypeOK, clientVars, Ends
<1>2. SocketAndPc'
  BY DEF SocketAndPc, Shutdown
<1>3. OneControlConnection'
  BY DEF OneControlConnection, Shutdown, ResetQueued
<1>4. GoodQueues(toC, exchanged)'
  BY DEF ControlInvariant
<1>5. SuccessMeansExchanged'
  BY ServerKeepsSuccess DEF ControlInvariant
<1>6. QED
  BY <1>1, <1>2, <1>3, <1>4, <1>5 DEF ControlInvariant

(* No connection is open at the server when ctrl_sck is -1, and none other *)
(* than the one in ctrl_sck otherwise.                                     *)
LEMMA NoOtherOpen ==
  ASSUME ControlInvariant
  PROVE  /\ sctrl = None => \A c \in Clients : sEnd[c] \notin {"open", "shut"}
         /\ sctrl \in Conns => \A c \in Clients :
              SetEnd(sEnd, sctrl, "closed")[c] \notin {"open", "shut"}
<1>1. ASSUME sctrl = None, NEW c \in Clients
      PROVE  sEnd[c] \notin {"open", "shut"}
  <2>1. [c |-> c, i |-> 0] \in Conns
    BY DEF Conns
  <2>2. QED
    BY <1>1, <2>1, ConstantsAssumption DEF ControlInvariant, OneControlConnection, Conns
<1>2. ASSUME sctrl \in Conns, NEW c \in Clients,
             SetEnd(sEnd, sctrl, "closed")[c] \in {"open", "shut"}
      PROVE  FALSE
  <2>1. ~(sctrl.i = 0 /\ sctrl.c = c)
    BY <1>2 DEF SetEnd, ControlInvariant, TypeOK
  <2>2. SetEnd(sEnd, sctrl, "closed")[c] = sEnd[c]
    BY <1>2, <2>1 DEF SetEnd, ControlInvariant, TypeOK
  <2>3. sctrl = [c |-> c, i |-> 0]
    BY <1>2, <2>2 DEF ControlInvariant, OneControlConnection
  <2>4. QED
    BY <2>1, <2>3
<1>3. QED
  BY <1>1, <1>2

----------------------------------------------------------------------------
(* The steps of the server.                                                *)

(* iperf_sync_close_socket of the server keeps the invariant.              *)
LEMMA SyncCloseInvariant == ControlInvariant /\ SyncClose => ControlInvariant'
<1> SUFFICES ASSUME ControlInvariant, SyncClose PROVE ControlInvariant'
  OBVIOUS
<1>1. sctrl \in Conns /\ sctrl # None /\ sctrl.c \in Clients
  BY InTest DEF SyncClose
<1>2. CASE sctrl.i = 0 /\ toS[sctrl.c] # <<>>
  <2>1. /\ Consume
        /\ UNCHANGED <<spc, sctrl, sstate, sstreams, sdone, stimer, listener,
                       backlog, sEnd, i_errno, errOwner, toC, exchanged,
                       clientVars>>
    BY <1>2 DEF SyncClose
  <2>2. toS' \in [Clients -> Seq(Tokens)]
    BY <1>1, <1>2, <2>1, ConsumeType DEF ControlInvariant
  <2>3. TypeOK'
    BY <2>1, <2>2 DEF ControlInvariant, TypeOK, clientVars
  <2>4. SocketAndPc' /\ OneControlConnection' /\ GoodQueues(toC, exchanged)'
    BY <2>1 DEF ControlInvariant, SocketAndPc, OneControlConnection
  <2>5. SuccessMeansExchanged'
    BY <2>1, ServerKeepsSuccess DEF ControlInvariant
  <2>6. QED
    BY <2>3, <2>4, <2>5 DEF ControlInvariant
<1>3. CASE ~(sctrl.i = 0 /\ toS[sctrl.c] # <<>>)
  <2>1. /\ Shutdown(SetEnd(sEnd, sctrl, "closed"))
        /\ UNCHANGED <<i_errno, errOwner, toS, toC, exchanged, clientVars>>
    BY <1>3 DEF SyncClose
  <2>2. SetEnd(sEnd, sctrl, "closed") \in [Clients -> Ends]
    BY <1>1, EndTypes DEF ControlInvariant, TypeOK, Ends
  <2>3. i_errno' \in Errors /\ errOwner' \in Clients \cup {None}
    BY <2>1 DEF ControlInvariant, TypeOK
  <2>4. QED
    BY <1>1, <2>1, <2>2, <2>3, NoOtherOpen, ShutdownInvariant
<1>4. QED
  BY <1>2, <1>3

(* iperf_server_listen keeps the invariant, whether it succeeds or not.    *)
LEMMA ListenInvariant ==
  ControlInvariant /\ (Listen \/ ListenFails) => ControlInvariant'
<1> SUFFICES ASSUME ControlInvariant, Listen \/ ListenFails PROVE ControlInvariant'
  OBVIOUS
<1>1. sctrl = None /\ spc = "down"
  BY DEF Listen, ListenFails, ControlInvariant, SocketAndPc
<1>2. /\ UNCHANGED <<sctrl, sstreams, sdone, stimer, backlog, sEnd, exchanged,
                     clientVars, toS, toC>>
      /\ \/ /\ spc' = "loop" /\ listener' = TRUE /\ sstate' = "IPERF_START"
            /\ UNCHANGED <<i_errno, errOwner>>
         \/ /\ spc' = "exited" /\ i_errno' = "IELISTEN" /\ errOwner' = None
            /\ UNCHANGED <<listener, sstate>>
  BY DEF Listen, ListenFails
<1>3. listener' \in BOOLEAN
  <2>1. CASE listener' = TRUE
    BY <2>1, Zenon
  <2>2. CASE listener' = listener
    BY <2>2 DEF ControlInvariant, TypeOK
  <2>3. QED
    BY <1>2, <2>1, <2>2
<1>4. TypeOK'
  BY <1>2, <1>3 DEF ControlInvariant, TypeOK, clientVars, States, Errors
<1>5. OneControlConnection' /\ GoodQueues(toC, exchanged)'
  BY <1>2 DEF ControlInvariant, OneControlConnection
<1>6. SuccessMeansExchanged'
  BY <1>2, ServerKeepsSuccess DEF ControlInvariant
<1>7. SocketAndPc'
  BY <1>1, <1>2 DEF ControlInvariant, SocketAndPc
<1>8. QED
  BY <1>4, <1>5, <1>6, <1>7 DEF ControlInvariant

(* Ends that are closed or reset are not open.                             *)
LEMMA EndsNotOpened ==
  ASSUME TypeOK, NEW k \in Conns
  PROVE  /\ \A c \in Clients : SetEnd(sEnd, k, "closed")[c] \in {"open", "shut"}
              => SetEnd(sEnd, k, "closed")[c] = sEnd[c]
         /\ \A c \in Clients : ResetQueued(sEnd)[c] \in {"open", "shut"}
              => ResetQueued(sEnd)[c] = sEnd[c]
<1>1. ASSUME NEW c \in Clients, SetEnd(sEnd, k, "closed")[c] # sEnd[c]
      PROVE  SetEnd(sEnd, k, "closed")[c] = "closed"
  BY <1>1 DEF SetEnd, TypeOK, Conns
<1>2. ASSUME NEW c \in Clients, ResetQueued(sEnd)[c] # sEnd[c]
      PROVE  ResetQueued(sEnd)[c] = "closed"
  BY <1>2 DEF ResetQueued, TypeOK
<1>3. QED
  BY <1>1, <1>2

(* A server that keeps ctrl_sck and its pc keeps SocketAndPc.              *)
LEMMA KeepCtrl ==
  ASSUME OneControlConnection, sctrl' = sctrl,
         \A c \in Clients : sEnd'[c] \in {"open", "shut"} => sEnd'[c] = sEnd[c]
  PROVE  OneControlConnection'
BY DEF OneControlConnection

(* iperf_accept of a new client keeps the invariant.                       *)
LEMMA AcceptClientInvariant == ControlInvariant /\ AcceptClient => ControlInvariant'
<1> SUFFICES ASSUME ControlInvariant, AcceptClient PROVE ControlInvariant'
  OBVIOUS
<1> DEFINE k == Head(backlog)
<1>1. sctrl = None /\ stimer # TRUE
  BY DEF AcceptClient, ControlInvariant, SocketAndPc
<1>2. k \in Conns /\ k.c \in Clients /\ k # None /\ backlog' \in Seq(Conns)
  BY BacklogHead, ConstantsAssumption DEF AcceptClient, ControlInvariant, Conns
<1>3. UNCHANGED <<toS, clientVars>> /\ toS' \in [Clients -> Seq(Tokens)]
  BY DEF AcceptClient, ControlInvariant, TypeOK
<1>4. CASE /\ spc' = "params" /\ sctrl' = k /\ sstate' = "PARAM_EXCHANGE"
           /\ toC' = SWrite(toC, k, <<Byte("PARAM_EXCHANGE")>>)
           /\ sEnd' = SetEnd(sEnd, k, "open")
           /\ UNCHANGED <<sstreams, sdone, stimer, i_errno, errOwner, listener,
                          exchanged>>
  <2>1. toC' \in [Clients -> Seq(Tokens)] /\ GoodQueues(toC, exchanged)'
    BY <1>2, <1>4, GoodByte DEF ControlInvariant, TypeOK, States
  <2>2. sEnd' \in [Clients -> Ends]
    BY <1>2, <1>4, EndTypes DEF ControlInvariant, TypeOK, Ends
  <2>3. TypeOK'
    BY <1>2, <1>3, <1>4, <2>1, <2>2 DEF ControlInvariant, TypeOK, clientVars, States, Ends
  <2>4. OneControlConnection'
    BY <1>1, <1>2, <1>4, SetCtrlEnd DEF ControlInvariant, Ends
  <2>5. SocketAndPc'
    BY <1>2, <1>4 DEF SocketAndPc
  <2>6. SuccessMeansExchanged'
    BY <1>3, <1>4, ServerKeepsSuccess DEF ControlInvariant
  <2>7. QED
    BY <2>1, <2>3, <2>4, <2>5, <2>6 DEF ControlInvariant
<1>5. CASE Fail(k, "IESENDMESSAGE")
  BY <1>1, <1>2, <1>3, <1>5, FailInvariant DEF Errors
<1>6. CASE Fail(k, "IERECVCOOKIE")
  BY <1>1, <1>2, <1>3, <1>6, FailInvariant DEF Errors
<1>7. QED
  BY <1>4, <1>5, <1>6 DEF AcceptClient

(* iperf_accept while a test is running keeps the invariant.               *)
LEMMA AcceptBusyInvariant == ControlInvariant /\ AcceptBusy => ControlInvariant'
<1> SUFFICES ASSUME ControlInvariant, AcceptBusy PROVE ControlInvariant'
  OBVIOUS
<1> DEFINE k == Head(backlog)
<1>1. k \in Conns /\ backlog' \in Seq(Conns)
  BY BacklogHead DEF AcceptBusy, ControlInvariant
<1>2. /\ sEnd' = SetEnd(sEnd, k, "closed")
      /\ UNCHANGED <<spc, sstate, sctrl, sstreams, sdone, stimer, i_errno,
                     errOwner, listener, exchanged, toS, clientVars>>
  BY DEF AcceptBusy
<1>3. toC' \in [Clients -> Seq(Tokens)] /\ GoodQueues(toC, exchanged)'
  <2>1. PICK lost \in BOOLEAN : toC' = Denied(k, lost)
    BY DEF AcceptBusy
  <2>2. toC \in [Clients -> Seq(Tokens)] /\ GoodQueues(toC, exchanged)
    BY DEF ControlInvariant, TypeOK
  <2>3. "ACCESS_DENIED" \in States \ {"DISPLAY_RESULTS"}
    BY DEF States
  <2>4. QED
    BY <1>1, <1>2, <2>1, <2>2, <2>3, GoodByte DEF Denied
<1>4. sEnd' \in [Clients -> Ends]
  BY <1>1, <1>2, EndTypes DEF ControlInvariant, TypeOK, Ends
<1>5. TypeOK'
  BY <1>1, <1>2, <1>3, <1>4 DEF ControlInvariant, TypeOK, clientVars, Ends
<1>6. OneControlConnection'
  BY <1>1, <1>2, EndsNotOpened, KeepCtrl DEF ControlInvariant
<1>7. SocketAndPc'
  BY <1>2 DEF ControlInvariant, SocketAndPc
<1>8. SuccessMeansExchanged'
  BY <1>2, ServerKeepsSuccess DEF ControlInvariant
<1>9. QED
  BY <1>3, <1>5, <1>6, <1>7, <1>8 DEF ControlInvariant

(* Reopening the listener closes what waits in it and nothing else.        *)
LEMMA ReopenFacts ==
  ASSUME ControlInvariant, NEW rest \in Seq(Conns), Reopen(rest)
  PROVE  /\ backlog' \in Seq(Conns) /\ sEnd' \in [Clients -> Ends]
         /\ \A c \in Clients : sEnd'[c] \in {"open", "shut"} => sEnd'[c] = sEnd[c]
<1>1. CASE sctrl.c \in Reopens
  BY <1>1 DEF Reopen, ResetQueued, Ends, ControlInvariant, TypeOK
<1>2. CASE sctrl.c \notin Reopens
  BY <1>2 DEF Reopen, Ends, ControlInvariant, TypeOK
<1>3. QED
  BY <1>1, <1>2

(* A listener that cannot be recreated keeps the invariant.                *)
LEMMA LosesListenerInvariant ==
  ASSUME ControlInvariant, sctrl \in Conns,
         NEW sent \in Errors, NEW o \in Clients \cup {None}, NEW e \in Errors,
         LosesListener(sent, o, e), UNCHANGED clientVars,
         toS' \in [Clients -> Seq(Tokens)]
  PROVE  ControlInvariant'
<1>1. /\ sctrl # None /\ sctrl.c \in Clients
      /\ toC \in [Clients -> Seq(Tokens)] /\ GoodQueues(toC, exchanged)
      /\ sEnd \in [Clients -> Ends] /\ sstate \in States
  BY ConstantsAssumption DEF Conns, ControlInvariant, TypeOK, Ends
<1>2. toC' \in [Clients -> Seq(Tokens)] /\ GoodQueues(toC', exchanged)
  BY <1>1, TellClientType, GoodTell DEF LosesListener
<1>3. ResetQueued(sEnd) \in [Clients -> Ends]
  BY <1>1, EndTypes DEF Ends
<1>4. sEnd' \in [Clients -> Ends] /\ sctrl' = sctrl
  BY <1>3, EndTypes DEF LosesListener, Ends
<1>5. OneControlConnection'
  <2> SUFFICES ASSUME NEW c \in Clients, sEnd'[c] \in {"open", "shut"}
               PROVE  sctrl = [c |-> c, i |-> 0]
    BY <1>4 DEF OneControlConnection
  <2>1. CASE sEnd'[c] = ResetQueued(sEnd)[c]
    BY <2>1, EndsNotOpened DEF ControlInvariant, OneControlConnection
  <2>2. CASE sEnd'[c] # ResetQueued(sEnd)[c]
    <3>1. sctrl.i = 0 /\ sctrl.c = c
      BY <1>3, <2>2 DEF LosesListener, SetEnd
    <3>2. QED
      BY <3>1 DEF Conns
  <2>3. QED
    BY <2>1, <2>2
<1>6. listener' \in BOOLEAN
  BY Zenon DEF LosesListener
<1>7. sstate' \in States /\ i_errno' \in Errors /\ backlog' \in Seq(Conns)
  BY <1>1 DEF LosesListener, States
<1>8. TypeOK'
  BY <1>1, <1>2, <1>4, <1>6, <1>7
     DEF LosesListener, ControlInvariant, TypeOK, clientVars, Ends
<1>9. SocketAndPc'
  BY <1>1 DEF LosesListener, SocketAndPc
<1>10. SuccessMeansExchanged'
  BY ServerKeepsSuccess DEF LosesListener, ControlInvariant
<1>11. QED
  BY <1>2, <1>5, <1>8, <1>9, <1>10 DEF LosesListener, ControlInvariant

(* iperf_exchange_parameters in the server keeps the invariant.            *)
LEMMA ReadParamsInvariant ==
  ControlInvariant /\ (ReadParams \/ ReadParamsFails) => ControlInvariant'
<1> SUFFICES ASSUME ControlInvariant, ReadParams \/ ReadParamsFails
             PROVE  ControlInvariant'
  OBVIOUS
<1>1. sctrl \in Conns /\ sctrl # None /\ sctrl.c \in Clients
  BY InTest DEF ReadParams, ReadParamsFails
<1>2. UNCHANGED clientVars /\ toS' \in [Clients -> Seq(Tokens)]
      /\ backlog \in Seq(Conns)
  BY <1>1, ConsumeType DEF ReadParams, ReadParamsFails, ControlInvariant, TypeOK, NextIs
<1>3. ASSUME NEW e \in Errors \ {"IENONE"}, Fail(sctrl, e), UNCHANGED backlog
      PROVE  ControlInvariant'
  BY <1>1, <1>2, <1>3, FailInvariant
<1>4. CASE /\ spc' = "loop"
           /\ sstate' = "CREATE_STREAMS"
           /\ toC' = SWrite(toC, sctrl, <<Byte("CREATE_STREAMS")>>)
           /\ Reopen(backlog)
           /\ UNCHANGED <<sctrl, sstreams, sdone, stimer, i_errno, errOwner,
                          listener, exchanged>>
  <2>1. toC' \in [Clients -> Seq(Tokens)] /\ GoodQueues(toC, exchanged)'
    BY <1>1, <1>4, GoodByte DEF ControlInvariant, TypeOK, States
  <2>2. /\ backlog' \in Seq(Conns) /\ sEnd' \in [Clients -> Ends]
        /\ \A c \in Clients : sEnd'[c] \in {"open", "shut"} => sEnd'[c] = sEnd[c]
    BY <1>2, <1>4, ReopenFacts
  <2>3. TypeOK'
    BY <1>2, <1>4, <2>1, <2>2 DEF ControlInvariant, TypeOK, clientVars, States, Ends
  <2>4. OneControlConnection'
    BY <1>4, <2>2, KeepCtrl DEF ControlInvariant
  <2>5. SocketAndPc'
    BY <1>1, <1>4 DEF SocketAndPc
  <2>6. SuccessMeansExchanged'
    BY <1>2, <1>4, ServerKeepsSuccess DEF ControlInvariant
  <2>7. QED
    BY <2>1, <2>3, <2>4, <2>5, <2>6 DEF ControlInvariant
<1>5. CASE LosesListener("IESTREAMLISTEN", sctrl.c, "IESTREAMLISTEN")
  <2>1. "IESTREAMLISTEN" \in Errors /\ sctrl.c \in Clients \cup {None}
    BY <1>1 DEF Errors
  <2>2. QED
    BY <1>1, <1>2, <1>5, <2>1, LosesListenerInvariant
<1>6. QED
  BY <1>3, <1>4, <1>5 DEF ReadParams, ReadParamsFails, Errors

(* The server goes on with the test.                                       *)
LEMMA GoesOnInvariant ==
  ASSUME ControlInvariant, sctrl \in Conns, sctrl' = sctrl,
         spc' \in {"loop", "results"}, sstate' \in States \ {"IPERF_START"},
         toC' \in [Clients -> Seq(Tokens)], GoodQueues(toC', exchanged'),
         toS' \in [Clients -> Seq(Tokens)],
         sstreams' \in Seq(Conns), backlog' \in Seq(Conns),
         sdone' \in BOOLEAN, stimer' \in BOOLEAN,
         exchanged \subseteq exchanged', exchanged' \subseteq Clients,
         UNCHANGED <<i_errno, errOwner, listener, clientVars>>,
         sEnd' \in [Clients -> Ends],
         \A c \in Clients : sEnd'[c] \in {"open", "shut"} => sEnd'[c] = sEnd[c]
  PROVE  ControlInvariant'
<1>1. TypeOK'
  BY DEF ControlInvariant, TypeOK, clientVars, Ends
<1>2. OneControlConnection'
  BY KeepCtrl DEF ControlInvariant
<1>3. SocketAndPc'
  BY ConstantsAssumption DEF SocketAndPc, Conns
<1>4. SuccessMeansExchanged'
  BY ServerKeepsSuccess DEF ControlInvariant
<1>5. QED
  BY <1>1, <1>2, <1>3, <1>4 DEF ControlInvariant

(* What the server sends when a test starts is tokens.                     *)
LEMMA StartTokens ==
  /\ <<>> \in Seq(Tokens) /\ <<Byte("TEST_START")>> \in Seq(Tokens)
  /\ <<Byte("TEST_START"), Byte("TEST_RUNNING")>> \in Seq(Tokens)
<1>1. Byte("TEST_START") \in Tokens /\ Byte("TEST_RUNNING") \in Tokens
  BY TokenTypes DEF States
<1>2. QED
  BY <1>1

(* A test that cannot start keeps the invariant.                           *)
LEMMA StartFailsInvariant ==
  ASSUME ControlInvariant, sctrl \in Conns, backlog # <<>>,
         NEW toks \in {<<>>, <<Byte("TEST_START")>>,
                        <<Byte("TEST_START"), Byte("TEST_RUNNING")>>},
         NEW e \in Errors, StartFails(toks, e), UNCHANGED <<toS, clientVars>>
  PROVE  ControlInvariant'
<1> DEFINE ch == SWrite(toC, sctrl, toks)
           ends == IF sctrl.c \in Reopens THEN ResetQueued(sEnd) ELSE sEnd
<1>1. /\ toC \in [Clients -> Seq(Tokens)] /\ GoodQueues(toC, exchanged)
      /\ toS \in [Clients -> Seq(Tokens)] /\ sEnd \in [Clients -> Ends]
      /\ sdone \in BOOLEAN /\ sctrl.c \in Clients
  BY DEF ControlInvariant, TypeOK, Ends, Conns
<1>2. toks \in Seq(Tokens)
  BY StartTokens
<1>3. \A j \in 1..Len(toks) : GoodToken(toks[j], sctrl.c, exchanged)
  BY DEF GoodToken, Byte
<1>4. ch \in [Clients -> Seq(Tokens)] /\ GoodQueues(ch, exchanged)
  BY <1>1, <1>2, <1>3, SWriteType, GoodWrite
<1>5. ends \in [Clients -> Ends]
  BY <1>1, EndTypes DEF Ends
<1>6. \A c \in Clients : ends[c] \in {"open", "shut"} => ends[c] = sEnd[c]
  BY EndsNotOpened DEF ControlInvariant
<1>7. backlog' \in Seq(Conns)
  BY BacklogHead DEF StartFails, ControlInvariant
<1>8. /\ CleanupServer(sctrl, ch, e, sctrl.c)
      /\ sEnd' = SetEnd(ends, sctrl, "shut")
      /\ i_errno' = e /\ errOwner' = sctrl.c /\ UNCHANGED <<sdone, exchanged>>
  BY DEF StartFails
<1> HIDE DEF ch, ends
<1>9. QED
  BY <1>1, <1>4, <1>5, <1>6, <1>7, <1>8, CleanupInvariant

(* Accepting a stream keeps the invariant.                                 *)
LEMMA AcceptStreamInvariant == ControlInvariant /\ AcceptStream => ControlInvariant'
<1> SUFFICES ASSUME ControlInvariant, AcceptStream PROVE ControlInvariant'
  OBVIOUS
<1> DEFINE k == Head(backlog)
<1>1. sctrl \in Conns /\ sctrl # None /\ sctrl.c \in Clients
  BY InTest DEF AcceptStream
<1>2. k \in Conns /\ Tail(backlog) \in Seq(Conns)
  BY BacklogHead DEF AcceptStream, ControlInvariant
<1>3. UNCHANGED <<toS, clientVars>> /\ toS' \in [Clients -> Seq(Tokens)]
  BY DEF AcceptStream, ControlInvariant, TypeOK
<1>4. /\ toC \in [Clients -> Seq(Tokens)] /\ GoodQueues(toC, exchanged)
      /\ sEnd \in [Clients -> Ends] /\ sstreams \in Seq(Conns)
      /\ sdone \in BOOLEAN /\ stimer \in BOOLEAN /\ exchanged \subseteq Clients
      /\ spc = "loop" /\ sstate = "CREATE_STREAMS"
      /\ i_errno \in Errors /\ errOwner \in Clients \cup {None}
  BY DEF ControlInvariant, TypeOK, AcceptStream, Ends
<1>5. Append(sstreams, k) \in Seq(Conns)
  BY <1>2, <1>4, AppendProperties
<1>6. "CREATE_STREAMS" \in States \ {"IPERF_START"}
  BY DEF States
<1>7. /\ Denied(k, FALSE) \in [Clients -> Seq(Tokens)]
      /\ GoodQueues(Denied(k, FALSE), exchanged)
  BY <1>2, <1>4, GoodByte DEF Denied, States
<1>8. /\ SetEnd(sEnd, k, "closed") \in [Clients -> Ends]
      /\ \A c \in Clients : SetEnd(sEnd, k, "closed")[c] \in {"open", "shut"}
           => SetEnd(sEnd, k, "closed")[c] = sEnd[c]
  BY <1>2, <1>4, EndTypes, EndsNotOpened DEF ControlInvariant, Ends
<1>9. CASE /\ sstreams' = Append(sstreams, k)
           /\ backlog' = Tail(backlog)
           /\ UNCHANGED <<spc, sstate, sctrl, sdone, stimer, i_errno, errOwner,
                          listener, toC, sEnd, exchanged>>
  BY <1>1, <1>2, <1>3, <1>4, <1>5, <1>6, <1>9, GoesOnInvariant
<1>10. CASE StartTest
  <2>1. CASE /\ sstate' = "TEST_RUNNING"
             /\ stimer' = HasTestTimer
             /\ sstreams' = Append(sstreams, k)
             /\ toC' = SWrite(toC, sctrl, <<Byte("TEST_START"), Byte("TEST_RUNNING")>>)
             /\ Reopen(Tail(backlog))
             /\ UNCHANGED <<spc, sctrl, sdone, i_errno, errOwner, listener, exchanged>>
    <3> DEFINE toks == <<Byte("TEST_START"), Byte("TEST_RUNNING")>>
    <3>1. toks \in Seq(Tokens)
      BY TokenTypes DEF States
    <3>2. \A j \in 1..Len(toks) : GoodToken(toks[j], sctrl.c, exchanged)
      BY DEF GoodToken, Byte
    <3>3. toC' \in [Clients -> Seq(Tokens)] /\ GoodQueues(toC', exchanged')
      BY <1>1, <1>4, <2>1, <3>1, <3>2, SWriteType, GoodWrite
    <3>4. /\ backlog' \in Seq(Conns) /\ sEnd' \in [Clients -> Ends]
          /\ \A c \in Clients : sEnd'[c] \in {"open", "shut"} => sEnd'[c] = sEnd[c]
      BY <1>2, <2>1, ReopenFacts
    <3>5. stimer' \in BOOLEAN
      BY <2>1, ConstantsAssumption
    <3>6. sstate' \in States \ {"IPERF_START"}
      BY <2>1 DEF States
    <3>7. QED
      BY <1>1, <1>3, <1>4, <1>5, <2>1, <3>3, <3>4, <3>5, <3>6, GoesOnInvariant
  <2>2. ASSUME NEW toks \in {<<>>, <<Byte("TEST_START")>>,
                              <<Byte("TEST_START"), Byte("TEST_RUNNING")>>},
               NEW e \in Errors, StartFails(toks, e)
        PROVE  ControlInvariant'
    BY <1>1, <1>3, <2>2, StartFailsInvariant DEF AcceptStream
  <2>3. CASE LosesListener(i_errno, errOwner, "IELISTEN")
    <3>1. "IELISTEN" \in Errors
      BY DEF Errors
    <3>2. QED
      BY <1>1, <1>3, <1>4, <2>3, <3>1, LosesListenerInvariant
  <2>4. {"IESENDMESSAGE", "IEINITTEST", "IEPTHREADCREATE"} \subseteq Errors
    BY DEF Errors
  <2>5. QED
    BY <1>10, <2>1, <2>2, <2>3, <2>4, OverwrittenIsError DEF StartTest
<1>11. CASE /\ toC' = Denied(k, FALSE)
            /\ sEnd' = SetEnd(sEnd, k, "closed")
            /\ backlog' = Tail(backlog)
            /\ UNCHANGED <<spc, sstate, sctrl, sstreams, sdone, stimer, i_errno,
                           errOwner, listener, exchanged>>
  BY <1>1, <1>2, <1>3, <1>4, <1>6, <1>7, <1>8, <1>11, GoesOnInvariant
<1>12. CASE /\ CleanupServer(sctrl, Denied(k, FALSE), "IESETTOS", sctrl.c)
            /\ sEnd' = SetEnd(SetEnd(sEnd, k, "closed"), sctrl, "shut")
            /\ i_errno' = "IESETTOS"
            /\ errOwner' = sctrl.c
            /\ backlog' = Tail(backlog)
            /\ UNCHANGED <<sdone, exchanged>>
  <2>1. "IESETTOS" \in Errors
    BY DEF Errors
  <2>2. QED
    BY <1>1, <1>2, <1>3, <1>4, <1>7, <1>8, <1>12, <2>1, CleanupInvariant
<1>13. ASSUME NEW e \in {"IERECVCOOKIE", "IECREATESTREAM"}, Fail(sctrl, e),
              backlog' = Tail(backlog)
       PROVE  ControlInvariant'
  BY <1>1, <1>2, <1>3, <1>13, FailInvariant DEF Errors
<1>14. ASSUME NEW e \in {"IESETUSERTIMEOUT", "IESETCONGESTION"}, FailLate(e),
              backlog' = Tail(backlog)
       PROVE  ControlInvariant'
  BY <1>1, <1>2, <1>3, <1>14, FailLateInvariant DEF Errors
<1>15. QED
  BY <1>9, <1>10, <1>11, <1>12, <1>13, <1>14 DEF AcceptStream

(* The control connection and what a handler that goes on leaves alone.    *)
LEMMA HandlerFacts ==
  ASSUME ControlInvariant
  PROVE  /\ toC \in [Clients -> Seq(Tokens)] /\ GoodQueues(toC, exchanged)
         /\ toS \in [Clients -> Seq(Tokens)]
         /\ sEnd \in [Clients -> Ends]
         /\ sstreams \in Seq(Conns) /\ backlog \in Seq(Conns)
         /\ sdone \in BOOLEAN /\ stimer \in BOOLEAN /\ exchanged \subseteq Clients
         /\ i_errno \in Errors /\ errOwner \in Clients \cup {None}
BY DEF ControlInvariant, TypeOK, Ends

(* TEST_END in iperf_handle_message_server keeps the invariant.            *)
LEMMA OnTestEndInvariant == ControlInvariant /\ OnTestEnd => ControlInvariant'
<1> SUFFICES ASSUME ControlInvariant, OnTestEnd PROVE ControlInvariant'
  OBVIOUS
<1>1. sctrl \in Conns /\ sctrl # None /\ sctrl.c \in Clients
  BY InTest DEF OnTestEnd
<1>2. /\ UNCHANGED <<clientVars, backlog, exchanged>>
      /\ toS' \in [Clients -> Seq(Tokens)]
  BY <1>1, ConsumeType DEF OnTestEnd, ControlInvariant, NextIs
<1>3. sdone' \in BOOLEAN
  BY Zenon DEF OnTestEnd
<1>4. CASE /\ spc' = "results"
           /\ sstate' = "EXCHANGE_RESULTS"
           /\ toC' = SWrite(toC, sctrl, <<Byte("EXCHANGE_RESULTS")>>)
           /\ UNCHANGED <<sctrl, sstreams, stimer, listener, i_errno, errOwner, sEnd>>
  <2>1. "EXCHANGE_RESULTS" \in States \ {"DISPLAY_RESULTS", "IPERF_START"}
    BY DEF States
  <2>2. toC' \in [Clients -> Seq(Tokens)] /\ GoodQueues(toC', exchanged')
    BY <1>1, <1>2, <1>4, <2>1, GoodByte, HandlerFacts
  <2>3. QED
    BY <1>1, <1>2, <1>3, <1>4, <2>1, <2>2, HandlerFacts, GoesOnInvariant
<1>5. ASSUME NEW e \in Overwritten("IESENDMESSAGE"),
             CleanupServer(sctrl, toC, e, sctrl.c),
             sEnd' = SetEnd(sEnd, sctrl, "shut"), i_errno' = e,
             errOwner' = sctrl.c
      PROVE  ControlInvariant'
  <2>1. e \in Errors
    BY OverwrittenIsError DEF Errors
  <2>2. QED
    BY <1>1, <1>2, <1>3, <1>5, <2>1, HandlerFacts, CleanupInvariant
<1>6. QED
  BY <1>4, <1>5 DEF OnTestEnd

(* More clients have been sent results: the queues are as good as before.  *)
LEMMA GoodMore ==
  ASSUME NEW ch, NEW ex, NEW more, GoodQueues(ch, ex), ex \subseteq more
  PROVE  GoodQueues(ch, more)
BY DEF GoodQueues, GoodToken

(* iperf_exchange_results in the server keeps the invariant.               *)
LEMMA ReadResultsInvariant ==
  ControlInvariant /\ (ReadResults \/ ReadResultsFails) => ControlInvariant'
<1> SUFFICES ASSUME ControlInvariant, ReadResults \/ ReadResultsFails
             PROVE  ControlInvariant'
  OBVIOUS
<1>1. sctrl \in Conns /\ sctrl # None /\ sctrl.c \in Clients
  BY InTest DEF ReadResults, ReadResultsFails
<1>2. UNCHANGED <<clientVars, backlog>> /\ toS' \in [Clients -> Seq(Tokens)]
  BY <1>1, ConsumeType DEF ReadResults, ReadResultsFails, ControlInvariant, TypeOK, NextIs
<1>3. ASSUME NEW e \in Errors \ {"IENONE"}, Fail(sctrl, e)
      PROVE  ControlInvariant'
  BY <1>1, <1>2, <1>3, HandlerFacts, FailInvariant
<1>4. CASE /\ spc' = "loop"
           /\ sstate' = "DISPLAY_RESULTS"
           /\ toC' = SWrite(toC, sctrl, ResultsThenState)
           /\ exchanged' = exchanged \cup {sctrl.c}
           /\ UNCHANGED <<sctrl, sstreams, sdone, stimer, i_errno, errOwner,
                          listener, sEnd>>
  <2>1. ResultsThenState \in Seq(Tokens)
    BY TokenTypes DEF States, ResultsThenState
  <2>2. \A j \in 1..Len(ResultsThenState) :
          GoodToken(ResultsThenState[j], sctrl.c, exchanged')
    BY <1>4 DEF GoodToken, Byte, Json, ResultsThenState
  <2>3. GoodQueues(toC, exchanged')
    BY <1>4, GoodMore, HandlerFacts
  <2>4. toC' \in [Clients -> Seq(Tokens)] /\ GoodQueues(toC', exchanged')
    BY <1>1, <1>4, <2>1, <2>2, <2>3, HandlerFacts, SWriteType, GoodWrite
  <2>5. "DISPLAY_RESULTS" \in States \ {"IPERF_START"}
    BY DEF States
  <2>6. QED
    BY <1>1, <1>2, <1>4, <2>4, <2>5, HandlerFacts, GoesOnInvariant
<1>5. QED
  BY <1>3, <1>4 DEF ReadResults, ReadResultsFails, Errors

(* The messages that end the server's loop keep the invariant.             *)
LEMMA OnClientLeavesInvariant ==
  ControlInvariant /\ OnClientLeaves => ControlInvariant'
<1> SUFFICES ASSUME ControlInvariant, OnClientLeaves PROVE ControlInvariant'
  OBVIOUS
<1>1. sctrl \in Conns /\ sctrl # None /\ sctrl.c \in Clients
  BY InTest DEF OnClientLeaves
<1>2. UNCHANGED <<clientVars, backlog>> /\ toS' \in [Clients -> Seq(Tokens)]
  BY <1>1, ConsumeType DEF OnClientLeaves, ControlInvariant, TypeOK, NextIs
<1>3. ASSUME NEW e \in Errors \ {"IENONE"}, Fail(sctrl, e)
      PROVE  ControlInvariant'
  BY <1>1, <1>2, <1>3, HandlerFacts, FailInvariant
<1>4. CASE /\ CleanupServer(sctrl, toC, i_errno, errOwner)
           /\ sEnd' = SetEnd(sEnd, sctrl, "shut")
           /\ UNCHANGED <<sdone, i_errno, errOwner, exchanged>>
  BY <1>1, <1>2, <1>4, HandlerFacts, CleanupInvariant
<1>5. QED
  BY <1>3, <1>4 DEF OnClientLeaves, Errors

(* An error sent by a handler other than cleanup_server.                   *)
LEMMA TellCtrl ==
  ASSUME ControlInvariant, sctrl \in Conns, NEW e \in Errors \ {"IENONE"}
  PROVE  /\ SWrite(toC, sctrl, <<Err(e, sctrl.c)>>) \in [Clients -> Seq(Tokens)]
         /\ GoodQueues(SWrite(toC, sctrl, <<Err(e, sctrl.c)>>), exchanged)
<1>1. sctrl.c \in Clients \cup {None} /\ e \in Errors
  BY DEF Conns
<1>2. toC \in [Clients -> Seq(Tokens)] /\ GoodQueues(toC, exchanged)
  BY HandlerFacts
<1>3. TellClient(toC, sctrl, e, sctrl.c) \in [Clients -> Seq(Tokens)]
  BY <1>1, <1>2, TellClientType
<1>4. GoodQueues(TellClient(toC, sctrl, e, sctrl.c), exchanged)
  BY <1>1, <1>2, GoodTell
<1>5. QED
  BY <1>3, <1>4 DEF TellClient

(* What the bitrate limit sends, twice, is an error.                       *)
LEMMA BitrateErrors ==
  ASSUME BitrateExceeded
  PROVE  \E e \in Errors \ {"IENONE"}, x \in Errors \ {"IENONE"} :
           /\ CleanupServer(sctrl, SWrite(toC, sctrl, <<Err(e, sctrl.c)>>), x, sctrl.c)
           /\ i_errno' \in Errors \ {"IENONE"}
           /\ i_errno' = x \/ Gone(sctrl.c)
<1>1. PICK e \in Overwritten("IETOTALRATE") \cup {"IESENDMESSAGE"} :
        \E x \in Overwritten(e) :
          /\ CleanupServer(sctrl, SWrite(toC, sctrl, <<Err(e, sctrl.c)>>), x, sctrl.c)
          /\ \/ i_errno' = x
             \/ WriteMayFail(sctrl) /\ i_errno' = "IECTRLWRITE"
  BY DEF BitrateExceeded
<1>2. PICK x \in Overwritten(e) :
          /\ CleanupServer(sctrl, SWrite(toC, sctrl, <<Err(e, sctrl.c)>>), x, sctrl.c)
          /\ \/ i_errno' = x
             \/ WriteMayFail(sctrl) /\ i_errno' = "IECTRLWRITE"
  BY <1>1
<1>3. {"IETOTALRATE", "IESENDMESSAGE", "IECTRLWRITE"} \subseteq Errors \ {"IENONE"}
  BY DEF Errors
<1>4. e \in Errors \ {"IENONE"} /\ x \in Errors \ {"IENONE"}
  BY <1>3, OverwrittenIsError
<1>5. QED
  BY <1>2, <1>3, <1>4 DEF WriteMayFail

(* The server's timeouts and its bitrate limit keep the invariant.         *)
LEMMA LimitsInvariant ==
  ControlInvariant /\ (\/ NoDataTimeout \/ IdleTimeout \/ SelectFails
                        \/ BitrateExceeded \/ SelectBreaks)
    => ControlInvariant'
<1> SUFFICES ASSUME ControlInvariant,
                    \/ NoDataTimeout \/ IdleTimeout \/ SelectFails
                    \/ BitrateExceeded \/ SelectBreaks
             PROVE  ControlInvariant'
  OBVIOUS
<1>1. CASE NoDataTimeout
  <2>1. sctrl \in Conns /\ sctrl # None /\ sctrl.c \in Clients
    BY <1>1, InTest DEF NoDataTimeout
  <2>2. Fail(sctrl, "IENOMSG") /\ UNCHANGED <<backlog, toS, clientVars>>
    BY <1>1 DEF NoDataTimeout
  <2>3. "IENOMSG" \in Errors \ {"IENONE"}
    BY DEF Errors
  <2>4. QED
    BY <2>1, <2>2, <2>3, HandlerFacts, FailInvariant
<1>2. CASE IdleTimeout \/ SelectFails \/ (SelectBreaks /\ sctrl = None)
  <2>1. sctrl = None
    BY <1>2 DEF IdleTimeout, SelectFails, ControlInvariant, SocketAndPc
  <2>2. Shutdown(sEnd) /\ UNCHANGED <<exchanged, toS, toC, clientVars>>
    BY <1>2 DEF IdleTimeout, SelectFails, SelectBreaks
  <2>3. i_errno' \in Errors /\ errOwner' \in Clients \cup {None}
    BY <1>2, HandlerFacts DEF IdleTimeout, SelectFails, SelectBreaks, Errors
  <2>4. QED
    BY <2>1, <2>2, <2>3, HandlerFacts, NoOtherOpen, ShutdownInvariant
<1>3. CASE BitrateExceeded
  <2>1. sctrl \in Conns /\ sctrl # None /\ sctrl.c \in Clients
    BY <1>3, InTest DEF BitrateExceeded
  <2>2. PICK e \in Errors \ {"IENONE"}, x \in Errors \ {"IENONE"} :
          /\ CleanupServer(sctrl, SWrite(toC, sctrl, <<Err(e, sctrl.c)>>), x, sctrl.c)
          /\ i_errno' \in Errors
    BY <1>3, BitrateErrors
  <2>3. x \in Errors
    OBVIOUS
  <2> DEFINE ch == SWrite(toC, sctrl, <<Err(e, sctrl.c)>>)
  <2>4. ch \in [Clients -> Seq(Tokens)] /\ GoodQueues(ch, exchanged)
    BY <2>1, <2>3, TellCtrl
  <2>5. /\ sEnd' = SetEnd(sEnd, sctrl, "shut")
        /\ errOwner' = sctrl.c
        /\ UNCHANGED <<sdone, exchanged, backlog, toS, clientVars>>
    BY <1>3 DEF BitrateExceeded
  <2>6. QED
    BY <2>1, <2>2, <2>3, <2>4, <2>5, HandlerFacts, CleanupInvariant
<1>4. CASE SelectBreaks /\ sctrl # None
  <2>1. sctrl \in Conns
    BY <1>4, InTest DEF SelectBreaks
  <2>2. FailLate("IESELECT") /\ UNCHANGED <<backlog, toS, clientVars>>
    BY <1>4 DEF SelectBreaks
  <2>3. "IESELECT" \in Errors
    BY DEF Errors
  <2>4. QED
    BY <2>1, <2>2, <2>3, HandlerFacts, FailLateInvariant
<1>5. QED
  BY <1>1, <1>2, <1>3, <1>4

(* A worker that fails touches i_errno only.                               *)
LEMMA StreamFailsInvariant == ControlInvariant /\ StreamFails => ControlInvariant'
<1> SUFFICES ASSUME ControlInvariant, StreamFails PROVE ControlInvariant'
  OBVIOUS
<1>1. sctrl \in Conns /\ sctrl # None /\ sctrl.c \in Clients
  BY ConstantsAssumption DEF StreamFails, Workers, ControlInvariant, TypeOK, Conns
<1>2. i_errno' \in Errors /\ errOwner' \in Clients
  BY <1>1, OverwrittenIsError DEF StreamFails
<1>3. UNCHANGED <<spc, sstate, sctrl, sstreams, sdone, stimer, listener,
                  backlog, sEnd, exchanged, clientVars, toS, toC>>
  BY DEF StreamFails
<1>4. TypeOK'
  BY <1>2, <1>3 DEF ControlInvariant, TypeOK, clientVars
<1>5. OneControlConnection' /\ SocketAndPc'
  BY <1>3 DEF ControlInvariant, OneControlConnection, SocketAndPc
<1>6. GoodQueues(toC, exchanged)' /\ SuccessMeansExchanged'
  BY <1>3, ServerKeepsSuccess DEF ControlInvariant
<1>7. QED
  BY <1>4, <1>5, <1>6 DEF ControlInvariant

(* server_timer_proc keeps the invariant.                                  *)
LEMMA ServerTimerInvariant == ControlInvariant /\ ServerTimer => ControlInvariant'
<1> SUFFICES ASSUME ControlInvariant, ServerTimer PROVE ControlInvariant'
  OBVIOUS
<1>1. sctrl \in Conns /\ sctrl # None /\ sctrl.c \in Clients
  BY InTest DEF ServerTimer
<1>2. /\ UNCHANGED <<listener, backlog, exchanged, toS, clientVars>>
      /\ stimer' \in BOOLEAN /\ stimer' = FALSE
  BY Zenon DEF ServerTimer
<1>3. CASE UNCHANGED <<spc, sstate, sctrl, sstreams, sdone, i_errno, errOwner,
                       toC, sEnd>>
  <2>1. TypeOK'
    BY <1>2, <1>3 DEF ControlInvariant, TypeOK, clientVars
  <2>2. OneControlConnection' /\ GoodQueues(toC, exchanged)'
    BY <1>2, <1>3 DEF ControlInvariant, OneControlConnection
  <2>3. SocketAndPc'
    BY <1>2, <1>3 DEF ControlInvariant, SocketAndPc
  <2>4. SuccessMeansExchanged'
    BY <1>2, ServerKeepsSuccess DEF ControlInvariant
  <2>5. QED
    BY <2>1, <2>2, <2>3, <2>4 DEF ControlInvariant
<1>4. CASE /\ sdone' = TRUE
           /\ \/ /\ i_errno' \in Overwritten("IESERVERTESTDURATIONEXPIRED")
                 /\ toC' = SWrite(toC, sctrl, <<Err(i_errno', sctrl.c)>>)
              \/ i_errno' = "IESENDMESSAGE" /\ toC' = toC
           /\ errOwner' = sctrl.c
           /\ sstate' = "SERVER_ERROR"
           /\ sstreams' = <<>>
           /\ sEnd' = SetEnd(sEnd, sctrl, "closed")
           /\ sctrl' = None
           /\ spc' = "badfd"
  <2>1. sdone' \in BOOLEAN
    BY <1>4, Zenon
  <2>2. i_errno' \in Errors \ {"IENONE"}
    <3>1. "IESERVERTESTDURATIONEXPIRED" \in Errors \ {"IENONE"}
      BY DEF Errors
    <3>2. QED
      BY <1>4, <3>1, OverwrittenIsError DEF Errors
  <2>3. toC \in [Clients -> Seq(Tokens)] /\ GoodQueues(toC, exchanged)
    BY HandlerFacts
  <2>4. toC' \in [Clients -> Seq(Tokens)] /\ GoodQueues(toC', exchanged)
    BY <1>1, <1>4, <2>2, <2>3, TellCtrl
  <2>5. sEnd' \in [Clients -> Ends]
    BY <1>1, <1>4, HandlerFacts, EndTypes DEF Ends
  <2>6. i_errno' \in Errors /\ sstate' \in States /\ sstreams' \in Seq(Conns)
    BY <1>4, <2>2 DEF States
  <2>7. TypeOK'
    BY <1>1, <1>2, <1>4, <2>1, <2>4, <2>5, <2>6
       DEF ControlInvariant, TypeOK, clientVars, Ends
  <2>8. OneControlConnection'
    BY <1>1, <1>4, NoOtherOpen DEF OneControlConnection
  <2>9. SocketAndPc'
    BY <1>2, <1>4 DEF SocketAndPc
  <2>10. SuccessMeansExchanged'
    BY <1>2, ServerKeepsSuccess DEF ControlInvariant
  <2>11. QED
    BY <1>2, <2>4, <2>7, <2>8, <2>9, <2>10 DEF ControlInvariant
<1>5. QED
  BY <1>3, <1>4 DEF ServerTimer

(* iperf_got_sigend in the server keeps the invariant.                     *)
LEMMA ServerInterruptedInvariant ==
  ControlInvariant /\ ServerInterrupted => ControlInvariant'
<1> SUFFICES ASSUME ControlInvariant, ServerInterrupted PROVE ControlInvariant'
  OBVIOUS
<1>1. /\ UNCHANGED <<sstreams, stimer, exchanged, toS, clientVars>>
      /\ spc' = "exited" /\ sctrl' = None /\ backlog' = <<>>
      /\ sEnd' = [c \in Clients |-> IF sEnd[c] = "none" THEN "none" ELSE "closed"]
  BY DEF ServerInterrupted
<1>2. sdone' \in BOOLEAN /\ listener' \in BOOLEAN
  BY Zenon DEF ServerInterrupted
<1>3. i_errno' \in Errors /\ sstate' \in States
  BY DEF ServerInterrupted, Errors, States, ControlInvariant, TypeOK
<1>4. errOwner' \in Clients \cup {None}
  BY DEF ServerInterrupted, ControlInvariant, TypeOK, Conns
<1>5. toC' \in [Clients -> Seq(Tokens)] /\ GoodQueues(toC', exchanged')
  <2>1. CASE toC' = toC
    BY <1>1, <2>1, HandlerFacts
  <2>2. CASE sctrl \in Conns /\ toC' = SWrite(toC, sctrl, <<Byte("SERVER_TERMINATE")>>)
    <3>1. "SERVER_TERMINATE" \in States \ {"DISPLAY_RESULTS"}
      BY DEF States
    <3>2. QED
      BY <1>1, <2>2, <3>1, HandlerFacts, GoodByte
  <2>3. QED
    BY <2>1, <2>2 DEF ServerInterrupted, ControlInvariant, TypeOK
<1>6. TypeOK'
  BY <1>1, <1>2, <1>3, <1>4, <1>5 DEF ControlInvariant, TypeOK, clientVars
<1>7. OneControlConnection' /\ SocketAndPc'
  BY <1>1 DEF OneControlConnection, SocketAndPc
<1>8. SuccessMeansExchanged'
  BY <1>1, ServerKeepsSuccess DEF ControlInvariant
<1>9. QED
  BY <1>5, <1>6, <1>7, <1>8 DEF ControlInvariant

----------------------------------------------------------------------------
(* The steps of the clients.                                               *)

CPcs == {"init", "loop", "streams", "results", "sync", "exited", "vanished"}
CEnds == {"none", "open", "shut", "closed"}

(* A step of a client that leaves the server's state alone, but for what   *)
(* waits in the listening socket.                                          *)
LEMMA ClientInvariant ==
  ASSUME ControlInvariant,
         UNCHANGED <<spc, sstate, sctrl, sstreams, sdone, stimer, i_errno,
                     errOwner, listener, exchanged>>,
         backlog' \in Seq(Conns), sEnd' \in [Clients -> Ends],
         \A d \in Clients : sEnd'[d] \in {"open", "shut"} => sEnd'[d] = sEnd[d],
         toS' \in [Clients -> Seq(Tokens)], toC' \in [Clients -> Seq(Tokens)],
         GoodQueues(toC', exchanged),
         cEnd' \in [Clients -> CEnds], cpc' \in [Clients -> CPcs],
         cstate' \in [Clients -> States], cstreams' \in [Clients -> Nat],
         cerr' \in [Clients -> Errors],
         cblame' \in [Clients -> Clients \cup {None}],
         SuccessMeansExchanged'
  PROVE  ControlInvariant'
<1>1. TypeOK'
  BY DEF ControlInvariant, TypeOK, Ends, CEnds, CPcs
<1>2. OneControlConnection'
  BY KeepCtrl DEF ControlInvariant
<1>3. SocketAndPc'
  BY DEF ControlInvariant, SocketAndPc
<1>4. QED
  BY <1>1, <1>2, <1>3 DEF ControlInvariant

(* The types of the parts of a client's state.                             *)
LEMMA ClientFacts ==
  ASSUME ControlInvariant
  PROVE  /\ toS \in [Clients -> Seq(Tokens)] /\ toC \in [Clients -> Seq(Tokens)]
         /\ GoodQueues(toC, exchanged)
         /\ backlog \in Seq(Conns) /\ sEnd \in [Clients -> Ends]
         /\ cEnd \in [Clients -> CEnds] /\ cpc \in [Clients -> CPcs]
         /\ cstate \in [Clients -> States] /\ cstreams \in [Clients -> Nat]
         /\ cerr \in [Clients -> Errors]
         /\ cblame \in [Clients -> Clients \cup {None}]
BY DEF ControlInvariant, TypeOK, Ends, CEnds, CPcs

(* A client's write keeps the queues to the server well typed.             *)
LEMMA CWriteType ==
  ASSUME ControlInvariant, NEW c \in Clients, NEW tok \in Tokens, CWrite(c, tok)
  PROVE  toS' \in [Clients -> Seq(Tokens)]
<1>1. Append(toS[c], tok) \in Seq(Tokens)
  BY ClientFacts, AppendProperties
<1>2. QED
  BY <1>1, ClientFacts DEF CWrite

(* A client that has not ended keeps the property of those that have.      *)
LEMMA ClientKeepsSuccess ==
  ASSUME ControlInvariant, NEW c \in Clients, NEW pc,
         cpc' = [cpc EXCEPT ![c] = pc], cerr' = cerr, exchanged' = exchanged,
         pc \notin {"sync", "exited"} \/ c \in exchanged \/ cpc[c] = "sync"
  PROVE  SuccessMeansExchanged'
BY DEF ControlInvariant, TypeOK, SuccessMeansExchanged

(* What cleanup_and_fail of a client changes, and its types.               *)
LEMMA ClientFailFacts ==
  ASSUME ControlInvariant, NEW c \in Clients, NEW st \in States,
         NEW e \in Errors \ {"IENONE"}, NEW o \in Clients \cup {None},
         ClientFail(c, st, e, o), exchanged' = exchanged
  PROVE  /\ toS' \in [Clients -> Seq(Tokens)]
         /\ cEnd' \in [Clients -> CEnds] /\ cpc' \in [Clients -> CPcs]
         /\ cstate' \in [Clients -> States]
         /\ cerr' \in [Clients -> Errors]
         /\ cblame' \in [Clients -> Clients \cup {None}]
         /\ SuccessMeansExchanged'
<1>1. toS' \in [Clients -> Seq(Tokens)]
  BY CWriteType, TokenTypes, ClientFacts DEF ClientFail, States
<1>2. cEnd' \in [Clients -> CEnds] /\ cpc' \in [Clients -> CPcs]
  BY ClientFacts DEF ClientFail, CEnds, CPcs
<1>3. cstate' \in [Clients -> States]
  BY ClientFacts DEF ClientFail, States
<1>4. cerr' \in [Clients -> Errors] /\ cblame' \in [Clients -> Clients \cup {None}]
  BY ClientFacts DEF ClientFail
<1>5. SuccessMeansExchanged'
  BY DEF ClientFail, ControlInvariant, TypeOK, SuccessMeansExchanged
<1>6. QED
  BY <1>1, <1>2, <1>3, <1>4, <1>5

(* A client fails, having read its queue or not.                           *)
LEMMA ClientFailInvariant ==
  ASSUME ControlInvariant, NEW c \in Clients, NEW st \in States,
         NEW e \in Errors \ {"IENONE"}, NEW o \in Clients \cup {None},
         ClientFail(c, st, e, o), UNCHANGED <<cstreams, spc, sstate, sctrl,
           sstreams, sdone, stimer, i_errno, errOwner, listener, exchanged, sEnd>>,
         backlog' \in Seq(Conns),
         toC' \in [Clients -> Seq(Tokens)], GoodQueues(toC', exchanged)
  PROVE  ControlInvariant'
BY ClientFailFacts, ClientFacts, ClientInvariant

(* What reading a byte changes in a client.                                *)
LEMMA ReadsFacts ==
  ASSUME ControlInvariant, NEW c \in Clients, NEW tok, Reads(c, tok)
  PROVE  /\ toC' \in [Clients -> Seq(Tokens)] /\ GoodQueues(toC', exchanged)
         /\ cpc[c] = "loop" /\ tok \in Tokens /\ GoodToken(tok, c, exchanged)
<1>1. toC[c] \in Seq(Tokens) /\ toC[c] # <<>> /\ tok = Head(toC[c])
  BY ClientFacts DEF Reads
<1>2. Tail(toC[c]) \in Seq(Tokens) /\ tok \in Tokens
  BY <1>1, HeadTailProperties
<1>3. toC' \in [Clients -> Seq(Tokens)]
  BY <1>2, ClientFacts DEF Reads
<1>4. GoodQueues(toC', exchanged)
  BY <1>1, ClientFacts, GoodTail DEF Reads
<1>5. tok = toC[c][1] /\ 1 \in 1..Len(toC[c])
  BY <1>1, HeadTailProperties, LenProperties, EmptySeq
<1>6. GoodToken(tok, c, exchanged)
  BY <1>5, ClientFacts DEF GoodQueues
<1>7. QED
  BY <1>2, <1>3, <1>4, <1>6 DEF Reads

(* A step that leaves the server alone leaves its part of the invariant.   *)
LEMMA ServerUnchanged ==
  ASSUME ControlInvariant, UNCHANGED serverVars
  PROVE  /\ UNCHANGED <<spc, sstate, sctrl, sstreams, sdone, stimer, i_errno,
                        errOwner, listener, exchanged, sEnd>>
         /\ backlog' \in Seq(Conns) /\ sEnd' \in [Clients -> Ends]
         /\ \A d \in Clients : sEnd'[d] \in {"open", "shut"} => sEnd'[d] = sEnd[d]
BY ClientFacts DEF serverVars

(* iperf_connect keeps the invariant.                                      *)
LEMMA ConnectInvariant ==
  ASSUME ControlInvariant, NEW c \in Clients, Connect(c)
  PROVE  ControlInvariant'
<1>1. /\ UNCHANGED <<spc, sstate, sctrl, sstreams, sdone, stimer, i_errno,
                     errOwner, listener, exchanged, toS, toC, cstate, cstreams,
                     cblame>>
      /\ cpc[c] = "init"
  BY DEF Connect
<1>2. CASE /\ backlog' = Append(backlog, [c |-> c, i |-> 0])
           /\ sEnd' = [sEnd EXCEPT ![c] = "queued"]
           /\ cEnd' = [cEnd EXCEPT ![c] = "open"]
           /\ cpc' = [cpc EXCEPT ![c] = "loop"]
           /\ UNCHANGED cerr
  <2>1. [c |-> c, i |-> 0] \in Conns
    BY DEF Conns
  <2>2. backlog' \in Seq(Conns)
    BY <1>2, <2>1, ClientFacts, AppendProperties
  <2>3. /\ sEnd' \in [Clients -> Ends]
        /\ \A d \in Clients : sEnd'[d] \in {"open", "shut"} => sEnd'[d] = sEnd[d]
    BY <1>2, ClientFacts DEF Ends
  <2>4. cEnd' \in [Clients -> CEnds] /\ cpc' \in [Clients -> CPcs]
    BY <1>2, ClientFacts DEF CEnds, CPcs
  <2>5. SuccessMeansExchanged'
    BY <1>1, <1>2, ClientKeepsSuccess
  <2>6. QED
    BY <1>1, <1>2, <2>2, <2>3, <2>4, <2>5, ClientFacts, ClientInvariant
<1>3. CASE /\ cpc' = [cpc EXCEPT ![c] = "exited"]
           /\ cerr' = [cerr EXCEPT ![c] = "IECONNECT"]
           /\ UNCHANGED <<backlog, sEnd, cEnd>>
  <2>1. cpc' \in [Clients -> CPcs] /\ cerr' \in [Clients -> Errors]
    BY <1>3, ClientFacts DEF CPcs, Errors
  <2>2. SuccessMeansExchanged'
    BY <1>1, <1>3, ClientFacts DEF ControlInvariant, SuccessMeansExchanged
  <2>3. QED
    BY <1>1, <1>3, <2>1, <2>2, ClientFacts, ClientInvariant
<1>4. QED
  BY <1>2, <1>3 DEF Connect

(* iperf_create_streams keeps the invariant.                               *)
LEMMA ConnectStreamInvariant ==
  ASSUME ControlInvariant, NEW c \in Clients, ConnectStream(c)
  PROVE  ControlInvariant'
<1>1. /\ UNCHANGED <<spc, sstate, sctrl, sstreams, sdone, stimer, i_errno,
                     errOwner, listener, sEnd, exchanged, toC>>
      /\ cpc[c] = "streams"
  BY DEF ConnectStream
<1>2. CASE /\ cstreams' = [cstreams EXCEPT ![c] = @ + 1]
           /\ backlog' = Append(backlog, [c |-> c, i |-> cstreams[c] + 1])
           /\ cpc' = IF cstreams[c] + 1 = Expected(c)
                     THEN [cpc EXCEPT ![c] = "loop"] ELSE cpc
           /\ UNCHANGED <<cEnd, cstate, cerr, cblame, toS>>
  <2>1. cstreams[c] + 1 \in Nat /\ cstreams' \in [Clients -> Nat]
    BY <1>2, ClientFacts
  <2>2. [c |-> c, i |-> cstreams[c] + 1] \in Conns
    BY <2>1 DEF Conns
  <2>3. backlog' \in Seq(Conns)
    BY <1>2, <2>2, ClientFacts, AppendProperties
  <2>4. cpc' \in [Clients -> CPcs]
    BY <1>2, ClientFacts DEF CPcs
  <2>5. SuccessMeansExchanged'
    BY <1>1, <1>2, ClientFacts DEF ControlInvariant, SuccessMeansExchanged
  <2>6. QED
    BY <1>1, <1>2, <2>1, <2>3, <2>4, <2>5, ClientFacts, ClientInvariant
<1>3. CASE /\ ClientFail(c, "CREATE_STREAMS", "IESTREAMCONNECT", None)
           /\ UNCHANGED <<cstreams, backlog>>
  <2>1. "CREATE_STREAMS" \in States /\ "IESTREAMCONNECT" \in Errors \ {"IENONE"}
    BY DEF States, Errors
  <2>2. QED
    BY <1>1, <1>3, <2>1, ClientFacts, ClientFailInvariant
<1>4. QED
  BY <1>2, <1>3 DEF ConnectStream

(* A client reads a byte and goes on, in state st and at pc.               *)
LEMMA ClientGoesOn ==
  ASSUME ControlInvariant, NEW c \in Clients, UNCHANGED serverVars,
         NEW st \in States, NEW pc \in CPcs \ {"sync", "exited"},
         cstate' = [cstate EXCEPT ![c] = st], cpc' = [cpc EXCEPT ![c] = pc],
         UNCHANGED <<cEnd, cstreams, cerr, cblame>>,
         toS' \in [Clients -> Seq(Tokens)],
         toC' \in [Clients -> Seq(Tokens)], GoodQueues(toC', exchanged)
  PROVE  ControlInvariant'
<1>1. cstate' \in [Clients -> States] /\ cpc' \in [Clients -> CPcs]
  BY ClientFacts
<1>2. SuccessMeansExchanged'
  BY ServerUnchanged, ClientKeepsSuccess
<1>3. QED
  BY <1>1, <1>2, ClientFacts, ServerUnchanged, ClientInvariant

(* The client's handlers that go on with the test keep the invariant.      *)
LEMMA ClientHandlersInvariant ==
  ASSUME ControlInvariant, NEW c \in Clients,
         OnParamExchange(c) \/ OnCreateStreams(c) \/ OnTestStart(c)
           \/ EndTest(c) \/ OnExchangeResults(c)
  PROVE  ControlInvariant'
<1>1. UNCHANGED serverVars /\ UNCHANGED cstreams
  BY DEF OnParamExchange, OnCreateStreams, OnTestStart, EndTest, OnExchangeResults
<1>2. /\ toC' \in [Clients -> Seq(Tokens)] /\ GoodQueues(toC', exchanged)
      /\ cpc[c] = "loop"
  BY ReadsFacts, ClientFacts
     DEF OnParamExchange, OnCreateStreams, OnTestStart, EndTest, OnExchangeResults
<1>3. cpc = [cpc EXCEPT ![c] = "loop"]
  BY <1>2, ClientFacts
<1>4. /\ {"loop", "streams", "results"} \subseteq CPcs \ {"sync", "exited"}
      /\ {"PARAM_EXCHANGE", "CREATE_STREAMS", "TEST_START", "TEST_RUNNING",
          "TEST_END", "EXCHANGE_RESULTS"} \subseteq States
      /\ "IESENDMESSAGE" \in Errors \ {"IENONE"}
  BY DEF CPcs, States, Errors
<1>5. /\ Json("PARAMS") \in Tokens /\ Json("RESULTS") \in Tokens
      /\ Byte("TEST_END") \in Tokens
  BY <1>4, TokenTypes
<1>6. ASSUME NEW st \in States, ClientFail(c, st, "IESENDMESSAGE", None)
      PROVE  ControlInvariant'
  BY <1>1, <1>2, <1>4, <1>6, ServerUnchanged, ClientFailInvariant
<1>7. CASE OnParamExchange(c)
  <2>1. CASE /\ CWrite(c, Json("PARAMS"))
             /\ cstate' = [cstate EXCEPT ![c] = "PARAM_EXCHANGE"]
             /\ UNCHANGED <<cpc, cEnd, cerr, cblame>>
    BY <1>1, <1>2, <1>3, <1>4, <1>5, <2>1, CWriteType, ClientGoesOn
  <2>2. QED
    BY <1>4, <1>6, <1>7, <2>1 DEF OnParamExchange
<1>8. CASE OnCreateStreams(c)
  <2>1. /\ cstate' = [cstate EXCEPT ![c] = "CREATE_STREAMS"]
        /\ cpc' = [cpc EXCEPT ![c] = "streams"]
        /\ UNCHANGED <<cEnd, cstreams, cerr, cblame, toS>>
    BY <1>8 DEF OnCreateStreams
  <2>2. QED
    BY <1>1, <1>2, <1>4, <2>1, ClientFacts, ClientGoesOn
<1>9. CASE OnTestStart(c)
  <2>1. PICK st \in {"TEST_START", "TEST_RUNNING"} :
          /\ cstate' = [cstate EXCEPT ![c] = st]
          /\ UNCHANGED <<cpc, cEnd, cstreams, cerr, cblame, toS>>
    BY <1>9 DEF OnTestStart
  <2>2. QED
    BY <1>1, <1>2, <1>3, <1>4, <2>1, ClientFacts, ClientGoesOn
<1>10. CASE EndTest(c)
  <2>1. CASE /\ CWrite(c, Byte("TEST_END"))
             /\ cstate' = [cstate EXCEPT ![c] = "TEST_END"]
             /\ UNCHANGED <<cpc, cEnd, cerr, cblame>>
    BY <1>1, <1>2, <1>3, <1>4, <1>5, <2>1, CWriteType, ClientGoesOn
  <2>2. QED
    BY <1>4, <1>6, <1>10, <2>1 DEF EndTest
<1>11. CASE OnExchangeResults(c)
  <2>1. CASE /\ CWrite(c, Json("RESULTS"))
             /\ cstate' = [cstate EXCEPT ![c] = "EXCHANGE_RESULTS"]
             /\ cpc' = [cpc EXCEPT ![c] = "results"]
             /\ UNCHANGED <<cEnd, cerr, cblame>>
    BY <1>1, <1>2, <1>4, <1>5, <2>1, CWriteType, ClientGoesOn
  <2>2. QED
    BY <1>4, <1>6, <1>11, <2>1 DEF OnExchangeResults
<1>12. QED
  BY <1>7, <1>8, <1>9, <1>10, <1>11

(* get_results in the client keeps the invariant.                          *)
LEMMA ClientReadResultsInvariant ==
  ASSUME ControlInvariant, NEW c \in Clients, ClientReadResults(c)
  PROVE  ControlInvariant'
<1>1. UNCHANGED serverVars /\ UNCHANGED cstreams
  BY DEF ClientReadResults
<1>2. CASE /\ toC[c] # <<>>
           /\ toC' = [toC EXCEPT ![c] = Tail(@)]
           /\ cpc' = [cpc EXCEPT ![c] = "loop"]
           /\ UNCHANGED <<cEnd, cstate, cerr, cblame, toS>>
  <2>1. Tail(toC[c]) \in Seq(Tokens)
    BY <1>2, ClientFacts, HeadTailProperties
  <2>2. toC' \in [Clients -> Seq(Tokens)]
    BY <1>2, <2>1, ClientFacts
  <2>3. GoodQueues(toC', exchanged)
    BY <1>2, ClientFacts, GoodTail
  <2>4. /\ cstate' = [cstate EXCEPT ![c] = cstate[c]] /\ cstate[c] \in States
        /\ "loop" \in CPcs \ {"sync", "exited"}
    BY <1>2, ClientFacts DEF CPcs
  <2>5. QED
    BY <1>1, <1>2, <2>2, <2>3, <2>4, ClientFacts, ClientGoesOn
<1>3. CASE /\ ClientFail(c, "EXCHANGE_RESULTS", "IERECVRESULTS", None)
           /\ UNCHANGED toC
  <2>1. "EXCHANGE_RESULTS" \in States /\ "IERECVRESULTS" \in Errors \ {"IENONE"}
    BY DEF States, Errors
  <2>2. QED
    BY <1>1, <1>3, <2>1, ClientFacts, ServerUnchanged, ClientFailInvariant
<1>4. QED
  BY <1>2, <1>3 DEF ClientReadResults

(* DISPLAY_RESULTS in the client keeps the invariant.                      *)
LEMMA OnDisplayResultsInvariant ==
  ASSUME ControlInvariant, NEW c \in Clients, OnDisplayResults(c)
  PROVE  ControlInvariant'
<1>1. UNCHANGED serverVars /\ UNCHANGED <<cstreams, cerr, cblame>>
  BY DEF OnDisplayResults
<1>2. /\ toC' \in [Clients -> Seq(Tokens)] /\ GoodQueues(toC', exchanged)
      /\ GoodToken(Byte("DISPLAY_RESULTS"), c, exchanged)
  BY ReadsFacts DEF OnDisplayResults
<1>3. c \in exchanged
  BY <1>2 DEF GoodToken
<1>4. toS' \in [Clients -> Seq(Tokens)]
  BY CWriteType, TokenTypes DEF OnDisplayResults, States
<1>5. /\ cstate' \in [Clients -> States] /\ cpc' \in [Clients -> CPcs]
      /\ cEnd' \in [Clients -> CEnds]
  BY ClientFacts DEF OnDisplayResults, States, CPcs, CEnds
<1>6. SuccessMeansExchanged'
  BY <1>1, <1>3, ServerUnchanged, ClientKeepsSuccess DEF OnDisplayResults
<1>7. QED
  BY <1>1, <1>2, <1>4, <1>5, <1>6, ClientFacts, ServerUnchanged, ClientInvariant

(* The messages that end the client's loop keep the invariant.             *)
LEMMA OnServerLeavesInvariant ==
  ASSUME ControlInvariant, NEW c \in Clients, OnServerLeaves(c) \/ ClientNoData(c)
  PROVE  ControlInvariant'
<1>1. UNCHANGED serverVars /\ UNCHANGED cstreams
  BY DEF OnServerLeaves, ClientNoData
<1>2. /\ {"SERVER_TERMINATE", "ACCESS_DENIED", "SERVER_ERROR", "TEST_RUNNING"}
           \subseteq States
      /\ {"IESERVERTERM", "IEACCESSDENIED", "IECTRLCLOSE", "IERECVMESSAGE", "IENOMSG"}
           \subseteq Errors \ {"IENONE"}
  BY DEF States, Errors
<1>3. ASSUME NEW st \in States, NEW e \in Errors \ {"IENONE"},
             NEW o \in Clients \cup {None}, ClientFail(c, st, e, o),
             \/ UNCHANGED toC
             \/ \E tok : Reads(c, tok)
      PROVE  ControlInvariant'
  <2>1. toC' \in [Clients -> Seq(Tokens)] /\ GoodQueues(toC', exchanged)
    BY <1>3, ReadsFacts, ClientFacts
  <2>2. QED
    BY <1>1, <1>3, <2>1, ServerUnchanged, ClientFailInvariant
<1>4. CASE /\ Reads(c, Byte("SERVER_TERMINATE"))
           /\ ClientFail(c, "SERVER_TERMINATE", "IESERVERTERM", None)
  BY <1>2, <1>3, <1>4
<1>5. CASE /\ Reads(c, Byte("ACCESS_DENIED"))
           /\ ClientFail(c, "ACCESS_DENIED", "IEACCESSDENIED", None)
  BY <1>2, <1>3, <1>5
<1>6. CASE /\ Head(toC[c]).k = "error"
           /\ Reads(c, Head(toC[c]))
           /\ ClientFail(c, "SERVER_ERROR", Head(toC[c]).v, Head(toC[c]).o)
  <2>1. Head(toC[c]) \in Tokens /\ GoodToken(Head(toC[c]), c, exchanged)
    BY <1>6, ReadsFacts
  <2>2. /\ Head(toC[c]).v \in Errors \ {"IENONE"}
        /\ Head(toC[c]).o \in Clients \cup {None}
    BY <1>6, <2>1 DEF GoodToken, Tokens
  <2>3. QED
    BY <1>2, <1>3, <1>6, <2>2
<1>7. CASE /\ \E e \in {"IECTRLCLOSE", "IERECVMESSAGE"} :
                ClientFail(c, cstate[c], e, None)
           /\ UNCHANGED toC
  BY <1>2, <1>3, <1>7, ClientFacts
<1>8. CASE ClientNoData(c)
  <2>1. ClientFail(c, "TEST_RUNNING", "IENOMSG", None) /\ UNCHANGED toC
    BY <1>8 DEF ClientNoData
  <2>2. QED
    BY <1>2, <1>3, <2>1
<1>9. QED
  BY <1>4, <1>5, <1>6, <1>7, <1>8 DEF OnServerLeaves

(* A client that times out, exits or vanishes keeps the invariant.         *)
LEMMA ClientStopsInvariant ==
  ASSUME ControlInvariant, NEW c \in Clients,
         ClientSyncClose(c) \/ ClientInterrupted(c) \/ ClientVanishes(c)
  PROVE  ControlInvariant'
<1>1. UNCHANGED serverVars /\ UNCHANGED <<cstreams, cblame>>
  BY DEF ClientSyncClose, ClientInterrupted, ClientVanishes
<1> DEFINE emptied == [toC EXCEPT ![c] = <<>>]
<1>0. emptied \in [Clients -> Seq(Tokens)] /\ GoodQueues(emptied, exchanged)
  <2>1. toC \in [Clients -> Seq(Tokens)] /\ GoodQueues(toC, exchanged)
    BY ClientFacts
  <2>2. <<>> \in Seq(Tokens)
    OBVIOUS
  <2>3. emptied \in [Clients -> Seq(Tokens)]
    BY <2>1, <2>2
  <2>4. GoodQueues(emptied, exchanged)
    BY <2>1, GoodEmpty
  <2>5. QED
    BY <2>3, <2>4
<1>2. CASE ClientSyncClose(c)
  <2>1. /\ toC' = [toC EXCEPT ![c] = <<>>] /\ cpc[c] = "sync"
        /\ cpc' = [cpc EXCEPT ![c] = "exited"]
        /\ cEnd' = [cEnd EXCEPT ![c] = "closed"]
        /\ UNCHANGED <<cstate, cerr, toS>>
    BY <1>2 DEF ClientSyncClose
  <2>2. toC' \in [Clients -> Seq(Tokens)] /\ GoodQueues(toC', exchanged)
    BY <1>0, <2>1
  <2>3. cpc' \in [Clients -> CPcs] /\ cEnd' \in [Clients -> CEnds]
    BY <2>1, ClientFacts DEF CPcs, CEnds
  <2>4. SuccessMeansExchanged'
    BY <1>1, <2>1, ServerUnchanged, ClientKeepsSuccess
  <2>5. QED
    BY <1>1, <2>1, <2>2, <2>3, <2>4, ClientFacts, ServerUnchanged, ClientInvariant
<1>3. CASE ClientInterrupted(c)
  <2>1. toC' \in [Clients -> Seq(Tokens)] /\ GoodQueues(toC', exchanged)
    BY <1>3, <1>0 DEF ClientInterrupted
  <2>2. toS' \in [Clients -> Seq(Tokens)]
    BY <1>3, CWriteType, TokenTypes DEF ClientInterrupted, States
  <2>3. /\ cpc' \in [Clients -> CPcs] /\ cEnd' \in [Clients -> CEnds]
        /\ cstate' \in [Clients -> States] /\ cerr' \in [Clients -> Errors]
    BY <1>3, ClientFacts DEF ClientInterrupted, CPcs, CEnds, States, Errors
  <2>4. SuccessMeansExchanged'
    BY <1>1, <1>3, ServerUnchanged, ClientFacts
       DEF ClientInterrupted, ControlInvariant, SuccessMeansExchanged
  <2>5. QED
    BY <1>1, <2>1, <2>2, <2>3, <2>4, ClientFacts, ServerUnchanged, ClientInvariant
<1>4. CASE ClientVanishes(c)
  <2>1. cpc' = [cpc EXCEPT ![c] = "vanished"] /\ UNCHANGED <<cstate, cerr, cEnd, toS, toC>>
    BY <1>4 DEF ClientVanishes
  <2>2. cstate' = [cstate EXCEPT ![c] = cstate[c]] /\ cstate[c] \in States
        /\ "vanished" \in CPcs \ {"sync", "exited"}
    BY <2>1, ClientFacts DEF CPcs
  <2>3. QED
    BY <1>1, <2>1, <2>2, ClientFacts, ServerUnchanged, ClientGoesOn
<1>5. QED
  BY <1>2, <1>3, <1>4

----------------------------------------------------------------------------
(* The theorems.                                                           *)

(* A stuttering step keeps the invariant.                                  *)
LEMMA StutterInvariant == ControlInvariant /\ UNCHANGED vars => ControlInvariant'
<1> SUFFICES ASSUME ControlInvariant, UNCHANGED vars PROVE ControlInvariant'
  OBVIOUS
<1>1. TypeOK'
  BY DEF ControlInvariant, TypeOK, vars, serverVars, clientVars
<1>2. SocketAndPc' /\ OneControlConnection'
  BY DEF ControlInvariant, SocketAndPc, OneControlConnection, vars, serverVars
<1>3. GoodQueues(toC, exchanged)' /\ SuccessMeansExchanged'
  BY DEF ControlInvariant, SuccessMeansExchanged, vars, serverVars, clientVars
<1>4. QED
  BY <1>1, <1>2, <1>3 DEF ControlInvariant

(* Every step of the server or of a client keeps ControlInvariant, which   *)
(* is what run, iperf_run_server and iperf_run_client rely on at the top   *)
(* of their loops.                                                         *)
THEOREM StepInvariant == ControlInvariant /\ [Next]_vars => ControlInvariant'
<1> SUFFICES ASSUME ControlInvariant, [Next]_vars PROVE ControlInvariant'
  OBVIOUS
<1>1. CASE UNCHANGED vars
  BY <1>1, StutterInvariant
<1>2. CASE ServerStep
  BY <1>2, SyncCloseInvariant, ListenInvariant, AcceptClientInvariant,
     AcceptBusyInvariant, ReadParamsInvariant, AcceptStreamInvariant,
     OnTestEndInvariant, ReadResultsInvariant, OnClientLeavesInvariant,
     LimitsInvariant DEF ServerStep
<1>3. CASE \/ NoDataTimeout \/ IdleTimeout \/ ServerTimer
           \/ BitrateExceeded \/ ListenFails \/ ServerInterrupted
           \/ StreamFails \/ SelectBreaks
  BY <1>3, LimitsInvariant, ServerTimerInvariant, ListenInvariant,
     ServerInterruptedInvariant, StreamFailsInvariant
<1>4. ASSUME NEW c \in Clients,
             ClientStep(c) \/ ClientNoData(c) \/ ClientInterrupted(c) \/ ClientVanishes(c)
      PROVE  ControlInvariant'
  BY <1>4, ConnectInvariant, ConnectStreamInvariant, ClientHandlersInvariant,
     ClientReadResultsInvariant, OnDisplayResultsInvariant,
     OnServerLeavesInvariant, ClientStopsInvariant DEF ClientStep
<1>5. QED
  BY <1>1, <1>2, <1>3, <1>4 DEF Next

(* The invariant holds in every reachable state of the control protocol.   *)
THEOREM Invariance == Spec => []ControlInvariant
<1>1. QED
  BY InitInvariant, StepInvariant, PTL DEF Spec

(* Type correctness of the state of the server and of the clients.         *)
THEOREM TypeCorrect == Spec => []TypeOK
<1>1. ControlInvariant => TypeOK
  BY DEF ControlInvariant
<1>2. QED
  BY <1>1, Invariance, PTL

(* iperf_accept never leaves the server with two control connections.      *)
THEOREM OneAtATime == Spec => []OneControlConnection
<1>1. ControlInvariant => OneControlConnection
  BY DEF ControlInvariant
<1>2. QED
  BY <1>1, Invariance, PTL

(* A client that exits without an error has the server's results.          *)
THEOREM Success == Spec => []SuccessMeansExchanged
<1>1. ControlInvariant => SuccessMeansExchanged
  BY DEF ControlInvariant
<1>2. QED
  BY <1>1, Invariance, PTL

----------------------------------------------------------------------------
(* The control protocol implements Session: a step of the server admits a  *)
(* client, sends it the results, lets go of it, or does nothing that       *)
(* Session sees; a step of a client decides its outcome once, or nothing.  *)

\* A client whose process has not ended has no error yet.
NoErrorYet ==
  \A c \in Clients :
    cpc[c] \in {"init", "loop", "streams", "results"} => cerr[c] = "IENONE"

Holder == IF sctrl = None THEN None ELSE IF sctrl.i # 0 THEN None ELSE sctrl.c

LEMMA InitNoError == Init => NoErrorYet
BY DEF Init, NoErrorYet

\* ClientFail and what it does to the outcome of its client.
LEMMA ClientFails ==
  ASSUME TypeOK, NoErrorYet, NEW c \in Clients, NEW st, NEW e \in Errors \ {"IENONE"},
         NEW o, ClientFail(c, st, e, o),
         cpc[c] \in {"loop", "streams", "results"}
  PROVE  /\ Outcome(c) = "pending" /\ Outcome(c)' = "failed"
         /\ \A d \in Clients : d # c => (cpc'[d] = cpc[d] /\ cerr'[d] = cerr[d])
         /\ cpc'[c] = "sync"
BY DEF ClientFail, Outcome, NoErrorYet, TypeOK

\* What a step of client c may do: nothing, or end with an error, or end
\* without one after the exchange of results.
ClientEnds(c) ==
  /\ UNCHANGED <<sctrl, exchanged>>
  /\ \A d \in Clients : d # c => (cpc'[d] = cpc[d] /\ cerr'[d] = cerr[d])
  /\ \/ Outcome(c)' = Outcome(c)
     \/ Outcome(c) = "pending" /\ Outcome(c)' = "failed"
     \/ Outcome(c) = "pending" /\ Outcome(c)' = "ok" /\ c \in exchanged
  /\ cpc'[c] \in {"init", "loop", "streams", "results"} => cerr'[c] = "IENONE"

\* A client that is still running stays so without an error.
LEMMA ClientRunsOn ==
  ASSUME TypeOK, NoErrorYet, NEW c \in Clients,
         cpc[c] \in {"init", "loop", "streams", "results"},
         cpc'[c] \in {"init", "loop", "streams", "results"},
         \A d \in Clients : d # c => cpc'[d] = cpc[d],
         UNCHANGED <<cerr, sctrl, exchanged>>
  PROVE  ClientEnds(c)
BY DEF ClientEnds, Outcome, NoErrorYet, TypeOK

LEMMA ClientGivesUp ==
  ASSUME TypeOK, NoErrorYet, NEW c \in Clients, NEW st, NEW e \in Errors \ {"IENONE"},
         NEW o, ClientFail(c, st, e, o),
         cpc[c] \in {"loop", "streams", "results"},
         UNCHANGED <<sctrl, exchanged>>
  PROVE  ClientEnds(c)
BY ClientFails DEF ClientEnds

LEMMA ClientStepEnds ==
  ASSUME ControlInvariant, NoErrorYet, NEW c \in Clients,
         \/ ClientStep(c) \/ ClientNoData(c)
         \/ ClientInterrupted(c) \/ ClientVanishes(c)
  PROVE  ClientEnds(c)
<1>1. TypeOK
  BY DEF ControlInvariant
<1>2. CASE Connect(c)
  <2>1. CASE cpc' = [cpc EXCEPT ![c] = "loop"] /\ UNCHANGED cerr
    BY <1>1, <1>2, <2>1, ClientRunsOn DEF Connect, TypeOK
  <2>2. CASE /\ cpc' = [cpc EXCEPT ![c] = "exited"]
             /\ cerr' = [cerr EXCEPT ![c] = "IECONNECT"]
    BY <1>1, <1>2, <2>2 DEF Connect, ClientEnds, Outcome, NoErrorYet, TypeOK
  <2> QED
    BY <1>2, <2>1, <2>2 DEF Connect
<1>3. CASE OnParamExchange(c) \/ OnCreateStreams(c) \/ OnTestStart(c)
  <2>1. cpc[c] = "loop" /\ UNCHANGED <<sctrl, exchanged>>
    BY <1>3 DEF OnParamExchange, OnCreateStreams, OnTestStart, Reads, serverVars
  <2>2. CASE OnParamExchange(c) /\ ClientFail(c, "PARAM_EXCHANGE", "IESENDMESSAGE", None)
    BY <1>1, <2>1, <2>2, ClientGivesUp DEF Errors
  <2>3. CASE OnParamExchange(c) /\ UNCHANGED <<cpc, cerr>>
    BY <1>1, <2>1, <2>3, ClientRunsOn DEF TypeOK
  <2>4. CASE OnCreateStreams(c) \/ OnTestStart(c)
    BY <1>1, <2>1, <2>4, ClientRunsOn DEF OnCreateStreams, OnTestStart, TypeOK
  <2> QED
    BY <1>3, <2>2, <2>3, <2>4 DEF OnParamExchange
<1>4. CASE ConnectStream(c)
  <2>1. cpc[c] = "streams" /\ UNCHANGED <<sctrl, exchanged>>
    BY <1>4 DEF ConnectStream
  <2>2. CASE ClientFail(c, "CREATE_STREAMS", "IESTREAMCONNECT", None)
    BY <1>1, <2>1, <2>2, ClientGivesUp DEF Errors
  <2>3. CASE UNCHANGED cerr /\ cpc' \in {cpc, [cpc EXCEPT ![c] = "loop"]}
    BY <1>1, <2>1, <2>3, ClientRunsOn DEF TypeOK
  <2> QED
    BY <1>4, <2>2, <2>3 DEF ConnectStream
<1>5. CASE EndTest(c)
  <2>1. cpc[c] = "loop" /\ UNCHANGED <<sctrl, exchanged>>
    BY <1>5 DEF EndTest, serverVars
  <2>2. CASE ClientFail(c, "TEST_END", "IESENDMESSAGE", None)
    BY <1>1, <2>1, <2>2, ClientGivesUp DEF Errors
  <2>3. CASE UNCHANGED <<cpc, cerr>>
    BY <1>1, <2>1, <2>3, ClientRunsOn DEF TypeOK
  <2> QED
    BY <1>5, <2>2, <2>3 DEF EndTest
<1>6. CASE OnExchangeResults(c)
  <2>1. cpc[c] = "loop" /\ UNCHANGED <<sctrl, exchanged>>
    BY <1>6 DEF OnExchangeResults, Reads, serverVars
  <2>2. CASE ClientFail(c, "EXCHANGE_RESULTS", "IESENDMESSAGE", None)
    BY <1>1, <2>1, <2>2, ClientGivesUp DEF Errors
  <2>3. CASE cpc' = [cpc EXCEPT ![c] = "results"] /\ UNCHANGED cerr
    BY <1>1, <2>1, <2>3, ClientRunsOn DEF TypeOK
  <2> QED
    BY <1>6, <2>2, <2>3 DEF OnExchangeResults
<1>7. CASE ClientReadResults(c)
  <2>1. cpc[c] = "results" /\ UNCHANGED <<sctrl, exchanged>>
    BY <1>7 DEF ClientReadResults, serverVars
  <2>2. CASE ClientFail(c, "EXCHANGE_RESULTS", "IERECVRESULTS", None)
    BY <1>1, <2>1, <2>2, ClientGivesUp DEF Errors
  <2>3. CASE cpc' = [cpc EXCEPT ![c] = "loop"] /\ UNCHANGED cerr
    BY <1>1, <2>1, <2>3, ClientRunsOn DEF TypeOK
  <2> QED
    BY <1>7, <2>2, <2>3 DEF ClientReadResults
<1>8. CASE OnDisplayResults(c)
  <2>1. cpc[c] = "loop" /\ toC[c] # <<>> /\ Head(toC[c]) = Byte("DISPLAY_RESULTS")
    BY <1>8 DEF OnDisplayResults, Reads
  <2>2. c \in exchanged
    <3>1. toC[c] \in Seq(Tokens)
      BY <1>1 DEF TypeOK
    <3>2. 1 \in 1..Len(toC[c]) /\ Head(toC[c]) = toC[c][1]
      BY <2>1, <3>1, EmptySeq, LenProperties, HeadTailProperties
    <3> QED
      BY <2>1, <3>2 DEF ControlInvariant, GoodQueues, GoodToken
  <2> QED
    BY <1>1, <1>8, <2>1, <2>2
       DEF OnDisplayResults, ClientEnds, Outcome, NoErrorYet, TypeOK, serverVars
<1>9. CASE OnServerLeaves(c)
  <2>1. cpc[c] = "loop" /\ UNCHANGED <<sctrl, exchanged>>
    BY <1>9 DEF OnServerLeaves, Reads, serverVars
  <2>2. \E st, o : \E e \in Errors \ {"IENONE"} : ClientFail(c, st, e, o)
    <3>1. CASE toC[c] # <<>> /\ Head(toC[c]).k = "error"
               /\ ClientFail(c, "SERVER_ERROR", Head(toC[c]).v, Head(toC[c]).o)
      <4>1. toC[c] \in Seq(Tokens)
        BY <1>1 DEF TypeOK
      <4>2. 1 \in 1..Len(toC[c]) /\ Head(toC[c]) = toC[c][1]
        BY <3>1, <4>1, EmptySeq, LenProperties, HeadTailProperties
      <4>3. Head(toC[c]).v \in Errors \ {"IENONE"}
        BY <3>1, <4>2 DEF ControlInvariant, GoodQueues, GoodToken
      <4> QED
        BY <3>1, <4>3
    <3>2. CASE ClientFail(c, "SERVER_TERMINATE", "IESERVERTERM", None)
      BY <3>2 DEF Errors
    <3>3. CASE ClientFail(c, "ACCESS_DENIED", "IEACCESSDENIED", None)
      BY <3>3 DEF Errors
    <3>4. CASE \E e \in {"IECTRLCLOSE", "IERECVMESSAGE"} :
                 ClientFail(c, cstate[c], e, None)
      BY <3>4 DEF Errors
    <3> QED
      BY <1>9, <3>1, <3>2, <3>3, <3>4 DEF OnServerLeaves
  <2> QED
    BY <1>1, <2>1, <2>2, ClientGivesUp
<1>10. CASE ClientNoData(c)
  BY <1>1, <1>10, ClientGivesUp DEF ClientNoData, Errors, serverVars
<1>11. CASE ClientSyncClose(c)
  BY <1>1, <1>11 DEF ClientSyncClose, ClientEnds, Outcome, TypeOK, serverVars
<1>12. CASE ClientInterrupted(c)
  BY <1>1, <1>12 DEF ClientInterrupted, ClientEnds, Outcome, NoErrorYet, TypeOK,
                     serverVars
<1>13. CASE ClientVanishes(c)
  BY <1>1, <1>13 DEF ClientVanishes, ClientEnds, Outcome, NoErrorYet, TypeOK,
                     serverVars
<1> QED
  BY <1>2, <1>3, <1>4, <1>5, <1>6, <1>7, <1>8, <1>9, <1>10, <1>11, <1>12, <1>13
     DEF ClientStep

\* What a step of the server may do to the clients.
ServerServes ==
  /\ UNCHANGED <<cpc, cerr>>
  /\ \/ Holder' = Holder /\ exchanged' = exchanged
     \/ Holder = None /\ Holder' \in Clients /\ exchanged' = exchanged
     \/ Holder # None /\ Holder' = None /\ exchanged' = exchanged
     \/ /\ Holder \in Clients /\ Holder' = Holder
        /\ exchanged' = exchanged \cup {Holder}

\* Taking a connection, keeping it and letting go of it.
LEMMA ServerKeeps ==
  ASSUME ControlInvariant, sctrl' \in {sctrl, None}, UNCHANGED <<exchanged, clientVars>>
  PROVE  ServerServes
BY DEF ServerServes, Holder, clientVars

LEMMA ServerTakes ==
  ASSUME ControlInvariant, sctrl = None, sctrl' \in Conns,
         UNCHANGED <<exchanged, clientVars>>
  PROVE  ServerServes
<1>1. sctrl' # None /\ sctrl'.c \in Clients
  BY ConstantsAssumption DEF Conns
<1> QED
  BY <1>1 DEF ServerServes, Holder, clientVars

LEMMA ServerStepServes ==
  ASSUME ControlInvariant,
         \/ ServerStep \/ NoDataTimeout \/ IdleTimeout \/ ServerTimer
         \/ BitrateExceeded \/ ListenFails \/ ServerInterrupted
         \/ StreamFails \/ SelectBreaks
  PROVE  ServerServes
<1>1. CASE AcceptClient
  <2>1. sctrl = None /\ Head(backlog) \in Conns
    BY <1>1, BacklogHead DEF AcceptClient, ControlInvariant, SocketAndPc
  <2>2. sctrl' = Head(backlog) /\ UNCHANGED <<exchanged, clientVars>>
    BY <1>1 DEF AcceptClient, Fail, FailWith, CleanupServer
  <2> QED
    BY <2>1, <2>2, ServerTakes
<1>2. CASE SyncClose \/ IdleTimeout \/ SelectFails
  BY <1>2, ServerKeeps DEF SyncClose, IdleTimeout, SelectFails, Shutdown
<1>3. CASE Listen \/ ListenFails \/ AcceptBusy
  BY <1>3, ServerKeeps DEF Listen, ListenFails, AcceptBusy
<1>4. CASE ReadParams \/ ReadParamsFails
  BY <1>4, ServerKeeps DEF ReadParams, ReadParamsFails, Fail, FailWith, CleanupServer, LosesListener
<1>5. CASE AcceptStream
  BY <1>5, ServerKeeps DEF AcceptStream, StartTest, StartFails, FailLate,
                           Fail, FailWith, CleanupServer, LosesListener
<1>6. CASE OnTestEnd \/ OnClientLeaves
  BY <1>6, ServerKeeps DEF OnTestEnd, OnClientLeaves, Fail, FailWith, CleanupServer
<1>7. CASE ReadResults
  <2>1. CASE Fail(sctrl, "IESENDMESSAGE")
    BY <1>7, <2>1, ServerKeeps DEF ReadResults, Fail, FailWith, CleanupServer
  <2>2. CASE sctrl' = sctrl /\ exchanged' = exchanged \cup {sctrl.c}
    <3>1. sctrl \in Conns /\ sctrl # None /\ sctrl.c \in Clients
      BY <1>7, InTest DEF ReadResults
    <3>2. sctrl.i = 0 /\ UNCHANGED clientVars
      BY <1>7 DEF ReadResults, NextIs
    <3> QED
      BY <2>2, <3>1, <3>2 DEF ServerServes, Holder, clientVars
  <2> QED
    BY <1>7, <2>1, <2>2 DEF ReadResults
<1>8. CASE ReadResultsFails \/ NoDataTimeout
  BY <1>8, ServerKeeps DEF ReadResultsFails, NoDataTimeout, Fail, FailWith, CleanupServer
<1>9. CASE ServerTimer \/ BitrateExceeded \/ ServerInterrupted
  BY <1>9, ServerKeeps DEF ServerTimer, BitrateExceeded, CleanupServer,
                           ServerInterrupted
<1>10. CASE StreamFails \/ SelectBreaks
  BY <1>10, ServerKeeps DEF StreamFails, SelectBreaks, Shutdown, FailLate
<1> QED
  BY <1>1, <1>2, <1>3, <1>4, <1>5, <1>6, <1>7, <1>8, <1>9, <1>10 DEF ServerStep

----------------------------------------------------------------------------
(* The refinement.                                                         *)

LEMMA ServerRefines == ServerServes => [Abstract!Next]_(Abstract!vars)
<1> SUFFICES ASSUME ServerServes PROVE [Abstract!Next]_(Abstract!vars)
  OBVIOUS
<1>1. [c \in Clients |-> Outcome(c)]' = [c \in Clients |-> Outcome(c)]
  BY DEF ServerServes, Outcome
<1>2. None \notin Clients
  BY ConstantsAssumption
<1>3. CASE Holder' = Holder /\ exchanged' = exchanged
  BY <1>1, <1>3 DEF Abstract!vars, Holder
<1>4. CASE Holder = None /\ Holder' \in Clients /\ exchanged' = exchanged
  BY <1>1, <1>4 DEF Abstract!Next, Abstract!Admit, Holder
<1>5. CASE Holder # None /\ Holder' = None /\ exchanged' = exchanged
  BY <1>1, <1>5 DEF Abstract!Next, Abstract!Release, Holder
<1>6. CASE /\ Holder \in Clients /\ Holder' = Holder
           /\ exchanged' = exchanged \cup {Holder}
  <2>1. CASE Holder \in exchanged
    BY <1>1, <1>6, <2>1 DEF Abstract!vars, Holder
  <2>2. CASE Holder \notin exchanged
    BY <1>1, <1>2, <1>6, <2>2 DEF Abstract!Next, Abstract!Exchange, Holder
  <2> QED
    BY <2>1, <2>2
<1> QED
  BY <1>3, <1>4, <1>5, <1>6 DEF ServerServes

LEMMA ClientRefines ==
  ASSUME NEW c \in Clients, ClientEnds(c)
  PROVE  [Abstract!Next]_(Abstract!vars)
<1> DEFINE now == [d \in Clients |-> Outcome(d)]
           then == [d \in Clients |-> Outcome(d)']
<1>1. then = [now EXCEPT ![c] = Outcome(c)']
  BY DEF ClientEnds, Outcome
<1>2. now[c] = Outcome(c) /\ now' = then
  OBVIOUS
<1>3. Holder' = Holder /\ exchanged' = exchanged
  BY DEF ClientEnds, Holder
<1>4. CASE Outcome(c)' = Outcome(c)
  <2>1. then = now
    BY <1>1, <1>4
  <2> QED
    BY <1>2, <1>3, <2>1 DEF Abstract!vars, Holder
<1>5. CASE Outcome(c) = "pending" /\ Outcome(c)' = "failed"
  <2>1. Abstract!Fail(c)
    BY <1>1, <1>2, <1>3, <1>5 DEF Abstract!Fail, Holder
  <2> QED
    BY <2>1 DEF Abstract!Next
<1>6. CASE Outcome(c) = "pending" /\ Outcome(c)' = "ok" /\ c \in exchanged
  <2>1. Abstract!Succeed(c)
    BY <1>1, <1>2, <1>3, <1>6 DEF Abstract!Succeed, Holder
  <2> QED
    BY <2>1 DEF Abstract!Next
<1> QED
  BY <1>4, <1>5, <1>6 DEF ClientEnds

LEMMA InitRefines == Init => Abstract!Init
BY DEF Init, Abstract!Init, Outcome

LEMMA StepRefines ==
  ASSUME ControlInvariant, NoErrorYet, [Next]_vars
  PROVE  [Abstract!Next]_(Abstract!vars) /\ NoErrorYet'
<1>1. CASE UNCHANGED vars
  <2>1. UNCHANGED <<sctrl, exchanged, cpc, cerr>>
    BY <1>1 DEF vars, serverVars, clientVars
  <2>2. [c \in Clients |-> Outcome(c)]' = [c \in Clients |-> Outcome(c)]
    BY <2>1 DEF Outcome
  <2> QED
    BY <2>1, <2>2 DEF Abstract!vars, NoErrorYet
<1>2. CASE \/ ServerStep \/ NoDataTimeout \/ IdleTimeout \/ ServerTimer
           \/ BitrateExceeded \/ ListenFails \/ ServerInterrupted
           \/ StreamFails \/ SelectBreaks
  <2>1. ServerServes
    BY <1>2, ServerStepServes
  <2> QED
    BY <2>1, ServerRefines DEF ServerServes, NoErrorYet
<1>3. ASSUME NEW c \in Clients,
             \/ ClientStep(c) \/ ClientNoData(c)
             \/ ClientInterrupted(c) \/ ClientVanishes(c)
      PROVE  [Abstract!Next]_(Abstract!vars) /\ NoErrorYet'
  <2>1. ClientEnds(c)
    BY <1>3, ClientStepEnds
  <2>2. NoErrorYet'
    BY <2>1 DEF ClientEnds, NoErrorYet
  <2> QED
    BY <2>1, <2>2, ClientRefines
<1> QED
  BY <1>1, <1>2, <1>3 DEF Next

\* The control protocol implements Session: the server serves one client at a
\* time, exchanges results with that client only, and a client reports success
\* only after that exchange and changes its report never.
THEOREM Refinement == Spec => ImplementsSession
<1>1. Init => NoErrorYet /\ Abstract!Init
  BY InitNoError, InitRefines
<1>2. ControlInvariant /\ NoErrorYet /\ [Next]_vars
        => [Abstract!Next]_(Abstract!vars) /\ NoErrorYet'
  BY StepRefines
<1> QED
  BY <1>1, <1>2, Invariance, PTL DEF Spec, ImplementsSession, Abstract!Spec

----------------------------------------------------------------------------
(* What a client is told when its test ends with an error.                 *)

\* i_errno has an owner only after it was set.
OwnedIsError == errOwner # None => i_errno # "IENONE"

\* What a step that ends a test does to what its client reads last.
Told ==
  (spc # "sync" /\ spc' = "sync" /\ sctrl'.i = 0 /\ ~Gone(sctrl'.c)
     /\ errOwner' = sctrl'.c /\ i_errno' \notin SetLate)
  => LET q == toC'[sctrl'.c] IN
     q # <<>> /\ q[Len(q)] = Err(i_errno', errOwner')

LEMMA LastWritten ==
  ASSUME NEW ch \in [Clients -> Seq(Tokens)], NEW k \in Conns, k.i = 0, ~Gone(k.c),
         NEW e \in Errors \ {"IENONE"}, NEW o \in Clients \cup {None}
  PROVE  LET q == TellClient(ch, k, e, o)[k.c] IN
         q # <<>> /\ q[Len(q)] = Err(e, o)
<1>1. k.c \in Clients /\ ch[k.c] \in Seq(Tokens) /\ <<Err(e, o)>> \in Seq(Tokens)
  BY TokenTypes DEF Conns
<1>2. TellClient(ch, k, e, o)[k.c] = ch[k.c] \o <<Err(e, o)>>
  BY <1>1 DEF TellClient, SWrite
<1> QED
  BY <1>1, <1>2, ConcatProperties

\* Every handler that fails tells its own error.
LEMMA CleanupTells ==
  ASSUME ControlInvariant, OwnedIsError, NEW k \in Conns,
         NEW ch \in [Clients -> Seq(Tokens)],
         NEW e \in Errors, NEW o \in Clients \cup {None},
         o # None => e # "IENONE",
         CleanupServer(k, ch, e, o), i_errno' = e, errOwner' = o
  PROVE  Told /\ OwnedIsError'
<1>1. k.c \in Clients /\ None \notin Clients
  BY ConstantsAssumption DEF Conns
<1>2. sctrl' = k /\ toC' = TellClient(ch, k, e, o)
  BY DEF CleanupServer
<1> QED
  BY <1>1, <1>2, LastWritten DEF Told, OwnedIsError

LEMMA FailTells ==
  ASSUME ControlInvariant, OwnedIsError, NEW k \in Conns,
         NEW f \in Errors \ {"IENONE"}, Fail(k, f)
  PROVE  Told /\ OwnedIsError'
<1> PICK e \in Errors \ {"IENONE"} : FailWith(k, e)
  BY FailIsWith
<1>1. k.c \in Clients /\ toC \in [Clients -> Seq(Tokens)]
  BY DEF Conns, ControlInvariant, TypeOK
<1> QED
  BY <1>1, CleanupTells DEF FailWith

\* A listener that is lost while the parameters are exchanged is told of, and
\* the test that cannot start tells its error after what it has sent.
LEMMA ListenerTells ==
  ASSUME ControlInvariant, OwnedIsError, sctrl \in Conns,
         LosesListener("IESTREAMLISTEN", sctrl.c, "IESTREAMLISTEN")
  PROVE  Told /\ OwnedIsError'
<1>1. /\ sctrl.c \in Clients \cup {None} /\ toC \in [Clients -> Seq(Tokens)]
      /\ "IESTREAMLISTEN" \in Errors \ {"IENONE"}
  BY DEF Conns, ControlInvariant, TypeOK, Errors
<1>2. /\ sctrl' = sctrl /\ i_errno' = "IESTREAMLISTEN" /\ errOwner' = sctrl.c
      /\ toC' = TellClient(toC, sctrl, "IESTREAMLISTEN", sctrl.c)
  BY DEF LosesListener
<1>3. ~Gone(sctrl.c) /\ sctrl.i = 0 =>
        LET q == TellClient(toC, sctrl, "IESTREAMLISTEN", sctrl.c)[sctrl.c] IN
        q # <<>> /\ q[Len(q)] = Err("IESTREAMLISTEN", sctrl.c)
  BY <1>1, LastWritten
<1> QED
  BY <1>2, <1>3 DEF Told, OwnedIsError

LEMMA StartTells ==
  ASSUME ControlInvariant, OwnedIsError, sctrl \in Conns,
         NEW toks \in {<<>>, <<Byte("TEST_START")>>,
                        <<Byte("TEST_START"), Byte("TEST_RUNNING")>>},
         NEW e \in Errors \ {"IENONE"}, StartFails(toks, e)
  PROVE  Told /\ OwnedIsError'
<1>1. sctrl.c \in Clients \cup {None} /\ toC \in [Clients -> Seq(Tokens)]
  BY DEF Conns, ControlInvariant, TypeOK
<1>2. toks \in Seq(Tokens)
  BY StartTokens
<1>3. SWrite(toC, sctrl, toks) \in [Clients -> Seq(Tokens)]
  BY <1>1, <1>2, SWriteType
<1>4. /\ CleanupServer(sctrl, SWrite(toC, sctrl, toks), e, sctrl.c)
      /\ i_errno' = e /\ errOwner' = sctrl.c
  BY DEF StartFails
<1> QED
  BY <1>1, <1>3, <1>4, CleanupTells

\* The errors that are set after cleanup_server are errors.
LEMMA LateTells ==
  ASSUME i_errno' \in SetLate
  PROVE  Told /\ OwnedIsError'
BY DEF Told, OwnedIsError, SetLate

\* A step that does not begin iperf_sync_close_socket tells nothing.
LEMMA OthersTell ==
  ASSUME OwnedIsError, spc' # "sync" \/ spc = "sync",
         UNCHANGED <<i_errno, errOwner>> \/ i_errno' # "IENONE"
  PROVE  Told /\ OwnedIsError'
BY DEF Told, OwnedIsError

LEMMA StepTells ==
  ASSUME ControlInvariant, OwnedIsError, [Next]_vars
  PROVE  Told /\ OwnedIsError'
<1> USE DEF Errors
<1>0. TypeOK
  BY DEF ControlInvariant
<1>1. CASE AcceptClient
  <2>1. Head(backlog) \in Conns
    BY <1>0, <1>1, BacklogHead DEF AcceptClient
  <2>2. CASE spc' = "params" /\ UNCHANGED <<i_errno, errOwner>>
    BY <2>2, OthersTell
  <2> QED
    BY <1>1, <2>1, <2>2, FailTells DEF AcceptClient
<1>2. CASE \/ ReadParams \/ ReadParamsFails \/ ReadResults \/ ReadResultsFails
           \/ NoDataTimeout
  <2>1. sctrl \in Conns
    BY <1>2, InTest DEF ReadParams, ReadParamsFails, ReadResults, ReadResultsFails,
                        NoDataTimeout
  <2>2. \/ \E e \in Errors \ {"IENONE"} : Fail(sctrl, e)
        \/ spc' = "loop" /\ UNCHANGED <<i_errno, errOwner>>
        \/ LosesListener("IESTREAMLISTEN", sctrl.c, "IESTREAMLISTEN")
    BY <1>0, <1>2 DEF ReadParams, ReadParamsFails, ReadResults, ReadResultsFails,
                      NoDataTimeout
  <2> QED
    BY <2>1, <2>2, FailTells, ListenerTells, OthersTell
<1>3. CASE AcceptStream
  <2>1. sctrl \in Conns /\ sctrl.c \in Clients
    BY <1>3, InTest DEF AcceptStream
  <2>2. CASE /\ CleanupServer(sctrl, Denied(Head(backlog), FALSE), "IESETTOS", sctrl.c)
             /\ i_errno' = "IESETTOS" /\ errOwner' = sctrl.c
    <3>1. Denied(Head(backlog), FALSE) \in [Clients -> Seq(Tokens)]
      BY <1>0, <1>3, BacklogHead, DeniedType DEF AcceptStream
    <3> QED
      BY <2>1, <2>2, <3>1, CleanupTells
  <2>3. CASE \E e \in Errors \ {"IENONE"} : Fail(sctrl, e)
    BY <2>1, <2>3, FailTells
  <2>4. CASE UNCHANGED <<spc, i_errno, errOwner>>
    BY <1>3, <2>4, OthersTell
  <2>5. CASE \E e \in SetLate : FailLate(e)
    BY <2>5, LateTells DEF FailLate
  <2>6. CASE StartTest
    <3>1. CASE LosesListener(i_errno, errOwner, "IELISTEN")
      BY <3>1, LateTells DEF LosesListener, SetLate
    <3>2. ASSUME NEW toks \in {<<>>, <<Byte("TEST_START")>>,
                                <<Byte("TEST_START"), Byte("TEST_RUNNING")>>},
                 NEW e \in Errors \ {"IENONE"}, StartFails(toks, e)
          PROVE  Told /\ OwnedIsError'
      BY <2>1, <3>2, StartTells
    <3> QED
      BY <2>4, <2>6, <3>1, <3>2, OverwrittenIsError DEF StartTest
  <2> QED
    BY <1>3, <2>2, <2>3, <2>4, <2>5, <2>6 DEF AcceptStream, SetLate
<1>4. CASE OnTestEnd
  <2>1. sctrl \in Conns /\ sctrl.c \in Clients /\ toC \in [Clients -> Seq(Tokens)]
    BY <1>0, <1>4, InTest DEF OnTestEnd, TypeOK
  <2>2. CASE spc' = "results" /\ UNCHANGED <<i_errno, errOwner>>
    BY <2>2, OthersTell
  <2>3. ASSUME NEW e \in Overwritten("IESENDMESSAGE"), i_errno' = e,
               CleanupServer(sctrl, toC, e, sctrl.c), errOwner' = sctrl.c
        PROVE  Told /\ OwnedIsError'
    <3>1. e \in Errors \ {"IENONE"}
      BY OverwrittenIsError
    <3> QED
      BY <2>1, <2>3, <3>1, CleanupTells
  <2> QED
    BY <1>4, <2>2, <2>3 DEF OnTestEnd
<1>5. CASE OnClientLeaves
  <2>1. sctrl \in Conns /\ toC \in [Clients -> Seq(Tokens)]
        /\ i_errno \in Errors /\ errOwner \in Clients \cup {None}
    BY <1>0, <1>5, InTest DEF OnClientLeaves, TypeOK
  <2>2. CASE CleanupServer(sctrl, toC, i_errno, errOwner) /\ UNCHANGED <<i_errno, errOwner>>
    BY <2>1, <2>2, CleanupTells DEF OwnedIsError
  <2>3. CASE \E e \in Errors \ {"IENONE"} : Fail(sctrl, e)
    BY <2>1, <2>3, FailTells
  <2> QED
    BY <1>5, <2>2, <2>3 DEF OnClientLeaves
<1>6. CASE BitrateExceeded
  <2>1. sctrl \in Conns /\ sctrl.c \in Clients
    BY <1>6, InTest DEF BitrateExceeded
  <2>2. PICK e \in Errors \ {"IENONE"}, x \in Errors \ {"IENONE"} :
          /\ CleanupServer(sctrl, SWrite(toC, sctrl, <<Err(e, sctrl.c)>>), x, sctrl.c)
          /\ i_errno' \in Errors \ {"IENONE"}
          /\ i_errno' = x \/ Gone(sctrl.c)
    BY <1>6, BitrateErrors
  <2>3. errOwner' = sctrl.c
    BY <1>6 DEF BitrateExceeded
  <2>4. SWrite(toC, sctrl, <<Err(e, sctrl.c)>>) \in [Clients -> Seq(Tokens)]
    <3>1. Err(e, sctrl.c) \in Tokens /\ toC \in [Clients -> Seq(Tokens)]
      BY <1>0, <2>1, TokenTypes DEF TypeOK
    <3>2. <<Err(e, sctrl.c)>> \in Seq(Tokens)
      BY <3>1
    <3> HIDE DEF Errors
    <3> QED
      BY <2>1, <3>1, <3>2, SWriteType
  <2>5. CASE i_errno' = x
    BY <2>1, <2>2, <2>3, <2>4, <2>5, CleanupTells
  <2>6. CASE Gone(sctrl.c)
    BY <2>2, <2>6 DEF Told, OwnedIsError, CleanupServer
  <2> QED
    BY <2>2, <2>5, <2>6
<1>7. CASE \/ SyncClose \/ Listen \/ ListenFails \/ SelectFails \/ AcceptBusy
           \/ IdleTimeout \/ ServerTimer \/ ServerInterrupted
           \/ StreamFails
  <2>1. spc' # "sync" \/ spc = "sync"
    BY <1>7 DEF SyncClose, Shutdown, Listen, ListenFails, SelectFails, AcceptBusy,
                IdleTimeout, ServerTimer, ServerInterrupted, StreamFails
  <2>2. UNCHANGED <<i_errno, errOwner>> \/ i_errno' # "IENONE"
    BY <1>7 DEF SyncClose, Shutdown, Listen, ListenFails, SelectFails, AcceptBusy,
                IdleTimeout, ServerTimer, ServerInterrupted, StreamFails,
                Overwritten, StreamErrors
  <2> QED
    BY <2>1, <2>2, OthersTell
<1>8. ASSUME NEW c \in Clients,
             \/ ClientStep(c) \/ ClientNoData(c)
             \/ ClientInterrupted(c) \/ ClientVanishes(c)
      PROVE  UNCHANGED <<spc, i_errno, errOwner>>
  BY <1>8 DEF ClientStep, Connect, OnParamExchange, OnCreateStreams, ConnectStream,
     OnTestStart, EndTest, OnExchangeResults, ClientReadResults, OnDisplayResults,
     OnServerLeaves, ClientSyncClose, ClientNoData, ClientInterrupted,
     ClientVanishes, serverVars
<1>9. CASE UNCHANGED vars
  BY <1>9, OthersTell DEF vars, serverVars
<1>10. CASE SelectBreaks
  BY <1>10, LateTells DEF SelectBreaks, FailLate, SetLate
<1> QED
  BY <1>1, <1>2, <1>3, <1>4, <1>5, <1>6, <1>7, <1>8, <1>9, <1>10, OthersTell
     DEF Next, ServerStep

\* Whatever fails, the last thing that a client of a test which ends with an
\* error is sent is the error that ended it, as cleanup_server has found it in
\* i_errno, but for the errors in SetLate, which are set after cleanup_server.
THEOREM ErrorsAreTold == Spec => ErrorIsTold
<1>1. Init => OwnedIsError
  BY DEF Init, OwnedIsError
<1>2. ControlInvariant /\ OwnedIsError /\ [Next]_vars => [Told]_vars /\ OwnedIsError'
  BY StepTells
<1> QED
  BY <1>1, <1>2, Invariance, PTL DEF Spec, ErrorIsTold, Told

----------------------------------------------------------------------------
(* What other connections do to a running test.                            *)

Harmless ==
  (spc = "loop" /\ sctrl # None /\ backlog # <<>> /\ Head(backlog).c # sctrl.c
     /\ backlog' = Tail(backlog) /\ listener')
  => (spc' = "loop" /\ sctrl' = sctrl /\ sstate' = sstate)

\* A step that leaves the backlog as it is, or adds to it, is not one that
\* takes a connection from it.
LEMMA NotTaken ==
  ASSUME TypeOK, backlog # <<>>,
         backlog' = backlog \/ \E k \in Conns : backlog' = Append(backlog, k)
  PROVE  backlog' # Tail(backlog)
<1>1. Len(Tail(backlog)) = Len(backlog) - 1 /\ Len(backlog) \in Nat
  BY HeadTailProperties, LenProperties DEF TypeOK
<1>2. \A k \in Conns : Len(Append(backlog, k)) = Len(backlog) + 1
  BY AppendProperties DEF TypeOK
<1> QED
  BY <1>1, <1>2

LEMMA StepHarmless ==
  ASSUME ControlInvariant, [Next]_vars, Tos = {}, "reset" \notin Faults
  PROVE  Harmless
<1> SUFFICES ASSUME spc = "loop", sctrl # None, backlog # <<>>,
                    Head(backlog).c # sctrl.c, backlog' = Tail(backlog), listener'
             PROVE  spc' = "loop" /\ sctrl' = sctrl /\ sstate' = sstate
  BY DEF Harmless
<1>1. TypeOK /\ sstate # "IPERF_START"
  BY DEF ControlInvariant, SocketAndPc
<1>2. backlog' # backlog /\ \A k \in Conns : backlog' # Append(backlog, k)
  BY <1>1, NotTaken
<1>3. CASE AcceptBusy
  BY <1>3 DEF AcceptBusy
<1>4. CASE AcceptStream
  BY <1>4 DEF AcceptStream, SameCookie
<1>5. ~(Listen \/ AcceptClient \/ SyncClose \/ SelectFails \/ IdleTimeout)
  BY <1>1 DEF Listen, AcceptClient, SyncClose, SelectFails, IdleTimeout
<1>6. ~(ReadParams \/ ReadParamsFails \/ ReadResults \/ ReadResultsFails)
  BY DEF ReadParams, ReadParamsFails, ReadResults, ReadResultsFails
<1>7. ~(OnTestEnd \/ OnClientLeaves \/ NoDataTimeout \/ ServerTimer \/ BitrateExceeded
        \/ ListenFails \/ ServerInterrupted \/ StreamFails \/ SelectBreaks)
  BY <1>2 DEF OnTestEnd, OnClientLeaves, NoDataTimeout, ServerTimer, BitrateExceeded,
              ListenFails, ServerInterrupted, StreamFails, SelectBreaks
<1>8. ASSUME NEW c \in Clients
      PROVE  ~(\/ ClientStep(c) \/ ClientNoData(c)
               \/ ClientInterrupted(c) \/ ClientVanishes(c))
  <2>1. [c |-> c, i |-> 0] \in Conns /\ [c |-> c, i |-> cstreams[c] + 1] \in Conns
    <3>1. cstreams[c] + 1 \in Nat
      BY <1>1 DEF TypeOK
    <3> QED
      BY <3>1 DEF Conns
  <2>2. ~(Connect(c) \/ ConnectStream(c))
    BY <1>2, <2>1 DEF Connect, ConnectStream
  <2>3. ~(\/ OnParamExchange(c) \/ OnCreateStreams(c) \/ OnTestStart(c) \/ EndTest(c)
          \/ OnExchangeResults(c) \/ ClientReadResults(c) \/ OnDisplayResults(c)
          \/ OnServerLeaves(c) \/ ClientSyncClose(c) \/ ClientNoData(c)
          \/ ClientInterrupted(c) \/ ClientVanishes(c))
    <3>1. ~UNCHANGED serverVars
      BY <1>2 DEF serverVars
    <3> QED
      BY <3>1 DEF OnParamExchange, OnCreateStreams, OnTestStart, EndTest,
         OnExchangeResults, ClientReadResults, OnDisplayResults, OnServerLeaves,
         ClientSyncClose, ClientNoData, ClientInterrupted, ClientVanishes
  <2> QED
    BY <2>2, <2>3 DEF ClientStep
<1>9. ~UNCHANGED vars
  BY <1>2 DEF vars, serverVars
<1> QED
  BY <1>3, <1>4, <1>5, <1>6, <1>7, <1>8, <1>9 DEF Next, ServerStep

\* Where no test sets a type of service (iperf_tcp_accept then works on the
\* socket it has just refused) and no connection is reset before its cookie is
\* read, a connection of somebody else never ends or changes a running test.
THEOREM StrangersDoNoHarm ==
  ASSUME Tos = {}, "reset" \notin Faults
  PROVE  Spec => StrangersAreHarmless
<1>1. ControlInvariant /\ [Next]_vars => [Harmless]_vars
  BY StepHarmless
<1> QED
  BY <1>1, Invariance, PTL DEF Spec, StrangersAreHarmless, Harmless

----------------------------------------------------------------------------
(* Each side of a test follows a script.  What is on its way to a client   *)
(* is the part of the server's script between what the client has read and *)
(* what the server has sent; the state of each side tells how far it has   *)
(* come.  A side that gives up leaves the script with a final message and  *)
(* reads no more of it.  From this follow the framing of both byte streams *)
(* and that client and server run the test together; the streams follow    *)
(* from the order in which the connections of a client wait in the         *)
(* listening socket.                                                       *)

\* The client process has neither ended nor begun to.
Live(c) == cpc[c] \in {"loop", "streams", "results"}

Ctrl(c) == [c |-> c, i |-> 0]

\* The server runs the test of client c.
Serving(c) == sctrl = Ctrl(c) /\ spc \in {"params", "loop", "results"}

\* The server has not taken the control connection of client c.
Unserved(c) == sEnd[c] \in {"none", "queued"}

\* The n-th message of the server to a client, and those with which it leaves
\* the test.
Says(t, n) ==
  \/ n = 1 /\ t \in {Byte("PARAM_EXCHANGE"), Byte("ACCESS_DENIED")}
  \/ n = 2 /\ t = Byte("CREATE_STREAMS")
  \/ n = 3 /\ t = Byte("TEST_START")
  \/ n = 4 /\ t = Byte("TEST_RUNNING")
  \/ n = 5 /\ t = Byte("EXCHANGE_RESULTS")
  \/ n = 6 /\ t = Json("RESULTS")
  \/ n = 7 /\ t = Byte("DISPLAY_RESULTS")

Final(t) == t.k = "error" \/ t = Byte("SERVER_TERMINATE")

\* The n-th message of the client, and those with which it leaves.
ClientSays(t, n) ==
  \/ n = 1 /\ t = Json("PARAMS")
  \/ n = 2 /\ t = Byte("TEST_END")
  \/ n = 3 /\ t = Json("RESULTS")

ClientFinal(t) == t = Byte("IPERF_DONE") \/ t = Byte("CLIENT_TERMINATE")

\* How far the server has come in its script and in that of its client.
ServerSent ==
  IF spc = "params" THEN 1
  ELSE IF spc = "results" THEN 5
  ELSE IF sstate = "CREATE_STREAMS" THEN 2
  ELSE IF sstate = "TEST_RUNNING" THEN 4 ELSE 7

ServerRead ==
  IF spc = "params" THEN 0
  ELSE IF spc = "results" THEN 2
  ELSE IF sstate = "DISPLAY_RESULTS" THEN 3 ELSE 1

\* The same for client c.
ClientRead(c) ==
  IF cpc[c] = "results" THEN 5
  ELSE IF cstate[c] = "NONE" THEN 0
  ELSE IF cstate[c] = "PARAM_EXCHANGE" THEN 1
  ELSE IF cstate[c] = "CREATE_STREAMS" THEN 2
  ELSE IF cstate[c] = "TEST_START" THEN 3
  ELSE IF cstate[c] = "EXCHANGE_RESULTS" THEN 6 ELSE 4

ClientSent(c) ==
  IF cstate[c] = "NONE" THEN 0
  ELSE IF cstate[c] = "TEST_END" THEN 2
  ELSE IF cstate[c] = "EXCHANGE_RESULTS" THEN 3 ELSE 1

----------------------------------------------------------------------------
(* The inductive invariant.                                                *)

\* The server's state while it has a control connection.
ServerPlaces ==
  /\ (spc = "loop" /\ sctrl # None) =>
       sstate \in {"CREATE_STREAMS", "TEST_RUNNING", "DISPLAY_RESULTS"}
  /\ spc = "results" => sstate = "EXCHANGE_RESULTS"
  /\ (sctrl # None /\ sctrl.i # 0) => spc \in {"params", "sync"}
  /\ \A c \in Clients : sctrl = Ctrl(c) =>
       sEnd[c] = IF spc = "sync" THEN "shut" ELSE "open"

\* The state of each client: it has all of its streams from the end of
\* CREATE_STREAMS on, and none before the server has sent CREATE_STREAMS.
ClientPlace(c) ==
  /\ cpc[c] = "init" => (sEnd[c] = "none" /\ cstate[c] = "NONE")
  /\ Live(c) => cEnd[c] = "open"
  /\ cpc[c] = "loop" => cstate[c] \in {"NONE", "PARAM_EXCHANGE", "CREATE_STREAMS",
       "TEST_START", "TEST_RUNNING", "TEST_END", "EXCHANGE_RESULTS"}
  /\ cpc[c] = "streams" => cstate[c] = "CREATE_STREAMS"
  /\ cpc[c] = "results" => cstate[c] = "EXCHANGE_RESULTS"
  /\ (cpc[c] \in {"loop", "results"} /\ cstate[c] \notin {"NONE", "PARAM_EXCHANGE"})
       => cstreams[c] = Expected(c)
  /\ (Live(c) /\ Unserved(c)) => cstate[c] = "NONE"
  /\ (Unserved(c) \/ (Serving(c) /\ spc = "params")) => cstreams[c] = 0

ClientPlaces == \A c \in Clients : ClientPlace(c)

\* What is on its way to a client that will read it.
ToClient(c) ==
  /\ Live(c) => \A j \in 1..Len(toC[c]) :
       Says(toC[c][j], ClientRead(c) + j) \/ Final(toC[c][j])
  /\ (Live(c) /\ Serving(c)) => ClientRead(c) + Len(toC[c]) = ServerSent
  /\ Unserved(c) => toC[c] = <<>>

ToClients == \A c \in Clients : ToClient(c)

\* What is on its way to the server from its client and from the clients it
\* has not met.  TEST_END is not sent before TEST_RUNNING.
FromClient(c) ==
  /\ Serving(c) => \A j \in 1..Len(toS[c]) :
       ClientSays(toS[c][j], ServerRead + j) \/ ClientFinal(toS[c][j])
  /\ (Serving(c) /\ (spc = "params" \/ sstate = "CREATE_STREAMS")) =>
       \A j \in 1..Len(toS[c]) :
         toS[c][j] = Json("PARAMS") \/ ClientFinal(toS[c][j])
  /\ (Live(c) /\ Serving(c)) => ServerRead + Len(toS[c]) = ClientSent(c)
  /\ (Live(c) /\ (Serving(c) \/ Unserved(c))) =>
       \A j \in 1..Len(toS[c]) : ~ClientFinal(toS[c][j])
  /\ Unserved(c) => \A j \in 1..Len(toS[c]) : ClientFinal(toS[c][j])
  /\ cpc[c] = "init" => toS[c] = <<>>

FromClients == \A c \in Clients : FromClient(c)

\* The server has the first streams of its client, in their order.
AcceptedStreams ==
  /\ (sctrl = None /\ spc # "exited") => sstreams = <<>>
  /\ spc = "params" => sstreams = <<>>
  /\ (spc \in {"loop", "results"} /\ sctrl # None) =>
       /\ \A j \in 1..Len(sstreams) : sstreams[j] = [c |-> sctrl.c, i |-> j]
       /\ IF sstate = "CREATE_STREAMS" THEN Len(sstreams) < Expected(sctrl.c)
          ELSE Len(sstreams) = Expected(sctrl.c)

\* The connections of a client wait in the order in which it made them.
QueuedConns ==
  /\ \A j \in 1..Len(backlog) :
       /\ backlog[j].i = 0 => sEnd[backlog[j].c] = "queued"
       /\ backlog[j].i <= cstreams[backlog[j].c]
       /\ cpc[backlog[j].c] # "init"
  /\ \A j, k \in 1..Len(backlog) :
       (j < k /\ backlog[j].c = backlog[k].c) => backlog[j].i < backlog[k].i

\* In CREATE_STREAMS those that wait are the ones that are missing.
ComingStreams ==
  (spc = "loop" /\ sstate = "CREATE_STREAMS") =>
    /\ Len(sstreams) <= cstreams[sctrl.c]
    /\ \A j \in 1..Len(backlog) :
         backlog[j].c = sctrl.c => backlog[j].i > Len(sstreams)
    /\ \A i \in Len(sstreams) + 1 .. cstreams[sctrl.c] :
         \E j \in 1..Len(backlog) : backlog[j] = [c |-> sctrl.c, i |-> i]

ProtocolInvariant ==
  /\ ServerPlaces
  /\ ClientPlaces
  /\ ToClients
  /\ FromClients
  /\ AcceptedStreams
  /\ QueuedConns
  /\ ComingStreams

----------------------------------------------------------------------------
(* Sequences, by their indices.                                            *)

LEMMA TailIndex ==
  ASSUME NEW S, NEW q \in Seq(S), q # <<>>
  PROVE  /\ Len(q) \in Nat \ {0} /\ Len(Tail(q)) = Len(q) - 1
         /\ Head(q) = q[1] /\ Tail(q) \in Seq(S)
         /\ \A j \in 1..Len(Tail(q)) : j + 1 \in 1..Len(q) /\ Tail(q)[j] = q[j + 1]
<1>1. Len(q) \in Nat /\ Len(q) # 0
  BY EmptySeq, LenProperties
<1>2. Len(Tail(q)) = Len(q) - 1 /\ Head(q) = q[1] /\ Tail(q) \in Seq(S)
  BY HeadTailProperties
<1>3. \A j \in 1..Len(q) - 1 : Tail(q)[j] = q[j + 1]
  BY HeadTailProperties
<1> QED
  BY <1>1, <1>2, <1>3

LEMMA ConcatIndex ==
  ASSUME NEW S, NEW q \in Seq(S), NEW r \in Seq(S)
  PROVE  /\ Len(q) \in Nat /\ Len(r) \in Nat /\ Len(q \o r) = Len(q) + Len(r)
         /\ \A j \in 1..Len(q) : (q \o r)[j] = q[j]
         /\ \A j \in 1..Len(r) : (q \o r)[Len(q) + j] = r[j]
         /\ \A j \in 1..Len(q \o r) : j \notin 1..Len(q) =>
              j - Len(q) \in 1..Len(r) /\ (q \o r)[j] = r[j - Len(q)]
<1>1. Len(q) \in Nat /\ Len(r) \in Nat
  BY LenProperties
<1>2. /\ Len(q \o r) = Len(q) + Len(r)
      /\ \A i \in 1..Len(q) + Len(r) :
           (q \o r)[i] = IF i <= Len(q) THEN q[i] ELSE r[i - Len(q)]
  BY ConcatProperties
<1> QED
  BY <1>1, <1>2

----------------------------------------------------------------------------
(* The beginning.                                                          *)

LEMMA InitProtocol == Init => ProtocolInvariant
<1> SUFFICES ASSUME Init PROVE ProtocolInvariant
  OBVIOUS
<1>1. /\ sctrl = None /\ sstreams = <<>> /\ backlog = <<>> /\ spc = "down"
      /\ \A c \in Clients : /\ cpc[c] = "init" /\ cstate[c] = "NONE" /\ sEnd[c] = "none"
                            /\ toC[c] = <<>> /\ toS[c] = <<>> /\ cstreams[c] = 0
  BY DEF Init
<1>2. \A c \in Clients : ~Serving(c) /\ ~Live(c) /\ sctrl # Ctrl(c)
  <2>1. \A c \in Clients : Ctrl(c) \in [c : Clients, i : Nat]
    BY DEF Ctrl
  <2> QED
    BY <1>1, <2>1, ConstantsAssumption DEF Serving, Live
<1>3. Len(backlog) = 0 /\ \A c \in Clients : Len(toC[c]) = 0 /\ Len(toS[c]) = 0
  BY <1>1
<1>4. ServerPlaces /\ AcceptedStreams
  BY <1>1, <1>2 DEF ServerPlaces, AcceptedStreams
<1>5. ClientPlaces
  BY <1>1, <1>2 DEF ClientPlaces, ClientPlace
<1>6. ToClients /\ FromClients
  BY <1>1, <1>2, <1>3 DEF ToClients, ToClient, FromClients, FromClient
<1>7. QueuedConns /\ ComingStreams
  BY <1>1, <1>3 DEF QueuedConns, ComingStreams
<1> QED
  BY <1>4, <1>5, <1>6, <1>7 DEF ProtocolInvariant

----------------------------------------------------------------------------
(* The end of a test, seen from the server.                                *)

\* No control connection is None.
LEMMA CtrlConn ==
  ASSUME NEW c \in Clients
  PROVE  Ctrl(c) \in Conns /\ Ctrl(c) # None /\ Ctrl(c).c = c /\ Ctrl(c).i = 0
BY ConstantsAssumption DEF Ctrl, Conns

LEMMA ConnIsCtrl ==
  ASSUME NEW k \in Conns
  PROVE  /\ k.c \in Clients /\ k.i \in Nat /\ k # None
         /\ k.i = 0 => k = Ctrl(k.c)
BY ConstantsAssumption DEF Ctrl, Conns

\* Taking the first connection from the backlog, or all of them, keeps the
\* order of the others.
LEMMA QueueSuffix ==
  ASSUME TypeOK, QueuedConns, UNCHANGED <<cpc, cstreams>>,
         backlog' = backlog \/ backlog' = <<>>
           \/ (backlog # <<>> /\ backlog' = Tail(backlog)),
         \A j \in 1..Len(backlog') :
           backlog'[j].i = 0 => sEnd'[backlog'[j].c] = "queued"
  PROVE  QueuedConns'
<1>1. CASE backlog' = <<>>
  <2>1. Len(backlog') = 0
    BY <1>1
  <2> QED
    BY <2>1 DEF QueuedConns
<1>2. CASE backlog' = backlog
  BY <1>2 DEF QueuedConns
<1>3. CASE backlog # <<>> /\ backlog' = Tail(backlog)
  <2>1. /\ Len(backlog) \in Nat /\ Len(backlog') = Len(backlog) - 1
        /\ \A j \in 1..Len(backlog') :
             j + 1 \in 1..Len(backlog) /\ backlog'[j] = backlog[j + 1]
    BY <1>3, TailIndex DEF TypeOK
  <2>2. \A j, k \in 1..Len(backlog') : j < k => j + 1 < k + 1
    BY <2>1
  <2> QED
    BY <2>1, <2>2 DEF QueuedConns
<1> QED
  BY <1>1, <1>2, <1>3

\* r is q with final messages, or messages of the script, behind it, for
\* client c.
Grows(c, q, r) ==
  \A j \in 1..Len(r) :
    \/ j \in 1..Len(q) /\ r[j] = q[j]
    \/ Final(r[j])
    \/ Says(r[j], ClientRead(c) + j)
    \/ Unserved(c) /\ j = 1 /\ r[j] = Byte("ACCESS_DENIED")

\* A client that is not served has read nothing.
LEMMA UnservedRead ==
  ASSUME ProtocolInvariant, NEW c \in Clients, Live(c), Unserved(c)
  PROVE  ClientRead(c) = 0 /\ toC[c] = <<>>
<1>1. cstate[c] = "NONE" /\ cpc[c] # "results" /\ toC[c] = <<>>
  BY DEF ProtocolInvariant, ClientPlaces, ClientPlace, ToClients, ToClient
<1> QED
  BY <1>1 DEF ClientRead

\* A step of the server after which it serves nobody.  What its clients can
\* still read are final messages.
LEMMA EndsServing ==
  ASSUME ControlInvariant, ProtocolInvariant, UNCHANGED clientVars,
         \/ spc' = "sync" /\ sctrl' \in Conns
         \/ spc' = "exited" /\ sctrl' = None
         \/ spc' \in {"down", "badfd"} /\ sctrl' = None /\ sstreams' = <<>>
         \/ /\ spc' = "loop" /\ sctrl' = None /\ sstreams' = <<>>
            /\ sstate' = "IPERF_START",
         \A c \in Clients : sctrl' = Ctrl(c) => sEnd'[c] = "shut",
         \A c \in Clients : Live(c) => Grows(c, toC[c], toC'[c]),
         \A c \in Clients : Unserved(c)' => /\ sEnd'[c] = sEnd[c]
                                           /\ toS'[c] = toS[c] /\ toC'[c] = toC[c],
         \A c \in Clients : sEnd[c] = "none" => sEnd'[c] = "none",
         backlog' = backlog \/ backlog' = <<>>
           \/ (backlog # <<>> /\ backlog' = Tail(backlog)),
         \A j \in 1..Len(backlog') :
           backlog'[j].i = 0 => sEnd'[backlog'[j].c] = "queued"
  PROVE  ProtocolInvariant'
<1>1. TypeOK /\ UNCHANGED <<cEnd, cpc, cstate, cstreams>>
  BY DEF ControlInvariant, clientVars
<1>2. \A c \in Clients : ~Serving(c)' /\ (Live(c)' <=> Live(c))
  BY <1>1, CtrlConn DEF Serving, Live, Ctrl
<1>3. \A c \in Clients : Unserved(c)' => Unserved(c)
  BY DEF Unserved
<1>4. ServerPlaces'
  BY ConstantsAssumption, CtrlConn DEF ServerPlaces, Ctrl
<1>5. ClientPlaces'
  BY <1>1, <1>2, <1>3 DEF ProtocolInvariant, ClientPlaces, ClientPlace, Expected
<1>6. ToClients'
  <2>1. \A c \in Clients : ClientRead(c)' = ClientRead(c)
    BY <1>1 DEF ClientRead
  <2>2. ASSUME NEW c \in Clients, Live(c), NEW j \in 1..Len(toC'[c])
        PROVE  Says(toC'[c][j], ClientRead(c) + j) \/ Final(toC'[c][j])
    <3>1. Unserved(c) => ClientRead(c) = 0
      BY <2>2, UnservedRead
    <3>2. CASE Unserved(c) /\ j = 1 /\ toC'[c][j] = Byte("ACCESS_DENIED")
      BY <3>1, <3>2 DEF Says
    <3> QED
      BY <2>2, <3>2 DEF Grows, ProtocolInvariant, ToClients, ToClient
  <2> QED
    BY <1>2, <1>3, <2>1, <2>2 DEF ProtocolInvariant, ToClients, ToClient
<1>7. FromClients'
  <2>1. \A c \in Clients : cpc'[c] = "init" => toS'[c] = <<>>
    BY <1>1 DEF ProtocolInvariant, ClientPlaces, ClientPlace, FromClients, FromClient, Unserved
  <2> QED
    BY <1>2, <1>3, <2>1 DEF ProtocolInvariant, FromClients, FromClient
<1>8. AcceptedStreams'
  BY ConnIsCtrl DEF AcceptedStreams
<1>9. QueuedConns'
  BY <1>1, QueueSuffix DEF ProtocolInvariant
<1>10. ComingStreams'
  BY DEF ComingStreams
<1> QED
  BY <1>4, <1>5, <1>6, <1>7, <1>8, <1>9, <1>10 DEF ProtocolInvariant

\* What the server writes on connection k.
LEMMA SWriteAt ==
  ASSUME NEW ch \in [Clients -> Seq(Tokens)], NEW k \in Conns,
         NEW toks \in Seq(Tokens), NEW c \in Clients
  PROVE  SWrite(ch, k, toks)[c] =
           IF k = Ctrl(c) /\ ~Gone(c) THEN ch[c] \o toks ELSE ch[c]
<1>1. k.c \in Clients /\ (k = Ctrl(c) <=> (k.i = 0 /\ k.c = c))
  BY ConnIsCtrl, CtrlConn
<1> QED
  BY <1>1 DEF SWrite

LEMMA TellAt ==
  ASSUME NEW ch \in [Clients -> Seq(Tokens)], NEW k \in Conns, NEW e, NEW o,
         NEW c \in Clients
  PROVE  \/ TellClient(ch, k, e, o)[c] = ch[c]
         \/ k = Ctrl(c) /\ TellClient(ch, k, e, o)[c] = ch[c] \o <<Err(e, o)>>
<1>1. k.c \in Clients /\ (k = Ctrl(c) <=> (k.i = 0 /\ k.c = c))
  BY ConnIsCtrl, CtrlConn
<1> QED
  BY <1>1 DEF TellClient, SWrite

LEMMA SetEndAt ==
  ASSUME NEW ends \in [Clients -> Ends], NEW k \in Conns, NEW e \in Ends, NEW c \in Clients
  PROVE  /\ SetEnd(ends, k, e)[c] = IF k = Ctrl(c) THEN e ELSE ends[c]
         /\ SetEnd(ends, k, e) \in [Clients -> Ends]
<1>1. k.c \in Clients /\ (k = Ctrl(c) <=> (k.i = 0 /\ k.c = c))
  BY ConnIsCtrl, CtrlConn
<1> QED
  BY <1>1 DEF SetEnd

LEMMA GrowsFinal ==
  ASSUME NEW c \in Clients, NEW q \in Seq(Tokens), NEW r \in Seq(Tokens), Grows(c, q, r),
         NEW t \in Tokens, Final(t)
  PROVE  Grows(c, q, r \o <<t>>)
<1>1. <<t>> \in Seq(Tokens) /\ Len(<<t>>) = 1 /\ <<t>>[1] = t
  OBVIOUS
<1>2. /\ Len(r) \in Nat /\ Len(r \o <<t>>) = Len(r) + 1
      /\ \A j \in 1..Len(r) : (r \o <<t>>)[j] = r[j]
      /\ (r \o <<t>>)[Len(r) + 1] = t
  BY <1>1, ConcatIndex
<1> QED
  BY <1>2 DEF Grows

LEMMA GrowsSame == \A c, q : Grows(c, q, q)
BY DEF Grows

\* What cleanup_server tells a client is final.
LEMMA TellGrows ==
  ASSUME NEW ch \in [Clients -> Seq(Tokens)], NEW k \in Conns,
         NEW e \in Errors, NEW o \in Clients \cup {None},
         NEW c \in Clients, NEW q \in Seq(Tokens), Grows(c, q, ch[c])
  PROVE  /\ Grows(c, q, TellClient(ch, k, e, o)[c])
         /\ k # Ctrl(c) => TellClient(ch, k, e, o)[c] = ch[c]
<1>1. Err(e, o) \in Tokens /\ Final(Err(e, o))
  BY TokenTypes DEF Final, Err
<1>2. ch[c] \in Seq(Tokens)
  OBVIOUS
<1>3. Grows(c, q, ch[c] \o <<Err(e, o)>>)
  BY <1>1, <1>2, GrowsFinal, Zenon
<1>4. \/ TellClient(ch, k, e, o)[c] = ch[c]
      \/ k = Ctrl(c) /\ TellClient(ch, k, e, o)[c] = ch[c] \o <<Err(e, o)>>
  BY TellAt
<1> QED
  BY <1>3, <1>4, Zenon

\* The server ends the test on the connection that is in ctrl_sck: its end of
\* that is shut, and ends are the ends of the other control connections.
LEMMA CleanupEnds ==
  ASSUME ControlInvariant, ProtocolInvariant, UNCHANGED clientVars,
         sctrl' \in Conns, NEW ends \in [Clients -> Ends],
         spc' = "sync", sEnd' = SetEnd(ends, sctrl', "shut"),
         \A c \in Clients : Live(c) => Grows(c, toC[c], toC'[c]),
         \A c \in Clients : (ends[c] \in {"none", "queued"} /\ sctrl' # Ctrl(c)) =>
           ends[c] = sEnd[c] /\ toC'[c] = toC[c] /\ toS'[c] = toS[c],
         \A c \in Clients : sEnd[c] = "none" => ends[c] = "none" /\ sctrl' # Ctrl(c),
         backlog' \in Seq(Conns),
         backlog' = backlog \/ backlog' = <<>>
           \/ (backlog # <<>> /\ backlog' = Tail(backlog)),
         \A j \in 1..Len(backlog') :
           backlog'[j].i = 0 => ends[backlog'[j].c] = "queued" /\ backlog'[j] # sctrl'
  PROVE  ProtocolInvariant'
<1>1. "shut" \in Ends
  BY DEF Ends
<1>2. \A c \in Clients : sEnd'[c] = IF sctrl' = Ctrl(c) THEN "shut" ELSE ends[c]
  BY <1>1, SetEndAt
<1>3. \A c \in Clients : sctrl' = Ctrl(c) => sEnd'[c] = "shut"
  BY <1>2
<1>4. ASSUME NEW c \in Clients, Unserved(c)'
      PROVE  sEnd'[c] = sEnd[c] /\ toS'[c] = toS[c] /\ toC'[c] = toC[c]
  <2>1. sctrl' # Ctrl(c) /\ ends[c] \in {"none", "queued"}
    BY <1>2, <1>4 DEF Unserved
  <2> QED
    BY <1>2, <2>1
<1>5. \A c \in Clients : sEnd[c] = "none" => sEnd'[c] = "none"
  BY <1>2
<1>6. ASSUME NEW j \in 1..Len(backlog'), backlog'[j].i = 0
      PROVE  sEnd'[backlog'[j].c] = "queued"
  <2>1. backlog'[j] \in Conns
    BY <1>6, ElementOfSeq
  <2>2. backlog'[j] = Ctrl(backlog'[j].c) /\ backlog'[j].c \in Clients
    BY <1>6, <2>1, ConnIsCtrl
  <2> QED
    BY <1>2, <1>6, <2>2
<1> QED
  BY <1>3, <1>4, <1>5, <1>6, EndsServing

\* What is left of the backlog was in it.
LEMMA BacklogRest ==
  ASSUME TypeOK, QueuedConns,
         backlog' = backlog \/ backlog' = <<>>
           \/ (backlog # <<>> /\ backlog' = Tail(backlog))
  PROVE  /\ backlog' \in Seq(Conns)
         /\ \A j \in 1..Len(backlog') :
              /\ backlog'[j] \in Conns
              /\ backlog'[j].i = 0 => sEnd[backlog'[j].c] = "queued"
         /\ (backlog # <<>> /\ backlog' = Tail(backlog)) =>
              \A j \in 1..Len(backlog') : backlog'[j] # Head(backlog)
<1>1. backlog \in Seq(Conns) /\ Len(backlog) \in Nat
  BY LenProperties DEF TypeOK
<1>2. CASE backlog' = <<>>
  <2>1. backlog' \in Seq(Conns) /\ Len(backlog') = 0
    BY <1>2
  <2> QED
    BY <2>1
<1>3. CASE backlog' = backlog /\ backlog' # Tail(backlog)
  <2>1. \A j \in 1..Len(backlog) : backlog[j] \in Conns
    BY <1>1, ElementOfSeq
  <2> QED
    BY <1>1, <1>3, <2>1 DEF QueuedConns
<1>4. CASE backlog # <<>> /\ backlog' = Tail(backlog)
  <2>1. /\ Len(backlog) \in Nat \ {0} /\ Len(backlog') = Len(backlog) - 1
        /\ Head(backlog) = backlog[1] /\ backlog' \in Seq(Conns)
        /\ \A j \in 1..Len(backlog') :
             j + 1 \in 1..Len(backlog) /\ backlog'[j] = backlog[j + 1]
    BY <1>1, <1>4, TailIndex
  <2>2. \A j \in 1..Len(backlog') : backlog'[j] \in Conns
    BY <2>1, ElementOfSeq
  <2>3. ASSUME NEW j \in 1..Len(backlog')
        PROVE  backlog'[j] # Head(backlog)
    <3>1. j + 1 \in 1..Len(backlog) /\ 1 \in 1..Len(backlog) /\ 1 < j + 1
      BY <2>1
    <3>2. backlog[j + 1] \in Conns /\ backlog[1] \in Conns
      BY <1>1, <3>1, ElementOfSeq
    <3>3. backlog[j + 1].i \in Nat /\ backlog[1].i \in Nat
      BY <3>2 DEF Conns
    <3>4. backlog[j + 1].c = backlog[1].c => backlog[1].i < backlog[j + 1].i
      BY <3>1 DEF QueuedConns
    <3> QED
      BY <2>1, <3>3, <3>4
  <2> QED
    BY <1>4, <2>1, <2>2, <2>3 DEF QueuedConns
<1> QED
  BY <1>2, <1>3, <1>4

\* The server ends the test it runs.
LEMMA TestEnds ==
  ASSUME ControlInvariant, ProtocolInvariant, UNCHANGED clientVars, sctrl \in Conns,
         NEW ends \in [Clients -> Ends],
         spc' = "sync", sctrl' = sctrl,
         sEnd' = SetEnd(ends, sctrl, "shut"),
         \A c \in Clients : Live(c) => Grows(c, toC[c], toC'[c]),
         \A c \in Clients : sctrl # Ctrl(c) => toS'[c] = toS[c],
         \A c \in Clients : ends[c] \in {"none", "queued"} =>
           ends[c] = sEnd[c] /\ toC'[c] = toC[c],
         \A c \in Clients : sEnd[c] = "none" => ends[c] = "none",
         backlog' = backlog \/ backlog' = <<>>
           \/ (backlog # <<>> /\ backlog' = Tail(backlog)),
         \A j \in 1..Len(backlog') : backlog'[j].i = 0 => ends[backlog'[j].c] = "queued"
  PROVE  ProtocolInvariant'
<1>1. TypeOK /\ QueuedConns
  BY DEF ControlInvariant, ProtocolInvariant
<1>2. \A c \in Clients : sctrl = Ctrl(c) => sEnd[c] \in {"open", "shut"}
  BY DEF ProtocolInvariant, ServerPlaces
<1>3. /\ backlog' \in Seq(Conns)
      /\ \A j \in 1..Len(backlog') :
           /\ backlog'[j] \in Conns
           /\ backlog'[j].i = 0 => sEnd[backlog'[j].c] = "queued"
  BY <1>1, BacklogRest
<1>4. ASSUME NEW j \in 1..Len(backlog'), backlog'[j].i = 0, backlog'[j] = sctrl
      PROVE  FALSE
  <2>1. sctrl = Ctrl(sctrl.c) /\ sctrl.c \in Clients
    BY <1>4, ConnIsCtrl
  <2>2. sEnd[sctrl.c] = "queued"
    BY <1>3, <1>4
  <2> QED
    BY <1>2, <2>1, <2>2
<1>5. \A c \in Clients : (ends[c] \in {"none", "queued"} /\ sctrl' # Ctrl(c)) =>
        ends[c] = sEnd[c] /\ toC'[c] = toC[c] /\ toS'[c] = toS[c]
  OBVIOUS
<1>6. \A c \in Clients : sEnd[c] = "none" => ends[c] = "none" /\ sctrl' # Ctrl(c)
  BY <1>2
<1>7. \A j \in 1..Len(backlog') :
        backlog'[j].i = 0 => ends[backlog'[j].c] = "queued" /\ backlog'[j] # sctrl'
  BY <1>4
<1>8. backlog' \in Seq(Conns)
  BY <1>3
<1> QED
  BY <1>5, <1>6, <1>7, <1>8, CleanupEnds

\* A handler of the test that the server runs fails.
LEMMA HandlerFails ==
  ASSUME ControlInvariant, ProtocolInvariant, UNCHANGED clientVars, sctrl \in Conns,
         NEW e \in Errors, NEW o \in Clients \cup {None},
         spc' = "sync", sctrl' = sctrl, toC' = TellClient(toC, sctrl, e, o),
         sEnd' = SetEnd(sEnd, sctrl, "shut"),
         UNCHANGED toS \/ (sctrl.i = 0 /\ Consume),
         backlog' = backlog \/ (backlog # <<>> /\ backlog' = Tail(backlog))
  PROVE  ProtocolInvariant'
<1>1. TypeOK /\ QueuedConns
  BY DEF ControlInvariant, ProtocolInvariant
<1>2. toC \in [Clients -> Seq(Tokens)] /\ sEnd \in [Clients -> Ends]
  BY <1>1 DEF TypeOK, Ends
<1>3. \A j \in 1..Len(backlog') : backlog'[j].i = 0 => sEnd[backlog'[j].c] = "queued"
  BY <1>1, BacklogRest
<1>4. \A c \in Clients : sctrl # Ctrl(c) => toS'[c] = toS[c]
  BY <1>1, ConnIsCtrl DEF Consume, TypeOK
<1>5. \A c \in Clients : Grows(c, toC[c], toC'[c]) /\ (sctrl # Ctrl(c) => toC'[c] = toC[c])
  BY <1>2, GrowsSame, TellGrows
<1>6. \A c \in Clients : sctrl = Ctrl(c) => sEnd[c] \in {"open", "shut"}
  BY DEF ProtocolInvariant, ServerPlaces
<1>7. \A c \in Clients : sEnd[c] \in {"none", "queued"} => toC'[c] = toC[c]
  BY <1>5, <1>6
<1> QED
  BY <1>2, <1>3, <1>4, <1>5, <1>7, TestEnds

LEMMA FailProtocol ==
  ASSUME ControlInvariant, ProtocolInvariant, UNCHANGED clientVars, sctrl \in Conns,
         NEW f \in Errors, Fail(sctrl, f),
         UNCHANGED toS \/ (sctrl.i = 0 /\ Consume),
         backlog' = backlog \/ (backlog # <<>> /\ backlog' = Tail(backlog))
  PROVE  ProtocolInvariant'
<1>1. sctrl.c \in Clients \cup {None}
  BY ConnIsCtrl
<1>2. PICK e \in Errors : FailWith(sctrl, e)
  BY FailIsAnError
<1> QED
  BY <1>1, <1>2, HandlerFails DEF FailWith, CleanupServer

LEMMA FailLateProtocol ==
  ASSUME ControlInvariant, ProtocolInvariant, UNCHANGED <<clientVars, toS>>,
         sctrl \in Conns, NEW e \in Errors, FailLate(e),
         backlog' = backlog \/ (backlog # <<>> /\ backlog' = Tail(backlog))
  PROVE  ProtocolInvariant'
<1>1. i_errno \in Errors /\ errOwner \in Clients \cup {None}
  BY HandlerFacts
<1> QED
  BY <1>1, HandlerFails DEF FailLate

\* The listener is lost: whoever waited in it is reset.
LEMMA LosesListenerProtocol ==
  ASSUME ControlInvariant, ProtocolInvariant, UNCHANGED clientVars, sctrl \in Conns,
         NEW sent \in Errors, NEW o \in Clients \cup {None}, NEW e,
         LosesListener(sent, o, e), UNCHANGED toS \/ (sctrl.i = 0 /\ Consume)
  PROVE  ProtocolInvariant'
<1> DEFINE ends == ResetQueued(sEnd)
<1>1. toC \in [Clients -> Seq(Tokens)] /\ ends \in [Clients -> Ends] /\ TypeOK
  BY EndTypes, HandlerFacts DEF ControlInvariant, TypeOK, Ends, ResetQueued
<1>2. /\ spc' = "sync" /\ sctrl' = sctrl /\ toC' = TellClient(toC, sctrl, sent, o)
      /\ sEnd' = SetEnd(ends, sctrl, "shut") /\ backlog' = <<>>
  BY DEF LosesListener
<1>3. \A c \in Clients : Grows(c, toC[c], toC'[c]) /\ (sctrl # Ctrl(c) => toC'[c] = toC[c])
  BY <1>1, <1>2, GrowsSame, TellGrows
<1>4. \A c \in Clients : sctrl = Ctrl(c) => sEnd[c] \in {"open", "shut"}
  BY DEF ProtocolInvariant, ServerPlaces
<1>5. \A c \in Clients : ends[c] = IF sEnd[c] = "queued" THEN "closed" ELSE sEnd[c]
  BY DEF ResetQueued
<1>6. \A c \in Clients : ends[c] \in {"none", "queued"} =>
        ends[c] = sEnd[c] /\ toC'[c] = toC[c]
  BY <1>3, <1>4, <1>5
<1>7. \A c \in Clients : sctrl # Ctrl(c) => toS'[c] = toS[c]
  BY <1>1, ConnIsCtrl DEF Consume, TypeOK
<1>8. \A c \in Clients : sEnd[c] = "none" => ends[c] = "none"
  BY <1>5
<1>9. Len(backlog') = 0
  BY <1>2
<1> HIDE DEF ends
<1> QED
  BY <1>1, <1>2, <1>3, <1>6, <1>7, <1>8, <1>9, TestEnds

\* iperf_reset_test after a test, or without one.
LEMMA ShutdownProtocol ==
  ASSUME ControlInvariant, ProtocolInvariant, UNCHANGED <<clientVars, toS, toC>>,
         NEW ends \in [Clients -> Ends], Shutdown(ends),
         \A c \in Clients : ends[c] = sEnd[c] \/ (sEnd[c] # "none" /\ ends[c] = "closed")
  PROVE  ProtocolInvariant'
<1>1. /\ spc' \in {"down", "exited"} /\ sctrl' = None /\ sstreams' = <<>>
      /\ backlog' = <<>> /\ Len(backlog') = 0 /\ sEnd' = ResetQueued(ends)
  BY DEF Shutdown
<1>2. \A c \in Clients : sEnd'[c] = IF ends[c] = "queued" THEN "closed" ELSE ends[c]
  BY <1>1 DEF ResetQueued
<1>3. \A c \in Clients : sctrl' # Ctrl(c)
  BY <1>1, CtrlConn
<1> QED
  BY <1>1, <1>2, <1>3, GrowsSame, EndsServing DEF Unserved

\* The steps that end a test with a message or a timeout.
LEMMA EndOfTestProtocol ==
  ASSUME ControlInvariant, ProtocolInvariant,
         \/ ReadParamsFails \/ ReadResultsFails \/ OnClientLeaves \/ NoDataTimeout
  PROVE  ProtocolInvariant'
<1>1. sctrl \in Conns
  BY InTest DEF ReadParamsFails, ReadResultsFails, OnClientLeaves, NoDataTimeout
<1>2. UNCHANGED <<clientVars, backlog>>
  BY DEF ReadParamsFails, ReadResultsFails, OnClientLeaves, NoDataTimeout
<1>3. {"IERECVPARAMS", "IERECVRESULTS", "IECLIENTTERM", "IECTRLCLOSE", "IENOMSG"} \subseteq Errors
  BY DEF Errors
<1>4. CASE ReadParamsFails
  BY <1>1, <1>2, <1>3, <1>4, FailProtocol DEF ReadParamsFails
<1>5. CASE ReadResultsFails
  BY <1>1, <1>2, <1>3, <1>5, FailProtocol DEF ReadResultsFails
<1>6. CASE NoDataTimeout
  BY <1>1, <1>2, <1>3, <1>6, FailProtocol DEF NoDataTimeout
<1>7. CASE OnClientLeaves
  <2>1. CASE /\ NextIs(Byte("IPERF_DONE")) /\ Consume
             /\ CleanupServer(sctrl, toC, i_errno, errOwner)
             /\ sEnd' = SetEnd(sEnd, sctrl, "shut")
    BY <1>1, <1>2, <2>1, HandlerFacts, HandlerFails DEF NextIs, CleanupServer
  <2>2. CASE NextIs(Byte("CLIENT_TERMINATE")) /\ Consume /\ Fail(sctrl, "IECLIENTTERM")
    BY <1>1, <1>2, <1>3, <2>2, FailProtocol DEF NextIs
  <2>3. CASE Fail(sctrl, "IECTRLCLOSE") /\ UNCHANGED toS
    BY <1>1, <1>2, <1>3, <2>3, FailProtocol
  <2> QED
    BY <1>7, <2>1, <2>2, <2>3 DEF OnClientLeaves
<1> QED
  BY <1>4, <1>5, <1>6, <1>7

LEMMA SyncCloseProtocol == ControlInvariant /\ ProtocolInvariant /\ SyncClose => ProtocolInvariant'
<1> SUFFICES ASSUME ControlInvariant, ProtocolInvariant, SyncClose
             PROVE  ProtocolInvariant'
  OBVIOUS
<1>1. sctrl \in Conns /\ spc = "sync" /\ UNCHANGED <<clientVars, toC>>
  BY InTest DEF SyncClose
<1>2. TypeOK /\ sEnd \in [Clients -> Ends]
  BY HandlerFacts DEF ControlInvariant
<1>3. \A c \in Clients : sctrl = Ctrl(c) => sEnd[c] = "shut"
  BY <1>1 DEF ProtocolInvariant, ServerPlaces
<1>4. CASE /\ sctrl.i = 0 /\ Consume
           /\ UNCHANGED <<spc, sctrl, sstate, sstreams, sdone, stimer, listener,
                          backlog, sEnd>>
  <2>1. \A c \in Clients : sctrl # Ctrl(c) => toS'[c] = toS[c]
    BY <1>1, <1>2, <1>4, ConnIsCtrl DEF Consume, TypeOK
  <2>2. \A c \in Clients : Unserved(c)' => sctrl # Ctrl(c)
    BY <1>3, <1>4 DEF Unserved
  <2>3. \A j \in 1..Len(backlog') : backlog'[j].i = 0 => sEnd'[backlog'[j].c] = "queued"
    BY <1>4 DEF ProtocolInvariant, QueuedConns
  <2> QED
    BY <1>1, <1>3, <1>4, <2>1, <2>2, <2>3, GrowsSame, EndsServing
<1>5. CASE Shutdown(SetEnd(sEnd, sctrl, "closed")) /\ UNCHANGED toS
  <2>1. "closed" \in Ends
    BY DEF Ends
  <2>2. \A c \in Clients : SetEnd(sEnd, sctrl, "closed")[c] =
          IF sctrl = Ctrl(c) THEN "closed" ELSE sEnd[c]
    BY <1>1, <1>2, <2>1, SetEndAt
  <2>3. SetEnd(sEnd, sctrl, "closed") \in [Clients -> Ends]
    BY <1>1, <1>2, <2>1, EndTypes DEF Ends
  <2>4. \A c \in Clients : \/ SetEnd(sEnd, sctrl, "closed")[c] = sEnd[c]
                           \/ sEnd[c] # "none" /\ SetEnd(sEnd, sctrl, "closed")[c] = "closed"
    BY <1>3, <2>2
  <2> QED
    BY <1>1, <1>5, <2>3, <2>4, ShutdownProtocol
<1> QED
  BY <1>4, <1>5 DEF SyncClose

\* A final message on connection k.
LEMMA WriteGrows ==
  ASSUME NEW ch \in [Clients -> Seq(Tokens)], NEW k \in Conns,
         NEW t \in Tokens, Final(t),
         NEW c \in Clients, NEW q \in Seq(Tokens), Grows(c, q, ch[c])
  PROVE  /\ Grows(c, q, SWrite(ch, k, <<t>>)[c])
         /\ k # Ctrl(c) => SWrite(ch, k, <<t>>)[c] = ch[c]
<1>1. ch[c] \in Seq(Tokens) /\ <<t>> \in Seq(Tokens)
  OBVIOUS
<1>2. Grows(c, q, ch[c] \o <<t>>)
  BY <1>1, GrowsFinal, Zenon
<1>3. SWrite(ch, k, <<t>>)[c] =
        IF k = Ctrl(c) /\ ~Gone(c) THEN ch[c] \o <<t>> ELSE ch[c]
  BY <1>1, SWriteAt
<1> QED
  BY <1>2, <1>3, Zenon

LEMMA ProtocolUnchanged ==
  ASSUME ProtocolInvariant,
         UNCHANGED <<spc, sstate, sctrl, sstreams, backlog, toS, toC, sEnd,
                     cEnd, cpc, cstate, cstreams>>
  PROVE  ProtocolInvariant'
<1>1. ServerPlaces' /\ AcceptedStreams' /\ QueuedConns' /\ ComingStreams'
  BY DEF ProtocolInvariant, ServerPlaces, AcceptedStreams, QueuedConns, ComingStreams, Expected
<1>2. \A c \in Clients : /\ Live(c)' = Live(c) /\ Serving(c)' = Serving(c)
                         /\ Unserved(c)' = Unserved(c)
                         /\ ClientRead(c)' = ClientRead(c) /\ ClientSent(c)' = ClientSent(c)
  BY DEF Live, Serving, Unserved, ClientRead, ClientSent
<1>3. ServerSent' = ServerSent /\ ServerRead' = ServerRead
  BY DEF ServerSent, ServerRead
<1>4. ClientPlaces'
  BY <1>2 DEF ProtocolInvariant, ClientPlaces, ClientPlace, Expected
<1>5. ToClients' /\ FromClients'
  BY <1>2, <1>3 DEF ProtocolInvariant, ToClients, ToClient, FromClients, FromClient
<1> QED
  BY <1>1, <1>4, <1>5 DEF ProtocolInvariant

\* Between two tests.
LEMMA IdleProtocol ==
  ASSUME ControlInvariant, ProtocolInvariant,
         \/ Listen \/ ListenFails \/ IdleTimeout \/ SelectFails
         \/ SelectBreaks /\ sctrl = None
  PROVE  ProtocolInvariant'
<1>1. UNCHANGED <<clientVars, toS, toC>>
  BY DEF Listen, ListenFails, IdleTimeout, SelectFails, SelectBreaks
<1>2. CASE IdleTimeout \/ SelectFails \/ (SelectBreaks /\ sctrl = None)
  <2>1. Shutdown(sEnd)
    BY <1>2 DEF IdleTimeout, SelectFails, SelectBreaks
  <2> QED
    BY <1>1, <2>1, HandlerFacts, ShutdownProtocol
<1>3. CASE Listen \/ ListenFails
  <2>1. sctrl = None /\ sstreams = <<>>
    BY <1>3 DEF ControlInvariant, SocketAndPc, ProtocolInvariant, AcceptedStreams,
                Listen, ListenFails
  <2>2. /\ UNCHANGED <<sctrl, sstreams, backlog, sEnd>>
        /\ spc' = "exited" \/ (spc' = "loop" /\ sstate' = "IPERF_START")
    BY <1>3 DEF Listen, ListenFails
  <2>3. \A j \in 1..Len(backlog') : backlog'[j].i = 0 => sEnd'[backlog'[j].c] = "queued"
    BY <2>2 DEF ProtocolInvariant, QueuedConns
  <2>4. \A c \in Clients : sctrl' # Ctrl(c)
    BY <2>1, <2>2, CtrlConn
  <2> QED
    BY <1>1, <2>1, <2>2, <2>3, <2>4, GrowsSame, EndsServing
<1> QED
  BY <1>2, <1>3

\* select() breaks in a test, and a worker fails.
LEMMA FaultsProtocol ==
  ASSUME ControlInvariant, ProtocolInvariant, SelectBreaks \/ StreamFails
  PROVE  ProtocolInvariant'
<1>1. CASE StreamFails
  BY <1>1, ProtocolUnchanged DEF StreamFails, clientVars
<1>2. CASE SelectBreaks /\ sctrl = None
  BY <1>2, IdleProtocol
<1>3. CASE SelectBreaks /\ sctrl # None
  <2>1. sctrl \in Conns
    BY <1>3, InTest DEF SelectBreaks
  <2>2. FailLate("IESELECT") /\ UNCHANGED <<backlog, toS, clientVars>>
    BY <1>3 DEF SelectBreaks
  <2>3. "IESELECT" \in Errors
    BY DEF Errors
  <2> QED
    BY <2>1, <2>2, <2>3, FailLateProtocol
<1> QED
  BY <1>1, <1>2, <1>3

LEMMA ServerTimerProtocol ==
  ASSUME ControlInvariant, ProtocolInvariant, ServerTimer
  PROVE  ProtocolInvariant'
<1>1. sctrl \in Conns /\ UNCHANGED <<backlog, toS, clientVars>>
  BY InTest DEF ServerTimer
<1>2. CASE UNCHANGED <<spc, sstate, sctrl, sstreams, toC, sEnd>>
  BY <1>1, <1>2, ProtocolUnchanged DEF clientVars
<1>3. CASE /\ \/ toC' = SWrite(toC, sctrl, <<Err(i_errno', sctrl.c)>>)
              \/ toC' = toC
           /\ sstreams' = <<>> /\ sEnd' = SetEnd(sEnd, sctrl, "closed")
           /\ sctrl' = None /\ spc' = "badfd"
  <2> DEFINE t == Err(i_errno', sctrl.c)
  <2>1. t \in Tokens /\ Final(t)
    <3>1. i_errno' \in Errors
      BY ServerTimerInvariant, HandlerFacts DEF ControlInvariant, TypeOK
    <3> QED
      BY <1>1, <3>1, ConnIsCtrl, TokenTypes DEF Final, Err
  <2>2. \A c \in Clients : toC[c] \in Seq(Tokens)
    BY HandlerFacts
  <2> HIDE DEF t
  <2>3. \A c \in Clients : Grows(c, toC[c], toC'[c]) /\ (sctrl # Ctrl(c) => toC'[c] = toC[c])
    <3>1. CASE toC' = toC
      BY <3>1, GrowsSame
    <3>2. CASE toC' = SWrite(toC, sctrl, <<t>>)
      BY <1>1, <2>1, <2>2, <3>2, GrowsSame, WriteGrows, HandlerFacts
    <3> QED
      BY <1>3, <3>1, <3>2 DEF t
  <2>4. "closed" \in Ends
    BY DEF Ends
  <2>5. \A c \in Clients : sEnd'[c] = IF sctrl = Ctrl(c) THEN "closed" ELSE sEnd[c]
    <3>1. sEnd \in [Clients -> Ends]
      BY HandlerFacts
    <3> QED
      BY <1>1, <1>3, <2>4, <3>1, SetEndAt
  <2>6. \A c \in Clients : sctrl = Ctrl(c) => sEnd[c] \in {"open", "shut"}
    BY DEF ProtocolInvariant, ServerPlaces
  <2>7. ASSUME NEW j \in 1..Len(backlog'), backlog'[j].i = 0
        PROVE  sEnd'[backlog'[j].c] = "queued"
    <3>1. backlog[j] \in Conns /\ sEnd[backlog[j].c] = "queued"
      BY <1>1, <2>7, HandlerFacts, ElementOfSeq DEF ProtocolInvariant, QueuedConns
    <3> QED
      BY <1>1, <2>5, <2>6, <3>1, ConnIsCtrl
  <2>8. \A c \in Clients : sctrl' # Ctrl(c)
    BY <1>3, CtrlConn
  <2>9. \A c \in Clients : Unserved(c)' => sEnd'[c] = sEnd[c] /\ sctrl # Ctrl(c)
    BY <2>5 DEF Unserved
  <2> QED
    BY <1>1, <1>3, <2>3, <2>5, <2>6, <2>7, <2>8, <2>9, EndsServing
<1> QED
  BY <1>2, <1>3 DEF ServerTimer

LEMMA BitrateProtocol ==
  ASSUME ControlInvariant, ProtocolInvariant, BitrateExceeded
  PROVE  ProtocolInvariant'
<1>1. sctrl \in Conns /\ UNCHANGED <<backlog, toS, clientVars>>
  BY InTest DEF BitrateExceeded
<1>2. PICK e \in Errors, x \in Errors :
        CleanupServer(sctrl, SWrite(toC, sctrl, <<Err(e, sctrl.c)>>), x, sctrl.c)
  BY BitrateErrors
<1> DEFINE t == Err(e, sctrl.c)
           ch == SWrite(toC, sctrl, <<t>>)
<1>3. t \in Tokens /\ Final(t) /\ sctrl.c \in Clients \cup {None}
  BY <1>1, ConnIsCtrl, TokenTypes DEF Final, Err
<1>4. /\ spc' = "sync" /\ sctrl' = sctrl /\ toC' = TellClient(ch, sctrl, x, sctrl.c)
      /\ sEnd' = SetEnd(sEnd, sctrl, "shut")
  BY <1>2 DEF CleanupServer, BitrateExceeded
<1> HIDE DEF t
<1>5. \A c \in Clients : Grows(c, toC[c], ch[c]) /\ (sctrl # Ctrl(c) => ch[c] = toC[c])
  BY <1>1, <1>3, GrowsSame, WriteGrows, HandlerFacts
<1>6. ch \in [Clients -> Seq(Tokens)]
  <2>1. <<t>> \in Seq(Tokens)
    BY <1>3
  <2> QED
    BY <1>1, <2>1, SWriteType, HandlerFacts
<1> HIDE DEF ch
<1>7. \A c \in Clients : Grows(c, toC[c], toC'[c]) /\ (sctrl # Ctrl(c) => toC'[c] = toC[c])
  BY <1>1, <1>3, <1>4, <1>5, <1>6, TellGrows, HandlerFacts
<1>8. \A c \in Clients : sctrl = Ctrl(c) => sEnd[c] \in {"open", "shut"}
  BY DEF ProtocolInvariant, ServerPlaces
<1>9. \A c \in Clients : sEnd[c] \in {"none", "queued"} => toC'[c] = toC[c]
  BY <1>7, <1>8
<1>10. \A j \in 1..Len(backlog') : backlog'[j].i = 0 => sEnd[backlog'[j].c] = "queued"
  BY <1>1 DEF ProtocolInvariant, QueuedConns
<1>11. sEnd \in [Clients -> Ends]
  BY HandlerFacts
<1> QED
  BY <1>1, <1>4, <1>7, <1>9, <1>10, <1>11, TestEnds

LEMMA ServerInterruptedProtocol ==
  ASSUME ControlInvariant, ProtocolInvariant, ServerInterrupted
  PROVE  ProtocolInvariant'
<1>1. /\ UNCHANGED <<toS, clientVars>> /\ spc' = "exited" /\ sctrl' = None
      /\ backlog' = <<>> /\ Len(backlog') = 0
      /\ \A c \in Clients : sEnd'[c] = IF sEnd[c] = "none" THEN "none" ELSE "closed"
  BY DEF ServerInterrupted
<1> DEFINE t == Byte("SERVER_TERMINATE")
<1>2. t \in Tokens /\ Final(t)
  BY TokenTypes DEF States, Final
<1> HIDE DEF t
<1>3. \A c \in Clients : Grows(c, toC[c], toC'[c]) /\ (sctrl # Ctrl(c) => toC'[c] = toC[c])
  <2>1. CASE toC' = toC
    BY <2>1, GrowsSame
  <2>2. CASE sctrl # None /\ toC' = SWrite(toC, sctrl, <<t>>)
    <3>1. sctrl \in Conns
      BY <2>2 DEF ControlInvariant, TypeOK
    <3> QED
      BY <1>2, <2>2, <3>1, GrowsSame, WriteGrows, HandlerFacts
  <2> QED
    BY <2>1, <2>2 DEF ServerInterrupted, t
<1>4. \A c \in Clients : sctrl = Ctrl(c) => sEnd[c] \in {"open", "shut"}
  BY DEF ProtocolInvariant, ServerPlaces
<1>5. \A c \in Clients : sctrl' # Ctrl(c)
  BY <1>1, CtrlConn
<1>6. \A c \in Clients : Unserved(c)' => sEnd[c] = "none" /\ sEnd'[c] = "none"
  BY <1>1 DEF Unserved
<1> QED
  BY <1>1, <1>3, <1>4, <1>5, <1>6, EndsServing

----------------------------------------------------------------------------
(* A test goes on.                                                         *)

\* A client whose test the server does not run, when at most final messages
\* are written to it.
LEMMA Bystander ==
  ASSUME ProtocolInvariant, NEW c \in Clients,
         UNCHANGED <<cEnd[c], cpc[c], cstate[c], cstreams[c]>>,
         ~Serving(c)', Live(c) => Grows(c, toC[c], toC'[c]),
         Unserved(c)' => sEnd'[c] = sEnd[c] /\ toS'[c] = toS[c] /\ toC'[c] = toC[c],
         sEnd[c] = "none" => sEnd'[c] = "none"
  PROVE  ClientPlace(c)' /\ ToClient(c)' /\ FromClient(c)'
<1>1. ClientPlace(c) /\ ToClient(c) /\ FromClient(c)
  BY DEF ProtocolInvariant, ClientPlaces, ToClients, FromClients
<1>2. (Live(c)' <=> Live(c)) /\ (Unserved(c)' => Unserved(c))
  BY DEF Live, Unserved
<1>3. ClientPlace(c)'
  BY <1>1, <1>2 DEF ClientPlace, Expected
<1>4. ToClient(c)'
  <2>1. ClientRead(c)' = ClientRead(c)
    BY DEF ClientRead
  <2>2. ASSUME Live(c), NEW j \in 1..Len(toC'[c])
        PROVE  Says(toC'[c][j], ClientRead(c) + j) \/ Final(toC'[c][j])
    <3>1. Unserved(c) => ClientRead(c) = 0
      BY <2>2, UnservedRead
    <3>2. CASE Unserved(c) /\ j = 1 /\ toC'[c][j] = Byte("ACCESS_DENIED")
      BY <3>1, <3>2 DEF Says
    <3> QED
      BY <1>1, <2>2, <3>2 DEF Grows, ToClient
  <2> QED
    BY <1>1, <1>2, <2>1, <2>2 DEF ToClient
<1>5. FromClient(c)'
  <2>1. cpc'[c] = "init" => toS'[c] = <<>>
    BY <1>1 DEF ClientPlace, FromClient, Unserved
  <2> QED
    BY <1>1, <1>2, <2>1 DEF FromClient
<1> QED
  BY <1>3, <1>4, <1>5

\* The server goes on with the test of the client in ctrl_sck.
LEMMA ServesOn ==
  ASSUME ControlInvariant, ProtocolInvariant, UNCHANGED clientVars,
         sctrl \in Conns, sctrl.i = 0, sctrl' = sctrl,
         \/ spc' = "results" /\ sstate' = "EXCHANGE_RESULTS"
         \/ (spc' = "loop" /\ sstate' \in 
               {"CREATE_STREAMS", "TEST_RUNNING", "DISPLAY_RESULTS"}),
         sEnd[sctrl.c] = "open", sEnd'[sctrl.c] = "open",
         \A c \in Clients \ {sctrl.c} :
           /\ Grows(c, toC[c], toC'[c])
           /\ Unserved(c)' => sEnd'[c] = sEnd[c] /\ toC'[c] = toC[c]
           /\ toS'[c] = toS[c]
           /\ sEnd[c] = "none" => sEnd'[c] = "none",
         backlog' = backlog \/ backlog' = <<>>
           \/ (backlog # <<>> /\ backlog' = Tail(backlog)),
         \A j \in 1..Len(backlog') : backlog'[j].i = 0 => sEnd'[backlog'[j].c] = "queued",
         ToClient(sctrl.c)', FromClient(sctrl.c)', AcceptedStreams', ComingStreams'
  PROVE  ProtocolInvariant'
<1>1. TypeOK /\ UNCHANGED <<cEnd, cpc, cstate, cstreams>>
  BY DEF ControlInvariant, clientVars
<1>2. sctrl = Ctrl(sctrl.c) /\ sctrl.c \in Clients
  BY ConnIsCtrl
<1>3. ServerPlaces'
  BY <1>2, CtrlConn DEF ServerPlaces
<1>4. ClientPlace(sctrl.c)'
  <2>1. ClientPlace(sctrl.c)
    BY <1>2 DEF ProtocolInvariant, ClientPlaces
  <2> QED
    BY <1>1, <2>1 DEF ClientPlace, Unserved, Live, Expected
<1>5. ASSUME NEW c \in Clients, c # sctrl.c
      PROVE  ClientPlace(c)' /\ ToClient(c)' /\ FromClient(c)'
  <2>1. ~Serving(c)'
    BY <1>2, <1>5, CtrlConn DEF Serving, Ctrl
  <2> QED
    BY <1>1, <1>5, <2>1, Bystander
<1>6. ClientPlaces' /\ ToClients' /\ FromClients'
  BY <1>4, <1>5 DEF ClientPlaces, ToClients, FromClients
<1>7. QueuedConns'
  BY <1>1, QueueSuffix DEF ProtocolInvariant
<1> QED
  BY <1>3, <1>6, <1>7 DEF ProtocolInvariant

\* A message that follows on those that are on their way.
LEMMA ScriptGoesOn ==
  ASSUME NEW q \in Seq(Tokens), NEW toks \in Seq(Tokens), NEW r \in Nat,
         \A j \in 1..Len(q) : Says(q[j], r + j) \/ Final(q[j]),
         \A j \in 1..Len(toks) : Says(toks[j], r + Len(q) + j)
  PROVE  \A j \in 1..Len(q \o toks) :
           Says((q \o toks)[j], r + j) \/ Final((q \o toks)[j])
<1> SUFFICES ASSUME NEW j \in 1..Len(q \o toks)
             PROVE  Says((q \o toks)[j], r + j) \/ Final((q \o toks)[j])
  OBVIOUS
<1>1. Len(q) \in Nat /\ Len(toks) \in Nat /\ Len(q \o toks) = Len(q) + Len(toks)
  BY ConcatIndex
<1>2. CASE j \in 1..Len(q)
  BY <1>2, ConcatIndex
<1>3. CASE j \notin 1..Len(q)
  <2>1. j - Len(q) \in 1..Len(toks) /\ (q \o toks)[j] = toks[j - Len(q)]
    BY <1>3, ConcatIndex
  <2>2. r + Len(q) + (j - Len(q)) = r + j
    BY <1>1
  <2> QED
    BY <2>1, <2>2
<1> QED
  BY <1>2, <1>3

\* The server sends the next messages of its script.
LEMMA ServerTells ==
  ASSUME ControlInvariant, ProtocolInvariant, UNCHANGED clientVars,
         sctrl \in Conns, sctrl' = sctrl, Serving(sctrl.c), sEnd'[sctrl.c] = "open",
         NEW toks \in Seq(Tokens), toC' = SWrite(toC, sctrl, toks),
         \A j \in 1..Len(toks) : Says(toks[j], ServerSent + j),
         ServerSent' = ServerSent + Len(toks)
  PROVE  /\ ToClient(sctrl.c)'
         /\ \A c \in Clients \ {sctrl.c} : toC'[c] = toC[c]
<1> DEFINE d == sctrl.c
<1>1. d \in Clients /\ sctrl = Ctrl(d) /\ UNCHANGED <<cEnd, cpc, cstate>>
  BY ConnIsCtrl DEF Serving, clientVars, Ctrl
<1>2. toC \in [Clients -> Seq(Tokens)] /\ toC[d] \in Seq(Tokens)
  BY <1>1, HandlerFacts
<1>3. \A c \in Clients : toC'[c] =
        IF sctrl = Ctrl(c) /\ ~Gone(c) THEN toC[c] \o toks ELSE toC[c]
  BY <1>2, SWriteAt
<1>4. \A c \in Clients \ {d} : sctrl # Ctrl(c)
  BY <1>1, CtrlConn
<1>5. ASSUME Live(d)'
      PROVE  /\ \A j \in 1..Len(toC'[d]) :
                  Says(toC'[d][j], ClientRead(d)' + j) \/ Final(toC'[d][j])
             /\ ClientRead(d)' + Len(toC'[d]) = ServerSent'
  <2>1. Live(d) /\ ClientRead(d)' = ClientRead(d) /\ ClientRead(d) \in Nat
    BY <1>1, <1>5 DEF Live, ClientRead
  <2>2. cEnd[d] = "open"
    BY <1>1, <2>1 DEF ProtocolInvariant, ClientPlaces, ClientPlace
  <2>3. toC'[d] = toC[d] \o toks
    BY <1>1, <1>3, <2>2 DEF Gone
  <2>4. /\ \A j \in 1..Len(toC[d]) : Says(toC[d][j], ClientRead(d) + j) \/ Final(toC[d][j])
        /\ ClientRead(d) + Len(toC[d]) = ServerSent
    BY <1>1, <2>1 DEF ProtocolInvariant, ToClients, ToClient
  <2>5. Len(toC[d]) \in Nat /\ Len(toks) \in Nat /\ Len(toC[d] \o toks) = Len(toC[d]) + Len(toks)
    BY <1>2, ConcatIndex
  <2>6. \A j \in 1..Len(toks) : Says(toks[j], ClientRead(d) + Len(toC[d]) + j)
    BY <2>4
  <2>7. \A j \in 1..Len(toC[d] \o toks) :
          Says((toC[d] \o toks)[j], ClientRead(d) + j) \/ Final((toC[d] \o toks)[j])
    BY <1>2, <2>1, <2>4, <2>6, ScriptGoesOn, Zenon
  <2>8. \A j \in 1..Len(toC'[d]) :
          Says(toC'[d][j], ClientRead(d)' + j) \/ Final(toC'[d][j])
    BY <2>1, <2>3, <2>7, Zenon
  <2>9. ClientRead(d)' + Len(toC'[d]) = ServerSent'
    BY <2>1, <2>3, <2>4, <2>5
  <2> QED
    BY <2>8, <2>9
<1> QED
  BY <1>3, <1>4, <1>5 DEF ToClient, Unserved

\* The server reads the next message of its client's script.
LEMMA ServerConsumes ==
  ASSUME ControlInvariant, ProtocolInvariant, UNCHANGED clientVars,
         sctrl \in Conns, sctrl' = sctrl, Serving(sctrl.c), sEnd'[sctrl.c] = "open",
         toS[sctrl.c] # <<>>, Consume, ServerRead' = ServerRead + 1,
         (spc' = "params" \/ sstate' = "CREATE_STREAMS") =>
           (spc = "params" \/ sstate = "CREATE_STREAMS")
  PROVE  /\ FromClient(sctrl.c)'
         /\ \A c \in Clients \ {sctrl.c} : toS'[c] = toS[c]
<1> DEFINE d == sctrl.c
<1>1. d \in Clients /\ sctrl = Ctrl(d) /\ UNCHANGED <<cEnd, cpc, cstate>>
  BY ConnIsCtrl DEF Serving, clientVars, Ctrl
<1>2. toS \in [Clients -> Seq(Tokens)] /\ toS[d] \in Seq(Tokens)
  BY <1>1, HandlerFacts
<1>3. toS'[d] = Tail(toS[d]) /\ \A c \in Clients \ {d} : toS'[c] = toS[c]
  BY <1>1, <1>2 DEF Consume
<1>4. /\ Len(toS[d]) \in Nat \ {0} /\ Len(toS'[d]) = Len(toS[d]) - 1
      /\ \A j \in 1..Len(toS'[d]) : j + 1 \in 1..Len(toS[d]) /\ toS'[d][j] = toS[d][j + 1]
  BY <1>2, <1>3, TailIndex
<1>5. FromClient(d)
  BY <1>1 DEF ProtocolInvariant, FromClients
<1>6. ServerRead \in Nat /\ ClientSent(d)' = ClientSent(d) /\ Live(d)' = Live(d)
  BY <1>1 DEF ServerRead, ClientSent, Live
<1>7. \A j \in 1..Len(toS'[d]) : ServerRead' + j = ServerRead + (j + 1)
  BY <1>4, <1>6
<1>8. \A j \in 1..Len(toS'[d]) :
        ClientSays(toS'[d][j], ServerRead' + j) \/ ClientFinal(toS'[d][j])
  BY <1>4, <1>5, <1>7 DEF FromClient
<1>9. Live(d) => ServerRead' + Len(toS'[d]) = ClientSent(d)'
  <2>1. Live(d) => ServerRead + Len(toS[d]) = ClientSent(d)
    BY <1>5 DEF FromClient
  <2> QED
    BY <1>4, <1>6, <2>1
<1>10. Live(d) => \A j \in 1..Len(toS'[d]) : ~ClientFinal(toS'[d][j])
  BY <1>4, <1>5 DEF FromClient
<1>11. (spc' = "params" \/ sstate' = "CREATE_STREAMS") =>
        \A j \in 1..Len(toS'[d]) : toS'[d][j] = Json("PARAMS") \/ ClientFinal(toS'[d][j])
  BY <1>4, <1>5 DEF FromClient
<1>12. cpc'[d] # "init"
  BY <1>1 DEF ProtocolInvariant, ClientPlaces, ClientPlace, Serving, ServerPlaces
<1> QED
  BY <1>3, <1>6, <1>8, <1>9, <1>10, <1>11, <1>12 DEF FromClient, Unserved

\* While the server reads from its client or runs its test, ctrl_sck is the
\* control connection of that client and open.
LEMMA InService ==
  ASSUME ControlInvariant, ProtocolInvariant,
         \/ spc = "params" /\ sctrl.i = 0
         \/ spc = "results"
         \/ spc = "loop" /\ sctrl # None
         \/ spc = "loop" /\ sstate # "IPERF_START"
  PROVE  /\ sctrl \in Conns /\ sctrl.i = 0 /\ sctrl.c \in Clients
         /\ sctrl = Ctrl(sctrl.c) /\ Serving(sctrl.c) /\ sEnd[sctrl.c] = "open"
         /\ sEnd \in [Clients -> Ends]
         /\ spc = "loop" => sstate \in {"CREATE_STREAMS", "TEST_RUNNING", "DISPLAY_RESULTS"}
<1>1. sctrl \in Conns /\ sctrl # None /\ sctrl.c \in Clients /\ sEnd \in [Clients -> Ends]
  BY InTest, HandlerFacts
<1>2. sctrl.i = 0
  BY <1>1 DEF ProtocolInvariant, ServerPlaces
<1>3. sctrl = Ctrl(sctrl.c)
  BY <1>1, <1>2, ConnIsCtrl
<1> QED
  BY <1>1, <1>2, <1>3 DEF ProtocolInvariant, ServerPlaces, Serving

\* get_parameters and the rest of iperf_exchange_parameters.
LEMMA ReadParamsProtocol ==
  ASSUME ControlInvariant, ProtocolInvariant, ReadParams
  PROVE  ProtocolInvariant'
<1>1. /\ sctrl \in Conns /\ sctrl.i = 0 /\ sctrl.c \in Clients
      /\ sctrl = Ctrl(sctrl.c) /\ Serving(sctrl.c) /\ sEnd[sctrl.c] = "open"
      /\ sEnd \in [Clients -> Ends]
  BY InService DEF ReadParams, NextIs
<1>2. /\ spc = "params" /\ toS[sctrl.c] # <<>> /\ Consume /\ UNCHANGED clientVars
      /\ sctrl.c \in Clients \cup {None}
  BY <1>1 DEF ReadParams, NextIs
<1>3. {"IETOTALRATE", "IESTREAMLISTEN", "IESENDMESSAGE"} \subseteq Errors
  BY DEF Errors
<1>4. CASE \E e \in {"IETOTALRATE", "IESENDMESSAGE"} : Fail(sctrl, e) /\ UNCHANGED backlog
  BY <1>1, <1>2, <1>3, <1>4, FailProtocol
<1>5. CASE LosesListener("IESTREAMLISTEN", sctrl.c, "IESTREAMLISTEN")
  BY <1>1, <1>2, <1>3, <1>5, LosesListenerProtocol
<1>6. CASE /\ spc' = "loop" /\ sstate' = "CREATE_STREAMS"
           /\ toC' = SWrite(toC, sctrl, <<Byte("CREATE_STREAMS")>>)
           /\ Reopen(backlog)
           /\ UNCHANGED <<sctrl, sstreams>>
  <2> DEFINE toks == <<Byte("CREATE_STREAMS")>>
  <2>1. toks \in Seq(Tokens) /\ Len(toks) = 1 /\ toks[1] = Byte("CREATE_STREAMS")
    BY TokenTypes DEF States
  <2>2. ServerSent = 1 /\ ServerSent' = 2 /\ ServerRead = 0 /\ ServerRead' = 1
    BY <1>2, <1>6 DEF ServerSent, ServerRead
  <2>3. \A j \in 1..Len(toks) : Says(toks[j], ServerSent + j)
    BY <2>1, <2>2 DEF Says
  <2> HIDE DEF toks
  <2>4. \/ backlog' = <<>> /\ sEnd' = ResetQueued(sEnd)
        \/ UNCHANGED <<backlog, sEnd>>
    BY <1>6 DEF Reopen
  <2>5. \A c \in Clients : sEnd'[c] = sEnd[c] \/ (sEnd[c] = "queued" /\ sEnd'[c] = "closed")
    BY <1>1, <2>4 DEF ResetQueued
  <2>6. ToClient(sctrl.c)' /\ \A c \in Clients \ {sctrl.c} : toC'[c] = toC[c]
    <3>1. ServerSent' = ServerSent + Len(toks)
      BY <2>1, <2>2
    <3> QED
      BY <1>1, <1>2, <1>6, <2>1, <2>3, <2>5, <3>1, ServerTells DEF toks
  <2>7. FromClient(sctrl.c)' /\ \A c \in Clients \ {sctrl.c} : toS'[c] = toS[c]
    <3>1. ServerRead' = ServerRead + 1
      BY <2>2
    <3> QED
      BY <1>1, <1>2, <1>6, <2>5, <3>1, ServerConsumes
  <2>8. AcceptedStreams'
    <3>1. sstreams = <<>> /\ Len(sstreams) = 0
      BY <1>2 DEF ProtocolInvariant, AcceptedStreams
    <3>2. Expected(sctrl.c) \in Nat \ {0}
      BY ConstantsAssumption DEF Expected
    <3> QED
      BY <1>6, <3>1, <3>2 DEF AcceptedStreams, Expected
  <2>9. \A j \in 1..Len(backlog') : backlog'[j].i = 0 => sEnd'[backlog'[j].c] = "queued"
    <3>1. CASE backlog' = <<>>
      BY <3>1
    <3>2. CASE UNCHANGED <<backlog, sEnd>>
      BY <3>2 DEF ProtocolInvariant, QueuedConns
    <3> QED
      BY <2>4, <3>1, <3>2
  <2>10. ComingStreams'
    <3>1. cstreams'[sctrl'.c] = 0 /\ Len(sstreams') = 0
      BY <1>1, <1>2, <1>6 DEF ProtocolInvariant, ClientPlaces, ClientPlace, AcceptedStreams,
                              clientVars
    <3>2. ASSUME NEW j \in 1..Len(backlog'), backlog'[j].c = sctrl'.c
          PROVE  backlog'[j].i > Len(sstreams')
      <4>1. backlog' = backlog
        BY <2>4, <3>2
      <4>2. backlog[j] \in Conns /\ (backlog[j].i = 0 => sEnd[backlog[j].c] = "queued")
        BY <3>2, <4>1, HandlerFacts, ElementOfSeq DEF ProtocolInvariant, QueuedConns
      <4>3. backlog[j].i \in Nat
        BY <4>2, ConnIsCtrl
      <4> QED
        BY <1>1, <1>6, <3>1, <3>2, <4>1, <4>2, <4>3
    <3> QED
      BY <3>1, <3>2 DEF ComingStreams
  <2>11. \A c \in Clients \ {sctrl.c} : Unserved(c)' => sEnd'[c] = sEnd[c]
    BY <2>5 DEF Unserved
  <2>12. sEnd'[sctrl.c] = "open"
    BY <1>1, <2>5
  <2>13. \A c \in Clients \ {sctrl.c} :
           /\ Grows(c, toC[c], toC'[c])
           /\ Unserved(c)' => sEnd'[c] = sEnd[c] /\ toC'[c] = toC[c]
           /\ toS'[c] = toS[c]
           /\ sEnd[c] = "none" => sEnd'[c] = "none"
    BY <2>5, <2>6, <2>7, <2>11, GrowsSame
  <2> QED
    BY <1>1, <1>2, <1>6, <2>4, <2>6, <2>7, <2>8, <2>9, <2>10, <2>12, <2>13, ServesOn
<1> QED
  BY <1>4, <1>5, <1>6 DEF ReadParams

\* TEST_END: the server is in TEST_RUNNING, whatever it was told before.
LEMMA OnTestEndProtocol ==
  ASSUME ControlInvariant, ProtocolInvariant, OnTestEnd
  PROVE  ProtocolInvariant'
<1>1. /\ sctrl \in Conns /\ sctrl.i = 0 /\ sctrl.c \in Clients
      /\ sctrl = Ctrl(sctrl.c) /\ Serving(sctrl.c) /\ sEnd[sctrl.c] = "open"
      /\ sEnd \in [Clients -> Ends]
      /\ sstate \in {"CREATE_STREAMS", "TEST_RUNNING", "DISPLAY_RESULTS"}
  BY InService DEF OnTestEnd
<1>2. /\ spc = "loop" /\ toS[sctrl.c] # <<>> /\ Consume /\ UNCHANGED <<clientVars, backlog>>
      /\ Head(toS[sctrl.c]) = Byte("TEST_END") /\ sctrl.c \in Clients \cup {None}
  BY <1>1 DEF OnTestEnd, NextIs
<1>3. sstate = "TEST_RUNNING"
  <2>1. toS[sctrl.c][1] = Byte("TEST_END") /\ 1 \in 1..Len(toS[sctrl.c])
    BY <1>1, <1>2, HandlerFacts, TailIndex
  <2>2. FromClient(sctrl.c)
    BY <1>1 DEF ProtocolInvariant, FromClients
  <2>3. Byte("TEST_END") # Json("PARAMS") /\ ~ClientFinal(Byte("TEST_END"))
    BY DEF Byte, Json, ClientFinal
  <2>4. sstate # "CREATE_STREAMS"
    BY <1>1, <2>1, <2>2, <2>3 DEF FromClient
  <2>5. ASSUME sstate = "DISPLAY_RESULTS" PROVE FALSE
    <3>1. ServerRead = 3
      BY <1>2, <2>5 DEF ServerRead
    <3>2. ~ClientSays(Byte("TEST_END"), 4)
      BY DEF ClientSays
    <3> QED
      BY <1>1, <2>1, <2>2, <2>3, <3>1, <3>2 DEF FromClient
  <2> QED
    BY <1>1, <2>4, <2>5
<1>4. ASSUME NEW e \in Overwritten("IESENDMESSAGE"),
             CleanupServer(sctrl, toC, e, sctrl.c), sEnd' = SetEnd(sEnd, sctrl, "shut")
      PROVE  ProtocolInvariant'
  <2>1. e \in Errors
    BY OverwrittenIsError DEF Errors
  <2> QED
    BY <1>1, <1>2, <1>4, <2>1, HandlerFails DEF CleanupServer
<1>5. CASE /\ spc' = "results" /\ sstate' = "EXCHANGE_RESULTS"
           /\ toC' = SWrite(toC, sctrl, <<Byte("EXCHANGE_RESULTS")>>)
           /\ UNCHANGED <<sctrl, sstreams, sEnd>>
  <2> DEFINE toks == <<Byte("EXCHANGE_RESULTS")>>
  <2>1. toks \in Seq(Tokens) /\ Len(toks) = 1 /\ toks[1] = Byte("EXCHANGE_RESULTS")
    BY TokenTypes DEF States
  <2>2. ServerSent = 4 /\ ServerSent' = 5 /\ ServerRead = 1 /\ ServerRead' = 2
    BY <1>2, <1>3, <1>5 DEF ServerSent, ServerRead
  <2>3. \A j \in 1..Len(toks) : Says(toks[j], ServerSent + j)
    BY <2>1, <2>2 DEF Says
  <2>4. ServerSent' = ServerSent + Len(toks) /\ ServerRead' = ServerRead + 1
    BY <2>1, <2>2
  <2>5. ToClient(sctrl.c)' /\ \A c \in Clients \ {sctrl.c} : toC'[c] = toC[c]
    <3>1. toC' = SWrite(toC, sctrl, toks)
      BY <1>5
    <3> HIDE DEF toks
    <3> QED
      BY <1>1, <1>2, <1>5, <2>1, <2>3, <2>4, <3>1, ServerTells
  <2> HIDE DEF toks
  <2>6. FromClient(sctrl.c)' /\ \A c \in Clients \ {sctrl.c} : toS'[c] = toS[c]
    BY <1>1, <1>2, <1>5, <2>4, ServerConsumes
  <2>7. AcceptedStreams'
    BY <1>1, <1>2, <1>3, <1>5 DEF ProtocolInvariant, AcceptedStreams, Expected
  <2>8. ComingStreams'
    BY <1>5 DEF ComingStreams
  <2>9. \A j \in 1..Len(backlog') : backlog'[j].i = 0 => sEnd'[backlog'[j].c] = "queued"
    BY <1>2, <1>5 DEF ProtocolInvariant, QueuedConns
  <2>10. \A c \in Clients \ {sctrl.c} :
           /\ Grows(c, toC[c], toC'[c])
           /\ Unserved(c)' => sEnd'[c] = sEnd[c] /\ toC'[c] = toC[c]
           /\ toS'[c] = toS[c]
           /\ sEnd[c] = "none" => sEnd'[c] = "none"
    BY <1>5, <2>5, <2>6, GrowsSame
  <2> QED
    BY <1>1, <1>2, <1>5, <2>5, <2>6, <2>7, <2>8, <2>9, <2>10, ServesOn
<1> QED
  BY <1>4, <1>5 DEF OnTestEnd

\* get_results, send_results and DISPLAY_RESULTS.
LEMMA ReadResultsProtocol ==
  ASSUME ControlInvariant, ProtocolInvariant, ReadResults
  PROVE  ProtocolInvariant'
<1>1. /\ sctrl \in Conns /\ sctrl.i = 0 /\ sctrl.c \in Clients
      /\ sctrl = Ctrl(sctrl.c) /\ Serving(sctrl.c) /\ sEnd[sctrl.c] = "open"
      /\ sEnd \in [Clients -> Ends]
  BY InService DEF ReadResults
<1>2. /\ spc = "results" /\ toS[sctrl.c] # <<>> /\ Consume /\ UNCHANGED <<clientVars, backlog>>
  BY <1>1 DEF ReadResults, NextIs
<1>3. CASE Fail(sctrl, "IESENDMESSAGE")
  <2>1. "IESENDMESSAGE" \in Errors
    BY DEF Errors
  <2> QED
    BY <1>1, <1>2, <1>3, <2>1, FailProtocol
<1>4. CASE /\ spc' = "loop" /\ sstate' = "DISPLAY_RESULTS"
           /\ toC' = SWrite(toC, sctrl, ResultsThenState)
           /\ UNCHANGED <<sctrl, sstreams, sEnd>>
  <2>1. /\ ResultsThenState \in Seq(Tokens) /\ Len(ResultsThenState) = 2
        /\ ResultsThenState[1] = Json("RESULTS")
        /\ ResultsThenState[2] = Byte("DISPLAY_RESULTS")
    BY TokenTypes DEF States, ResultsThenState
  <2>2. ServerSent = 5 /\ ServerSent' = 7 /\ ServerRead = 2 /\ ServerRead' = 3
    BY <1>2, <1>4 DEF ServerSent, ServerRead
  <2>3. \A j \in 1..Len(ResultsThenState) : Says(ResultsThenState[j], ServerSent + j)
    BY <2>1, <2>2 DEF Says
  <2>4. ServerSent' = ServerSent + Len(ResultsThenState) /\ ServerRead' = ServerRead + 1
    BY <2>1, <2>2
  <2>5. ToClient(sctrl.c)' /\ \A c \in Clients \ {sctrl.c} : toC'[c] = toC[c]
    BY <1>1, <1>2, <1>4, <2>1, <2>3, <2>4, ServerTells
  <2>6. FromClient(sctrl.c)' /\ \A c \in Clients \ {sctrl.c} : toS'[c] = toS[c]
    BY <1>1, <1>2, <1>4, <2>4, ServerConsumes
  <2>7. AcceptedStreams'
    <3>1. sstate # "CREATE_STREAMS"
      BY <1>2 DEF ProtocolInvariant, ServerPlaces
    <3> QED
      BY <1>1, <1>2, <1>4, <3>1 DEF ProtocolInvariant, AcceptedStreams, Expected
  <2>8. ComingStreams'
    BY <1>4 DEF ComingStreams
  <2>9. \A j \in 1..Len(backlog') : backlog'[j].i = 0 => sEnd'[backlog'[j].c] = "queued"
    BY <1>2, <1>4 DEF ProtocolInvariant, QueuedConns
  <2>10. \A c \in Clients \ {sctrl.c} :
           /\ Grows(c, toC[c], toC'[c])
           /\ Unserved(c)' => sEnd'[c] = sEnd[c] /\ toC'[c] = toC[c]
           /\ toS'[c] = toS[c]
           /\ sEnd[c] = "none" => sEnd'[c] = "none"
    BY <1>4, <2>5, <2>6, GrowsSame
  <2> QED
    BY <1>1, <1>2, <1>4, <2>5, <2>6, <2>7, <2>8, <2>9, <2>10, ServesOn
<1> QED
  BY <1>3, <1>4 DEF ReadResults

\* A client that a step does not concern.
LEMMA Untouched ==
  ASSUME ProtocolInvariant, NEW c \in Clients,
         UNCHANGED <<spc, sstate, sctrl, sEnd[c], toC[c], toS[c],
                     cEnd[c], cpc[c], cstate[c], cstreams[c]>>
  PROVE  ClientPlace(c)' /\ ToClient(c)' /\ FromClient(c)'
<1>1. ClientPlace(c) /\ ToClient(c) /\ FromClient(c)
  BY DEF ProtocolInvariant, ClientPlaces, ToClients, FromClients
<1>2. /\ Live(c)' = Live(c) /\ Serving(c)' = Serving(c) /\ Unserved(c)' = Unserved(c)
      /\ ClientRead(c)' = ClientRead(c) /\ ClientSent(c)' = ClientSent(c)
      /\ ServerSent' = ServerSent /\ ServerRead' = ServerRead
  BY DEF Live, Serving, Unserved, ClientRead, ClientSent, ServerSent, ServerRead
<1>3. ClientPlace(c)'
  BY <1>1, <1>2 DEF ClientPlace, Expected
<1>4. ToClient(c)' /\ FromClient(c)'
  BY <1>1, <1>2 DEF ToClient, FromClient
<1> QED
  BY <1>3, <1>4

\* The next connection in the backlog is not the one in ctrl_sck.  When it is
\* refused, only its own client is written to.
LEMMA RefusedFacts ==
  ASSUME ControlInvariant, ProtocolInvariant, backlog # <<>>,
         sctrl = None \/ sEnd[sctrl.c] = "open", NEW lost \in BOOLEAN
  PROVE  /\ Head(backlog) \in Conns /\ Head(backlog) # sctrl
         /\ \A c \in Clients : Head(backlog) = Ctrl(c) => sEnd[c] = "queued"
         /\ Denied(Head(backlog), lost) \in [Clients -> Seq(Tokens)]
         /\ \A c \in Clients :
              /\ Grows(c, toC[c], Denied(Head(backlog), lost)[c])
              /\ Head(backlog) # Ctrl(c) => Denied(Head(backlog), lost)[c] = toC[c]
         /\ \A c \in Clients : SetEnd(sEnd, Head(backlog), "closed")[c] =
              IF Head(backlog) = Ctrl(c) THEN "closed" ELSE sEnd[c]
         /\ SetEnd(sEnd, Head(backlog), "closed") \in [Clients -> Ends]
<1>1. TypeOK /\ toC \in [Clients -> Seq(Tokens)] /\ sEnd \in [Clients -> Ends]
  BY HandlerFacts DEF ControlInvariant
<1>2. Head(backlog) \in Conns
  BY <1>1, BacklogHead
<1>3. Head(backlog) = backlog[1] /\ 1 \in 1..Len(backlog)
  BY HandlerFacts, TailIndex
<1>4. \A c \in Clients : Head(backlog) = Ctrl(c) => sEnd[c] = "queued"
  BY <1>3, CtrlConn DEF ProtocolInvariant, QueuedConns
<1>5. Head(backlog) # sctrl
  <2>1. CASE sctrl = None
    BY <1>2, <2>1, ConnIsCtrl
  <2>2. CASE sEnd[sctrl.c] = "open" /\ sctrl # None
    <3>1. ASSUME Head(backlog) = sctrl PROVE FALSE
      <4>1. Head(backlog).i # 0
        BY <1>2, <1>4, <2>2, <3>1, ConnIsCtrl
      <4>2. Head(backlog).i <= cstreams[Head(backlog).c] /\ Head(backlog).c \in Clients
        BY <1>2, <1>3, ConnIsCtrl DEF ProtocolInvariant, QueuedConns
      <4>3. \A c \in Clients : sctrl # Ctrl(c)
        BY <3>1, <4>1, CtrlConn
      <4>4. sEnd[sctrl.c] \notin {"open", "shut"}
        BY <3>1, <4>2, <4>3 DEF ControlInvariant, OneControlConnection, Ctrl
      <4> QED
        BY <2>2, <4>4
    <3> QED
      BY <3>1
  <2> QED
    BY <2>1, <2>2
<1>6. Denied(Head(backlog), lost) \in [Clients -> Seq(Tokens)]
  BY <1>1, <1>2, DeniedType
<1>7. ASSUME NEW c \in Clients
      PROVE  /\ Grows(c, toC[c], Denied(Head(backlog), lost)[c])
             /\ Head(backlog) # Ctrl(c) => Denied(Head(backlog), lost)[c] = toC[c]
  <2>1. CASE lost
    BY <2>1, GrowsSame DEF Denied
  <2>2. CASE ~lost
    <3> DEFINE t == Byte("ACCESS_DENIED")
    <3>1. t \in Tokens /\ <<t>> \in Seq(Tokens) /\ toC[c] \in Seq(Tokens)
      BY <1>1, TokenTypes DEF States
    <3>2. Denied(Head(backlog), lost) = SWrite(toC, Head(backlog), <<t>>)
      BY <2>2 DEF Denied
    <3> HIDE DEF t
    <3>3. SWrite(toC, Head(backlog), <<t>>)[c] =
            IF Head(backlog) = Ctrl(c) /\ ~Gone(c) THEN toC[c] \o <<t>> ELSE toC[c]
      BY <1>1, <1>2, <3>1, SWriteAt, Zenon
    <3>4. CASE Head(backlog) = Ctrl(c) /\ ~Gone(c)
      <4>1. Unserved(c)
        BY <1>4, <3>4 DEF Unserved
      <4>2. toC[c] = <<>>
        BY <4>1 DEF ProtocolInvariant, ToClients, ToClient
      <4>3. toC[c] \o <<t>> = <<t>>
        BY <3>1, <4>2
      <4>4. Len(<<t>>) = 1 /\ <<t>>[1] = Byte("ACCESS_DENIED")
        BY DEF t
      <4>5. Grows(c, toC[c], <<t>>)
        BY <4>1, <4>4 DEF Grows
      <4> QED
        BY <3>2, <3>3, <3>4, <4>3, <4>5
    <3>5. CASE ~(Head(backlog) = Ctrl(c) /\ ~Gone(c))
      BY <3>2, <3>3, <3>5, GrowsSame
    <3> QED
      BY <3>4, <3>5
  <2> QED
    BY <2>1, <2>2
<1>8. "closed" \in Ends
  BY DEF Ends
<1>9. /\ \A c \in Clients : SetEnd(sEnd, Head(backlog), "closed")[c] =
              IF Head(backlog) = Ctrl(c) THEN "closed" ELSE sEnd[c]
      /\ SetEnd(sEnd, Head(backlog), "closed") \in [Clients -> Ends]
  <2>1. SetEnd(sEnd, Head(backlog), "closed") \in [Clients -> Ends]
    BY <1>1, <1>2, EndTypes DEF Ends
  <2> QED
    BY <1>1, <1>2, <1>8, <2>1, SetEndAt
<1> QED
  BY <1>2, <1>4, <1>5, <1>6, <1>7, <1>9

\* Another connection than those of the test is refused and the test goes on.
LEMMA RefusedProtocol ==
  ASSUME ControlInvariant, ProtocolInvariant, UNCHANGED clientVars,
         spc = "loop", sstate # "IPERF_START", backlog # <<>>,
         NEW lost \in BOOLEAN, toC' = Denied(Head(backlog), lost),
         sEnd' = SetEnd(sEnd, Head(backlog), "closed"), backlog' = Tail(backlog),
         UNCHANGED <<spc, sstate, sctrl, sstreams, toS>>,
         sstate = "CREATE_STREAMS" => Head(backlog).c # sctrl.c
  PROVE  ProtocolInvariant'
<1>1. /\ sctrl \in Conns /\ sctrl.i = 0 /\ sctrl.c \in Clients
      /\ sctrl = Ctrl(sctrl.c) /\ Serving(sctrl.c) /\ sEnd[sctrl.c] = "open"
      /\ sstate \in {"CREATE_STREAMS", "TEST_RUNNING", "DISPLAY_RESULTS"}
  BY InService
<1>2. /\ Head(backlog) \in Conns /\ Head(backlog) # sctrl
      /\ \A c \in Clients : Head(backlog) = Ctrl(c) => sEnd[c] = "queued"
      /\ \A c \in Clients :
           /\ Grows(c, toC[c], toC'[c]) /\ (Head(backlog) # Ctrl(c) => toC'[c] = toC[c])
           /\ sEnd'[c] = IF Head(backlog) = Ctrl(c) THEN "closed" ELSE sEnd[c]
  BY <1>1, RefusedFacts
<1>3. TypeOK /\ QueuedConns
  BY DEF ControlInvariant, ProtocolInvariant
<1>4. \A j \in 1..Len(backlog') :
        /\ backlog'[j] \in Conns /\ backlog'[j] # Head(backlog)
        /\ backlog'[j].i = 0 => sEnd[backlog'[j].c] = "queued"
  BY <1>3, BacklogRest
<1>5. \A j \in 1..Len(backlog') : backlog'[j].i = 0 => sEnd'[backlog'[j].c] = "queued"
  BY <1>2, <1>4, ConnIsCtrl
<1>6. sEnd'[sctrl.c] = "open" /\ toC'[sctrl.c] = toC[sctrl.c]
  BY <1>1, <1>2
<1>7. ToClient(sctrl.c)' /\ FromClient(sctrl.c)'
  BY <1>1, <1>6, Untouched DEF clientVars
<1>8. AcceptedStreams'
  BY DEF ProtocolInvariant, AcceptedStreams, Expected
<1>9. ComingStreams'
  <2>1. CASE sstate # "CREATE_STREAMS"
    BY <2>1 DEF ComingStreams
  <2>2. CASE sstate = "CREATE_STREAMS"
    <3>1. /\ Len(backlog) \in Nat \ {0} /\ Len(backlog') = Len(backlog) - 1
          /\ Head(backlog) = backlog[1]
          /\ \A j \in 1..Len(backlog') :
               j + 1 \in 1..Len(backlog) /\ backlog'[j] = backlog[j + 1]
      BY HandlerFacts, TailIndex
    <3>2. \A j \in 1..Len(backlog') :
            backlog'[j].c = sctrl.c => backlog'[j].i > Len(sstreams)
      BY <2>2, <3>1 DEF ProtocolInvariant, ComingStreams
    <3>3. ASSUME NEW i \in Len(sstreams) + 1 .. cstreams[sctrl.c]
          PROVE  \E j \in 1..Len(backlog') : backlog'[j] = [c |-> sctrl.c, i |-> i]
      <4>1. PICK j \in 1..Len(backlog) : backlog[j] = [c |-> sctrl.c, i |-> i]
        BY <2>2, <3>3 DEF ProtocolInvariant, ComingStreams
      <4>2. j # 1
        BY <2>2, <3>1, <4>1
      <4>3. j - 1 \in 1..Len(backlog') /\ (j - 1) + 1 = j
        BY <3>1, <4>2
      <4> QED
        BY <3>1, <4>1, <4>3
    <3>4. UNCHANGED <<cstreams, sctrl, sstreams>>
      BY DEF clientVars
    <3>5. Len(sstreams) <= cstreams[sctrl.c]
      BY <2>2 DEF ProtocolInvariant, ComingStreams
    <3> QED
      BY <3>2, <3>3, <3>4, <3>5, Zenon DEF ComingStreams
  <2> QED
    BY <2>1, <2>2
<1>10. \A c \in Clients \ {sctrl.c} :
         /\ Grows(c, toC[c], toC'[c])
         /\ Unserved(c)' => sEnd'[c] = sEnd[c] /\ toC'[c] = toC[c]
         /\ toS'[c] = toS[c]
         /\ sEnd[c] = "none" => sEnd'[c] = "none"
  BY <1>2 DEF Unserved
<1> QED
  BY <1>1, <1>5, <1>6, <1>7, <1>8, <1>9, <1>10, ServesOn

LEMMA AcceptBusyProtocol ==
  ASSUME ControlInvariant, ProtocolInvariant, AcceptBusy
  PROVE  ProtocolInvariant'
<1>1. PICK lost \in BOOLEAN : toC' = Denied(Head(backlog), lost)
  BY DEF AcceptBusy
<1> QED
  BY <1>1, RefusedProtocol DEF AcceptBusy

\* The stream that is accepted in CREATE_STREAMS is the next one.
LEMMA NextStream ==
  ASSUME ControlInvariant, ProtocolInvariant, spc = "loop", sstate = "CREATE_STREAMS",
         backlog # <<>>, Head(backlog).c = sctrl.c
  PROVE  Head(backlog) = [c |-> sctrl.c, i |-> Len(sstreams) + 1]
<1>1. sctrl \in Conns /\ sctrl.c \in Clients /\ Head(backlog) \in Conns
  BY InService, BacklogHead DEF ControlInvariant
<1>2. Len(backlog) \in Nat \ {0} /\ Head(backlog) = backlog[1] /\ Len(sstreams) \in Nat
  BY HandlerFacts, TailIndex, LenProperties
<1>3. /\ Head(backlog).i > Len(sstreams) /\ Head(backlog).i \in Nat
      /\ Head(backlog).i <= cstreams[sctrl.c] /\ cstreams[sctrl.c] \in Nat
  <2>1. 1 \in 1..Len(backlog)
    BY <1>2
  <2>2. backlog[1].i > Len(sstreams)
    BY <1>2, <2>1 DEF ProtocolInvariant, ComingStreams
  <2>3. backlog[1].i <= cstreams[backlog[1].c]
    BY <2>1 DEF ProtocolInvariant, QueuedConns
  <2>4. Head(backlog).i \in Nat /\ cstreams[sctrl.c] \in Nat
    BY <1>1, ConnIsCtrl DEF ControlInvariant, TypeOK
  <2> QED
    BY <1>2, <2>2, <2>3, <2>4
<1>4. Len(sstreams) + 1 \in Len(sstreams) + 1 .. cstreams[sctrl.c]
  BY <1>2, <1>3
<1>5. PICK j \in 1..Len(backlog) : backlog[j] = [c |-> sctrl.c, i |-> Len(sstreams) + 1]
  BY <1>4 DEF ProtocolInvariant, ComingStreams
<1>6. ~(1 < j)
  <2>1. ASSUME 1 < j PROVE FALSE
    <3>1. 1 \in 1..Len(backlog) /\ backlog[1].c = backlog[j].c
      BY <1>2, <1>5
    <3>2. backlog[1].i < backlog[j].i
      BY <2>1, <3>1 DEF ProtocolInvariant, QueuedConns
    <3> QED
      BY <1>2, <1>3, <1>5, <3>2
  <2> QED
    BY <2>1
<1> QED
  BY <1>2, <1>5, <1>6

\* The streams with the one that was accepted.
LEMMA StreamsAppended ==
  ASSUME ControlInvariant, ProtocolInvariant, spc = "loop", sstate = "CREATE_STREAMS",
         backlog # <<>>, Head(backlog).c = sctrl.c,
         sstreams' = Append(sstreams, Head(backlog))
  PROVE  /\ Len(sstreams) \in Nat /\ Len(sstreams') = Len(sstreams) + 1
         /\ \A j \in 1..Len(sstreams') : sstreams'[j] = [c |-> sctrl.c, i |-> j]
<1>1. sstreams \in Seq(Conns) /\ Len(sstreams) \in Nat
  BY HandlerFacts, LenProperties
<1>2. Head(backlog) \in Conns /\ sctrl # None
  BY InService, BacklogHead, ConnIsCtrl DEF ControlInvariant
<1>3. /\ Len(sstreams') = Len(sstreams) + 1
      /\ \A j \in 1..Len(sstreams) : sstreams'[j] = sstreams[j]
      /\ sstreams'[Len(sstreams) + 1] = Head(backlog)
  BY <1>1, <1>2, AppendProperties
<1>4. \A j \in 1..Len(sstreams) : sstreams[j] = [c |-> sctrl.c, i |-> j]
  BY <1>2 DEF ProtocolInvariant, AcceptedStreams
<1>5. ASSUME NEW j \in 1..Len(sstreams')
      PROVE  sstreams'[j] = [c |-> sctrl.c, i |-> j]
  <2>1. CASE j \in 1..Len(sstreams)
    BY <1>3, <1>4, <2>1
  <2>2. CASE j = Len(sstreams) + 1
    BY <1>3, <2>2, NextStream
  <2> QED
    BY <1>1, <1>3, <2>1, <2>2
<1> QED
  BY <1>1, <1>3, <1>5

\* A stream is accepted, and more are to come.
LEMMA AppendProtocol ==
  ASSUME ControlInvariant, ProtocolInvariant, UNCHANGED clientVars,
         spc = "loop", sstate = "CREATE_STREAMS", backlog # <<>>,
         Head(backlog).c = sctrl.c, ~LastStream,
         sstreams' = Append(sstreams, Head(backlog)), backlog' = Tail(backlog),
         UNCHANGED <<spc, sstate, sctrl, toS, toC, sEnd>>
  PROVE  ProtocolInvariant'
<1>1. /\ sctrl \in Conns /\ sctrl.i = 0 /\ sctrl.c \in Clients /\ sctrl # None
      /\ sctrl = Ctrl(sctrl.c) /\ Serving(sctrl.c) /\ sEnd[sctrl.c] = "open"
  BY InService, ConnIsCtrl
<1>2. /\ Len(sstreams) \in Nat /\ Len(sstreams') = Len(sstreams) + 1
      /\ \A j \in 1..Len(sstreams') : sstreams'[j] = [c |-> sctrl.c, i |-> j]
  BY StreamsAppended
<1>3. Head(backlog) = [c |-> sctrl.c, i |-> Len(sstreams) + 1]
  BY NextStream
<1>4. AcceptedStreams'
  <2>1. Expected(sctrl.c) \in Nat /\ Expected(sctrl.c)' = Expected(sctrl.c)
    BY ConstantsAssumption DEF Expected
  <2>2. Len(sstreams) < Expected(sctrl.c)
    BY <1>1 DEF ProtocolInvariant, AcceptedStreams
  <2>3. Len(sstreams') < Expected(sctrl'.c)
    BY <1>2, <2>1, <2>2 DEF LastStream
  <2> QED
    BY <1>1, <1>2, <2>3 DEF AcceptedStreams, Expected
<1>5. /\ Len(backlog) \in Nat \ {0} /\ Len(backlog') = Len(backlog) - 1
      /\ Head(backlog) = backlog[1] /\ backlog \in Seq(Conns)
      /\ \A j \in 1..Len(backlog') :
           j + 1 \in 1..Len(backlog) /\ backlog'[j] = backlog[j + 1]
  BY HandlerFacts, TailIndex
<1>6. ComingStreams'
  <2>1. ASSUME NEW j \in 1..Len(backlog'), backlog'[j].c = sctrl.c
        PROVE  backlog'[j].i > Len(sstreams')
    <3>1. 1 \in 1..Len(backlog) /\ j + 1 \in 1..Len(backlog) /\ 1 < j + 1
      BY <1>5
    <3>2. backlog[1].i < backlog[j + 1].i
      BY <1>3, <1>5, <2>1, <3>1 DEF ProtocolInvariant, QueuedConns
    <3>3. backlog[j + 1] \in Conns
      BY <1>5, <3>1, ElementOfSeq
    <3>4. backlog[j + 1].i \in Nat
      BY <3>3, ConnIsCtrl
    <3> QED
      BY <1>2, <1>3, <1>5, <3>2, <3>4
  <2>2. ASSUME NEW i \in Len(sstreams') + 1 .. cstreams[sctrl.c]
        PROVE  \E j \in 1..Len(backlog') : backlog'[j] = [c |-> sctrl.c, i |-> i]
    <3>0. cstreams[sctrl.c] \in Nat
      BY <1>1 DEF ControlInvariant, TypeOK
    <3>1. i \in Len(sstreams) + 1 .. cstreams[sctrl.c] /\ i # Len(sstreams) + 1
      BY <1>2, <2>2, <3>0
    <3>2. PICK j \in 1..Len(backlog) : backlog[j] = [c |-> sctrl.c, i |-> i]
      BY <3>1 DEF ProtocolInvariant, ComingStreams
    <3>3. j # 1
      BY <1>3, <1>5, <3>1, <3>2
    <3>4. j - 1 \in 1..Len(backlog') /\ (j - 1) + 1 = j
      BY <1>5, <3>3
    <3> QED
      BY <1>5, <3>2, <3>4
  <2>3. UNCHANGED <<cstreams, sctrl>>
    BY DEF clientVars
  <2>4. Len(sstreams') <= cstreams[sctrl.c]
    <3>1. 1 \in 1..Len(backlog)
      BY <1>5
    <3>2. backlog[1].i <= cstreams[backlog[1].c]
      BY <3>1 DEF ProtocolInvariant, QueuedConns
    <3> QED
      BY <1>2, <1>3, <1>5, <3>2
  <2> QED
    BY <2>1, <2>2, <2>3, <2>4 DEF ComingStreams
<1>7. \A j \in 1..Len(backlog') : backlog'[j].i = 0 => sEnd'[backlog'[j].c] = "queued"
  BY <1>5 DEF ProtocolInvariant, QueuedConns
<1>8. ToClient(sctrl.c)' /\ FromClient(sctrl.c)'
  BY <1>1, Untouched DEF clientVars
<1> QED
  BY <1>1, <1>4, <1>6, <1>7, <1>8, GrowsSame, ServesOn

\* Positions counted from the client's first token and from the last one read.
LEMMA Shifted ==
  ASSUME NEW a \in Nat, NEW l \in Nat, NEW j \in Int, a + l = 2
  PROVE  a + j = 2 + (j - l)
OBVIOUS

\* The test cannot start: what the client has been sent is of the script, and
\* final.
LEMMA StartGrows ==
  ASSUME ControlInvariant, ProtocolInvariant,
         spc = "loop", sstate = "CREATE_STREAMS",
         NEW toks \in Seq(Tokens),
         \A j \in 1..Len(toks) : Says(toks[j], 2 + j),
         NEW c \in Clients, Live(c)
  PROVE  Grows(c, toC[c], SWrite(toC, sctrl, toks)[c])
<1> DEFINE r == SWrite(toC, sctrl, toks)[c]
<1>1. /\ sctrl \in Conns /\ toC \in [Clients -> Seq(Tokens)]
      /\ sctrl = Ctrl(sctrl.c) /\ Serving(sctrl.c)
  BY InService, HandlerFacts
<1>2. r = IF sctrl = Ctrl(c) /\ ~Gone(c) THEN toC[c] \o toks ELSE toC[c]
  BY <1>1, SWriteAt
<1>3. CASE r = toC[c]
  BY <1>3, GrowsSame
<1>4. CASE sctrl = Ctrl(c) /\ r = toC[c] \o toks
  <2>1. ServerSent = 2 /\ Serving(c)
    BY <1>1, <1>4, CtrlConn DEF ServerSent
  <2>2. ClientRead(c) + Len(toC[c]) = 2
    BY <2>1 DEF ProtocolInvariant, ToClients, ToClient
  <2>3. toC[c] \in Seq(Tokens) /\ Len(toC[c]) \in Nat /\ ClientRead(c) \in Nat
    BY <1>1, LenProperties DEF ClientRead
  <2>4. ASSUME NEW j \in 1..Len(r), j \notin 1..Len(toC[c])
        PROVE  Says(r[j], ClientRead(c) + j)
    <3>1. /\ j - Len(toC[c]) \in 1..Len(toks) /\ r[j] = toks[j - Len(toC[c])]
      BY <1>4, <2>3, <2>4, ConcatIndex
    <3>2. Says(r[j], 2 + (j - Len(toC[c])))
      BY <3>1
    <3>3. ClientRead(c) + j = 2 + (j - Len(toC[c]))
      <4>1. j \in Int
        OBVIOUS
      <4> HIDE DEF r
      <4> QED
        BY ONLY <2>2, <2>3, <4>1, Shifted
    <3> QED
      BY <3>2, <3>3
  <2>5. \A j \in 1..Len(toC[c]) : r[j] = toC[c][j]
    BY <1>4, <2>3, ConcatIndex
  <2> HIDE DEF r
  <2>6. Grows(c, toC[c], r)
    BY <2>4, <2>5 DEF Grows
  <2> QED
    BY <2>6 DEF r
<1> QED
  BY <1>2, <1>3, <1>4

LEMMA StartFailsProtocol ==
  ASSUME ControlInvariant, ProtocolInvariant, UNCHANGED <<clientVars, toS>>,
         spc = "loop", sstate = "CREATE_STREAMS", backlog # <<>>,
         NEW toks \in {<<>>, <<Byte("TEST_START")>>,
                        <<Byte("TEST_START"), Byte("TEST_RUNNING")>>},
         NEW e \in Errors, StartFails(toks, e)
  PROVE  ProtocolInvariant'
<1> DEFINE ch == SWrite(toC, sctrl, toks)
           ends == IF sctrl.c \in Reopens THEN ResetQueued(sEnd) ELSE sEnd
<1>1. /\ sctrl \in Conns /\ sctrl.c \in Clients \cup {None}
      /\ sctrl = Ctrl(sctrl.c) /\ sctrl.c \in Clients /\ sEnd[sctrl.c] = "open"
      /\ sEnd \in [Clients -> Ends] /\ toC \in [Clients -> Seq(Tokens)]
  BY InService, HandlerFacts
<1>2. toks \in Seq(Tokens)
  BY StartTokens
<1>3. \A j \in 1..Len(toks) : Says(toks[j], 2 + j)
  BY DEF Says
<1>4. ch \in [Clients -> Seq(Tokens)]
  BY <1>1, <1>2, SWriteType
<1>5. \A c \in Clients : Live(c) => Grows(c, toC[c], ch[c])
  BY <1>2, <1>3, StartGrows
<1>6. \A c \in Clients : sctrl # Ctrl(c) => ch[c] = toC[c]
  BY <1>1, <1>2, SWriteAt
<1>7. /\ spc' = "sync" /\ sctrl' = sctrl /\ toC' = TellClient(ch, sctrl, e, sctrl.c)
      /\ sEnd' = SetEnd(ends, sctrl, "shut")
      /\ backlog' = IF sctrl.c \in Reopens THEN <<>> ELSE Tail(backlog)
  BY DEF StartFails, CleanupServer
<1>8. /\ ends \in [Clients -> Ends]
      /\ \A c \in Clients : ends[c] = sEnd[c] \/ (sEnd[c] = "queued" /\ ends[c] = "closed")
  BY <1>1 DEF ResetQueued, Ends
<1>9. \A j \in 1..Len(backlog') : backlog'[j].i = 0 => ends[backlog'[j].c] = "queued"
  <2>1. CASE backlog' = <<>>
    BY <2>1
  <2>2. CASE backlog' = Tail(backlog) /\ ends = sEnd
    BY <2>2, BacklogRest DEF ControlInvariant, ProtocolInvariant
  <2> QED
    BY <1>7, <2>1, <2>2
<1> HIDE DEF ch, ends
<1>10. ASSUME NEW c \in Clients, sctrl # Ctrl(c)
       PROVE  toC'[c] = toC[c]
  <2>1. sctrl \in Conns /\ ~(sctrl.i = 0 /\ sctrl.c = c)
    BY <1>1, <1>10, ConnIsCtrl
  <2>2. TellClient(ch, sctrl, e, sctrl.c)[c] = ch[c]
    BY <1>1, <1>4, <2>1 DEF TellClient, SWrite
  <2> QED
    BY <1>6, <1>7, <1>10, <2>2
<1>11. ASSUME NEW c \in Clients, Live(c)
       PROVE  Grows(c, toC[c], toC'[c])
  <2>1. toC[c] \in Seq(Tokens) /\ Grows(c, toC[c], ch[c])
    BY <1>1, <1>5, <1>11
  <2> QED
    BY <1>1, <1>4, <1>7, <2>1, TellGrows
<1>12. \A c \in Clients : ends[c] \in {"none", "queued"} =>
         ends[c] = sEnd[c] /\ toC'[c] = toC[c]
  BY <1>1, <1>8, <1>10, CtrlConn
<1>13. \A c \in Clients : sEnd[c] = "none" => ends[c] = "none"
  BY <1>8
<1> QED
  BY <1>1, <1>7, <1>8, <1>9, <1>11, <1>12, <1>13, TestEnds

\* The last stream is accepted: TEST_START and TEST_RUNNING.
LEMMA StartTestProtocol ==
  ASSUME ControlInvariant, ProtocolInvariant, UNCHANGED <<clientVars, toS>>,
         spc = "loop", sstate = "CREATE_STREAMS", backlog # <<>>,
         Head(backlog).c = sctrl.c, LastStream, StartTest
  PROVE  ProtocolInvariant'
<1>1. /\ sctrl \in Conns /\ sctrl.i = 0 /\ sctrl.c \in Clients /\ sctrl # None
      /\ sctrl = Ctrl(sctrl.c) /\ Serving(sctrl.c) /\ sEnd[sctrl.c] = "open"
      /\ sEnd \in [Clients -> Ends]
  BY InService, ConnIsCtrl
<1>2. ASSUME NEW toks \in {<<>>, <<Byte("TEST_START")>>,
                            <<Byte("TEST_START"), Byte("TEST_RUNNING")>>},
             NEW e \in Errors, StartFails(toks, e)
      PROVE  ProtocolInvariant'
  BY <1>2, StartFailsProtocol
<1>3. CASE LosesListener(i_errno, errOwner, "IELISTEN")
  BY <1>1, <1>3, HandlerFacts, LosesListenerProtocol
<1>4. CASE /\ sstate' = "TEST_RUNNING"
           /\ sstreams' = Append(sstreams, Head(backlog))
           /\ toC' = SWrite(toC, sctrl, <<Byte("TEST_START"), Byte("TEST_RUNNING")>>)
           /\ Reopen(Tail(backlog))
           /\ UNCHANGED <<spc, sctrl>>
  <2> DEFINE toks == <<Byte("TEST_START"), Byte("TEST_RUNNING")>>
  <2>1. /\ toks \in Seq(Tokens) /\ Len(toks) = 2
        /\ toks[1] = Byte("TEST_START") /\ toks[2] = Byte("TEST_RUNNING")
    BY TokenTypes DEF States
  <2>2. ServerSent = 2 /\ ServerSent' = 4 /\ ServerRead' = ServerRead
    BY <1>4 DEF ServerSent, ServerRead
  <2>3. \A j \in 1..Len(toks) : Says(toks[j], ServerSent + j)
    BY <2>1, <2>2 DEF Says
  <2>4. \/ backlog' = <<>> /\ sEnd' = ResetQueued(sEnd)
        \/ backlog' = Tail(backlog) /\ sEnd' = sEnd
    BY <1>4 DEF Reopen
  <2>5. \A c \in Clients : sEnd'[c] = sEnd[c] \/ (sEnd[c] = "queued" /\ sEnd'[c] = "closed")
    BY <1>1, <2>4 DEF ResetQueued
  <2>6. ToClient(sctrl.c)' /\ \A c \in Clients \ {sctrl.c} : toC'[c] = toC[c]
    <3>1. toC' = SWrite(toC, sctrl, toks)
      BY <1>4
    <3>2. ServerSent' = ServerSent + Len(toks)
      BY <2>1, <2>2
    <3> HIDE DEF toks
    <3> QED
      BY <1>1, <1>4, <2>1, <2>3, <2>5, <3>1, <3>2, ServerTells
  <2> HIDE DEF toks
  <2>7. FromClient(sctrl.c)'
    <3>1. FromClient(sctrl.c)
      BY <1>1 DEF ProtocolInvariant, FromClients
    <3>2. /\ Live(sctrl.c)' = Live(sctrl.c) /\ ClientSent(sctrl.c)' = ClientSent(sctrl.c)
          /\ ~Unserved(sctrl.c)' /\ cpc'[sctrl.c] # "init"
      BY <1>1, <1>4, <2>5 DEF Live, ClientSent, clientVars, Unserved,
                              ProtocolInvariant, ClientPlaces, ClientPlace
    <3> QED
      BY <1>1, <1>4, <2>2, <3>1, <3>2 DEF FromClient
  <2>8. AcceptedStreams'
    <3>1. /\ Len(sstreams') = Len(sstreams) + 1
          /\ \A j \in 1..Len(sstreams') : sstreams'[j] = [c |-> sctrl.c, i |-> j]
      BY <1>4, StreamsAppended
    <3>2. Len(sstreams') = Expected(sctrl.c)
      BY <3>1 DEF LastStream
    <3> QED
      BY <1>1, <1>4, <3>1, <3>2 DEF AcceptedStreams, Expected
  <2>9. \A j \in 1..Len(backlog') : backlog'[j].i = 0 => sEnd'[backlog'[j].c] = "queued"
    <3>1. CASE backlog' = <<>>
      BY <3>1
    <3>2. CASE backlog' = Tail(backlog) /\ sEnd' = sEnd
      BY <3>2, BacklogRest DEF ControlInvariant, ProtocolInvariant
    <3> QED
      BY <2>4, <3>1, <3>2
  <2>10. ComingStreams'
    BY <1>4 DEF ComingStreams
  <2>11. \A c \in Clients \ {sctrl.c} :
           /\ Grows(c, toC[c], toC'[c])
           /\ Unserved(c)' => sEnd'[c] = sEnd[c] /\ toC'[c] = toC[c]
           /\ toS'[c] = toS[c]
           /\ sEnd[c] = "none" => sEnd'[c] = "none"
    BY <2>5, <2>6, GrowsSame DEF Unserved
  <2>12. sEnd'[sctrl.c] = "open"
    BY <1>1, <2>5
  <2> QED
    BY <1>1, <1>4, <2>4, <2>6, <2>7, <2>8, <2>9, <2>10, <2>11, <2>12, ServesOn
<1>5. {"IESENDMESSAGE", "IEINITTEST", "IEPTHREADCREATE"} \subseteq Errors
  BY DEF Errors
<1> QED
  BY <1>2, <1>3, <1>4, <1>5, OverwrittenIsError DEF StartTest

\* A refused connection ends a test that sets a type of service.
LEMMA SetTosProtocol ==
  ASSUME ControlInvariant, ProtocolInvariant, UNCHANGED <<clientVars, toS>>,
         spc = "loop", sstate = "CREATE_STREAMS", backlog # <<>>,
         CleanupServer(sctrl, Denied(Head(backlog), FALSE), "IESETTOS", sctrl.c),
         sEnd' = SetEnd(SetEnd(sEnd, Head(backlog), "closed"), sctrl, "shut"),
         backlog' = Tail(backlog)
  PROVE  ProtocolInvariant'
<1> DEFINE ch == Denied(Head(backlog), FALSE)
           ends == SetEnd(sEnd, Head(backlog), "closed")
<1>1. /\ sctrl \in Conns /\ sctrl.c \in Clients
      /\ sctrl = Ctrl(sctrl.c) /\ sEnd[sctrl.c] = "open"
  BY InService
<1>2. /\ Head(backlog) \in Conns /\ Head(backlog) # sctrl
      /\ \A c \in Clients : Head(backlog) = Ctrl(c) => sEnd[c] = "queued"
      /\ ch \in [Clients -> Seq(Tokens)] /\ ends \in [Clients -> Ends]
      /\ \A c \in Clients :
           /\ Grows(c, toC[c], ch[c]) /\ (Head(backlog) # Ctrl(c) => ch[c] = toC[c])
           /\ ends[c] = IF Head(backlog) = Ctrl(c) THEN "closed" ELSE sEnd[c]
  BY <1>1, RefusedFacts
<1>3. /\ spc' = "sync" /\ sctrl' = sctrl
      /\ toC' = TellClient(ch, sctrl, "IESETTOS", sctrl.c)
      /\ sEnd' = SetEnd(ends, sctrl, "shut")
  BY DEF CleanupServer
<1> HIDE DEF ch, ends
<1>4. "IESETTOS" \in Errors /\ sctrl.c \in Clients \cup {None}
  BY <1>1 DEF Errors
<1>5. \A c \in Clients : toC[c] \in Seq(Tokens)
  BY HandlerFacts
<1>6. \A c \in Clients : Grows(c, toC[c], toC'[c]) /\ (sctrl # Ctrl(c) => toC'[c] = ch[c])
  BY <1>1, <1>2, <1>3, <1>4, <1>5, TellGrows
<1>7. \A c \in Clients : ends[c] \in {"none", "queued"} =>
        ends[c] = sEnd[c] /\ toC'[c] = toC[c]
  <2>1. ASSUME NEW c \in Clients, ends[c] \in {"none", "queued"}
        PROVE  ends[c] = sEnd[c] /\ toC'[c] = toC[c]
    <3>1. Head(backlog) # Ctrl(c) /\ ends[c] = sEnd[c] /\ ch[c] = toC[c]
      BY <1>2, <2>1
    <3>2. sctrl # Ctrl(c)
      BY <1>1, <2>1, <3>1, CtrlConn
    <3> QED
      BY <1>6, <3>1, <3>2
  <2> QED
    BY <2>1
<1>8. \A c \in Clients : sEnd[c] = "none" => ends[c] = "none"
  BY <1>2
<1>9. \A j \in 1..Len(backlog') : backlog'[j].i = 0 => ends[backlog'[j].c] = "queued"
  <2>1. \A j \in 1..Len(backlog') :
          /\ backlog'[j] \in Conns /\ backlog'[j] # Head(backlog)
          /\ backlog'[j].i = 0 => sEnd[backlog'[j].c] = "queued"
    BY BacklogRest DEF ControlInvariant, ProtocolInvariant
  <2> QED
    BY <1>2, <2>1, ConnIsCtrl
<1> QED
  BY <1>1, <1>2, <1>3, <1>6, <1>7, <1>8, <1>9, TestEnds

LEMMA AcceptStreamProtocol ==
  ASSUME ControlInvariant, ProtocolInvariant, AcceptStream
  PROVE  ProtocolInvariant'
<1>1. /\ spc = "loop" /\ sstate = "CREATE_STREAMS" /\ backlog # <<>>
      /\ UNCHANGED <<toS, clientVars>> /\ sctrl \in Conns
  BY InService DEF AcceptStream
<1>2. CASE /\ SameCookie(Head(backlog)) /\ ~LastStream
           /\ sstreams' = Append(sstreams, Head(backlog))
           /\ backlog' = Tail(backlog)
           /\ UNCHANGED <<spc, sstate, sctrl, toC, sEnd>>
  BY <1>1, <1>2, AppendProtocol DEF SameCookie
<1>3. CASE SameCookie(Head(backlog)) /\ LastStream /\ StartTest
  BY <1>1, <1>3, StartTestProtocol DEF SameCookie
<1>4. CASE /\ ~SameCookie(Head(backlog))
           /\ toC' = Denied(Head(backlog), FALSE)
           /\ sEnd' = SetEnd(sEnd, Head(backlog), "closed")
           /\ backlog' = Tail(backlog)
           /\ UNCHANGED <<spc, sstate, sctrl, sstreams>>
  <2>1. FALSE \in BOOLEAN /\ Head(backlog).c # sctrl.c /\ sstate # "IPERF_START"
    BY <1>1, <1>4 DEF SameCookie
  <2> QED
    BY <1>1, <1>4, <2>1, RefusedProtocol
<1>5. CASE /\ CleanupServer(sctrl, Denied(Head(backlog), FALSE), "IESETTOS", sctrl.c)
           /\ sEnd' = SetEnd(SetEnd(sEnd, Head(backlog), "closed"), sctrl, "shut")
           /\ backlog' = Tail(backlog)
  BY <1>1, <1>5, SetTosProtocol
<1>6. {"IERECVCOOKIE", "IECREATESTREAM", "IESETUSERTIMEOUT", "IESETCONGESTION"}
        \subseteq Errors
  BY DEF Errors
<1>7. ASSUME NEW e \in Errors, Fail(sctrl, e), backlog' = Tail(backlog)
      PROVE  ProtocolInvariant'
  BY <1>1, <1>7, FailProtocol
<1>8. ASSUME NEW e \in Errors, FailLate(e), backlog' = Tail(backlog)
      PROVE  ProtocolInvariant'
  BY <1>1, <1>8, FailLateProtocol
<1> QED
  BY <1>2, <1>3, <1>4, <1>5, <1>6, <1>7, <1>8 DEF AcceptStream

\* A new client fails at once.
LEMMA AcceptFails ==
  ASSUME ControlInvariant, ProtocolInvariant, UNCHANGED <<clientVars, toS>>,
         sctrl = None, backlog # <<>>, backlog' = Tail(backlog),
         NEW f \in Errors, Fail(Head(backlog), f)
  PROVE  ProtocolInvariant'
<1> PICK e \in Errors : FailWith(Head(backlog), e)
  BY FailIsAnError
<1>1. /\ Head(backlog) \in Conns
      /\ \A c \in Clients : Head(backlog) = Ctrl(c) => sEnd[c] = "queued"
  BY RefusedFacts
<1>2. /\ spc' = "sync" /\ sctrl' = Head(backlog)
      /\ toC' = TellClient(toC, Head(backlog), e, Head(backlog).c)
      /\ sEnd' = SetEnd(sEnd, Head(backlog), "shut")
  BY DEF FailWith, CleanupServer
<1>3. Head(backlog).c \in Clients \cup {None}
  BY <1>1, ConnIsCtrl
<1>4. \A c \in Clients : toC[c] \in Seq(Tokens) /\ Grows(c, toC[c], toC[c])
  BY HandlerFacts, GrowsSame
<1>5. \A c \in Clients : Grows(c, toC[c], toC'[c]) /\ (sctrl' # Ctrl(c) => toC'[c] = toC[c])
  BY <1>1, <1>2, <1>3, <1>4, HandlerFacts, TellGrows
<1>6. /\ backlog' \in Seq(Conns)
      /\ \A j \in 1..Len(backlog') :
          /\ backlog'[j] \in Conns /\ backlog'[j] # Head(backlog)
          /\ backlog'[j].i = 0 => sEnd[backlog'[j].c] = "queued"
  BY BacklogRest DEF ControlInvariant, ProtocolInvariant
<1>7. sEnd \in [Clients -> Ends]
  BY HandlerFacts
<1> QED
  BY <1>1, <1>2, <1>5, <1>6, <1>7, CleanupEnds

\* A new client is served.
LEMMA AcceptClientProtocol ==
  ASSUME ControlInvariant, ProtocolInvariant, AcceptClient
  PROVE  ProtocolInvariant'
<1> DEFINE k == Head(backlog)
<1>1. /\ spc = "loop" /\ sctrl = None /\ sstreams = <<>> /\ backlog # <<>>
      /\ backlog' = Tail(backlog) /\ UNCHANGED <<toS, clientVars>>
  BY DEF AcceptClient, ControlInvariant, SocketAndPc, ProtocolInvariant, AcceptedStreams
<1>2. k \in Conns /\ \A c \in Clients : k = Ctrl(c) => sEnd[c] = "queued"
  BY <1>1, RefusedFacts
<1>3. CASE Fail(k, "IESENDMESSAGE") \/ Fail(k, "IERECVCOOKIE")
  <2>1. {"IESENDMESSAGE", "IERECVCOOKIE"} \subseteq Errors
    BY DEF Errors
  <2> QED
    BY <1>1, <1>3, <2>1, AcceptFails
<1>4. CASE /\ spc' = "params" /\ sctrl' = k /\ sstate' = "PARAM_EXCHANGE"
           /\ toC' = SWrite(toC, k, <<Byte("PARAM_EXCHANGE")>>)
           /\ sEnd' = SetEnd(sEnd, k, "open")
           /\ UNCHANGED sstreams
  <2> DEFINE toks == <<Byte("PARAM_EXCHANGE")>>
  <2>1. /\ toks \in Seq(Tokens) /\ Len(toks) = 1 /\ toks[1] = Byte("PARAM_EXCHANGE")
        /\ "open" \in Ends
    BY TokenTypes DEF States, Ends
  <2>2. \A c \in Clients : toC'[c] =
          IF k = Ctrl(c) /\ ~Gone(c) THEN toC[c] \o toks ELSE toC[c]
    BY <1>2, <1>4, <2>1, HandlerFacts, SWriteAt
  <2>3. \A c \in Clients : sEnd'[c] = IF k = Ctrl(c) THEN "open" ELSE sEnd[c]
    <3>1. sEnd \in [Clients -> Ends]
      BY HandlerFacts
    <3> QED
      BY <1>2, <1>4, <2>1, <3>1, SetEndAt
  <2> HIDE DEF toks
  <2>4. ServerPlaces'
    BY <1>1, <1>2, <1>4, <2>3, ConnIsCtrl DEF ServerPlaces
  <2>5. AcceptedStreams' /\ ComingStreams'
    BY <1>1, <1>4 DEF AcceptedStreams, ComingStreams
  <2>6. UNCHANGED <<cEnd, cpc, cstate, cstreams>>
    BY <1>1 DEF clientVars
  <2>7. /\ backlog' \in Seq(Conns)
        /\ \A j \in 1..Len(backlog') :
            /\ backlog'[j] \in Conns /\ backlog'[j] # k
            /\ backlog'[j].i = 0 => sEnd[backlog'[j].c] = "queued"
    BY <1>1, BacklogRest DEF ControlInvariant, ProtocolInvariant
  <2>8. QueuedConns'
    <3>1. \A j \in 1..Len(backlog') : backlog'[j].i = 0 => sEnd'[backlog'[j].c] = "queued"
      BY <2>3, <2>7, ConnIsCtrl
    <3> QED
      BY <1>1, <2>6, <3>1, QueueSuffix DEF ControlInvariant, ProtocolInvariant
  <2>9. ASSUME NEW c \in Clients, k # Ctrl(c)
        PROVE  ClientPlace(c)' /\ ToClient(c)' /\ FromClient(c)'
    <3>1. ~Serving(c)' /\ toC'[c] = toC[c] /\ sEnd'[c] = sEnd[c] /\ toS'[c] = toS[c]
      BY <1>1, <1>4, <2>2, <2>3, <2>9 DEF Serving
    <3>2. Grows(c, toC[c], toC'[c])
      BY <3>1, GrowsSame
    <3> QED
      BY <2>6, <3>1, <3>2, Bystander
  <2>10. ASSUME NEW c \in Clients, k = Ctrl(c)
         PROVE  ClientPlace(c)' /\ ToClient(c)' /\ FromClient(c)'
    <3>1. ClientPlace(c) /\ ToClient(c) /\ FromClient(c) /\ Unserved(c)
      BY <1>2, <2>10 DEF ProtocolInvariant, ClientPlaces, ToClients, FromClients, Unserved
    <3>2. /\ ~Unserved(c)' /\ Serving(c)' /\ Live(c)' = Live(c) /\ cpc[c] # "init"
          /\ ClientRead(c)' = ClientRead(c) /\ ClientSent(c)' = ClientSent(c)
          /\ ServerSent' = 1 /\ ServerRead' = 0
      <4>1. 1 \in 1..Len(backlog) /\ k = backlog[1] /\ k.c = c
        BY <1>1, <2>10, HandlerFacts, TailIndex, CtrlConn
      <4>2. cpc[c] # "init"
        BY <4>1 DEF ProtocolInvariant, QueuedConns
      <4> QED
        BY <1>4, <2>3, <2>6, <2>10, <4>2
           DEF Unserved, Serving, Live, ClientRead, ClientSent, ServerSent, ServerRead
    <3>3. ClientPlace(c)'
      BY <2>6, <3>1, <3>2 DEF ClientPlace, Expected
    <3>4. Live(c) => /\ cEnd[c] = "open" /\ cpc[c] = "loop" /\ cstate[c] = "NONE"
                     /\ ClientRead(c) = 0 /\ ClientSent(c) = 0
      BY <3>1 DEF ClientPlace, Live, ClientRead, ClientSent
    <3>5. ToClient(c)'
      <4>1. toC[c] = <<>>
        BY <3>1 DEF ToClient
      <4>2. Live(c) => toC'[c] = toks
        <5>1. <<>> \o toks = toks
          BY <2>1, ConcatEmptySeq
        <5> QED
          BY <2>2, <2>10, <3>4, <4>1, <5>1 DEF Gone
      <4>3. Says(toks[1], 1)
        BY <2>1 DEF Says
      <4>4. \A j \in 1..Len(toks) : j = 1 /\ 0 + j = 1
        BY <2>1
      <4>5. Live(c) => \A j \in 1..Len(toC'[c]) : Says(toC'[c][j], ClientRead(c)' + j)
        BY <3>2, <3>4, <4>2, <4>3, <4>4
      <4>6. Live(c) => ClientRead(c)' + Len(toC'[c]) = ServerSent'
        BY <2>1, <3>2, <3>4, <4>2
      <4> QED
        BY <3>2, <4>5, <4>6 DEF ToClient
    <3>6. FromClient(c)'
      <4>1. toS'[c] = toS[c] /\ \A j \in 1..Len(toS[c]) : ClientFinal(toS[c][j])
        BY <1>1, <3>1 DEF FromClient
      <4>2. Live(c) => Len(toS[c]) = 0
        <5>1. Live(c) => ~(1 \in 1..Len(toS[c]))
          BY <3>1, <4>1 DEF FromClient
        <5>2. Len(toS[c]) \in Nat
          BY HandlerFacts, LenProperties
        <5> QED
          BY <5>1, <5>2
      <4> QED
        BY <2>6, <3>2, <3>4, <4>1, <4>2 DEF FromClient
    <3> QED
      BY <3>3, <3>5, <3>6
  <2>11. ClientPlaces' /\ ToClients' /\ FromClients'
    BY <2>9, <2>10 DEF ClientPlaces, ToClients, FromClients
  <2> QED
    BY <2>4, <2>5, <2>8, <2>11 DEF ProtocolInvariant
<1> QED
  BY <1>3, <1>4 DEF AcceptClient

----------------------------------------------------------------------------
(* The clients.                                                            *)

\* A step of client c that connects nothing.
LEMMA OneClient ==
  ASSUME ControlInvariant, ProtocolInvariant, NEW c \in Clients,
         UNCHANGED <<spc, sstate, sctrl, sstreams, backlog, sEnd, cstreams>>,
         \A d \in Clients \ {c} :
           UNCHANGED <<toC[d], toS[d], cEnd[d], cpc[d], cstate[d]>>,
         cpc'[c] # "init",
         ClientPlace(c)', ToClient(c)', FromClient(c)'
  PROVE  ProtocolInvariant'
<1>1. ServerPlaces' /\ AcceptedStreams' /\ ComingStreams'
  BY DEF ProtocolInvariant, ServerPlaces, AcceptedStreams, ComingStreams, Expected
<1>2. QueuedConns'
  <2>1. \A j \in 1..Len(backlog) : backlog[j].c \in Clients
    BY HandlerFacts, ElementOfSeq, ConnIsCtrl
  <2>2. \A j \in 1..Len(backlog) : cpc'[backlog[j].c] # "init"
    BY <2>1 DEF ProtocolInvariant, QueuedConns
  <2> QED
    BY <2>2 DEF ProtocolInvariant, QueuedConns
<1>3. \A d \in Clients \ {c} : ClientPlace(d)' /\ ToClient(d)' /\ FromClient(d)'
  BY Untouched
<1>4. ClientPlaces' /\ ToClients' /\ FromClients'
  BY <1>3 DEF ClientPlaces, ToClients, FromClients
<1> QED
  BY <1>1, <1>2, <1>4 DEF ProtocolInvariant

LEMMA AppendIndex ==
  ASSUME NEW S, NEW q \in Seq(S), NEW t \in S
  PROVE  /\ Len(q) \in Nat /\ Len(Append(q, t)) = Len(q) + 1
         /\ Append(q, t) \in Seq(S)
         /\ \A j \in 1..Len(q) : Append(q, t)[j] = q[j]
         /\ Append(q, t)[Len(q) + 1] = t
BY AppendProperties, LenProperties

\* What client c writes.
LEMMA CWriteAt ==
  ASSUME ControlInvariant, NEW c \in Clients, NEW t, CWrite(c, t)
  PROVE  /\ \A d \in Clients \ {c} : toS'[d] = toS[d]
         /\ toS'[c] = IF sEnd[c] = "closed" THEN toS[c] ELSE Append(toS[c], t)
BY ClientFacts DEF CWrite

\* Client c leaves its test, with or without a last word.
LEMMA ClientStops ==
  ASSUME ControlInvariant, ProtocolInvariant, NEW c \in Clients,
         UNCHANGED <<spc, sstate, sctrl, sstreams, backlog, sEnd, cstreams>>,
         \A d \in Clients \ {c} :
           UNCHANGED <<toC[d], toS[d], cEnd[d], cpc[d], cstate[d]>>,
         cpc'[c] \in {"sync", "exited", "vanished"},
         Unserved(c) => toC'[c] = <<>>,
         \/ toS'[c] = toS[c]
         \/ \E t \in Tokens : ClientFinal(t) /\ toS'[c] = Append(toS[c], t)
  PROVE  ProtocolInvariant'
<1>1. ClientPlace(c) /\ ToClient(c) /\ FromClient(c)
  BY DEF ProtocolInvariant, ClientPlaces, ToClients, FromClients
<1>2. /\ ~Live(c)' /\ Unserved(c)' = Unserved(c) /\ Serving(c)' = Serving(c)
      /\ ServerRead' = ServerRead /\ ServerRead \in Nat
  BY DEF Live, Unserved, Serving, ServerRead
<1>3. ClientPlace(c)'
  BY <1>1, <1>2 DEF ClientPlace
<1>4. ToClient(c)'
  BY <1>1, <1>2 DEF ToClient
<1>5. ASSUME NEW j \in 1..Len(toS'[c])
      PROVE  (j \in 1..Len(toS[c]) /\ toS'[c][j] = toS[c][j]) \/ ClientFinal(toS'[c][j])
  <2>1. CASE toS'[c] = toS[c]
    BY <1>5, <2>1
  <2>2. CASE \E t \in Tokens : ClientFinal(t) /\ toS'[c] = Append(toS[c], t)
    <3>1. PICK t \in Tokens : ClientFinal(t) /\ toS'[c] = Append(toS[c], t)
      BY <2>2
    <3>2. /\ Len(toS[c]) \in Nat /\ Len(toS'[c]) = Len(toS[c]) + 1
          /\ \A i \in 1..Len(toS[c]) : toS'[c][i] = toS[c][i]
          /\ toS'[c][Len(toS[c]) + 1] = t
      BY <3>1, ClientFacts, AppendIndex
    <3>3. CASE j \in 1..Len(toS[c])
      BY <3>2, <3>3
    <3>4. CASE j = Len(toS[c]) + 1
      BY <3>1, <3>2, <3>4
    <3> QED
      BY <1>5, <3>2, <3>3, <3>4
  <2> QED
    BY <2>1, <2>2
<1>6. FromClient(c)'
  BY <1>1, <1>2, <1>5 DEF FromClient
<1> QED
  BY <1>3, <1>4, <1>6, OneClient

\* cleanup_and_fail of client c, with its queue read or not.
LEMMA ClientFailProtocol ==
  ASSUME ControlInvariant, ProtocolInvariant, NEW c \in Clients,
         NEW st, NEW e, NEW o, ClientFail(c, st, e, o),
         UNCHANGED <<spc, sstate, sctrl, sstreams, backlog, sEnd, cstreams>>,
         toC' = toC \/ (toC[c] # <<>> /\ toC' = [toC EXCEPT ![c] = Tail(@)])
  PROVE  ProtocolInvariant'
<1>1. \A d \in Clients \ {c} : UNCHANGED <<toC[d], cEnd[d], cpc[d], cstate[d]>>
  BY ClientFacts DEF ClientFail
<1>2. cpc'[c] = "sync"
  BY ClientFacts DEF ClientFail
<1>3. Unserved(c) => toC'[c] = <<>>
  BY DEF ProtocolInvariant, ToClients, ToClient
<1>4. Byte("IPERF_DONE") \in Tokens /\ ClientFinal(Byte("IPERF_DONE"))
  BY TokenTypes DEF States, ClientFinal
<1>5. /\ \A d \in Clients \ {c} : toS'[d] = toS[d]
      /\ toS'[c] = toS[c] \/ toS'[c] = Append(toS[c], Byte("IPERF_DONE"))
  <2>1. UNCHANGED toS \/ CWrite(c, Byte("IPERF_DONE"))
    BY DEF ClientFail
  <2> QED
    BY <2>1, CWriteAt
<1> QED
  BY <1>1, <1>2, <1>3, <1>4, <1>5, ClientStops

\* The first message on its way to a client in its test.
LEMMA HeadOfScript ==
  ASSUME ControlInvariant, ProtocolInvariant, NEW c \in Clients, Live(c), toC[c] # <<>>
  PROVE  /\ ~Unserved(c) /\ ClientRead(c) \in Nat
         /\ Says(Head(toC[c]), ClientRead(c) + 1) \/ Final(Head(toC[c]))
<1>1. Head(toC[c]) = toC[c][1] /\ 1 \in 1..Len(toC[c])
  BY ClientFacts, TailIndex
<1>2. ClientRead(c) \in Nat
  BY DEF ClientRead
<1> QED
  BY <1>1, <1>2 DEF ProtocolInvariant, ToClients, ToClient

\* A client reads the next message of the server's script.
LEMMA ClientConsumes ==
  ASSUME ControlInvariant, ProtocolInvariant, NEW c \in Clients, Live(c),
         UNCHANGED <<spc, sstate, sctrl, sEnd>>,
         toC[c] # <<>>, toC' = [toC EXCEPT ![c] = Tail(@)],
         ClientRead(c)' = ClientRead(c) + 1
  PROVE  ToClient(c)' /\ ~Unserved(c) /\ \A d \in Clients \ {c} : toC'[d] = toC[d]
<1>1. toC \in [Clients -> Seq(Tokens)] /\ toC'[c] = Tail(toC[c]) /\ toC[c] \in Seq(Tokens)
  BY ClientFacts
<1>2. /\ Len(toC[c]) \in Nat \ {0} /\ Len(toC'[c]) = Len(toC[c]) - 1
      /\ \A j \in 1..Len(toC'[c]) : j + 1 \in 1..Len(toC[c]) /\ toC'[c][j] = toC[c][j + 1]
  BY <1>1, TailIndex
<1>3. ToClient(c) /\ ClientRead(c) \in Nat /\ ~Unserved(c)
  BY HeadOfScript DEF ProtocolInvariant, ToClients
<1>4. \A j \in 1..Len(toC'[c]) : ClientRead(c)' + j = ClientRead(c) + (j + 1)
  BY <1>2, <1>3
<1>5. \A j \in 1..Len(toC'[c]) :
        Says(toC'[c][j], ClientRead(c)' + j) \/ Final(toC'[c][j])
  BY <1>2, <1>3, <1>4 DEF ToClient
<1>6. Serving(c) => ClientRead(c)' + Len(toC'[c]) = ServerSent
  <2>1. Serving(c) => ClientRead(c) + Len(toC[c]) = ServerSent
    BY <1>3 DEF ToClient
  <2> QED
    BY <1>2, <1>3, <2>1
<1>7. Serving(c)' = Serving(c) /\ ServerSent' = ServerSent /\ Unserved(c)' = Unserved(c)
  BY DEF Serving, ServerSent, Unserved
<1> QED
  BY <1>1, <1>3, <1>5, <1>6, <1>7 DEF ToClient

\* A client sends the next message of its script.
LEMMA ClientTells ==
  ASSUME ControlInvariant, ProtocolInvariant, NEW c \in Clients, Live(c),
         UNCHANGED <<spc, sstate, sctrl, sEnd>>, ~Unserved(c), cpc'[c] # "init",
         NEW t \in Tokens, CWrite(c, t), ~ClientFinal(t),
         Serving(c) => /\ ClientSent(c)' = ClientSent(c) + 1
                       /\ ClientSays(t, ClientSent(c) + 1)
                       /\ (spc = "params" \/ sstate = "CREATE_STREAMS") => t = Json("PARAMS")
  PROVE  FromClient(c)'
<1>1. /\ Serving(c)' = Serving(c) /\ ~Unserved(c)'
      /\ ServerRead' = ServerRead /\ ServerRead \in Nat
  BY DEF Serving, Unserved, ServerRead
<1>2. CASE ~Serving(c)
  BY <1>1, <1>2 DEF FromClient
<1>3. CASE Serving(c)
  <2>1. sEnd[c] = "open"
    BY <1>3 DEF ProtocolInvariant, ServerPlaces, Serving
  <2>2. toS'[c] = Append(toS[c], t) /\ toS[c] \in Seq(Tokens)
    BY <2>1, CWriteAt, ClientFacts
  <2>3. /\ Len(toS[c]) \in Nat /\ Len(toS'[c]) = Len(toS[c]) + 1
        /\ \A j \in 1..Len(toS[c]) : toS'[c][j] = toS[c][j]
        /\ toS'[c][Len(toS[c]) + 1] = t
    BY <2>2, AppendIndex
  <2>4. FromClient(c)
    BY DEF ProtocolInvariant, FromClients
  <2>5. ServerRead + Len(toS[c]) = ClientSent(c)
    BY <1>3, <2>4 DEF FromClient
  <2>6. ClientSays(t, ServerRead + (Len(toS[c]) + 1))
    <3>1. ServerRead + (Len(toS[c]) + 1) = ClientSent(c) + 1
      BY <1>1, <2>3, <2>5
    <3> QED
      BY <1>3, <3>1
  <2>7. \A j \in 1..Len(toS'[c]) : j \in 1..Len(toS[c]) \/ j = Len(toS[c]) + 1
    BY <2>3
  <2>8. \A j \in 1..Len(toS'[c]) :
          ClientSays(toS'[c][j], ServerRead + j) \/ ClientFinal(toS'[c][j])
    BY <1>3, <2>3, <2>4, <2>6, <2>7 DEF FromClient
  <2>9. (spc = "params" \/ sstate = "CREATE_STREAMS") =>
          \A j \in 1..Len(toS'[c]) : toS'[c][j] = Json("PARAMS") \/ ClientFinal(toS'[c][j])
    BY <1>3, <2>3, <2>4, <2>7 DEF FromClient
  <2>10. ServerRead + Len(toS'[c]) = ClientSent(c)'
    BY <1>1, <1>3, <2>3, <2>5
  <2>11. \A j \in 1..Len(toS'[c]) : ~ClientFinal(toS'[c][j])
    BY <1>3, <2>3, <2>4, <2>7 DEF FromClient
  <2> QED
    BY <1>1, <1>3, <2>8, <2>9, <2>10, <2>11 DEF FromClient
<1> QED
  BY <1>2, <1>3

\* How far a client has come that reads a message of the script.
LEMMA ReadPlaces ==
  ASSUME ControlInvariant, ProtocolInvariant, NEW c \in Clients, Live(c), toC[c] # <<>>
  PROVE  /\ Head(toC[c]) = Byte("PARAM_EXCHANGE") => ClientRead(c) = 0
         /\ Head(toC[c]) = Byte("CREATE_STREAMS") => ClientRead(c) = 1
         /\ Head(toC[c]) = Byte("TEST_START") => ClientRead(c) = 2
         /\ Head(toC[c]) = Byte("TEST_RUNNING") => ClientRead(c) = 3
         /\ Head(toC[c]) = Byte("EXCHANGE_RESULTS") => ClientRead(c) = 4
<1>1. Says(Head(toC[c]), ClientRead(c) + 1) \/ Final(Head(toC[c]))
  BY HeadOfScript
<1>2. ClientRead(c) \in Nat
  BY HeadOfScript
<1> QED
  BY <1>1, <1>2 DEF Says, Final, Byte, Json

\* The server has come at least as far as its client, and not before its
\* client has sent what the server waits for.
LEMMA ScriptOrder ==
  ASSUME ControlInvariant, ProtocolInvariant, NEW c \in Clients, Live(c), Serving(c)
  PROVE  /\ ClientRead(c) + Len(toC[c]) = ServerSent /\ Len(toC[c]) \in Nat
         /\ ServerRead + Len(toS[c]) = ClientSent(c) /\ Len(toS[c]) \in Nat
         /\ ClientRead(c) \in Nat /\ ServerRead \in Nat
         /\ (spc = "params" \/ sstate = "CREATE_STREAMS") => ServerSent <= 2
         /\ spc = "params" => ServerSent = 1
         /\ ServerSent >= 5 => ServerRead >= 2
<1>1. Len(toC[c]) \in Nat /\ Len(toS[c]) \in Nat
  BY ClientFacts, LenProperties
<1>2. ClientRead(c) + Len(toC[c]) = ServerSent /\ ServerRead + Len(toS[c]) = ClientSent(c)
  BY DEF ProtocolInvariant, ToClients, ToClient, FromClients, FromClient
<1>3. ClientRead(c) \in Nat /\ ServerRead \in Nat
  BY DEF ClientRead, ServerRead
<1>4. spc \in {"params", "loop", "results"} /\ (spc = "results" => sstate = "EXCHANGE_RESULTS")
  BY DEF Serving, ProtocolInvariant, ServerPlaces
<1>5. spc = "loop" => sstate \in {"CREATE_STREAMS", "TEST_RUNNING", "DISPLAY_RESULTS"}
  BY CtrlConn DEF Serving, ProtocolInvariant, ServerPlaces
<1>6. /\ (spc = "params" \/ sstate = "CREATE_STREAMS") => ServerSent <= 2
      /\ spc = "params" => ServerSent = 1
      /\ ServerSent >= 5 => ServerRead >= 2
  BY <1>4, <1>5 DEF ServerSent, ServerRead
<1> QED
  BY <1>1, <1>2, <1>3, <1>6

LEMMA OnParamExchangeProtocol ==
  ASSUME ControlInvariant, ProtocolInvariant, NEW c \in Clients, OnParamExchange(c)
  PROVE  ProtocolInvariant'
<1>1. /\ cpc[c] = "loop" /\ toC[c] # <<>> /\ toC' = [toC EXCEPT ![c] = Tail(@)] /\ Live(c)
      /\ Head(toC[c]) = Byte("PARAM_EXCHANGE")
      /\ UNCHANGED <<spc, sstate, sctrl, sstreams, backlog, sEnd, cstreams>>
  BY DEF OnParamExchange, Reads, Live, serverVars
<1>2. CASE ClientFail(c, "PARAM_EXCHANGE", "IESENDMESSAGE", None)
  BY <1>1, <1>2, ClientFailProtocol
<1>3. CASE /\ CWrite(c, Json("PARAMS"))
           /\ cstate' = [cstate EXCEPT ![c] = "PARAM_EXCHANGE"]
           /\ UNCHANGED <<cpc, cEnd>>
  <2>1. ClientRead(c) = 0 /\ ~Unserved(c)
    BY <1>1, ReadPlaces, HeadOfScript
  <2>2. cstate[c] = "NONE" /\ cstate'[c] = "PARAM_EXCHANGE" /\ cpc'[c] = "loop"
    BY <1>1, <1>3, <2>1, ClientFacts DEF ProtocolInvariant, ClientPlaces, ClientPlace, ClientRead
  <2>3. ClientRead(c)' = ClientRead(c) + 1 /\ ClientSent(c) = 0 /\ ClientSent(c)' = 1
    BY <2>2, <1>1 DEF ClientRead, ClientSent
  <2>4. ToClient(c)' /\ \A d \in Clients \ {c} : toC'[d] = toC[d]
    BY <1>1, <2>1, <2>3, ClientConsumes
  <2>5. Json("PARAMS") \in Tokens /\ ~ClientFinal(Json("PARAMS")) /\ ClientSays(Json("PARAMS"), 1)
    BY TokenTypes DEF Json, Byte, ClientFinal, ClientSays
  <2>6. FromClient(c)'
    <3>1. ClientSent(c)' = ClientSent(c) + 1 /\ ClientSays(Json("PARAMS"), ClientSent(c) + 1)
      BY <2>3, <2>5
    <3> QED
      BY <1>1, <1>3, <2>1, <2>2, <2>5, <3>1, ClientTells
  <2>7. ClientPlace(c)'
    <3>1. ClientPlace(c)
      BY DEF ProtocolInvariant, ClientPlaces
    <3> QED
      BY <1>1, <1>3, <2>1, <2>2, <3>1 DEF ClientPlace, Live, Unserved, Serving
  <2>8. \A d \in Clients \ {c} : UNCHANGED <<toC[d], toS[d], cEnd[d], cpc[d], cstate[d]>>
    BY <1>3, <2>4, CWriteAt, ClientFacts
  <2> QED
    BY <1>1, <2>2, <2>4, <2>6, <2>7, <2>8, OneClient
<1> QED
  BY <1>2, <1>3 DEF OnParamExchange

\* The client's part of the invariant when it sends nothing.
LEMMA ClientSilent ==
  ASSUME ProtocolInvariant, NEW c \in Clients, Live(c), ~Unserved(c), cpc'[c] # "init",
         UNCHANGED <<spc, sstate, sctrl, sEnd, toS>>, ClientSent(c)' = ClientSent(c)
  PROVE  FromClient(c)'
<1>1. FromClient(c)
  BY DEF ProtocolInvariant, FromClients
<1>2. Serving(c)' = Serving(c) /\ Unserved(c)' = Unserved(c) /\ ServerRead' = ServerRead
  BY DEF Serving, Unserved, ServerRead
<1> QED
  BY <1>1, <1>2 DEF FromClient

LEMMA OnCreateStreamsProtocol ==
  ASSUME ControlInvariant, ProtocolInvariant, NEW c \in Clients, OnCreateStreams(c)
  PROVE  ProtocolInvariant'
<1>1. /\ cpc[c] = "loop" /\ toC[c] # <<>> /\ toC' = [toC EXCEPT ![c] = Tail(@)] /\ Live(c)
      /\ Head(toC[c]) = Byte("CREATE_STREAMS")
      /\ UNCHANGED <<spc, sstate, sctrl, sstreams, backlog, sEnd, cstreams, cEnd, toS>>
      /\ cstate' = [cstate EXCEPT ![c] = "CREATE_STREAMS"]
      /\ cpc' = [cpc EXCEPT ![c] = "streams"]
  BY DEF OnCreateStreams, Reads, Live, serverVars
<1>2. ClientRead(c) = 1 /\ ~Unserved(c)
  BY <1>1, ReadPlaces, HeadOfScript
<1>3. cstate[c] = "PARAM_EXCHANGE" /\ cstate'[c] = "CREATE_STREAMS" /\ cpc'[c] = "streams"
  BY <1>1, <1>2, ClientFacts DEF ProtocolInvariant, ClientPlaces, ClientPlace, ClientRead
<1>4. ClientRead(c)' = ClientRead(c) + 1 /\ ClientSent(c)' = ClientSent(c)
  BY <1>1, <1>3 DEF ClientRead, ClientSent
<1>5. ToClient(c)' /\ \A d \in Clients \ {c} : toC'[d] = toC[d]
  BY <1>1, <1>2, <1>4, ClientConsumes
<1>6. FromClient(c)'
  BY <1>1, <1>2, <1>3, <1>4, ClientSilent
<1>7. ClientPlace(c)'
  <2>1. ClientPlace(c)
    BY DEF ProtocolInvariant, ClientPlaces
  <2> QED
    BY <1>1, <1>2, <1>3, <2>1 DEF ClientPlace, Live, Unserved, Serving
<1>8. \A d \in Clients \ {c} : UNCHANGED <<toC[d], toS[d], cEnd[d], cpc[d], cstate[d]>>
  BY <1>1, <1>5, ClientFacts
<1> QED
  BY <1>1, <1>3, <1>5, <1>6, <1>7, <1>8, OneClient

LEMMA OnTestStartProtocol ==
  ASSUME ControlInvariant, ProtocolInvariant, NEW c \in Clients, OnTestStart(c)
  PROVE  ProtocolInvariant'
<1>1. PICK st \in {"TEST_START", "TEST_RUNNING"} :
        /\ cpc[c] = "loop" /\ toC[c] # <<>> /\ toC' = [toC EXCEPT ![c] = Tail(@)] /\ Live(c)
        /\ Head(toC[c]) = Byte(st)
        /\ UNCHANGED <<spc, sstate, sctrl, sstreams, backlog, sEnd, cstreams, cEnd, toS, cpc>>
        /\ cstate' = [cstate EXCEPT ![c] = st]
  BY DEF OnTestStart, Reads, Live, serverVars
<1>2. ~Unserved(c) /\ (IF st = "TEST_START" THEN ClientRead(c) = 2 ELSE ClientRead(c) = 3)
  BY <1>1, ReadPlaces, HeadOfScript
<1>3. /\ cstate[c] = IF st = "TEST_START" THEN "CREATE_STREAMS" ELSE "TEST_START"
      /\ cstate'[c] = st /\ cpc'[c] = "loop" /\ cstreams[c] = Expected(c)
  BY <1>1, <1>2, ClientFacts DEF ProtocolInvariant, ClientPlaces, ClientPlace, ClientRead
<1>4. ClientRead(c)' = ClientRead(c) + 1 /\ ClientSent(c)' = ClientSent(c)
  BY <1>1, <1>2, <1>3 DEF ClientRead, ClientSent
<1>5. ToClient(c)' /\ \A d \in Clients \ {c} : toC'[d] = toC[d]
  BY <1>1, <1>2, <1>4, ClientConsumes
<1>6. FromClient(c)'
  BY <1>1, <1>2, <1>3, <1>4, ClientSilent
<1>7. ClientPlace(c)'
  <2>1. ClientPlace(c)
    BY DEF ProtocolInvariant, ClientPlaces
  <2> QED
    BY <1>1, <1>2, <1>3, <2>1 DEF ClientPlace, Live, Unserved, Serving, Expected
<1>8. \A d \in Clients \ {c} : UNCHANGED <<toC[d], toS[d], cEnd[d], cpc[d], cstate[d]>>
  BY <1>1, <1>5, ClientFacts
<1> QED
  BY <1>1, <1>3, <1>5, <1>6, <1>7, <1>8, OneClient

LEMMA EndTestProtocol ==
  ASSUME ControlInvariant, ProtocolInvariant, NEW c \in Clients, EndTest(c)
  PROVE  ProtocolInvariant'
<1>1. /\ cpc[c] = "loop" /\ cstate[c] = "TEST_RUNNING" /\ Live(c)
      /\ UNCHANGED <<spc, sstate, sctrl, sstreams, backlog, sEnd, cstreams, toC>>
  BY DEF EndTest, Live, serverVars
<1>2. CASE ClientFail(c, "TEST_END", "IESENDMESSAGE", None)
  BY <1>1, <1>2, ClientFailProtocol
<1>3. CASE /\ CWrite(c, Byte("TEST_END"))
           /\ cstate' = [cstate EXCEPT ![c] = "TEST_END"]
           /\ UNCHANGED <<cpc, cEnd>>
  <2>1. ClientPlace(c) /\ ~Unserved(c)
    BY <1>1 DEF ProtocolInvariant, ClientPlaces, ClientPlace
  <2>2. cstate'[c] = "TEST_END" /\ cpc'[c] = "loop"
    BY <1>1, <1>3, ClientFacts
  <2>3. /\ ClientRead(c) = 4 /\ ClientRead(c)' = ClientRead(c)
        /\ ClientSent(c) = 1 /\ ClientSent(c)' = 2
    BY <1>1, <2>2 DEF ClientRead, ClientSent
  <2>4. ToClient(c)'
    <3>1. ToClient(c)
      BY DEF ProtocolInvariant, ToClients
    <3>2. Serving(c)' = Serving(c) /\ Unserved(c)' = Unserved(c) /\ ServerSent' = ServerSent
      BY <1>1 DEF Serving, Unserved, ServerSent
    <3> QED
      BY <1>1, <2>3, <3>1, <3>2 DEF ToClient
  <2>5. /\ Byte("TEST_END") \in Tokens /\ ~ClientFinal(Byte("TEST_END"))
        /\ ClientSays(Byte("TEST_END"), 2)
    BY TokenTypes DEF States, Byte, ClientFinal, ClientSays
  <2>6. Serving(c) => ~(spc = "params" \/ sstate = "CREATE_STREAMS")
    BY <1>1, <2>3, ScriptOrder
  <2>7. FromClient(c)'
    <3>1. ClientSent(c)' = ClientSent(c) + 1 /\ ClientSays(Byte("TEST_END"), ClientSent(c) + 1)
      BY <2>3, <2>5
    <3> QED
      BY <1>1, <1>3, <2>1, <2>2, <2>5, <2>6, <3>1, ClientTells
  <2>8. ClientPlace(c)'
    BY <1>1, <1>3, <2>1, <2>2 DEF ClientPlace, Live, Unserved, Serving, Expected
  <2>9. \A d \in Clients \ {c} : UNCHANGED <<toC[d], toS[d], cEnd[d], cpc[d], cstate[d]>>
    BY <1>1, <1>3, CWriteAt, ClientFacts
  <2> QED
    BY <1>1, <2>2, <2>4, <2>7, <2>8, <2>9, OneClient
<1> QED
  BY <1>2, <1>3 DEF EndTest

LEMMA OnExchangeResultsProtocol ==
  ASSUME ControlInvariant, ProtocolInvariant, NEW c \in Clients, OnExchangeResults(c)
  PROVE  ProtocolInvariant'
<1>1. /\ cpc[c] = "loop" /\ toC[c] # <<>> /\ toC' = [toC EXCEPT ![c] = Tail(@)] /\ Live(c)
      /\ Head(toC[c]) = Byte("EXCHANGE_RESULTS")
      /\ UNCHANGED <<spc, sstate, sctrl, sstreams, backlog, sEnd, cstreams>>
  BY DEF OnExchangeResults, Reads, Live, serverVars
<1>2. CASE ClientFail(c, "EXCHANGE_RESULTS", "IESENDMESSAGE", None)
  BY <1>1, <1>2, ClientFailProtocol
<1>3. CASE /\ CWrite(c, Json("RESULTS"))
           /\ cstate' = [cstate EXCEPT ![c] = "EXCHANGE_RESULTS"]
           /\ cpc' = [cpc EXCEPT ![c] = "results"]
           /\ UNCHANGED cEnd
  <2>1. ClientRead(c) = 4 /\ ~Unserved(c) /\ ClientPlace(c)
    BY <1>1, ReadPlaces, HeadOfScript DEF ProtocolInvariant, ClientPlaces
  <2>2. /\ cstate[c] \in {"TEST_RUNNING", "TEST_END"}
        /\ cstate'[c] = "EXCHANGE_RESULTS" /\ cpc'[c] = "results"
    BY <1>1, <1>3, <2>1, ClientFacts DEF ClientPlace, ClientRead
  <2>3. ClientRead(c)' = ClientRead(c) + 1 /\ ClientSent(c)' = 3
    BY <2>1, <2>2 DEF ClientRead, ClientSent
  <2>4. ToClient(c)' /\ \A d \in Clients \ {c} : toC'[d] = toC[d]
    BY <1>1, <2>3, ClientConsumes
  <2>5. /\ Json("RESULTS") \in Tokens /\ ~ClientFinal(Json("RESULTS"))
        /\ ClientSays(Json("RESULTS"), 3)
    BY TokenTypes DEF Json, Byte, ClientFinal, ClientSays
  <2>6. ASSUME Serving(c)
        PROVE  /\ ClientSent(c) = 2 /\ ~(spc = "params" \/ sstate = "CREATE_STREAMS")
    <3>1. Len(toC[c]) \in Nat \ {0}
      BY <1>1, ClientFacts, TailIndex
    <3>2. ServerSent >= 5
      BY <1>1, <2>1, <2>6, <3>1, ScriptOrder
    <3>3. ServerRead >= 2
      BY <1>1, <2>6, <3>2, ScriptOrder
    <3>4. ClientSent(c) >= 2
      BY <1>1, <2>6, <3>3, ScriptOrder
    <3>5. ClientSent(c) \in {1, 2}
      BY <2>2 DEF ClientSent
    <3> QED
      BY <1>1, <2>6, <3>2, <3>4, <3>5, ScriptOrder
  <2>7. FromClient(c)'
    <3>1. Serving(c) => ClientSent(c)' = ClientSent(c) + 1 /\ ClientSays(Json("RESULTS"), ClientSent(c) + 1)
      BY <2>3, <2>5, <2>6
    <3> QED
      BY <1>1, <1>3, <2>1, <2>2, <2>5, <2>6, <3>1, ClientTells
  <2>8. ClientPlace(c)'
    BY <1>1, <1>3, <2>1, <2>2 DEF ClientPlace, Live, Unserved, Serving, Expected
  <2>9. \A d \in Clients \ {c} : UNCHANGED <<toC[d], toS[d], cEnd[d], cpc[d], cstate[d]>>
    BY <1>1, <1>3, <2>4, CWriteAt, ClientFacts
  <2> QED
    BY <1>1, <2>2, <2>4, <2>7, <2>8, <2>9, OneClient
<1> QED
  BY <1>2, <1>3 DEF OnExchangeResults

LEMMA ClientReadResultsProtocol ==
  ASSUME ControlInvariant, ProtocolInvariant, NEW c \in Clients, ClientReadResults(c)
  PROVE  ProtocolInvariant'
<1>1. /\ cpc[c] = "results" /\ Live(c)
      /\ UNCHANGED <<spc, sstate, sctrl, sstreams, backlog, sEnd, cstreams>>
  BY DEF ClientReadResults, Live, serverVars
<1>2. CASE ClientFail(c, "EXCHANGE_RESULTS", "IERECVRESULTS", None) /\ UNCHANGED toC
  BY <1>1, <1>2, ClientFailProtocol
<1>3. CASE /\ toC[c] # <<>> /\ toC' = [toC EXCEPT ![c] = Tail(@)]
           /\ cpc' = [cpc EXCEPT ![c] = "loop"]
           /\ UNCHANGED <<cEnd, cstate, toS>>
  <2>1. ~Unserved(c) /\ ClientPlace(c)
    BY <1>1, <1>3, HeadOfScript DEF ProtocolInvariant, ClientPlaces
  <2>2. cstate[c] = "EXCHANGE_RESULTS" /\ cpc'[c] = "loop" /\ cstate'[c] = cstate[c]
    BY <1>1, <1>3, <2>1, ClientFacts DEF ClientPlace
  <2>3. ClientRead(c)' = ClientRead(c) + 1 /\ ClientSent(c)' = ClientSent(c)
    BY <1>1, <2>2 DEF ClientRead, ClientSent
  <2>4. ToClient(c)' /\ \A d \in Clients \ {c} : toC'[d] = toC[d]
    BY <1>1, <1>3, <2>3, ClientConsumes
  <2>5. FromClient(c)'
    BY <1>1, <1>3, <2>1, <2>2, <2>3, ClientSilent
  <2>6. ClientPlace(c)'
    BY <1>1, <1>3, <2>1, <2>2 DEF ClientPlace, Live, Unserved, Serving, Expected
  <2>7. \A d \in Clients \ {c} : UNCHANGED <<toC[d], toS[d], cEnd[d], cpc[d], cstate[d]>>
    BY <1>3, <2>4, ClientFacts
  <2> QED
    BY <1>1, <2>2, <2>4, <2>5, <2>6, <2>7, OneClient
<1> QED
  BY <1>2, <1>3 DEF ClientReadResults

\* The steps with which a client leaves its test.
LEMMA ClientLeavesProtocol ==
  ASSUME ControlInvariant, ProtocolInvariant, NEW c \in Clients,
         \/ OnDisplayResults(c) \/ OnServerLeaves(c) \/ ClientNoData(c)
         \/ ClientSyncClose(c) \/ ClientInterrupted(c) \/ ClientVanishes(c)
  PROVE  ProtocolInvariant'
<1>1. UNCHANGED <<spc, sstate, sctrl, sstreams, backlog, sEnd, cstreams>>
  BY DEF OnDisplayResults, OnServerLeaves, ClientNoData, ClientSyncClose,
         ClientInterrupted, ClientVanishes, serverVars
<1>2. CASE OnServerLeaves(c)
  <2>1. toC' = toC \/ (toC[c] # <<>> /\ toC' = [toC EXCEPT ![c] = Tail(@)])
    BY <1>2 DEF OnServerLeaves, Reads
  <2>2. \E st, e, o : ClientFail(c, st, e, o)
    BY <1>2 DEF OnServerLeaves
  <2> QED
    BY <1>1, <2>1, <2>2, ClientFailProtocol
<1>3. CASE ClientNoData(c)
  BY <1>1, <1>3, ClientFailProtocol DEF ClientNoData
<1>4. \A t \in {"IPERF_DONE", "CLIENT_TERMINATE"} : Byte(t) \in Tokens /\ ClientFinal(Byte(t))
  BY TokenTypes DEF States, ClientFinal
<1>5. Unserved(c) => toC[c] = <<>>
  BY DEF ProtocolInvariant, ToClients, ToClient
<1>6. CASE OnDisplayResults(c) \/ ClientInterrupted(c)
  <2>1. PICK t \in {"IPERF_DONE", "CLIENT_TERMINATE"} : CWrite(c, Byte(t))
    BY <1>6 DEF OnDisplayResults, ClientInterrupted
  <2>2. /\ \A d \in Clients \ {c} : toS'[d] = toS[d]
        /\ toS'[c] = toS[c] \/ toS'[c] = Append(toS[c], Byte(t))
    BY <2>1, CWriteAt
  <2>3. \A d \in Clients \ {c} : UNCHANGED <<toC[d], cEnd[d], cpc[d], cstate[d]>>
    BY <1>6, ClientFacts DEF OnDisplayResults, ClientInterrupted, Reads
  <2>4. cpc'[c] \in {"sync", "exited", "vanished"}
    BY <1>6, ClientFacts DEF OnDisplayResults, ClientInterrupted
  <2>5. Unserved(c) => toC'[c] = <<>>
    BY <1>5, <1>6, ClientFacts DEF OnDisplayResults, ClientInterrupted, Reads
  <2> QED
    BY <1>1, <1>4, <2>2, <2>3, <2>4, <2>5, ClientStops
<1>7. CASE ClientSyncClose(c) \/ ClientVanishes(c)
  <2>1. \A d \in Clients \ {c} : UNCHANGED <<toC[d], toS[d], cEnd[d], cpc[d], cstate[d]>>
    BY <1>7, ClientFacts DEF ClientSyncClose, ClientVanishes
  <2>2. cpc'[c] \in {"sync", "exited", "vanished"} /\ toS' = toS
    BY <1>7, ClientFacts DEF ClientSyncClose, ClientVanishes
  <2>3. Unserved(c) => toC'[c] = <<>>
    BY <1>5, <1>7, ClientFacts DEF ClientSyncClose, ClientVanishes
  <2> QED
    BY <1>1, <2>1, <2>2, <2>3, ClientStops
<1> QED
  BY <1>2, <1>3, <1>6, <1>7

\* iperf_connect.
LEMMA ConnectProtocol ==
  ASSUME ControlInvariant, ProtocolInvariant, NEW c \in Clients, Connect(c)
  PROVE  ProtocolInvariant'
<1>1. /\ cpc[c] = "init"
      /\ UNCHANGED <<spc, sstate, sctrl, sstreams, toS, toC, cstate, cstreams>>
  BY DEF Connect
<1>2. /\ ClientPlace(c) /\ ToClient(c) /\ FromClient(c)
      /\ sEnd[c] = "none" /\ Unserved(c) /\ cstate[c] = "NONE" /\ cstreams[c] = 0
      /\ toC[c] = <<>> /\ toS[c] = <<>> /\ Len(toC[c]) = 0 /\ Len(toS[c]) = 0
  <2>1. ClientPlace(c) /\ ToClient(c) /\ FromClient(c)
    BY DEF ProtocolInvariant, ClientPlaces, ToClients, FromClients
  <2>2. sEnd[c] = "none" /\ cstate[c] = "NONE" /\ Unserved(c) /\ toS[c] = <<>>
    BY <1>1, <2>1 DEF ClientPlace, FromClient, Unserved
  <2> QED
    BY <2>1, <2>2 DEF ClientPlace, ToClient
<1>3. sctrl # Ctrl(c) /\ ~Serving(c)'
  BY <1>1, <1>2 DEF ProtocolInvariant, ServerPlaces, Serving
<1>4. CASE /\ cpc' = [cpc EXCEPT ![c] = "exited"]
           /\ UNCHANGED <<backlog, sEnd, cEnd>>
  <2>1. \A d \in Clients \ {c} : UNCHANGED <<toC[d], toS[d], cEnd[d], cpc[d], cstate[d]>>
    BY <1>1, <1>4, ClientFacts
  <2>2. cpc'[c] = "exited"
    BY <1>4, ClientFacts
  <2> QED
    BY <1>1, <1>2, <1>4, <2>1, <2>2, ClientStops
<1>5. CASE /\ backlog' = Append(backlog, [c |-> c, i |-> 0])
           /\ sEnd' = [sEnd EXCEPT ![c] = "queued"]
           /\ cEnd' = [cEnd EXCEPT ![c] = "open"]
           /\ cpc' = [cpc EXCEPT ![c] = "loop"]
  <2>1. /\ sEnd'[c] = "queued" /\ cEnd'[c] = "open" /\ cpc'[c] = "loop"
        /\ \A d \in Clients \ {c} : UNCHANGED <<sEnd[d], cEnd[d], cpc[d]>>
    BY <1>5, ClientFacts
  <2>2. /\ Len(backlog) \in Nat /\ Len(backlog') = Len(backlog) + 1
        /\ \A j \in 1..Len(backlog) : backlog'[j] = backlog[j]
        /\ backlog'[Len(backlog) + 1] = Ctrl(c)
    <3>1. Ctrl(c) \in Conns /\ backlog' = Append(backlog, Ctrl(c)) /\ backlog \in Seq(Conns)
      BY <1>5, CtrlConn, ClientFacts DEF Ctrl
    <3> QED
      BY <3>1, AppendIndex
  <2>3. \A j \in 1..Len(backlog) : /\ backlog[j] \in Conns /\ backlog[j].c \in Clients \ {c}
                                   /\ backlog[j].i \in Nat
    <3>1. \A j \in 1..Len(backlog) : backlog[j] \in Conns
      BY ClientFacts, ElementOfSeq
    <3> QED
      BY <1>1, <3>1, ConnIsCtrl DEF ProtocolInvariant, QueuedConns
  <2>4. \A j \in 1..Len(backlog') : j \in 1..Len(backlog) \/ j = Len(backlog) + 1
    BY <2>2
  <2>5. QueuedConns'
    <3>1. \A j \in 1..Len(backlog') :
            /\ backlog'[j].i = 0 => sEnd'[backlog'[j].c] = "queued"
            /\ backlog'[j].i <= cstreams'[backlog'[j].c]
            /\ cpc'[backlog'[j].c] # "init"
      <4>1. ASSUME NEW j \in 1..Len(backlog)
            PROVE  /\ backlog'[j].i = 0 => sEnd'[backlog'[j].c] = "queued"
                   /\ backlog'[j].i <= cstreams'[backlog'[j].c]
                   /\ cpc'[backlog'[j].c] # "init"
        BY <1>1, <2>1, <2>2, <2>3 DEF ProtocolInvariant, QueuedConns
      <4>2. /\ sEnd'[Ctrl(c).c] = "queued" /\ Ctrl(c).i <= cstreams'[Ctrl(c).c]
            /\ cpc'[Ctrl(c).c] # "init"
        BY <1>1, <1>2, <2>1, CtrlConn
      <4> QED
        BY <2>2, <2>4, <4>1, <4>2
    <3>2. ASSUME NEW j \in 1..Len(backlog'), NEW k \in 1..Len(backlog'),
                 j < k, backlog'[j].c = backlog'[k].c
          PROVE  backlog'[j].i < backlog'[k].i
      <4>1. j \in 1..Len(backlog)
        BY <2>2, <3>2
      <4>2. k # Len(backlog) + 1
        BY <2>2, <2>3, <3>2, <4>1, CtrlConn
      <4>3. k \in 1..Len(backlog)
        BY <2>4, <4>2
      <4> QED
        BY <2>2, <3>2, <4>1, <4>3 DEF ProtocolInvariant, QueuedConns
    <3> QED
      BY <3>1, <3>2 DEF QueuedConns
  <2>6. ComingStreams'
    <3>1. ASSUME spc = "loop", sstate = "CREATE_STREAMS"
          PROVE  sctrl.c # c
      BY <1>3, <3>1, InService
    <3>2. ASSUME spc = "loop", sstate = "CREATE_STREAMS",
                 NEW j \in 1..Len(backlog'), backlog'[j].c = sctrl.c
          PROVE  backlog'[j].i > Len(sstreams)
      <4>1. j \in 1..Len(backlog)
        BY <2>2, <2>4, <3>1, <3>2, CtrlConn
      <4> QED
        BY <2>2, <3>2, <4>1 DEF ProtocolInvariant, ComingStreams
    <3>3. ASSUME spc = "loop", sstate = "CREATE_STREAMS",
                 NEW i \in Len(sstreams) + 1 .. cstreams[sctrl.c]
          PROVE  \E j \in 1..Len(backlog') : backlog'[j] = [c |-> sctrl.c, i |-> i]
      <4>1. PICK j \in 1..Len(backlog) : backlog[j] = [c |-> sctrl.c, i |-> i]
        BY <3>3 DEF ProtocolInvariant, ComingStreams
      <4>2. j \in 1..Len(backlog')
        BY <2>2
      <4> QED
        BY <2>2, <4>1, <4>2
    <3>4. (spc = "loop" /\ sstate = "CREATE_STREAMS") => Len(sstreams) <= cstreams[sctrl.c]
      BY DEF ProtocolInvariant, ComingStreams
    <3> QED
      BY <1>1, <3>2, <3>3, <3>4 DEF ComingStreams
  <2>7. ServerPlaces'
    BY <1>1, <1>3, <2>1 DEF ProtocolInvariant, ServerPlaces
  <2>8. AcceptedStreams'
    BY <1>1 DEF ProtocolInvariant, AcceptedStreams, Expected
  <2>9. Unserved(c)' /\ Live(c)'
    BY <2>1 DEF Unserved, Live
  <2>10. ClientPlace(c)'
    BY <1>1, <1>2, <2>1 DEF ClientPlace
  <2>11. ToClient(c)'
    BY <1>1, <1>2, <1>3 DEF ToClient
  <2>12. FromClient(c)'
    BY <1>1, <1>2, <1>3 DEF FromClient
  <2>13. \A d \in Clients \ {c} : ClientPlace(d)' /\ ToClient(d)' /\ FromClient(d)'
    BY <1>1, <2>1, Untouched
  <2>14. ClientPlaces' /\ ToClients' /\ FromClients'
    BY <2>10, <2>11, <2>12, <2>13 DEF ClientPlaces, ToClients, FromClients
  <2> QED
    BY <2>5, <2>6, <2>7, <2>8, <2>14 DEF ProtocolInvariant
<1> QED
  BY <1>4, <1>5 DEF Connect

\* iperf_tcp_connect of the next stream.
LEMMA ConnectStreamProtocol ==
  ASSUME ControlInvariant, ProtocolInvariant, NEW c \in Clients, ConnectStream(c)
  PROVE  ProtocolInvariant'
<1>1. /\ cpc[c] = "streams" /\ Live(c)
      /\ UNCHANGED <<spc, sstate, sctrl, sstreams, sEnd, toC>>
  BY DEF ConnectStream, Live
<1>2. CASE ClientFail(c, "CREATE_STREAMS", "IESTREAMCONNECT", None) /\ UNCHANGED <<cstreams, backlog>>
  BY <1>1, <1>2, ClientFailProtocol
<1>3. CASE /\ cstreams' = [cstreams EXCEPT ![c] = @ + 1]
           /\ backlog' = Append(backlog, [c |-> c, i |-> cstreams[c] + 1])
           /\ cpc' = IF cstreams[c] + 1 = Expected(c)
                     THEN [cpc EXCEPT ![c] = "loop"] ELSE cpc
           /\ UNCHANGED <<cEnd, cstate, toS>>
  <2> DEFINE k == [c |-> c, i |-> cstreams[c] + 1]
  <2>1. ClientPlace(c) /\ ToClient(c) /\ FromClient(c)
    BY DEF ProtocolInvariant, ClientPlaces, ToClients, FromClients
  <2>2. cstate[c] = "CREATE_STREAMS" /\ cEnd[c] = "open" /\ ~Unserved(c)
    BY <1>1, <2>1 DEF ClientPlace
  <2>3. /\ cstreams[c] \in Nat /\ cstreams'[c] = cstreams[c] + 1
        /\ cpc'[c] = (IF cstreams[c] + 1 = Expected(c) THEN "loop" ELSE "streams")
        /\ \A d \in Clients \ {c} : UNCHANGED <<cstreams[d], cpc[d]>>
    BY <1>1, <1>3, ClientFacts
  <2>4. ClientRead(c) = 2 /\ ClientRead(c)' = 2 /\ ClientSent(c)' = ClientSent(c)
    BY <1>1, <1>3, <2>2, <2>3 DEF ClientRead, ClientSent
  <2>5. ~(Serving(c) /\ spc = "params")
    BY <1>1, <2>4, ScriptOrder
  <2>6. Serving(c)' = Serving(c) /\ Unserved(c)' = Unserved(c) /\ ServerSent' = ServerSent
    BY <1>1 DEF Serving, Unserved, ServerSent
  <2>7. ClientPlace(c)'
    BY <1>1, <1>3, <2>1, <2>2, <2>3, <2>5, <2>6 DEF ClientPlace, Live, Expected
  <2>8. ToClient(c)'
    BY <1>1, <2>1, <2>4, <2>6 DEF ToClient
  <2>9. FromClient(c)'
    BY <1>1, <1>3, <2>2, <2>3, <2>4, ClientSilent
  <2>10. /\ Len(backlog) \in Nat /\ Len(backlog') = Len(backlog) + 1
         /\ \A j \in 1..Len(backlog) : backlog'[j] = backlog[j]
         /\ backlog'[Len(backlog) + 1] = k
    <3>1. k \in Conns /\ backlog \in Seq(Conns)
      BY <2>3, ClientFacts DEF Conns
    <3> QED
      BY <1>3, <3>1, AppendIndex
  <2>11. k.c = c /\ k.i = cstreams[c] + 1 /\ k.i # 0
    BY <2>3
  <2> HIDE DEF k
  <2>12. \A j \in 1..Len(backlog) : /\ backlog[j].c \in Clients /\ backlog[j].i \in Nat
                                    /\ backlog[j].i <= cstreams[backlog[j].c]
    <3>1. \A j \in 1..Len(backlog) : backlog[j] \in Conns
      BY ClientFacts, ElementOfSeq
    <3> QED
      BY <3>1, ConnIsCtrl DEF ProtocolInvariant, QueuedConns
  <2>13. \A j \in 1..Len(backlog') : j \in 1..Len(backlog) \/ j = Len(backlog) + 1
    BY <2>10
  <2>14. \A d \in Clients : cstreams[d] \in Nat /\ cstreams[d] <= cstreams'[d]
    <3> TAKE d \in Clients
    <3>1. cstreams[d] \in Nat
      BY ClientFacts
    <3>2. CASE d = c
      BY <2>3, <3>1, <3>2
    <3>3. CASE d # c
      BY <2>3, <3>1, <3>3
    <3> QED
      BY <3>1, <3>2, <3>3
  <2>15. QueuedConns'
    <3>1. ASSUME NEW j \in 1..Len(backlog)
          PROVE  /\ backlog[j].i = 0 => sEnd'[backlog[j].c] = "queued"
                 /\ backlog[j].i <= cstreams'[backlog[j].c]
                 /\ cpc'[backlog[j].c] # "init"
      <4>1. /\ backlog[j].c \in Clients /\ backlog[j].i \in Nat
            /\ backlog[j].i <= cstreams[backlog[j].c]
        BY <2>12
      <4>2. backlog[j].i <= cstreams'[backlog[j].c]
        <5>1. cstreams'[backlog[j].c] \in Nat
          BY <2>3, <2>14, <4>1
        <5> QED
          BY <2>14, <4>1, <5>1
      <4>3. cpc'[backlog[j].c] # "init"
        BY <2>3, <4>1 DEF ProtocolInvariant, QueuedConns
      <4> QED
        BY <1>1, <4>2, <4>3 DEF ProtocolInvariant, QueuedConns
    <3>2. /\ k.i = 0 => sEnd'[k.c] = "queued"
          /\ k.i <= cstreams'[k.c] /\ cpc'[k.c] # "init"
      BY <2>3, <2>11
    <3>3. \A j \in 1..Len(backlog') :
            /\ backlog'[j].i = 0 => sEnd'[backlog'[j].c] = "queued"
            /\ backlog'[j].i <= cstreams'[backlog'[j].c]
            /\ cpc'[backlog'[j].c] # "init"
      BY <2>10, <2>13, <3>1, <3>2
    <3>4. ASSUME NEW j \in 1..Len(backlog'), NEW l \in 1..Len(backlog'),
                 j < l, backlog'[j].c = backlog'[l].c
          PROVE  backlog'[j].i < backlog'[l].i
      <4>1. j \in 1..Len(backlog)
        BY <2>10, <3>4
      <4>2. CASE l = Len(backlog) + 1
        <5>1. backlog[j].c = c /\ backlog'[l].i = cstreams[c] + 1
          BY <2>10, <2>11, <3>4, <4>1, <4>2
        <5> QED
          BY <2>3, <2>10, <2>12, <4>1, <5>1
      <4>3. CASE l \in 1..Len(backlog)
        BY <2>10, <3>4, <4>1, <4>3 DEF ProtocolInvariant, QueuedConns
      <4> QED
        BY <2>13, <4>2, <4>3
    <3> QED
      BY <3>3, <3>4 DEF QueuedConns
  <2>16. ComingStreams'
    <3> SUFFICES ASSUME spc = "loop", sstate = "CREATE_STREAMS"
                 PROVE  /\ Len(sstreams) <= cstreams'[sctrl.c]
                        /\ \A j \in 1..Len(backlog') :
                             backlog'[j].c = sctrl.c => backlog'[j].i > Len(sstreams)
                        /\ \A i \in Len(sstreams) + 1 .. cstreams'[sctrl.c] :
                             \E j \in 1..Len(backlog') : backlog'[j] = [c |-> sctrl.c, i |-> i]
      BY <1>1 DEF ComingStreams
    <3>1. sctrl.c \in Clients /\ Len(sstreams) \in Nat
      BY InService, HandlerFacts, LenProperties
    <3>2. /\ Len(sstreams) <= cstreams[sctrl.c]
          /\ \A j \in 1..Len(backlog) :
               backlog[j].c = sctrl.c => backlog[j].i > Len(sstreams)
          /\ \A i \in Len(sstreams) + 1 .. cstreams[sctrl.c] :
               \E j \in 1..Len(backlog) : backlog[j] = [c |-> sctrl.c, i |-> i]
      BY DEF ProtocolInvariant, ComingStreams
    <3>3. Len(sstreams) <= cstreams'[sctrl.c] /\ cstreams'[sctrl.c] \in Nat
      BY <2>3, <2>14, <3>1, <3>2
    <3>4. ASSUME NEW j \in 1..Len(backlog'), backlog'[j].c = sctrl.c
          PROVE  backlog'[j].i > Len(sstreams)
      <4>1. CASE j \in 1..Len(backlog)
        BY <2>10, <3>2, <3>4, <4>1
      <4>2. CASE j = Len(backlog) + 1
        <5>1. sctrl.c = c /\ backlog'[j].i = cstreams[c] + 1
          BY <2>10, <2>11, <3>4, <4>2
        <5> QED
          BY <2>3, <3>1, <3>2, <5>1
      <4> QED
        BY <2>13, <4>1, <4>2
    <3>5. ASSUME NEW i \in Len(sstreams) + 1 .. cstreams'[sctrl.c]
          PROVE  \E j \in 1..Len(backlog') : backlog'[j] = [c |-> sctrl.c, i |-> i]
      <4>1. CASE i \in Len(sstreams) + 1 .. cstreams[sctrl.c]
        <5>1. PICK j \in 1..Len(backlog) : backlog[j] = [c |-> sctrl.c, i |-> i]
          BY <3>2, <4>1
        <5>2. j \in 1..Len(backlog')
          BY <2>10
        <5> QED
          BY <2>10, <5>1, <5>2
      <4>2. CASE i \notin Len(sstreams) + 1 .. cstreams[sctrl.c]
        <5>1. sctrl.c = c /\ i = cstreams[c] + 1
          <6>1. cstreams'[sctrl.c] # cstreams[sctrl.c]
            BY <3>5, <4>2
          <6>2. sctrl.c = c
            BY <2>3, <3>1, <6>1
          <6> QED
            BY <2>3, <3>1, <3>5, <4>2, <6>2
        <5>2. Len(backlog) + 1 \in 1..Len(backlog')
          BY <2>10
        <5>3. k = [c |-> sctrl.c, i |-> i]
          BY <5>1 DEF k
        <5> QED
          BY <2>10, <5>2, <5>3
      <4> QED
        BY <4>1, <4>2
    <3> QED
      BY <3>3, <3>4, <3>5
  <2>17. ServerPlaces' /\ AcceptedStreams'
    BY <1>1 DEF ProtocolInvariant, ServerPlaces, AcceptedStreams, Expected
  <2>18. \A d \in Clients \ {c} : ClientPlace(d)' /\ ToClient(d)' /\ FromClient(d)'
    BY <1>1, <1>3, <2>3, Untouched
  <2>19. ClientPlaces' /\ ToClients' /\ FromClients'
    BY <2>7, <2>8, <2>9, <2>18 DEF ClientPlaces, ToClients, FromClients
  <2> QED
    BY <2>15, <2>16, <2>17, <2>19 DEF ProtocolInvariant
<1> QED
  BY <1>2, <1>3 DEF ConnectStream

----------------------------------------------------------------------------
(* The theorems.                                                           *)

\* Every step of the server or of a client keeps to the script.
LEMMA StepProtocol ==
  ControlInvariant /\ ProtocolInvariant /\ [Next]_vars => ProtocolInvariant'
<1> SUFFICES ASSUME ControlInvariant, ProtocolInvariant, [Next]_vars
             PROVE  ProtocolInvariant'
  OBVIOUS
<1>1. CASE UNCHANGED vars
  BY <1>1, ProtocolUnchanged DEF vars, serverVars, clientVars
<1>2. CASE ServerStep
  <2>1. CASE Listen \/ SelectFails
    BY <2>1, IdleProtocol
  <2>2. CASE SyncClose
    BY <2>2, SyncCloseProtocol
  <2>3. CASE AcceptClient \/ AcceptBusy \/ AcceptStream
    BY <2>3, AcceptClientProtocol, AcceptBusyProtocol, AcceptStreamProtocol
  <2>4. CASE ReadParams \/ OnTestEnd \/ ReadResults
    BY <2>4, ReadParamsProtocol, OnTestEndProtocol, ReadResultsProtocol
  <2>5. CASE ReadParamsFails \/ ReadResultsFails \/ OnClientLeaves
    BY <2>5, EndOfTestProtocol
  <2> QED
    BY <1>2, <2>1, <2>2, <2>3, <2>4, <2>5 DEF ServerStep
<1>3. CASE \/ NoDataTimeout \/ IdleTimeout \/ ServerTimer
           \/ BitrateExceeded \/ ListenFails \/ ServerInterrupted
           \/ StreamFails \/ SelectBreaks
  BY <1>3, EndOfTestProtocol, IdleProtocol, ServerTimerProtocol, BitrateProtocol,
     ServerInterruptedProtocol, FaultsProtocol
<1>4. ASSUME NEW c \in Clients,
             ClientStep(c) \/ ClientNoData(c) \/ ClientInterrupted(c) \/ ClientVanishes(c)
      PROVE  ProtocolInvariant'
  <2>1. CASE Connect(c) \/ ConnectStream(c)
    BY <2>1, ConnectProtocol, ConnectStreamProtocol
  <2>2. CASE OnParamExchange(c) \/ OnCreateStreams(c) \/ OnTestStart(c)
    BY <2>2, OnParamExchangeProtocol, OnCreateStreamsProtocol, OnTestStartProtocol
  <2>3. CASE EndTest(c) \/ OnExchangeResults(c) \/ ClientReadResults(c)
    BY <2>3, EndTestProtocol, OnExchangeResultsProtocol, ClientReadResultsProtocol
  <2>4. CASE \/ OnDisplayResults(c) \/ OnServerLeaves(c) \/ ClientNoData(c)
             \/ ClientSyncClose(c) \/ ClientInterrupted(c) \/ ClientVanishes(c)
    BY <2>4, ClientLeavesProtocol
  <2> QED
    BY <1>4, <2>1, <2>2, <2>3, <2>4 DEF ClientStep
<1> QED
  BY <1>1, <1>2, <1>3, <1>4 DEF Next

(* Server and clients keep to their scripts in every reachable state:      *)
(* what iperf_handle_message_server and iperf_handle_message_client read   *)
(* is what the state of the other side says it has written.                *)
THEOREM ProtocolInvariance == Spec => [](ControlInvariant /\ ProtocolInvariant)
<1> DEFINE Inv == ControlInvariant /\ ProtocolInvariant
<1>1. Init => Inv
  BY InitInvariant, InitProtocol
<1>2. Inv /\ [Next]_vars => Inv'
  BY StepInvariant, StepProtocol
<1> QED
  BY <1>1, <1>2, PTL DEF Spec

(* While the server runs a test it has every stream of that test and no    *)
(* other, in the client's order: iperf_add_stream numbers the streams the  *)
(* same way on both sides, whatever else connects.                         *)
THEOREM StreamsInOrder == Spec => []StreamsMatch
<1>1. ControlInvariant /\ ProtocolInvariant => StreamsMatch
  <2> SUFFICES ASSUME ControlInvariant, ProtocolInvariant, spc = "loop",
                      sstate \in {"TEST_RUNNING", "DISPLAY_RESULTS"}
               PROVE  sstreams = [j \in 1..Expected(sctrl.c) |-> [c |-> sctrl.c, i |-> j]]
    BY DEF StreamsMatch
  <2>1. sctrl \in Conns /\ sctrl # None
    BY InService, ConnIsCtrl
  <2>2. /\ Len(sstreams) = Expected(sctrl.c)
        /\ \A j \in 1..Len(sstreams) : sstreams[j] = [c |-> sctrl.c, i |-> j]
    BY <2>1 DEF ProtocolInvariant, AcceptedStreams
  <2>3. sstreams \in [1..Len(sstreams) -> Conns]
    BY LenProperties DEF ControlInvariant, TypeOK
  <2> QED
    BY <2>2, <2>3
<1> QED
  BY <1>1, ProtocolInvariance, PTL

(* A client in TEST_RUNNING whose connection the server has not given up   *)
(* is the one whose test the server runs, with the same streams: neither   *)
(* side of iperf_create_streams and iperf_tcp_accept starts without the    *)
(* other.                                                                  *)
THEOREM RunTogether == Spec => []RunningTogether
<1>1. ControlInvariant /\ ProtocolInvariant => RunningTogether
  <2> SUFFICES ASSUME ControlInvariant, ProtocolInvariant, NEW c \in Clients,
                      cpc[c] = "loop", cstate[c] = "TEST_RUNNING", sEnd[c] = "open"
               PROVE  /\ sctrl = [c |-> c, i |-> 0]
                      /\ sstate = "TEST_RUNNING"
                      /\ Len(sstreams) = cstreams[c]
    BY DEF RunningTogether
  <2>1. sctrl = Ctrl(c)
    BY DEF ControlInvariant, OneControlConnection, Ctrl
  <2>2. sctrl # None /\ sctrl.c = c /\ sctrl.i = 0
    BY <2>1, CtrlConn
  <2>3. Serving(c) /\ Live(c)
    <3>1. spc # "sync"
      BY <2>1 DEF ProtocolInvariant, ServerPlaces
    <3>2. spc \in {"loop", "params", "results"}
      BY <2>2, <3>1 DEF ControlInvariant, SocketAndPc, TypeOK
    <3> QED
      BY <2>1, <3>2 DEF Serving, Live
  <2>4. ClientRead(c) = 4 /\ ClientSent(c) = 1
    BY DEF ClientRead, ClientSent
  <2>5. ServerSent >= 4 /\ ServerRead <= 1
    BY <2>3, <2>4, ScriptOrder
  <2>6. spc = "loop"
    BY <2>3, <2>5 DEF Serving, ServerSent, ServerRead
  <2>7. sstate \in {"CREATE_STREAMS", "TEST_RUNNING", "DISPLAY_RESULTS"}
    BY <2>2, <2>6, InService
  <2>8. sstate = "TEST_RUNNING"
    BY <2>5, <2>6, <2>7 DEF ServerSent, ServerRead
  <2>9. Len(sstreams) = Expected(c)
    BY <2>2, <2>6, <2>8 DEF ProtocolInvariant, AcceptedStreams
  <2>10. cstreams[c] = Expected(c)
    BY DEF ProtocolInvariant, ClientPlaces, ClientPlace
  <2> QED
    BY <2>1, <2>8, <2>9, <2>10 DEF Ctrl
<1> QED
  BY <1>1, ProtocolInvariance, PTL

(* Neither side takes a message for one of another kind: the one-byte      *)
(* reads of the message handlers never meet the text of JSON_write, and    *)
(* JSON_read meets it unless the peer has given up.                        *)
THEOREM FramingKept == Spec => []Framing
<1>1. ControlInvariant /\ ProtocolInvariant => Framing
  <2> SUFFICES ASSUME ControlInvariant, ProtocolInvariant PROVE Framing
    OBVIOUS
  <2>1. ASSUME \/ spc = "params" /\ sctrl.i = 0
               \/ spc = "results"
               \/ spc = "loop" /\ sctrl # None,
               toS[sctrl.c] # <<>>
        PROVE  \/ ClientSays(Head(toS[sctrl.c]), ServerRead + 1)
               \/ ClientFinal(Head(toS[sctrl.c]))
    <3>1. sctrl.c \in Clients /\ Serving(sctrl.c)
      BY <2>1, InService
    <3>2. toS[sctrl.c] \in Seq(Tokens)
      BY <3>1, ClientFacts
    <3>3. 1 \in 1..Len(toS[sctrl.c]) /\ Head(toS[sctrl.c]) = toS[sctrl.c][1]
      BY <2>1, <3>2, TailIndex
    <3> QED
      BY <3>1, <3>3 DEF ProtocolInvariant, FromClients, FromClient
  <2>2. (spc = "loop" /\ sctrl # None /\ sctrl.i = 0 /\ toS[sctrl.c] # <<>>) =>
          Head(toS[sctrl.c]).v \in {"TEST_END", "IPERF_DONE", "CLIENT_TERMINATE"}
    <3> SUFFICES ASSUME spc = "loop", sctrl # None, toS[sctrl.c] # <<>>
                 PROVE  Head(toS[sctrl.c]).v \in {"TEST_END", "IPERF_DONE", "CLIENT_TERMINATE"}
      OBVIOUS
    <3>1. ServerRead \in {1, 3}
      BY DEF ServerRead
    <3> QED
      BY <2>1, <3>1 DEF ClientSays, ClientFinal, Byte, Json
  <2>3. (spc = "params" /\ sctrl.i = 0 /\ toS[sctrl.c] # <<>>) =>
          Head(toS[sctrl.c]).v \in {"PARAMS", "IPERF_DONE", "CLIENT_TERMINATE"}
    <3>1. spc = "params" => ServerRead = 0
      BY DEF ServerRead
    <3> QED
      BY <2>1, <3>1 DEF ClientSays, ClientFinal, Byte, Json
  <2>4. (spc = "results" /\ toS[sctrl.c] # <<>>) =>
          Head(toS[sctrl.c]).v \in {"RESULTS", "IPERF_DONE", "CLIENT_TERMINATE"}
    <3>1. spc = "results" => ServerRead = 2
      BY DEF ServerRead
    <3> QED
      BY <2>1, <3>1 DEF ClientSays, ClientFinal, Byte, Json
  <2>5. ASSUME NEW c \in Clients, cpc[c] = "loop", toC[c] # <<>>
        PROVE  Head(toC[c]).k # "json"
    <3>1. Live(c)
      BY <2>5 DEF Live
    <3>2. Says(Head(toC[c]), ClientRead(c) + 1) \/ Final(Head(toC[c]))
      BY <2>5, <3>1, HeadOfScript
    <3>3. ClientRead(c) \in {0, 1, 2, 3, 4, 6}
      BY <2>5 DEF ClientRead
    <3> QED
      BY <3>2, <3>3 DEF Says, Final, Byte, Json
  <2>6. ASSUME NEW c \in Clients, cpc[c] = "results", toC[c] # <<>>
        PROVE  \/ Head(toC[c]) = Json("RESULTS")
               \/ Head(toC[c]).k = "error"
               \/ Head(toC[c]) = Byte("SERVER_TERMINATE")
    <3>1. Live(c)
      BY <2>6 DEF Live
    <3>2. Says(Head(toC[c]), ClientRead(c) + 1) \/ Final(Head(toC[c]))
      BY <2>6, <3>1, HeadOfScript
    <3>3. ClientRead(c) = 5
      BY <2>6 DEF ClientRead
    <3> QED
      BY <3>2, <3>3 DEF Says, Final, Byte, Json
  <2> QED
    BY <2>2, <2>3, <2>4, <2>5, <2>6 DEF Framing
<1> QED
  BY <1>1, ProtocolInvariance, PTL

----------------------------------------------------------------------------
(* Whose error a client reports.                                           *)

\* The errors on their way to a client that will read them are its own.
OwnErrors(ch) ==
  \A c \in Clients : Live(c) =>
    \A j \in 1..Len(ch[c]) : ch[c][j].k = "error" => ch[c][j].o = c

OwnInvariant == OwnErrors(toC) /\ ErrorIsOwn

\* The server writes toks on connection k.
LEMMA OwnWrite ==
  ASSUME NEW ch \in [Clients -> Seq(Tokens)], NEW k \in Conns,
         NEW toks \in Seq(Tokens), OwnErrors(ch),
         \A j \in 1..Len(toks) : toks[j].k = "error" => (toks[j].o = k.c \/ ~Live(k.c))
  PROVE  OwnErrors(SWrite(ch, k, toks))
<1> SUFFICES ASSUME NEW c \in Clients, Live(c), NEW j \in 1..Len(SWrite(ch, k, toks)[c]),
                    SWrite(ch, k, toks)[c][j].k = "error"
             PROVE  SWrite(ch, k, toks)[c][j].o = c
  BY DEF OwnErrors
<1>1. CASE SWrite(ch, k, toks)[c] = ch[c]
  BY <1>1 DEF OwnErrors
<1>2. CASE SWrite(ch, k, toks)[c] # ch[c]
  <2>1. c = k.c /\ SWrite(ch, k, toks)[c] = ch[c] \o toks
    BY <1>2 DEF SWrite, Conns
  <2>2. ch[c] \in Seq(Tokens)
    OBVIOUS
  <2>3. CASE j \in 1..Len(ch[c])
    <3>1. SWrite(ch, k, toks)[c][j] = ch[c][j]
      BY <2>1, <2>2, <2>3, ConcatIndex
    <3> QED
      BY <2>3, <3>1 DEF OwnErrors
  <2>4. CASE j \notin 1..Len(ch[c])
    <3>1. /\ j - Len(ch[c]) \in 1..Len(toks)
          /\ SWrite(ch, k, toks)[c][j] = toks[j - Len(ch[c])]
      BY <2>1, <2>2, <2>4, ConcatIndex
    <3> QED
      BY <2>1, <3>1
  <2> QED
    BY <2>3, <2>4
<1> QED
  BY <1>1, <1>2

\* cleanup_server tells client k.c of an error of its own, or of any error
\* when that client reads no more.
LEMMA OwnTell ==
  ASSUME NEW ch \in [Clients -> Seq(Tokens)], NEW k \in Conns,
         NEW e \in Errors, NEW o \in Clients \cup {None}, OwnErrors(ch),
         o = k.c \/ ~Live(k.c)
  PROVE  OwnErrors(TellClient(ch, k, e, o))
<1>1. <<Err(e, o)>> \in Seq(Tokens)
  BY TokenTypes
<1>2. \A j \in 1..Len(<<Err(e, o)>>) : <<Err(e, o)>>[j].k = "error" =>
        (<<Err(e, o)>>[j].o = k.c \/ ~Live(k.c))
  BY DEF Err
<1>3. OwnErrors(SWrite(ch, k, <<Err(e, o)>>))
  BY <1>1, <1>2, OwnWrite
<1> QED
  BY <1>3 DEF TellClient

\* State bytes and JSON messages are no errors.
LEMMA OwnMessages ==
  ASSUME NEW ch \in [Clients -> Seq(Tokens)], NEW k \in Conns,
         NEW toks \in Seq(Tokens), OwnErrors(ch),
         \A j \in 1..Len(toks) : toks[j].k # "error"
  PROVE  OwnErrors(SWrite(ch, k, toks))
BY OwnWrite

LEMMA OwnByte ==
  ASSUME NEW ch \in [Clients -> Seq(Tokens)], NEW k \in Conns,
         NEW st \in States, OwnErrors(ch)
  PROVE  /\ OwnErrors(SWrite(ch, k, <<Byte(st)>>))
         /\ SWrite(ch, k, <<Byte(st)>>) \in [Clients -> Seq(Tokens)]
<1>1. <<Byte(st)>> \in Seq(Tokens)
  BY TokenTypes
<1>2. \A j \in 1..Len(<<Byte(st)>>) : <<Byte(st)>>[j].k # "error"
  BY DEF Byte
<1> QED
  BY <1>1, <1>2, OwnMessages, SWriteType

LEMMA OwnDenied ==
  ASSUME ControlInvariant, OwnErrors(toC), NEW k \in Conns, NEW lost \in BOOLEAN
  PROVE  OwnErrors(Denied(k, lost)) /\ Denied(k, lost) \in [Clients -> Seq(Tokens)]
<1>1. "ACCESS_DENIED" \in States /\ toC \in [Clients -> Seq(Tokens)]
  BY HandlerFacts DEF States
<1> QED
  BY <1>1, OwnByte DEF Denied

\* A handler fails and sets i_errno.
LEMMA OwnFail ==
  ASSUME ControlInvariant, OwnErrors(toC), NEW k \in Conns, NEW f \in Errors, Fail(k, f)
  PROVE  OwnErrors(toC')
<1> PICK e \in Errors : FailWith(k, e)
  BY FailIsAnError
<1>1. toC' = TellClient(toC, k, e, k.c)
  BY DEF FailWith, CleanupServer
<1>2. k.c \in Clients \cup {None} /\ toC \in [Clients -> Seq(Tokens)]
  BY ConnIsCtrl, HandlerFacts
<1> QED
  BY <1>1, <1>2, OwnTell

\* A test that cannot start tells its own error after state bytes.
LEMMA OwnStart ==
  ASSUME ControlInvariant, OwnErrors(toC), sctrl \in Conns,
         NEW toks \in {<<>>, <<Byte("TEST_START")>>,
                        <<Byte("TEST_START"), Byte("TEST_RUNNING")>>}
  PROVE  /\ OwnErrors(SWrite(toC, sctrl, toks))
         /\ \A e \in Errors : StartFails(toks, e) => OwnErrors(toC')
<1>1. toC \in [Clients -> Seq(Tokens)] /\ sctrl.c \in Clients \cup {None}
  BY HandlerFacts, ConnIsCtrl
<1>2. toks \in Seq(Tokens)
  BY StartTokens
<1>3. \A j \in 1..Len(toks) : toks[j].k # "error"
  BY DEF Byte
<1>4. /\ OwnErrors(SWrite(toC, sctrl, toks))
      /\ SWrite(toC, sctrl, toks) \in [Clients -> Seq(Tokens)]
  BY <1>1, <1>2, <1>3, OwnMessages, SWriteType
<1> QED
  BY <1>1, <1>4, OwnTell DEF StartFails, CleanupServer

\* The faults after which cleanup_server runs with the i_errno of earlier.
LateFaults == {"reopen", "sockopt", "select"}

\* Every step of the server, unless it sets i_errno after cleanup_server.
LEMMA OwnServer ==
  ASSUME ControlInvariant, ProtocolInvariant, OwnErrors(toC), Faults \cap LateFaults = {},
         \/ ServerStep \/ NoDataTimeout \/ IdleTimeout \/ ServerTimer
         \/ BitrateExceeded \/ ListenFails \/ ServerInterrupted
         \/ StreamFails \/ SelectBreaks
  PROVE  OwnErrors(toC')
<1> USE DEF Errors
<1>0. /\ toC \in [Clients -> Seq(Tokens)] /\ ~\E sent, o, e : LosesListener(sent, o, e)
      /\ i_errno \in Errors /\ errOwner \in Clients \cup {None}
  BY HandlerFacts DEF LosesListener, LateFaults
<1>1. CASE AcceptClient
  <2>1. Head(backlog) \in Conns
    BY <1>1, BacklogHead DEF AcceptClient, ControlInvariant
  <2>2. CASE toC' = SWrite(toC, Head(backlog), <<Byte("PARAM_EXCHANGE")>>)
    <3>1. "PARAM_EXCHANGE" \in States
      BY DEF States
    <3> QED
      BY <1>0, <2>1, <2>2, <3>1, OwnByte
  <2> QED
    BY <1>1, <2>1, <2>2, OwnFail DEF AcceptClient
<1>2. CASE ReadParams \/ ReadParamsFails \/ ReadResultsFails \/ NoDataTimeout
  <2>1. sctrl \in Conns
    BY <1>2, InTest DEF ReadParams, ReadParamsFails, ReadResultsFails, NoDataTimeout
  <2>2. CASE toC' = SWrite(toC, sctrl, <<Byte("CREATE_STREAMS")>>)
    <3>1. "CREATE_STREAMS" \in States
      BY DEF States
    <3> QED
      BY <1>0, <2>1, <2>2, <3>1, OwnByte
  <2>3. \/ \E e \in Errors : Fail(sctrl, e)
        \/ toC' = SWrite(toC, sctrl, <<Byte("CREATE_STREAMS")>>)
    BY <1>0, <1>2 DEF ReadParams, ReadParamsFails, ReadResultsFails, NoDataTimeout
  <2> QED
    BY <2>1, <2>2, <2>3, OwnFail
<1>3. CASE ReadResults
  <2>1. sctrl \in Conns
    BY <1>3, InTest DEF ReadResults
  <2>2. CASE toC' = SWrite(toC, sctrl, ResultsThenState)
    <3>1. ResultsThenState \in Seq(Tokens) /\ Len(ResultsThenState) = 2
          /\ ResultsThenState[1].k = "json" /\ ResultsThenState[2].k = "state"
      <4>1. Json("RESULTS") \in Tokens /\ Byte("DISPLAY_RESULTS") \in Tokens
        BY TokenTypes DEF States
      <4> QED
        BY <4>1 DEF ResultsThenState, Json, Byte
    <3>2. \A j \in 1..Len(ResultsThenState) : ResultsThenState[j].k # "error"
      BY <3>1
    <3> QED
      BY <1>0, <2>1, <2>2, <3>1, <3>2, OwnMessages
  <2> QED
    BY <1>3, <2>1, <2>2, OwnFail DEF ReadResults
<1>4. CASE AcceptStream
  <2>1. sctrl \in Conns /\ sctrl.c \in Clients /\ Head(backlog) \in Conns
    BY <1>4, InTest, BacklogHead DEF AcceptStream, ControlInvariant
  <2>2. CASE CleanupServer(sctrl, Denied(Head(backlog), FALSE), "IESETTOS", sctrl.c)
    <3>1. /\ OwnErrors(Denied(Head(backlog), FALSE))
          /\ Denied(Head(backlog), FALSE) \in [Clients -> Seq(Tokens)]
      BY <2>1, OwnDenied
    <3>2. toC' = TellClient(Denied(Head(backlog), FALSE), sctrl, "IESETTOS", sctrl.c)
      BY <2>2 DEF CleanupServer
    <3> QED
      BY <2>1, <3>1, <3>2, OwnTell
  <2>3. CASE \E e \in Errors : Fail(sctrl, e)
    BY <2>1, <2>3, OwnFail
  <2>4. CASE StartTest
    <3>1. CASE toC' = SWrite(toC, sctrl, <<Byte("TEST_START"), Byte("TEST_RUNNING")>>)
      BY <2>1, <3>1, OwnStart
    <3>2. ASSUME NEW toks \in {<<>>, <<Byte("TEST_START")>>,
                                <<Byte("TEST_START"), Byte("TEST_RUNNING")>>},
                 NEW e \in Errors, StartFails(toks, e)
          PROVE  OwnErrors(toC')
      BY <2>1, <3>2, OwnStart
    <3> QED
      BY <1>0, <2>4, <3>1, <3>2, OverwrittenIsError DEF StartTest
  <2>5. CASE toC' = toC \/ toC' = Denied(Head(backlog), FALSE)
    BY <2>1, <2>5, OwnDenied
  <2> QED
    BY <1>4, <2>2, <2>3, <2>4, <2>5 DEF AcceptStream, LateFaults
<1>5. CASE OnTestEnd
  <2>1. sctrl \in Conns /\ sctrl.c \in Clients
    BY <1>5, InTest DEF OnTestEnd
  <2>2. CASE toC' = SWrite(toC, sctrl, <<Byte("EXCHANGE_RESULTS")>>)
    <3>1. "EXCHANGE_RESULTS" \in States
      BY DEF States
    <3> QED
      BY <1>0, <2>1, <2>2, <3>1, OwnByte
  <2>3. CASE \E e \in Errors : toC' = TellClient(toC, sctrl, e, sctrl.c)
    BY <1>0, <2>1, <2>3, OwnTell
  <2> QED
    BY <1>5, <2>2, <2>3, OverwrittenIsError DEF OnTestEnd, CleanupServer
<1>6. CASE OnClientLeaves
  <2>1. sctrl \in Conns /\ sctrl.c \in Clients /\ Serving(sctrl.c)
    BY <1>6, InService DEF OnClientLeaves
  <2>2. CASE NextIs(Byte("IPERF_DONE")) /\ CleanupServer(sctrl, toC, i_errno, errOwner)
    <3>1. toS[sctrl.c] \in Seq(Tokens) /\ toS[sctrl.c] # <<>>
      BY <2>1, <2>2, ClientFacts DEF NextIs
    <3>2. 1 \in 1..Len(toS[sctrl.c]) /\ ClientFinal(toS[sctrl.c][1])
      BY <2>2, <3>1, TailIndex DEF NextIs, ClientFinal
    <3>3. ~Live(sctrl.c)
      BY <2>1, <3>2 DEF ProtocolInvariant, FromClients, FromClient
    <3>4. toC' = TellClient(toC, sctrl, i_errno, errOwner)
      BY <2>2 DEF CleanupServer
    <3> QED
      BY <1>0, <2>1, <3>3, <3>4, OwnTell
  <2>3. CASE \E e \in Errors : Fail(sctrl, e)
    BY <2>1, <2>3, OwnFail
  <2> QED
    BY <1>6, <2>2, <2>3 DEF OnClientLeaves
<1>7. CASE BitrateExceeded
  <2>1. sctrl \in Conns /\ sctrl.c \in Clients
    BY <1>7, InTest DEF BitrateExceeded
  <2>2. PICK e \in Errors, x \in Errors :
          toC' = TellClient(SWrite(toC, sctrl, <<Err(e, sctrl.c)>>), sctrl, x, sctrl.c)
    <3> HIDE DEF Errors
    <3> QED
      BY <1>7, BitrateErrors DEF CleanupServer
  <2>3. <<Err(e, sctrl.c)>> \in Seq(Tokens)
    BY <2>1, TokenTypes
  <2>4. \A j \in 1..Len(<<Err(e, sctrl.c)>>) : <<Err(e, sctrl.c)>>[j].k = "error" =>
          (<<Err(e, sctrl.c)>>[j].o = sctrl.c \/ ~Live(sctrl.c))
    BY DEF Err
  <2>5. /\ OwnErrors(SWrite(toC, sctrl, <<Err(e, sctrl.c)>>))
        /\ SWrite(toC, sctrl, <<Err(e, sctrl.c)>>) \in [Clients -> Seq(Tokens)]
    BY <1>0, <2>1, <2>3, <2>4, OwnWrite, SWriteType
  <2> QED
    BY <2>1, <2>2, <2>5, OwnTell
<1>8. CASE ServerTimer
  <2>1. sctrl \in Conns /\ sctrl.c \in Clients
    BY <1>8, InTest DEF ServerTimer, ControlInvariant, SocketAndPc
  <2>2. ASSUME NEW e \in Errors \ {"IENONE"},
               toC' = SWrite(toC, sctrl, <<Err(e, sctrl.c)>>)
        PROVE  OwnErrors(toC')
    <3>1. OwnErrors(TellClient(toC, sctrl, e, sctrl.c))
      BY <1>0, <2>1, OwnTell
    <3> QED
      BY <2>2, <3>1 DEF TellClient
  <2>3. CASE toC' = toC
    BY <2>3
  <2> QED
    BY <1>8, <2>2, <2>3, OverwrittenIsError DEF ServerTimer
<1>9. CASE ServerInterrupted
  <2>1. CASE toC' = toC
    BY <2>1
  <2>2. CASE sctrl # None /\ toC' = SWrite(toC, sctrl, <<Byte("SERVER_TERMINATE")>>)
    <3>1. sctrl \in Conns /\ "SERVER_TERMINATE" \in States
      BY <2>2 DEF ControlInvariant, TypeOK, States
    <3> QED
      BY <1>0, <2>2, <3>1, OwnByte
  <2> QED
    BY <1>9, <2>1, <2>2 DEF ServerInterrupted
<1>10. CASE AcceptBusy
  BY <1>10, BacklogHead, OwnDenied DEF AcceptBusy, ControlInvariant
<1>11. CASE \/ SyncClose \/ Listen \/ ListenFails \/ SelectFails \/ IdleTimeout
            \/ StreamFails \/ SelectBreaks
  BY <1>11 DEF SyncClose, Listen, ListenFails, SelectFails, IdleTimeout, StreamFails,
               SelectBreaks, LateFaults
<1> QED
  BY <1>1, <1>2, <1>3, <1>4, <1>5, <1>6, <1>7, <1>8, <1>9, <1>10, <1>11 DEF ServerStep

\* What a step of client c does to the errors on their way and to its blame.
ClientBlames(c) ==
  /\ \A d \in Clients \ {c} : UNCHANGED <<cpc[d], toC[d], cblame[d]>>
  /\ Live(c)' => /\ Live(c) \/ cpc[c] = "init"
                 /\ \/ toC'[c] = toC[c]
                    \/ toC[c] # <<>> /\ toC'[c] = Tail(toC[c])
  /\ \/ cblame'[c] \in {cblame[c], None}
     \/ /\ Live(c) /\ toC[c] # <<>> /\ Head(toC[c]).k = "error"
        /\ cblame'[c] = Head(toC[c]).o

\* cleanup_and_fail with the error of this side.
LEMMA FailBlames ==
  ASSUME ControlInvariant, NEW c \in Clients, NEW st, NEW e, ClientFail(c, st, e, None),
         \A d \in Clients \ {c} : toC'[d] = toC[d]
  PROVE  ClientBlames(c)
<1>1. cpc'[c] = "sync" /\ cblame'[c] = None
  BY ClientFacts DEF ClientFail
<1>2. \A d \in Clients \ {c} : UNCHANGED <<cpc[d], cblame[d]>>
  BY DEF ClientFail
<1> QED
  BY <1>1, <1>2 DEF ClientBlames, Live

LEMMA ClientStepBlames ==
  ASSUME ControlInvariant, NEW c \in Clients,
         ClientStep(c) \/ ClientNoData(c) \/ ClientInterrupted(c) \/ ClientVanishes(c)
  PROVE  ClientBlames(c)
<1>0. /\ toC \in [Clients -> Seq(Tokens)] /\ cpc \in [Clients -> CPcs]
      /\ cblame \in [Clients -> Clients \cup {None}]
  BY ClientFacts
<1>1. ASSUME NEW tok, Reads(c, tok)
      PROVE  /\ cpc[c] = "loop" /\ toC[c] # <<>> /\ toC'[c] = Tail(toC[c])
             /\ \A d \in Clients \ {c} : toC'[d] = toC[d]
  BY <1>0, <1>1 DEF Reads
<1>2. ASSUME cpc[c] = "loop", cblame' = cblame,
             cpc' \in {cpc, [cpc EXCEPT ![c] = "streams"], [cpc EXCEPT ![c] = "results"],
                       [cpc EXCEPT ![c] = "sync"]},
             toC' = toC \/ (toC[c] # <<>> /\ toC' = [toC EXCEPT ![c] = Tail(@)])
      PROVE  ClientBlames(c)
  BY <1>0, <1>2 DEF ClientBlames, Live
<1>3. CASE Connect(c)
  BY <1>0, <1>3 DEF Connect, ClientBlames
<1>4. CASE ConnectStream(c)
  <2>1. toC' = toC /\ cpc[c] = "streams"
    BY <1>4 DEF ConnectStream
  <2>2. CASE ClientFail(c, "CREATE_STREAMS", "IESTREAMCONNECT", None)
    BY <2>1, <2>2, FailBlames
  <2>3. CASE cblame' = cblame /\ cpc' \in {cpc, [cpc EXCEPT ![c] = "loop"]}
    BY <1>0, <2>1, <2>3 DEF ClientBlames, Live
  <2> QED
    BY <1>4, <2>2, <2>3 DEF ConnectStream
<1>5. CASE OnParamExchange(c)
  <2>1. CASE ClientFail(c, "PARAM_EXCHANGE", "IESENDMESSAGE", None)
    BY <1>1, <1>5, <2>1, FailBlames DEF OnParamExchange
  <2>2. CASE UNCHANGED <<cpc, cblame>>
    BY <1>2, <1>5, <2>2 DEF OnParamExchange, Reads
  <2> QED
    BY <1>5, <2>1, <2>2 DEF OnParamExchange
<1>6. CASE OnCreateStreams(c) \/ OnTestStart(c) \/ OnDisplayResults(c)
  BY <1>2, <1>6 DEF OnCreateStreams, OnTestStart, OnDisplayResults, Reads
<1>7. CASE EndTest(c)
  <2>1. CASE ClientFail(c, "TEST_END", "IESENDMESSAGE", None)
    BY <1>7, <2>1, FailBlames DEF EndTest
  <2>2. CASE UNCHANGED <<cpc, cblame>>
    BY <1>2, <1>7, <2>2 DEF EndTest
  <2> QED
    BY <1>7, <2>1, <2>2 DEF EndTest
<1>8. CASE OnExchangeResults(c)
  <2>1. CASE ClientFail(c, "EXCHANGE_RESULTS", "IESENDMESSAGE", None)
    BY <1>1, <1>8, <2>1, FailBlames DEF OnExchangeResults
  <2>2. CASE cpc' = [cpc EXCEPT ![c] = "results"] /\ UNCHANGED cblame
    BY <1>2, <1>8, <2>2 DEF OnExchangeResults, Reads
  <2> QED
    BY <1>8, <2>1, <2>2 DEF OnExchangeResults
<1>9. CASE ClientReadResults(c)
  <2>1. CASE ClientFail(c, "EXCHANGE_RESULTS", "IERECVRESULTS", None) /\ UNCHANGED toC
    BY <2>1, FailBlames
  <2>2. CASE /\ toC[c] # <<>> /\ toC' = [toC EXCEPT ![c] = Tail(@)]
             /\ cpc' = [cpc EXCEPT ![c] = "loop"] /\ cblame' = cblame
    BY <1>0, <1>9, <2>2 DEF ClientReadResults, ClientBlames, Live
  <2> QED
    BY <1>9, <2>1, <2>2 DEF ClientReadResults
<1>10. CASE OnServerLeaves(c)
  <2>1. CASE /\ Reads(c, Byte("SERVER_TERMINATE"))
             /\ ClientFail(c, "SERVER_TERMINATE", "IESERVERTERM", None)
    BY <1>1, <2>1, FailBlames
  <2>2. CASE /\ Reads(c, Byte("ACCESS_DENIED"))
             /\ ClientFail(c, "ACCESS_DENIED", "IEACCESSDENIED", None)
    BY <1>1, <2>2, FailBlames
  <2>3. CASE /\ toC[c] # <<>> /\ Head(toC[c]).k = "error"
             /\ Reads(c, Head(toC[c]))
             /\ ClientFail(c, "SERVER_ERROR", Head(toC[c]).v, Head(toC[c]).o)
    <3>1. cpc'[c] = "sync" /\ cblame'[c] = Head(toC[c]).o
      BY <1>0, <2>3 DEF ClientFail
    <3>2. \A d \in Clients \ {c} : UNCHANGED <<cpc[d], toC[d], cblame[d]>>
      BY <1>0, <2>3 DEF ClientFail, Reads
    <3>3. cpc[c] = "loop"
      BY <2>3 DEF Reads
    <3> QED
      BY <2>3, <3>1, <3>2, <3>3 DEF ClientBlames, Live
  <2>4. CASE /\ \E e \in {"IECTRLCLOSE", "IERECVMESSAGE"} :
                  ClientFail(c, cstate[c], e, None)
             /\ UNCHANGED toC
    BY <2>4, FailBlames
  <2> QED
    BY <1>10, <2>1, <2>2, <2>3, <2>4 DEF OnServerLeaves
<1>11. CASE ClientNoData(c)
  BY <1>11, FailBlames DEF ClientNoData
<1>12. CASE ClientSyncClose(c) \/ ClientInterrupted(c) \/ ClientVanishes(c)
  <2>1. cpc'[c] \in {"exited", "vanished"} /\ cblame' = cblame
    BY <1>0, <1>12 DEF ClientSyncClose, ClientInterrupted, ClientVanishes
  <2>2. \A d \in Clients \ {c} : UNCHANGED <<cpc[d], toC[d]>>
    BY <1>0, <1>12 DEF ClientSyncClose, ClientInterrupted, ClientVanishes
  <2> QED
    BY <2>1, <2>2 DEF ClientBlames, Live
<1> QED
  BY <1>3, <1>4, <1>5, <1>6, <1>7, <1>8, <1>9, <1>10, <1>11, <1>12 DEF ClientStep

LEMMA OwnClient ==
  ASSUME ControlInvariant, ProtocolInvariant, OwnInvariant, NEW c \in Clients,
         ClientBlames(c)
  PROVE  OwnInvariant'
<1>1. \A d \in Clients \ {c} : (Live(d)' <=> Live(d)) /\ toC'[d] = toC[d] /\ cblame'[d] = cblame[d]
  BY DEF ClientBlames, Live
<1>2. toC[c] \in Seq(Tokens)
  BY ClientFacts
<1>3. cblame'[c] \in {c, None}
  <2>1. CASE cblame'[c] \in {cblame[c], None}
    BY <2>1 DEF OwnInvariant, ErrorIsOwn
  <2>2. CASE /\ Live(c) /\ toC[c] # <<>> /\ Head(toC[c]).k = "error"
             /\ cblame'[c] = Head(toC[c]).o
    <3>1. 1 \in 1..Len(toC[c]) /\ Head(toC[c]) = toC[c][1]
      BY <1>2, <2>2, TailIndex
    <3> QED
      BY <2>2, <3>1 DEF OwnInvariant, OwnErrors
  <2> QED
    BY <2>1, <2>2 DEF ClientBlames
<1>4. ASSUME Live(c)', NEW j \in 1..Len(toC'[c]), toC'[c][j].k = "error"
      PROVE  toC'[c][j].o = c
  <2>1. CASE cpc[c] = "init"
    <3>1. toC[c] = <<>>
      BY <2>1 DEF ProtocolInvariant, ClientPlaces, ClientPlace, ToClients, ToClient, Unserved
    <3>2. toC'[c] = <<>> /\ Len(toC'[c]) = 0
      BY <1>4, <3>1 DEF ClientBlames
    <3> QED
      BY <3>2
  <2>2. CASE Live(c) /\ toC'[c] = toC[c]
    BY <1>4, <2>2 DEF OwnInvariant, OwnErrors
  <2>3. CASE Live(c) /\ toC[c] # <<>> /\ toC'[c] = Tail(toC[c])
    <3>1. j + 1 \in 1..Len(toC[c]) /\ toC'[c][j] = toC[c][j + 1]
      BY <1>2, <2>3, TailIndex
    <3> QED
      BY <1>4, <2>3, <3>1 DEF OwnInvariant, OwnErrors
  <2> QED
    BY <1>4, <2>1, <2>2, <2>3 DEF ClientBlames
<1>5. OwnErrors(toC)'
  BY <1>1, <1>4 DEF OwnInvariant, OwnErrors
<1>6. ErrorIsOwn'
  BY <1>1, <1>3 DEF OwnInvariant, ErrorIsOwn
<1> QED
  BY <1>5, <1>6 DEF OwnInvariant

LEMMA StepOwn ==
  ASSUME Faults \cap LateFaults = {}
  PROVE  ControlInvariant /\ ProtocolInvariant /\ OwnInvariant /\ [Next]_vars => OwnInvariant'
<1> SUFFICES ASSUME ControlInvariant, ProtocolInvariant, OwnInvariant, [Next]_vars
             PROVE  OwnInvariant'
  OBVIOUS
<1>1. ASSUME UNCHANGED <<cpc, cblame>>, OwnErrors(toC')
      PROVE  OwnInvariant'
  BY <1>1 DEF OwnInvariant, OwnErrors, ErrorIsOwn, Live
<1>2. CASE UNCHANGED vars
  BY <1>1, <1>2 DEF OwnInvariant, vars, clientVars
<1>3. CASE \/ ServerStep \/ NoDataTimeout \/ IdleTimeout \/ ServerTimer
           \/ BitrateExceeded \/ ListenFails \/ ServerInterrupted
           \/ StreamFails \/ SelectBreaks
  <2>1. UNCHANGED clientVars
    BY <1>3 DEF ServerStep, NoDataTimeout, IdleTimeout, ServerTimer, BitrateExceeded,
       ListenFails, ServerInterrupted, StreamFails, SelectBreaks,
       Listen, SyncClose, SelectFails, AcceptClient,
       AcceptBusy, AcceptStream, ReadParams, ReadParamsFails, OnTestEnd, ReadResults,
       ReadResultsFails, OnClientLeaves
  <2>2. OwnErrors(toC')
    BY <1>3, OwnServer DEF OwnInvariant
  <2> QED
    BY <1>1, <2>1, <2>2 DEF clientVars
<1>4. ASSUME NEW c \in Clients,
             ClientStep(c) \/ ClientNoData(c) \/ ClientInterrupted(c) \/ ClientVanishes(c)
      PROVE  OwnInvariant'
  BY <1>4, ClientStepBlames, OwnClient
<1> QED
  BY <1>2, <1>3, <1>4 DEF Next

(* Unless a call fails after whose failure cleanup_server runs before      *)
(* i_errno is set, an error that a client reports as the server's was      *)
(* raised in its own test, although i_errno is never reset between two     *)
(* tests and any worker may set it: where cleanup_server sends the i_errno *)
(* of earlier, on IPERF_DONE, the client reads no more.                    *)
THEOREM ErrorsAreOwn ==
  ASSUME Faults \cap LateFaults = {}
  PROVE  Spec => []ErrorIsOwn
<1> DEFINE Inv == ControlInvariant /\ ProtocolInvariant
<1>1. Init => OwnInvariant
  BY DEF Init, OwnInvariant, OwnErrors, ErrorIsOwn, Live
<1>2. Inv /\ OwnInvariant /\ [Next]_vars => OwnInvariant'
  BY StepOwn
<1>3. OwnInvariant => ErrorIsOwn
  BY DEF OwnInvariant
<1> HIDE DEF Inv
<1>4. Spec => []Inv
  BY ProtocolInvariance DEF Inv
<1> QED
  BY <1>1, <1>2, <1>3, <1>4, PTL DEF Spec

============================================================================
