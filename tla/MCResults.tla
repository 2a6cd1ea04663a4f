----------------------------- MODULE MCResults -----------------------------
(* The instance of Results that TLC checks.                                *)
EXTENDS Results

\* one and two streams each way, all outputs, each end with and without
\* the count of retransmissions
MCSettings ==
  {t \in [mode : {"SENDER", "RECEIVER", "BIDIRECTIONAL"},
          protocol : {"tcp", "udp", "sctp"}, streams : 1 .. 2,
          omit : BOOLEAN, cjson : BOOLEAN, sjson : BOOLEAN,
          jstream : BOOLEAN, full : BOOLEAN, getout : BOOLEAN,
          cretr : BOOLEAN, sretr : BOOLEAN] :
     /\ t.full => t.jstream
     /\ t.jstream => /\ t.sjson /\ t.cjson /\ t.streams = 1
                     /\ ~t.cretr /\ ~t.sretr
     /\ t.getout => t.omit
     /\ t.protocol # "tcp" => ~t.cretr /\ ~t.sretr /\ ~t.full
     /\ t.protocol = "sctp" => t.omit /\ t.streams = 1 /\ ~t.jstream
     /\ t.mode = "BIDIRECTIONAL" /\ t.streams = 2 =>
          /\ t.omit /\ t.cretr = ~t.sretr /\ t.cjson = t.sjson
          /\ ~t.getout /\ ~t.jstream}

Tcp(s, o, g, r) ==
  [sent |-> s, sent_omit |-> o, got |-> g, retr |-> r, seq |-> 0,
   seq_omit |-> 0, rseq |-> 0, rseq_omit |-> 0, err |-> 0, err_omit |-> 0,
   stime |-> 3, rtime |-> 4]
Udp(s, o, r, ro, e, eo) ==
  [sent |-> s - o, sent_omit |-> o, got |-> r - e - ro + eo, retr |-> 0,
   seq |-> s, seq_omit |-> o, rseq |-> r, rseq_omit |-> ro, err |-> e,
   err_omit |-> eo, stime |-> 3, rtime |-> 4]

MCLoads ==
  [tcp |-> {Tcp(5, 0, 4, 2), Tcp(3, 2, 4, 1)},
   udp |-> {Udp(5, 0, 4, 0, 1, 0), Udp(7, 2, 6, 3, 3, 1)},
   sctp |-> {Tcp(5, 0, 5, 0), Tcp(3, 2, 4, 0)}]
=============================================================================
