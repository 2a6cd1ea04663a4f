------------------------------ MODULE Results ------------------------------
(***************************************************************************)
(* What the two ends report of a test.  Each end prints an interval at     *)
(* each of its statistics (iperf_print_intermediate) and a summary at the  *)
(* end (iperf_print_results).  The client prints its summary after the two *)
(* ends have exchanged their results (send_results, get_results), the      *)
(* server before that, and the server's own output may travel with its     *)
(* results to the client that asked for it (--get-server-output).          *)
(*                                                                         *)
(* Wording, units and rates are left out: a line of a report is the        *)
(* counters that it prints.  Clock values are left out but for the lengths *)
(* of the test that each end measured.                                     *)
(***************************************************************************)
EXTENDS Integers, FiniteSets, FiniteSetsExt

CONSTANTS
  Settings,       \* the tests: records of mode (of the client), protocol,
                  \* streams (per direction), omit, cjson, sjson, jstream,
                  \* full, getout, and cretr, sretr: can that end count the
                  \* retransmissions of TCP?
  Loads,          \* by protocol, the counters that a stream can end with
  MaxIntervals    \* bound: the intervals that an end prints

ASSUME ResultsAssumption ==
  /\ \A t \in Settings :
       /\ t.mode \in {"SENDER", "RECEIVER", "BIDIRECTIONAL"}
       /\ t.protocol \in DOMAIN Loads
       /\ t.streams \in Nat \ {0}
       /\ {t.omit, t.cjson, t.sjson, t.jstream, t.full, t.getout, t.cretr,
           t.sretr} \subseteq BOOLEAN
  /\ MaxIntervals \in Nat

VARIABLES
  test,    \* the settings of the test at work
  old,     \* the end that runs a version without the later fields, or "none"
  loads,   \* stream |-> what its two ends counted in the measured period
  end,     \* "c", "s" |-> the struct iperf_test of that end
  wire,    \* the results on their way
  pc       \* where the two ends stand

vars == <<test, old, loads, end, wire, pc>>

Nothing == [from |-> "none"]

----------------------------------------------------------------------------
(* The streams of a test, the same numbers at both ends.                   *)
Mode(r) ==
  CASE r = "c" \/ test.mode = "BIDIRECTIONAL" -> test.mode
    [] test.mode = "SENDER" -> "RECEIVER"
    [] OTHER -> "SENDER"

\* the client's senders come first
ClientSends(t, i) ==
  \/ t.mode = "SENDER"
  \/ t.mode = "BIDIRECTIONAL" /\ i <= t.streams
Ids(t) == 1 .. (IF t.mode = "BIDIRECTIONAL" THEN 2 * t.streams ELSE t.streams)

\* the counters of a stream as its end has them when the test ends
Stream(t, r, i, l) ==
  LET tx == ClientSends(t, i) = (r = "c") IN
  [sender |-> tx,
   bytes_sent |-> IF tx THEN l.sent + l.sent_omit ELSE 0,
   bytes_sent_omit |-> IF tx THEN l.sent_omit ELSE 0,
   bytes_received |-> IF tx THEN 0 ELSE l.got,
   stream_retrans |-> IF tx THEN l.retr ELSE 0,
   packet_count |-> IF tx THEN l.seq ELSE l.rseq,
   omitted_packet_count |-> IF tx THEN l.seq_omit ELSE l.rseq_omit,
   cnt_error |-> IF tx THEN 0 ELSE l.err,
   omitted_cnt_error |-> IF tx THEN 0 ELSE l.err_omit,
   peer_packet_count |-> 0, peer_omitted_packet_count |-> 0,
   time |-> IF tx THEN l.stime ELSE l.rtime,
   sender_time |-> 0, receiver_time |-> 0]

HasRetransmits(t, r, mode) ==
  IF mode # "RECEIVER" /\ t.protocol = "tcp" /\
     (IF r = "c" THEN t.cretr ELSE t.sretr) THEN 1 ELSE 0

\* an end: the output that it keeps for later and how many intervals it has
\* printed; moved and shown add up the bytes of its intervals, all of them
\* and the ones in its lines and in its sums
EndOf(getout) ==
  [streams |-> <<>>, has |-> 0, other |-> 0, getout |-> getout,
   printed |-> 0, json_intervals |-> 0, output_list |-> 0,
   moved |-> 0, shown |-> [lines |-> 0, sums |-> 0], report |-> <<>>, server_output |-> Nothing, err |-> "none"]

----------------------------------------------------------------------------
(* send_results and get_results.                                           *)
\* mutant: the bytes of the omitted period are not taken off
SentStream_WithOmitted(e, i) ==
  LET sp == e.streams[i] IN
  [id |-> i,
   bytes |-> IF sp.sender THEN sp.bytes_sent ELSE sp.bytes_received,
   retransmits |-> IF sp.sender /\ e.has # 0 THEN sp.stream_retrans ELSE -1,
   errors |-> sp.cnt_error, omitted_errors |-> sp.omitted_cnt_error,
   packets |-> sp.packet_count, omitted_packets |-> sp.omitted_packet_count,
   time |-> sp.time]

SentStream(e, i) ==
  LET sp == e.streams[i] IN
  [id |-> i,
   bytes |-> IF sp.sender THEN sp.bytes_sent - sp.bytes_sent_omit
             ELSE sp.bytes_received,
   retransmits |-> IF sp.sender /\ e.has # 0 THEN sp.stream_retrans ELSE -1,
   errors |-> sp.cnt_error, omitted_errors |-> sp.omitted_cnt_error,
   packets |-> sp.packet_count, omitted_packets |-> sp.omitted_packet_count,
   time |-> sp.time]

\* the server's own output as it stands when the results are sent
SentOutput(e, r, json) ==
  IF r = "s" /\ e.getout
  THEN [from |-> "s", json |-> json, summary |-> e.report # <<>>,
        intervals |-> IF json THEN e.json_intervals ELSE e.output_list]
  ELSE Nothing

send_results(e, r, mode, json) ==
  [from |-> r,
   sender_has_retransmits |-> IF mode = "RECEIVER" THEN -1 ELSE e.has,
   streams |-> {SentStream(e, i) : i \in DOMAIN e.streams},
   output |-> SentOutput(e, r, json)]

\* an earlier version sends neither omitted counters nor times
GotSender(sp, m, isOld) ==
  [sp EXCEPT !.cnt_error = m.errors, !.peer_packet_count = m.packets,
     !.bytes_received = m.bytes,
     !.peer_omitted_packet_count =
        IF isOld THEN sp.omitted_packet_count ELSE m.omitted_packets,
     !.omitted_cnt_error =
        CASE ~isOld -> m.omitted_errors
          [] sp.omitted_packet_count > 0 -> IF m.errors > 0 THEN -1 ELSE 0
          [] OTHER -> m.errors,
     !.receiver_time = IF isOld THEN 0 ELSE m.time]

GotReceiver(sp, m, isOld) ==
  [sp EXCEPT !.peer_packet_count = m.packets, !.bytes_sent = m.bytes,
     !.stream_retrans = m.retransmits,
     !.peer_omitted_packet_count =
        IF isOld THEN m.packets ELSE m.omitted_packets,
     !.sender_time = IF isOld THEN 0 ELSE m.time]

GotStream(sp, ms, isOld) ==
  IF ms = {} THEN sp
  ELSE LET m == CHOOSE m \in ms : TRUE
       IN  IF sp.sender THEN GotSender(sp, m, isOld)
           ELSE GotReceiver(sp, m, isOld)

get_results(e, r, mode, msg, isOld) ==
  [e EXCEPT
     !.has = IF mode = "RECEIVER" THEN msg.sender_has_retransmits ELSE @,
     !.other = CASE mode = "RECEIVER" -> 0
                 [] mode = "BIDIRECTIONAL" -> msg.sender_has_retransmits
                 [] OTHER -> @,
     !.streams = [i \in DOMAIN @ |->
        GotStream(@[i], {m \in msg.streams : m.id = i}, isOld)],
     !.server_output = IF r = "c" /\ e.getout THEN msg.output ELSE @,
     !.err = IF \E m \in msg.streams : m.id \notin DOMAIN e.streams
             THEN "IESTREAMID" ELSE @]

----------------------------------------------------------------------------
(* The reports.  tx tells the streams that send at this end from those     *)
(* that receive; a bidirectional test is reported in both directions.  The *)
(* flag of the sender is swapped for the other end's while the direction   *)
(* that it sends is printed (Retransmits).                                 *)
\* mutant: a bidirectional test is reported in the direction it sends
Directions_SendingOnly(mode) == IF mode = "RECEIVER" THEN {FALSE} ELSE {TRUE}

Directions(mode) == CASE mode = "SENDER" -> {TRUE}
                      [] mode = "RECEIVER" -> {FALSE}
                      [] OTHER -> BOOLEAN
OfDirection(e, tx) == {i \in DOMAIN e.streams : e.streams[i].sender = tx}

\* the name of a sum: the same for the two ends of one direction
sum_name(r, mode, tx) ==
  IF mode = "BIDIRECTIONAL" /\ (r = "c") # tx
  THEN "sum_bidir_reverse" ELSE "sum"

Summed(json) == json \/ test.streams > 1

\* mutant: the wish for the server's output is forgotten
Discarded_Always(e, r) == test.jstream /\ ~test.full

\* with --json-stream an interval is not kept, unless the client wants it
Discarded(e, r) == test.jstream /\ ~test.full /\ ~(r = "s" /\ e.getout)

\* iv: stream |-> the bytes of its last interval and whether it lasted for
\* a tenth of the interval at least
Bytes(iv, is) == MapThenSumSet(LAMBDA i : iv[i].bytes, is)

iperf_print_intermediate(e, r, json, iv) ==
  LET mode == Mode(r)
      sums == IF Summed(json) THEN Directions(mode) ELSE {}
      With(txs) == UNION {OfDirection(e, tx) : tx \in txs}
  IN  IF \A i \in DOMAIN iv : iv[i].bytes = 0 /\ ~iv[i].long THEN e
      ELSE [e EXCEPT
              !.printed = @ + 1,
              !.json_intervals =
                 @ + (IF json /\ ~Discarded(e, r) THEN 1 ELSE 0),
              !.output_list =
                 @ + (IF ~json /\ r = "s" /\ e.getout THEN 1 ELSE 0),
              !.shown.lines = @ + Bytes(iv, With(Directions(mode))),
              !.shown.sums = @ + Bytes(iv, With(sums))]

\* does the sender of this direction count retransmissions?
Retransmits(e, mode, tx) ==
  /\ test.protocol # "udp"
  /\ (IF mode = "BIDIRECTIONAL" /\ ~tx THEN e.other ELSE e.has) # 0

\* the packets of a stream at its two ends, the omitted ones taken off
SenderCount(sp) == IF sp.sender THEN sp.packet_count ELSE sp.peer_packet_count
ReceiverCount(sp) == IF sp.sender THEN sp.peer_packet_count ELSE sp.packet_count
SenderPackets(sp) ==
  SenderCount(sp) - (IF sp.sender THEN sp.omitted_packet_count
                     ELSE sp.peer_omitted_packet_count)
ReceiverPackets(sp) ==
  ReceiverCount(sp) - (IF sp.sender THEN sp.peer_omitted_packet_count
                       ELSE sp.omitted_packet_count)

\* the one number of packets of a JSON object: the sender's if it is known,
\* less the omitted ones of the end that prints
JsonPackets(sp) ==
  (IF SenderCount(sp) # 0 THEN SenderCount(sp) ELSE ReceiverCount(sp))
    - sp.omitted_packet_count

Lost(sp) == sp.cnt_error - (IF sp.omitted_cnt_error > -1
                            THEN sp.omitted_cnt_error ELSE 0)

\* the loss of one stream: the JSON object takes off whatever is there, the
\* text leaves out what is not known
StreamLost(sp, json) == IF json \/ test.omit
                        THEN sp.cnt_error - sp.omitted_cnt_error
                        ELSE sp.cnt_error
LossKnown(sp, json) == json \/ ~test.omit \/ sp.omitted_cnt_error > -1

\* the lengths of the test come from the first stream, whichever way it goes
Times(e) ==
  LET sp == e.streams[1]
      other == IF sp.sender THEN sp.receiver_time ELSE sp.sender_time
      peer == IF other = 0 THEN sp.time ELSE other
  IN  [sender |-> IF sp.sender THEN sp.time ELSE peer,
       receiver |-> IF sp.sender THEN peer ELSE sp.time]

\* a line has the counters that it prints; the server's text leaves out what
\* only its client knows
Known(r, json, tx) ==
  IF json \/ r = "c"
  THEN {"sent", "received", "retransmits", "packets", "packets_sent",
        "packets_received", "lost"}
  ELSE IF tx THEN {"sent", "retransmits", "packets_sent"}
  ELSE {"received", "packets_received", "lost"}

\* the streams is of one direction, with what they lost together
Line(e, is, lost, printed) ==
  LET Total(Of(_)) == MapThenSumSet(LAMBDA i : Of(e.streams[i]), is)
      Sent(s) == s.bytes_sent - s.bytes_sent_omit
      Received(s) == s.bytes_received
      Retrans(s) == s.stream_retrans
      all == [sent |-> Total(Sent), received |-> Total(Received),
              retransmits |-> Total(Retrans), packets |-> Total(JsonPackets),
              packets_sent |-> Total(SenderPackets),
              packets_received |-> Total(ReceiverPackets), lost |-> lost]
  IN  [f \in printed |-> all[f]]

\* the JSON object of a UDP stream has one number of packets and the bytes
\* that were sent
StreamLine(e, r, json, i) ==
  LET sp == e.streams[i]
      fields ==
        CASE test.protocol = "udp" /\ json -> {"sent", "packets", "lost"}
          [] test.protocol = "udp" /\ ~json ->
               {"sent", "packets_sent", "received", "packets_received"}
                 \cup (IF LossKnown(sp, json) THEN {"lost"} ELSE {})
          [] OTHER ->
               {"sent", "received"}
                 \cup (IF Retransmits(e, Mode(r), sp.sender)
                          \/ test.protocol = "sctp"
                       THEN {"retransmits"} ELSE {})
  IN  Line(e, {i}, StreamLost(sp, json), fields \cap Known(r, json, sp.sender))

SumLine(e, r, json, tx) ==
  LET is == OfDirection(e, tx)
      Of(i) == Lost(e.streams[i])
      fields ==
        IF test.protocol = "udp"
        THEN {"sent", "packets_sent", "received", "packets_received", "lost"}
               \cup (IF json THEN {"packets"} ELSE {})
        ELSE {"sent", "received"}
               \cup (IF Retransmits(e, Mode(r), tx) THEN {"retransmits"} ELSE {})
  IN  Line(e, is, MapThenSumSet(Of, is), fields \cap Known(r, json, tx))

iperf_print_results(e, r, json) ==
  LET mode == Mode(r)
      names == {sum_name(r, mode, tx) : tx \in Directions(mode)}
      Way(name) == CHOOSE tx \in Directions(mode) :
                     sum_name(r, mode, tx) = name
  IN  [e EXCEPT !.report =
         [streams |-> [i \in UNION {OfDirection(e, tx) :
                                      tx \in Directions(mode)} |->
                         StreamLine(e, r, json, i)],
          times |-> Times(e),
          sums |-> [name \in IF Summed(json) THEN names ELSE {} |->
                      SumLine(e, r, json, Way(name))]]]

\* iperf_reporter_callback at the end of a test: moved is counted by the
\* statistics, whether the interval is printed or not
Interval(e, r, json, iv) ==
  [iperf_print_intermediate(e, r, json, iv) EXCEPT
     !.moved = @ + Bytes(iv, DOMAIN iv)]
FinalReport(e, r, json, iv) ==
  iperf_print_results(Interval(e, r, json, iv), r, json)

----------------------------------------------------------------------------
(* The course of a test, one after the other on one server.                *)
Json(r) == IF r = "c" THEN test.cjson ELSE test.sjson
Intervals == [Ids(test) -> [bytes : 0 .. 1, long : BOOLEAN]]
LastIntervals == {[i \in Ids(test) |-> [bytes |-> b, long |-> FALSE]] :
                    b \in 0 .. 1}
NoLoad == [sent |-> 0, sent_omit |-> 0, got |-> 0, retr |-> 0, seq |-> 0,
           seq_omit |-> 0, rseq |-> 0, rseq_omit |-> 0, err |-> 0,
           err_omit |-> 0, stime |-> 0, rtime |-> 0]
Omitted(l) == l.sent_omit + l.seq_omit + l.rseq_omit + l.err_omit > 0

Streams(t, r, ls) == [i \in Ids(t) |-> Stream(t, r, i, ls[i])]

Init == /\ test = Nothing /\ old = "none"
        /\ loads = <<>> /\ wire = Nothing /\ pc = "idle"
        /\ end = [r \in {"c", "s"} |-> EndOf(FALSE)]

\* the server keeps the wish of an earlier client for its output
StartTest(t, o) ==
  /\ pc = "idle" /\ pc' = "running"
  /\ test' = t /\ old' = o
  /\ loads' = [i \in Ids(t) |-> NoLoad] /\ wire' = Nothing
  /\ end' = [r \in {"c", "s"} |->
       [EndOf(IF r = "c" THEN t.getout ELSE t.getout \/ end["s"].getout)
        EXCEPT !.streams = Streams(t, r, loads'),
               !.has = HasRetransmits(t, r,
                  CASE r = "c" \/ t.mode = "BIDIRECTIONAL" -> t.mode
                    [] t.mode = "SENDER" -> "RECEIVER"
                    [] OTHER -> "SENDER")]]

IntervalReport(r) ==
  /\ pc = "running" /\ end[r].printed < MaxIntervals
  /\ \E iv \in Intervals :
       end' = [end EXCEPT ![r] = Interval(@, r, Json(r), iv)]
  /\ UNCHANGED <<test, old, loads, wire, pc>>

\* the counters with which the test ends at both ends
Counted(ls) == [r \in {"c", "s"} |->
                  [end[r] EXCEPT !.streams = Streams(test, r, ls)]]
PossibleLoads == [Ids(test) -> {l \in Loads[test.protocol] :
                                  Omitted(l) => test.omit}]

\* TEST_END at the server: its report comes before the exchange
TestEnd ==
  /\ pc = "running" /\ pc' = "ended"
  /\ \E ls \in PossibleLoads, iv \in LastIntervals :
       /\ loads' = ls
       /\ end' = [Counted(ls) EXCEPT
                    !["s"] = FinalReport(@, "s", Json("s"), iv)]
  /\ UNCHANGED <<test, old, wire>>

\* CLIENT_TERMINATE at the server and SERVER_TERMINATE at the client: the
\* end that is left reports without the other's results
Terminated(r) ==
  /\ pc = "running" /\ pc' = "finished"
  /\ \E ls \in PossibleLoads, iv \in LastIntervals :
       /\ loads' = ls
       /\ end' = [Counted(ls) EXCEPT ![r] = FinalReport(@, r, Json(r), iv)]
  /\ UNCHANGED <<test, old, wire>>

\* iperf_exchange_results: the client sends and then gets, the server the
\* other way round
ClientSendsResults ==
  /\ pc = "ended" /\ pc' = "sent"
  /\ wire' = send_results(end["c"], "c", Mode("c"), Json("c"))
  /\ UNCHANGED <<test, old, loads, end>>

ServerExchanges ==
  /\ pc = "sent" /\ pc' = "answered"
  /\ LET e == get_results(end["s"], "s", Mode("s"), wire, old = "c") IN
     /\ end' = [end EXCEPT !["s"] = e]
     /\ wire' = send_results(e, "s", Mode("s"), Json("s"))
  /\ UNCHANGED <<test, old, loads>>

ClientGetsResults ==
  /\ pc = "answered" /\ pc' = "exchanged" /\ wire' = Nothing
  /\ end' = [end EXCEPT !["c"] =
               get_results(@, "c", Mode("c"), wire, old = "s")]
  /\ UNCHANGED <<test, old, loads>>

\* the connection fails while an end waits for the other's results
ExchangeFails ==
  /\ pc \in {"sent", "answered"} /\ pc' = "finished" /\ wire' = Nothing
  /\ end' = [end EXCEPT ![IF pc = "sent" THEN "s" ELSE "c"].err =
               "IERECVRESULTS"]
  /\ UNCHANGED <<test, old, loads>>

\* DISPLAY_RESULTS at the client
DisplayResults ==
  /\ pc = "exchanged" /\ pc' = "displayed"
  /\ \E iv \in LastIntervals :
       end' = [end EXCEPT !["c"] = FinalReport(@, "c", Json("c"), iv)]
  /\ UNCHANGED <<test, old, loads, wire>>

\* iperf_reset_test and the next client
TestOver ==
  /\ pc \in {"displayed", "finished"} /\ pc' = "idle"
  /\ loads' = <<>> /\ wire' = Nothing /\ old' = "none"
  /\ end' = [r \in {"c", "s"} |-> EndOf(r = "s" /\ end["s"].getout)]
  /\ test' = Nothing

Next == \/ \E t \in Settings, o \in {"none", "c", "s"} : StartTest(t, o)
        \/ \E r \in {"c", "s"} : IntervalReport(r) \/ Terminated(r)
        \/ TestEnd \/ ClientSendsResults \/ ServerExchanges
        \/ ClientGetsResults \/ ExchangeFails \/ DisplayResults \/ TestOver

Spec == Init /\ [][Next]_vars

----------------------------------------------------------------------------
(* The streams that a sum is about, by what its name says.                 *)
Meant(name) == {i \in Ids(test) :
                  test.mode = "BIDIRECTIONAL" =>
                    (name = "sum") = ClientSends(test, i)}

\* the counters of the streams is as their own ends have them; packets is
\* what the client takes for the packets that were sent: where it receives
\* it takes off its own omitted ones
Truth(is) ==
  LET Total(Of(_, _)) == MapThenSumSet(LAMBDA i : Of(i, loads[i]), is)
      Sent(i, l) == l.sent
      Got(i, l) == l.got
      Retr(i, l) == l.retr
      Seq(i, l) == l.seq - l.seq_omit
      RSeq(i, l) == l.rseq - l.rseq_omit
      Packets(i, l) == l.seq - (IF ClientSends(test, i) THEN l.seq_omit
                                                        ELSE l.rseq_omit)
      Gone(i, l) == l.err - l.err_omit
  IN  [sent |-> Total(Sent), received |-> Total(Got),
       retransmits |-> Total(Retr), packets |-> Total(Packets),
       packets_sent |-> Total(Seq), packets_received |-> Total(RSeq),
       lost |-> Total(Gone)]

Counters(line) ==
  LET known == IF old = "none" THEN {}
               ELSE {"packets_sent", "packets_received", "lost"}
  IN  DOMAIN line \ known

SenderCountsRetransmits(i) ==
  /\ test.protocol = "tcp"
  /\ IF ClientSends(test, i) THEN test.cretr ELSE test.sretr

\* iperf_print_results after get_results: every counter that the client
\* prints of a stream or of a direction is the one that the stream's own
\* end counted in the measured period, retransmissions are printed exactly
\* when the sending end counts them, and whatever the server printed of its
\* own side before the exchange carries the same name and the same numbers.
\* There are two exceptions.  An SCTP stream always shows retransmissions,
\* none where the client sends and -1 where it receives.  And the packets
\* of a JSON object are the sender's only without an omitted period or
\* where the client sends.  Of a peer of an earlier version, the bytes and
\* the retransmissions.
ReportsAgree ==
  pc = "displayed" =>
    LET c == end["c"].report  s == end["s"].report IN
    /\ DOMAIN c.streams = Ids(test)
    /\ \A i \in Ids(test) :
         /\ \A f \in Counters(c.streams[i]) \ {"retransmits"} :
              c.streams[i][f] = Truth({i})[f]
         /\ ("retransmits" \in DOMAIN c.streams[i]) =
              (SenderCountsRetransmits(i) \/ test.protocol = "sctp")
         /\ "retransmits" \in DOMAIN c.streams[i] =>
              c.streams[i].retransmits =
                IF test.protocol = "sctp" /\ ~ClientSends(test, i) THEN -1
                ELSE Truth({i}).retransmits
    /\ \A name \in DOMAIN c.sums :
         /\ Meant(name) # {}
         /\ \A f \in Counters(c.sums[name]) :
              c.sums[name][f] = Truth(Meant(name))[f]
         /\ ("retransmits" \in DOMAIN c.sums[name]) =
              \E i \in Meant(name) : SenderCountsRetransmits(i)
    /\ \A name \in DOMAIN s.sums :
         LET truth == Truth(Meant(name))
             sent == \E i \in Meant(name) : ~ClientSends(test, i)
             own == IF sent THEN {"sent", "packets_sent", "retransmits"}
                    ELSE {"received", "packets_received", "lost"}
         IN  /\ \A f \in own \cap Counters(s.sums[name]) :
                  s.sums[name][f] = truth[f]
             /\ "packets" \in DOMAIN s.sums[name] =>
                  s.sums[name].packets =
                    IF sent THEN truth.packets_sent ELSE truth.packets_received

\* iperf_print_intermediate: whatever the intervals are and whichever of
\* them are left out as short, an end's lines together, and its sums
\* together where it prints them, hold every byte of its streams once.
IntervalsShowEverything ==
  \A r \in {"c", "s"} :
    /\ end[r].shown.lines = end[r].moved
    /\ end[r].shown.sums = IF pc # "idle" /\ Summed(Json(r))
                           THEN end[r].moved ELSE 0

\* --get-server-output: the client that asks for the server's output gets
\* every interval that the server printed and its summary, as JSON or as
\* text, also when the server streams its JSON and keeps nothing for
\* itself; a client that does not ask gets nothing, although the server
\* goes on collecting for the later clients of one that did.
ServerOutputComplete ==
  pc \in {"exchanged", "displayed"} =>
    end["c"].server_output =
      IF test.getout
      THEN [from |-> "s", json |-> test.sjson, summary |-> TRUE,
            intervals |-> end["s"].printed]
      ELSE Nothing
=============================================================================
