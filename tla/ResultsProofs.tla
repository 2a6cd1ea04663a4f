--------------------------- MODULE ResultsProofs ---------------------------
(***************************************************************************)
(* The output of a server reaches the client that asks for it, for every   *)
(* set of tests, every load and every number of intervals.                 *)
(***************************************************************************)
EXTENDS Results, TLAPS

EndFields == {"streams", "has", "other", "getout", "printed", "json_intervals", "output_list",
              "moved", "shown", "report", "server_output", "err"}

(* An end is a record with the members of EndOf.                           *)
IsEnd(e) ==
  /\ DOMAIN e = EndFields /\ e = [f \in EndFields |-> e[f]]
  /\ e.getout \in BOOLEAN
  /\ e.printed \in Nat /\ e.json_intervals \in Nat /\ e.output_list \in Nat

(* What a step leaves alone of the output of an end.                       *)
SameOutput(d, e) ==
  /\ d.getout = e.getout /\ d.printed = e.printed
  /\ d.json_intervals = e.json_intervals /\ d.output_list = e.output_list
  /\ d.report = e.report /\ d.server_output = e.server_output

(* What an end keeps for its client is all that it has printed.            *)
Kept(e, json) ==
  e.getout => IF json THEN e.json_intervals = e.printed ELSE e.output_list = e.printed

Exchanging == {"running", "ended", "sent", "answered"}
Reported == {"ended", "sent", "answered", "exchanged", "displayed"}

OutputInv ==
  /\ pc \in {"idle", "running", "ended", "sent", "answered", "exchanged", "displayed", "finished"}
  /\ end = [r \in {"c", "s"} |-> end[r]]
  /\ IsEnd(end["c"]) /\ IsEnd(end["s"])
  /\ pc # "idle" =>
       /\ test \in Settings
       /\ end["c"].getout = test.getout
       /\ test.getout => end["s"].getout
       /\ Kept(end["s"], test.sjson)
  /\ pc \in Reported => end["s"].report # <<>>
  /\ pc \in Exchanging => end["c"].server_output = Nothing
  /\ pc = "answered" => wire.output = SentOutput(end["s"], "s", test.sjson)
  /\ ServerOutputComplete

LEMMA Flags ==
  ASSUME NEW t \in Settings
  PROVE  t.getout \in BOOLEAN /\ t.sjson \in BOOLEAN /\ t.cjson \in BOOLEAN
BY ResultsAssumption

LEMMA NewEnd ==
  ASSUME NEW g \in BOOLEAN
  PROVE  /\ IsEnd(EndOf(g)) /\ EndOf(g).getout = g /\ EndOf(g).server_output = Nothing
         /\ \A json \in BOOLEAN : Kept(EndOf(g), json)
BY DEF EndOf, EndFields, IsEnd, Kept

(* Members of an end that its output does not depend on.                   *)
LEMMA OtherFields ==
  ASSUME NEW e, IsEnd(e), NEW v, NEW w, NEW f,
         \/ f = [e EXCEPT !.streams = v, !.has = w]
         \/ f = [e EXCEPT !.streams = v]
         \/ f = [e EXCEPT !.moved = v]
         \/ f = [e EXCEPT !.err = v]
  PROVE  IsEnd(f) /\ SameOutput(f, e)
BY DEF EndFields, IsEnd, SameOutput

(* iperf_print_intermediate                                                *)
LEMMA IntermediateKeeps ==
  ASSUME NEW e, IsEnd(e), NEW r \in {"c", "s"}, NEW json \in BOOLEAN, NEW iv,
         r = "s" => Kept(e, json)
  PROVE  LET d == iperf_print_intermediate(e, r, json, iv)
         IN  /\ IsEnd(d)
             /\ r = "s" => Kept(d, json)
             /\ d.getout = e.getout /\ d.report = e.report /\ d.server_output = e.server_output
<1> DEFINE d == iperf_print_intermediate(e, r, json, iv)
           quiet == \A i \in DOMAIN iv : iv[i].bytes = 0 /\ ~iv[i].long
<1>1. CASE quiet
  BY <1>1 DEF iperf_print_intermediate
<1>2. CASE ~quiet
  <2>1. PICK lines, sums :
          d = [e EXCEPT
              !.printed = @ + 1,
              !.json_intervals = @ + (IF json /\ ~Discarded(e, r) THEN 1 ELSE 0),
              !.output_list = @ + (IF ~json /\ r = "s" /\ e.getout THEN 1 ELSE 0),
              !.shown.lines = lines, !.shown.sums = sums]
    BY <1>2 DEF iperf_print_intermediate
  <2>2. r = "s" /\ e.getout => ~Discarded(e, r)
    BY DEF Discarded
  <2> HIDE DEF d
  <2>3. DOMAIN d = EndFields /\ d = [f \in EndFields |-> d[f]]
    BY <2>1 DEF EndFields, IsEnd
  <2>4. /\ d.getout = e.getout /\ d.report = e.report /\ d.server_output = e.server_output
        /\ d.printed = e.printed + 1
        /\ d.json_intervals = e.json_intervals + (IF json /\ ~Discarded(e, r) THEN 1 ELSE 0)
        /\ d.output_list = e.output_list + (IF ~json /\ r = "s" /\ e.getout THEN 1 ELSE 0)
    BY <2>1 DEF EndFields, IsEnd
  <2>5. IsEnd(d)
    BY <2>3, <2>4 DEF IsEnd
  <2>6. r = "s" => Kept(d, json)
    BY <2>2, <2>4 DEF Kept, IsEnd
  <2>7. QED BY <2>4, <2>5, <2>6 DEF d
<1>3. QED BY <1>1, <1>2

(* An interval that is reported, and the summary at the end.               *)
LEMMA IntervalKeeps ==
  ASSUME NEW e, IsEnd(e), NEW r \in {"c", "s"}, NEW json \in BOOLEAN, NEW iv,
         r = "s" => Kept(e, json)
  PROVE  LET d == Interval(e, r, json, iv)
         IN  /\ IsEnd(d)
             /\ r = "s" => Kept(d, json)
             /\ d.getout = e.getout /\ d.report = e.report /\ d.server_output = e.server_output
<1> DEFINE p == iperf_print_intermediate(e, r, json, iv)
           d == Interval(e, r, json, iv)
<1>1. /\ IsEnd(p)
      /\ r = "s" => Kept(p, json)
      /\ p.getout = e.getout /\ p.report = e.report /\ p.server_output = e.server_output
  BY IntermediateKeeps
<1>2. d = [p EXCEPT !.moved = p.moved + Bytes(iv, DOMAIN iv)]
  BY <1>1 DEF Interval, IsEnd, EndFields
<1> HIDE DEF p, d
<1>3. IsEnd(d) /\ SameOutput(d, p)
  BY <1>1, <1>2, OtherFields
<1>4. r = "s" => Kept(d, json)
  BY <1>1, <1>3 DEF Kept, SameOutput
<1>5. QED BY <1>1, <1>3, <1>4 DEF SameOutput, d

LEMMA FinalKeeps ==
  ASSUME NEW e, IsEnd(e), NEW r \in {"c", "s"}, NEW json \in BOOLEAN, NEW iv,
         r = "s" => Kept(e, json)
  PROVE  LET d == FinalReport(e, r, json, iv)
         IN  /\ IsEnd(d)
             /\ r = "s" => Kept(d, json)
             /\ d.getout = e.getout /\ d.report # <<>> /\ d.server_output = e.server_output
<1> DEFINE p == Interval(e, r, json, iv)
           d == FinalReport(e, r, json, iv)
<1>1. /\ IsEnd(p)
      /\ r = "s" => Kept(p, json)
      /\ p.getout = e.getout /\ p.server_output = e.server_output
  BY IntervalKeeps
<1> HIDE DEF p
<1>2. PICK a, t, b : d = [p EXCEPT !.report = [streams |-> a, times |-> t, sums |-> b]]
  BY DEF FinalReport, iperf_print_results, p
<1> HIDE DEF d
<1>3. [streams |-> a, times |-> t, sums |-> b] # <<>>
  <2>1. DOMAIN [streams |-> a, times |-> t, sums |-> b] = {"streams", "times", "sums"} /\ DOMAIN <<>> = {}
    OBVIOUS
  <2>2. QED BY <2>1
<1>4. /\ IsEnd(d) /\ d.report = [streams |-> a, times |-> t, sums |-> b]
      /\ d.printed = p.printed /\ d.json_intervals = p.json_intervals
      /\ d.output_list = p.output_list
      /\ d.getout = p.getout /\ d.server_output = p.server_output
  BY <1>1, <1>2 DEF IsEnd, EndFields
<1>5. r = "s" => Kept(d, json)
  BY <1>1, <1>4 DEF Kept
<1>6. QED BY <1>1, <1>3, <1>4, <1>5 DEF d

(* get_results takes the server's output if it was asked for.              *)
LEMMA GetKeeps ==
  ASSUME NEW e, IsEnd(e), NEW r \in {"c", "s"}, NEW mode, NEW msg, NEW isOld
  PROVE  LET d == get_results(e, r, mode, msg, isOld)
         IN  /\ IsEnd(d)
             /\ d.getout = e.getout /\ d.printed = e.printed
             /\ d.json_intervals = e.json_intervals /\ d.output_list = e.output_list
             /\ d.report = e.report
             /\ d.server_output = IF r = "c" /\ e.getout THEN msg.output ELSE e.server_output
<1> DEFINE d == get_results(e, r, mode, msg, isOld)
           out == IF r = "c" /\ e.getout THEN msg.output ELSE e.server_output
<1>1. PICK a, b, c, x : d = [e EXCEPT !.has = a, !.other = b, !.streams = c, !.server_output = out,
                                      !.err = x]
  BY DEF get_results, IsEnd, EndFields
<1> HIDE DEF d, out
<1>2. DOMAIN d = EndFields /\ d = [f \in EndFields |-> d[f]]
  BY <1>1 DEF EndFields, IsEnd
<1>3. /\ d.getout = e.getout /\ d.printed = e.printed
      /\ d.json_intervals = e.json_intervals /\ d.output_list = e.output_list
      /\ d.report = e.report /\ d.server_output = out
  BY <1>1 DEF EndFields, IsEnd
<1>4. QED BY <1>2, <1>3 DEF IsEnd, d, out

----------------------------------------------------------------------------
(* The steps.                                                              *)

LEMMA OutputInit == Init => OutputInv
<1> SUFFICES ASSUME Init PROVE OutputInv
  OBVIOUS
<1>1. end = [r \in {"c", "s"} |-> EndOf(FALSE)] /\ pc = "idle"
  BY DEF Init
<1>2. IsEnd(EndOf(FALSE))
  BY NewEnd
<1>3. QED
  BY <1>1, <1>2 DEF OutputInv, Reported, Exchanging, ServerOutputComplete

(* What an end needs to know of the other steps.                           *)
LEMMA EndsFields ==
  ASSUME OutputInv
  PROVE  /\ IsEnd(end["c"]) /\ IsEnd(end["s"])
         /\ \A r \in {"c", "s"} : \A e :
              /\ [end EXCEPT ![r] = e] = [q \in {"c", "s"} |-> [end EXCEPT ![r] = e][q]]
              /\ [end EXCEPT ![r] = e][r] = e
              /\ \A q \in {"c", "s"} : q # r => [end EXCEPT ![r] = e][q] = end[q]
BY DEF OutputInv

LEMMA OutputStart ==
  ASSUME OutputInv, NEW t \in Settings, NEW o, StartTest(t, o)
  PROVE  OutputInv'
<1>1. /\ pc = "idle" /\ pc' = "running" /\ test' = t
      /\ end["s"].getout \in BOOLEAN /\ t.getout \in BOOLEAN /\ t.sjson \in BOOLEAN
  BY Flags DEF StartTest, OutputInv, IsEnd
<1>2. PICK g \in BOOLEAN : g = (t.getout \/ end["s"].getout)
  BY <1>1
<1>3. PICK sc, hc : end'["c"] = [EndOf(t.getout) EXCEPT !.streams = sc, !.has = hc]
  BY DEF StartTest
<1>4. PICK ss, hs : end'["s"] = [EndOf(g) EXCEPT !.streams = ss, !.has = hs]
  BY <1>2 DEF StartTest
<1>5. end' = [r \in {"c", "s"} |-> end'[r]]
  BY DEF StartTest
<1>6. /\ IsEnd(end'["c"]) /\ SameOutput(end'["c"], EndOf(t.getout))
      /\ EndOf(t.getout).getout = t.getout /\ EndOf(t.getout).server_output = Nothing
  <2>1. /\ IsEnd(EndOf(t.getout))
        /\ EndOf(t.getout).getout = t.getout /\ EndOf(t.getout).server_output = Nothing
    BY <1>1, NewEnd
  <2> DEFINE e == EndOf(t.getout)
             f == end'["c"]
  <2> HIDE DEF e, f
  <2>2. f = [e EXCEPT !.streams = sc, !.has = hc] /\ IsEnd(e)
    BY <1>3, <2>1 DEF e, f
  <2>3. IsEnd(f) /\ SameOutput(f, e)
    BY <2>2, OtherFields
  <2>4. QED BY <2>1, <2>3 DEF e, f
<1>10. /\ IsEnd(end'["s"]) /\ SameOutput(end'["s"], EndOf(g))
       /\ EndOf(g).getout = g /\ Kept(EndOf(g), t.sjson)
  <2>1. IsEnd(EndOf(g)) /\ EndOf(g).getout = g /\ Kept(EndOf(g), t.sjson)
    BY <1>1, NewEnd
  <2> DEFINE e == EndOf(g)
             f == end'["s"]
  <2> HIDE DEF e, f
  <2>2. f = [e EXCEPT !.streams = ss, !.has = hs] /\ IsEnd(e)
    BY <1>4, <2>1 DEF e, f
  <2>3. IsEnd(f) /\ SameOutput(f, e)
    BY <2>2, OtherFields
  <2>4. QED BY <2>1, <2>3 DEF e, f
<1>7. end'["c"].getout = t.getout /\ end'["c"].server_output = Nothing
  BY <1>6 DEF SameOutput
<1>8. (t.getout => end'["s"].getout) /\ Kept(end'["s"], t.sjson)
  BY <1>1, <1>2, <1>10 DEF SameOutput, Kept
<1>9. QED
  BY <1>1, <1>5, <1>6, <1>7, <1>8, <1>10 DEF OutputInv, Reported, Exchanging, ServerOutputComplete

LEMMA OutputInterval ==
  ASSUME OutputInv, NEW r \in {"c", "s"}, IntervalReport(r)
  PROVE  OutputInv'
<1>1. /\ pc = "running" /\ UNCHANGED <<test, wire, pc>> /\ test \in Settings
      /\ test.sjson \in BOOLEAN /\ Json(r) \in BOOLEAN /\ Json("s") = test.sjson
  BY Flags DEF IntervalReport, OutputInv, Json
<1>2. PICK iv : end' = [end EXCEPT ![r] = Interval(end[r], r, Json(r), iv)]
  BY DEF IntervalReport, OutputInv
<1> DEFINE d == Interval(end[r], r, Json(r), iv)
<1>3. IsEnd(end[r]) /\ (r = "s" => Kept(end[r], Json(r)))
  BY <1>1 DEF OutputInv
<1>4. /\ IsEnd(d)
      /\ r = "s" => Kept(d, Json(r))
      /\ d.getout = end[r].getout /\ d.server_output = end[r].server_output
  BY <1>1, <1>3, IntervalKeeps
<1> HIDE DEF d
<1>5. end' = [end EXCEPT ![r] = d]
  BY <1>2 DEF d
<1>6. /\ end' = [q \in {"c", "s"} |-> end'[q]] /\ end'[r] = d
      /\ \A q \in {"c", "s"} : q # r => end'[q] = end[q]
  BY <1>5, EndsFields
<1>7. IsEnd(end'["c"]) /\ IsEnd(end'["s"])
  BY <1>4, <1>6, EndsFields
<1>8. /\ end'["c"].getout = end["c"].getout /\ end'["s"].getout = end["s"].getout
      /\ end'["c"].server_output = end["c"].server_output
      /\ Kept(end'["s"], test.sjson)
  BY <1>1, <1>4, <1>6 DEF OutputInv
<1>9. QED
  BY <1>1, <1>6, <1>7, <1>8 DEF OutputInv, Reported, Exchanging, ServerOutputComplete

(* The counters with which a test ends are not those of the output.        *)
LEMMA CountedKeeps ==
  ASSUME OutputInv, pc = "running", NEW ls
  PROVE  /\ Counted(ls) = [q \in {"c", "s"} |-> Counted(ls)[q]]
         /\ \A q \in {"c", "s"} : IsEnd(Counted(ls)[q]) /\ SameOutput(Counted(ls)[q], end[q])
         /\ Kept(Counted(ls)["s"], test.sjson)
<1>1. ASSUME NEW q \in {"c", "s"}
      PROVE  IsEnd(Counted(ls)[q]) /\ SameOutput(Counted(ls)[q], end[q])
  <2>1. Counted(ls)[q] = [end[q] EXCEPT !.streams = Streams(test, q, ls)]
    BY DEF Counted
  <2>2. IsEnd(end[q])
    BY DEF OutputInv
  <2> DEFINE e == end[q]
             f == Counted(ls)[q]
             v == Streams(test, q, ls)
  <2> HIDE DEF e, f, v
  <2>3. f = [e EXCEPT !.streams = v] /\ IsEnd(e)
    BY <2>1, <2>2 DEF e, f, v
  <2>4. IsEnd(f) /\ SameOutput(f, e)
    BY <2>3, OtherFields
  <2>5. QED BY <2>4 DEF e, f
<1>2. Counted(ls) = [q \in {"c", "s"} |-> Counted(ls)[q]]
  BY DEF Counted
<1>3. Kept(end["s"], test.sjson)
  BY DEF OutputInv
<1>4. Kept(Counted(ls)["s"], test.sjson)
  BY <1>1, <1>3 DEF Kept, SameOutput
<1>5. QED BY <1>1, <1>2, <1>4

LEMMA OutputTestEnd == ASSUME OutputInv, TestEnd PROVE OutputInv'
<1>1. /\ pc = "running" /\ pc' = "ended" /\ UNCHANGED <<test, wire>> /\ test \in Settings
      /\ test.sjson \in BOOLEAN /\ Json("s") = test.sjson
  BY Flags DEF TestEnd, OutputInv, Json
<1>2. PICK ls, iv :
        end' = [Counted(ls) EXCEPT !["s"] = FinalReport(Counted(ls)["s"], "s", test.sjson, iv)]
  BY <1>1 DEF TestEnd, Counted
<1> DEFINE d == FinalReport(Counted(ls)["s"], "s", test.sjson, iv)
<1>3. /\ Counted(ls) = [q \in {"c", "s"} |-> Counted(ls)[q]]
      /\ \A q \in {"c", "s"} : IsEnd(Counted(ls)[q]) /\ SameOutput(Counted(ls)[q], end[q])
      /\ Kept(Counted(ls)["s"], test.sjson)
  BY <1>1, CountedKeeps
<1>4. /\ IsEnd(d) /\ Kept(d, test.sjson)
      /\ d.getout = Counted(ls)["s"].getout /\ d.report # <<>>
  BY <1>1, <1>3, FinalKeeps
<1> HIDE DEF d
<1>5. end' = [q \in {"c", "s"} |-> end'[q]] /\ end'["s"] = d /\ end'["c"] = Counted(ls)["c"]
  BY <1>2, <1>3 DEF d
<1>6. /\ end'["c"].getout = end["c"].getout /\ end'["s"].getout = end["s"].getout
      /\ end'["c"].server_output = end["c"].server_output
  BY <1>3, <1>4, <1>5 DEF SameOutput
<1>7. QED
  BY <1>1, <1>3, <1>4, <1>5, <1>6 DEF OutputInv, Reported, Exchanging, ServerOutputComplete

LEMMA OutputTerminated ==
  ASSUME OutputInv, NEW r \in {"c", "s"}, Terminated(r)
  PROVE  OutputInv'
<1>1. /\ pc = "running" /\ pc' = "finished" /\ UNCHANGED <<test, wire>> /\ test \in Settings
      /\ test.sjson \in BOOLEAN /\ Json(r) \in BOOLEAN /\ Json("s") = test.sjson
  BY Flags DEF Terminated, OutputInv, Json
<1>2. PICK ls, iv :
        end' = [Counted(ls) EXCEPT ![r] = FinalReport(Counted(ls)[r], r, Json(r), iv)]
  BY <1>1 DEF Terminated, Counted
<1> DEFINE d == FinalReport(Counted(ls)[r], r, Json(r), iv)
<1>3. /\ Counted(ls) = [q \in {"c", "s"} |-> Counted(ls)[q]]
      /\ \A q \in {"c", "s"} : IsEnd(Counted(ls)[q]) /\ SameOutput(Counted(ls)[q], end[q])
      /\ Kept(Counted(ls)["s"], test.sjson)
  BY <1>1, CountedKeeps
<1>4. /\ IsEnd(d) /\ (r = "s" => Kept(d, test.sjson))
      /\ d.getout = Counted(ls)[r].getout
  BY <1>1, <1>3, FinalKeeps
<1> HIDE DEF d
<1>5. /\ end' = [q \in {"c", "s"} |-> end'[q]] /\ end'[r] = d
      /\ \A q \in {"c", "s"} : q # r => end'[q] = Counted(ls)[q]
  BY <1>2, <1>3 DEF d
<1>6. /\ end'["c"].getout = end["c"].getout /\ end'["s"].getout = end["s"].getout
      /\ Kept(end'["s"], test.sjson) /\ IsEnd(end'["c"]) /\ IsEnd(end'["s"])
  BY <1>3, <1>4, <1>5 DEF SameOutput
<1>7. QED
  BY <1>1, <1>5, <1>6 DEF OutputInv, Reported, Exchanging, ServerOutputComplete

LEMMA OutputSent == ASSUME OutputInv, ClientSendsResults PROVE OutputInv'
BY DEF OutputInv, ClientSendsResults, Reported, Exchanging, ServerOutputComplete

LEMMA OutputExchanged == ASSUME OutputInv, ServerExchanges PROVE OutputInv'
<1> DEFINE d == get_results(end["s"], "s", Mode("s"), wire, old = "c")
<1>1. /\ pc = "sent" /\ pc' = "answered" /\ test' = test /\ test \in Settings
      /\ end' = [end EXCEPT !["s"] = d] /\ wire'.output = SentOutput(d, "s", test.sjson)
      /\ IsEnd(end["s"])
  BY DEF ServerExchanges, OutputInv, send_results, Json
<1>2. /\ IsEnd(d) /\ d.getout = end["s"].getout /\ d.printed = end["s"].printed
      /\ d.json_intervals = end["s"].json_intervals /\ d.output_list = end["s"].output_list
      /\ d.report = end["s"].report
  BY <1>1, GetKeeps
<1> HIDE DEF d
<1>3. end' = [q \in {"c", "s"} |-> end'[q]] /\ end'["s"] = d /\ end'["c"] = end["c"]
  BY <1>1, EndsFields
<1>4. Kept(d, test.sjson)
  BY <1>1, <1>2 DEF OutputInv, Kept
<1>5. QED
  BY <1>1, <1>2, <1>3, <1>4 DEF OutputInv, Reported, Exchanging, ServerOutputComplete

LEMMA OutputGot == ASSUME OutputInv, ClientGetsResults PROVE OutputInv'
<1> DEFINE d == get_results(end["c"], "c", Mode("c"), wire, old = "s")
           s == end["s"]
<1>1. /\ pc = "answered" /\ pc' = "exchanged" /\ test' = test /\ test \in Settings
      /\ end' = [end EXCEPT !["c"] = d] /\ IsEnd(end["c"])
  BY DEF ClientGetsResults, OutputInv
<1>2. /\ IsEnd(d) /\ d.getout = end["c"].getout
      /\ d.server_output = IF end["c"].getout THEN wire.output ELSE end["c"].server_output
  BY <1>1, GetKeeps
<1> HIDE DEF d
<1>3. end' = [q \in {"c", "s"} |-> end'[q]] /\ end'["c"] = d /\ end'["s"] = s
  BY <1>1, EndsFields
<1>4. /\ end["c"].getout = test.getout /\ test.getout \in BOOLEAN
      /\ test.getout => s.getout
      /\ Kept(s, test.sjson) /\ s.report # <<>> /\ end["c"].server_output = Nothing
      /\ wire.output = SentOutput(s, "s", test.sjson)
  BY <1>1, Flags DEF OutputInv, Reported, Exchanging
<1> HIDE DEF s
<1>5. test.getout => wire.output = [from |-> "s", json |-> test.sjson, summary |-> TRUE,
                                    intervals |-> s.printed]
  <2>1. ASSUME test.getout
        PROVE  wire.output = [from |-> "s", json |-> test.sjson, summary |-> TRUE,
                              intervals |-> s.printed]
    <3>1. s.getout
      BY <1>4, <2>1
    <3>2. (s.report # <<>>) = TRUE
      BY <1>4
    <3>3. (IF test.sjson THEN s.json_intervals ELSE s.output_list) = s.printed
      BY <1>4, <3>1 DEF Kept
    <3>4. wire.output = [from |-> "s", json |-> test.sjson, summary |-> s.report # <<>>,
                         intervals |-> IF test.sjson THEN s.json_intervals ELSE s.output_list]
      BY <1>4, <3>1 DEF SentOutput
    <3>5. QED BY <3>2, <3>3, <3>4
  <2>2. QED BY <2>1
<1>6. ServerOutputComplete'
  BY <1>1, <1>2, <1>3, <1>4, <1>5 DEF ServerOutputComplete
<1>7. QED
  BY <1>1, <1>2, <1>3, <1>6 DEF OutputInv, Reported, Exchanging, s

LEMMA OutputFails == ASSUME OutputInv, ExchangeFails PROVE OutputInv'
<1>1. PICK r \in {"c", "s"} : end' = [end EXCEPT ![r].err = "IERECVRESULTS"]
  BY DEF ExchangeFails
<1> DEFINE e == end[r]
           d == [e EXCEPT !.err = "IERECVRESULTS"]
<1>2. /\ pc \in {"sent", "answered"} /\ pc' = "finished" /\ test' = test /\ test \in Settings
      /\ IsEnd(e)
  BY DEF ExchangeFails, OutputInv
<1>3. end' = [end EXCEPT ![r] = d]
  BY <1>1 DEF OutputInv
<1> HIDE DEF e
<1>4. IsEnd(d) /\ SameOutput(d, e)
  BY <1>2, OtherFields
<1> HIDE DEF d
<1>5. /\ end' = [q \in {"c", "s"} |-> end'[q]] /\ end'[r] = d
      /\ \A q \in {"c", "s"} : q # r => end'[q] = end[q]
  BY <1>3, EndsFields
<1>6. IsEnd(end'["c"]) /\ IsEnd(end'["s"])
  BY <1>4, <1>5, EndsFields
<1>7. SameOutput(end'["c"], end["c"]) /\ SameOutput(end'["s"], end["s"])
  BY <1>4, <1>5 DEF SameOutput, e
<1>8. Kept(end'["s"], test.sjson)
  BY <1>2, <1>7 DEF OutputInv, Kept, SameOutput
<1>9. QED
  BY <1>2, <1>5, <1>6, <1>7, <1>8
     DEF OutputInv, SameOutput, Reported, Exchanging, ServerOutputComplete

LEMMA OutputDisplayed == ASSUME OutputInv, DisplayResults PROVE OutputInv'
<1>1. /\ pc = "exchanged" /\ pc' = "displayed" /\ test' = test /\ test \in Settings
      /\ IsEnd(end["c"]) /\ Json("c") \in BOOLEAN
  BY Flags DEF DisplayResults, OutputInv, Json
<1>2. PICK iv : end' = [end EXCEPT !["c"] = FinalReport(end["c"], "c", Json("c"), iv)]
  BY DEF DisplayResults, OutputInv
<1> DEFINE d == FinalReport(end["c"], "c", Json("c"), iv)
<1>3. IsEnd(d) /\ d.getout = end["c"].getout /\ d.server_output = end["c"].server_output
  BY <1>1, FinalKeeps
<1> HIDE DEF d
<1>4. end' = [q \in {"c", "s"} |-> end'[q]] /\ end'["c"] = d /\ end'["s"] = end["s"]
  BY <1>2, EndsFields DEF d
<1>5. ServerOutputComplete'
  BY <1>1, <1>3, <1>4 DEF OutputInv, ServerOutputComplete
<1>6. QED
  BY <1>1, <1>3, <1>4, <1>5 DEF OutputInv, Reported, Exchanging

LEMMA OutputOver == ASSUME OutputInv, TestOver PROVE OutputInv'
<1>1. PICK g \in BOOLEAN : g = end["s"].getout
  BY DEF OutputInv, IsEnd
<1>2. /\ pc' = "idle" /\ end' = [r \in {"c", "s"} |-> EndOf(r = "s" /\ g)]
  BY <1>1 DEF TestOver
<1>3. end'["c"] = EndOf(FALSE) /\ end'["s"] = EndOf(g) /\ end' = [r \in {"c", "s"} |-> end'[r]]
  BY <1>2
<1>4. IsEnd(EndOf(FALSE)) /\ IsEnd(EndOf(g))
  BY NewEnd
<1>5. QED
  BY <1>2, <1>3, <1>4 DEF OutputInv, Reported, Exchanging, ServerOutputComplete

LEMMA OutputStep == ASSUME OutputInv, [Next]_vars PROVE OutputInv'
<1>1. CASE UNCHANGED vars
  BY <1>1 DEF vars, OutputInv, ServerOutputComplete
<1>2. CASE Next
  BY <1>2, OutputStart, OutputInterval, OutputTerminated, OutputTestEnd, OutputSent,
     OutputExchanged, OutputGot, OutputFails, OutputDisplayed, OutputOver DEF Next
<1>3. QED BY <1>1, <1>2

(* A client that asks for the server's output gets every interval that the *)
(* server printed and its summary, and one that does not ask gets nothing: *)
(* for every set of tests, one after the other, every load, every number   *)
(* and every content of the intervals, and also after a client whose wish  *)
(* the server has not forgotten.                                           *)
THEOREM OutputArrives == Spec => []ServerOutputComplete
<1>1. Init => OutputInv
  BY OutputInit
<1>2. OutputInv /\ [Next]_vars => OutputInv'
  BY OutputStep
<1>3. OutputInv => ServerOutputComplete
  BY DEF OutputInv
<1>4. QED BY <1>1, <1>2, <1>3, PTL DEF Spec
=============================================================================
