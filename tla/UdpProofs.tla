------------------------------ MODULE UdpProofs ------------------------------
(***************************************************************************)
(* Proofs about the datagram counters of UdpStream, for every number of    *)
(* datagrams, every width of the number on the wire and every batch size.  *)
(***************************************************************************)
EXTENDS UdpStream, FiniteSetTheorems, TLAPS

----------------------------------------------------------------------------
(* Type correctness.                                                       *)

(* What iperf_udp_recv computes from a datagram is a pair of counters.     *)
LEMMA CountType ==
  ASSUME TypeOK, NEW d \in wire, Count(d)
  PROVE  /\ update' \in Counters
         /\ outoforder_packets' \in Nat
         /\ seen' \in SUBSET (Nat \ {0})
         /\ packet_count <= update'.packet_count
         /\ update'.cnt_error - cnt_error <= update'.packet_count - packet_count
<1>1. d.id \in Nat \ {0} /\ d.seq \in Nat
  BY DEF TypeOK, Datagrams
<1>2. seen' \in SUBSET (Nat \ {0})
  BY <1>1 DEF Count, TypeOK
<1>3. CASE Forward(d.seq)
  <2>1. cnt_error + Gap(d.seq) \in Nat
    BY <1>1, <1>3 DEF Forward, Gap, TypeOK
  <2>2. /\ packet_count <= d.seq
        /\ cnt_error + Gap(d.seq) - cnt_error <= d.seq - packet_count
    BY <1>1, <1>3 DEF Forward, Gap, TypeOK
  <2>3. /\ update' \in Counters /\ outoforder_packets' \in Nat
        /\ update'.packet_count = d.seq
        /\ update'.cnt_error = cnt_error + Gap(d.seq)
    BY <1>1, <1>3, <2>1 DEF Forward, TypeOK, Counters
  <2>4. packet_count \in Nat /\ cnt_error \in Nat /\ Gap(d.seq) \in Int
    BY <1>1 DEF Gap, TypeOK
  <2>5. QED BY <1>1, <1>2, <2>2, <2>3, <2>4
<1>4. CASE Backward(d.seq)
  <2>1. TakeBackLoss \in Nat /\ TakeBackLoss - cnt_error <= 0
    BY DEF TakeBackLoss, TypeOK
  <2>2. /\ update' \in Counters /\ outoforder_packets' \in Nat
        /\ update'.packet_count = packet_count
        /\ update'.cnt_error = TakeBackLoss
    BY <1>1, <1>4, <2>1 DEF Backward, TypeOK, Counters
  <2>3. packet_count \in Nat /\ cnt_error \in Nat
    BY DEF TypeOK
  <2>4. QED BY <1>2, <2>1, <2>2, <2>3
<1>5. QED BY <1>3, <1>4 DEF Count

(* A batch consists of datagrams.                                          *)
LEMMA BatchType ==
  ASSUME TypeOK PROVE NextBatch \in SUBSET Datagrams
<1>1. ASSUME NEW j \in 1..Segments
      PROVE  [id |-> sender_count + j, seq |-> (sender_count + j) % CounterMod]
               \in Datagrams
  <2>1. j \in Nat \ {0} /\ sender_count \in Nat /\ CounterMod \in Nat \ {0}
    BY UdpAssumption DEF TypeOK
  <2>2. sender_count + j \in Nat \ {0} BY <2>1
  <2>3. sender_count + j \in Int BY <2>1
  <2>4. (sender_count + j) % CounterMod \in Nat BY <2>1, <2>3
  <2>5. QED BY <2>2, <2>4 DEF Datagrams
<1>2. QED BY <1>1 DEF NextBatch

(* Every step keeps the counters of both ends non-negative.                *)
LEMMA TypeStep == TypeOK /\ [Next]_vars => TypeOK'
<1> SUFFICES ASSUME TypeOK, [Next]_vars PROVE TypeOK'
  OBVIOUS
<1>1. CASE Send
  BY <1>1, BatchType, UdpAssumption DEF Send, TypeOK, receiver, main
<1>2. CASE SendSoftError
  BY <1>2, UdpAssumption DEF SendSoftError, TypeOK, receiver, main
<1>3. ASSUME NEW f \in Both, Store(f) PROVE TypeOK'
  BY <1>3 DEF Store, TypeOK, Counters, Both, main
<1>4. ASSUME NEW f \in Both, OmitEnds(f) PROVE TypeOK'
  <2>1. race' \in [last : Nat, during : Nat]
    BY <1>4 DEF OmitEnds, TypeOK
  <2>2. omitted' \in Counters
    BY <1>4 DEF OmitEnds, Saved, TypeOK, Counters, Both
  <2>3. QED BY <1>4, <2>1, <2>2 DEF OmitEnds, TypeOK, Both, receiver
<1>5. ASSUME NEW d \in wire, Count(d), wire' \subseteq wire, repeated' \in BOOLEAN
      PROVE  TypeOK'
  <2>1. update' \in Counters /\ outoforder_packets' \in Nat
        /\ seen' \in SUBSET (Nat \ {0}) /\ packet_count <= update'.packet_count
    BY <1>5, CountType
  <2>2. race' \in [last : Nat, during : Nat]
    BY <1>5, <2>1 DEF Count, TypeOK, Counters
  <2>3. QED BY <1>5, <2>1, <2>2 DEF Count, TypeOK, Both, main
<1>6. ASSUME NEW d \in wire, Lose(d) PROVE TypeOK'
  BY <1>6 DEF Lose, TypeOK, receiver, main
<1>7. CASE UNCHANGED vars
  BY <1>7 DEF vars, receiver, main, TypeOK
<1>8. QED
  BY <1>1, <1>2, <1>3, <1>4, <1>5, <1>6, <1>7 DEF Next, Receive, ReceiveTwin, TypeOK

(* Type correctness: no counter of iperf_udp_send or iperf_udp_recv ever   *)
(* becomes negative, however the datagrams are lost, reordered, repeated   *)
(* or wrap around.                                                         *)
THEOREM UdpTypeCorrect == Spec => []TypeOK
<1>1. Init => TypeOK
  <2> SUFFICES ASSUME Init PROVE TypeOK
    OBVIOUS
  <2>1. repeated \in BOOLEAN
    BY DEF Init
  <2>2. QED BY <2>1 DEF Init, TypeOK, Counters, Both
<1>2. QED BY <1>1, TypeStep, PTL DEF Spec

----------------------------------------------------------------------------
(* The report of the period after the omitted one.                         *)

(* The inductive invariant. The worker never raises the losses by more     *)
(* than the highest number, so the difference of the two, once stored,     *)
(* never shrinks. A counter that has been read while the other has not may *)
(* be behind or ahead of it by what the worker has counted since the first *)
(* read began, which is what race.during adds up.                          *)
ReportInv ==
  /\ "packet_count" \notin toStore => packet_count = update.packet_count
  /\ "cnt_error" \notin toStore => cnt_error = update.cnt_error
  /\ packet_count <= update.packet_count
  /\ toStore # {} => update.cnt_error - cnt_error <= race.last
  /\ toSave \notin {{}, Both} /\ toStore # {} => race.last <= race.during
  /\ toSave = Both => race.during = 0
  /\ toSave = {"cnt_error"} => omitted.packet_count <= update.packet_count
  /\ toSave = {"packet_count"} => update.cnt_error - omitted.cnt_error <= race.during
  /\ toSave = {} =>
       update.cnt_error - omitted.cnt_error
         <= update.packet_count - omitted.packet_count + race.during

(* One step of either end keeps it.                                        *)
LEMMA ReportStep ==
  ASSUME TypeOK, ReportInv, [Next]_vars
  PROVE  ReportInv'
<1>0. /\ packet_count \in Nat /\ cnt_error \in Nat
      /\ update.packet_count \in Nat /\ update.cnt_error \in Nat
      /\ omitted.packet_count \in Nat /\ omitted.cnt_error \in Nat
      /\ race.last \in Nat /\ race.during \in Nat
  BY DEF TypeOK, Counters
<1>s. toSave \in {{}, {"packet_count"}, {"cnt_error"}, Both}
  BY DEF TypeOK, Both
<1>1. CASE Send
  BY <1>1 DEF Send, ReportInv, receiver, main
<1>2. CASE SendSoftError
  BY <1>2 DEF SendSoftError, ReportInv, receiver, main
<1>3. ASSUME NEW f \in Both, Store(f) PROVE ReportInv'
  <2>0. UNCHANGED <<omitted, toSave, update, race>>
    BY <1>3 DEF Store, main
  <2>1. CASE f = "packet_count"
    BY <1>0, <1>3, <2>0, <2>1 DEF Store, ReportInv, Both
  <2>2. CASE f = "cnt_error"
    BY <1>0, <1>3, <2>0, <2>2 DEF Store, ReportInv, Both
  <2>3. QED BY <2>1, <2>2 DEF Both
<1>4. ASSUME NEW f \in Both, OmitEnds(f) PROVE ReportInv'
  <2>0. UNCHANGED <<packet_count, cnt_error, update, toStore>>
    BY <1>4 DEF OmitEnds, receiver
  <2>w. update.cnt_error - cnt_error <= IF toStore = {} THEN 0 ELSE race.last
    BY <1>0 DEF ReportInv
  <2>1. CASE toSave = Both
    <3>1. /\ race'.last = race.last
          /\ race'.during = IF toStore # {} THEN race.last ELSE 0
      BY <1>4, <2>1 DEF OmitEnds, ReportInv, TypeOK
    <3>2. CASE f = "packet_count"
      <4>1. toSave' = {"cnt_error"} /\ omitted'.packet_count = packet_count
        BY <1>4, <2>1, <3>2 DEF OmitEnds, Both, Saved, TypeOK, Counters
      <4>2. QED BY <1>0, <2>0, <3>1, <4>1 DEF ReportInv, Both
    <3>3. CASE f = "cnt_error"
      <4>1. toSave' = {"packet_count"} /\ omitted'.cnt_error = cnt_error
        BY <1>4, <2>1, <3>3 DEF OmitEnds, Both, Saved, TypeOK, Counters
      <4>2. QED BY <1>0, <2>0, <2>w, <3>1, <4>1 DEF ReportInv, Both
    <3>4. QED BY <3>2, <3>3 DEF Both
  <2>2. CASE toSave = {"cnt_error"}
    <3>1. /\ f = "cnt_error" /\ toSave' = {} /\ race' = race
          /\ omitted'.cnt_error = cnt_error
          /\ omitted'.packet_count = omitted.packet_count
      BY <1>4, <2>2 DEF OmitEnds, Saved, TypeOK, Counters, Both
    <3>2. update.cnt_error - cnt_error <= race.during
      BY <1>0, <2>2, <2>w DEF ReportInv, Both
    <3>3. QED BY <1>0, <2>0, <2>2, <3>1, <3>2 DEF ReportInv, Both
  <2>3. CASE toSave = {"packet_count"}
    <3>1. /\ f = "packet_count" /\ toSave' = {} /\ race' = race
          /\ omitted'.packet_count = packet_count
          /\ omitted'.cnt_error = omitted.cnt_error
      BY <1>4, <2>3 DEF OmitEnds, Saved, TypeOK, Counters, Both
    <3>2. QED BY <1>0, <2>0, <2>3, <3>1 DEF ReportInv, Both
  <2>4. QED BY <1>4, <1>s, <2>1, <2>2, <2>3 DEF OmitEnds
<1>5. ASSUME NEW d \in wire, Count(d) PROVE ReportInv'
  <2>1. /\ packet_count = update.packet_count /\ cnt_error = update.cnt_error
        /\ toStore' = Both
        /\ UNCHANGED <<packet_count, cnt_error, omitted, toSave>>
    BY <1>5 DEF Count, ReportInv, main
  <2>2. /\ update' \in Counters
        /\ packet_count <= update'.packet_count
        /\ update'.cnt_error - cnt_error <= update'.packet_count - packet_count
    BY <1>5, CountType
  <2>3. /\ race'.last = update'.packet_count - packet_count
        /\ race'.during = race.during +
             IF toSave \in {{}, Both} THEN 0 ELSE update'.packet_count - packet_count
    BY <1>5 DEF Count
  <2>4. update'.packet_count \in Nat /\ update'.cnt_error \in Nat
    BY <2>2 DEF Counters
  <2>5. {} # Both /\ {"cnt_error"} \notin {{}, Both} /\ {"packet_count"} \notin {{}, Both}
    BY DEF Both
  <2>6. CASE toSave \in {{}, Both}
    <3>1. race'.during = race.during
      BY <1>0, <2>3, <2>6
    <3>2. CASE toSave = Both
      BY <1>0, <2>1, <2>2, <2>3, <2>4, <2>5, <3>1, <3>2 DEF ReportInv, Both
    <3>3. CASE toSave = {}
      <4>1. update'.cnt_error - omitted.cnt_error
              <= update'.packet_count - omitted.packet_count + race.during
        BY <1>0, <2>1, <2>2, <2>4, <3>3 DEF ReportInv
      <4>2. QED BY <1>0, <2>1, <2>2, <2>3, <2>4, <2>5, <3>1, <3>3, <4>1 DEF ReportInv, Both
    <3>4. QED BY <2>6, <3>2, <3>3
  <2>7. CASE toSave \notin {{}, Both}
    <3>1. race'.during = race.during + update'.packet_count - packet_count
      BY <1>0, <2>3, <2>4, <2>7
    <3>2. /\ race'.last <= race'.during
          /\ update'.cnt_error - cnt_error <= race'.last
      BY <1>0, <2>2, <2>3, <2>4, <3>1
    <3>3. CASE toSave = {"cnt_error"}
      <4>1. omitted.packet_count <= update'.packet_count
        BY <1>0, <2>1, <2>2, <2>4, <3>3 DEF ReportInv
      <4>2. QED BY <1>0, <2>1, <2>2, <2>4, <2>5, <3>2, <3>3, <4>1 DEF ReportInv, Both
    <3>4. CASE toSave = {"packet_count"}
      <4>1. update'.cnt_error - omitted.cnt_error <= race'.during
        BY <1>0, <2>1, <2>2, <2>4, <3>1, <3>4 DEF ReportInv
      <4>2. QED BY <1>0, <2>1, <2>2, <2>4, <2>5, <3>2, <3>4, <4>1 DEF ReportInv, Both
    <3>5. QED BY <1>s, <2>7, <3>3, <3>4
  <2>8. QED BY <2>6, <2>7
<1>6. ASSUME NEW d \in wire, Lose(d) PROVE ReportInv'
  BY <1>6 DEF Lose, ReportInv, receiver, main
<1>7. CASE UNCHANGED vars
  BY <1>7 DEF vars, receiver, main, ReportInv
<1>8. QED
  BY <1>1, <1>2, <1>3, <1>4, <1>5, <1>6, <1>7 DEF Next, Receive, ReceiveTwin

(* Whatever the order in which the worker's stores and the main thread's   *)
(* reads of the two counters take effect, the losses that a report         *)
(* attributes to the period after the omitted one exceed its datagrams at  *)
(* most by what was counted while iperf_reset_stats was reading.           *)
THEOREM ReportConsistent == Spec => []LossWithinReport
<1>1. Init => ReportInv
  BY DEF Init, ReportInv, Both
<1>2. TypeOK /\ ReportInv /\ [Next]_vars => ReportInv'
  BY ReportStep
<1>3. TypeOK /\ ReportInv => LossWithinReport
  BY DEF TypeOK, ReportInv, LossWithinReport, Counters, Both
<1>4. QED BY <1>1, <1>2, <1>3, UdpTypeCorrect, PTL DEF Spec

----------------------------------------------------------------------------
(* The losses are exact until the network repeats something.               *)

(* While the network has repeated nothing and no number has wrapped        *)
(* around, a datagram carries the number it was given, it is on its way or *)
(* met but not both, and the worker's two counters tell how many of the    *)
(* numbers up to the highest have been met.                                *)
Exactly ==
  /\ \A d \in wire : d.seq = d.id /\ d.id <= sender_count /\ d.id \notin seen
  /\ seen \subseteq 1..update.packet_count
  /\ update.packet_count <= sender_count
  /\ update.cnt_error = update.packet_count - Cardinality(seen)

(* The inductive invariant.                                                *)
ExactInv ==
  /\ "packet_count" \notin toStore => packet_count = update.packet_count
  /\ "cnt_error" \notin toStore => cnt_error = update.cnt_error
  /\ ~repeated /\ sender_count < CounterMod => Exactly

(* The datagrams of a batch are numbered by their places.                  *)
LEMMA BatchNumbers ==
  ASSUME TypeOK, sender_count + Segments < CounterMod,
         NEW d \in NextBatch
  PROVE  d.seq = d.id /\ d.id \in (sender_count + 1)..(sender_count + Segments)
<1>1. PICK j \in 1..Segments :
        d = [id |-> sender_count + j, seq |-> (sender_count + j) % CounterMod]
  BY DEF NextBatch
<1>2. /\ j \in Nat /\ j <= Segments /\ sender_count \in Nat
      /\ CounterMod \in Nat \ {0} /\ Segments \in Nat
  BY UdpAssumption DEF TypeOK
<1>3. sender_count + j \in 0..(CounterMod - 1)
  BY <1>2
<1>4. (sender_count + j) % CounterMod = sender_count + j
  BY <1>2, <1>3
<1>5. d.seq = (sender_count + j) % CounterMod /\ d.id = sender_count + j
  BY <1>1, <1>2
<1>6. QED BY <1>2, <1>4, <1>5

(* iperf_udp_recv keeps the count exact whether the number goes forward or *)
(* backward.                                                               *)
LEMMA CountExact ==
  ASSUME TypeOK, ExactInv, Exactly, NEW d \in wire, Receive(d)
  PROVE  Exactly'
<1>1. d.seq \in Nat \ {0} /\ d.id = d.seq /\ d.id <= sender_count /\ d.id \notin seen
  BY DEF TypeOK, Datagrams, Exactly
<1>2. /\ packet_count = update.packet_count /\ cnt_error = update.cnt_error
      /\ toStore' = Both /\ seen' = seen \cup {d.id} /\ wire' = wire \ {d}
      /\ sender_count' = sender_count
  BY DEF Receive, Count, ExactInv
<1>3. packet_count \in Nat /\ cnt_error \in Nat /\ sender_count \in Nat
  BY DEF TypeOK
<1>4. IsFiniteSet(1..packet_count) /\ Cardinality(1..packet_count) = packet_count
  <2>1. /\ IsFiniteSet(1..packet_count)
        /\ Cardinality(1..packet_count) = IF 1 > packet_count THEN 0 ELSE packet_count - 1 + 1
    BY <1>3, FS_Interval
  <2>2. QED BY <1>3, <2>1
<1>5. IsFiniteSet(seen)
  BY <1>2, <1>4, FS_Subset DEF Exactly
<1>6. /\ Cardinality(seen \cup {d.id}) = Cardinality(seen) + 1
      /\ Cardinality(seen) \in Nat
  BY <1>1, <1>5, FS_AddElement, FS_CardinalityType
<1>7. /\ seen' \subseteq 1..update'.packet_count
      /\ update'.packet_count <= sender_count
      /\ update'.cnt_error = update'.packet_count - Cardinality(seen')
  <2>1. CASE Forward(d.seq)
    <3>1. /\ update'.packet_count = d.seq
          /\ update'.cnt_error = cnt_error + (d.seq - 1) - packet_count
          /\ d.seq >= packet_count + 1
      BY <2>1, <1>1, <1>3 DEF Forward, Gap
    <3>2. seen \subseteq 1..packet_count
      BY <1>2 DEF Exactly
    <3>3. seen' \subseteq 1..update'.packet_count
      <4>1. 1..packet_count \subseteq 1..d.seq
        BY <1>1, <1>3, <3>1
      <4>2. d.id \in 1..d.seq
        BY <1>1
      <4>3. QED BY <1>2, <3>1, <3>2, <4>1, <4>2
    <3>4. cnt_error = packet_count - Cardinality(seen)
      BY <1>2 DEF Exactly
    <3>5. QED BY <1>1, <1>2, <1>3, <1>6, <3>1, <3>3, <3>4
  <2>2. CASE Backward(d.seq)
    <3>1. d.seq <= packet_count
      BY <2>2, <1>1, <1>3 DEF Backward
    <3>2. seen \cup {d.id} \subseteq 1..packet_count
      <4>1. seen \subseteq 1..packet_count
        BY <1>2 DEF Exactly
      <4>2. d.id \in 1..packet_count
        BY <1>1, <1>3, <3>1
      <4>3. QED BY <4>1, <4>2
    <3>3. Cardinality(seen \cup {d.id}) <= packet_count
      BY <1>4, <3>2, FS_Subset
    <3>4. cnt_error = packet_count - Cardinality(seen)
      BY <1>2 DEF Exactly
    <3>5. cnt_error > 0
      BY <1>3, <1>6, <3>3, <3>4
    <3>6. /\ update'.packet_count = packet_count
          /\ update'.cnt_error = cnt_error - 1
      BY <2>2, <3>5 DEF Backward, TakeBackLoss
    <3>7. packet_count <= sender_count
      BY <1>2 DEF Exactly
    <3>8. QED BY <1>2, <1>3, <1>6, <3>2, <3>4, <3>6, <3>7
  <2>3. QED BY <2>1, <2>2 DEF Receive, Count
<1>8. \A e \in wire' : e.seq = e.id /\ e.id <= sender_count' /\ e.id \notin seen'
  <2> SUFFICES ASSUME NEW e \in wire'
               PROVE  e.seq = e.id /\ e.id <= sender_count' /\ e.id \notin seen'
    OBVIOUS
  <2>1. e \in wire /\ e # d
    BY <1>2
  <2>2. e.seq = e.id /\ e.id <= sender_count /\ e.id \notin seen
    BY <2>1 DEF Exactly
  <2>3. e \in Datagrams /\ d \in Datagrams
    BY <2>1 DEF TypeOK
  <2>4. e.id # d.id
    BY <1>1, <2>1, <2>2, <2>3 DEF Datagrams
  <2>5. QED BY <1>2, <2>2, <2>4
<1>9. QED BY <1>2, <1>7, <1>8 DEF Exactly

(* One step of either end keeps it.                                        *)
LEMMA ExactStep ==
  ASSUME TypeOK, ExactInv, [Next]_vars
  PROVE  ExactInv'
<1>1. CASE Send
  <2>1. /\ sender_count <= sender_count' /\ sender_count' = sender_count + Segments
        /\ sender_count \in Nat /\ sender_count' \in Nat
    BY <1>1, UdpAssumption DEF Send, TypeOK
  <2>2. seen' = seen /\ update' = update /\ toStore' = toStore
        /\ packet_count' = packet_count /\ cnt_error' = cnt_error
        /\ repeated' = repeated
    BY <1>1 DEF Send, receiver
  <2>3. ASSUME ~repeated', sender_count' < CounterMod PROVE Exactly'
    <3>1. Exactly
      BY <2>1, <2>2, <2>3, UdpAssumption DEF ExactInv
    <3>2. update.packet_count \in Nat /\ update.packet_count <= sender_count
          /\ seen \subseteq 1..update.packet_count
      BY <3>1 DEF Exactly, TypeOK, Counters
    <3>3. ASSUME NEW d \in wire'
          PROVE  d.seq = d.id /\ d.id <= sender_count' /\ d.id \notin seen'
      <4>1. CASE d \in wire
        <5>1. d.seq = d.id /\ d.id <= sender_count /\ d.id \notin seen /\ d.id \in Nat
          BY <3>1, <4>1 DEF Exactly, TypeOK, Datagrams
        <5>2. QED BY <2>1, <2>2, <5>1
      <4>2. CASE d \in NextBatch
        <5>1. d.seq = d.id /\ d.id \in (sender_count + 1)..(sender_count + Segments)
          BY <2>1, <2>3, <4>2, BatchNumbers
        <5>2. d.id > sender_count /\ d.id <= sender_count'
          BY <2>1, <5>1, UdpAssumption
        <5>3. d.id \notin seen
          BY <2>1, <3>2, <5>1, <5>2
        <5>4. QED BY <2>2, <5>1, <5>2, <5>3
      <4>3. QED BY <1>1, <4>1, <4>2 DEF Send
    <3>4. update.packet_count <= sender_count'
      BY <2>1, <3>2
    <3>5. QED BY <2>2, <3>1, <3>3, <3>4 DEF Exactly
  <2>4. QED BY <2>1, <2>2, <2>3 DEF ExactInv
<1>2. CASE SendSoftError
  <2>1. sender_count' \in Nat /\ sender_count \in Nat /\ sender_count <= sender_count' /\ CounterMod \in Nat
    BY <1>2, UdpAssumption DEF SendSoftError, TypeOK
  <2>2. UNCHANGED <<wire, seen, packet_count, cnt_error, update, toStore, repeated>>
    BY <1>2 DEF SendSoftError, receiver
  <2>3. ASSUME ~repeated', sender_count' < CounterMod PROVE Exactly'
    <3>1. Exactly
      BY <2>1, <2>2, <2>3 DEF ExactInv
    <3>2. \A d \in wire : d.id \in Nat
      BY DEF TypeOK, Datagrams
    <3>3. update.packet_count \in Nat
      BY DEF TypeOK, Counters
    <3>4. QED BY <2>1, <2>2, <3>1, <3>2, <3>3 DEF Exactly
  <2>4. QED BY <2>2, <2>3 DEF ExactInv
<1>3. ASSUME NEW f \in Both, Store(f) PROVE ExactInv'
  BY <1>3 DEF Store, ExactInv, Exactly, Both
<1>4. ASSUME NEW f \in Both, OmitEnds(f) PROVE ExactInv'
  BY <1>4 DEF OmitEnds, ExactInv, Exactly, receiver
<1>5. ASSUME NEW d \in wire, Receive(d) PROVE ExactInv'
  <2>1. ~repeated' /\ sender_count' < CounterMod => Exactly'
    BY <1>5, CountExact DEF ExactInv, Receive, Count
  <2>2. QED BY <1>5, <2>1 DEF ExactInv, Receive, Count, Both
<1>6. ASSUME NEW d \in wire, ReceiveTwin(d) PROVE ExactInv'
  BY <1>6 DEF ReceiveTwin, Count, ExactInv, Both
<1>7. ASSUME NEW d \in wire, Lose(d) PROVE ExactInv'
  BY <1>7 DEF Lose, ExactInv, Exactly, receiver
<1>8. CASE UNCHANGED vars
  BY <1>8 DEF vars, receiver, ExactInv, Exactly
<1>9. QED
  BY <1>1, <1>2, <1>3, <1>4, <1>5, <1>6, <1>7, <1>8 DEF Next

(* The losses that iperf_udp_recv counts are exactly the datagrams up to   *)
(* the highest number that have not arrived, whatever the order of arrival *)
(* and of the stores of the two counters, for any number of datagrams.     *)
THEOREM LossesAreExact == Spec => []LossExact
<1>1. Init => ExactInv
  BY FS_EmptySet DEF Init, ExactInv, Exactly
<1>2. TypeOK /\ ExactInv /\ [Next]_vars => ExactInv'
  BY ExactStep
<1>3. ExactInv => LossExact
  BY DEF ExactInv, Exactly, LossExact
<1>4. QED BY <1>1, <1>2, <1>3, UdpTypeCorrect, PTL DEF Spec

----------------------------------------------------------------------------
(* A duplicate may hide a loss, and never invents one.                     *)

(* Until a number wraps around, the losses do not exceed the numbers that  *)
(* have not been met, even if datagrams that were met arrive again.        *)
Bounded ==
  /\ \A d \in wire : d.seq = d.id /\ d.id <= sender_count
  /\ seen \subseteq 1..update.packet_count
  /\ update.packet_count <= sender_count
  /\ update.cnt_error <= update.packet_count - Cardinality(seen)

BoundInv == sender_count < CounterMod => Bounded

(* iperf_udp_recv, whether the datagram is new or not.                     *)
LEMMA CountBounded ==
  ASSUME TypeOK, ExactInv, Bounded, NEW d \in wire, Count(d), wire' \subseteq wire
  PROVE  Bounded'
<1>1. d.seq \in Nat \ {0} /\ d.id = d.seq /\ d.id <= sender_count
  BY DEF TypeOK, Datagrams, Bounded
<1>2. /\ packet_count = update.packet_count /\ cnt_error = update.cnt_error
      /\ seen' = seen \cup {d.id} /\ sender_count' = sender_count
  BY DEF Count, ExactInv
<1>3. packet_count \in Nat /\ cnt_error \in Nat /\ sender_count \in Nat
  BY DEF TypeOK
<1>4. /\ seen \subseteq 1..packet_count /\ packet_count <= sender_count
      /\ cnt_error <= packet_count - Cardinality(seen)
  BY <1>2 DEF Bounded
<1>5. IsFiniteSet(1..packet_count) /\ Cardinality(1..packet_count) = packet_count
  <2>1. /\ IsFiniteSet(1..packet_count)
        /\ Cardinality(1..packet_count) = IF 1 > packet_count THEN 0 ELSE packet_count - 1 + 1
    BY <1>3, FS_Interval
  <2>2. QED BY <1>3, <2>1
<1>6. IsFiniteSet(seen) /\ Cardinality(seen) \in Nat
  BY <1>4, <1>5, FS_Subset, FS_CardinalityType
<1>7. Cardinality(seen') \in {Cardinality(seen), Cardinality(seen) + 1}
  <2>1. CASE d.id \in seen
    <3>1. seen' = seen
      BY <1>2, <2>1
    <3>2. QED BY <3>1
  <2>2. CASE d.id \notin seen
    BY <1>2, <1>6, <2>2, FS_AddElement
  <2>3. QED BY <2>1, <2>2
<1>8. /\ seen' \subseteq 1..update'.packet_count
      /\ update'.packet_count <= sender_count
      /\ update'.cnt_error <= update'.packet_count - Cardinality(seen')
  <2>1. CASE Forward(d.seq)
    <3>1. /\ update'.packet_count = d.seq
          /\ update'.cnt_error = cnt_error + (d.seq - 1) - packet_count
          /\ d.seq >= packet_count + 1
      BY <2>1, <1>1, <1>3 DEF Forward, Gap
    <3>2. seen' \subseteq 1..d.seq
      <4>1. 1..packet_count \subseteq 1..d.seq /\ d.id \in 1..d.seq
        BY <1>1, <1>3, <3>1
      <4>2. QED BY <1>2, <1>4, <4>1
    <3>3. QED BY <1>1, <1>3, <1>4, <1>6, <1>7, <3>1, <3>2
  <2>2. CASE Backward(d.seq)
    <3>1. d.id \in 1..packet_count
      BY <2>2, <1>1, <1>3 DEF Backward
    <3>2. seen' \subseteq 1..packet_count
      BY <1>2, <1>4, <3>1
    <3>3. Cardinality(seen') <= packet_count
      BY <1>5, <3>2, FS_Subset
    <3>4. /\ update'.packet_count = packet_count
          /\ update'.cnt_error = IF cnt_error > 0 THEN cnt_error - 1 ELSE cnt_error
      BY <2>2 DEF Backward, TakeBackLoss
    <3>5. QED BY <1>3, <1>4, <1>6, <1>7, <3>2, <3>3, <3>4
  <2>3. QED BY <2>1, <2>2 DEF Count
<1>9. \A e \in wire' : e.seq = e.id /\ e.id <= sender_count'
  BY <1>2 DEF Bounded
<1>10. QED BY <1>2, <1>8, <1>9 DEF Bounded

LEMMA BoundStep ==
  ASSUME TypeOK, ExactInv, BoundInv, [Next]_vars
  PROVE  BoundInv'
<1> SUFFICES ASSUME sender_count' < CounterMod PROVE Bounded'
  BY DEF BoundInv
<1>1. CASE Send
  <2>1. sender_count \in Nat /\ sender_count' = sender_count + Segments /\ sender_count <= sender_count' /\ sender_count < CounterMod
    BY <1>1, UdpAssumption DEF Send, TypeOK
  <2>2. seen' = seen /\ update' = update /\ update.packet_count \in Nat
    BY <1>1 DEF Send, receiver, TypeOK, Counters
  <2>3. Bounded
    BY <2>1 DEF BoundInv
  <2>4. ASSUME NEW d \in wire' PROVE d.seq = d.id /\ d.id <= sender_count'
    <3>1. CASE d \in wire
      <4>1. d.seq = d.id /\ d.id <= sender_count /\ d.id \in Nat
        BY <2>3, <3>1 DEF Bounded, TypeOK, Datagrams
      <4>2. QED BY <2>1, <4>1
    <3>2. CASE d \in NextBatch
      <4>1. d.seq = d.id /\ d.id \in (sender_count + 1)..(sender_count + Segments)
        BY <2>1, <3>2, BatchNumbers
      <4>2. QED BY <2>1, <4>1, UdpAssumption
    <3>3. QED BY <1>1, <3>1, <3>2 DEF Send
  <2>5. update.packet_count <= sender_count'
    BY <2>1, <2>2, <2>3 DEF Bounded
  <2>6. QED BY <2>2, <2>3, <2>4, <2>5 DEF Bounded
<1>2. CASE SendSoftError
  <2>1. sender_count' \in Nat /\ sender_count \in Nat /\ sender_count <= sender_count' /\ CounterMod \in Nat
    BY <1>2, UdpAssumption DEF SendSoftError, TypeOK
  <2>2. UNCHANGED <<wire, seen, update>>
    BY <1>2 DEF SendSoftError, receiver
  <2>3. Bounded
    BY <2>1 DEF BoundInv
  <2>4. (\A d \in wire : d.id \in Nat) /\ update.packet_count \in Nat
    BY DEF TypeOK, Datagrams, Counters
  <2>5. QED BY <2>1, <2>2, <2>3, <2>4 DEF Bounded
<1>3. ASSUME NEW f \in Both, Store(f) \/ OmitEnds(f) PROVE Bounded'
  BY <1>3 DEF Store, OmitEnds, BoundInv, Bounded, receiver
<1>4. ASSUME NEW d \in wire, Receive(d) \/ ReceiveTwin(d) PROVE Bounded'
  <2>1. Count(d) /\ wire' \subseteq wire /\ sender_count' = sender_count
    BY <1>4 DEF Receive, ReceiveTwin, Count
  <2>2. QED BY <2>1, CountBounded DEF BoundInv
<1>5. ASSUME NEW d \in wire, Lose(d) PROVE Bounded'
  BY <1>5 DEF Lose, BoundInv, Bounded, receiver
<1>6. CASE UNCHANGED vars
  BY <1>6 DEF vars, receiver, BoundInv, Bounded
<1>7. QED
  BY <1>1, <1>2, <1>3, <1>4, <1>5, <1>6 DEF Next

(* Whatever the network loses, reorders and repeats, the losses that       *)
(* iperf_udp_recv counts never exceed the datagrams that are missing up to *)
(* the highest number: taking back a loss for a datagram that arrives      *)
(* again can only understate them.                                         *)
THEOREM LossesNotOverstated == Spec => []LossNeverOverstated
<1>1. Init => ExactInv /\ BoundInv
  BY FS_EmptySet DEF Init, ExactInv, Exactly, BoundInv, Bounded
<1>2. TypeOK /\ ExactInv /\ BoundInv /\ [Next]_vars => ExactInv' /\ BoundInv'
  BY ExactStep, BoundStep
<1>3. ExactInv /\ BoundInv => LossNeverOverstated
  BY DEF ExactInv, BoundInv, Bounded, LossNeverOverstated
<1>4. QED BY <1>1, <1>2, <1>3, UdpTypeCorrect, PTL DEF Spec
============================================================================
