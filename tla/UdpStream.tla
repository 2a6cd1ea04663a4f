----------------------------- MODULE UdpStream -----------------------------
(***************************************************************************)
(* The datagrams of one UDP stream and how both ends count them:           *)
(* iperf_udp_send numbers what it sends, the network loses, reorders and   *)
(* duplicates, iperf_udp_recv infers losses from the numbers with a        *)
(* constant amount of storage, and iperf_reset_stats takes the omitted     *)
(* period out of the result.                                               *)
(***************************************************************************)
EXTENDS Integers, FiniteSets

CONSTANTS
  Segments,     \* datagrams of one send: more than one with --gsro
  CounterMod,   \* the values of the number on the wire: 2^32, or 2^64
  Duplicates,   \* the network may deliver a datagram twice
  SendFails,    \* a send may fail (NET_SOFTERROR: no buffers)
  MaxSent       \* bound: the numbers that the sender uses

ASSUME UdpAssumption ==
  /\ Segments \in Nat \ {0}
  /\ CounterMod \in Nat \ {0}
  /\ Duplicates \in BOOLEAN
  /\ SendFails \in BOOLEAN
  /\ MaxSent \in Nat

VARIABLES
  sender_count,        \* the sender's sp->packet_count
  wire,                \* the datagrams on their way, each with its number
  seen,                \* the datagrams that the receiver has met
  packet_count,        \* the receiver's sp->packet_count: the highest number
  cnt_error,           \* the receiver's sp->cnt_error: the losses
  outoforder_packets,  \* the receiver's sp->outoforder_packets
  update,              \* what the worker thread makes of the last datagram
  toStore,             \* the counters that it has still to store
  omitted,             \* the counters when the omitted period ended
  toSave,              \* the counters that the main thread has still to read
  repeated,            \* has the network delivered a datagram twice?
  race                 \* history: by how much the highest number has grown
                       \* with the last datagram, and while toSave was read

receiver == <<packet_count, cnt_error, outoforder_packets, update, toStore>>
main == <<omitted, toSave>>
vars == <<sender_count, wire, seen, receiver, main, repeated, race>>

Datagrams == [id : Nat \ {0}, seq : Nat]
Counters == [packet_count : Nat, cnt_error : Nat]
Both == {"packet_count", "cnt_error"}

TypeOK ==
  /\ sender_count \in Nat
  /\ wire \in SUBSET Datagrams
  /\ seen \in SUBSET (Nat \ {0})
  /\ packet_count \in Nat
  /\ cnt_error \in Nat
  /\ outoforder_packets \in Nat
  /\ update \in Counters
  /\ toStore \in SUBSET Both
  /\ omitted \in Counters
  /\ toSave \in SUBSET Both
  /\ repeated \in BOOLEAN
  /\ race \in [last : Nat, during : Nat]

Init ==
  /\ sender_count = 0
  /\ wire = {} /\ seen = {}
  /\ packet_count = 0 /\ cnt_error = 0 /\ outoforder_packets = 0
  /\ update = [packet_count |-> 0, cnt_error |-> 0] /\ toStore = {}
  /\ omitted = [packet_count |-> 0, cnt_error |-> 0] /\ toSave = Both
  /\ repeated = FALSE
  /\ race = [last |-> 0, during |-> 0]

----------------------------------------------------------------------------
(* The sender.                                                             *)

(* The datagrams of the next send, numbered on. The number on the wire has *)
(* the width of its field.                                                 *)
NextBatch ==
  {[id |-> sender_count + j, seq |-> (sender_count + j) % CounterMod] :
     j \in 1..Segments}

(* iperf_udp_send: every datagram of the batch is numbered, then all are   *)
(* written.                                                                *)
Send ==
  /\ sender_count + Segments <= MaxSent
  /\ sender_count' = sender_count + Segments
  /\ wire' = wire \cup NextBatch
  /\ UNCHANGED <<seen, receiver, main, repeated, race>>

(* When nothing was written the code takes back one number, however many   *)
(* the batch has: those of a larger batch are never sent.                  *)
SendSoftError ==
  /\ SendFails /\ sender_count + Segments <= MaxSent
  /\ sender_count' = sender_count + Segments - 1
  /\ UNCHANGED <<wire, seen, receiver, main, repeated, race>>

----------------------------------------------------------------------------
(* The worker thread of the receiver.                                      *)

(* iperf_udp_recv: the number goes forward, perhaps over a gap.            *)
GapOffByOne(seq) == seq - packet_count
Gap(seq) == (seq - 1) - packet_count

Forward(seq) ==
  /\ seq >= packet_count + 1
  /\ update' = [packet_count |-> seq, cnt_error |-> cnt_error + Gap(seq)]
  /\ UNCHANGED outoforder_packets

(* The number goes backward: a loss that was counted is taken back.        *)
TakeBackNothing == cnt_error
TakeBackAlways  == cnt_error - 1
TakeBackLoss    == IF cnt_error > 0 THEN cnt_error - 1 ELSE cnt_error

Backward(seq) ==
  /\ seq < packet_count + 1
  /\ update' = [packet_count |-> packet_count, cnt_error |-> TakeBackLoss]
  /\ outoforder_packets' = outoforder_packets + 1

Count(d) ==
  /\ toStore = {}
  /\ d \in wire
  /\ seen' = seen \cup {d.id}
  /\ Forward(d.seq) \/ Backward(d.seq)
  /\ toStore' = Both
  /\ LET growth == update'.packet_count - packet_count
     IN  race' = [last |-> growth,
                  during |-> race.during +
                    IF toSave \in {{}, Both} THEN 0 ELSE growth]
  /\ UNCHANGED <<packet_count, cnt_error, sender_count, main>>

(* The network delivers any datagram that is on its way.                   *)
Receive(d) ==
  /\ Count(d)
  /\ wire' = wire \ {d}
  /\ UNCHANGED repeated

(* It delivers the datagram and will deliver it again.                     *)
ReceiveTwin(d) ==
  /\ Duplicates /\ outoforder_packets < MaxSent
  /\ Count(d)
  /\ repeated' = TRUE
  /\ UNCHANGED wire

(* The counters are plain integers that the main thread reads: no fence    *)
(* keeps the order of the two stores.                                      *)
Store(f) ==
  /\ f \in toStore
  /\ packet_count' = IF f = "packet_count" THEN update.packet_count ELSE packet_count
  /\ cnt_error' = IF f = "cnt_error" THEN update.cnt_error ELSE cnt_error
  /\ toStore' = toStore \ {f}
  /\ UNCHANGED <<sender_count, wire, seen, outoforder_packets, update, main,
                 repeated, race>>

(* The network loses a datagram, or it arrives when the test runs no more. *)
Lose(d) ==
  /\ d \in wire
  /\ wire' = wire \ {d}
  /\ UNCHANGED <<sender_count, seen, receiver, main, repeated, race>>

----------------------------------------------------------------------------
(* iperf_reset_stats: at the end of the omitted period the main thread of  *)
(* the receiver saves the two counters, and nothing orders the two reads.  *)
SavedPacketsOnly(f) == IF f = "packet_count" THEN packet_count ELSE omitted.cnt_error
Saved(f) == IF f = "packet_count" THEN packet_count ELSE cnt_error

OmitEnds(f) ==
  /\ f \in toSave
  /\ omitted' = [omitted EXCEPT ![f] = Saved(f)]
  /\ toSave' = toSave \ {f}
  /\ race' = [race EXCEPT !.during =
       IF toSave = Both /\ toStore # {} THEN race.last ELSE race.during]
  /\ UNCHANGED <<sender_count, wire, seen, receiver, repeated>>

Next ==
  \/ Send \/ SendSoftError
  \/ \E f \in Both : Store(f) \/ OmitEnds(f)
  \/ \E d \in wire : Receive(d) \/ ReceiveTwin(d) \/ Lose(d)

Spec == Init /\ [][Next]_vars

----------------------------------------------------------------------------
(* Properties.                                                             *)

(* Whenever a datagram has been dealt with, the losses that iperf_udp_recv *)
(* counts are exactly the numbers up to the highest one that have not      *)
(* arrived, in whatever order the datagrams arrive and also if a batch     *)
(* that could not be sent has used up numbers, until the network repeats a *)
(* datagram or the number wraps around.                                    *)
LossExact ==
  toStore = {} /\ ~repeated /\ sender_count < CounterMod =>
    cnt_error = packet_count - Cardinality(seen)

(* A duplicate may hide a loss but the count never exceeds what is really  *)
(* missing.                                                                *)
LossNeverOverstated ==
  toStore = {} /\ sender_count < CounterMod =>
    cnt_error <= packet_count - Cardinality(seen)

(* The losses that are reported for the period after the omitted one       *)
(* exceed the datagrams reported for it at most by what iperf_udp_recv     *)
(* counted while iperf_reset_stats was reading the two counters, in        *)
(* whatever order the two threads store and read them; by nothing if it    *)
(* counted nothing then.                                                   *)
LossWithinReport ==
  toStore = {} /\ toSave = {} =>
    cnt_error - omitted.cnt_error
      <= packet_count - omitted.packet_count + race.during
============================================================================
