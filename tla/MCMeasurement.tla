--------------------------- MODULE MCMeasurement ---------------------------
(***************************************************************************)
(* The tests that the runs of Measurement cover.  A second has two         *)
(* microseconds.                                                           *)
(***************************************************************************)
EXTENDS Measurement

Test(role, sender, duration, omit, interval, bytes, limit, periods) ==
  [role |-> role, sender |-> sender, duration |-> duration, omit |-> omit,
   interval |-> interval, bytes |-> bytes, limit |-> limit, periods |-> periods]

TimedSender      == Test("c", TRUE, 2, 1, 1, 0, 0, 1)
SenderOfBytes    == Test("c", TRUE, 0, 1, 1, 3, 0, 1)
ReceiverOfBytes  == Test("c", FALSE, 0, 0, 1, 3, 0, 1)
UnreportedBytes  == Test("c", FALSE, 0, 0, 0, 3, 0, 1)
LimitedServer    == Test("s", FALSE, 3, 0, 1, 0, 4, 2)

AllSettings == {TimedSender, SenderOfBytes, ReceiverOfBytes, UnreportedBytes,
                LimitedServer}
============================================================================
