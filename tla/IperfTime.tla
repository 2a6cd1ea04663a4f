------------------------------ MODULE IperfTime ------------------------------
(***************************************************************************)
(* iperf_time.c: points in time as two unsigned 32-bit fields, and the     *)
(* arithmetic that the timers, the intervals and the jitter rest on.       *)
(***************************************************************************)
EXTENDS Integers

CONSTANTS
  UsecsPerSec,   \* 1000000
  SecsMod        \* 2^32: the width of the field secs

ASSUME TimeAssumption ==
  /\ UsecsPerSec \in Nat \ {0}
  /\ SecsMod \in Nat \ {0}

Times == [secs : 0..(SecsMod - 1), usecs : 0..(UsecsPerSec - 1)]

(* iperf_time_in_usecs                                                     *)
InUsecs(t) == t.secs * UsecsPerSec + t.usecs

(* iperf_time_add_usecs: the sum is formed in 64 bits, secs wraps around.  *)
AddUsecsNoCarry(t, us) == [secs |-> t.secs, usecs |-> (t.usecs + us) % UsecsPerSec]
AddUsecs(t, us) ==
  LET total == t.usecs + us IN
  [secs  |-> (t.secs + total \div UsecsPerSec) % SecsMod,
   usecs |-> total % UsecsPerSec]

(* iperf_time_compare                                                      *)
Compare(t1, t2) ==
  CASE t1.secs < t2.secs -> -1
    [] t1.secs > t2.secs -> 1
    [] t1.secs = t2.secs /\ t1.usecs < t2.usecs -> -1
    [] t1.secs = t2.secs /\ t1.usecs > t2.usecs -> 1
    [] OTHER -> 0

(* The two branches of iperf_time_diff: from the earlier to the later.     *)
Elapsed(later, earlier) ==
  IF later.usecs < earlier.usecs
  THEN [secs  |-> later.secs - earlier.secs - 1,
        usecs |-> later.usecs + UsecsPerSec - earlier.usecs]
  ELSE [secs  |-> later.secs - earlier.secs,
        usecs |-> later.usecs - earlier.usecs]

(* iperf_time_diff: its result and what it stores in diff.                 *)
Past(t1, t2) == Compare(t1, t2) # 1
Diff(t1, t2) == IF Compare(t1, t2) = 1 THEN Elapsed(t1, t2) ELSE Elapsed(t2, t1)
============================================================================
