------------------------- MODULE MeasurementProofs -------------------------
(***************************************************************************)
(* What a host measures, for every set of tests, every lateness of the     *)
(* main thread and every interleaving with the worker.  First what it      *)
(* rests on: the arithmetic of iperf_time.c agrees with that of one count  *)
(* of microseconds, and the operations of timer.c keep every timer in one  *)
(* of its two lists, the active one sorted, and timers of the same time in *)
(* the order in which they were added.                                     *)
(***************************************************************************)
EXTENDS Measurement, SequenceTheorems, WellFoundedInduction, TLAPS

----------------------------------------------------------------------------
(* Points in time.                                                         *)

(* The fields of a time.                                                   *)
LEMMA Fields ==
  ASSUME NEW t \in Times
  PROVE  /\ t.secs \in Nat /\ t.secs < SecsMod
         /\ t.usecs \in Nat /\ t.usecs < UsecsPerSec
         /\ InUsecs(t) \in Nat
<1>1. /\ t.secs \in Nat /\ t.secs < SecsMod
      /\ t.usecs \in Nat /\ t.usecs < UsecsPerSec
  BY TimeAssumption DEF Times
<1>2. t.secs * UsecsPerSec \in Nat
  BY <1>1, TimeAssumption
<1>3. QED BY <1>1, <1>2 DEF InUsecs

(* A later second outweighs every number of microseconds.                  *)
LEMMA SecondsDecide ==
  ASSUME NEW t1 \in Times, NEW t2 \in Times, t1.secs < t2.secs
  PROVE  InUsecs(t1) < InUsecs(t2)
<1>1. PICK k \in Nat : t2.secs = t1.secs + 1 + k
  <2>1. t2.secs - t1.secs - 1 \in Nat
    BY Fields
  <2>2. t2.secs = t1.secs + 1 + (t2.secs - t1.secs - 1)
    BY Fields
  <2>3. QED BY <2>1, <2>2
<1>2. (t1.secs + 1 + k) * UsecsPerSec
        = t1.secs * UsecsPerSec + UsecsPerSec + k * UsecsPerSec
  BY Fields, TimeAssumption
<1>3. k * UsecsPerSec \in Nat /\ t1.secs * UsecsPerSec \in Nat
  BY Fields, TimeAssumption
<1>4. QED BY <1>1, <1>2, <1>3, Fields, TimeAssumption DEF InUsecs

(* iperf_time_compare returns -1, 0 or 1 as the first time is before, at   *)
(* or after the second: the order by which timer.c sorts is that of the    *)
(* microseconds.                                                           *)
THEOREM CompareIsOrder ==
  ASSUME NEW t1 \in Times, NEW t2 \in Times
  PROVE  /\ Compare(t1, t2) = -1 <=> InUsecs(t1) < InUsecs(t2)
         /\ Compare(t1, t2) = 0  <=> InUsecs(t1) = InUsecs(t2)
         /\ Compare(t1, t2) = 1  <=> InUsecs(t1) > InUsecs(t2)
<1>1. /\ t1.secs \in Nat /\ t1.usecs \in Nat /\ InUsecs(t1) \in Nat
      /\ t2.secs \in Nat /\ t2.usecs \in Nat /\ InUsecs(t2) \in Nat
  BY Fields
<1>2. CASE t1.secs < t2.secs
  <2>1. Compare(t1, t2) = -1
    BY <1>1, <1>2 DEF Compare
  <2>2. InUsecs(t1) < InUsecs(t2)
    BY <1>2, SecondsDecide
  <2>3. QED BY <1>1, <2>1, <2>2
<1>3. CASE t2.secs < t1.secs
  <2>1. Compare(t1, t2) = 1
    BY <1>1, <1>3 DEF Compare
  <2>2. InUsecs(t2) < InUsecs(t1)
    BY <1>3, SecondsDecide
  <2>3. QED BY <1>1, <2>1, <2>2
<1>4. CASE t1.secs = t2.secs
  <2>1. t1.secs * UsecsPerSec = t2.secs * UsecsPerSec /\ t1.secs * UsecsPerSec \in Nat
    BY <1>1, <1>4, TimeAssumption
  <2>2. /\ InUsecs(t1) < InUsecs(t2) <=> t1.usecs < t2.usecs
        /\ InUsecs(t1) = InUsecs(t2) <=> t1.usecs = t2.usecs
    <3>1. PICK k \in Nat : /\ InUsecs(t1) = k + t1.usecs
                           /\ InUsecs(t2) = k + t2.usecs
      BY <2>1 DEF InUsecs
    <3>2. QED BY <1>1, <3>1
  <2>3. CASE t1.usecs < t2.usecs
    <3>1. Compare(t1, t2) = -1
      BY <1>1, <1>4, <2>3 DEF Compare
    <3>2. QED BY <1>1, <2>2, <2>3, <3>1
  <2>4. CASE t1.usecs > t2.usecs
    <3>1. Compare(t1, t2) = 1
      BY <1>1, <1>4, <2>4 DEF Compare
    <3>2. QED BY <1>1, <2>2, <2>4, <3>1
  <2>5. CASE t1.usecs = t2.usecs
    <3>1. Compare(t1, t2) = 0
      BY <1>1, <1>4, <2>5 DEF Compare
    <3>2. QED BY <1>1, <2>2, <2>5, <3>1
  <2>6. QED BY <1>1, <2>3, <2>4, <2>5
<1>5. QED BY <1>1, <1>2, <1>3, <1>4

(* iperf_time_add_usecs adds, as long as the seconds do not wrap around.   *)
THEOREM AddIsSum ==
  ASSUME NEW t \in Times, NEW us \in Nat,
         t.secs + (t.usecs + us) \div UsecsPerSec < SecsMod
  PROVE  /\ AddUsecs(t, us) \in Times
         /\ InUsecs(AddUsecs(t, us)) = InUsecs(t) + us
<1> DEFINE total == t.usecs + us
           q == total \div UsecsPerSec
           r == total % UsecsPerSec
<1>1. t.secs \in Nat /\ t.usecs \in Nat /\ total \in Nat
  BY Fields
<1>2. q \in Nat /\ r \in 0..(UsecsPerSec - 1) /\ total = q * UsecsPerSec + r
  <2>1. q \in Int /\ r \in 0..(UsecsPerSec - 1)
    BY <1>1, TimeAssumption
  <2>2. total = UsecsPerSec * q + r
    BY <1>1, TimeAssumption
  <2>3. q \in Nat
    BY <1>1, TimeAssumption
  <2>4. UsecsPerSec * q = q * UsecsPerSec
    BY <2>1, TimeAssumption
  <2>5. QED BY <2>1, <2>2, <2>3, <2>4
<1> HIDE DEF q, r, total
<1>3. (t.secs + q) % SecsMod = t.secs + q
  <2>1. t.secs + q \in 0..(SecsMod - 1)
    BY <1>1, <1>2, TimeAssumption DEF q, total
  <2>2. QED BY <2>1, TimeAssumption
<1>4. AddUsecs(t, us) = [secs |-> t.secs + q, usecs |-> r]
  BY <1>3 DEF AddUsecs, q, r, total
<1>5. AddUsecs(t, us) \in Times
  BY <1>1, <1>2, <1>4, TimeAssumption DEF Times, q, total
<1>6. (t.secs + q) * UsecsPerSec = t.secs * UsecsPerSec + q * UsecsPerSec
  BY <1>1, <1>2, TimeAssumption
<1>7. t.secs * UsecsPerSec \in Nat /\ q * UsecsPerSec \in Nat
  BY <1>1, <1>2, TimeAssumption
<1>8. InUsecs(AddUsecs(t, us)) = (t.secs + q) * UsecsPerSec + r
  BY <1>4 DEF InUsecs
<1>9. total = t.usecs + us
  BY DEF total
<1>10. QED BY <1>1, <1>2, <1>5, <1>6, <1>7, <1>8, <1>9 DEF InUsecs

(* The borrow of iperf_time_diff: from the earlier to the later time.      *)
LEMMA ElapsedIsDifference ==
  ASSUME NEW t1 \in Times, NEW t2 \in Times, Compare(t1, t2) # -1
  PROVE  /\ Elapsed(t1, t2) \in Times
         /\ InUsecs(Elapsed(t1, t2)) = InUsecs(t1) - InUsecs(t2)
<1>1. /\ t1.secs \in Nat /\ t1.secs < SecsMod
      /\ t1.usecs \in Nat /\ t1.usecs < UsecsPerSec
      /\ t2.secs \in Nat /\ t2.secs < SecsMod
      /\ t2.usecs \in Nat /\ t2.usecs < UsecsPerSec
  BY Fields
<1>2. t1.secs >= t2.secs /\ (t1.usecs < t2.usecs => t1.secs > t2.secs)
  BY <1>1 DEF Compare
<1>3. CASE t1.usecs < t2.usecs
  <2>1. Elapsed(t1, t2) = [secs |-> t1.secs - t2.secs - 1,
                           usecs |-> t1.usecs + UsecsPerSec - t2.usecs]
    BY <1>3 DEF Elapsed
  <2>2. (t1.secs - t2.secs - 1) * UsecsPerSec
          = t1.secs * UsecsPerSec - t2.secs * UsecsPerSec - UsecsPerSec
    BY <1>1, TimeAssumption
  <2>3. t1.secs * UsecsPerSec \in Int /\ t2.secs * UsecsPerSec \in Int
    BY <1>1, TimeAssumption
  <2>4. Elapsed(t1, t2) \in Times
    BY <1>1, <1>2, <1>3, <2>1, TimeAssumption DEF Times
  <2>5. QED BY <1>1, <2>1, <2>2, <2>3, <2>4, TimeAssumption DEF InUsecs
<1>4. CASE ~(t1.usecs < t2.usecs)
  <2>1. Elapsed(t1, t2) = [secs |-> t1.secs - t2.secs, usecs |-> t1.usecs - t2.usecs]
    BY <1>4 DEF Elapsed
  <2>2. (t1.secs - t2.secs) * UsecsPerSec
          = t1.secs * UsecsPerSec - t2.secs * UsecsPerSec
    BY <1>1, TimeAssumption
  <2>3. t1.secs * UsecsPerSec \in Int /\ t2.secs * UsecsPerSec \in Int
    BY <1>1, TimeAssumption
  <2>4. Elapsed(t1, t2) \in Times
    BY <1>1, <1>2, <1>4, <2>1, TimeAssumption DEF Times
  <2>5. InUsecs(Elapsed(t1, t2))
          = (t1.secs - t2.secs) * UsecsPerSec + (t1.usecs - t2.usecs)
    BY <2>1 DEF InUsecs
  <2>6. QED BY <1>1, <2>2, <2>3, <2>4, <2>5 DEF InUsecs
<1>5. QED BY <1>3, <1>4

(* iperf_time_diff stores the distance of the two times, whatever their    *)
(* order, and tells whether the first is not after the second: what        *)
(* tmr_timeout and the lengths of intervals rest on.                       *)
THEOREM DiffIsDistance ==
  ASSUME NEW t1 \in Times, NEW t2 \in Times
  PROVE  /\ Diff(t1, t2) \in Times
         /\ InUsecs(Diff(t1, t2)) = IF InUsecs(t1) >= InUsecs(t2)
                                    THEN InUsecs(t1) - InUsecs(t2)
                                    ELSE InUsecs(t2) - InUsecs(t1)
         /\ Past(t1, t2) <=> InUsecs(t1) <= InUsecs(t2)
<1>1. InUsecs(t1) \in Nat /\ InUsecs(t2) \in Nat
  BY Fields
<1>2. CASE Compare(t1, t2) = 1
  <2>1. InUsecs(t1) > InUsecs(t2)
    BY <1>2, CompareIsOrder
  <2>2. /\ Elapsed(t1, t2) \in Times
        /\ InUsecs(Elapsed(t1, t2)) = InUsecs(t1) - InUsecs(t2)
    BY <1>2, ElapsedIsDifference
  <2>3. QED BY <1>1, <1>2, <2>1, <2>2 DEF Diff, Past
<1>3. CASE Compare(t1, t2) # 1
  <2>1. InUsecs(t1) <= InUsecs(t2)
    BY <1>1, <1>3, CompareIsOrder
  <2>2. Compare(t2, t1) # -1
    BY <1>1, <2>1, CompareIsOrder
  <2>3. /\ Elapsed(t2, t1) \in Times
        /\ InUsecs(Elapsed(t2, t1)) = InUsecs(t2) - InUsecs(t1)
    BY <2>2, ElapsedIsDifference
  <2>4. QED BY <1>1, <1>3, <2>1, <2>3 DEF Diff, Past
<1>4. QED BY <1>2, <1>3

----------------------------------------------------------------------------
(* No element of s is there twice.                                         *)
Once(s) == \A i, j \in 1..Len(s) : s[i] = s[j] => i = j

(* list_add puts t at position p of s, list_remove takes it away there.    *)
Inserted(s, p, x, r) ==
  /\ Len(r) = Len(s) + 1
  /\ r[p] = x
  /\ \A k \in 1..(p - 1) : r[k] = s[k]
  /\ \A k \in p..Len(s) : r[k + 1] = s[k]

Taken(s, p, r) ==
  /\ Len(r) = Len(s) - 1
  /\ \A k \in 1..(p - 1) : r[k] = s[k]
  /\ \A k \in (p + 1)..Len(s) : r[k - 1] = s[k]

----------------------------------------------------------------------------
(* Sequences.                                                              *)

(* Min of a nonempty set of numbers is its least element.                  *)
LEMMA MinOfNats ==
  ASSUME NEW S \in SUBSET Nat, S # {}
  PROVE  Min(S) \in S /\ \A k \in S : Min(S) <= k
<1> DEFINE R == {ss \in Nat \X Nat : ss[1] < ss[2]}
<1>1. IsWellFoundedOn(R, Nat)
  BY NatLessThanWellFounded, Zenon DEF OpToRel
<1>2. \A k, j \in Nat : <<k, j>> \in R <=> k < j
  OBVIOUS
<1> HIDE DEF R
<1>3. PICK j \in S : \A k \in S : ~(<<k, j>> \in R)
  BY <1>1, WFMin, Zenon
<1>4. \A k \in S : j \in Nat /\ k \in Nat /\ ~(k < j)
  BY <1>2, <1>3, Zenon
<1>5. \A k \in S : j <= k
  BY <1>4
<1>6. QED
  BY <1>5 DEF Min

(* InsertAt, by position.                                                  *)
LEMMA InsertPosition ==
  ASSUME NEW T, NEW s \in Seq(T), NEW p \in 1..Len(s), NEW x \in T
  PROVE  InsertAt(s, p, x) \in Seq(T) /\ Inserted(s, p, x, InsertAt(s, p, x))
<1> DEFINE a == SubSeq(s, 1, p - 1)
           b == SubSeq(s, p, Len(s))
           ax == a \o <<x>>
<1>1. Len(s) \in Nat /\ \A i \in 1..Len(s) : s[i] \in T
  BY ElementOfSeq, LenProperties
<1>2. /\ a \in Seq(T) /\ Len(a) = p - 1
      /\ \A i \in 1..(p - 1) : a[i] = s[i]
  <2>1. \A i \in 1..(p - 1) : s[i] \in T
    BY <1>1
  <2>2. /\ a \in Seq(T) /\ Len(a) = IF 1 <= p - 1 THEN p - 1 - 1 + 1 ELSE 0
        /\ \A i \in 1..(p - 1 - 1 + 1) : a[i] = s[1 + i - 1]
    BY <1>1, <2>1, SubSeqProperties
  <2>3. QED BY <1>1, <2>2
<1>3. /\ b \in Seq(T) /\ Len(b) = Len(s) - p + 1
      /\ \A i \in 1..(Len(s) - p + 1) : b[i] = s[p + i - 1]
  <2>1. \A i \in p..Len(s) : s[i] \in T
    BY <1>1
  <2>2. /\ b \in Seq(T) /\ Len(b) = IF p <= Len(s) THEN Len(s) - p + 1 ELSE 0
        /\ \A i \in 1..(Len(s) - p + 1) : b[i] = s[p + i - 1]
    BY <1>1, <2>1, SubSeqProperties
  <2>3. QED BY <1>1, <2>2
<1> HIDE DEF a, b
<1>4. /\ ax \in Seq(T) /\ Len(ax) = p
      /\ \A i \in 1..(p - 1) : ax[i] = s[i]
      /\ ax[p] = x
  <2>1. <<x>> \in Seq(T) /\ Len(<<x>>) = 1 /\ <<x>>[1] = x
    OBVIOUS
  <2>2. /\ ax \in Seq(T) /\ Len(ax) = Len(a) + 1
        /\ \A i \in 1..(Len(a) + 1) : ax[i] = IF i <= Len(a) THEN a[i] ELSE <<x>>[i - Len(a)]
    BY <1>2, <2>1, ConcatProperties
  <2>3. QED BY <1>1, <1>2, <2>1, <2>2
<1> HIDE DEF ax
<1>5. InsertAt(s, p, x) = ax \o b
  BY DEF InsertAt, ax, a, b
<1>6. /\ ax \o b \in Seq(T) /\ Len(ax \o b) = Len(s) + 1
      /\ \A i \in 1..(Len(s) + 1) :
           (ax \o b)[i] = IF i <= p THEN ax[i] ELSE b[i - p]
  <2>1. /\ ax \o b \in Seq(T) /\ Len(ax \o b) = Len(ax) + Len(b)
        /\ \A i \in 1..(Len(ax) + Len(b)) :
             (ax \o b)[i] = IF i <= Len(ax) THEN ax[i] ELSE b[i - Len(ax)]
    BY <1>3, <1>4, ConcatProperties
  <2>2. Len(ax) + Len(b) = Len(s) + 1
    BY <1>1, <1>3, <1>4
  <2>3. QED BY <1>4, <2>1, <2>2
<1>7. \A k \in p..Len(s) : (ax \o b)[k + 1] = s[k]
  BY <1>1, <1>3, <1>6
<1>8. QED
  BY <1>1, <1>4, <1>5, <1>6, <1>7 DEF Inserted

(* RemoveAt, by position.                                                  *)
LEMMA RemovePosition ==
  ASSUME NEW T, NEW s \in Seq(T), NEW p \in 1..Len(s)
  PROVE  RemoveAt(s, p) \in Seq(T) /\ Taken(s, p, RemoveAt(s, p))
<1> DEFINE a == SubSeq(s, 1, p - 1)
           b == SubSeq(s, p + 1, Len(s))
<1>1. Len(s) \in Nat /\ \A i \in 1..Len(s) : s[i] \in T
  BY ElementOfSeq, LenProperties
<1>2. /\ a \in Seq(T) /\ Len(a) = p - 1
      /\ \A i \in 1..(p - 1) : a[i] = s[i]
  <2>1. \A i \in 1..(p - 1) : s[i] \in T
    BY <1>1
  <2>2. /\ a \in Seq(T) /\ Len(a) = IF 1 <= p - 1 THEN p - 1 - 1 + 1 ELSE 0
        /\ \A i \in 1..(p - 1 - 1 + 1) : a[i] = s[1 + i - 1]
    BY <1>1, <2>1, SubSeqProperties
  <2>3. QED BY <1>1, <2>2
<1>3. /\ b \in Seq(T) /\ Len(b) = Len(s) - p
      /\ \A i \in 1..(Len(s) - p) : b[i] = s[p + i]
  <2>1. \A i \in (p + 1)..Len(s) : s[i] \in T
    BY <1>1
  <2>2. /\ b \in Seq(T) /\ Len(b) = IF p + 1 <= Len(s) THEN Len(s) - (p + 1) + 1 ELSE 0
        /\ \A i \in 1..(Len(s) - (p + 1) + 1) : b[i] = s[p + 1 + i - 1]
    BY <1>1, <2>1, SubSeqProperties
  <2>3. QED BY <1>1, <2>2
<1> HIDE DEF a, b
<1>4. RemoveAt(s, p) = a \o b
  BY DEF RemoveAt, a, b
<1>5. /\ a \o b \in Seq(T) /\ Len(a \o b) = Len(s) - 1
      /\ \A i \in 1..(Len(s) - 1) :
           (a \o b)[i] = IF i <= p - 1 THEN a[i] ELSE b[i - (p - 1)]
  <2>1. /\ a \o b \in Seq(T) /\ Len(a \o b) = Len(a) + Len(b)
        /\ \A i \in 1..(Len(a) + Len(b)) :
             (a \o b)[i] = IF i <= Len(a) THEN a[i] ELSE b[i - Len(a)]
    BY <1>2, <1>3, ConcatProperties
  <2>2. Len(a) + Len(b) = Len(s) - 1
    BY <1>1, <1>2, <1>3
  <2>3. QED BY <1>2, <2>1, <2>2
<1>6. ASSUME NEW k \in (p + 1)..Len(s) PROVE (a \o b)[k - 1] = s[k]
  <2>1. /\ k - 1 \in 1..(Len(s) - 1) /\ ~(k - 1 <= p - 1)
        /\ (k - 1) - (p - 1) = k - p /\ k - p \in 1..(Len(s) - p) /\ p + (k - p) = k
    BY <1>1
  <2>2. (a \o b)[k - 1] = b[k - p]
    BY <1>5, <2>1
  <2>3. QED BY <1>3, <2>1, <2>2
<1>7. \A k \in 1..(p - 1) : (a \o b)[k] = s[k]
  BY <1>1, <1>2, <1>5
<1>8. QED
  BY <1>1, <1>4, <1>5, <1>6, <1>7 DEF Taken

(* RemoveFirst takes an element that is there once.                        *)
LEMMA RemovedOnce ==
  ASSUME NEW T, NEW s \in Seq(T), Once(s), NEW p \in 1..Len(s)
  PROVE  RemoveFirst(s, s[p]) = RemoveAt(s, p)
<1> DEFINE I == {i \in 1..Len(s) : s[i] = s[p]}
<1>1. I = {p}
  BY DEF Once
<1>2. I # {} /\ Len(s) \in Nat
  BY <1>1, LenProperties
<1>3. Min(I) = p
  <2>1. {p} \in SUBSET Nat /\ {p} # {}
    BY <1>2
  <2>2. Min({p}) \in {p}
    BY <2>1, MinOfNats
  <2>3. QED BY <1>1, <2>2
<1> HIDE DEF I
<1>4. RemoveFirst(s, s[p]) = IF \E i \in 1..Len(s) : s[i] = s[p]
                             THEN RemoveAt(s, IF I # {} THEN Min(I) ELSE 0) ELSE s
  BY DEF RemoveFirst, SelectInSeq, I
<1>5. QED
  BY <1>2, <1>3, <1>4

----------------------------------------------------------------------------
(* The lists.                                                              *)

(* The callbacks that iperf installs.                                      *)
Procs == {"timer", "stats", "reporter", "omit"}

Objects == [proc : Procs, time : Times, usecs : Nat, periodic : BOOLEAN]

Typed(tm) ==
  /\ tm \in [timers : Seq(Nat), free : Seq(Nat), heap : Seq(Objects)]
  /\ \A i \in 1..Len(tm.timers) : tm.timers[i] \in 1..Len(tm.heap)
  /\ \A i \in 1..Len(tm.free) : tm.free[i] \in 1..Len(tm.heap)

(* Every object but those of out is in one of the lists, and there once.   *)
Lists(tm, out) ==
  /\ Once(tm.timers) /\ Once(tm.free)
  /\ \A i \in 1..Len(tm.timers), j \in 1..Len(tm.free) : tm.timers[i] # tm.free[j]
  /\ \A x \in out : ~Contains(tm.timers, x) /\ ~Contains(tm.free, x)
  /\ \A x \in (1..Len(tm.heap)) \ out : Contains(tm.timers, x) \/ Contains(tm.free, x)

TimersOK(tm) ==
  /\ Typed(tm) /\ Lists(tm, {}) /\ Sorted(tm)
  /\ Len(tm.timers) + Len(tm.free) = Len(tm.heap)

(* t has been taken from one list and not yet been put into the other.     *)
Loose(tm, t) ==
  /\ t \in 1..Len(tm.heap)
  /\ Typed(tm) /\ Lists(tm, {t}) /\ Sorted(tm)
  /\ Len(tm.timers) + Len(tm.free) + 1 = Len(tm.heap)

At(tm, x) == InUsecs(tm.heap[x].time)

(* The two tests of timer.c on the result of iperf_time_compare.           *)
LEMMA CompareSigns ==
  ASSUME NEW t1 \in Times, NEW t2 \in Times
  PROVE  /\ InUsecs(t1) \in Nat /\ InUsecs(t2) \in Nat
         /\ Compare(t1, t2) < 0 <=> InUsecs(t1) < InUsecs(t2)
         /\ Compare(t1, t2) <= 0 <=> InUsecs(t1) <= InUsecs(t2)
<1>1. InUsecs(t1) \in Nat /\ InUsecs(t2) \in Nat
  BY Fields
<1>2. Compare(t1, t2) \in {-1, 0, 1}
  BY Fields DEF Compare
<1>3. /\ Compare(t1, t2) = -1 <=> InUsecs(t1) < InUsecs(t2)
      /\ Compare(t1, t2) = 0 <=> InUsecs(t1) = InUsecs(t2)
  BY CompareIsOrder
<1>4. QED
  BY <1>1, <1>2, <1>3

(* iperf_time_add_usecs returns a time.                                    *)
LEMMA AddInTimes ==
  ASSUME NEW t \in Times, NEW us \in Nat
  PROVE  AddUsecs(t, us) \in Times
<1>1. t.secs \in Nat /\ t.usecs \in Nat
  BY Fields
<1>2. (t.usecs + us) % UsecsPerSec \in 0..(UsecsPerSec - 1)
  BY <1>1, TimeAssumption
<1>3. (t.usecs + us) \div UsecsPerSec \in Nat
  BY <1>1, TimeAssumption
<1>4. (t.secs + (t.usecs + us) \div UsecsPerSec) % SecsMod \in 0..(SecsMod - 1)
  <2> DEFINE q == (t.usecs + us) \div UsecsPerSec
  <2>1. q \in Nat
    BY <1>3
  <2> HIDE DEF q
  <2>2. (t.secs + q) % SecsMod \in 0..(SecsMod - 1)
    BY <1>1, <2>1, TimeAssumption
  <2>3. QED BY <2>2 DEF q
<1>5. QED
  BY <1>2, <1>4 DEF AddUsecs, Times

(* The parts of the lists, and their types.                                *)
LEMMA TypedFacts ==
  ASSUME NEW tm, Typed(tm)
  PROVE  /\ tm.timers \in Seq(Nat) /\ Len(tm.timers) \in Nat
         /\ DOMAIN tm.timers = 1..Len(tm.timers)
         /\ tm.free \in Seq(Nat) /\ Len(tm.free) \in Nat
         /\ tm.heap \in Seq(Objects) /\ Len(tm.heap) \in Nat
         /\ \A x \in 1..Len(tm.heap) :
              /\ tm.heap[x] \in Objects
              /\ tm.heap[x].time \in Times /\ At(tm, x) \in Nat
<1>1. /\ tm.timers \in Seq(Nat) /\ tm.free \in Seq(Nat) /\ tm.heap \in Seq(Objects)
  BY DEF Typed
<1>2. Len(tm.timers) \in Nat /\ DOMAIN tm.timers = 1..Len(tm.timers)
  BY <1>1, LenProperties
<1>3. Len(tm.free) \in Nat /\ Len(tm.heap) \in Nat
  BY <1>1, LenProperties
<1>4. ASSUME NEW x \in 1..Len(tm.heap)
      PROVE  tm.heap[x] \in Objects /\ tm.heap[x].time \in Times /\ At(tm, x) \in Nat
  <2>1. tm.heap[x] \in Objects
    BY <1>1, ElementOfSeq
  <2>2. tm.heap[x].time \in Times
    BY <2>1 DEF Objects
  <2>3. QED BY <2>1, <2>2, Fields DEF At
<1>5. QED
  BY <1>1, <1>2, <1>3, <1>4

(* Sorted, in microseconds.                                                *)
LEMMA SortedByTime ==
  ASSUME NEW tm, Typed(tm)
  PROVE  Sorted(tm) <=> \A i, j \in 1..Len(tm.timers) :
                          i < j => At(tm, tm.timers[i]) <= At(tm, tm.timers[j])
<1>1. ASSUME NEW i \in 1..Len(tm.timers), NEW j \in 1..Len(tm.timers)
      PROVE  Compare(tm.heap[tm.timers[i]].time, tm.heap[tm.timers[j]].time) <= 0
               <=> At(tm, tm.timers[i]) <= At(tm, tm.timers[j])
  <2>1. tm.timers[i] \in 1..Len(tm.heap) /\ tm.timers[j] \in 1..Len(tm.heap)
    BY DEF Typed
  <2>2. tm.heap[tm.timers[i]].time \in Times /\ tm.heap[tm.timers[j]].time \in Times
    BY <2>1, TypedFacts
  <2>3. QED BY <2>2, CompareSigns DEF At
<1>2. DOMAIN tm.timers = 1..Len(tm.timers)
  BY TypedFacts
<1>3. QED
  BY <1>1, <1>2 DEF Sorted

(* list_add: t comes before the first timer that is later.                 *)
LEMMA AddPlace ==
  ASSUME NEW tm, NEW t, Loose(tm, t)
  PROVE  /\ ListAdd(tm, t).free = tm.free /\ ListAdd(tm, t).heap = tm.heap
         /\ ListAdd(tm, t) = [timers |-> ListAdd(tm, t).timers, free |-> tm.free,
                              heap |-> tm.heap]
         /\ ListAdd(tm, t).timers \in Seq(Nat)
         /\ \E p \in 1..(Len(tm.timers) + 1) :
              /\ Inserted(tm.timers, p, t, ListAdd(tm, t).timers)
              /\ \A k \in 1..(p - 1) : At(tm, tm.timers[k]) <= At(tm, t)
              /\ \A k \in p..Len(tm.timers) : At(tm, t) < At(tm, tm.timers[k])
<1> DEFINE s == tm.timers
           I == {i \in 1..Len(s) : Later(tm.heap, t, s[i])}
           i == IF I # {} THEN Min(I) ELSE 0
<1>1. /\ Typed(tm) /\ t \in 1..Len(tm.heap) /\ t \in Nat
      /\ s \in Seq(Nat) /\ Len(s) \in Nat
      /\ tm \in [timers : Seq(Nat), free : Seq(Nat), heap : Seq(Objects)]
  BY TypedFacts DEF Loose, Typed
<1>2. ASSUME NEW k \in 1..Len(s)
      PROVE  /\ At(tm, s[k]) \in Nat /\ At(tm, t) \in Nat
             /\ Later(tm.heap, t, s[k]) <=> At(tm, t) < At(tm, s[k])
  <2>1. s[k] \in 1..Len(tm.heap)
    BY <1>1 DEF Typed
  <2>2. tm.heap[s[k]].time \in Times /\ tm.heap[t].time \in Times
    BY <1>1, <2>1, TypedFacts
  <2>3. QED BY <2>2, CompareSigns DEF At, Later
<1>3. ASSUME NEW k \in 1..Len(s), NEW m \in 1..Len(s), k < m
      PROVE  At(tm, s[k]) <= At(tm, s[m])
  BY <1>1, <1>3, SortedByTime DEF Loose
<1>4. ListAdd(tm, t) = [tm EXCEPT !.timers = IF i = 0 THEN Append(s, t) ELSE InsertAt(s, i, t)]
  BY DEF ListAdd, SelectInSeq
<1> HIDE DEF i
<1>5. /\ ListAdd(tm, t).timers = IF i = 0 THEN Append(s, t) ELSE InsertAt(s, i, t)
      /\ ListAdd(tm, t).free = tm.free /\ ListAdd(tm, t).heap = tm.heap
      /\ ListAdd(tm, t) = [timers |-> ListAdd(tm, t).timers, free |-> tm.free,
                           heap |-> tm.heap]
  BY <1>1, <1>4
<1>6. CASE I = {}
  <2>1. i = 0
    BY <1>6 DEF i
  <2>2. ListAdd(tm, t).timers = Append(s, t)
    BY <1>5, <2>1
  <2>3. Append(s, t) \in Seq(Nat) /\ Inserted(s, Len(s) + 1, t, Append(s, t))
    BY <1>1, AppendProperties DEF Inserted
  <2>4. \A k \in 1..((Len(s) + 1) - 1) : At(tm, s[k]) <= At(tm, t)
    BY <1>1, <1>2, <1>6
  <2>5. Len(s) + 1 \in 1..(Len(s) + 1) /\ (Len(s) + 1)..Len(s) = {}
    BY <1>1
  <2>6. QED BY <1>5, <2>2, <2>3, <2>4, <2>5
<1>7. CASE I # {}
  <2>1. I \in SUBSET Nat /\ i = Min(I)
    BY <1>1, <1>7 DEF i
  <2>2. i \in I /\ \A k \in I : i <= k
    BY <1>7, <2>1, MinOfNats
  <2>3. i \in 1..Len(s) /\ i \in Nat /\ i # 0
    BY <1>1, <2>2
  <2>4. ListAdd(tm, t).timers = InsertAt(s, i, t)
    BY <1>5, <2>3
  <2>5. InsertAt(s, i, t) \in Seq(Nat) /\ Inserted(s, i, t, InsertAt(s, i, t))
    BY <1>1, <2>3, InsertPosition
  <2>6. ASSUME NEW k \in 1..(i - 1) PROVE At(tm, s[k]) <= At(tm, t)
    <3>1. k \in 1..Len(s) /\ k \notin I
      BY <1>1, <2>2, <2>3
    <3>2. QED BY <1>2, <3>1
  <2>7. ASSUME NEW k \in i..Len(s) PROVE At(tm, t) < At(tm, s[k])
    <3>1. k \in 1..Len(s) /\ (k = i \/ i < k)
      BY <1>1, <2>3
    <3>2. At(tm, t) < At(tm, s[i])
      BY <1>2, <2>2
    <3>3. k = i \/ At(tm, s[i]) <= At(tm, s[k])
      BY <1>3, <2>3, <3>1
    <3>4. QED BY <1>2, <2>3, <3>1, <3>2, <3>3
  <2>8. i \in 1..(Len(s) + 1)
    BY <1>1, <2>3
  <2>9. QED BY <1>5, <2>4, <2>5, <2>6, <2>7, <2>8
<1>8. QED
  BY <1>6, <1>7

(* The elements of a list after list_add.                                  *)
LEMMA InsertedMembers ==
  ASSUME NEW s \in Seq(Nat), NEW r \in Seq(Nat), NEW p \in 1..(Len(s) + 1), NEW x \in Nat,
         Inserted(s, p, x, r)
  PROVE  /\ \A y : Contains(r, y) <=> y = x \/ Contains(s, y)
         /\ Once(s) /\ ~Contains(s, x) => Once(r)
<1>1. Len(s) \in Nat /\ Len(r) = Len(s) + 1
  BY LenProperties DEF Inserted
<1>2. /\ r[p] = x
      /\ \A k \in 1..(p - 1) : r[k] = s[k]
      /\ \A k \in p..Len(s) : r[k + 1] = s[k]
  BY DEF Inserted
<1>3. \A k \in (p + 1)..(Len(s) + 1) : r[k] = s[k - 1]
  <2>1. SUFFICES ASSUME NEW k \in (p + 1)..(Len(s) + 1) PROVE r[k] = s[k - 1]
    OBVIOUS
  <2>2. k - 1 \in p..Len(s) /\ (k - 1) + 1 = k
    BY <1>1
  <2>3. QED BY <1>2, <2>2
<1>4. \A k \in 1..(Len(s) + 1) : k = p \/ k \in 1..(p - 1) \/ k \in (p + 1)..(Len(s) + 1)
  BY <1>1
<1>5. ASSUME NEW y PROVE Contains(r, y) <=> y = x \/ Contains(s, y)
  <2>1. ASSUME Contains(r, y) PROVE y = x \/ Contains(s, y)
    <3>1. PICK k \in 1..(Len(s) + 1) : r[k] = y
      BY <1>1, <2>1 DEF Contains
    <3>2. CASE k = p
      BY <1>2, <3>1, <3>2
    <3>3. CASE k \in 1..(p - 1)
      <4>1. k \in 1..Len(s)
        BY <1>1, <3>3
      <4>2. s[k] = y
        BY <1>2, <3>1, <3>3
      <4>3. QED BY <4>1, <4>2 DEF Contains
    <3>4. CASE k \in (p + 1)..(Len(s) + 1)
      <4>1. k - 1 \in 1..Len(s)
        BY <1>1, <3>4
      <4>2. QED BY <1>3, <3>1, <3>4, <4>1 DEF Contains
    <3>5. QED BY <1>4, <3>2, <3>3, <3>4
  <2>2. ASSUME y = x PROVE Contains(r, y)
    BY <1>1, <1>2, <2>2 DEF Contains
  <2>3. ASSUME Contains(s, y) PROVE Contains(r, y)
    <3>1. PICK k \in 1..Len(s) : s[k] = y
      BY <2>3 DEF Contains
    <3>2. CASE k < p
      <4>1. k \in 1..(p - 1) /\ k \in 1..Len(r)
        BY <1>1, <3>2
      <4>2. QED BY <1>2, <3>1, <4>1 DEF Contains
    <3>3. CASE ~(k < p)
      <4>1. k \in p..Len(s) /\ k + 1 \in 1..Len(r)
        BY <1>1, <3>3
      <4>2. QED BY <1>2, <3>1, <4>1 DEF Contains
    <3>4. QED BY <3>2, <3>3
  <2>4. QED BY <2>1, <2>2, <2>3
<1>6. ASSUME Once(s), ~Contains(s, x) PROVE Once(r)
  <2>1. SUFFICES ASSUME NEW i \in 1..(Len(s) + 1), NEW j \in 1..(Len(s) + 1),
                        r[i] = r[j]
                 PROVE  i = j
    BY <1>1 DEF Once
  <2> DEFINE m(k) == IF k < p THEN k ELSE k - 1
  <2>2. \A k \in 1..(Len(s) + 1) : k # p => m(k) \in 1..Len(s) /\ r[k] = s[m(k)]
    <3>1. SUFFICES ASSUME NEW k \in 1..(Len(s) + 1), k # p
                   PROVE  m(k) \in 1..Len(s) /\ r[k] = s[m(k)]
      OBVIOUS
    <3>2. CASE k < p
      <4>1. k \in 1..(p - 1) /\ k \in 1..Len(s)
        BY <1>1, <3>2
      <4>2. QED BY <1>2, <3>2, <4>1
    <3>3. CASE ~(k < p)
      <4>1. k \in (p + 1)..(Len(s) + 1) /\ k - 1 \in 1..Len(s)
        BY <1>1, <3>1, <3>3
      <4>2. QED BY <1>3, <3>3, <4>1
    <3>4. QED BY <3>2, <3>3
  <2>3. \A k, l \in 1..(Len(s) + 1) : k # p /\ l # p /\ m(k) = m(l) => k = l
    <3>1. p \in Int
      BY <1>1
    <3>2. ASSUME NEW k \in Int, NEW l \in Int, k # p, l # p, m(k) = m(l) PROVE k = l
      <4>1. CASE k < p /\ l < p
        BY <3>1, <3>2, <4>1
      <4>2. CASE k < p /\ l > p
        BY <3>1, <3>2, <4>2
      <4>3. CASE k > p /\ l < p
        BY <3>1, <3>2, <4>3
      <4>4. CASE k > p /\ l > p
        BY <3>1, <3>2, <4>4
      <4>5. (k < p \/ k > p) /\ (l < p \/ l > p)
        BY <3>1, <3>2
      <4> HIDE DEF m
      <4>6. QED BY <4>1, <4>2, <4>3, <4>4, <4>5
    <3>3. 1..(Len(s) + 1) \subseteq Int
      BY <1>1
    <3> HIDE DEF m
    <3>4. QED BY <3>2, <3>3
  <2> HIDE DEF m
  <2>4. \A k \in 1..Len(s) : s[k] # x
    BY <1>6 DEF Contains
  <2>5. CASE i = p \/ j = p
    BY <1>2, <2>1, <2>2, <2>4, <2>5
  <2>6. CASE i # p /\ j # p
    <3>1. m(i) \in 1..Len(s) /\ m(j) \in 1..Len(s) /\ s[m(i)] = s[m(j)]
      BY <2>1, <2>2, <2>6
    <3>2. m(i) = m(j)
      BY <1>6, <3>1 DEF Once
    <3>3. QED BY <2>3, <2>6, <3>2
  <2>7. QED BY <2>5, <2>6
<1>7. QED
  BY <1>5, <1>6

(* The elements of a list after list_remove.                               *)
LEMMA TakenMembers ==
  ASSUME NEW s \in Seq(Nat), NEW r \in Seq(Nat), NEW p \in 1..Len(s), Once(s),
         Taken(s, p, r)
  PROVE  /\ \A y : Contains(r, y) <=> y # s[p] /\ Contains(s, y)
         /\ Once(r)
<1>1. Len(s) \in Nat /\ Len(r) = Len(s) - 1
  BY LenProperties DEF Taken
<1> DEFINE m(k) == IF k < p THEN k ELSE k + 1
<1>2. \A k \in 1..(Len(s) - 1) : m(k) \in 1..Len(s) /\ m(k) # p /\ r[k] = s[m(k)]
  <2>1. SUFFICES ASSUME NEW k \in 1..(Len(s) - 1)
                 PROVE  m(k) \in 1..Len(s) /\ m(k) # p /\ r[k] = s[m(k)]
    OBVIOUS
  <2>2. CASE k < p
    <3>1. k \in 1..(p - 1) /\ k \in 1..Len(s)
      BY <1>1, <2>2
    <3>2. r[k] = s[k]
      BY <3>1 DEF Taken
    <3>3. QED BY <2>2, <3>1, <3>2
  <2>3. CASE ~(k < p)
    <3>1. k + 1 \in (p + 1)..Len(s) /\ (k + 1) - 1 = k /\ k + 1 \in 1..Len(s) /\ k + 1 # p
      BY <1>1, <2>3
    <3>2. r[k] = s[k + 1]
      BY <3>1 DEF Taken
    <3>3. QED BY <2>3, <3>1, <3>2
  <2>4. QED BY <2>2, <2>3
<1>3. \A k \in 1..Len(s) : k # p => \E j \in 1..(Len(s) - 1) : m(j) = k
  <2>1. SUFFICES ASSUME NEW k \in 1..Len(s), k # p
                 PROVE  \E j \in 1..(Len(s) - 1) : m(j) = k
    OBVIOUS
  <2>2. CASE k < p
    <3>1. k \in 1..(Len(s) - 1)
      BY <1>1, <2>2
    <3>2. m(k) = k
      BY <2>2
    <3> HIDE DEF m
    <3>3. QED BY <3>1, <3>2
  <2>3. CASE ~(k < p)
    <3>1. k - 1 \in 1..(Len(s) - 1) /\ ~(k - 1 < p) /\ (k - 1) + 1 = k
      BY <1>1, <2>1, <2>3
    <3>2. QED BY <3>1
  <2>4. QED BY <2>2, <2>3
<1>4. \A k, j \in 1..(Len(s) - 1) : m(k) = m(j) => k = j
  BY <1>1
<1> HIDE DEF m
<1>5. ASSUME NEW y PROVE Contains(r, y) <=> y # s[p] /\ Contains(s, y)
  <2>1. ASSUME Contains(r, y) PROVE y # s[p] /\ Contains(s, y)
    <3>1. PICK k \in 1..(Len(s) - 1) : r[k] = y
      BY <1>1, <2>1 DEF Contains
    <3>2. m(k) \in 1..Len(s) /\ m(k) # p /\ y = s[m(k)]
      BY <1>2, <3>1
    <3>3. QED BY <3>2 DEF Contains, Once
  <2>2. ASSUME y # s[p], Contains(s, y) PROVE Contains(r, y)
    <3>1. PICK k \in 1..Len(s) : s[k] = y
      BY <2>2 DEF Contains
    <3>2. PICK j \in 1..(Len(s) - 1) : m(j) = k
      BY <1>3, <2>2, <3>1
    <3>3. r[j] = y
      BY <1>2, <3>1, <3>2
    <3>4. QED BY <1>1, <3>3 DEF Contains
  <2>3. QED BY <2>1, <2>2
<1>6. Once(r)
  <2>1. SUFFICES ASSUME NEW i \in 1..(Len(s) - 1), NEW j \in 1..(Len(s) - 1), r[i] = r[j]
                 PROVE  i = j
    BY <1>1 DEF Once
  <2>2. m(i) \in 1..Len(s) /\ m(j) \in 1..Len(s) /\ s[m(i)] = s[m(j)]
    BY <1>2, <2>1
  <2>3. m(i) = m(j)
    BY <2>2 DEF Once
  <2>4. QED BY <1>4, <2>3
<1>7. QED
  BY <1>5, <1>6

(* list_add makes the lists whole again.                                   *)
LEMMA Added ==
  ASSUME NEW tm, NEW t, Loose(tm, t)
  PROVE  /\ TimersOK(ListAdd(tm, t))
         /\ ListAdd(tm, t).heap = tm.heap
         /\ \A x : Contains(ListAdd(tm, t).timers, x) <=> x = t \/ Contains(tm.timers, x)
<1> DEFINE s == tm.timers
           r == ListAdd(tm, t).timers
           new == ListAdd(tm, t)
<1>1. PICK p \in 1..(Len(s) + 1) :
        /\ Inserted(s, p, t, r)
        /\ \A k \in 1..(p - 1) : At(tm, s[k]) <= At(tm, t)
        /\ \A k \in p..Len(s) : At(tm, t) < At(tm, s[k])
  BY AddPlace
<1>2. /\ new.free = tm.free /\ new.heap = tm.heap /\ r \in Seq(Nat)
      /\ new = [timers |-> r, free |-> tm.free, heap |-> tm.heap]
  BY AddPlace
<1>3. /\ Typed(tm) /\ t \in 1..Len(tm.heap) /\ t \in Nat
      /\ s \in Seq(Nat) /\ Len(s) \in Nat /\ Len(tm.heap) \in Nat /\ Len(tm.free) \in Nat
      /\ Lists(tm, {t}) /\ Len(s) + Len(tm.free) + 1 = Len(tm.heap)
  <2>1. /\ Typed(tm) /\ t \in 1..Len(tm.heap)
        /\ Lists(tm, {t}) /\ Len(s) + Len(tm.free) + 1 = Len(tm.heap)
    BY DEF Loose
  <2>2. /\ s \in Seq(Nat) /\ Len(s) \in Nat
        /\ Len(tm.heap) \in Nat /\ Len(tm.free) \in Nat
    BY <2>1, TypedFacts
  <2>3. \A n \in Nat : t \in 1..n => t \in Nat
    OBVIOUS
  <2>4. t \in Nat
    BY <2>1, <2>2, <2>3, Zenon
  <2>5. QED BY <2>1, <2>2, <2>4, Zenon
<1> HIDE DEF s, r, new
<1>4. /\ \A y : Contains(r, y) <=> y = t \/ Contains(s, y)
      /\ Once(r)
  <2>1. Once(s) /\ ~Contains(s, t)
    BY <1>3 DEF Lists, s
  <2>2. QED BY <1>1, <1>2, <1>3, <2>1, InsertedMembers
<1>5. Typed(new)
  <2>1. new \in [timers : Seq(Nat), free : Seq(Nat), heap : Seq(Objects)]
    BY <1>2, <1>3 DEF Typed
  <2>2. ASSUME NEW i \in 1..Len(r) PROVE r[i] \in 1..Len(tm.heap)
    <3>1. Contains(r, r[i])
      BY DEF Contains
    <3>2. QED BY <1>3, <1>4, <3>1 DEF Contains, Typed, s
  <2>3. new.timers = r
    BY DEF new, r
  <2>4. QED BY <1>2, <1>3, <2>1, <2>2, <2>3 DEF Typed
<1>6. Lists(new, {})
  <2>1. new.timers = r /\ new.free = tm.free
    BY <1>2 DEF new, r
  <2>2. \A i \in 1..Len(r), j \in 1..Len(tm.free) : r[i] # tm.free[j]
    <3>1. SUFFICES ASSUME NEW i \in 1..Len(r), NEW j \in 1..Len(tm.free), r[i] = tm.free[j]
                   PROVE  FALSE
      OBVIOUS
    <3>2. Contains(r, r[i]) /\ Contains(tm.free, r[i])
      BY <3>1 DEF Contains
    <3>3. r[i] = t \/ Contains(s, r[i])
      BY <1>4, <3>2
    <3>4. r[i] # t
      BY <1>3, <3>2 DEF Lists
    <3>5. PICK k \in 1..Len(s) : s[k] = r[i]
      BY <3>3, <3>4 DEF Contains
    <3>6. QED BY <1>3, <3>1, <3>5 DEF Lists, s
  <2>3. \A x \in 1..Len(tm.heap) : Contains(r, x) \/ Contains(tm.free, x)
    BY <1>3, <1>4 DEF Lists, s
  <2>4. Once(tm.free)
    BY <1>3 DEF Lists
  <2>5. QED BY <1>2, <1>4, <2>1, <2>2, <2>3, <2>4 DEF Lists
<1>7. Sorted(new)
  <2>1. new.timers = r /\ \A x : At(new, x) = At(tm, x)
    BY <1>2 DEF new, r, At
  <2>2. SUFFICES ASSUME NEW i \in 1..Len(r), NEW j \in 1..Len(r), i < j
                 PROVE  At(tm, r[i]) <= At(tm, r[j])
    BY <1>5, <2>1, SortedByTime
  <2>3. Len(r) = Len(s) + 1 /\ r[p] = t
    BY <1>1 DEF Inserted
  <2>4. \A k \in 1..Len(s) : At(tm, s[k]) \in Nat
    BY <1>3, TypedFacts DEF Typed, s
  <2>5. \A k, m \in 1..Len(s) : k < m => At(tm, s[k]) <= At(tm, s[m])
    BY SortedByTime DEF Loose, s
  <2>6. At(tm, t) \in Nat
    BY <1>3, TypedFacts
  <2>7. \A k \in 1..(p - 1) : k \in 1..Len(s) /\ r[k] = s[k]
    BY <1>1, <1>3 DEF Inserted
  <2>8. \A k \in (p + 1)..Len(r) : k - 1 \in p..Len(s) /\ k - 1 \in 1..Len(s) /\ r[k] = s[k - 1]
    <3>1. SUFFICES ASSUME NEW k \in (p + 1)..Len(r)
                   PROVE  k - 1 \in p..Len(s) /\ k - 1 \in 1..Len(s) /\ r[k] = s[k - 1]
      OBVIOUS
    <3>2. k - 1 \in p..Len(s) /\ k - 1 \in 1..Len(s) /\ (k - 1) + 1 = k
      BY <1>3, <2>3
    <3>3. QED BY <1>1, <3>2 DEF Inserted
  <2>9. CASE j < p
    BY <1>3, <2>2, <2>5, <2>7, <2>9
  <2>10. CASE j = p
    BY <1>1, <1>3, <2>2, <2>3, <2>7, <2>10
  <2>11. CASE i = p
    BY <1>1, <1>3, <2>2, <2>3, <2>4, <2>6, <2>8, <2>11
  <2>12. CASE i < p /\ j > p
    <3>1. /\ i \in 1..(p - 1) /\ j \in (p + 1)..Len(r)
      BY <1>3, <2>3, <2>12
    <3>2. At(tm, r[i]) = At(tm, s[i]) /\ At(tm, r[j]) = At(tm, s[j - 1])
      BY <2>7, <2>8, <3>1
    <3>3. i < j - 1 \/ i = j - 1
      BY <2>12
    <3>4. i \in 1..Len(s) /\ j - 1 \in 1..Len(s)
      BY <2>7, <2>8, <3>1
    <3>5. QED BY <2>4, <2>5, <3>2, <3>3, <3>4
  <2>13. CASE i > p
    <3>1. i \in (p + 1)..Len(r) /\ j \in (p + 1)..Len(r)
      BY <1>3, <2>2, <2>3, <2>13
    <3>2. r[i] = s[i - 1] /\ r[j] = s[j - 1] /\ i - 1 \in 1..Len(s) /\ j - 1 \in 1..Len(s)
      BY <2>8, <3>1
    <3>3. i - 1 < j - 1
      BY <2>2
    <3>4. QED BY <2>5, <3>2, <3>3
  <2>14. QED BY <2>2, <2>9, <2>10, <2>11, <2>12, <2>13
<1>8. Len(new.timers) + Len(new.free) = Len(new.heap)
  <2>1. Len(r) = Len(s) + 1
    BY <1>1 DEF Inserted
  <2>2. new.timers = r
    BY DEF new, r
  <2> DEFINE a == Len(s)
             b == Len(tm.free)
             c == Len(tm.heap)
  <2>3. a \in Nat /\ b \in Nat /\ c \in Nat /\ a + b + 1 = c
    BY <1>3, Zenon
  <2> HIDE DEF a, b, c
  <2>4. (a + 1) + b = c
    BY <2>3
  <2> USE DEF a, b, c
  <2>5. QED BY <1>2, <2>1, <2>2, <2>4, Zenon
<1>9. QED
  BY <1>2, <1>4, <1>5, <1>6, <1>7, <1>8 DEF TimersOK, new, r, s

(* list_remove takes t out of the active list, whatever its time has been  *)
(* changed to.                                                             *)
LEMMA Removed ==
  ASSUME NEW tm, TimersOK(tm), NEW t \in Nat, Contains(tm.timers, t), NEW h \in Seq(Objects),
         Len(h) = Len(tm.heap), \A x \in 1..Len(h) : x # t => h[x] = tm.heap[x]
  PROVE  LET r == [timers |-> RemoveFirst(tm.timers, t), free |-> tm.free, heap |-> h]
         IN  /\ Loose(r, t)
             /\ \A x : Contains(r.timers, x) <=> x # t /\ Contains(tm.timers, x)
             /\ \E p \in 1..Len(tm.timers) :
                  tm.timers[p] = t /\ Taken(tm.timers, p, r.timers)
<1> DEFINE s == tm.timers
           rs == RemoveFirst(s, t)
           r == [timers |-> rs, free |-> tm.free, heap |-> h]
<1>1. PICK p \in 1..Len(s) : s[p] = t
  BY DEF Contains
<1>2. /\ Typed(tm) /\ Lists(tm, {}) /\ s \in Seq(Nat) /\ Len(s) \in Nat
      /\ Len(tm.free) \in Nat /\ Len(tm.heap) \in Nat /\ Once(s)
      /\ Len(s) + Len(tm.free) = Len(tm.heap)
      /\ t \in 1..Len(tm.heap)
  BY <1>1, TypedFacts DEF TimersOK, Lists, Typed
<1>3. rs \in Seq(Nat) /\ Taken(s, p, rs)
  <2>1. rs = RemoveAt(s, p)
    BY <1>1, <1>2, RemovedOnce
  <2>2. QED BY <1>2, <2>1, RemovePosition
<1>4. /\ \A y : Contains(rs, y) <=> y # t /\ Contains(s, y)
      /\ Once(rs)
  BY <1>1, <1>2, <1>3, TakenMembers
<1>5. r.timers = rs /\ r.free = tm.free /\ r.heap = h
  OBVIOUS
<1>6. r \in [timers : Seq(Nat), free : Seq(Nat), heap : Seq(Objects)]
  BY <1>2, <1>3, TypedFacts
<1> HIDE DEF s, rs, r
<1>7. \A i \in 1..Len(rs) : Contains(s, rs[i]) /\ rs[i] # t
  <2>1. \A i \in 1..Len(rs) : Contains(rs, rs[i])
    BY DEF Contains
  <2>2. QED BY <1>4, <2>1
<1>8. Typed(r)
  <2>1. \A i \in 1..Len(rs) : rs[i] \in 1..Len(h)
    BY <1>2, <1>7 DEF Contains, Typed, s
  <2>2. \A i \in 1..Len(tm.free) : tm.free[i] \in 1..Len(h)
    BY <1>2 DEF Typed
  <2>3. QED BY <1>5, <1>6, <2>1, <2>2 DEF Typed
<1>9. Lists(r, {t})
  <2>1. ~Contains(rs, t) /\ ~Contains(tm.free, t)
    <3>1. ~Contains(tm.free, t)
      BY <1>1, <1>2 DEF Contains, Lists, s
    <3>2. QED BY <1>4, <3>1
  <2>2. ASSUME NEW i \in 1..Len(rs), NEW j \in 1..Len(tm.free)
        PROVE  rs[i] # tm.free[j]
    <3>1. PICK k \in 1..Len(s) : s[k] = rs[i]
      BY <1>7 DEF Contains
    <3>2. s[k] # tm.free[j]
      BY <1>2 DEF Lists, s
    <3>3. QED BY <3>1, <3>2
  <2>3. \A x \in (1..Len(h)) \ {t} : Contains(rs, x) \/ Contains(tm.free, x)
    BY <1>2, <1>4 DEF Lists, s
  <2>4. Once(tm.free)
    BY <1>2 DEF Lists
  <2>5. QED BY <1>4, <1>5, <2>1, <2>2, <2>3, <2>4 DEF Lists
<1>10. Sorted(r)
  <2>1. \A i \in 1..Len(rs) : At(r, rs[i]) = At(tm, rs[i])
    <3>1. ASSUME NEW i \in 1..Len(rs) PROVE At(r, rs[i]) = At(tm, rs[i])
      <4>1. rs[i] \in 1..Len(h) /\ rs[i] # t
        BY <1>5, <1>7, <1>8 DEF Typed
      <4>2. QED BY <1>5, <4>1 DEF At
    <3>2. QED BY <3>1
  <2>2. SUFFICES ASSUME NEW i \in 1..Len(rs), NEW j \in 1..Len(rs), i < j
                 PROVE  At(tm, rs[i]) <= At(tm, rs[j])
    BY <1>5, <1>8, <2>1, SortedByTime
  <2>3. \A k, m \in 1..Len(s) : k < m => At(tm, s[k]) <= At(tm, s[m])
    BY <1>2, SortedByTime DEF TimersOK, s
  <2> DEFINE m(k) == IF k < p THEN k ELSE k + 1
  <2>4. Len(rs) = Len(s) - 1
    BY <1>3 DEF Taken
  <2>5. \A k \in 1..Len(rs) : m(k) \in 1..Len(s) /\ rs[k] = s[m(k)]
    <3>1. SUFFICES ASSUME NEW k \in 1..Len(rs)
                   PROVE  m(k) \in 1..Len(s) /\ rs[k] = s[m(k)]
      OBVIOUS
    <3>2. CASE k < p
      <4>1. k \in 1..(p - 1) /\ k \in 1..Len(s)
        BY <1>2, <2>4, <3>2
      <4>2. QED BY <1>3, <3>2, <4>1 DEF Taken
    <3>3. CASE ~(k < p)
      <4>1. k + 1 \in (p + 1)..Len(s) /\ (k + 1) - 1 = k /\ k + 1 \in 1..Len(s)
        BY <1>2, <2>4, <3>3
      <4>2. QED BY <1>3, <3>3, <4>1 DEF Taken
    <3>4. QED BY <3>2, <3>3
  <2>6. m(i) < m(j)
    <3>1. \A a, b \in Int : a < b => m(a) < m(b)
      <4>1. p \in Int
        BY <1>2
      <4>2. QED BY <4>1
    <3>2. i \in Int /\ j \in Int
      BY <1>2, <2>4
    <3>3. QED BY <2>2, <3>1, <3>2
  <2> HIDE DEF m
  <2>7. QED BY <2>3, <2>5, <2>6
<1>11. Len(rs) + Len(tm.free) + 1 = Len(h)
  <2>1. Len(rs) = Len(s) - 1
    BY <1>3 DEF Taken
  <2> DEFINE a == Len(s)
             b == Len(tm.free)
             c == Len(tm.heap)
  <2>2. a \in Nat /\ b \in Nat /\ c \in Nat /\ a + b = c
    BY <1>2, Zenon
  <2> HIDE DEF a, b, c
  <2>3. (a - 1) + b + 1 = c
    BY <2>2
  <2> USE DEF a, b, c
  <2>4. QED BY <2>1, <2>3, Zenon
<1>12. Loose(r, t)
  BY <1>2, <1>5, <1>8, <1>9, <1>10, <1>11 DEF Loose
<1>13. QED
  BY <1>1, <1>3, <1>4, <1>5, <1>12 DEF r, rs, s

(* tmr_cancel                                                              *)
LEMMA CancelKeeps ==
  ASSUME NEW tm, TimersOK(tm), NEW t \in Nat, Contains(tm.timers, t)
  PROVE  /\ TimersOK(TmrCancel(tm, t))
         /\ TmrCancel(tm, t).heap = tm.heap
         /\ \A x : Contains(TmrCancel(tm, t).timers, x) <=> x # t /\ Contains(tm.timers, x)
         /\ \E p \in 1..Len(tm.timers) :
              tm.timers[p] = t /\ Taken(tm.timers, p, TmrCancel(tm, t).timers)
<1> DEFINE r == [timers |-> RemoveFirst(tm.timers, t), free |-> tm.free, heap |-> tm.heap]
           f == <<t>> \o tm.free
           new == [timers |-> r.timers, free |-> f, heap |-> tm.heap]
<1>1. Typed(tm) /\ tm \in [timers : Seq(Nat), free : Seq(Nat), heap : Seq(Objects)]
  BY DEF TimersOK, Typed
<1>2. TmrCancel(tm, t) = new
  <2>1. ListRemove(tm, t) = r
    BY <1>1 DEF ListRemove
  <2>2. TmrCancel(tm, t) = [r EXCEPT !.free = f]
    BY <2>1 DEF TmrCancel
  <2>3. QED BY <2>2
<1>3. /\ Loose(r, t)
      /\ \A x : Contains(r.timers, x) <=> x # t /\ Contains(tm.timers, x)
      /\ \E p \in 1..Len(tm.timers) : tm.timers[p] = t /\ Taken(tm.timers, p, r.timers)
  <2>1. tm.heap \in Seq(Objects)
    BY <1>1
  <2>2. QED BY <2>1, Removed
<1>4. r.free = tm.free /\ r.heap = tm.heap
  OBVIOUS
<1> HIDE DEF r
<1>5. /\ f \in Seq(Nat) /\ Len(f) = Len(tm.free) + 1 /\ Len(tm.free) \in Nat
      /\ f[1] = t /\ \A i \in 2..Len(f) : f[i] = tm.free[i - 1]
  <2>1. tm.free \in Seq(Nat) /\ Len(tm.free) \in Nat
    BY <1>1, LenProperties
  <2>2. <<t>> \in Seq(Nat) /\ Len(<<t>>) = 1 /\ <<t>>[1] = t
    OBVIOUS
  <2>3. /\ f \in Seq(Nat) /\ Len(f) = 1 + Len(tm.free)
        /\ \A i \in 1..(1 + Len(tm.free)) : f[i] = IF i <= 1 THEN <<t>>[i] ELSE tm.free[i - 1]
    BY <2>1, <2>2, ConcatProperties
  <2> HIDE DEF f
  <2>4. f[1] = t
    BY <2>1, <2>2, <2>3
  <2>5. ASSUME NEW i \in 2..Len(f) PROVE f[i] = tm.free[i - 1]
    <3>1. i \in 1..(1 + Len(tm.free)) /\ ~(i <= 1)
      BY <2>1, <2>3
    <3>2. QED BY <2>3, <3>1
  <2>6. 1 + Len(tm.free) = Len(tm.free) + 1
    BY <2>1
  <2>7. QED BY <2>1, <2>3, <2>4, <2>5, <2>6
<1>6. new.timers = r.timers /\ new.free = f /\ new.heap = tm.heap
  OBVIOUS
<1>7. new \in [timers : Seq(Nat), free : Seq(Nat), heap : Seq(Objects)]
  BY <1>1, <1>3, <1>5 DEF Loose, Typed
<1> HIDE DEF f, new
<1>8. /\ t \in 1..Len(tm.heap) /\ Typed(r) /\ Lists(r, {t}) /\ Sorted(r)
      /\ Len(r.timers) + Len(tm.free) + 1 = Len(tm.heap)
  BY <1>3, <1>4 DEF Loose
<1>9. \A i \in 1..Len(f) : i = 1 \/ (i \in 2..Len(f) /\ i - 1 \in 1..Len(tm.free))
  BY <1>5
<1>10. Typed(new)
  <2>1. \A i \in 1..Len(f) : f[i] \in 1..Len(tm.heap)
    BY <1>4, <1>5, <1>8, <1>9 DEF Typed
  <2>2. QED BY <1>4, <1>6, <1>7, <1>8, <2>1 DEF Typed
<1>11. \A y : Contains(f, y) <=> y = t \/ Contains(tm.free, y)
  <2>1. SUFFICES ASSUME NEW y PROVE Contains(f, y) <=> y = t \/ Contains(tm.free, y)
    OBVIOUS
  <2>2. Contains(f, y) => y = t \/ Contains(tm.free, y)
    BY <1>5, <1>9 DEF Contains
  <2>3. y = t => Contains(f, y)
    BY <1>5 DEF Contains
  <2>4. ASSUME Contains(tm.free, y) PROVE Contains(f, y)
    <3>1. PICK j \in 1..Len(tm.free) : tm.free[j] = y
      BY <2>4 DEF Contains
    <3>2. j + 1 \in 2..Len(f) /\ j + 1 \in 1..Len(f) /\ (j + 1) - 1 = j
      BY <1>5
    <3>3. f[j + 1] = y
      BY <1>5, <3>1, <3>2
    <3>4. QED BY <3>2, <3>3 DEF Contains
  <2>5. QED BY <2>2, <2>3, <2>4
<1>12. Once(f)
  <2>1. SUFFICES ASSUME NEW i \in 1..Len(f), NEW j \in 1..Len(f), f[i] = f[j] PROVE i = j
    BY DEF Once
  <2>2. \A k \in 1..Len(tm.free) : tm.free[k] # t
    BY <1>4, <1>8 DEF Lists, Contains
  <2>3. Once(tm.free)
    BY <1>4, <1>8 DEF Lists
  <2>4. CASE i = 1 \/ j = 1
    BY <1>5, <1>9, <2>1, <2>2, <2>4
  <2>5. CASE i # 1 /\ j # 1
    <3>1. /\ i - 1 \in 1..Len(tm.free) /\ j - 1 \in 1..Len(tm.free)
          /\ tm.free[i - 1] = tm.free[j - 1]
      BY <1>5, <1>9, <2>1, <2>5
    <3>2. i - 1 = j - 1
      BY <2>3, <3>1 DEF Once
    <3>3. QED BY <1>5, <3>2
  <2>6. QED BY <2>4, <2>5
<1>13. Lists(new, {})
  <2>1. \A i \in 1..Len(r.timers), j \in 1..Len(f) : r.timers[i] # f[j]
    <3>1. SUFFICES ASSUME NEW i \in 1..Len(r.timers), NEW j \in 1..Len(f), r.timers[i] = f[j]
                   PROVE  FALSE
      OBVIOUS
    <3>2. Contains(r.timers, f[j]) /\ Contains(f, f[j])
      BY <3>1 DEF Contains
    <3>3. Contains(tm.free, f[j])
      BY <1>3, <1>11, <3>2
    <3>4. PICK k \in 1..Len(tm.free) : tm.free[k] = f[j]
      BY <3>3 DEF Contains
    <3>5. QED BY <1>4, <1>8, <3>1, <3>4 DEF Lists
  <2>2. \A x \in 1..Len(tm.heap) : Contains(r.timers, x) \/ Contains(f, x)
    BY <1>4, <1>8, <1>11 DEF Lists
  <2>3. Once(r.timers)
    BY <1>8 DEF Lists
  <2>4. QED BY <1>6, <1>12, <2>1, <2>2, <2>3 DEF Lists
<1>14. Sorted(new)
  BY <1>4, <1>6, <1>8 DEF Sorted
<1>15. Len(new.timers) + Len(new.free) = Len(new.heap)
  <2> DEFINE a == Len(r.timers)
             b == Len(tm.free)
             c == Len(tm.heap)
  <2>1. a \in Nat /\ b \in Nat /\ c \in Nat /\ a + b + 1 = c /\ Len(f) = b + 1
    BY <1>1, <1>5, <1>8, TypedFacts
  <2> HIDE DEF a, b, c
  <2>2. a + (b + 1) = c
    BY <2>1
  <2> USE DEF a, b, c
  <2>3. QED BY <1>6, <2>1, <2>2
<1>16. QED
  BY <1>2, <1>3, <1>6, <1>10, <1>13, <1>14, <1>15 DEF TimersOK

----------------------------------------------------------------------------
(* The order of two timers.                                                *)

(* x is the last timer of its time, so that the next one that is added for *)
(* this time follows it.                                                   *)
LastOf(tm, x) ==
  \E i \in 1..Len(tm.timers) :
    /\ tm.timers[i] = x
    /\ \A k \in (i + 1)..Len(tm.timers) : At(tm, x) < At(tm, tm.timers[k])

(* y follows x at once, and they have the same time.                       *)
Together(tm, x, y) ==
  \E i \in 1..(Len(tm.timers) - 1) :
    /\ tm.timers[i] = x /\ tm.timers[i + 1] = y
    /\ tm.heap[x].time = tm.heap[y].time

(* list_add puts t after the timers of its time.                           *)
LEMMA AddedLast ==
  ASSUME NEW tm, NEW t, Loose(tm, t)
  PROVE  LastOf(ListAdd(tm, t), t)
<1> DEFINE s == tm.timers
           r == ListAdd(tm, t).timers
<1>1. PICK p \in 1..(Len(s) + 1) :
        /\ Inserted(s, p, t, r)
        /\ \A k \in p..Len(s) : At(tm, t) < At(tm, s[k])
  BY AddPlace
<1>2. ListAdd(tm, t).heap = tm.heap
  BY AddPlace
<1>3. \A x : At(ListAdd(tm, t), x) = At(tm, x)
  BY <1>2 DEF At
<1>4. Len(s) \in Nat
  BY TypedFacts DEF Loose
<1> HIDE DEF s, r
<1>5. Len(r) = Len(s) + 1 /\ r[p] = t /\ p \in 1..Len(r)
  BY <1>1, <1>4 DEF Inserted
<1>6. ASSUME NEW k \in (p + 1)..Len(r) PROVE At(tm, t) < At(tm, r[k])
  <2>1. k - 1 \in p..Len(s) /\ (k - 1) + 1 = k
    BY <1>4, <1>5
  <2>2. r[k] = s[k - 1]
    BY <1>1, <2>1 DEF Inserted
  <2>3. QED BY <1>1, <2>1, <2>2
<1>7. QED
  BY <1>3, <1>5, <1>6 DEF LastOf, r

(* list_add puts t just after the last timer of its time.                  *)
LEMMA AddedAfter ==
  ASSUME NEW tm, NEW x, NEW y, Loose(tm, y), LastOf(tm, x), tm.heap[x].time = tm.heap[y].time
  PROVE  Together(ListAdd(tm, y), x, y)
<1> DEFINE s == tm.timers
           r == ListAdd(tm, y).timers
<1>1. PICK p \in 1..(Len(s) + 1) :
        /\ Inserted(s, p, y, r)
        /\ \A k \in 1..(p - 1) : At(tm, s[k]) <= At(tm, y)
        /\ \A k \in p..Len(s) : At(tm, y) < At(tm, s[k])
  BY AddPlace
<1>2. ListAdd(tm, y).heap = tm.heap /\ At(tm, x) = At(tm, y)
  BY AddPlace DEF At
<1>3. Len(s) \in Nat /\ Typed(tm)
  BY TypedFacts DEF Loose
<1>4. PICK i \in 1..Len(s) :
        /\ s[i] = x
        /\ \A k \in (i + 1)..Len(s) : At(tm, x) < At(tm, s[k])
  BY DEF LastOf
<1>5. At(tm, y) \in Nat /\ \A k \in 1..Len(s) : At(tm, s[k]) \in Nat
  BY <1>3, TypedFacts DEF Loose, Typed
<1> HIDE DEF s, r
<1>6. p = i + 1
  <2>1. ~(p <= i)
    <3>1. SUFFICES ASSUME p <= i PROVE FALSE
      OBVIOUS
    <3>2. i \in p..Len(s)
      BY <1>3, <3>1
    <3>3. At(tm, y) < At(tm, x)
      BY <1>1, <1>4, <3>2
    <3>4. QED BY <1>2, <1>5, <3>3
  <2>2. ~(p > i + 1)
    <3>1. SUFFICES ASSUME p > i + 1 PROVE FALSE
      OBVIOUS
    <3>2. i + 1 \in 1..(p - 1) /\ i + 1 \in (i + 1)..Len(s) /\ i + 1 \in 1..Len(s)
      BY <1>3, <3>1
    <3>3. At(tm, s[i + 1]) <= At(tm, y) /\ At(tm, x) < At(tm, s[i + 1])
      BY <1>1, <1>4, <3>2
    <3>4. QED BY <1>2, <1>5, <3>2, <3>3
  <2>3. QED BY <1>3, <2>1, <2>2
<1>7. Len(r) = Len(s) + 1 /\ r[i + 1] = y /\ r[i] = x /\ i \in 1..(Len(r) - 1)
  <2>1. Len(r) = Len(s) + 1 /\ r[i + 1] = y
    BY <1>1, <1>6 DEF Inserted
  <2>2. i \in 1..(p - 1) /\ i \in 1..(Len(r) - 1)
    BY <1>3, <1>6, <2>1
  <2>3. r[i] = s[i]
    BY <1>1, <2>2 DEF Inserted
  <2>4. QED BY <1>4, <2>1, <2>2, <2>3
<1>8. QED
  BY <1>2, <1>7 DEF Together, r

(* list_add puts t between no two timers of the same time.                 *)
LEMMA AddedApart ==
  ASSUME NEW tm, NEW x, NEW y, NEW z, Loose(tm, z), Together(tm, x, y)
  PROVE  Together(ListAdd(tm, z), x, y)
<1> DEFINE s == tm.timers
           r == ListAdd(tm, z).timers
<1>1. PICK p \in 1..(Len(s) + 1) :
        /\ Inserted(s, p, z, r)
        /\ \A k \in 1..(p - 1) : At(tm, s[k]) <= At(tm, z)
        /\ \A k \in p..Len(s) : At(tm, z) < At(tm, s[k])
  BY AddPlace
<1>2. ListAdd(tm, z).heap = tm.heap
  BY AddPlace
<1>3. Len(s) \in Nat /\ Typed(tm)
  BY TypedFacts DEF Loose
<1>4. PICK i \in 1..(Len(s) - 1) :
        s[i] = x /\ s[i + 1] = y /\ tm.heap[x].time = tm.heap[y].time
  BY DEF Together
<1>5. At(tm, z) \in Nat /\ \A k \in 1..Len(s) : At(tm, s[k]) \in Nat
  BY <1>3, TypedFacts DEF Loose, Typed
<1> HIDE DEF s, r
<1>6. Len(r) = Len(s) + 1
  BY <1>1 DEF Inserted
<1>7. p # i + 1
  <2>1. SUFFICES ASSUME p = i + 1 PROVE FALSE
    OBVIOUS
  <2>2. i \in 1..(p - 1) /\ i + 1 \in p..Len(s) /\ i \in 1..Len(s) /\ i + 1 \in 1..Len(s)
    BY <1>3, <2>1
  <2>3. At(tm, x) <= At(tm, z) /\ At(tm, z) < At(tm, y)
    BY <1>1, <1>4, <2>2
  <2>4. At(tm, x) = At(tm, y) /\ At(tm, x) \in Nat
    BY <1>4, <1>5, <2>2 DEF At
  <2>5. QED BY <1>5, <2>3, <2>4
<1>8. CASE p <= i
  <2>1. i \in p..Len(s) /\ i + 1 \in p..Len(s) /\ i + 1 \in 1..(Len(r) - 1)
    BY <1>3, <1>6, <1>8
  <2>2. r[i + 1] = x /\ r[(i + 1) + 1] = y
    BY <1>1, <1>4, <2>1 DEF Inserted
  <2>3. QED BY <1>2, <1>4, <2>1, <2>2 DEF Together, r
<1>9. CASE p > i + 1
  <2>1. i \in 1..(p - 1) /\ i + 1 \in 1..(p - 1) /\ i \in 1..(Len(r) - 1)
    BY <1>3, <1>6, <1>9
  <2>2. r[i] = x /\ r[i + 1] = y
    BY <1>1, <1>4, <2>1 DEF Inserted
  <2>3. QED BY <1>2, <1>4, <2>1, <2>2 DEF Together, r
<1>10. QED
  BY <1>3, <1>7, <1>8, <1>9

(* list_remove leaves the other timers in their order.                     *)
LEMMA RemovedApart ==
  ASSUME NEW tm, TimersOK(tm), NEW z \in Nat, NEW h, NEW x, NEW y, NEW r,
         \A k \in 1..Len(tm.heap) : k # z => h[k] = tm.heap[k],
         NEW p \in 1..Len(tm.timers), tm.timers[p] = z, Taken(tm.timers, p, r.timers),
         r.heap = h, x # z
  PROVE  /\ y # z /\ Together(tm, x, y) => Together(r, x, y)
         /\ LastOf(tm, x) => LastOf(r, x)
<1> DEFINE s == tm.timers
           rs == r.timers
<1>1. Len(s) \in Nat /\ Typed(tm)
  BY TypedFacts DEF TimersOK
<1>2. \A k \in 1..Len(s) : s[k] \in 1..Len(tm.heap)
  BY <1>1 DEF Typed
<1>3. \A k \in 1..Len(s) : s[k] # z => r.heap[s[k]] = tm.heap[s[k]] /\ At(r, s[k]) = At(tm, s[k])
  BY <1>2 DEF At
<1>4. \A k \in 1..Len(s) : k # p => s[k] # z
  BY DEF TimersOK, Lists, Once
<1> HIDE DEF s, rs
<1>5. /\ Len(rs) = Len(s) - 1
      /\ \A k \in 1..(p - 1) : rs[k] = s[k]
      /\ \A k \in (p + 1)..Len(s) : rs[k - 1] = s[k]
  BY DEF Taken, s, rs
<1>6. ASSUME y # z, Together(tm, x, y) PROVE Together(r, x, y)
  <2>1. PICK i \in 1..(Len(s) - 1) :
          s[i] = x /\ s[i + 1] = y /\ tm.heap[x].time = tm.heap[y].time
    BY <1>6 DEF Together, s
  <2>2. i \in 1..Len(s) /\ i + 1 \in 1..Len(s) /\ i # p /\ i + 1 # p
    <3>1. i \in 1..Len(s) /\ i + 1 \in 1..Len(s)
      BY <1>1
    <3>2. QED BY <1>6, <2>1, <3>1 DEF s
  <2>3. r.heap[x].time = r.heap[y].time
    BY <1>3, <1>6, <2>1, <2>2
  <2>4. CASE i + 1 < p
    <3>1. i \in 1..(p - 1) /\ i + 1 \in 1..(p - 1) /\ i \in 1..(Len(rs) - 1)
      BY <1>1, <1>5, <2>4 DEF s
    <3>2. rs[i] = x /\ rs[i + 1] = y
      BY <1>5, <2>1, <3>1
    <3>3. QED BY <2>3, <3>1, <3>2 DEF Together, rs
  <2>5. CASE i > p
    <3>1. /\ i \in (p + 1)..Len(s) /\ i + 1 \in (p + 1)..Len(s)
          /\ i - 1 \in 1..(Len(rs) - 1) /\ (i + 1) - 1 = (i - 1) + 1
      BY <1>1, <1>5, <2>5 DEF s
    <3>2. rs[i - 1] = x /\ rs[(i - 1) + 1] = y
      BY <1>5, <2>1, <3>1
    <3>3. QED BY <2>3, <3>1, <3>2 DEF Together, rs
  <2>6. i + 1 < p \/ i > p
    BY <1>1, <2>2 DEF s
  <2>7. QED BY <2>4, <2>5, <2>6
<1>7. ASSUME LastOf(tm, x) PROVE LastOf(r, x)
  <2>1. PICK i \in 1..Len(s) :
          s[i] = x /\ \A k \in (i + 1)..Len(s) : At(tm, x) < At(tm, s[k])
    BY <1>7 DEF LastOf, s
  <2>2. i # p /\ At(r, x) = At(tm, x)
    BY <1>3, <2>1 DEF s
  <2> DEFINE j == IF i < p THEN i ELSE i - 1
  <2>3. j \in 1..Len(rs) /\ rs[j] = x
    <3>1. CASE i < p
      <4>1. i \in 1..(p - 1) /\ i \in 1..Len(rs)
        BY <1>1, <1>5, <3>1 DEF s
      <4>2. QED BY <1>5, <2>1, <3>1, <4>1
    <3>2. CASE ~(i < p)
      <4>1. i \in (p + 1)..Len(s) /\ i - 1 \in 1..Len(rs)
        BY <1>1, <1>5, <2>2, <3>2 DEF s
      <4>2. QED BY <1>5, <2>1, <3>2, <4>1
    <3>3. QED BY <3>1, <3>2
  <2>4. ASSUME NEW k \in (j + 1)..Len(rs) PROVE At(r, x) < At(r, rs[k])
    <3> DEFINE m == IF k < p THEN k ELSE k + 1
    <3>1. m \in (i + 1)..Len(s) /\ m \in 1..Len(s) /\ m # p /\ rs[k] = s[m]
      <4>1. CASE k < p
        <5>1. k \in 1..(p - 1) /\ k \in (i + 1)..Len(s) /\ k \in 1..Len(s) /\ k # p
          BY <1>1, <1>5, <2>2, <2>3, <4>1 DEF s
        <5>2. QED BY <1>5, <4>1, <5>1
      <4>2. CASE ~(k < p)
        <5>1. /\ k + 1 \in (p + 1)..Len(s) /\ k + 1 \in (i + 1)..Len(s)
              /\ k + 1 \in 1..Len(s) /\ k + 1 # p /\ (k + 1) - 1 = k
          BY <1>1, <1>5, <2>2, <2>3, <4>2 DEF s
        <5>2. QED BY <1>5, <4>2, <5>1
      <4>3. QED BY <4>1, <4>2
    <3> HIDE DEF m
    <3>2. At(tm, x) < At(tm, s[m]) /\ At(r, s[m]) = At(tm, s[m])
      BY <1>3, <1>4, <2>1, <3>1
    <3>3. QED BY <2>2, <3>1, <3>2
  <2> HIDE DEF j
  <2>5. QED BY <2>3, <2>4 DEF LastOf, rs
<1>8. QED
  BY <1>6, <1>7

----------------------------------------------------------------------------
(* The operations.                                                         *)

SameObject(o, n, time) ==
  n.proc = o.proc /\ n.usecs = o.usecs /\ n.periodic = o.periodic /\ n.time = time

(* What list_resort does to the lists, when t has the new time v.          *)
Resorts(tm, t, v, new) ==
  /\ TimersOK(new)
  /\ Len(new.heap) = Len(tm.heap)
  /\ \A x \in 1..Len(tm.heap) : x # t => new.heap[x] = tm.heap[x]
  /\ SameObject(tm.heap[t], new.heap[t], v)
  /\ \A x : Contains(new.timers, x) <=> Contains(tm.timers, x)
  /\ LastOf(new, t)
  /\ \A x, y : x # t /\ y # t /\ Together(tm, x, y) => Together(new, x, y)
  /\ \A x : x # t /\ LastOf(tm, x) /\ tm.heap[x].time = v => Together(new, x, t)

(* tmr_reset, and tmr_run for a periodic timer.                            *)
LEMMA ResortKeeps ==
  ASSUME NEW tm, TimersOK(tm), NEW t \in Nat, Contains(tm.timers, t), NEW v \in Times,
         NEW new, new = ListResort([tm EXCEPT !.heap[t].time = v], t)
  PROVE  Resorts(tm, t, v, new)
<1> DEFINE h == [tm.heap EXCEPT ![t].time = v]
           r == [timers |-> RemoveFirst(tm.timers, t), free |-> tm.free, heap |-> h]
<1>1. /\ Typed(tm) /\ tm \in [timers : Seq(Nat), free : Seq(Nat), heap : Seq(Objects)]
      /\ Len(tm.heap) \in Nat /\ tm.heap \in Seq(Objects)
  BY TypedFacts DEF TimersOK, Typed
<1>2. t \in 1..Len(tm.heap)
  BY <1>1 DEF Contains, Typed
<1>3. tm.heap[t] \in Objects
  BY <1>1, <1>2, TypedFacts
<1>4. [tm.heap[t] EXCEPT !.time = v] \in Objects
  BY <1>3 DEF Objects
<1>5. h = [tm.heap EXCEPT ![t] = [tm.heap[t] EXCEPT !.time = v]]
  BY <1>1, <1>2
<1>6. /\ h \in Seq(Objects) /\ Len(h) = Len(tm.heap)
      /\ \A x \in 1..Len(tm.heap) : x # t => h[x] = tm.heap[x]
      /\ h[t] = [tm.heap[t] EXCEPT !.time = v]
  <2> DEFINE o == [tm.heap[t] EXCEPT !.time = v]
  <2>1. h = [tm.heap EXCEPT ![t] = o] /\ o \in Objects
    BY <1>4, <1>5
  <2> HIDE DEF h, o
  <2>2. /\ h \in Seq(Objects) /\ Len(h) = Len(tm.heap)
        /\ \A j \in 1..Len(tm.heap) : h[j] = IF j = t THEN o ELSE tm.heap[j]
    BY <1>1, <1>2, <2>1, ExceptSeq
  <2>3. QED BY <1>2, <2>2 DEF o
<1>7. new = ListAdd(r, t)
  <2>1. [tm EXCEPT !.heap[t].time = v] = [timers |-> tm.timers, free |-> tm.free, heap |-> h]
    <3>1. [tm EXCEPT !.heap[t].time = v] = [tm EXCEPT !.heap = h]
      OBVIOUS
    <3> HIDE DEF h
    <3>2. [tm EXCEPT !.heap = h] = [timers |-> tm.timers, free |-> tm.free, heap |-> h]
      BY <1>1
    <3>3. QED BY <3>1, <3>2
  <2>2. ListRemove([timers |-> tm.timers, free |-> tm.free, heap |-> h], t) = r
    BY DEF ListRemove
  <2>3. QED BY <2>1, <2>2 DEF ListResort
<1>8. SameObject(tm.heap[t], h[t], v)
  BY <1>3, <1>6 DEF SameObject, Objects
<1> HIDE DEF h
<1>9. /\ Loose(r, t)
      /\ \A x : Contains(r.timers, x) <=> x # t /\ Contains(tm.timers, x)
      /\ \E p \in 1..Len(tm.timers) : tm.timers[p] = t /\ Taken(tm.timers, p, r.timers)
  BY <1>6, Removed
<1>10. r.heap = h
  OBVIOUS
<1> HIDE DEF r
<1>11. /\ TimersOK(new) /\ new.heap = h
       /\ \A x : Contains(new.timers, x) <=> x = t \/ Contains(r.timers, x)
  BY <1>7, <1>9, <1>10, Added
<1>12. LastOf(new, t)
  BY <1>7, <1>9, AddedLast
<1>13. \A x : Contains(new.timers, x) <=> Contains(tm.timers, x)
  BY <1>9, <1>11
<1>14. PICK p \in 1..Len(tm.timers) : tm.timers[p] = t /\ Taken(tm.timers, p, r.timers)
  BY <1>9
<1>15. ASSUME NEW x, NEW y, x # t, y # t, Together(tm, x, y) PROVE Together(new, x, y)
  <2>1. Together(r, x, y)
    BY <1>6, <1>10, <1>14, <1>15, RemovedApart
  <2>2. QED BY <1>7, <1>9, <2>1, AddedApart
<1>16. ASSUME NEW x, x # t, LastOf(tm, x), tm.heap[x].time = v PROVE Together(new, x, t)
  <2>1. LastOf(r, x)
    BY <1>6, <1>10, <1>14, <1>16, RemovedApart
  <2>2. x \in 1..Len(tm.heap)
    BY <1>1, <1>16 DEF LastOf, Typed
  <2>3. r.heap[x].time = r.heap[t].time
    BY <1>6, <1>8, <1>10, <1>16, <2>2 DEF SameObject
  <2>4. QED BY <1>7, <1>9, <2>1, <2>3, AddedAfter
<1>17. QED
  BY <1>6, <1>8, <1>11, <1>12, <1>13, <1>15, <1>16 DEF Resorts

(* tmr_cancel leaves the other timers in their order.                      *)
LEMMA CancelApart ==
  ASSUME NEW tm, TimersOK(tm), NEW t \in Nat, Contains(tm.timers, t)
  PROVE  \A x, y : x # t /\ y # t /\ Together(tm, x, y) => Together(TmrCancel(tm, t), x, y)
<1>1. PICK p \in 1..Len(tm.timers) :
        tm.timers[p] = t /\ Taken(tm.timers, p, TmrCancel(tm, t).timers)
  BY CancelKeeps
<1>2. TmrCancel(tm, t).heap = tm.heap
  BY CancelKeeps
<1> DEFINE new == TmrCancel(tm, t)
<1>3. Taken(tm.timers, p, new.timers) /\ new.heap = tm.heap
  BY <1>1, <1>2
<1> HIDE DEF new
<1>4. ASSUME NEW x, NEW y, x # t, y # t, Together(tm, x, y) PROVE Together(new, x, y)
  BY <1>1, <1>3, <1>4, RemovedApart
<1>5. QED
  BY <1>4 DEF new

(* What tmr_create does to the lists.                                      *)
Creates(tm, now, proc, usecs, periodic, new, t) ==
  /\ TimersOK(new)
  /\ Len(tm.heap) <= Len(new.heap) /\ t \in 1..Len(new.heap)
  /\ ~Contains(tm.timers, t)
  /\ \A x \in 1..Len(new.heap) : x # t =>
       x \in 1..Len(tm.heap) /\ new.heap[x] = tm.heap[x]
  /\ new.heap[t] = [proc |-> proc, time |-> AddUsecs(now, usecs), usecs |-> usecs,
                    periodic |-> periodic]
  /\ \A x : Contains(new.timers, x) <=> x = t \/ Contains(tm.timers, x)
  /\ LastOf(new, t)
  /\ \A x, y : Together(tm, x, y) => Together(new, x, y)
  /\ \A x : LastOf(tm, x) /\ tm.heap[x].time = AddUsecs(now, usecs) => Together(new, x, t)

(* tmr_create                                                              *)
LEMMA CreateKeeps ==
  ASSUME NEW tm, TimersOK(tm), NEW now \in Times, NEW proc \in Procs, NEW usecs \in Nat,
         NEW periodic \in BOOLEAN, NEW new, new = TmrCreate(tm, now, proc, usecs, periodic),
         NEW t, t = TmrNew(tm)
  PROVE  Creates(tm, now, proc, usecs, periodic, new, t)
<1> DEFINE o == [proc |-> proc, time |-> AddUsecs(now, usecs), usecs |-> usecs,
                 periodic |-> periodic]
           f == IF tm.free # <<>> THEN Tail(tm.free) ELSE tm.free
           h == IF t > Len(tm.heap) THEN Append(tm.heap, o) ELSE [tm.heap EXCEPT ![t] = o]
           r == [timers |-> tm.timers, free |-> f, heap |-> h]
<1>1. /\ Typed(tm) /\ tm \in [timers : Seq(Nat), free : Seq(Nat), heap : Seq(Objects)]
      /\ Len(tm.heap) \in Nat /\ tm.heap \in Seq(Objects)
      /\ tm.free \in Seq(Nat) /\ Len(tm.free) \in Nat /\ Len(tm.timers) \in Nat
      /\ tm.timers \in Seq(Nat)
      /\ Lists(tm, {}) /\ Sorted(tm) /\ Len(tm.timers) + Len(tm.free) = Len(tm.heap)
  <2>1. /\ Typed(tm) /\ Lists(tm, {}) /\ Sorted(tm)
        /\ Len(tm.timers) + Len(tm.free) = Len(tm.heap)
    BY DEF TimersOK
  <2>2. tm \in [timers : Seq(Nat), free : Seq(Nat), heap : Seq(Objects)]
    BY <2>1 DEF Typed
  <2>3. QED BY <2>1, <2>2, TypedFacts, Zenon
<1>2. o \in Objects /\ o.time = AddUsecs(now, usecs)
  BY AddInTimes DEF Objects
<1>3. new = ListAdd(r, t)
  BY DEF TmrCreate
<1> HIDE DEF o
<1>4. /\ h \in Seq(Objects) /\ t \in 1..Len(h) /\ t \in Nat /\ h[t] = o
      /\ Len(tm.heap) <= Len(h) /\ Len(h) \in Nat
      /\ \A x \in 1..Len(h) : x # t => x \in 1..Len(tm.heap) /\ h[x] = tm.heap[x]
      /\ f \in Seq(Nat)
      /\ \A x : x # t => (Contains(f, x) <=> Contains(tm.free, x))
      /\ ~Contains(f, t) /\ ~Contains(tm.timers, t) /\ Once(f)
      /\ Len(tm.timers) + Len(f) + 1 = Len(h)
  <2>1. CASE tm.free = <<>>
    <3>1. t = Len(tm.heap) + 1 /\ f = tm.free /\ h = Append(tm.heap, o) /\ t \in Nat
      BY <1>1, <2>1 DEF TmrNew
    <3>2. /\ Append(tm.heap, o) \in Seq(Objects)
          /\ Len(Append(tm.heap, o)) = Len(tm.heap) + 1
          /\ \A i \in 1.. Len(tm.heap) : Append(tm.heap, o)[i] = tm.heap[i]
          /\ Append(tm.heap, o)[Len(tm.heap) + 1] = o
      BY <1>1, <1>2, AppendProperties
    <3> HIDE DEF h, f
    <3>3. Len(h) = Len(tm.heap) + 1
      BY <3>1, <3>2
    <3>4. \A x \in 1..Len(h) : x # t => x \in 1..Len(tm.heap)
      BY <1>1, <3>1, <3>3
    <3>5. ~Contains(f, t) /\ ~Contains(tm.timers, t)
      <4>1. /\ \A i \in 1..Len(tm.timers) : tm.timers[i] \in 1..Len(tm.heap)
            /\ \A i \in 1..Len(tm.free) : tm.free[i] \in 1..Len(tm.heap)
        BY <1>1 DEF Typed
      <4>2. t \notin 1..Len(tm.heap)
        BY <1>1, <3>1
      <4>3. QED BY <3>1, <4>1, <4>2 DEF Contains
    <3>6. Once(f)
      BY <1>1, <3>1 DEF Lists
    <3>7. Len(tm.timers) + Len(f) + 1 = Len(h)
      BY <1>1, <3>1, <3>3
    <3>8. t \in 1..Len(h) /\ Len(tm.heap) <= Len(h) /\ Len(h) \in Nat
      BY <1>1, <3>1, <3>3
    <3>9. QED BY <1>1, <3>1, <3>2, <3>3, <3>4, <3>5, <3>6, <3>7, <3>8
  <2>2. CASE tm.free # <<>>
    <3>1. /\ Tail(tm.free) \in Seq(Nat) /\ Len(Tail(tm.free)) = Len(tm.free) - 1
          /\ \A i \in 1..Len(Tail(tm.free)) : Tail(tm.free)[i] = tm.free[i + 1]
          /\ Len(tm.free) \in Nat \ {0}
      BY <1>1, <2>2, HeadTailProperties, EmptySeq
    <3>2. t = tm.free[1] /\ f = Tail(tm.free)
      BY <1>1, <2>2 DEF TmrNew
    <3>3. t \in 1..Len(tm.heap)
      BY <1>1, <3>1, <3>2 DEF Typed
    <3>4. h = [tm.heap EXCEPT ![t] = o] /\ t \in Nat
      BY <1>1, <3>3
    <3> HIDE DEF h, f
    <3>5. /\ h \in Seq(Objects) /\ Len(h) = Len(tm.heap) /\ h[t] = o
          /\ \A x \in 1..Len(tm.heap) : x # t => h[x] = tm.heap[x]
      BY <1>1, <1>2, <3>3, <3>4, ExceptSeq
    <3>6. Once(tm.free) /\ \A i \in 1..Len(f) : i + 1 \in 2..Len(tm.free) /\ i + 1 \in 1..Len(tm.free)
      BY <1>1, <3>1, <3>2 DEF Lists
    <3>7. \A i \in 1..Len(f) : f[i] = tm.free[i + 1]
      BY <3>1, <3>2
    <3>8. ~Contains(f, t)
      <4>1. ASSUME NEW i \in 1..Len(f), f[i] = t PROVE FALSE
        <5>1. tm.free[i + 1] = tm.free[1] /\ i + 1 \in 1..Len(tm.free) /\ 1 \in 1..Len(tm.free)
          BY <3>1, <3>2, <3>6, <3>7, <4>1
        <5>2. i + 1 = 1
          BY <3>6, <5>1 DEF Once
        <5>3. QED BY <3>1, <3>2, <5>2
      <4>2. QED BY <4>1 DEF Contains
    <3>9. ~Contains(tm.timers, t)
      BY <1>1, <3>1, <3>2 DEF Lists, Contains
    <3>10. Once(f)
      <4>1. SUFFICES ASSUME NEW i \in 1..Len(f), NEW j \in 1..Len(f), f[i] = f[j] PROVE i = j
        BY DEF Once
      <4>2. i + 1 = j + 1
        BY <3>6, <3>7, <4>1 DEF Once
      <4>3. QED BY <3>1, <3>2, <4>2
    <3>11. ASSUME NEW x, x # t PROVE Contains(f, x) <=> Contains(tm.free, x)
      <4>1. Contains(f, x) => Contains(tm.free, x)
        BY <3>6, <3>7 DEF Contains
      <4>2. ASSUME Contains(tm.free, x) PROVE Contains(f, x)
        <5>1. PICK k \in 1..Len(tm.free) : tm.free[k] = x
          BY <4>2 DEF Contains
        <5>2. k - 1 \in 1..Len(f) /\ (k - 1) + 1 = k
          BY <3>1, <3>2, <3>11, <5>1
        <5>3. f[k - 1] = x
          BY <3>7, <5>1, <5>2
        <5>4. QED BY <5>2, <5>3 DEF Contains
      <4>3. QED BY <4>1, <4>2
    <3>12. Len(tm.timers) + Len(f) + 1 = Len(h)
      BY <1>1, <3>1, <3>2, <3>5
    <3>13. QED BY <1>1, <3>1, <3>2, <3>3, <3>4, <3>5, <3>8, <3>9, <3>10, <3>11, <3>12
  <2>3. QED BY <2>1, <2>2
<1> HIDE DEF h, f
<1>5. r.timers = tm.timers /\ r.free = f /\ r.heap = h
  OBVIOUS
<1>6. r \in [timers : Seq(Nat), free : Seq(Nat), heap : Seq(Objects)]
  BY <1>1, <1>4
<1> HIDE DEF r
<1>7. Typed(r)
  <2>1. \A i \in 1..Len(tm.timers) : tm.timers[i] \in 1..Len(h)
    BY <1>1, <1>4 DEF Typed
  <2>2. ASSUME NEW i \in 1..Len(f) PROVE f[i] \in 1..Len(h)
    <3>1. Contains(f, f[i])
      BY DEF Contains
    <3>2. Contains(tm.free, f[i])
      BY <1>4, <3>1
    <3>3. f[i] \in 1..Len(tm.heap)
      BY <1>1, <3>2 DEF Contains, Typed
    <3>4. QED BY <1>1, <1>4, <3>3
  <2>3. QED BY <1>5, <1>6, <2>1, <2>2 DEF Typed
<1>8. Lists(r, {t})
  <2>1. \A i \in 1..Len(tm.timers), j \in 1..Len(f) : tm.timers[i] # f[j]
    <3>1. SUFFICES ASSUME NEW i \in 1..Len(tm.timers), NEW j \in 1..Len(f), tm.timers[i] = f[j]
                   PROVE  FALSE
      OBVIOUS
    <3>2. Contains(f, f[j])
      BY DEF Contains
    <3>3. Contains(tm.free, f[j])
      BY <1>4, <3>2
    <3>4. PICK k \in 1..Len(tm.free) : tm.free[k] = f[j]
      BY <3>3 DEF Contains
    <3>5. QED BY <1>1, <3>1, <3>4 DEF Lists
  <2>2. \A x \in (1..Len(h)) \ {t} : Contains(tm.timers, x) \/ Contains(f, x)
    BY <1>1, <1>4 DEF Lists
  <2>3. Once(tm.timers)
    BY <1>1 DEF Lists
  <2>4. QED BY <1>4, <1>5, <2>1, <2>2, <2>3 DEF Lists
<1>9. \A i \in 1..Len(tm.timers) :
        /\ tm.timers[i] # t /\ tm.timers[i] \in 1..Len(h)
        /\ h[tm.timers[i]] = tm.heap[tm.timers[i]]
        /\ At(r, tm.timers[i]) = At(tm, tm.timers[i])
  <2>1. SUFFICES ASSUME NEW i \in 1..Len(tm.timers)
                 PROVE  /\ tm.timers[i] # t /\ tm.timers[i] \in 1..Len(h)
                        /\ h[tm.timers[i]] = tm.heap[tm.timers[i]]
                        /\ At(r, tm.timers[i]) = At(tm, tm.timers[i])
    OBVIOUS
  <2>2. tm.timers[i] # t
    BY <1>4 DEF Contains
  <2>3. tm.timers[i] \in 1..Len(h)
    BY <1>5, <1>7 DEF Typed
  <2>4. h[tm.timers[i]] = tm.heap[tm.timers[i]]
    BY <1>4, <2>2, <2>3
  <2>5. QED BY <1>5, <2>2, <2>3, <2>4 DEF At
<1>10. Sorted(r)
  <2>1. \A i, j \in 1..Len(tm.timers) : i < j => At(tm, tm.timers[i]) <= At(tm, tm.timers[j])
    BY <1>1, SortedByTime
  <2>2. \A i, j \in 1..Len(r.timers) : i < j => At(r, r.timers[i]) <= At(r, r.timers[j])
    BY <1>5, <1>9, <2>1
  <2>3. QED BY <1>7, <2>2, SortedByTime
<1>11. Loose(r, t)
  BY <1>4, <1>5, <1>7, <1>8, <1>10 DEF Loose
<1>12. /\ TimersOK(new) /\ new.heap = h
       /\ \A x : Contains(new.timers, x) <=> x = t \/ Contains(tm.timers, x)
  BY <1>3, <1>5, <1>11, Added
<1>13. LastOf(new, t)
  BY <1>3, <1>11, AddedLast
<1>14. ASSUME NEW x, NEW y, Together(tm, x, y) PROVE Together(new, x, y)
  <2>1. PICK i \in 1..(Len(tm.timers) - 1) :
          tm.timers[i] = x /\ tm.timers[i + 1] = y /\ tm.heap[x].time = tm.heap[y].time
    BY <1>14 DEF Together
  <2>2. i \in 1..Len(tm.timers) /\ i + 1 \in 1..Len(tm.timers)
    BY <1>1
  <2>3. r.heap[x].time = r.heap[y].time
    BY <1>5, <1>9, <2>1, <2>2
  <2>4. Together(r, x, y)
    BY <1>5, <2>1, <2>3 DEF Together
  <2>5. QED BY <1>3, <1>11, <2>4, AddedApart
<1>15. ASSUME NEW x, LastOf(tm, x), tm.heap[x].time = AddUsecs(now, usecs)
       PROVE  Together(new, x, t)
  <2>1. PICK i \in 1..Len(tm.timers) :
          tm.timers[i] = x /\ \A k \in (i + 1)..Len(tm.timers) : At(tm, x) < At(tm, tm.timers[k])
    BY <1>15 DEF LastOf
  <2>2. At(r, x) = At(tm, x) /\ r.heap[x] = tm.heap[x]
    BY <1>5, <1>9, <2>1
  <2>3. \A k \in (i + 1)..Len(tm.timers) : k \in 1..Len(tm.timers)
    BY <1>1
  <2>4. LastOf(r, x)
    BY <1>5, <1>9, <2>1, <2>2, <2>3 DEF LastOf
  <2>5. r.heap[x].time = r.heap[t].time
    BY <1>2, <1>4, <1>5, <1>15, <2>2
  <2>6. QED BY <1>3, <1>11, <2>4, <2>5, AddedAfter
<1>16. QED
  BY <1>4, <1>12, <1>13, <1>14, <1>15 DEF o, Creates

----------------------------------------------------------------------------
(* What tmr_run reads.                                                     *)

(* A timer of the active list is an object.                                *)
LEMMA ActiveInHeap ==
  ASSUME NEW tm, TimersOK(tm), NEW x, Contains(tm.timers, x)
  PROVE  x \in 1..Len(tm.heap) /\ x \in Nat /\ x # None /\ Len(tm.heap) \in Nat
<1>1. Typed(tm)
  BY DEF TimersOK
<1>2. x \in 1..Len(tm.heap)
  BY <1>1 DEF Typed, Contains
<1>3. Len(tm.heap) \in Nat
  BY <1>1, TypedFacts
<1>4. QED
  BY <1>2, <1>3 DEF None

(* The first timer, which follows no other.                                *)
LEMMA FirstActive ==
  ASSUME NEW tm, TimersOK(tm)
  PROVE  /\ First(tm) # None => Contains(tm.timers, First(tm))
         /\ tm.timers # <<>> => First(tm) # None
         /\ \A x, y : Together(tm, x, y) => First(tm) # y
<1>1. Typed(tm) /\ Once(tm.timers)
  BY DEF TimersOK, Lists
<1>2. tm.timers \in Seq(Nat) /\ Len(tm.timers) \in Nat
  BY <1>1, TypedFacts
<1>3. CASE tm.timers = <<>>
  <2>1. Len(tm.timers) = 0
    BY <1>3
  <2>2. \A x, y : ~Together(tm, x, y)
    BY <2>1 DEF Together
  <2>3. QED BY <1>3, <2>2 DEF First
<1>4. CASE tm.timers # <<>>
  <2>1. Len(tm.timers) \in Nat \ {0}
    BY <1>2, <1>4, EmptySeq
  <2>2. First(tm) = tm.timers[1]
    BY <1>2, <1>4, HeadTailProperties DEF First
  <2>3. Contains(tm.timers, First(tm))
    BY <2>1, <2>2 DEF Contains
  <2>4. ASSUME NEW x, NEW y, Together(tm, x, y) PROVE First(tm) # y
    <3>1. PICK i \in 1..(Len(tm.timers) - 1) : tm.timers[i + 1] = y
      BY <2>4 DEF Together
    <3>2. i + 1 \in 1..Len(tm.timers) /\ 1 \in 1..Len(tm.timers) /\ i + 1 # 1
      BY <1>2, <3>1
    <3>3. QED BY <1>1, <2>2, <3>1, <3>2 DEF Once
  <2>5. First(tm) # None
    BY <2>3, ActiveInHeap
  <2>6. QED BY <2>3, <2>4, <2>5
<1>5. QED BY <1>3, <1>4

(* The timer that tmr_run goes to after t.                                 *)
LEMMA NextActive ==
  ASSUME NEW tm, TimersOK(tm), NEW t, Contains(tm.timers, t), NEW n, n = NextOf(tm, t)
  PROVE  /\ n \in Nat
         /\ n # None => Contains(tm.timers, n) /\ n # t
         /\ \A y : Together(tm, t, y) => n = y
         /\ \A x, y : Together(tm, x, y) /\ n = y => x = t
<1>1. Typed(tm) /\ Once(tm.timers)
  BY DEF TimersOK, Lists
<1>2. /\ tm.timers \in Seq(Nat) /\ Len(tm.timers) \in Nat
      /\ DOMAIN tm.timers = 1..Len(tm.timers)
  BY <1>1, TypedFacts
<1> DEFINE i == CHOOSE k \in DOMAIN tm.timers : tm.timers[k] = t
<1>3. i \in 1..Len(tm.timers) /\ tm.timers[i] = t
  BY <1>2 DEF Contains
<1>4. n = IF i = Len(tm.timers) THEN None ELSE tm.timers[i + 1]
  BY DEF NextOf
<1> HIDE DEF i
<1>5. CASE i = Len(tm.timers)
  <2>1. n = None
    BY <1>4, <1>5
  <2>2. ASSUME NEW y, Together(tm, t, y) PROVE FALSE
    <3>1. PICK k \in 1..(Len(tm.timers) - 1) : tm.timers[k] = t
      BY <2>2 DEF Together
    <3>2. k \in 1..Len(tm.timers) /\ k # i
      BY <1>2, <1>5, <3>1
    <3>3. QED BY <1>1, <1>3, <3>1, <3>2 DEF Once
  <2>3. ASSUME NEW x, NEW y, Together(tm, x, y), n = y PROVE FALSE
    <3>1. PICK k \in 1..(Len(tm.timers) - 1) : tm.timers[k + 1] = y
      BY <2>3 DEF Together
    <3>2. k + 1 \in 1..Len(tm.timers)
      BY <1>2, <3>1
    <3>3. Contains(tm.timers, y)
      BY <3>1, <3>2 DEF Contains
    <3>4. QED BY <2>1, <2>3, <3>3, ActiveInHeap
  <2>4. QED BY <2>1, <2>2, <2>3 DEF None
<1>6. CASE i # Len(tm.timers)
  <2>1. i + 1 \in 1..Len(tm.timers) /\ n = tm.timers[i + 1] /\ i # i + 1
    BY <1>2, <1>3, <1>4, <1>6
  <2>2. Contains(tm.timers, n) /\ n # t
    BY <1>1, <1>3, <2>1 DEF Contains, Once
  <2>3. ASSUME NEW y, Together(tm, t, y) PROVE n = y
    <3>1. PICK k \in 1..(Len(tm.timers) - 1) : tm.timers[k] = t /\ tm.timers[k + 1] = y
      BY <2>3 DEF Together
    <3>2. k \in 1..Len(tm.timers)
      BY <1>2, <3>1
    <3>3. k = i
      BY <1>1, <1>3, <3>1, <3>2 DEF Once
    <3>4. QED BY <2>1, <3>1, <3>3
  <2>4. ASSUME NEW x, NEW y, Together(tm, x, y), n = y PROVE x = t
    <3>1. PICK k \in 1..(Len(tm.timers) - 1) : tm.timers[k] = x /\ tm.timers[k + 1] = y
      BY <2>4 DEF Together
    <3>2. k + 1 \in 1..Len(tm.timers) /\ k \in Int /\ i \in Int
      BY <1>2, <1>3, <3>1
    <3>3. k + 1 = i + 1
      BY <1>1, <2>1, <2>4, <3>1, <3>2 DEF Once
    <3>4. k = i
      BY <3>2, <3>3
    <3>5. QED BY <1>3, <3>1, <3>4
  <2>5. n \in Nat
    BY <2>2, ActiveInHeap
  <2>6. QED BY <2>2, <2>3, <2>4, <2>5
<1>7. QED BY <1>5, <1>6

(* Every object is in one of the two lists, once.                          *)
LEMMA ListsPartition ==
  ASSUME NEW tm, TimersOK(tm)
  PROVE  Partitioned(tm)
<1>1. Typed(tm) /\ Lists(tm, {}) /\ Len(tm.timers) + Len(tm.free) = Len(tm.heap)
  BY DEF TimersOK
<1>2. /\ tm.timers \in Seq(Nat) /\ Len(tm.timers) \in Nat
      /\ tm.free \in Seq(Nat) /\ Len(tm.free) \in Nat
  BY <1>1, TypedFacts
<1> DEFINE all == tm.timers \o tm.free
           a == Len(tm.timers)
           b == Len(tm.free)
<1>3. /\ Len(all) = Len(tm.timers) + Len(tm.free)
      /\ \A i \in 1..(Len(tm.timers) + Len(tm.free)) :
           all[i] = IF i <= Len(tm.timers) THEN tm.timers[i] ELSE tm.free[i - Len(tm.timers)]
  BY <1>2, ConcatProperties
<1>4. ASSUME NEW x \in 1..Len(tm.heap) PROVE Contains(all, x)
  <2>1. Contains(tm.timers, x) \/ Contains(tm.free, x)
    BY <1>1 DEF Lists
  <2>2. a \in Nat /\ b \in Nat
    BY <1>2
  <2>3. CASE Contains(tm.timers, x)
    <3>1. PICK i \in 1..a : tm.timers[i] = x
      BY <2>3 DEF Contains
    <3>2. i \in 1..(a + b) /\ i <= a
      <4> HIDE DEF a, b
      <4>1. QED BY <2>2, <3>1
    <3>3. all[i] = x /\ i \in 1..Len(all)
      BY <1>3, <3>1, <3>2
    <3>4. QED BY <3>3 DEF Contains
  <2>4. CASE Contains(tm.free, x)
    <3>1. PICK i \in 1..b : tm.free[i] = x
      BY <2>4 DEF Contains
    <3>2. a + i \in 1..(a + b)
      <4> HIDE DEF a, b
      <4>1. QED BY <2>2, <3>1
    <3>3. all[a + i] = x /\ a + i \in 1..Len(all)
      <4>1. /\ Len(all) = a + b
            /\ \A k \in 1..(a + b) :
                 all[k] = IF k <= a THEN tm.timers[k] ELSE tm.free[k - a]
        BY <1>3
      <4> HIDE DEF all, a, b
      <4>2. PICK k \in 1..(a + b) : k = a + i
        BY <3>2
      <4>3. k - a = i /\ ~(k <= a)
        BY <2>2, <3>1, <4>2
      <4>4. all[k] = tm.free[i]
        BY <4>1, <4>3
      <4>5. QED BY <3>1, <4>1, <4>2, <4>4
    <3>4. QED BY <3>3 DEF Contains
  <2>5. QED BY <2>1, <2>3, <2>4
<1>5. QED
  BY <1>1, <1>3, <1>4 DEF Partitioned

(* iperf_time_add_usecs far from the end of the 32 bits of the seconds.    *)
LEMMA AddFar ==
  ASSUME NEW t \in Times, NEW us \in Nat, InUsecs(t) + us < SecsMod * UsecsPerSec
  PROVE  /\ AddUsecs(t, us) \in Times
         /\ InUsecs(AddUsecs(t, us)) = InUsecs(t) + us
<1> DEFINE total == t.usecs + us
           q == total \div UsecsPerSec
           r == total % UsecsPerSec
           secs == t.secs
           n == secs + q
<1>1. t.secs \in Nat /\ t.usecs \in Nat /\ total \in Nat
  BY Fields
<1>2. q \in Int /\ q >= 0 /\ r \in Nat /\ total = UsecsPerSec * q + r
  <2>1. q \in Int /\ r \in 0..(UsecsPerSec - 1) /\ total = UsecsPerSec * q + r
    <3>1. q \in Int /\ r \in 0..(UsecsPerSec - 1)
      BY <1>1, TimeAssumption
    <3>2. total = UsecsPerSec * q + r
      BY <1>1, TimeAssumption
    <3>3. QED BY <3>1, <3>2
  <2>2. q >= 0
    BY <1>1, TimeAssumption
  <2>3. QED BY <2>1, <2>2, TimeAssumption
<1>3. InUsecs(t) + us = secs * UsecsPerSec + total
  <2>1. t.secs * UsecsPerSec \in Nat
    BY <1>1, TimeAssumption
  <2>2. QED BY <1>1, <2>1 DEF InUsecs
<1> HIDE DEF total, q, r, secs
<1>4. secs \in Nat
  BY <1>1 DEF secs
<1>5. secs * UsecsPerSec + UsecsPerSec * q = n * UsecsPerSec
  BY <1>2, <1>4, TimeAssumption
<1>6. n \in Nat
  BY <1>2, <1>4
<1> HIDE DEF n
<1>7. /\ secs * UsecsPerSec \in Nat /\ UsecsPerSec * q \in Nat
      /\ n * UsecsPerSec \in Nat /\ SecsMod * UsecsPerSec \in Nat
  BY <1>2, <1>4, <1>6, TimeAssumption
<1>8. n * UsecsPerSec < SecsMod * UsecsPerSec
  BY <1>2, <1>3, <1>5, <1>7
<1>9. n < SecsMod
  BY <1>6, <1>8, TimeAssumption
<1>10. t.secs + (t.usecs + us) \div UsecsPerSec < SecsMod
  BY <1>9 DEF n, secs, q, total
<1>11. QED
  BY <1>10, AddIsSum

(* The time of an object is one.                                           *)
LEMMA TimeOfObject ==
  ASSUME NEW tm, TimersOK(tm), NEW x \in 1..Len(tm.heap)
  PROVE  tm.heap[x].time \in Times /\ At(tm, x) \in Nat
<1>1. tm.heap[x].time \in Times
  <2>1. tm.heap \in Seq(Objects)
    BY DEF TimersOK, Typed
  <2>2. tm.heap[x] \in Objects
    BY <2>1
  <2>3. QED BY <2>2 DEF Objects
<1>2. QED BY <1>1, Fields DEF At

----------------------------------------------------------------------------
(* The inductive invariant.                                                *)

SeenType ==
  [saved : Nat, unreported : Int, intervals : Nat, start : Nat, raced : Nat,
   by : {"none", "time", "bytes", "client"}, recorded : Seq(Nat)]

(* Beyond TypeOK: what the sums have read, the history, and that the       *)
(* omitted bytes are some of those of a sender.                            *)
Data ==
  /\ setting \in Settings /\ tests \in 0..Tests /\ clock \in Times
  /\ done \in BOOLEAN /\ omitting \in BOOLEAN /\ ctrl \in BOOLEAN
  /\ worker \in {"stopped", "ready", "stream", "interval"}
  /\ rp \in [bytes : Nat, omit : Nat, interval : Nat] /\ rp.omit <= rp.bytes
  /\ ~ setting.sender => rp.omit = 0
  /\ testBytes \in Nat
  /\ rate.index \in 0..(setting.periods - 1)
  /\ temp \in [bytes : Nat, total : Nat]
  /\ seen \in SeenType
  /\ omitting => setting.omit # 0

Active(x) == Contains(tmr.timers, x)
Proc == tmr.heap[run.t].proc
Periodic == {"stats", "reporter"}
Periods == [s \in Slots |-> Period(s)]

(* What is left of the operations of a callback, or of the creation.       *)
CreateLeft == {CreateOrder, <<"stats", "reporter">>, <<"reporter">>, <<>>}
StatsLeft == {StatsOps, <<"total", "save">>, <<"save">>, <<>>}
ResetLeft == {ResetOps, <<"bytes", "interval", "stats", "reporter">>,
              <<"interval", "stats", "reporter">>, <<"stats", "reporter">>,
              <<"reporter">>, <<>>}
NextOp(o) == IF o = <<>> THEN "none" ELSE Head(o)

OpsOK ==
  /\ pc \in PCs
  /\ pc = "create" => ops \in CreateLeft
  /\ pc = "final" => ops \in StatsLeft
  /\ pc = "call" /\ Proc = "stats" => ops \in StatsLeft
  /\ pc = "call" /\ Proc = "omit" => ops \in ResetLeft
  /\ pc \notin {"create", "final", "call"} => ops = <<>>
  /\ pc = "call" /\ Proc \in {"timer", "reporter"} => ops = <<>>

(* The variables of tmr_run name active timers, two different ones; the    *)
(* callback of a timer that runs once has cleared its slot.                *)
RunOK ==
  /\ run \in [now : Times, t : Nat, next : Nat]
  /\ pc \notin {"visit", "call"} => run.t = None
  /\ pc # "call" => run.next = None
  /\ pc = "visit" /\ run.t # None => Active(run.t)
  /\ pc = "call" =>
       /\ run.t # None /\ Active(run.t)
       /\ run.next # None => Active(run.next) /\ run.next # run.t
       /\ Proc \in Periodic => slot[Proc] = run.t
       /\ Proc \notin Periodic => slot[Proc] = None

HeapOK ==
  \A x \in 1..Len(tmr.heap) :
    /\ tmr.heap[x].proc \in Slots
    /\ tmr.heap[x].periodic = (tmr.heap[x].proc \in Periodic)
    /\ tmr.heap[x].usecs = Periods[tmr.heap[x].proc] /\ tmr.heap[x].usecs # 0

(* A slot names an active timer of its own, and every active timer is      *)
(* named by its slot, but for one that runs once and whose callback runs.  *)
SlotsOK ==
  /\ slot \in [Slots -> Nat]
  /\ \A s \in Slots : slot[s] # None =>
       Active(slot[s]) /\ tmr.heap[slot[s]].proc = s
  /\ \A x \in Nat : Active(x) =>
       slot[tmr.heap[x].proc] = x \/ (pc = "call" /\ x = run.t)
  /\ pc = "idle" => \A s \in Slots : slot[s] = None
  /\ pc = "create" => slot["omit"] = None
  /\ pc = "create" /\ NextOp(ops) = "timer" => slot["timer"] = None
  /\ pc = "create" /\ NextOp(ops) \in {"timer", "stats"} => slot["stats"] = None
  /\ pc = "create" /\ NextOp(ops) # "none" => slot["reporter"] = None

TimerInv == Data /\ OpsOK /\ TimersOK(tmr) /\ HeapOK /\ SlotsOK /\ RunOK

----------------------------------------------------------------------------
(* Lists of operations.                                                    *)

(* What the lists begin with, and what is left of them then.               *)
LEMMA Lefts ==
  /\ Tail(CreateOrder) = <<"stats", "reporter">> /\ Head(CreateOrder) = "timer"
  /\ Tail(StatsOps) = <<"total", "save">> /\ Head(StatsOps) = "read"
  /\ Tail(<<"total", "save">>) = <<"save">> /\ Head(<<"total", "save">>) = "total"
  /\ Tail(<<"save">>) = <<>> /\ Head(<<"save">>) = "save"
  /\ Tail(ResetOps) = <<"bytes", "interval", "stats", "reporter">> /\ Head(ResetOps) = "test"
  /\ Tail(<<"bytes", "interval", "stats", "reporter">>) = <<"interval", "stats", "reporter">>
  /\ Head(<<"bytes", "interval", "stats", "reporter">>) = "bytes"
  /\ Tail(<<"interval", "stats", "reporter">>) = <<"stats", "reporter">>
  /\ Head(<<"interval", "stats", "reporter">>) = "interval"
  /\ Tail(<<"stats", "reporter">>) = <<"reporter">> /\ Head(<<"stats", "reporter">>) = "stats"
  /\ Tail(<<"reporter">>) = <<>> /\ Head(<<"reporter">>) = "reporter"
BY DEF CreateOrder, StatsOps, ResetOps

LEMMA NextOps ==
  /\ NextOp(<<>>) = "none" /\ NextOp(CreateOrder) = "timer"
  /\ NextOp(StatsOps) = "read" /\ NextOp(<<"total", "save">>) = "total"
  /\ NextOp(<<"save">>) = "save" /\ NextOp(ResetOps) = "test"
  /\ NextOp(<<"bytes", "interval", "stats", "reporter">>) = "bytes"
  /\ NextOp(<<"interval", "stats", "reporter">>) = "interval"
  /\ NextOp(<<"stats", "reporter">>) = "stats" /\ NextOp(<<"reporter">>) = "reporter"
BY Lefts DEF NextOp, CreateOrder, StatsOps, ResetOps

(* The next operation tells which list is left.                            *)
LEMMA OpsLeft ==
  /\ NextOp(<<>>) = "none" /\ NextOp(CreateOrder) = "timer"
  /\ NextOp(StatsOps) = "read" /\ NextOp(ResetOps) = "test"
  /\ CreateOrder \in CreateLeft /\ StatsOps \in StatsLeft /\ ResetOps \in ResetLeft
  /\ <<>> \in CreateLeft /\ <<>> \in StatsLeft /\ <<>> \in ResetLeft
  /\ \A o \in CreateLeft : /\ o = <<>> <=> NextOp(o) = "none"
                           /\ NextOp(o) \in {"timer", "stats", "reporter", "none"}
  /\ \A o \in StatsLeft : /\ o = <<>> <=> NextOp(o) = "none"
                          /\ NextOp(o) \in {"read", "total", "save", "none"}
  /\ \A o \in ResetLeft : /\ o = <<>> <=> NextOp(o) = "none"
                          /\ NextOp(o) \in {"test", "bytes", "interval", "stats", "reporter", "none"}
BY Lefts DEF NextOp, CreateLeft, StatsLeft, ResetLeft, CreateOrder, StatsOps, ResetOps

LEMMA CreateTake ==
  ASSUME NEW o \in CreateLeft, o # <<>>
  PROVE  /\ Tail(o) \in CreateLeft /\ NextOp(o) = Head(o)
         /\ NextOp(o) = "timer" => NextOp(Tail(o)) = "stats"
         /\ NextOp(o) = "stats" => NextOp(Tail(o)) = "reporter"
         /\ NextOp(o) = "reporter" => Tail(o) = <<>>
<1>1. NextOp(o) = Head(o)
  BY DEF NextOp
<1>2. QED
  BY <1>1, Lefts, NextOps DEF CreateLeft

LEMMA StatsTake ==
  ASSUME NEW o \in StatsLeft, o # <<>>
  PROVE  /\ Tail(o) \in StatsLeft /\ NextOp(o) = Head(o)
         /\ NextOp(o) = "read" => NextOp(Tail(o)) = "total"
         /\ NextOp(o) = "total" => NextOp(Tail(o)) = "save"
         /\ NextOp(o) = "save" => Tail(o) = <<>>
<1>1. NextOp(o) = Head(o)
  BY DEF NextOp
<1>2. QED
  BY <1>1, Lefts, NextOps DEF StatsLeft

LEMMA ResetTake ==
  ASSUME NEW o \in ResetLeft, o # <<>>
  PROVE  /\ Tail(o) \in ResetLeft /\ NextOp(o) = Head(o)
         /\ NextOp(o) = "test" => NextOp(Tail(o)) = "bytes"
         /\ NextOp(o) = "bytes" => NextOp(Tail(o)) = "interval"
         /\ NextOp(o) = "interval" => NextOp(Tail(o)) = "stats"
         /\ NextOp(o) = "stats" => NextOp(Tail(o)) = "reporter"
         /\ NextOp(o) = "reporter" => Tail(o) = <<>>
<1>1. NextOp(o) = Head(o)
  BY DEF NextOp
<1>2. QED
  BY <1>1, Lefts, NextOps DEF ResetLeft

----------------------------------------------------------------------------
(* Periods.                                                                *)

LEMMA SettingFields ==
  ASSUME setting \in Settings
  PROVE  /\ setting.role \in {"c", "s"} /\ setting.sender \in BOOLEAN
         /\ setting.duration \in Nat /\ setting.omit \in Nat /\ setting.interval \in Nat
         /\ setting.bytes \in Nat /\ setting.limit \in Nat /\ setting.periods \in Nat \ {0}
BY MeasurementAssumption DEF SettingSet

LEMMA PeriodsType ==
  ASSUME setting \in Settings
  PROVE  /\ Periods \in [Slots -> Nat]
         /\ \A s \in Slots : Periods[s] = Period(s)
         /\ Periods["omit"] = setting.omit
         /\ Periods["stats"] = setting.interval /\ Periods["reporter"] = setting.interval
         /\ setting.duration # 0 =>
              Periods["timer"] \in Nat /\ Periods["timer"] >= setting.duration + setting.omit
<1>1. TestPeriod \in Nat /\ (setting.duration # 0 => TestPeriod >= setting.duration + setting.omit)
  BY SettingFields, MeasurementAssumption DEF TestPeriod
<1>2. /\ Period("timer") = TestPeriod /\ Period("stats") = setting.interval
      /\ Period("reporter") = setting.interval /\ Period("omit") = setting.omit
  BY DEF Period
<1>3. \A s \in Slots : Period(s) \in Nat
  BY <1>1, <1>2, SettingFields DEF Slots
<1>4. /\ \A s \in Slots : Periods[s] = Period(s)
      /\ Periods \in [Slots -> Nat]
  BY <1>3 DEF Periods
<1>5. "timer" \in Slots /\ "stats" \in Slots /\ "reporter" \in Slots /\ "omit" \in Slots
  BY DEF Slots
<1>6. QED
  BY <1>1, <1>2, <1>4, <1>5

LEMMA PeriodsSame ==
  ASSUME setting' = setting
  PROVE  Periods' = Periods
BY DEF Periods, Period, TestPeriod

----------------------------------------------------------------------------
(* Steps that leave the lists and the slots alone.                         *)

LEMMA ProcInSlots ==
  ASSUME TimerInv
  PROVE  /\ \A x \in Nat : Active(x) => x \in 1..Len(tmr.heap) /\ tmr.heap[x].proc \in Slots
         /\ pc = "call" => Proc \in Slots
<1>1. TimersOK(tmr) /\ HeapOK /\ RunOK
  BY DEF TimerInv
<1>2. ASSUME NEW x \in Nat, Active(x)
      PROVE  x \in 1..Len(tmr.heap) /\ tmr.heap[x].proc \in Slots
  <2>1. x \in 1..Len(tmr.heap)
    BY <1>1, <1>2, ActiveInHeap DEF Active
  <2>2. QED BY <1>1, <2>1 DEF HeapOK
<1>3. pc = "call" => run.t \in Nat /\ Active(run.t)
  BY <1>1 DEF RunOK
<1>4. QED BY <1>2, <1>3 DEF Proc

LEMMA DoingStats ==
  ASSUME TimerInv, NEW op \in {"read", "total", "save"}, Doing(op)
  PROVE  /\ pc = "final" \/ (pc = "call" /\ Proc = "stats")
         /\ NextOp(ops) = op /\ ops' \in StatsLeft
         /\ op = "read" => NextOp(ops') = "total"
         /\ op = "total" => NextOp(ops') = "save"
         /\ op = "save" => ops' = <<>>
<1>1. /\ pc \in {"call", "final"} /\ ops # <<>> /\ Head(ops) = op /\ ops' = Tail(ops)
  BY DEF Doing
<1>2. NextOp(ops) = op
  BY <1>1 DEF NextOp
<1>3. OpsOK /\ (pc = "call" => Proc \in Slots)
  BY ProcInSlots DEF TimerInv
<1>4. ops \notin ResetLeft
  BY <1>2, OpsLeft
<1>5. ops \in StatsLeft /\ (pc = "final" \/ (pc = "call" /\ Proc = "stats"))
  BY <1>1, <1>3, <1>4 DEF OpsOK, Slots
<1>6. QED
  BY <1>1, <1>2, <1>5, StatsTake

LEMMA DoingReset ==
  ASSUME TimerInv, NEW op \in {"test", "bytes", "interval", "stats", "reporter"}, Doing(op)
  PROVE  /\ pc = "call" /\ Proc = "omit"
         /\ NextOp(ops) = op /\ ops' \in ResetLeft
         /\ op = "test" => NextOp(ops') = "bytes"
         /\ op = "bytes" => NextOp(ops') = "interval"
         /\ op = "interval" => NextOp(ops') = "stats"
         /\ op = "stats" => NextOp(ops') = "reporter"
         /\ op = "reporter" => ops' = <<>>
<1>1. /\ pc \in {"call", "final"} /\ ops # <<>> /\ Head(ops) = op /\ ops' = Tail(ops)
  BY DEF Doing
<1>2. NextOp(ops) = op
  BY <1>1 DEF NextOp
<1>3. OpsOK /\ (pc = "call" => Proc \in Slots)
  BY ProcInSlots DEF TimerInv
<1>4. ops \notin StatsLeft
  BY <1>2, OpsLeft
<1>5. ops \in ResetLeft /\ pc = "call" /\ Proc = "omit"
  BY <1>1, <1>3, <1>4 DEF OpsOK, Slots
<1>6. QED
  BY <1>1, <1>2, <1>5, ResetTake

LEMMA ListsKept ==
  ASSUME TimerInv, UNCHANGED <<setting, tmr>>
  PROVE  TimersOK(tmr)' /\ HeapOK' /\ \A x : Active(x)' <=> Active(x)
<1>1. Periods' = Periods
  BY PeriodsSame
<1>2. QED
  BY <1>1 DEF TimerInv, HeapOK, Active

LEMMA LoopKept ==
  ASSUME TimerInv, UNCHANGED <<setting, tmr, slot, pc, run, ops>>, Data'
  PROVE  TimerInv'
<1>1. TimersOK(tmr)' /\ HeapOK' /\ \A x : Active(x)' <=> Active(x)
  BY ListsKept
<1>2. Proc' = Proc
  BY DEF Proc
<1>3. OpsOK' /\ SlotsOK' /\ RunOK'
  BY <1>1, <1>2 DEF TimerInv, OpsOK, SlotsOK, RunOK
<1>4. QED
  BY <1>1, <1>3 DEF TimerInv

----------------------------------------------------------------------------
(* The counters.                                                           *)

LEMMA SeenFields ==
  ASSUME NEW m \in SeenType
  PROVE  /\ \A by \in {"none", "time", "bytes", "client"} : [m EXCEPT !.by = by] \in SeenType
         /\ \A a \in Nat : [m EXCEPT !.intervals = a] \in SeenType
         /\ \A a \in Nat : [m EXCEPT !.raced = a] \in SeenType
         /\ \A u \in Int : [m EXCEPT !.unreported = u] \in SeenType
BY DEF SeenType

LEMMA SeenRestarted ==
  ASSUME NEW m \in SeenType, NEW a \in Nat, NEW b \in Nat
  PROVE  [m EXCEPT !.intervals = a, !.start = b] \in SeenType
<1> DEFINE n == [m EXCEPT !.intervals = a]
<1>1. [m EXCEPT !.intervals = a, !.start = b] = [n EXCEPT !.start = b]
  BY DEF SeenType
<1>2. n \in SeenType
  BY SeenFields
<1> HIDE DEF n
<1>3. [n EXCEPT !.start = b] \in SeenType
  BY <1>2 DEF SeenType
<1>4. QED BY <1>1, <1>3

LEMMA SeenSaved ==
  ASSUME NEW m \in SeenType, NEW a \in Nat, NEW u \in Int, NEW r \in Seq(Nat)
  PROVE  [m EXCEPT !.saved = a, !.unreported = u, !.recorded = r] \in SeenType
<1> DEFINE n == [m EXCEPT !.saved = a]
           o == [n EXCEPT !.unreported = u]
<1>1. [m EXCEPT !.saved = a, !.unreported = u, !.recorded = r] = [o EXCEPT !.recorded = r]
  BY DEF SeenType
<1>2. n \in SeenType
  BY DEF SeenType
<1> HIDE DEF n
<1>3. o \in SeenType
  BY <1>2 DEF SeenType
<1> HIDE DEF o
<1>4. [o EXCEPT !.recorded = r] \in SeenType
  BY <1>3 DEF SeenType
<1>5. QED BY <1>1, <1>4

LEMMA SeenTypes ==
  ASSUME seen \in SeenType
  PROVE  /\ seen.saved \in Nat /\ seen.unreported \in Int /\ seen.intervals \in Nat
         /\ seen.start \in Nat /\ seen.raced \in Nat /\ seen.recorded \in Seq(Nat)
         /\ seen.by \in {"none", "time", "bytes", "client"}
BY DEF SeenType

LEMMA FirstTypes ==
  ASSUME NEW a \in Nat
  PROVE  /\ NothingSeen \in SeenType
         /\ [NothingSeen EXCEPT !.start = a] \in SeenType
<1>1. <<>> \in Seq(Nat)
  OBVIOUS
<1>2. NothingSeen \in SeenType
  BY <1>1 DEF NothingSeen, SeenType
<1>3. QED
  BY <1>2 DEF SeenType

LEMMA InitData == Init => Data
<1> SUFFICES ASSUME Init PROVE Data
  OBVIOUS
<1>1. seen \in SeenType
  BY FirstTypes DEF Init
<1>2. clock \in Times
  BY TimeAssumption DEF Init, Times
<1>3. rate.index \in 0..(setting.periods - 1)
  BY SettingFields DEF Init, NoRate
<1>4. tests \in 0..Tests
  BY MeasurementAssumption DEF Init
<1>5. rp \in [bytes : Nat, omit : Nat, interval : Nat] /\ rp.omit = 0 /\ rp.bytes = 0
  BY DEF Init
<1>6. temp \in [bytes : Nat, total : Nat]
  BY DEF Init
<1>7. /\ setting \in Settings /\ testBytes \in Nat /\ ~omitting
      /\ done \in BOOLEAN /\ omitting \in BOOLEAN /\ ctrl \in BOOLEAN
      /\ worker \in {"stopped", "ready", "stream", "interval"}
  BY DEF Init
<1>8. QED
  BY <1>1, <1>2, <1>3, <1>4, <1>5, <1>6, <1>7 DEF Data

LEMMA RingStep ==
  ASSUME Data, NEW b
  PROVE  CheckTotalRate(b).index \in 0..(setting.periods - 1)
<1>1. rate.index \in 0..(setting.periods - 1) /\ setting.periods \in Nat \ {0}
  BY SettingFields DEF Data
<1>2. NextIndex(rate.index) \in 0..(setting.periods - 1)
  BY <1>1 DEF NextIndex
<1>3. CASE done \/ setting.limit = 0 \/ setting.role # "s"
  BY <1>1, <1>3 DEF CheckTotalRate
<1>4. CASE ~ (done \/ setting.limit = 0 \/ setting.role # "s")
  BY <1>2, <1>4 DEF CheckTotalRate
<1>5. QED
  BY <1>3, <1>4

LEMMA CallData == ASSUME TimerInv, Call PROVE Data'
<1>1. Data /\ UNCHANGED <<setting, tests, clock, temp, rp, testBytes, rate>>
  BY DEF TimerInv, Call, env
<1>2. /\ done' \in BOOLEAN /\ omitting' \in BOOLEAN /\ ctrl' \in BOOLEAN
      /\ worker' \in {"stopped", "ready", "stream", "interval"}
      /\ omitting' => omitting
      /\ seen' \in SeenType
  <2>1. CASE TestTimerProc
    <3>1. [seen EXCEPT !.by = "time"] \in SeenType
      BY <1>1, SeenFields, Zenon DEF Data
    <3>2. QED BY <1>1, <2>1, <3>1
            DEF TestTimerProc, ClientTimer, ServerTimer, ServerTimerLate, Data
  <2>2. CASE StatsTimerProc
    <3>1. seen.intervals + 1 \in Nat
      BY <1>1, SeenTypes DEF Data
    <3>2. [seen EXCEPT !.intervals = @ + 1] \in SeenType
      BY <1>1, <3>1, SeenFields DEF Data
    <3>3. QED BY <1>1, <2>2, <3>2 DEF StatsTimerProc, flags, Data
  <2>3. CASE ReporterTimerProc
    <3>1. seen.unreported - 1 \in Int
      BY <1>1, SeenTypes DEF Data
    <3>2. [seen EXCEPT !.unreported = @ - 1] \in SeenType
      BY <1>1, <3>1, SeenFields DEF Data
    <3>3. QED BY <1>1, <2>3, <3>2 DEF ReporterTimerProc, flags, Data
  <2>4. CASE OmitTimerProc
    <3>1. run.now \in Times
      BY DEF TimerInv, RunOK
    <3>2. InUsecs(run.now) \in Nat
      BY <3>1, Fields
    <3>3. [seen EXCEPT !.intervals = 0, !.start = InUsecs(run.now)] \in SeenType
      BY <1>1, <3>2, SeenRestarted DEF Data
    <3>4. QED BY <1>1, <2>4, <3>3 DEF OmitTimerProc, Data
  <2>5. QED BY <2>1, <2>2, <2>3, <2>4 DEF Call
<1>3. QED BY <1>1, <1>2 DEF Data

LEMMA SaveData == ASSUME TimerInv, SaveInterval PROVE Data'
<1>1. Data /\ UNCHANGED <<setting, tests, clock, done, omitting, ctrl, worker, testBytes>>
  BY DEF TimerInv, SaveInterval, env, flags
<1>2. seen.saved \in Nat /\ seen.unreported \in Int /\ seen.recorded \in Seq(Nat)
  BY <1>1, SeenTypes DEF Data
<1>3. temp.bytes \in Nat /\ temp.total \in Nat
  BY <1>1 DEF Data
<1>4. seen' \in SeenType
  <2> DEFINE a == IF omitting THEN seen.saved ELSE seen.saved + temp.bytes
             u == seen.unreported + 1
             r == IF done \/ setting.limit = 0 THEN seen.recorded
                  ELSE Append(seen.recorded, temp.total)
  <2>1. a \in Nat /\ u \in Int
    BY <1>2, <1>3
  <2>2. r \in Seq(Nat)
    BY <1>2, <1>3, AppendProperties
  <2>3. seen' = [seen EXCEPT !.saved = a, !.unreported = u, !.recorded = r]
    BY DEF SaveInterval
  <2> HIDE DEF a, u, r
  <2>4. seen \in SeenType
    BY <1>1 DEF Data
  <2>5. QED BY <2>1, <2>2, <2>3, <2>4, SeenSaved
<1>5. /\ rp' \in [bytes : Nat, omit : Nat, interval : Nat]
      /\ rp'.bytes = rp.bytes /\ rp'.omit = rp.omit
  BY <1>1 DEF SaveInterval, IntervalZero, Data
<1>6. rate'.index \in 0..(setting.periods - 1)
  BY <1>1, RingStep DEF SaveInterval
<1>7. temp' \in [bytes : Nat, total : Nat]
  BY DEF SaveInterval
<1>8. QED BY <1>1, <1>4, <1>5, <1>6, <1>7 DEF Data

(* The steps that change seen only by setting its field by.                *)
LEMMA ByData ==
  ASSUME Data, UNCHANGED <<setting, tests, clock, omitting, ctrl, worker, rp, testBytes, rate, temp>>,
         done' \in BOOLEAN,
         \/ seen' = seen
         \/ \E by \in {"time", "bytes", "client"} : seen' = [seen EXCEPT !.by = by]
         \/ seen' = [seen EXCEPT !.by = IF done THEN @ ELSE "bytes"]
  PROVE  Data'
<1>1. seen \in SeenType /\ seen.by \in {"none", "time", "bytes", "client"}
  BY SeenTypes DEF Data
<1>2. PICK by \in {"none", "time", "bytes", "client"} :
        seen' = seen \/ seen' = [seen EXCEPT !.by = by]
  BY <1>1
<1>3. seen' \in SeenType
  BY <1>1, <1>2, SeenFields
<1>4. QED BY <1>3 DEF Data

LEMMA DataStep == ASSUME TimerInv, [Next]_vars PROVE Data'
<1>1. Data /\ seen \in SeenType /\ clock \in Times /\ setting \in Settings
  BY DEF TimerInv, Data
<1>2. CASE CreateTimers
  <2>1. tests' \in 0..Tests
    BY <1>1, <1>2, MeasurementAssumption DEF CreateTimers, Data
  <2>2. InUsecs(clock) \in Nat
    BY <1>1, Fields
  <2>3. seen' \in SeenType
    BY <1>2, <2>2, FirstTypes DEF CreateTimers
  <2>4. rate'.index = 0
    BY <1>2 DEF CreateTimers, NoRate
  <2>5. rp' \in [bytes : Nat, omit : Nat, interval : Nat] /\ rp'.omit = 0 /\ rp'.bytes = 0
    BY <1>2 DEF CreateTimers
  <2>6. testBytes' = 0 /\ done' \in BOOLEAN /\ ctrl' \in BOOLEAN
        /\ UNCHANGED <<setting, clock, temp, omitting, worker>>
    BY <1>2 DEF CreateTimers
  <2>7. QED BY <1>1, <2>1, <2>3, <2>4, <2>5, <2>6, SettingFields DEF Data
<1>3. CASE CreateTimer
  BY <1>1, <1>3 DEF CreateTimer, env, flags, counters, results, Data
<1>4. CASE CreateOmitTimer
  BY <1>1, <1>4 DEF CreateOmitTimer, env, callback, results, Data
<1>5. CASE Select
  BY <1>1, <1>5, ByData DEF Select, env, callback, flags, counters, results, Data
<1>6. CASE Call
  BY <1>6, CallData
<1>7. CASE Return
  BY <1>1, <1>7 DEF Return, env, callback, flags, counters, results, Data
<1>8. CASE ReadInterval
  <2>1. temp' \in [bytes : Nat, total : Nat]
    BY <1>1, <1>8 DEF ReadInterval, Data
  <2>2. QED BY <1>1, <1>8, <2>1 DEF ReadInterval, env, flags, counters, results, Data
<1>9. CASE ReadTotal
  <2>1. temp' \in [bytes : Nat, total : Nat]
    BY <1>1, <1>9 DEF ReadTotal, Data
  <2>2. QED BY <1>1, <1>9, <2>1 DEF ReadTotal, env, flags, counters, results, Data
<1>10. CASE SaveInterval
  BY <1>10, SaveData
<1>11. CASE ZeroTestBytes
  BY <1>1, <1>11 DEF ZeroTestBytes, TestBytesReset, env, flags, results, Data
<1>12. CASE OmitBytes
  <2>1. /\ rp' \in [bytes : Nat, omit : Nat, interval : Nat]
        /\ rp'.omit <= rp'.bytes
        /\ ~ setting.sender => rp'.omit = 0
    BY <1>1, <1>12 DEF OmitBytes, Data
  <2>2. QED BY <1>1, <1>12, <2>1 DEF OmitBytes, env, flags, results, Data
<1>13. CASE ZeroInterval
  <2>1. /\ rp' \in [bytes : Nat, omit : Nat, interval : Nat]
        /\ rp'.omit = rp.omit /\ rp'.bytes = rp.bytes
    BY <1>1, <1>13 DEF ZeroInterval, Data
  <2>2. QED BY <1>1, <1>13, <2>1 DEF ZeroInterval, env, flags, results, Data
<1>14. CASE \E s \in {"stats", "reporter"} : ResetTimer(s)
  BY <1>1, <1>14 DEF ResetTimer, env, flags, counters, results, Data
<1>15. CASE CheckClient
  BY <1>1, <1>15, ByData DEF CheckClient, env, callback, flags, counters, Data
<1>16. CASE WakeToCheck
  BY <1>1, <1>16, ByData DEF WakeToCheck, env, callback, flags, counters, Data
<1>17. CASE JoinSender
  BY <1>1, <1>17 DEF JoinSender, env, results, Data
<1>18. CASE CheckServer
  BY <1>1, <1>18, ByData DEF CheckServer, env, callback, flags, counters, results, Data
<1>19. CASE HandleTestEnd
  BY <1>1, <1>19, ByData DEF HandleTestEnd, env, counters, Data
<1>20. CASE HandleDone
  BY <1>1, <1>20, ByData DEF HandleDone, env, callback, flags, counters, results, Data
<1>21. CASE LastReport
  <2>1. seen.unreported - 1 \in Int
    BY <1>1, SeenTypes
  <2>2. seen' \in SeenType
    BY <1>1, <1>21, <2>1, SeenFields DEF LastReport
  <2>3. QED BY <1>1, <1>21, <2>2 DEF LastReport, env, callback, flags, counters, Data
<1>22. CASE Cleanup
  BY <1>1, <1>22 DEF Cleanup, env, callback, flags, results, Data
<1>23. CASE CountStream
  <2>1. /\ rp' \in [bytes : Nat, omit : Nat, interval : Nat]
        /\ rp'.omit = rp.omit /\ rp'.bytes = rp.bytes + 1
    BY <1>1, <1>23 DEF CountStream, Data
  <2>2. rp.omit \in Nat /\ rp.bytes \in Nat /\ rp.omit <= rp.bytes
    BY <1>1 DEF Data
  <2>3. rp'.omit <= rp'.bytes
    BY <2>1, <2>2
  <2>4. QED BY <1>1, <1>23, <2>1, <2>3 DEF CountStream, main, callback, flags, Data
<1>24. CASE CountInterval
  <2>1. /\ rp' \in [bytes : Nat, omit : Nat, interval : Nat]
        /\ rp'.omit = rp.omit /\ rp'.bytes = rp.bytes
    BY <1>1, <1>24 DEF CountInterval, Data
  <2>2. QED BY <1>1, <1>24, <2>1 DEF CountInterval, main, callback, flags, Data
<1>25. CASE CountTest
  <2>1. seen.raced \in Nat /\ seen.raced + 1 \in Nat
    BY <1>1, SeenTypes
  <2>2. seen' \in SeenType
    BY <1>1, <1>25, <2>1, SeenFields DEF CountTest
  <2>3. QED BY <1>1, <1>25, <2>2 DEF CountTest, main, callback, flags, Data
<1>26. CASE Tick
  <2>1. clock' \in Times
    BY <1>1, <1>26, AddInTimes DEF Tick
  <2>2. QED BY <1>1, <1>26, <2>1 DEF Tick, main, counters, callback, flags, Data
<1>27. CASE UNCHANGED vars
  BY <1>1, <1>27 DEF vars, env, flags, callback, counters, results, Data
<1>28. QED
  BY <1>2, <1>3, <1>4, <1>5, <1>6, <1>7, <1>8, <1>9, <1>10, <1>11, <1>12, <1>13, <1>14, <1>15,
     <1>16, <1>17, <1>18, <1>19, <1>20, <1>21, <1>22, <1>23, <1>24, <1>25, <1>26, <1>27
     DEF Next, Main, Worker

----------------------------------------------------------------------------
(* The timers, step by step.                                               *)

LEMMA NoRunFacts ==
  ASSUME NEW v \in Times
  PROVE  /\ NoRun \in [now : Times, t : Nat, next : Nat] /\ NoRun.t = None /\ NoRun.next = None
         /\ [NoRun EXCEPT !.now = v] \in [now : Times, t : Nat, next : Nat]
         /\ [NoRun EXCEPT !.now = v].t = None /\ [NoRun EXCEPT !.now = v].next = None
         /\ [NoRun EXCEPT !.now = v].now = v
<1>1. [secs |-> 0, usecs |-> 0] \in Times
  BY TimeAssumption DEF Times
<1>2. QED
  BY <1>1 DEF NoRun, None

LEMMA InitTimers == Init => TimerInv
<1> SUFFICES ASSUME Init PROVE TimerInv
  OBVIOUS
<1>1. Data
  BY InitData
<1>2. tmr = [timers |-> <<>>, free |-> <<>>, heap |-> <<>>] /\ pc = "idle" /\ ops = <<>>
      /\ run = NoRun /\ slot = [s \in Slots |-> None]
  BY DEF Init, NoTimers
<1>3. Len(tmr.timers) = 0 /\ Len(tmr.free) = 0 /\ Len(tmr.heap) = 0
  BY <1>2
<1>4. TimersOK(tmr)
  <2>1. tmr \in [timers : Seq(Nat), free : Seq(Nat), heap : Seq(Objects)]
    BY <1>2
  <2>2. Typed(tmr)
    BY <1>3, <2>1 DEF Typed
  <2>3. Lists(tmr, {})
    BY <1>3 DEF Lists, Once, Contains
  <2>4. Sorted(tmr)
    BY <1>3, <2>2, SortedByTime
  <2>5. QED BY <1>3, <2>2, <2>3, <2>4 DEF TimersOK
<1>5. \A x : ~Active(x)
  BY <1>3 DEF Active, Contains
<1>6. HeapOK
  BY <1>3 DEF HeapOK
<1>7. SlotsOK
  BY <1>2, <1>5 DEF SlotsOK, None, Slots
<1>8. clock \in Times
  BY <1>1 DEF Data
<1>9. RunOK
  BY <1>2, <1>8, NoRunFacts DEF RunOK
<1>10. OpsOK
  BY <1>2 DEF OpsOK, PCs
<1>11. QED
  BY <1>1, <1>4, <1>6, <1>7, <1>9, <1>10 DEF TimerInv

(* A step of the main thread that leaves the lists and the slots alone and *)
(* is neither in nor goes to the creation of timers or a callback.         *)
LEMMA LoopMoves ==
  ASSUME TimerInv, Data', UNCHANGED <<setting, tmr, slot>>,
         pc \in {"loop", "visit", "join", "final", "ended"},
         pc' \in {"loop", "visit", "join", "final", "ended"},
         OpsOK', run' \in [now : Times, t : Nat, next : Nat], run'.next = None,
         run'.t # None => pc' = "visit" /\ Active(run'.t)
  PROVE  TimerInv'
<1>1. TimersOK(tmr)' /\ HeapOK' /\ \A x : Active(x)' <=> Active(x)
  BY ListsKept
<1>2. SlotsOK'
  BY <1>1 DEF TimerInv, SlotsOK
<1>3. Active(run.t)' <=> Active(run'.t)
  BY DEF Active
<1>4. RunOK'
  BY <1>3 DEF RunOK
<1>5. QED BY <1>1, <1>2, <1>4 DEF TimerInv

(* A step within a callback, or of the last interval.                      *)
LEMMA OpsMove ==
  ASSUME TimerInv, Data', UNCHANGED <<setting, tmr, slot, pc, run>>,
         pc \in {"call", "final"},
         pc = "final" => ops' \in StatsLeft,
         pc = "call" /\ Proc = "stats" => ops' \in StatsLeft,
         pc = "call" /\ Proc = "omit" => ops' \in ResetLeft,
         pc = "call" => Proc \in {"stats", "omit"}
  PROVE  TimerInv'
<1>1. TimersOK(tmr)' /\ HeapOK' /\ \A x : Active(x)' <=> Active(x)
  BY ListsKept
<1>2. Proc' = Proc
  BY DEF Proc
<1>3. SlotsOK'
  BY <1>1 DEF TimerInv, SlotsOK
<1>4. RunOK'
  BY <1>1, <1>2 DEF TimerInv, RunOK
<1>5. OpsOK'
  BY <1>2 DEF TimerInv, OpsOK
<1>6. QED BY <1>1, <1>3, <1>4, <1>5 DEF TimerInv

(* tmr_create, for a slot that is empty.                                   *)
LEMMA CreateFacts ==
  ASSUME TimerInv, NEW s \in Slots, NEW now \in Times, slot[s] = None, pc = "create",
         Create(s, now), setting' = setting
  PROVE  /\ TimersOK(tmr)' /\ HeapOK' /\ slot' \in [Slots -> Nat]
         /\ \A r \in Slots : r # s => slot'[r] = slot[r]
         /\ \A r \in Slots : slot'[r] # None =>
              Contains(tmr'.timers, slot'[r]) /\ tmr'.heap[slot'[r]].proc = r
         /\ \A x \in Nat : Contains(tmr'.timers, x) => slot'[tmr'.heap[x].proc] = x
         /\ slot'[s] = None <=> Periods[s] = 0
         /\ \A x : Active(x) => tmr'.heap[x] = tmr.heap[x]
         /\ \A x, y : Together(tmr, x, y) => Together(tmr', x, y)
         /\ slot'[s] # None =>
              /\ LastOf(tmr', slot'[s])
              /\ tmr'.heap[slot'[s]].time = AddUsecs(now, Periods[s])
              /\ \A x : LastOf(tmr, x) /\ tmr.heap[x].time = AddUsecs(now, Periods[s])
                        => Together(tmr', x, slot'[s])
<1>1. /\ TimersOK(tmr) /\ HeapOK /\ SlotsOK /\ setting \in Settings
  BY DEF TimerInv, Data
<1>2. /\ Periods \in [Slots -> Nat] /\ Period(s) = Periods[s] /\ Periods' = Periods
  BY <1>1, PeriodsType, PeriodsSame
<1>3. /\ slot \in [Slots -> Nat]
      /\ \A r \in Slots : slot[r] # None => Active(slot[r]) /\ tmr.heap[slot[r]].proc = r
      /\ \A x \in Nat : Active(x) => slot[tmr.heap[x].proc] = x
  BY <1>1 DEF SlotsOK
<1>4. \A x : Active(x) => x \in 1..Len(tmr.heap) /\ x \in Nat /\ x # None /\ tmr.heap[x].proc \in Slots
  BY <1>1, ActiveInHeap DEF Active, HeapOK
<1>5. CASE Periods[s] = 0
  <2>1. tmr' = tmr /\ slot' = [slot EXCEPT ![s] = None]
    BY <1>2, <1>5 DEF Create
  <2>2. slot' = slot
    BY <1>3, <2>1
  <2>3. HeapOK'
    BY <1>1, <1>2, <2>1 DEF HeapOK
  <2>4. QED BY <1>1, <1>3, <1>5, <2>1, <2>2, <2>3 DEF Active
<1>6. CASE Periods[s] # 0
  <2> DEFINE t == TmrNew(tmr)
             p == s \in {"stats", "reporter"}
  <2>1. slot' = [slot EXCEPT ![s] = t] /\ tmr' = TmrCreate(tmr, now, s, Periods[s], p)
    BY <1>2, <1>6 DEF Create
  <2>2. s \in Procs /\ Periods[s] \in Nat /\ p \in BOOLEAN
    <3>1. s \in Procs
      BY DEF Slots, Procs
    <3>2. Periods[s] \in Nat
      BY <1>2
    <3>3. p \in BOOLEAN
      OBVIOUS
    <3>4. QED BY <3>1, <3>2, <3>3, Zenon
  <2> HIDE DEF t, p
  <2>3. /\ TimersOK(tmr')
        /\ Len(tmr.heap) <= Len(tmr'.heap) /\ t \in 1..Len(tmr'.heap)
        /\ ~Contains(tmr.timers, t)
        /\ \A x \in 1..Len(tmr'.heap) : x # t =>
             x \in 1..Len(tmr.heap) /\ tmr'.heap[x] = tmr.heap[x]
        /\ tmr'.heap[t] = [proc |-> s, time |-> AddUsecs(now, Periods[s]),
                           usecs |-> Periods[s], periodic |-> p]
        /\ \A x : Contains(tmr'.timers, x) <=> x = t \/ Contains(tmr.timers, x)
        /\ LastOf(tmr', t)
        /\ \A x, y : Together(tmr, x, y) => Together(tmr', x, y)
        /\ \A x : LastOf(tmr, x) /\ tmr.heap[x].time = AddUsecs(now, Periods[s])
                  => Together(tmr', x, t)
    <3>1. PICK q \in BOOLEAN : q = p
      BY <2>2
    <3>2. tmr' = TmrCreate(tmr, now, s, Periods[s], q) /\ t = TmrNew(tmr)
      BY <2>1, <3>1 DEF t
    <3>3. Creates(tmr, now, s, Periods[s], q, tmr', t)
      BY <1>1, <2>2, <3>2, CreateKeeps
    <3>4. QED BY <3>1, <3>3 DEF Creates
  <2>4. Contains(tmr'.timers, t) /\ t \in Nat /\ t # None
    BY <2>3, ActiveInHeap
  <2>5. /\ slot' \in [Slots -> Nat] /\ slot'[s] = t
        /\ \A r \in Slots : r # s => slot'[r] = slot[r]
    BY <1>3, <2>1, <2>4
  <2>6. \A x : Active(x) => x # t /\ x \in 1..Len(tmr'.heap) /\ tmr'.heap[x] = tmr.heap[x]
    <3>1. \A x : Active(x) => x # t /\ Contains(tmr'.timers, x)
      BY <2>3 DEF Active
    <3>2. \A x : Active(x) => x \in 1..Len(tmr'.heap)
      BY <2>3, <3>1, ActiveInHeap
    <3>3. QED BY <2>3, <3>1, <3>2
  <2>7. /\ tmr'.heap[t].proc = s /\ tmr'.heap[t].time = AddUsecs(now, Periods[s])
        /\ tmr'.heap[t].usecs = Periods[s] /\ tmr'.heap[t].periodic = (s \in Periodic)
    BY <2>3 DEF p, Periodic
  <2>8. HeapOK'
    <3> SUFFICES ASSUME NEW x \in 1..Len(tmr'.heap)
                 PROVE  /\ tmr'.heap[x].proc \in Slots
                        /\ tmr'.heap[x].periodic = (tmr'.heap[x].proc \in Periodic)
                        /\ tmr'.heap[x].usecs = Periods'[tmr'.heap[x].proc]
                        /\ tmr'.heap[x].usecs # 0
      BY DEF HeapOK
    <3>1. CASE x = t
      BY <1>2, <1>6, <2>7, <3>1
    <3>2. CASE x # t
      <4>1. x \in 1..Len(tmr.heap) /\ tmr'.heap[x] = tmr.heap[x]
        BY <2>3, <3>2
      <4>2. QED BY <1>1, <1>2, <4>1 DEF HeapOK
    <3>3. QED BY <3>1, <3>2
  <2>9. ASSUME NEW r \in Slots, slot'[r] # None
        PROVE  Contains(tmr'.timers, slot'[r]) /\ tmr'.heap[slot'[r]].proc = r
    <3>1. CASE r = s
      BY <2>4, <2>5, <2>7, <3>1
    <3>2. CASE r # s
      <4>1. slot'[r] = slot[r] /\ Active(slot[r]) /\ tmr.heap[slot[r]].proc = r
        BY <1>3, <2>5, <2>9, <3>2
      <4>2. QED BY <2>3, <2>6, <4>1 DEF Active
    <3>3. QED BY <3>1, <3>2
  <2>10. ASSUME NEW x \in Nat, Contains(tmr'.timers, x) PROVE slot'[tmr'.heap[x].proc] = x
    <3>1. CASE x = t
      BY <2>5, <2>7, <3>1
    <3>2. CASE x # t
      <4>1. Active(x)
        BY <2>3, <2>10, <3>2 DEF Active
      <4>2. slot[tmr.heap[x].proc] = x /\ tmr'.heap[x] = tmr.heap[x] /\ x # None
            /\ tmr.heap[x].proc \in Slots
        BY <1>3, <1>4, <2>6, <4>1
      <4>3. tmr.heap[x].proc # s
        BY <4>2
      <4>4. QED BY <2>5, <4>2, <4>3
    <3>3. QED BY <3>1, <3>2
  <2>11. QED
    BY <1>6, <2>3, <2>4, <2>5, <2>6, <2>7, <2>8, <2>9, <2>10
<1>7. QED BY <1>5, <1>6

(* list_resort leaves everything but the time of the timer as it is.       *)
LEMMA ResortFacts ==
  ASSUME TimerInv, NEW t \in Nat, Active(t), NEW v \in Times, setting' = setting,
         Resorts(tmr, t, v, tmr')
  PROVE  /\ TimersOK(tmr)' /\ HeapOK'
         /\ \A x : Contains(tmr'.timers, x) <=> Active(x)
         /\ \A x \in 1..Len(tmr.heap) : tmr'.heap[x].proc = tmr.heap[x].proc
<1>1. TimersOK(tmr) /\ HeapOK /\ Periods' = Periods
  BY PeriodsSame DEF TimerInv
<1>2. t \in 1..Len(tmr.heap)
  BY <1>1, ActiveInHeap DEF Active
<1>3. /\ TimersOK(tmr') /\ Len(tmr'.heap) = Len(tmr.heap)
      /\ \A x : Contains(tmr'.timers, x) <=> Active(x)
  BY DEF Resorts, Active
<1>4. \A x \in 1..Len(tmr.heap) : /\ tmr'.heap[x].proc = tmr.heap[x].proc
                                  /\ tmr'.heap[x].usecs = tmr.heap[x].usecs
                                  /\ tmr'.heap[x].periodic = tmr.heap[x].periodic
  BY DEF Resorts, SameObject
<1>5. HeapOK'
  BY <1>1, <1>3, <1>4 DEF HeapOK
<1>6. QED
  BY <1>3, <1>4, <1>5

(* The end of the loop of tmr_run.                                         *)
LEMMA ReturnFacts ==
  ASSUME TimerInv, Return
  PROVE  /\ run' \in [now : Times, t : Nat, next : Nat]
         /\ run'.now = run.now /\ run'.t = run.next /\ run'.next = None
         /\ Proc \in Periodic =>
              /\ AddUsecs(tmr.heap[run.t].time, Periods[Proc]) \in Times
              /\ Resorts(tmr, run.t, AddUsecs(tmr.heap[run.t].time, Periods[Proc]), tmr')
         /\ Proc \notin Periodic =>
              /\ tmr' = TmrCancel(tmr, run.t) /\ TimersOK(tmr') /\ tmr'.heap = tmr.heap
              /\ \A x : Contains(tmr'.timers, x) <=> x # run.t /\ Active(x)
              /\ \A x, y : x # run.t /\ y # run.t /\ Together(tmr, x, y) => Together(tmr', x, y)
<1>1. /\ TimersOK(tmr) /\ HeapOK /\ setting \in Settings /\ pc = "call"
      /\ run \in [now : Times, t : Nat, next : Nat]
      /\ run.t \in Nat /\ run.next \in Nat /\ Active(run.t)
  BY DEF TimerInv, RunOK, Data, Return
<1>2. /\ run' \in [now : Times, t : Nat, next : Nat]
      /\ run'.now = run.now /\ run'.t = run.next /\ run'.next = None
  <2> DEFINE r == [run EXCEPT !.t = run.next]
  <2>1. run' = [r EXCEPT !.next = None]
    BY <1>1 DEF Return
  <2>2. r \in [now : Times, t : Nat, next : Nat] /\ r.now = run.now /\ r.t = run.next
    BY <1>1
  <2> HIDE DEF r
  <2>3. QED BY <2>1, <2>2 DEF None
<1>3. /\ run.t \in 1..Len(tmr.heap) /\ tmr' = Rescheduled(tmr, run.t)
      /\ tmr.heap[run.t].periodic = (Proc \in Periodic)
      /\ tmr.heap[run.t].usecs = Periods[Proc] /\ Proc \in Slots
      /\ tmr.heap[run.t].time \in Times
  <2>1. run.t \in 1..Len(tmr.heap)
    BY <1>1, ActiveInHeap DEF Active
  <2>2. tmr.heap[run.t].time \in Times
    BY <1>1, <2>1, TypedFacts DEF TimersOK
  <2>3. QED BY <1>1, <2>1, <2>2 DEF HeapOK, Proc, Return
<1>4. ASSUME Proc \in Periodic
      PROVE  /\ AddUsecs(tmr.heap[run.t].time, Periods[Proc]) \in Times
             /\ Resorts(tmr, run.t, AddUsecs(tmr.heap[run.t].time, Periods[Proc]), tmr')
  <2> DEFINE v == AddUsecs(tmr.heap[run.t].time, Periods[Proc])
  <2>1. Periods[Proc] \in Nat
    BY <1>1, <1>3, PeriodsType
  <2>2. v \in Times
    BY <1>3, <2>1, AddInTimes
  <2>3. tmr' = ListResort([tmr EXCEPT !.heap[run.t].time = v], run.t)
    <3>1. tmr \in [timers : Seq(Nat), free : Seq(Nat), heap : Seq(Objects)]
      BY <1>1 DEF TimersOK, Typed
    <3>2. tmr' = ListResort([tmr EXCEPT !.heap[run.t].time = AddUsecs(@, tmr.heap[run.t].usecs)], run.t)
      BY <1>3, <1>4 DEF Rescheduled
    <3>3. QED BY <1>3, <3>1, <3>2
  <2> HIDE DEF v
  <2>4. Resorts(tmr, run.t, v, tmr')
    BY <1>1, <2>2, <2>3, ResortKeeps DEF Active
  <2>5. QED BY <2>2, <2>4 DEF v
<1>5. ASSUME Proc \notin Periodic
      PROVE  /\ tmr' = TmrCancel(tmr, run.t) /\ TimersOK(tmr') /\ tmr'.heap = tmr.heap
             /\ \A x : Contains(tmr'.timers, x) <=> x # run.t /\ Active(x)
             /\ \A x, y : x # run.t /\ y # run.t /\ Together(tmr, x, y) => Together(tmr', x, y)
  <2>1. tmr' = TmrCancel(tmr, run.t)
    BY <1>3, <1>5 DEF Rescheduled
  <2>2. /\ TimersOK(TmrCancel(tmr, run.t)) /\ TmrCancel(tmr, run.t).heap = tmr.heap
        /\ \A x : Contains(TmrCancel(tmr, run.t).timers, x) <=> x # run.t /\ Active(x)
    BY <1>1, CancelKeeps DEF Active
  <2>3. \A x, y : x # run.t /\ y # run.t /\ Together(tmr, x, y)
                  => Together(TmrCancel(tmr, run.t), x, y)
    BY <1>1, CancelApart DEF Active
  <2>4. QED BY <2>1, <2>2, <2>3
<1>6. QED
  BY <1>2, <1>4, <1>5

LEMMA ReturnKeeps == ASSUME TimerInv, Return, Data' PROVE TimerInv'
<1>1. /\ TimersOK(tmr) /\ HeapOK /\ SlotsOK /\ RunOK /\ pc = "call" /\ pc' = "visit"
      /\ UNCHANGED <<setting, slot, ops>> /\ ops = <<>> /\ Proc \in Slots
  BY ProcInSlots DEF TimerInv, Return, env, callback
<1>2. /\ run' \in [now : Times, t : Nat, next : Nat]
      /\ run'.t = run.next /\ run'.next = None
  BY ReturnFacts
<1>3. /\ run.t \in Nat /\ run.next \in Nat /\ Active(run.t)
      /\ run.next # None => Active(run.next) /\ run.next # run.t
      /\ Proc \in Periodic => slot[Proc] = run.t
      /\ Proc \notin Periodic => slot[Proc] = None
  BY <1>1 DEF RunOK
<1>4. OpsOK'
  BY <1>1 DEF OpsOK, PCs
<1>5. CASE Proc \in Periodic
  <2> DEFINE v == AddUsecs(tmr.heap[run.t].time, Periods[Proc])
  <2>1. v \in Times /\ Resorts(tmr, run.t, v, tmr')
    BY <1>5, ReturnFacts
  <2> HIDE DEF v
  <2>2. /\ TimersOK(tmr)' /\ HeapOK'
        /\ \A x : Contains(tmr'.timers, x) <=> Active(x)
        /\ \A x \in 1..Len(tmr.heap) : tmr'.heap[x].proc = tmr.heap[x].proc
    BY <1>1, <1>3, <2>1, ResortFacts
  <2>3. \A x \in Nat : Active(x) => x \in 1..Len(tmr.heap) /\ tmr'.heap[x].proc = tmr.heap[x].proc
    BY <2>2, ProcInSlots
  <2>4. RunOK'
    BY <1>1, <1>2, <1>3, <2>2 DEF RunOK, Active
  <2>5. SlotsOK'
    <3>1. \A x \in Nat : Active(x) => slot[tmr.heap[x].proc] = x
      BY <1>1, <1>3, <1>5 DEF SlotsOK, Proc
    <3>2. \A s \in Slots : slot'[s] # None =>
            Contains(tmr'.timers, slot'[s]) /\ tmr'.heap[slot'[s]].proc = s
      BY <1>1, <2>2, <2>3 DEF SlotsOK
    <3>3. \A x \in Nat : Contains(tmr'.timers, x) => slot'[tmr'.heap[x].proc] = x
      BY <1>1, <2>2, <2>3, <3>1
    <3>4. QED BY <1>1, <3>2, <3>3 DEF SlotsOK, Active
  <2>6. QED BY <1>4, <2>2, <2>4, <2>5 DEF TimerInv
<1>6. CASE Proc \notin Periodic
  <2>1. /\ TimersOK(tmr') /\ tmr'.heap = tmr.heap
        /\ \A x : Contains(tmr'.timers, x) <=> x # run.t /\ Active(x)
    BY <1>6, ReturnFacts
  <2>2. HeapOK'
    BY <1>1, <2>1, PeriodsSame DEF HeapOK
  <2>3. RunOK'
    BY <1>1, <1>2, <1>3, <2>1 DEF RunOK, Active
  <2>4. SlotsOK'
    <3>1. \A s \in Slots : slot[s] # None => slot[s] # run.t
      BY <1>1, <1>3, <1>6 DEF SlotsOK, Proc
    <3>2. QED BY <1>1, <2>1, <3>1 DEF SlotsOK, Active
  <2>5. QED BY <1>4, <2>1, <2>2, <2>3, <2>4 DEF TimerInv
<1>7. QED BY <1>5, <1>6

LEMMA ResetKeeps == ASSUME TimerInv, NEW s \in {"stats", "reporter"}, ResetTimer(s), Data'
                    PROVE  /\ TimerInv'
                           /\ slot[s] # None =>
                                /\ AddUsecs(run.now, Periods[s]) \in Times
                                /\ Resorts(tmr, slot[s], AddUsecs(run.now, Periods[s]), tmr')
<1>1. /\ TimersOK(tmr) /\ HeapOK /\ SlotsOK /\ RunOK /\ setting \in Settings
      /\ UNCHANGED <<setting, slot, pc, run>> /\ Doing(s)
  BY DEF TimerInv, Data, ResetTimer, env, loop
<1>2. /\ pc = "call" /\ Proc = "omit" /\ ops' \in ResetLeft
  BY <1>1, DoingReset
<1>3. CASE slot[s] = None
  <2>1. tmr' = tmr
    BY <1>3 DEF ResetTimer
  <2>2. QED BY <1>1, <1>2, <1>3, <2>1, OpsMove
<1>4. CASE slot[s] # None
  <2> DEFINE t == slot[s]
             v == AddUsecs(run.now, Periods[s])
  <2>1. s \in Slots /\ t \in Nat /\ Active(t) /\ tmr.heap[t].proc = s /\ t \in 1..Len(tmr.heap)
    <3>1. s \in Slots
      BY DEF Slots
    <3>2. slot[s] \in Nat /\ Active(slot[s]) /\ tmr.heap[slot[s]].proc = s
      BY <1>1, <1>4, <3>1 DEF SlotsOK
    <3>3. QED BY <1>1, <3>1, <3>2, ActiveInHeap DEF Active
  <2>2. v \in Times
    <3>1. Periods[s] \in Nat /\ run.now \in Times
      BY <1>1, <2>1, PeriodsType DEF RunOK
    <3>2. QED BY <3>1, AddInTimes
  <2>3. tmr' = ListResort([tmr EXCEPT !.heap[t].time = v], t)
    <3>1. tmr.heap[t].usecs = Periods[s]
      BY <1>1, <2>1 DEF HeapOK
    <3>2. tmr' = TmrReset(tmr, run.now, t)
      BY <1>4 DEF ResetTimer
    <3>3. QED BY <3>1, <3>2 DEF TmrReset
  <2> HIDE DEF t, v
  <2>4. Resorts(tmr, t, v, tmr')
    BY <1>1, <2>1, <2>2, <2>3, ResortKeeps DEF Active
  <2>5. /\ TimersOK(tmr)' /\ HeapOK'
        /\ \A x : Contains(tmr'.timers, x) <=> Active(x)
        /\ \A x \in 1..Len(tmr.heap) : tmr'.heap[x].proc = tmr.heap[x].proc
    BY <1>1, <2>1, <2>2, <2>4, ResortFacts
  <2>6. \A x \in Nat : Active(x) => x \in 1..Len(tmr.heap) /\ tmr'.heap[x].proc = tmr.heap[x].proc
    BY <2>5, ProcInSlots
  <2>7. run.t \in Nat /\ Active(run.t) /\ Proc' = Proc
    BY <1>1, <1>2, <2>6 DEF RunOK, Proc
  <2>8. RunOK'
    BY <1>1, <1>2, <2>5, <2>7 DEF RunOK, Active
  <2>9. SlotsOK'
    <3>1. \A r \in Slots : slot'[r] # None =>
            Contains(tmr'.timers, slot'[r]) /\ tmr'.heap[slot'[r]].proc = r
      BY <1>1, <2>5, <2>6 DEF SlotsOK
    <3>2. \A x \in Nat : Contains(tmr'.timers, x) => slot'[tmr'.heap[x].proc] = x \/ x = run.t
      BY <1>1, <2>5, <2>6 DEF SlotsOK
    <3>3. QED BY <1>1, <1>2, <3>1, <3>2 DEF SlotsOK, Active
  <2>10. OpsOK'
    BY <1>1, <1>2, <2>7 DEF OpsOK, PCs
  <2>11. QED BY <2>2, <2>4, <2>5, <2>8, <2>9, <2>10 DEF TimerInv, t, v
<1>5. QED BY <1>3, <1>4

LEMMA CallKeeps == ASSUME TimerInv, Call, Data' PROVE TimerInv'
<1>1. /\ TimersOK(tmr) /\ HeapOK /\ SlotsOK /\ RunOK /\ OpsOK /\ pc = "visit" /\ pc' = "call"
      /\ UNCHANGED <<setting, tmr>> /\ run.t # None
      /\ run' = [run EXCEPT !.next = NextOf(tmr, run.t)]
  BY DEF TimerInv, Call, env
<1>2. /\ run \in [now : Times, t : Nat, next : Nat] /\ run.t \in Nat /\ Active(run.t)
      /\ run.t \in 1..Len(tmr.heap) /\ Proc \in Slots
  <2>1. run \in [now : Times, t : Nat, next : Nat] /\ run.t \in Nat /\ Active(run.t)
    BY <1>1 DEF RunOK
  <2>2. QED BY <2>1, ProcInSlots DEF Proc
<1>3. /\ NextOf(tmr, run.t) \in Nat
      /\ NextOf(tmr, run.t) # None =>
           Active(NextOf(tmr, run.t)) /\ NextOf(tmr, run.t) # run.t
  BY <1>1, <1>2, NextActive DEF Active
<1>4. /\ run' \in [now : Times, t : Nat, next : Nat] /\ run'.t = run.t
      /\ run'.next = NextOf(tmr, run.t)
  <2> DEFINE n == NextOf(tmr, run.t)
  <2>1. n \in Nat /\ run' = [run EXCEPT !.next = n]
    BY <1>1, <1>3
  <2> HIDE DEF n
  <2>2. run' \in [now : Times, t : Nat, next : Nat] /\ run'.t = run.t /\ run'.next = n
    BY <1>2, <2>1
  <2>3. QED BY <2>2 DEF n
<1>5. TimersOK(tmr)' /\ HeapOK' /\ (\A x : Active(x)' <=> Active(x)) /\ Proc' = Proc
  BY <1>1, <1>4, ListsKept DEF Proc
<1>6. slot[Proc] = run.t /\ slot \in [Slots -> Nat]
  BY <1>1, <1>2 DEF SlotsOK, Proc
<1>7. CASE Proc \in Periodic
  <2>1. slot' = slot
    BY <1>7 DEF Call, Proc, Periodic, StatsTimerProc, ReporterTimerProc
  <2>2. RunOK'
    BY <1>1, <1>2, <1>3, <1>4, <1>5, <1>6, <1>7, <2>1 DEF RunOK, Active
  <2>3. SlotsOK'
    BY <1>1, <1>5, <2>1 DEF SlotsOK, Active
  <2>4. OpsOK'
    BY <1>1, <1>5, <1>7, OpsLeft
       DEF Call, Proc, Periodic, StatsTimerProc, ReporterTimerProc, OpsOK, PCs
  <2>5. QED BY <1>5, <2>2, <2>3, <2>4 DEF TimerInv
<1>8. CASE Proc \notin Periodic
  <2>1. slot' = [slot EXCEPT ![Proc] = None]
    BY <1>2, <1>8 DEF Call, Proc, Periodic, Slots, TestTimerProc, OmitTimerProc
  <2>2. /\ slot' \in [Slots -> Nat] /\ slot'[Proc] = None
        /\ \A s \in Slots : s # Proc => slot'[s] = slot[s]
    BY <1>2, <1>6, <2>1 DEF None
  <2>3. RunOK'
    BY <1>1, <1>2, <1>3, <1>4, <1>5, <1>8, <2>2 DEF RunOK, Active
  <2>4. SlotsOK'
    <3>1. \A s \in Slots : slot'[s] # None => Active(slot'[s]) /\ tmr.heap[slot'[s]].proc = s
      BY <1>1, <2>2 DEF SlotsOK
    <3>2. ASSUME NEW x \in Nat, Active(x) PROVE slot'[tmr.heap[x].proc] = x \/ x = run.t
      <4>1. slot[tmr.heap[x].proc] = x /\ tmr.heap[x].proc \in Slots
        BY <1>1, <3>2, ProcInSlots DEF SlotsOK
      <4>2. QED BY <1>6, <2>2, <4>1
    <3>3. QED BY <1>1, <1>4, <2>2, <3>1, <3>2 DEF SlotsOK, Active
  <2>5. OpsOK'
    BY <1>1, <1>2, <1>5, <1>8, OpsLeft
       DEF Call, Proc, Periodic, Slots, TestTimerProc, OmitTimerProc, OpsOK, PCs
  <2>6. QED BY <1>5, <2>3, <2>4, <2>5 DEF TimerInv
<1>9. QED BY <1>7, <1>8

LEMMA BeginKeeps == ASSUME TimerInv, CreateTimers, Data' PROVE TimerInv'
<1>1. /\ SlotsOK /\ pc = "idle" /\ pc' = "create" /\ UNCHANGED <<setting, tmr, slot>>
      /\ ops' = CreateOrder /\ clock \in Times /\ run' = [NoRun EXCEPT !.now = clock]
  BY DEF TimerInv, Data, CreateTimers, timers
<1>2. TimersOK(tmr)' /\ HeapOK' /\ (\A x : Active(x)' <=> Active(x))
  BY <1>1, ListsKept
<1>3. /\ run' \in [now : Times, t : Nat, next : Nat] /\ run'.t = None /\ run'.next = None
  BY <1>1, NoRunFacts
<1>4. RunOK'
  BY <1>1, <1>3 DEF RunOK
<1>5. SlotsOK'
  BY <1>1, <1>2 DEF SlotsOK, Slots
<1>6. OpsOK'
  BY <1>1, OpsLeft DEF OpsOK, PCs
<1>7. QED BY <1>2, <1>4, <1>5, <1>6 DEF TimerInv

LEMMA CreateKept == ASSUME TimerInv, CreateTimer, Data' PROVE TimerInv'
<1>1. /\ SlotsOK /\ RunOK /\ OpsOK /\ pc = "create" /\ UNCHANGED <<setting, pc, run>>
      /\ ops # <<>> /\ ops' = Tail(ops) /\ Create(Head(ops), run.now) /\ run.now \in Times
  BY DEF TimerInv, RunOK, CreateTimer, env, loop
<1>2. /\ ops \in CreateLeft /\ ops' \in CreateLeft /\ NextOp(ops) = Head(ops)
      /\ NextOp(ops) = "timer" => NextOp(ops') = "stats"
      /\ NextOp(ops) = "stats" => NextOp(ops') = "reporter"
      /\ NextOp(ops) = "reporter" => NextOp(ops') = "none"
      /\ NextOp(ops) \in {"timer", "stats", "reporter"}
  BY <1>1, CreateTake, OpsLeft DEF OpsOK
<1> DEFINE s == NextOp(ops)
<1>3. s \in Slots /\ slot[s] = None /\ Create(s, run.now)
  BY <1>1, <1>2 DEF SlotsOK, Slots
<1> HIDE DEF s
<1>4. /\ TimersOK(tmr)' /\ HeapOK' /\ slot' \in [Slots -> Nat]
      /\ \A r \in Slots : r # s => slot'[r] = slot[r]
      /\ \A r \in Slots : slot'[r] # None =>
           Contains(tmr'.timers, slot'[r]) /\ tmr'.heap[slot'[r]].proc = r
      /\ \A x \in Nat : Contains(tmr'.timers, x) => slot'[tmr'.heap[x].proc] = x
  BY <1>1, <1>3, CreateFacts
<1>5. RunOK'
  BY <1>1 DEF RunOK
<1>6. SlotsOK'
  <2>1. /\ "omit" \in Slots /\ "stats" \in Slots /\ "reporter" \in Slots /\ "timer" \in Slots
        /\ s \in {"timer", "stats", "reporter"}
    BY <1>2 DEF s, Slots
  <2>2. /\ slot["omit"] = None
        /\ s \in {"timer", "stats"} => slot["stats"] = None
        /\ s \in {"timer", "stats", "reporter"} => slot["reporter"] = None
    BY <1>1, <1>2 DEF SlotsOK, s
  <2>3. slot'["omit"] = None
    BY <1>4, <2>1, <2>2
  <2>4. NextOp(ops') # "timer"
    BY <1>2
  <2>5. NextOp(ops') = "stats" => s = "timer"
    BY <1>2, <2>1 DEF s
  <2>6. NextOp(ops') # "none" => s # "reporter"
    BY <1>2 DEF s
  <2>7. /\ NextOp(ops') = "stats" => slot'["stats"] = None
        /\ NextOp(ops') # "none" => slot'["reporter"] = None
    BY <1>4, <2>1, <2>2, <2>5, <2>6
  <2>8. QED BY <1>1, <1>4, <2>3, <2>4, <2>7 DEF SlotsOK, Active
<1>7. OpsOK'
  BY <1>1, <1>2 DEF OpsOK
<1>8. QED BY <1>4, <1>5, <1>6, <1>7 DEF TimerInv

LEMMA CreateOmitKeeps == ASSUME TimerInv, CreateOmitTimer, Data' PROVE TimerInv'
<1>1. /\ SlotsOK /\ RunOK /\ OpsOK /\ pc = "create" /\ setting' = setting /\ pc' \in {"visit", "loop"}
      /\ ops' = ops /\ ops = <<>> /\ Create("omit", clock) /\ clock \in Times /\ run' = NoRun
  BY DEF TimerInv, Data, CreateOmitTimer, env, callback
<1>2. "omit" \in Slots /\ slot["omit"] = None
  BY <1>1 DEF SlotsOK, Slots
<1>3. /\ TimersOK(tmr)' /\ HeapOK' /\ slot' \in [Slots -> Nat]
      /\ \A r \in Slots : slot'[r] # None =>
           Contains(tmr'.timers, slot'[r]) /\ tmr'.heap[slot'[r]].proc = r
      /\ \A x \in Nat : Contains(tmr'.timers, x) => slot'[tmr'.heap[x].proc] = x
  BY <1>1, <1>2, CreateFacts
<1>4. run' \in [now : Times, t : Nat, next : Nat] /\ run'.t = None /\ run'.next = None
  BY <1>1, NoRunFacts
<1>5. RunOK'
  BY <1>1, <1>4 DEF RunOK
<1>6. SlotsOK'
  BY <1>1, <1>3 DEF SlotsOK, Active
<1>7. OpsOK'
  BY <1>1 DEF OpsOK, PCs
<1>8. QED BY <1>3, <1>5, <1>6, <1>7 DEF TimerInv

(* A timer that a slot names is cancelled.                                 *)
LEMMA CancelledFacts ==
  ASSUME NEW tm, TimersOK(tm), NEW s, slot[s] \in Nat, slot[s] # None => Contains(tm.timers, slot[s])
  PROVE  /\ TimersOK(Cancelled(tm, s)) /\ Cancelled(tm, s).heap = tm.heap
         /\ \A x : Contains(Cancelled(tm, s).timers, x) <=>
              Contains(tm.timers, x) /\ (slot[s] # None => x # slot[s])
<1>1. CASE slot[s] = None
  BY <1>1 DEF Cancelled
<1>2. CASE slot[s] # None
  <2>1. Cancelled(tm, s) = TmrCancel(tm, slot[s])
    BY <1>2 DEF Cancelled
  <2>2. /\ TimersOK(TmrCancel(tm, slot[s])) /\ TmrCancel(tm, slot[s]).heap = tm.heap
        /\ \A x : Contains(TmrCancel(tm, slot[s]).timers, x) <=>
                    x # slot[s] /\ Contains(tm.timers, x)
    BY <1>2, CancelKeeps
  <2>3. QED BY <1>2, <2>1, <2>2
<1>3. QED BY <1>1, <1>2

(* cleanup_server and iperf_free_test cancel every timer, each once.       *)
LEMMA CleanupKeeps == ASSUME TimerInv, Cleanup, Data' PROVE TimerInv'
<1>1. /\ TimersOK(tmr) /\ HeapOK /\ SlotsOK /\ RunOK /\ OpsOK /\ pc = "ended" /\ pc' = "idle"
      /\ UNCHANGED <<setting, run, ops>> /\ slot' = [s \in Slots |-> None]
  BY DEF TimerInv, Cleanup, env, callback
<1>2. /\ slot \in [Slots -> Nat]
      /\ \A s \in Slots : slot[s] # None => Active(slot[s]) /\ tmr.heap[slot[s]].proc = s
      /\ \A x \in Nat : Active(x) => slot[tmr.heap[x].proc] = x
  BY <1>1 DEF SlotsOK
<1>3. PICK a, b, c, d \in Slots :
        /\ Slots = {a, b, c, d}
        /\ a # b /\ a # c /\ a # d /\ b # c /\ b # d /\ c # d
        /\ tmr' = Cancelled(Cancelled(Cancelled(Cancelled(tmr, a), b), c), d)
  <2>1. CASE setting.role = "s"
    <3>1. /\ CancelOrder[1] = "stats" /\ CancelOrder[2] = "reporter"
          /\ CancelOrder[3] = "omit" /\ CancelOrder[4] = "timer"
      BY <2>1 DEF CancelOrder
    <3>2. tmr' = Cancelled(Cancelled(Cancelled(Cancelled(tmr, "stats"), "reporter"), "omit"), "timer")
      BY <3>1 DEF Cleanup
    <3>3. QED BY <3>2 DEF Slots
  <2>2. CASE setting.role # "s"
    <3>1. /\ CancelOrder[1] = "omit" /\ CancelOrder[2] = "timer"
          /\ CancelOrder[3] = "stats" /\ CancelOrder[4] = "reporter"
      BY <2>2 DEF CancelOrder
    <3>2. tmr' = Cancelled(Cancelled(Cancelled(Cancelled(tmr, "omit"), "timer"), "stats"), "reporter")
      BY <3>1 DEF Cleanup
    <3>3. QED BY <3>2 DEF Slots
  <2>3. QED BY <2>1, <2>2
<1> DEFINE t1 == Cancelled(tmr, a)
           t2 == Cancelled(t1, b)
           t3 == Cancelled(t2, c)
           t4 == Cancelled(t3, d)
<1>4. \A r, s \in Slots : r # s /\ slot[r] # None => slot[r] # slot[s]
  BY <1>2
<1>5. /\ TimersOK(t1) /\ t1.heap = tmr.heap
      /\ \A x : Contains(t1.timers, x) <=> Active(x) /\ (slot[a] # None => x # slot[a])
  BY <1>1, <1>2, CancelledFacts DEF Active
<1> HIDE DEF t1
<1>6. /\ TimersOK(t2) /\ t2.heap = tmr.heap
      /\ \A x : Contains(t2.timers, x) <=> Contains(t1.timers, x) /\ (slot[b] # None => x # slot[b])
  <2>1. slot[b] \in Nat /\ (slot[b] # None => Contains(t1.timers, slot[b]))
    BY <1>2, <1>3, <1>4, <1>5
  <2>2. QED BY <1>5, <2>1, CancelledFacts
<1> HIDE DEF t2
<1>7. /\ TimersOK(t3) /\ t3.heap = tmr.heap
      /\ \A x : Contains(t3.timers, x) <=> Contains(t2.timers, x) /\ (slot[c] # None => x # slot[c])
  <2>1. slot[c] \in Nat /\ (slot[c] # None => Contains(t2.timers, slot[c]))
    BY <1>2, <1>3, <1>4, <1>5, <1>6
  <2>2. QED BY <1>6, <2>1, CancelledFacts
<1> HIDE DEF t3
<1>8. /\ TimersOK(t4) /\ t4.heap = tmr.heap
      /\ \A x : Contains(t4.timers, x) <=> Contains(t3.timers, x) /\ (slot[d] # None => x # slot[d])
  <2>1. slot[d] \in Nat /\ (slot[d] # None => Contains(t3.timers, slot[d]))
    BY <1>2, <1>3, <1>4, <1>5, <1>6, <1>7
  <2>2. QED BY <1>7, <2>1, CancelledFacts
<1>9. tmr' = t4
  BY <1>3 DEF t1, t2, t3
<1> HIDE DEF t4
<1>10. \A x : ~Contains(t4.timers, x)
  <2> SUFFICES ASSUME NEW x, Contains(t4.timers, x) PROVE FALSE
    OBVIOUS
  <2>1. Active(x) /\ \A s \in Slots : slot[s] # None => x # slot[s]
    BY <1>3, <1>5, <1>6, <1>7, <1>8
  <2>2. x \in Nat /\ x # None
    BY <1>1, <2>1, ActiveInHeap DEF Active
  <2>3. slot[tmr.heap[x].proc] = x /\ tmr.heap[x].proc \in Slots
    BY <1>2, <2>1, <2>2, ProcInSlots
  <2>4. QED BY <2>1, <2>2, <2>3
<1>11. TimersOK(tmr)' /\ HeapOK'
  BY <1>1, <1>8, <1>9, PeriodsSame DEF HeapOK
<1>12. SlotsOK'
  BY <1>1, <1>9, <1>10 DEF SlotsOK, Active, None
<1>13. RunOK'
  BY <1>1 DEF RunOK
<1>14. OpsOK'
  BY <1>1 DEF OpsOK, PCs
<1>15. QED BY <1>11, <1>12, <1>13, <1>14 DEF TimerInv

LEMMA TimerStep == ASSUME TimerInv, [Next]_vars PROVE TimerInv'
<1>1. Data' /\ Data /\ OpsOK /\ RunOK /\ TimersOK(tmr)
  BY DataStep DEF TimerInv
<1>2. run \in [now : Times, t : Nat, next : Nat] /\ clock \in Times
      /\ NoRun \in [now : Times, t : Nat, next : Nat] /\ NoRun.t = None /\ NoRun.next = None
  BY <1>1, NoRunFacts DEF RunOK, Data
<1>3. CASE CreateTimers
  BY <1>1, <1>3, BeginKeeps
<1>4. CASE CreateTimer
  BY <1>1, <1>4, CreateKept
<1>5. CASE CreateOmitTimer
  BY <1>1, <1>5, CreateOmitKeeps
<1>6. CASE Select
  <2>1. /\ pc = "loop" /\ pc' = "visit" /\ UNCHANGED <<setting, tmr, slot, ops>>
        /\ run' = [now |-> clock, t |-> First(tmr), next |-> None]
    BY <1>6 DEF Select, env, timers, callback
  <2>2. First(tmr) \in Nat /\ (First(tmr) # None => Active(First(tmr)))
    BY <1>1, FirstActive, ActiveInHeap DEF Active, None
  <2>3. /\ run' \in [now : Times, t : Nat, next : Nat] /\ run'.next = None
        /\ run'.t = First(tmr)
    BY <1>2, <2>1, <2>2 DEF None
  <2>4. OpsOK'
    BY <1>1, <2>1 DEF OpsOK, PCs
  <2>5. QED BY <1>1, <2>1, <2>2, <2>3, <2>4, LoopMoves
<1>7. CASE Call
  BY <1>1, <1>7, CallKeeps
<1>8. CASE Return
  BY <1>1, <1>8, ReturnKeeps
<1>9. CASE ReadInterval
  <2>1. Doing("read") /\ UNCHANGED <<setting, tmr, slot, pc, run>>
    BY <1>9 DEF ReadInterval, env, timers, loop
  <2>2. ops' \in StatsLeft /\ (pc = "final" \/ (pc = "call" /\ Proc = "stats"))
    BY <2>1, DoingStats
  <2>3. QED BY <1>1, <2>1, <2>2, OpsMove
<1>10. CASE ReadTotal
  <2>1. Doing("total") /\ UNCHANGED <<setting, tmr, slot, pc, run>>
    BY <1>10 DEF ReadTotal, env, timers, loop
  <2>2. ops' \in StatsLeft /\ (pc = "final" \/ (pc = "call" /\ Proc = "stats"))
    BY <2>1, DoingStats
  <2>3. QED BY <1>1, <2>1, <2>2, OpsMove
<1>11. CASE SaveInterval
  <2>1. Doing("save") /\ UNCHANGED <<setting, tmr, slot, pc, run>>
    BY <1>11 DEF SaveInterval, env, timers, loop
  <2>2. ops' \in StatsLeft /\ (pc = "final" \/ (pc = "call" /\ Proc = "stats"))
    BY <2>1, DoingStats
  <2>3. QED BY <1>1, <2>1, <2>2, OpsMove
<1>12. CASE ZeroTestBytes \/ OmitBytes \/ ZeroInterval
  <2>1. /\ \E op \in {"test", "bytes", "interval"} : Doing(op)
        /\ UNCHANGED <<setting, tmr, slot, pc, run>>
    BY <1>12 DEF ZeroTestBytes, OmitBytes, ZeroInterval, env, timers, loop
  <2>2. ops' \in ResetLeft /\ pc = "call" /\ Proc = "omit"
    BY <2>1, DoingReset
  <2>3. QED BY <1>1, <2>1, <2>2, OpsMove
<1>13. CASE \E s \in {"stats", "reporter"} : ResetTimer(s)
  BY <1>1, <1>13, ResetKeeps
<1>14. CASE CheckClient \/ CheckServer
  <2>1. /\ pc = "visit" /\ pc' \in {"join", "loop", "ended"} /\ run' = NoRun
        /\ UNCHANGED <<setting, tmr, slot, ops>>
    BY <1>14 DEF CheckClient, CheckServer, RunEnds, env, timers, callback
  <2>2. OpsOK'
    BY <1>1, <2>1 DEF OpsOK, PCs
  <2>3. QED BY <1>1, <1>2, <2>1, <2>2, LoopMoves
<1>15. CASE WakeToCheck \/ HandleDone
  <2>1. /\ pc = "loop" /\ pc' \in {"join", "ended"}
        /\ UNCHANGED <<setting, tmr, slot, ops, run>>
    BY <1>15 DEF WakeToCheck, HandleDone, env, timers, callback
  <2>2. OpsOK' /\ run.t = None /\ run.next = None
    BY <1>1, <2>1 DEF OpsOK, PCs, RunOK
  <2>3. QED BY <1>1, <1>2, <2>1, <2>2, LoopMoves
<1>16. CASE JoinSender \/ HandleTestEnd
  <2>1. /\ pc \in {"join", "loop"} /\ pc' = "final" /\ ops' = StatsOps
        /\ UNCHANGED <<setting, tmr, slot, run>>
    BY <1>16 DEF JoinSender, HandleTestEnd, env, timers
  <2>2. OpsOK' /\ run.t = None /\ run.next = None
    BY <1>1, <2>1, OpsLeft DEF OpsOK, PCs, RunOK
  <2>3. QED BY <1>1, <1>2, <2>1, <2>2, LoopMoves
<1>17. CASE LastReport
  <2>1. /\ pc = "final" /\ ops = <<>> /\ pc' \in {"ended", "loop"}
        /\ UNCHANGED <<setting, tmr, slot, ops, run>>
    BY <1>17 DEF LastReport, env, timers, callback
  <2>2. OpsOK' /\ run.t = None /\ run.next = None
    BY <1>1, <2>1 DEF OpsOK, PCs, RunOK
  <2>3. QED BY <1>1, <1>2, <2>1, <2>2, LoopMoves
<1>18. CASE Cleanup
  BY <1>1, <1>18, CleanupKeeps
<1>19. CASE Worker
  <2>1. UNCHANGED <<setting, tmr, slot, pc, run, ops>>
    BY <1>19 DEF Worker, CountStream, CountInterval, CountTest, main, timers, loop, callback
  <2>2. QED BY <1>1, <2>1, LoopKept
<1>20. CASE Tick \/ UNCHANGED vars
  <2>1. UNCHANGED <<setting, tmr, slot, pc, run, ops>>
    BY <1>20 DEF Tick, vars, env, main, timers, loop, callback
  <2>2. QED BY <1>1, <2>1, LoopKept
<1>21. QED
  BY <1>3, <1>4, <1>5, <1>6, <1>7, <1>8, <1>9, <1>10, <1>11, <1>12, <1>13, <1>14, <1>15, <1>16,
     <1>17, <1>18, <1>19, <1>20 DEF Next, Main

LEMMA TimersHold == Spec => []TimerInv
<1>1. TimerInv /\ [Next]_vars => TimerInv'
  BY TimerStep
<1>2. QED
  BY <1>1, InitTimers, PTL DEF Spec

LEMMA InvIsSane == TimerInv => TimersSane
<1> SUFFICES ASSUME TimerInv PROVE TimersSane
  OBVIOUS
<1>1. Data /\ OpsOK /\ TimersOK(tmr) /\ SlotsOK /\ RunOK
  BY DEF TimerInv
<1>2. \A x : Active(x) => x \in 1..Len(tmr.heap) /\ x \in 0..Len(tmr.heap)
  BY <1>1, ActiveInHeap DEF Active
<1>3. Len(tmr.heap) \in Nat
  BY <1>1, TypedFacts DEF TimersOK
<1>4. slot \in [Slots -> 0..Len(tmr.heap)]
  BY <1>1, <1>2, <1>3 DEF SlotsOK, None
<1>5. run.t \in 0..Len(tmr.heap) /\ run.next \in 0..Len(tmr.heap)
  BY <1>1, <1>2, <1>3 DEF RunOK, None, OpsOK, PCs
<1>6. Measured \in Nat
  BY <1>1 DEF Data, Measured
<1>7. TypeOK
  BY <1>1, <1>4, <1>5, <1>6 DEF TypeOK, Data, OpsOK
<1>8. Partitioned(tmr) /\ Sorted(tmr)
  BY <1>1, ListsPartition DEF TimersOK
<1>9. \A s \in Slots : slot[s] # None => Contains(tmr.timers, slot[s])
  BY <1>1 DEF SlotsOK, Active
<1>10. pc \in {"visit", "call"} => \A t \in {run.t, run.next} \ {None} :
         pc = "call" \/ t = run.t => Contains(tmr.timers, t)
  BY <1>1 DEF RunOK, Active
<1>11. QED BY <1>7, <1>8, <1>9, <1>10 DEF TimersSane

(* Whatever the order in which callbacks, tmr_run and the cleanup of a     *)
(* test move timers: every object is in one of the two lists of timer.c,   *)
(* once; the active list is sorted; a slot of the test that is not NULL,   *)
(* and t and next of tmr_run, name active timers, so that no timer is      *)
(* freed twice or visited after it was freed.                              *)
THEOREM TimersStaySane == Spec => []TimersSane
BY TimersHold, InvIsSane, PTL

----------------------------------------------------------------------------
(* The intervals and the total.                                            *)

(* The block that is in the total and not yet in the interval.             *)
Pending == IF worker = "stream" THEN 1 ELSE 0

Resets == {"test", "bytes", "interval"}

(* Nothing is saved while the omitted period lasts; then what is saved and *)
(* what the interval holds is in the total, but for one block.  While the  *)
(* interval is being saved, it has not become less than what was read.     *)
Within ==
  /\ slot["omit"] # None => omitting
  /\ pc = "create" \/ omitting \/ NextOp(ops) \in Resets => seen.saved = 0
  /\ ~ omitting /\ NextOp(ops) \notin Resets =>
       seen.saved + rp.interval + Pending <= rp.bytes - rp.omit + 1
  /\ NextOp(ops) \in {"total", "save"} => temp.bytes <= rp.interval

LEMMA DataFields ==
  ASSUME Data
  PROVE  /\ rp.bytes \in Nat /\ rp.omit \in Nat /\ rp.interval \in Nat /\ rp.omit <= rp.bytes
         /\ temp.bytes \in Nat /\ temp.total \in Nat
         /\ seen.saved \in Nat /\ seen.unreported \in Int /\ seen.intervals \in Nat
         /\ seen.start \in Nat /\ seen.raced \in Nat
         /\ Pending \in {0, 1}
BY DEF Data, SeenType, Pending

LEMMA WithinKept ==
  ASSUME Data, Data', Within, rp' = rp, temp' = temp, seen'.saved = seen.saved, omitting' = omitting,
         worker' = worker \/ worker' \in {"ready", "stopped"},
         slot'["omit"] = slot["omit"] \/ slot'["omit"] = None,
         pc' # "create" \/ pc = "create",
         NextOp(ops') \in Resets <=> NextOp(ops) \in Resets,
         NextOp(ops') \in {"total", "save"} => NextOp(ops) \in {"total", "save"}
  PROVE  Within'
<1>1. Pending' <= Pending /\ Pending' \in {0, 1} /\ Pending \in {0, 1}
  BY DEF Pending
<1>2. QED BY <1>1, DataFields DEF Within

LEMMA WithinStep == ASSUME TimerInv, Within, [Next]_vars PROVE Within'
<1>1. Data /\ Data' /\ OpsOK /\ RunOK /\ SlotsOK /\ seen \in SeenType
  BY TimerStep DEF TimerInv, Data
<1>2. /\ NextOp(<<>>) \notin Resets /\ NextOp(<<>>) \notin {"total", "save"}
      /\ NextOp(StatsOps) \notin Resets /\ NextOp(StatsOps) \notin {"total", "save"}
  BY OpsLeft DEF Resets
<1>3. CASE CreateTimers
  <2>1. /\ pc = "idle" /\ pc' = "create" /\ ops' = CreateOrder /\ UNCHANGED <<slot, omitting>>
        /\ rp' = [bytes |-> 0, omit |-> 0, interval |-> 0]
        /\ seen'.saved = 0
    BY <1>3 DEF CreateTimers, timers, NothingSeen
  <2>2. slot'["omit"] = None
    BY <1>1, <2>1 DEF SlotsOK, Slots
  <2>3. NextOp(ops') = "timer"
    BY <2>1, OpsLeft
  <2>4. Pending' \in {0, 1}
    BY DEF Pending
  <2>5. rp'.bytes = 0 /\ rp'.omit = 0 /\ rp'.interval = 0 /\ seen'.saved = 0
    BY <2>1
  <2>6. seen'.saved + rp'.interval + Pending' <= rp'.bytes - rp'.omit + 1
    <3>1. Pending' = 0 \/ Pending' = 1
      BY <2>4
    <3>2. QED BY <2>5, <3>1
  <2>7. QED BY <2>1, <2>2, <2>3, <2>6 DEF Within, Resets
<1>4. CASE CreateTimer
  <2>1. /\ pc = "create" /\ pc' = "create" /\ ops # <<>> /\ ops' = Tail(ops)
        /\ UNCHANGED <<rp, temp, seen, omitting, worker, setting>> /\ Create(Head(ops), run.now)
    BY <1>4 DEF CreateTimer, env, loop, flags, counters, results
  <2>2. /\ ops \in CreateLeft /\ ops' \in CreateLeft /\ NextOp(ops) = Head(ops) /\ Head(ops) # "omit"
    BY <1>1, <2>1, CreateTake, OpsLeft DEF OpsOK
  <2>3. slot'["omit"] = slot["omit"]
    BY <1>1, <2>1, <2>2 DEF Create, SlotsOK, Slots
  <2>4. /\ NextOp(ops) \notin Resets \cup {"total", "save"}
        /\ NextOp(ops') \notin Resets \cup {"total", "save"}
    BY <2>2, OpsLeft DEF Resets
  <2>5. QED BY <1>1, <2>1, <2>3, <2>4, WithinKept
<1>5. CASE CreateOmitTimer
  <2>1. /\ pc = "create" /\ pc' # "create" /\ ops = <<>> /\ ops' = ops
        /\ UNCHANGED <<rp, temp, seen, setting>> /\ Create("omit", clock)
        /\ omitting' = (setting.omit # 0) /\ worker' = "ready"
    BY <1>5 DEF CreateOmitTimer, env, callback, results
  <2>2. slot'["omit"] # None => omitting'
    <3>1. "omit" \in Slots /\ slot \in [Slots -> Nat]
      BY <1>1 DEF SlotsOK, Slots
    <3>2. Period("omit") = setting.omit
      BY DEF Period
    <3>3. QED BY <2>1, <3>1, <3>2 DEF Create
  <2>3. ~omitting' => ~omitting
    BY <1>1, <2>1 DEF Data
  <2>4. seen.saved = 0 /\ Pending' = 0 /\ Pending \in {0, 1}
    BY <2>1 DEF Within, Pending
  <2>5. QED BY <1>1, <1>2, <2>1, <2>2, <2>3, <2>4, DataFields DEF Within
<1>6. CASE Call
  <2>1. /\ pc = "visit" /\ pc' = "call" /\ ops = <<>> /\ UNCHANGED <<rp, temp>>
        /\ slot \in [Slots -> Nat] /\ run.t # None /\ run.t \in Nat /\ Active(run.t)
    BY <1>1, <1>6 DEF Call, OpsOK, SlotsOK, RunOK
  <2>2. CASE Proc = "omit"
    <3>1. /\ OmitTimerProc
      BY <1>6, <2>2 DEF Call, Proc
    <3>2. seen'.saved = seen.saved /\ slot' = [slot EXCEPT !["omit"] = None]
          /\ omitting' = FALSE /\ ops' = ResetOps
      BY <1>1, <3>1 DEF OmitTimerProc, SeenType
    <3>3. slot["omit"] # None
      BY <1>1, <2>1, <2>2 DEF SlotsOK, Proc
    <3>4. seen.saved = 0
      BY <3>3 DEF Within
    <3>5. NextOp(ops') = "test" /\ slot'["omit"] = None
      BY <2>1, <3>2, OpsLeft DEF Slots
    <3>6. QED BY <2>1, <3>2, <3>4, <3>5 DEF Within, Resets
  <2>3. CASE Proc # "omit"
    <3>1. /\ seen'.saved = seen.saved /\ omitting' = omitting /\ ops' \in {<<>>, StatsOps}
          /\ worker' = worker \/ worker' = "stopped"
          /\ slot' = slot \/ slot' = [slot EXCEPT !["timer"] = None]
      <4>1. CASE TestTimerProc
        BY <1>1, <4>1 DEF TestTimerProc, ClientTimer, ServerTimer, ServerTimerLate, SeenType
      <4>2. CASE StatsTimerProc
        BY <1>1, <4>2 DEF StatsTimerProc, SeenType, flags
      <4>3. CASE ReporterTimerProc
        BY <1>1, <4>3 DEF ReporterTimerProc, SeenType, flags
      <4>4. QED BY <1>6, <2>3, <4>1, <4>2, <4>3 DEF Call, Proc
    <3>2. slot'["omit"] = slot["omit"]
      BY <2>1, <3>1 DEF Slots
    <3>3. QED BY <1>1, <1>2, <2>1, <3>1, <3>2, WithinKept
  <2>4. QED BY <2>2, <2>3
<1>7. CASE ReadInterval
  <2>1. Doing("read") /\ UNCHANGED <<rp, seen, omitting, worker, slot, pc>>
        /\ temp' = [temp EXCEPT !.bytes = rp.interval]
    BY <1>7 DEF ReadInterval, timers, loop, flags, counters, results
  <2>2. NextOp(ops) = "read" /\ NextOp(ops') = "total" /\ pc # "create" /\ pc' # "create"
    BY <2>1, DoingStats
  <2>3. temp'.bytes = rp.interval /\ Pending' = Pending
    BY <1>1, <2>1 DEF Data, Pending
  <2>4. QED BY <1>1, <2>1, <2>2, <2>3, DataFields DEF Within, Resets
<1>8. CASE ReadTotal
  <2>1. Doing("total") /\ UNCHANGED <<rp, seen, omitting, worker, slot, pc>>
        /\ temp' = [temp EXCEPT !.total = rp.interval]
    BY <1>8 DEF ReadTotal, timers, loop, flags, counters, results
  <2>2. NextOp(ops) = "total" /\ NextOp(ops') = "save" /\ pc # "create" /\ pc' # "create"
    BY <2>1, DoingStats
  <2>3. temp'.bytes = temp.bytes /\ Pending' = Pending
    BY <1>1, <2>1 DEF Data, Pending
  <2>4. QED BY <1>1, <2>1, <2>2, <2>3, DataFields DEF Within, Resets
<1>9. CASE SaveInterval
  <2>1. Doing("save") /\ UNCHANGED <<omitting, worker, slot, pc>>
        /\ rp' = [rp EXCEPT !.interval = 0]
    BY <1>9 DEF SaveInterval, IntervalZero, timers, loop, flags
  <2>2. NextOp(ops) = "save" /\ ops' = <<>> /\ pc # "create" /\ pc' # "create"
    BY <2>1, DoingStats
  <2>3. seen'.saved = IF omitting THEN seen.saved ELSE seen.saved + temp.bytes
    BY <1>1, <1>9 DEF SaveInterval, SeenType
  <2>4. rp'.interval = 0 /\ rp'.bytes = rp.bytes /\ rp'.omit = rp.omit /\ Pending' = Pending
    BY <1>1, <2>1 DEF Data, Pending
  <2>5. temp.bytes <= rp.interval
    BY <2>2 DEF Within
  <2>6. CASE omitting
    BY <1>2, <2>1, <2>2, <2>3, <2>6 DEF Within
  <2>7. CASE ~ omitting
    <3>1. seen.saved + rp.interval + Pending <= rp.bytes - rp.omit + 1
      BY <2>2, <2>7 DEF Within, Resets
    <3>2. seen'.saved + rp'.interval + Pending' <= rp'.bytes - rp'.omit + 1
      BY <1>1, <2>3, <2>4, <2>5, <2>7, <3>1, DataFields
    <3>3. QED BY <1>2, <2>1, <2>2, <2>7, <3>2 DEF Within
  <2>8. QED BY <1>1, <2>6, <2>7 DEF Data
<1>10. CASE ZeroTestBytes
  <2>1. Doing("test") /\ UNCHANGED <<rp, seen, temp, omitting, worker, slot, pc>>
    BY <1>10 DEF ZeroTestBytes, timers, loop, flags, results
  <2>2. NextOp(ops) = "test" /\ NextOp(ops') = "bytes" /\ pc # "create"
    BY <2>1, DoingReset
  <2>3. QED BY <1>1, <2>1, <2>2, WithinKept DEF Resets
<1>11. CASE OmitBytes
  <2>1. Doing("bytes") /\ UNCHANGED <<seen, temp, omitting, worker, slot, pc>>
    BY <1>11 DEF OmitBytes, timers, loop, flags, results
  <2>2. NextOp(ops) = "bytes" /\ NextOp(ops') = "interval"
    BY <2>1, DoingReset
  <2>3. QED BY <2>1, <2>2 DEF Within, Resets
<1>12. CASE ZeroInterval
  <2>1. Doing("interval") /\ UNCHANGED <<seen, temp, omitting, worker, slot, pc>>
        /\ rp' = [rp EXCEPT !.interval = 0]
    BY <1>12 DEF ZeroInterval, timers, loop, flags, results
  <2>2. NextOp(ops) = "interval" /\ NextOp(ops') = "stats" /\ pc # "create"
    BY <2>1, DoingReset
  <2>3. rp'.interval = 0 /\ rp'.bytes = rp.bytes /\ rp'.omit = rp.omit /\ Pending' = Pending
    BY <1>1, <2>1 DEF Data, Pending
  <2>4. seen.saved = 0
    BY <2>2 DEF Within, Resets
  <2>5. QED BY <1>1, <2>1, <2>2, <2>3, <2>4, DataFields DEF Within, Resets
<1>13. CASE \E s \in {"stats", "reporter"} : ResetTimer(s)
  <2>1. PICK s \in {"stats", "reporter"} : Doing(s)
    BY <1>13 DEF ResetTimer
  <2>2. UNCHANGED <<rp, seen, temp, omitting, worker, slot, pc>>
    BY <1>13 DEF ResetTimer, loop, flags, counters, results
  <2>3. /\ NextOp(ops) \in {"stats", "reporter"} /\ pc # "create"
        /\ NextOp(ops') = "reporter" \/ ops' = <<>>
    BY <2>1, DoingReset
  <2>4. /\ NextOp(ops) \notin Resets \cup {"total", "save"}
        /\ NextOp(ops') \notin Resets \cup {"total", "save"}
    BY <1>2, <2>3 DEF Resets
  <2>5. QED BY <1>1, <2>2, <2>3, <2>4, WithinKept
<1>14. CASE Select \/ Return \/ CheckClient \/ WakeToCheck \/ CheckServer \/ HandleDone
            \/ LastReport
  <2>1. /\ UNCHANGED <<rp, temp, omitting, worker, slot, ops>> /\ pc' # "create"
    BY <1>14 DEF Select, Return, CheckClient, WakeToCheck, CheckServer, HandleDone, LastReport,
         timers, callback, flags, counters
  <2>2. seen'.saved = seen.saved
    BY <1>1, <1>14 DEF Select, Return, CheckClient, WakeToCheck, CheckServer, HandleDone,
         LastReport, results, SeenType
  <2>3. QED BY <1>1, <2>1, <2>2, WithinKept
<1>15. CASE JoinSender \/ HandleTestEnd
  <2>1. /\ UNCHANGED <<rp, temp, omitting, slot>> /\ ops' = StatsOps /\ pc' # "create"
        /\ (worker' = worker \/ worker' = "stopped") /\ pc \in {"join", "loop"}
    BY <1>15 DEF JoinSender, HandleTestEnd, timers, counters
  <2>2. seen'.saved = seen.saved
    BY <1>1, <1>15 DEF JoinSender, HandleTestEnd, results, SeenType
  <2>3. ops = <<>>
    BY <1>1, <2>1 DEF OpsOK
  <2>4. QED BY <1>1, <1>2, <2>1, <2>2, <2>3, WithinKept
<1>16. CASE Cleanup
  <2>1. /\ UNCHANGED <<rp, temp, omitting, ops, seen>> /\ pc' # "create" /\ worker' = "stopped"
        /\ slot'["omit"] = None
    BY <1>16 DEF Cleanup, callback, flags, results, Slots
  <2>2. QED BY <1>1, <2>1, WithinKept
<1>17. CASE CountStream
  <2>1. /\ rp' = [rp EXCEPT !.bytes = @ + 1] /\ UNCHANGED <<seen, temp, omitting, ops, slot, pc>>
        /\ worker = "ready" /\ worker' = "stream"
    BY <1>17 DEF CountStream, main, timers, loop, callback, flags
  <2>2. rp'.interval = rp.interval /\ rp'.omit = rp.omit /\ rp'.bytes = rp.bytes + 1
    BY <1>1, <2>1 DEF Data
  <2>3. Pending = 0 /\ Pending' = 1
    BY <2>1 DEF Pending
  <2>4. QED BY <1>1, <2>1, <2>2, <2>3, DataFields DEF Within
<1>18. CASE CountInterval
  <2>1. /\ rp' = [rp EXCEPT !.interval = @ + 1] /\ UNCHANGED <<seen, temp, omitting, ops, slot, pc>>
        /\ worker = "stream" /\ worker' = "interval"
    BY <1>18 DEF CountInterval, main, timers, loop, callback, flags
  <2>2. rp'.interval = rp.interval + 1 /\ rp'.omit = rp.omit /\ rp'.bytes = rp.bytes
    BY <1>1, <2>1 DEF Data
  <2>3. Pending = 1 /\ Pending' = 0
    BY <2>1 DEF Pending
  <2>4. QED BY <1>1, <2>1, <2>2, <2>3, DataFields DEF Within
<1>19. CASE CountTest
  <2>1. UNCHANGED <<rp, temp, omitting, ops, slot, pc>> /\ worker' = "ready"
    BY <1>19 DEF CountTest, main, timers, loop, callback, flags
  <2>2. seen'.saved = seen.saved
    BY <1>1, <1>19 DEF CountTest, SeenType
  <2>3. QED BY <1>1, <2>1, <2>2, WithinKept
<1>20. CASE Tick \/ UNCHANGED vars
  <2>1. UNCHANGED <<rp, temp, omitting, ops, slot, pc, seen, worker>>
    BY <1>20 DEF Tick, vars, main, timers, loop, callback, flags, counters, results
  <2>2. QED BY <1>1, <2>1, WithinKept
<1>21. QED
  BY <1>3, <1>4, <1>5, <1>6, <1>7, <1>8, <1>9, <1>10, <1>11, <1>12, <1>13, <1>14, <1>15, <1>16,
     <1>17, <1>18, <1>19, <1>20 DEF Next, Main, Worker

(* The intervals that are reported after the omitted period add up to no   *)
(* more than the total of the stream, but for the one block that the       *)
(* worker was counting when the period ended: with one worker and for any  *)
(* interleaving of its three additions with the reads and resets of        *)
(* iperf_stats_callback and iperf_reset_stats.                             *)
THEOREM IntervalsStayWithinTotal == Spec => []IntervalsWithinTotal
<1>1. Init => Within
  <2> SUFFICES ASSUME Init PROVE Within
    OBVIOUS
  <2>1. slot["omit"] = None /\ pc = "idle" /\ ops = <<>> /\ seen.saved = 0 /\ Pending = 0
    BY DEF Init, Slots, NothingSeen, Pending
  <2>2. rp.interval = 0 /\ rp.bytes = 0 /\ rp.omit = 0
    BY DEF Init
  <2>3. QED BY <2>1, <2>2, OpsLeft DEF Within, Resets
<1>2. TimerInv /\ Within /\ [Next]_vars => Within'
  BY WithinStep
<1>3. TimerInv /\ Within => IntervalsWithinTotal
  <2> SUFFICES ASSUME TimerInv, Within, ~ omitting, ops = <<>>
               PROVE  seen.saved + rp.interval <= Measured + 1
    BY DEF IntervalsWithinTotal
  <2>1. Data /\ NextOp(ops) \notin Resets
    BY OpsLeft DEF TimerInv, Resets
  <2>2. QED BY <2>1, DataFields DEF Within, Measured
<1>4. QED
  BY <1>1, <1>2, <1>3, TimersHold, PTL DEF Spec

----------------------------------------------------------------------------
(* The end of a test by its number of bytes.                               *)

(* The block that the stream has counted and the test has not.             *)
Held == IF worker \in {"stream", "interval"} THEN 1 ELSE 0

(* No receiver has an omitted period: iperf_reset_stats leaves what a      *)
(* receiver has counted in test->bytes_received.                           *)
NoOmittedReceipt == setting.omit = 0 \/ setting.sender

Over == {"join", "final", "ended", "idle"}

(* The test's count is ahead of the stream's by the blocks that raced with *)
(* the reset and by one more at most.                                      *)
Reached ==
  NoOmittedReceipt =>
    /\ NextOp(ops) = "bytes" => testBytes <= seen.raced
    /\ ~ omitting /\ NextOp(ops) \notin {"test", "bytes"} =>
         testBytes + Held <= rp.bytes - rp.omit + seen.raced + 1
    /\ seen.by = "bytes" =>
         /\ setting.role = "c" /\ pc \in Over
         /\ setting.bytes <= rp.bytes - rp.omit + seen.raced + 1

LEMMA ReachedKept ==
  ASSUME Data, Data', Reached, UNCHANGED <<setting, testBytes, omitting>>,
         rp'.bytes = rp.bytes, rp'.omit = rp.omit,
         seen'.raced = seen.raced, seen'.by = "bytes" => seen.by = "bytes",
         worker' = worker \/ worker' \in {"ready", "stopped"},
         NextOp(ops') = "bytes" => NextOp(ops) = "bytes",
         NextOp(ops) \in {"test", "bytes"} => NextOp(ops') \in {"test", "bytes"},
         pc \in Over => pc' \in Over
  PROVE  Reached'
<1>1. Held' <= Held /\ Held' \in {0, 1} /\ Held \in {0, 1}
  BY DEF Held
<1>2. testBytes \in Nat /\ setting \in Settings
  BY DEF Data
<1>3. QED BY <1>1, <1>2, DataFields, SettingFields DEF Reached, NoOmittedReceipt

(* The client ends the test: it is over for its bytes only when enough     *)
(* have been counted.                                                      *)
LEMMA ReachedEnds ==
  ASSUME Data, Data', Reached, ops = <<>>, ops' = ops, pc \notin Over, pc' \in Over, EndCondition,
         setting.role = "c", UNCHANGED <<setting, testBytes, omitting, done, rp, worker>>,
         seen' = [seen EXCEPT !.by = IF done THEN @ ELSE "bytes"]
  PROVE  Reached'
<1>1. seen \in SeenType /\ testBytes \in Nat /\ setting.bytes \in Nat
  BY SettingFields DEF Data
<1>2. seen'.raced = seen.raced /\ seen'.by = IF done THEN seen.by ELSE "bytes"
  BY <1>1 DEF SeenType
<1>3. Held' = Held /\ Held \in {0, 1}
  BY DEF Held
<1>4. NextOp(ops) = "none"
  BY OpsLeft
<1>5. ~ omitting /\ (done \/ testBytes >= setting.bytes)
  BY DEF EndCondition, BytesReached
<1>6. QED
  BY <1>1, <1>2, <1>3, <1>4, <1>5, DataFields DEF Reached, NoOmittedReceipt

LEMMA ReachedStep == ASSUME TimerInv, Reached, [Next]_vars PROVE Reached'
<1>1. Data /\ Data' /\ OpsOK /\ RunOK /\ SlotsOK /\ HeapOK /\ seen \in SeenType
      /\ testBytes \in Nat /\ setting \in Settings
  BY TimerStep DEF TimerInv, Data
<1>2. /\ NextOp(<<>>) = "none" /\ NextOp(StatsOps) = "read"
  BY OpsLeft
<1>3. Held \in {0, 1} /\ Held' \in {0, 1}
  BY DEF Held
<1>4. CASE CreateTimers
  <2>1. /\ ops' = CreateOrder /\ testBytes' = 0
        /\ rp' = [bytes |-> 0, omit |-> 0, interval |-> 0]
        /\ seen' = [NothingSeen EXCEPT !.start = InUsecs(clock)]
    BY <1>4 DEF CreateTimers
  <2>2. seen'.raced = 0 /\ seen'.by = "none"
    BY <2>1 DEF NothingSeen
  <2>3. rp'.bytes = 0 /\ rp'.omit = 0
    BY <2>1
  <2>4. NextOp(ops') = "timer"
    BY <2>1, OpsLeft
  <2>5. testBytes' + Held' <= rp'.bytes - rp'.omit + seen'.raced + 1
    <3>1. testBytes' = 0
      BY <2>1
    <3>2. Held' = 0 \/ Held' = 1
      BY <1>3
    <3>3. QED BY <2>2, <2>3, <3>1, <3>2
  <2>6. QED BY <2>2, <2>4, <2>5 DEF Reached
<1>5. CASE CreateTimer
  <2>1. /\ pc = "create" /\ pc' = "create" /\ ops # <<>> /\ ops' = Tail(ops)
        /\ UNCHANGED <<rp, testBytes, seen, omitting, worker, setting>>
    BY <1>5 DEF CreateTimer, env, loop, flags, counters, results
  <2>2. ops \in CreateLeft /\ ops' \in CreateLeft
    BY <1>1, <2>1, CreateTake, OpsLeft DEF OpsOK
  <2>3. NextOp(ops) \notin {"test", "bytes"} /\ NextOp(ops') # "bytes"
    BY <2>2, OpsLeft
  <2>4. QED BY <1>1, <2>1, <2>3, ReachedKept DEF Over
<1>6. CASE CreateOmitTimer
  <2>1. /\ pc = "create" /\ pc' \notin Over /\ ops = <<>> /\ ops' = ops
        /\ UNCHANGED <<rp, testBytes, seen, setting>>
        /\ omitting' = (setting.omit # 0) /\ worker' = "ready"
    BY <1>6 DEF CreateOmitTimer, env, callback, results, Over
  <2>2. ~omitting' => ~omitting
    BY <1>1, <2>1 DEF Data
  <2>3. Held' = 0
    BY <2>1 DEF Held
  <2>4. pc \notin Over
    BY <2>1 DEF Over
  <2>5. QED BY <1>1, <1>2, <1>3, <2>1, <2>2, <2>3, <2>4, DataFields DEF Reached, NoOmittedReceipt
<1>7. CASE Call
  <2>1. /\ pc = "visit" /\ pc' = "call" /\ ops = <<>> /\ UNCHANGED <<rp, testBytes, setting>>
    BY <1>1, <1>7 DEF Call, OpsOK, env
  <2>2. CASE Proc = "omit"
    <3>1. OmitTimerProc
      BY <1>7, <2>2 DEF Call, Proc
    <3>2. seen'.by = seen.by /\ ops' = ResetOps
      BY <1>1, <3>1 DEF OmitTimerProc, SeenType
    <3>3. NextOp(ops') = "test"
      BY <3>2, OpsLeft
    <3>4. QED BY <2>1, <3>2, <3>3 DEF Reached, NoOmittedReceipt, Over
  <2>3. CASE Proc # "omit"
    <3>1. /\ seen'.raced = seen.raced /\ seen'.by \in {seen.by, "time"}
          /\ omitting' = omitting /\ ops' \in {<<>>, StatsOps}
          /\ worker' = worker \/ worker' = "stopped"
      <4>1. CASE TestTimerProc
        BY <1>1, <4>1 DEF TestTimerProc, ClientTimer, ServerTimer, ServerTimerLate, SeenType
      <4>2. CASE StatsTimerProc
        BY <1>1, <4>2 DEF StatsTimerProc, SeenType, flags
      <4>3. CASE ReporterTimerProc
        BY <1>1, <4>3 DEF ReporterTimerProc, SeenType, flags
      <4>4. QED BY <1>7, <2>3, <4>1, <4>2, <4>3 DEF Call, Proc
    <3>2. QED BY <1>1, <1>2, <2>1, <3>1, ReachedKept DEF Over
  <2>4. QED BY <2>2, <2>3
<1>8. CASE ReadInterval \/ ReadTotal \/ SaveInterval
  <2>1. PICK op \in {"read", "total", "save"} : Doing(op)
    BY <1>8 DEF ReadInterval, ReadTotal, SaveInterval
  <2>2. UNCHANGED <<testBytes, setting, omitting, worker, pc>>
    BY <1>8 DEF ReadInterval, ReadTotal, SaveInterval, env, loop, flags, counters
  <2>3. rp'.bytes = rp.bytes /\ rp'.omit = rp.omit
    BY <1>1, <1>8 DEF ReadInterval, ReadTotal, SaveInterval, counters, Data
  <2>4. seen'.raced = seen.raced /\ seen'.by = seen.by
    BY <1>1, <1>8 DEF ReadInterval, ReadTotal, SaveInterval, results, SeenType
  <2>5. /\ NextOp(ops) \notin {"test", "bytes"} /\ NextOp(ops') # "bytes"
    BY <1>2, <2>1, DoingStats
  <2>6. QED BY <1>1, <2>2, <2>3, <2>4, <2>5, ReachedKept
<1>9. CASE ZeroTestBytes
  <2>1. Doing("test") /\ UNCHANGED <<rp, seen, omitting, worker, setting>>
        /\ pc' = pc /\ testBytes' = TestBytesReset
    BY <1>9 DEF ZeroTestBytes, env, loop, flags, results
  <2>2. NextOp(ops') = "bytes" /\ pc = "call" /\ Proc = "omit"
    BY <2>1, DoingReset
  <2>3. setting.omit # 0
    <3>1. run.t \in Nat /\ Active(run.t)
      BY <1>1, <2>2 DEF RunOK
    <3>2. run.t \in 1..Len(tmr.heap)
      BY <3>1, ProcInSlots
    <3>3. Periods["omit"] # 0
      BY <1>1, <2>2, <3>2 DEF HeapOK, Proc
    <3>4. QED BY <1>1, <3>3, PeriodsType
  <2>4. NoOmittedReceipt => testBytes' = 0
    BY <2>1, <2>3 DEF TestBytesReset, NoOmittedReceipt
  <2>5. pc \notin Over
    BY <2>2 DEF Over
  <2>6. QED BY <1>1, <2>1, <2>2, <2>4, <2>5, DataFields DEF Reached, NoOmittedReceipt
<1>10. CASE OmitBytes
  <2>1. Doing("bytes") /\ UNCHANGED <<testBytes, seen, omitting, worker, setting>> /\ pc' = pc
        /\ rp' = IF setting.sender THEN [rp EXCEPT !.omit = rp.bytes] ELSE [rp EXCEPT !.bytes = 0]
    BY <1>10 DEF OmitBytes, env, loop, flags, results
  <2>2. NextOp(ops) = "bytes" /\ NextOp(ops') = "interval" /\ pc = "call" /\ pc \notin Over
    BY <2>1, DoingReset DEF Over
  <2>3. rp'.bytes \in Nat /\ rp'.omit \in Nat /\ rp'.bytes - rp'.omit = 0
    BY <1>1, <2>1 DEF Data
  <2>4. Held' = Held
    BY <2>1 DEF Held
  <2>5. NoOmittedReceipt => testBytes <= seen.raced
    BY <2>2 DEF Reached
  <2>6. NoOmittedReceipt => testBytes + Held <= rp'.bytes - rp'.omit + seen.raced + 1
    BY <1>1, <1>3, <2>3, <2>5, DataFields
  <2>7. QED BY <2>1, <2>2, <2>4, <2>6 DEF Reached, NoOmittedReceipt
<1>11. CASE ZeroInterval
  <2>1. Doing("interval") /\ UNCHANGED <<testBytes, seen, omitting, worker, setting>> /\ pc' = pc
        /\ rp' = [rp EXCEPT !.interval = 0]
    BY <1>11 DEF ZeroInterval, env, loop, flags, results
  <2>2. NextOp(ops) = "interval" /\ NextOp(ops') = "stats"
    BY <2>1, DoingReset
  <2>3. rp'.bytes = rp.bytes /\ rp'.omit = rp.omit
    BY <1>1, <2>1 DEF Data
  <2>4. QED BY <1>1, <2>1, <2>2, <2>3, ReachedKept
<1>12. CASE \E s \in {"stats", "reporter"} : ResetTimer(s)
  <2>1. PICK s \in {"stats", "reporter"} : Doing(s)
    BY <1>12 DEF ResetTimer
  <2>2. UNCHANGED <<rp, testBytes, seen, omitting, worker, setting, pc>>
    BY <1>12 DEF ResetTimer, env, loop, flags, counters, results
  <2>3. NextOp(ops) \in {"stats", "reporter"} /\ (NextOp(ops') = "reporter" \/ ops' = <<>>)
    BY <2>1, DoingReset
  <2>4. QED BY <1>1, <1>2, <2>2, <2>3, ReachedKept
<1>13. CASE CheckClient /\ EndCondition
  <2>1. /\ pc = "visit" /\ pc' = "join" /\ setting.role = "c"
        /\ UNCHANGED <<setting, testBytes, omitting, done, rp, worker, ops>>
        /\ seen' = [seen EXCEPT !.by = IF done THEN @ ELSE "bytes"]
    BY <1>13 DEF CheckClient, RunEnds, env, callback, flags, counters
  <2>2. ops = <<>> /\ pc \notin Over /\ pc' \in Over
    BY <1>1, <2>1 DEF OpsOK, Over
  <2>3. QED BY <1>1, <1>13, <2>1, <2>2, ReachedEnds
<1>14. CASE WakeToCheck
  <2>1. /\ pc = "loop" /\ pc' = "join" /\ setting.role = "c" /\ EndCondition
        /\ UNCHANGED <<setting, testBytes, omitting, done, rp, worker, ops>>
        /\ seen' = [seen EXCEPT !.by = IF done THEN @ ELSE "bytes"]
    BY <1>14 DEF WakeToCheck, env, callback, flags, counters
  <2>2. ops = <<>> /\ pc \notin Over /\ pc' \in Over
    BY <1>1, <2>1 DEF OpsOK, Over
  <2>3. QED BY <1>1, <2>1, <2>2, ReachedEnds
<1>15. CASE Select \/ Return \/ (CheckClient /\ ~EndCondition) \/ CheckServer \/ HandleDone
  <2>1. /\ UNCHANGED <<rp, setting, testBytes, omitting, worker, ops, seen>>
        /\ pc \in {"loop", "visit", "call"}
    BY <1>15 DEF Select, Return, CheckClient, CheckServer, HandleDone, RunEnds, env,
         timers, callback, flags, counters, results
  <2>2. QED BY <1>1, <2>1, ReachedKept DEF Over
<1>16. CASE LastReport
  <2>1. /\ UNCHANGED <<rp, setting, testBytes, omitting, worker, ops>>
        /\ pc = "final" /\ pc' = IF setting.role = "c" THEN "ended" ELSE "loop"
    BY <1>16 DEF LastReport, env, callback, flags, counters
  <2>2. seen'.raced = seen.raced /\ seen'.by = seen.by
    BY <1>1, <1>16 DEF LastReport, SeenType
  <2>3. CASE setting.role = "c"
    BY <1>1, <2>1, <2>2, <2>3, ReachedKept DEF Over
  <2>4. CASE setting.role # "c"
    BY <1>1, <2>1, <2>2, <2>4 DEF Reached, NoOmittedReceipt, Held
  <2>5. QED BY <2>3, <2>4
<1>17. CASE JoinSender \/ HandleTestEnd
  <2>1. /\ UNCHANGED <<rp, setting, testBytes, omitting>> /\ ops' = StatsOps /\ pc' = "final"
        /\ (worker' = worker \/ worker' = "stopped") /\ pc \in {"join", "loop"}
    BY <1>17 DEF JoinSender, HandleTestEnd, env, timers, counters
  <2>2. seen'.raced = seen.raced /\ seen'.by \in {seen.by, "client"}
    BY <1>1, <1>17 DEF JoinSender, HandleTestEnd, results, SeenType
  <2>3. ops = <<>>
    BY <1>1, <2>1 DEF OpsOK
  <2>4. QED BY <1>1, <1>2, <2>1, <2>2, <2>3, ReachedKept DEF Over
<1>18. CASE Cleanup
  <2>1. /\ UNCHANGED <<rp, setting, testBytes, omitting, ops, seen>> /\ pc' = "idle" /\ worker' = "stopped"
    BY <1>18 DEF Cleanup, env, callback, flags, results
  <2>2. QED BY <1>1, <2>1, ReachedKept DEF Over
<1>19. CASE CountStream
  <2>1. /\ rp' = [rp EXCEPT !.bytes = @ + 1] /\ UNCHANGED <<seen, setting, testBytes, omitting, ops, pc>>
        /\ worker = "ready" /\ worker' = "stream"
    BY <1>19 DEF CountStream, main, loop, callback, flags
  <2>2. rp'.omit = rp.omit /\ rp'.bytes = rp.bytes + 1
    BY <1>1, <2>1 DEF Data
  <2>3. Held = 0 /\ Held' = 1
    BY <2>1 DEF Held
  <2>4. QED BY <1>1, <2>1, <2>2, <2>3, DataFields, SettingFields DEF Reached, NoOmittedReceipt
<1>20. CASE CountInterval
  <2>1. /\ rp' = [rp EXCEPT !.interval = @ + 1]
        /\ UNCHANGED <<seen, setting, testBytes, omitting, ops, pc>>
        /\ worker = "stream" /\ worker' = "interval"
    BY <1>20 DEF CountInterval, main, loop, callback, flags
  <2>2. rp'.omit = rp.omit /\ rp'.bytes = rp.bytes
    BY <1>1, <2>1 DEF Data
  <2>3. Held = 1 /\ Held' = 1
    BY <2>1 DEF Held
  <2>4. QED BY <1>1, <2>1, <2>2, <2>3 DEF Reached, NoOmittedReceipt
<1>21. CASE CountTest
  <2>1. /\ UNCHANGED <<rp, setting, omitting, ops, pc>> /\ testBytes' = testBytes + 1
        /\ worker = "interval" /\ worker' = "ready"
    BY <1>21 DEF CountTest, main, loop, callback, flags
  <2>2. seen'.raced = (IF Resetting THEN seen.raced + 1 ELSE seen.raced) /\ seen'.by = seen.by
    BY <1>1, <1>21 DEF CountTest, SeenType
  <2>3. Held = 1 /\ Held' = 0
    BY <2>1 DEF Held
  <2>4. NextOp(ops) = "bytes" => Resetting
    <3>1. NextOp(ops) = "bytes" => ops # <<>> /\ ops \notin CreateLeft /\ ops \notin StatsLeft
      BY <1>2, OpsLeft
    <3>2. QED BY <1>1, <3>1, ProcInSlots DEF OpsOK, Resetting, Proc, PCs, Slots
  <2>5. QED BY <1>1, <2>1, <2>2, <2>3, <2>4, DataFields, SettingFields DEF Reached, NoOmittedReceipt
<1>22. CASE Tick \/ UNCHANGED vars
  <2>1. UNCHANGED <<rp, setting, testBytes, omitting, ops, pc, seen, worker>>
    BY <1>22 DEF Tick, vars, env, main, loop, callback, flags, counters, results
  <2>2. QED BY <1>1, <2>1, ReachedKept
<1>23. QED
  BY <1>4, <1>5, <1>6, <1>7, <1>8, <1>9, <1>10, <1>11, <1>12, <1>13, <1>14, <1>15, <1>16,
     <1>17, <1>18, <1>19, <1>20, <1>21, <1>22 DEF Next, Main, Worker

(* A client whose test ends because enough bytes were transferred has      *)
(* measured them, but for the blocks that the worker counted while         *)
(* iperf_reset_stats ran and one that it was counting then: provided that  *)
(* no test for a number of bytes has a receiver with an omitted period,    *)
(* which iperf_reset_stats does not take from test->bytes_received.        *)
THEOREM BytesAreMeasured ==
  (\A x \in Settings : x.bytes # 0 /\ x.omit # 0 => x.sender) => (Spec => []BytesMeasured)
<1> SUFFICES ASSUME \A x \in Settings : x.bytes # 0 /\ x.omit # 0 => x.sender
             PROVE  Spec => []BytesMeasured
  OBVIOUS
<1>1. Init => Reached
  <2> SUFFICES ASSUME Init PROVE Reached
    OBVIOUS
  <2>1. ops = <<>> /\ seen.by = "none" /\ seen.raced = 0 /\ Held = 0 /\ testBytes = 0
    BY DEF Init, NothingSeen, Held
  <2>2. rp.bytes = 0 /\ rp.omit = 0
    BY DEF Init
  <2>3. QED BY <2>1, <2>2, OpsLeft DEF Reached
<1>2. TimerInv /\ Reached /\ [Next]_vars => Reached'
  BY ReachedStep
<1>3. TimerInv /\ Reached => BytesMeasured
  <2> SUFFICES ASSUME TimerInv, Reached, seen.by = "bytes"
               PROVE  Measured + seen.raced + 1 >= setting.bytes
    BY DEF BytesMeasured
  <2>1. Data /\ setting \in Settings /\ setting.bytes \in Nat
    BY SettingFields DEF TimerInv, Data
  <2>2. CASE setting.bytes = 0
    BY <2>1, <2>2, DataFields DEF Measured
  <2>3. CASE setting.bytes # 0
    <3>1. NoOmittedReceipt
      BY <2>1, <2>3 DEF NoOmittedReceipt
    <3>2. setting.bytes <= rp.bytes - rp.omit + seen.raced + 1
      BY <3>1 DEF Reached
    <3>3. QED BY <2>1, <3>2, DataFields DEF Measured
  <2>4. QED BY <2>2, <2>3
<1>4. QED
  BY <1>1, <1>2, <1>3, TimersHold, PTL DEF Spec

----------------------------------------------------------------------------
(* The order of the two periodic timers.                                   *)

Stats == slot["stats"]
Reporter == slot["reporter"]

AtReporter == pc \in {"visit", "call"} /\ Reporter # None /\ run.t = Reporter

(* The statistics timer has been rescheduled and the reporter's not yet:   *)
(* by tmr_run, which has come to the reporter's timer, or by the callback  *)
(* of the omit timer.                                                      *)
Behind == AtReporter \/ (pc = "call" /\ NextOp(ops) = "reporter")

Order ==
  /\ (pc = "create" /\ NextOp(ops) = "reporter") \/ (Stats = None <=> Reporter = None)
  /\ pc = "create" /\ NextOp(ops) = "reporter" =>
       /\ Stats = None => setting.interval = 0
       /\ Stats # None => /\ LastOf(tmr, Stats)
                          /\ tmr.heap[Stats].time = AddUsecs(run.now, setting.interval)
  /\ Reporter # None /\ ~Behind => Together(tmr, Stats, Reporter)
  /\ Reporter # None /\ Behind => LastOf(tmr, Stats)
  /\ AtReporter => tmr.heap[Stats].time = AddUsecs(tmr.heap[Reporter].time, setting.interval)
  /\ AtReporter /\ pc = "visit" => Due(tmr, Reporter, run.now)
  /\ pc = "call" /\ Stats # None /\ run.t = Stats =>
       run.next = Reporter /\ Due(tmr, Reporter, run.now)
  /\ pc = "call" /\ Reporter # None /\ run.next = Reporter => run.t = Stats
  /\ pc = "call" /\ NextOp(ops) = "reporter" /\ Stats # None =>
       tmr.heap[Stats].time = AddUsecs(run.now, setting.interval)

LEMMA PairFacts ==
  ASSUME TimerInv
  PROVE  /\ Stats \in Nat /\ Reporter \in Nat
         /\ Stats # None => /\ Active(Stats) /\ Stats \in 1..Len(tmr.heap)
                            /\ tmr.heap[Stats].proc = "stats" /\ setting.interval # 0
                            /\ Stats # Reporter
         /\ Reporter # None => /\ Active(Reporter) /\ Reporter \in 1..Len(tmr.heap)
                               /\ tmr.heap[Reporter].proc = "reporter"
         /\ Periods["stats"] = setting.interval /\ Periods["reporter"] = setting.interval
         /\ setting.interval \in Nat
<1>1. SlotsOK /\ HeapOK /\ setting \in Settings /\ slot \in [Slots -> Nat]
  BY DEF TimerInv, SlotsOK, Data
<1>2. "stats" \in Slots /\ "reporter" \in Slots
  BY DEF Slots
<1>3. /\ Periods["stats"] = setting.interval /\ Periods["reporter"] = setting.interval
      /\ setting.interval \in Nat
  BY <1>1, PeriodsType, SettingFields
<1>4. /\ Stats \in Nat /\ Reporter \in Nat
      /\ Stats # None => Active(Stats) /\ tmr.heap[Stats].proc = "stats"
      /\ Reporter # None => Active(Reporter) /\ tmr.heap[Reporter].proc = "reporter"
  BY <1>1, <1>2 DEF SlotsOK, Stats, Reporter
<1>5. /\ Stats # None => Stats \in 1..Len(tmr.heap)
      /\ Reporter # None => Reporter \in 1..Len(tmr.heap)
  BY <1>4, ProcInSlots
<1>6. Stats # None => setting.interval # 0
  BY <1>1, <1>3, <1>4, <1>5 DEF HeapOK
<1>7. QED BY <1>3, <1>4, <1>5, <1>6

(* The timer that tmr_run is at.                                           *)
LEMMA VisitedSlot ==
  ASSUME TimerInv, pc \in {"visit", "call"}, run.t # None
  PROVE  /\ run.t \in Nat /\ Active(run.t) /\ run.t \in 1..Len(tmr.heap) /\ Proc \in Slots
         /\ Proc = "stats" <=> run.t = Stats
         /\ Proc = "reporter" <=> run.t = Reporter
<1>1. SlotsOK /\ RunOK /\ run.t \in Nat /\ Active(run.t)
  BY DEF TimerInv, RunOK
<1>2. run.t \in 1..Len(tmr.heap) /\ Proc \in Slots
  BY <1>1, ProcInSlots DEF Proc
<1>3. Proc \in Periodic => slot[Proc] = run.t
  BY <1>1 DEF SlotsOK, RunOK, Proc
<1>4. QED BY <1>1, <1>2, <1>3, PairFacts DEF Stats, Reporter, Periodic, Proc

LEMMA OrderKept ==
  ASSUME TimerInv, Order, UNCHANGED <<setting, tmr, slot, run, pc>>,
         NextOp(ops') = "reporter" <=> NextOp(ops) = "reporter"
  PROVE  Order'
<1>1. Stats' = Stats /\ Reporter' = Reporter
  BY DEF Stats, Reporter
<1>2. (AtReporter' <=> AtReporter) /\ (Behind' <=> Behind)
  BY <1>1 DEF AtReporter, Behind
<1>3. QED BY <1>1, <1>2 DEF Order

LEMMA OrderMoves ==
  ASSUME TimerInv, Order, UNCHANGED <<setting, tmr, slot>>, ~Behind, ~Behind',
         pc # "create", pc' \notin {"create", "call"}
  PROVE  Order'
<1>1. Stats' = Stats /\ Reporter' = Reporter
  BY DEF Stats, Reporter
<1>2. ~AtReporter'
  BY DEF Behind
<1>3. Stats = None <=> Reporter = None
  BY DEF Order
<1>4. Reporter # None => Together(tmr, Stats, Reporter)
  BY DEF Order
<1>5. Stats' = None <=> Reporter' = None
  BY <1>1, <1>3
<1>6. Reporter' # None => Together(tmr', Stats', Reporter')
  BY <1>1, <1>4
<1>7. QED BY <1>2, <1>5, <1>6 DEF Order

LEMMA OrderCreate == ASSUME TimerInv, TimerInv', Order, CreateTimer PROVE Order'
<1>1. /\ SlotsOK /\ RunOK /\ OpsOK /\ pc = "create" /\ UNCHANGED <<setting, pc, run>>
      /\ ops # <<>> /\ ops' = Tail(ops) /\ Create(Head(ops), run.now) /\ run.now \in Times
  BY DEF TimerInv, RunOK, CreateTimer, env, loop
<1>2. /\ ops \in CreateLeft /\ ops' \in CreateLeft /\ NextOp(ops) = Head(ops)
      /\ NextOp(ops) = "timer" => NextOp(ops') = "stats"
      /\ NextOp(ops) = "stats" => NextOp(ops') = "reporter"
      /\ NextOp(ops) = "reporter" => NextOp(ops') = "none"
      /\ NextOp(ops) \in {"timer", "stats", "reporter"}
  BY <1>1, CreateTake, OpsLeft DEF OpsOK
<1>3. ~AtReporter' /\ ~Behind'
  BY <1>1 DEF AtReporter, Behind
<1> DEFINE s == NextOp(ops)
<1>4. s \in Slots /\ slot[s] = None /\ Create(s, run.now)
      /\ (s \in {"timer", "stats"} => Stats = None) /\ Reporter = None
  BY <1>1, <1>2 DEF SlotsOK, Slots, Stats, Reporter
<1>5. "stats" \in Slots /\ "reporter" \in Slots /\ "timer" \in Slots
  BY DEF Slots
<1> HIDE DEF s
<1>6. /\ \A r \in Slots : r # s => slot'[r] = slot[r]
      /\ slot'[s] = None <=> Periods[s] = 0
      /\ slot'[s] # None =>
           /\ LastOf(tmr', slot'[s])
           /\ tmr'.heap[slot'[s]].time = AddUsecs(run.now, Periods[s])
           /\ \A x : LastOf(tmr, x) /\ tmr.heap[x].time = AddUsecs(run.now, Periods[s])
                     => Together(tmr', x, slot'[s])
  BY <1>1, <1>4, CreateFacts
<1>7. CASE s = "timer"
  <2>1. Stats' = None /\ Reporter' = None
    BY <1>4, <1>5, <1>6, <1>7 DEF Stats, Reporter
  <2>2. NextOp(ops') = "stats"
    BY <1>2, <1>7 DEF s
  <2>3. QED BY <1>1, <1>3, <2>1, <2>2 DEF Order
<1>8. CASE s = "stats"
  <2>1. Stats' = slot'[s] /\ Reporter' = None
    BY <1>4, <1>5, <1>6, <1>8 DEF Stats, Reporter
  <2>2. NextOp(ops') = "reporter"
    BY <1>2, <1>8 DEF s
  <2>3. Periods[s] = setting.interval
    BY <1>8, PairFacts
  <2>4. QED BY <1>1, <1>3, <1>6, <2>1, <2>2, <2>3 DEF Order
<1>9. CASE s = "reporter"
  <2>1. Reporter' = slot'[s] /\ Stats' = Stats
    BY <1>5, <1>6, <1>9 DEF Stats, Reporter
  <2>2. NextOp(ops') = "none" /\ pc = "create" /\ NextOp(ops) = "reporter"
    BY <1>1, <1>2, <1>9 DEF s
  <2>3. Periods[s] = setting.interval
    BY <1>9, PairFacts
  <2>4. Stats = None <=> setting.interval = 0
    BY <2>2, PairFacts DEF Order
  <2>5. Stats # None => /\ LastOf(tmr, Stats)
                        /\ tmr.heap[Stats].time = AddUsecs(run.now, setting.interval)
    BY <2>2 DEF Order
  <2>6. Reporter' # None => Together(tmr', Stats', Reporter')
    BY <1>6, <2>1, <2>3, <2>4, <2>5
  <2>7. Stats' = None <=> Reporter' = None
    BY <1>6, <2>1, <2>3, <2>4
  <2>8. QED BY <1>1, <1>3, <2>2, <2>6, <2>7 DEF Order
<1>10. QED BY <1>2, <1>7, <1>8, <1>9 DEF s

LEMMA OrderOmit == ASSUME TimerInv, Order, CreateOmitTimer PROVE Order'
<1>1. /\ SlotsOK /\ pc = "create" /\ setting' = setting /\ pc' \in {"visit", "loop"}
      /\ ops = <<>> /\ Create("omit", clock) /\ clock \in Times /\ run' = NoRun
  BY DEF TimerInv, Data, CreateOmitTimer, env, callback
<1>2. "omit" \in Slots /\ slot["omit"] = None /\ "stats" \in Slots /\ "reporter" \in Slots
      /\ NextOp(ops) = "none" /\ run'.t = None
  BY <1>1, OpsLeft, NoRunFacts DEF SlotsOK, Slots
<1>3. /\ \A r \in Slots : r # "omit" => slot'[r] = slot[r]
      /\ \A x, y : Together(tmr, x, y) => Together(tmr', x, y)
  BY <1>1, <1>2, CreateFacts
<1>4. Stats' = Stats /\ Reporter' = Reporter
  BY <1>2, <1>3 DEF Stats, Reporter
<1>5. ~Behind /\ ~AtReporter' /\ ~Behind'
  BY <1>1, <1>2, <1>4 DEF Behind, AtReporter
<1>6. /\ Stats = None <=> Reporter = None
      /\ Reporter # None => Together(tmr, Stats, Reporter)
  BY <1>2, <1>5 DEF Order
<1>7. /\ Stats' = None <=> Reporter' = None
      /\ Reporter' # None => Together(tmr', Stats', Reporter')
  BY <1>3, <1>4, <1>6
<1>8. QED BY <1>1, <1>5, <1>7 DEF Order

(* Two timers of the same time are due together.                           *)
LEMMA DueTogether ==
  ASSUME NEW tm, NEW x, NEW y, Together(tm, x, y), NEW now, Due(tm, x, now)
  PROVE  Due(tm, y, now)
BY DEF Together, Due

LEMMA OrderCall == ASSUME TimerInv, Order, Call PROVE Order'
<1>1. /\ TimersOK(tmr) /\ RunOK /\ OpsOK /\ SlotsOK /\ pc = "visit" /\ pc' = "call"
      /\ UNCHANGED <<setting, tmr>> /\ run.t # None /\ Due(tmr, run.t, run.now)
      /\ run' = [run EXCEPT !.next = NextOf(tmr, run.t)]
  BY DEF TimerInv, Call, env
<1>2. /\ run.t \in Nat /\ Active(run.t) /\ Proc \in Slots
      /\ Proc = "stats" <=> run.t = Stats
      /\ Proc = "reporter" <=> run.t = Reporter
  BY <1>1, VisitedSlot
<1>3. run'.t = run.t /\ run'.next = NextOf(tmr, run.t) /\ run'.now = run.now
  BY <1>1 DEF RunOK
<1>4. /\ NextOf(tmr, run.t) # None => NextOf(tmr, run.t) # run.t
      /\ \A y : Together(tmr, run.t, y) => NextOf(tmr, run.t) = y
      /\ \A x, y : Together(tmr, x, y) /\ NextOf(tmr, run.t) = y => x = run.t
  BY <1>1, <1>2, NextActive DEF Active
<1>5. /\ slot' = slot \/ slot' = [slot EXCEPT !["timer"] = None] \/ slot' = [slot EXCEPT !["omit"] = None]
      /\ ops' \in {<<>>, StatsOps, ResetOps}
  BY DEF Call, TestTimerProc, StatsTimerProc, ReporterTimerProc, OmitTimerProc
<1>6. Stats' = Stats /\ Reporter' = Reporter
  BY <1>1, <1>5 DEF Stats, Reporter, SlotsOK, Slots
<1>7. NextOp(ops') # "reporter" /\ ops = <<>> /\ NextOp(ops) # "reporter"
  BY <1>1, <1>5, OpsLeft DEF OpsOK
<1>8. (AtReporter' <=> AtReporter) /\ (Behind' <=> Behind) /\ (Behind <=> AtReporter)
  BY <1>1, <1>3, <1>6, <1>7 DEF AtReporter, Behind
<1>9. Stats = None <=> Reporter = None
  BY <1>1 DEF Order
<1>10. ASSUME Stats # None, run.t = Stats
       PROVE  run'.next = Reporter /\ Due(tmr, Reporter, run.now)
  <2>1. Stats # Reporter
    BY <1>10, PairFacts
  <2>2. ~AtReporter
    BY <1>10, <2>1 DEF AtReporter
  <2>3. Together(tmr, Stats, Reporter)
    BY <1>8, <1>9, <1>10, <2>2 DEF Order
  <2>4. QED BY <1>1, <1>3, <1>4, <1>10, <2>3, DueTogether
<1>11. ASSUME Reporter # None, run'.next = Reporter PROVE run.t = Stats
  <2>1. ~AtReporter
    BY <1>3, <1>4, <1>11 DEF AtReporter
  <2>2. Together(tmr, Stats, Reporter)
    BY <1>8, <1>11, <2>1 DEF Order
  <2>3. QED BY <1>3, <1>4, <1>11, <2>2
<1>12. QED
  BY <1>1, <1>3, <1>6, <1>7, <1>8, <1>9, <1>10, <1>11 DEF Order

LEMMA OrderReturn == ASSUME TimerInv, Order, Return PROVE Order'
<1>1. /\ RunOK /\ pc = "call" /\ pc' = "visit" /\ ops = <<>>
      /\ UNCHANGED <<setting, slot, ops>> /\ run.t # None
  BY DEF TimerInv, RunOK, Return, env, callback
<1>2. run'.t = run.next /\ run'.next = None /\ run'.now = run.now
  BY ReturnFacts
<1>3. /\ Stats' = Stats /\ Reporter' = Reporter /\ NextOp(ops) = "none" /\ NextOp(ops') = "none"
  BY <1>1, OpsLeft DEF Stats, Reporter
<1>4. /\ run.t \in Nat /\ Active(run.t) /\ run.t \in 1..Len(tmr.heap) /\ Proc \in Slots
      /\ Proc = "stats" <=> run.t = Stats
      /\ Proc = "reporter" <=> run.t = Reporter
  BY <1>1, VisitedSlot
<1>5. Stats = None <=> Reporter = None
  BY <1>1 DEF Order
<1>6. run.next # None => run.next # run.t
  BY <1>1 DEF RunOK
<1>7. CASE run.t = Stats
  <2>1. /\ Stats # None /\ Reporter # None /\ Stats # Reporter /\ Proc = "stats"
        /\ run.next = Reporter /\ Due(tmr, Reporter, run.now)
        /\ Periods["stats"] = setting.interval
        /\ Stats \in 1..Len(tmr.heap) /\ Reporter \in 1..Len(tmr.heap)
    BY <1>1, <1>4, <1>5, <1>7, PairFacts DEF Order
  <2>2. ~Behind
    BY <1>3, <1>7, <2>1 DEF Behind, AtReporter
  <2>3. Together(tmr, Stats, Reporter)
    BY <2>1, <2>2 DEF Order
  <2>4. tmr.heap[Stats].time = tmr.heap[Reporter].time
    BY <2>3 DEF Together
  <2>5. Resorts(tmr, Stats, AddUsecs(tmr.heap[Stats].time, setting.interval), tmr')
    BY <1>7, <2>1, ReturnFacts DEF Periodic
  <2>6. /\ tmr'.heap[Reporter] = tmr.heap[Reporter] /\ LastOf(tmr', Stats)
        /\ tmr'.heap[Stats].time = AddUsecs(tmr.heap[Stats].time, setting.interval)
    BY <2>1, <2>5 DEF Resorts, SameObject
  <2>7. Due(tmr', Reporter, run.now)
    BY <2>1, <2>6 DEF Due
  <2>8. AtReporter' /\ Behind'
    BY <1>1, <1>2, <1>3, <2>1 DEF AtReporter, Behind
  <2>9. tmr'.heap[Stats].time = AddUsecs(tmr'.heap[Reporter].time, setting.interval)
    BY <2>4, <2>6
  <2>10. QED BY <1>1, <1>2, <1>3, <1>5, <2>6, <2>7, <2>8, <2>9 DEF Order
<1>8. CASE run.t = Reporter
  <2>1. /\ Reporter # None /\ Stats # None /\ Stats # Reporter /\ Proc = "reporter"
        /\ Periods["reporter"] = setting.interval
    BY <1>1, <1>4, <1>5, <1>8, PairFacts
  <2>2. AtReporter /\ Behind
    BY <1>1, <1>8, <2>1 DEF AtReporter, Behind
  <2>3. /\ LastOf(tmr, Stats)
        /\ tmr.heap[Stats].time = AddUsecs(tmr.heap[Reporter].time, setting.interval)
    BY <2>1, <2>2 DEF Order
  <2>4. Resorts(tmr, Reporter, AddUsecs(tmr.heap[Reporter].time, setting.interval), tmr')
    BY <1>8, <2>1, ReturnFacts DEF Periodic
  <2>5. Together(tmr', Stats, Reporter)
    BY <2>1, <2>3, <2>4 DEF Resorts
  <2>6. ~AtReporter' /\ ~Behind'
    BY <1>1, <1>2, <1>3, <1>6, <1>8, <2>1 DEF AtReporter, Behind
  <2>7. QED BY <1>1, <1>3, <1>5, <2>5, <2>6 DEF Order
<1>9. CASE run.t # Stats /\ run.t # Reporter
  <2>1. Proc \notin Periodic
    BY <1>4, <1>9 DEF Periodic
  <2>2. \A x, y : x # run.t /\ y # run.t /\ Together(tmr, x, y) => Together(tmr', x, y)
    BY <2>1, ReturnFacts
  <2>3. ~Behind
    BY <1>3, <1>9 DEF Behind, AtReporter
  <2>4. Reporter # None => Together(tmr', Stats, Reporter)
    BY <1>9, <2>2, <2>3 DEF Order
  <2>5. Reporter # None => run.next # Reporter
    BY <1>1, <1>9 DEF Order
  <2>6. ~AtReporter' /\ ~Behind'
    BY <1>1, <1>2, <1>3, <2>5 DEF AtReporter, Behind
  <2>7. QED BY <1>1, <1>3, <1>5, <2>4, <2>6 DEF Order
<1>10. QED BY <1>7, <1>8, <1>9

LEMMA OrderReset ==
  ASSUME TimerInv, Data', Order, NEW s \in {"stats", "reporter"}, ResetTimer(s) PROVE Order'
<1>1. /\ Doing(s) /\ UNCHANGED <<setting, slot, pc, run>> /\ RunOK
      /\ tmr' = IF slot[s] = None THEN tmr ELSE TmrReset(tmr, run.now, slot[s])
  BY DEF ResetTimer, env, loop, TimerInv
<1>2. /\ pc = "call" /\ Proc = "omit" /\ NextOp(ops) = s
      /\ s = "stats" => NextOp(ops') = "reporter"
      /\ s = "reporter" => NextOp(ops') = "none"
  BY <1>1, DoingReset, OpsLeft
<1>3. Stats' = Stats /\ Reporter' = Reporter
  BY <1>1 DEF Stats, Reporter
<1>4. run.t # None /\ run.t # Stats /\ run.t # Reporter
  <2>1. run.t # None
    BY <1>1, <1>2 DEF RunOK
  <2>2. QED BY <1>2, <2>1, VisitedSlot
<1>5. ~AtReporter /\ ~AtReporter' /\ (Behind' <=> s = "stats") /\ (Behind <=> s = "reporter")
  BY <1>1, <1>2, <1>3, <1>4 DEF AtReporter, Behind
<1>6. Stats = None <=> Reporter = None
  BY <1>2 DEF Order
<1>7. CASE Stats = None
  BY <1>1, <1>2, <1>3, <1>5, <1>6, <1>7 DEF Order
<1>8. CASE Stats # None
  <2>1. /\ Stats # Reporter /\ Periods["stats"] = setting.interval
        /\ Periods["reporter"] = setting.interval
    BY <1>8, PairFacts
  <2>2. slot[s] # None =>
          Resorts(tmr, slot[s], AddUsecs(run.now, Periods[s]), tmr')
    BY ResetKeeps
  <2>3. Resorts(tmr, slot[s], AddUsecs(run.now, setting.interval), tmr')
    BY <1>6, <1>8, <2>1, <2>2 DEF Stats, Reporter
  <2>4. pc = "call" /\ Reporter # None /\ run.next = Reporter => run.t = Stats
    BY DEF Order
  <2>5. CASE s = "stats"
    <3>1. Resorts(tmr, Stats, AddUsecs(run.now, setting.interval), tmr')
      BY <2>3, <2>5 DEF Stats
    <3>2. /\ LastOf(tmr', Stats)
          /\ tmr'.heap[Stats].time = AddUsecs(run.now, setting.interval)
      BY <3>1 DEF Resorts, SameObject
    <3>3. QED BY <1>1, <1>2, <1>3, <1>4, <1>5, <1>6, <2>4, <2>5, <3>2 DEF Order
  <2>6. CASE s = "reporter"
    <3>1. Resorts(tmr, Reporter, AddUsecs(run.now, setting.interval), tmr')
      BY <2>3, <2>6 DEF Reporter
    <3>2. LastOf(tmr, Stats) /\ tmr.heap[Stats].time = AddUsecs(run.now, setting.interval)
      BY <1>2, <1>5, <1>6, <1>8, <2>6 DEF Order
    <3>3. Together(tmr', Stats, Reporter)
      BY <2>1, <3>1, <3>2 DEF Resorts
    <3>4. QED BY <1>1, <1>2, <1>3, <1>4, <1>5, <1>6, <2>4, <2>6, <3>3 DEF Order
  <2>7. QED BY <2>5, <2>6
<1>9. QED BY <1>7, <1>8

(* tmr_run does not stop at the reporter's timer.                          *)
LEMMA NotAtReporter ==
  ASSUME TimerInv, Order, pc \in {"loop", "join", "final", "ended"} \/ RunEnds
  PROVE  ~Behind
<1>1. pc # "call"
  BY DEF RunEnds
<1>2. ASSUME AtReporter PROVE FALSE
  <2>1. pc = "visit" /\ Reporter # None /\ run.t = Reporter /\ RunEnds
    BY <1>1, <1>2 DEF AtReporter
  <2>2. Due(tmr, Reporter, run.now)
    BY <1>2, <2>1 DEF Order
  <2>3. QED BY <2>1, <2>2 DEF RunEnds
<1>3. QED BY <1>1, <1>2 DEF Behind

LEMMA OrderStep == ASSUME TimerInv, Order, [Next]_vars PROVE Order'
<1>1. TimerInv' /\ Data' /\ OpsOK /\ RunOK /\ SlotsOK /\ SlotsOK' /\ TimersOK(tmr)
  BY TimerStep DEF TimerInv
<1>2. CASE CreateTimers \/ Cleanup
  <2>1. pc' \in {"create", "idle"} /\ NextOp(ops') # "reporter"
    <3>1. CASE CreateTimers
      BY <3>1, OpsLeft DEF CreateTimers
    <3>2. CASE Cleanup
      BY <1>1, <3>2, OpsLeft DEF Cleanup, callback, OpsOK
    <3>3. QED BY <1>2, <3>1, <3>2
  <2>2. Stats' = None /\ Reporter' = None
    <3>1. CASE CreateTimers
      BY <1>1, <3>1 DEF CreateTimers, timers, SlotsOK, Slots, Stats, Reporter
    <3>2. CASE Cleanup
      BY <3>2 DEF Cleanup, Slots, Stats, Reporter
    <3>3. QED BY <1>2, <3>1, <3>2
  <2>3. ~AtReporter' /\ ~Behind'
    BY <2>1 DEF AtReporter, Behind
  <2>4. QED BY <2>1, <2>2, <2>3 DEF Order
<1>3. CASE CreateTimer
  BY <1>1, <1>3, OrderCreate
<1>4. CASE CreateOmitTimer
  BY <1>4, OrderOmit
<1>5. CASE Select
  <2>1. /\ pc = "loop" /\ pc' = "visit" /\ UNCHANGED <<setting, tmr, slot, ops>>
        /\ run' = [now |-> clock, t |-> First(tmr), next |-> None]
    BY <1>5 DEF Select, env, timers, callback
  <2>2. ~Behind
    BY <2>1, NotAtReporter
  <2>3. Reporter # None => Together(tmr, Stats, Reporter)
    BY <2>2 DEF Order
  <2>4. Reporter # None => First(tmr) # Reporter
    BY <1>1, <2>3, FirstActive
  <2>5. ~Behind'
    BY <2>1, <2>4 DEF Behind, AtReporter, Reporter
  <2>6. QED BY <2>1, <2>2, <2>5, OrderMoves
<1>6. CASE Call
  BY <1>6, OrderCall
<1>7. CASE Return
  BY <1>7, OrderReturn
<1>8. CASE ReadInterval \/ ReadTotal \/ SaveInterval
  <2>1. PICK op \in {"read", "total", "save"} : Doing(op)
    BY <1>8 DEF ReadInterval, ReadTotal, SaveInterval
  <2>2. UNCHANGED <<setting, tmr, slot, run, pc>>
    BY <1>8 DEF ReadInterval, ReadTotal, SaveInterval, env, timers, loop
  <2>3. NextOp(ops) # "reporter" /\ NextOp(ops') # "reporter"
    BY <2>1, DoingStats, OpsLeft
  <2>4. QED BY <2>2, <2>3, OrderKept
<1>9. CASE ZeroTestBytes \/ OmitBytes \/ ZeroInterval
  <2>1. PICK op \in {"test", "bytes", "interval"} : Doing(op)
    BY <1>9 DEF ZeroTestBytes, OmitBytes, ZeroInterval
  <2>2. UNCHANGED <<setting, tmr, slot, run, pc>>
    BY <1>9 DEF ZeroTestBytes, OmitBytes, ZeroInterval, env, timers, loop
  <2>3. NextOp(ops) # "reporter" /\ NextOp(ops') # "reporter"
    BY <2>1, DoingReset
  <2>4. QED BY <2>2, <2>3, OrderKept
<1>10. CASE \E s \in {"stats", "reporter"} : ResetTimer(s)
  BY <1>1, <1>10, OrderReset
<1>11. CASE CheckClient \/ CheckServer \/ WakeToCheck \/ HandleDone \/ LastReport
            \/ JoinSender \/ HandleTestEnd
  <2>1. /\ pc \in {"loop", "join", "final"} \/ RunEnds
        /\ pc # "create" /\ pc' \in {"loop", "join", "final", "ended"}
        /\ UNCHANGED <<setting, tmr, slot>>
    BY <1>11 DEF CheckClient, CheckServer, WakeToCheck, HandleDone, LastReport, JoinSender,
         HandleTestEnd, RunEnds, env, timers
  <2>2. ~Behind
    BY <2>1, NotAtReporter
  <2>3. ~Behind'
    BY <2>1 DEF Behind, AtReporter
  <2>4. QED BY <2>1, <2>2, <2>3, OrderMoves
<1>12. CASE Worker \/ Tick \/ UNCHANGED vars
  <2>1. UNCHANGED <<setting, tmr, slot, run, pc, ops>>
    BY <1>12 DEF Worker, CountStream, CountInterval, CountTest, Tick, vars, env, main, timers,
         loop, callback
  <2>2. QED BY <2>1, OrderKept
<1>13. QED
  BY <1>2, <1>3, <1>4, <1>5, <1>6, <1>7, <1>8, <1>9, <1>10, <1>11, <1>12 DEF Next, Main

(* An interval has been gathered and its report is still to come.          *)
Waiting ==
  \/ pc = "visit" /\ AtReporter /\ ~ done
  \/ pc = "call" /\ Stats # None /\ run.t = Stats /\ ~ done /\ ops = <<>>
  \/ pc = "final" /\ ops = <<>>

Reports ==
  /\ seen.unreported = IF Waiting THEN 1 ELSE 0
  /\ pc = "call" /\ Proc = "stats" /\ ops # <<>> => ~ done

LEMMA ReportsStep == ASSUME TimerInv, Order, Reports, [Next]_vars PROVE Reports'
<1>1. /\ OpsOK /\ RunOK /\ SlotsOK /\ TimersOK(tmr) /\ seen \in SeenType
      /\ seen.unreported \in Int /\ done \in BOOLEAN
  BY SeenTypes DEF TimerInv, Data
<1>2. /\ NextOp(<<>>) = "none" /\ NextOp(StatsOps) = "read" /\ StatsOps # <<>> /\ ResetOps # <<>>
  BY OpsLeft
<1>3. CASE CreateTimers
  <2>1. pc' = "create" /\ seen'.unreported = 0
    BY <1>3 DEF CreateTimers, NothingSeen
  <2>2. QED BY <2>1 DEF Reports, Waiting
<1>4. CASE CreateTimer \/ Cleanup
  <2>1. pc \in {"create", "ended"} /\ pc' \in {"create", "idle"} /\ seen' = seen
    BY <1>4 DEF CreateTimer, Cleanup, loop, results
  <2>2. QED BY <2>1 DEF Reports, Waiting
<1>5. CASE CreateOmitTimer
  <2>1. pc = "create" /\ pc' \in {"visit", "loop"} /\ seen' = seen /\ run' = NoRun
    BY <1>5 DEF CreateOmitTimer, results
  <2>2. ~Waiting' /\ ~Waiting
    BY <2>1 DEF Waiting, AtReporter, NoRun
  <2>3. QED BY <2>1, <2>2 DEF Reports
<1>6. CASE Select
  <2>1. /\ pc = "loop" /\ pc' = "visit" /\ UNCHANGED <<tmr, slot, seen>>
        /\ run' = [now |-> clock, t |-> First(tmr), next |-> None]
    BY <1>6 DEF Select, timers, results
  <2>2. Reporter # None => Together(tmr, Stats, Reporter)
    BY <2>1, NotAtReporter DEF Order
  <2>3. Reporter # None => First(tmr) # Reporter
    BY <1>1, <2>2, FirstActive
  <2>4. ~Waiting /\ ~Waiting'
    BY <2>1, <2>3 DEF Waiting, AtReporter, Reporter
  <2>5. QED BY <2>1, <2>4 DEF Reports
<1>7. CASE Call
  <2>1. /\ pc = "visit" /\ pc' = "call" /\ run.t # None /\ tmr' = tmr
        /\ run' = [run EXCEPT !.next = NextOf(tmr, run.t)]
    BY <1>7 DEF Call
  <2>2. /\ Proc \in Slots
        /\ Proc = "stats" <=> run.t = Stats
        /\ Proc = "reporter" <=> run.t = Reporter
    BY <2>1, VisitedSlot
  <2>3. run'.t = run.t /\ Proc' = Proc
    BY <1>1, <2>1 DEF RunOK, Proc
  <2>4. CASE Proc = "stats"
    <3>1. StatsTimerProc
      BY <1>7, <2>4 DEF Call, Proc
    <3>2. /\ ops' = IF done THEN <<>> ELSE StatsOps
          /\ seen'.unreported = seen.unreported /\ UNCHANGED <<slot, done>>
      BY <1>1, <3>1 DEF StatsTimerProc, SeenType, flags
    <3>3. ~Waiting
      BY <2>1, <2>2, <2>4 DEF Waiting, AtReporter
    <3>4. ~Waiting'
      BY <1>2, <2>1, <3>2 DEF Waiting
    <3>5. QED BY <1>2, <3>2, <3>3, <3>4 DEF Reports
  <2>5. CASE Proc = "reporter"
    <3>1. ReporterTimerProc
      BY <1>7, <2>5 DEF Call, Proc
    <3>2. /\ ops' = <<>> /\ UNCHANGED <<slot, done>>
          /\ seen'.unreported = IF done THEN seen.unreported ELSE seen.unreported - 1
      BY <1>1, <3>1 DEF ReporterTimerProc, SeenType, flags
    <3>3. Waiting <=> ~ done
      BY <2>1, <2>2, <2>5 DEF Waiting, AtReporter
    <3>4. ~Waiting'
      BY <2>1, <2>2, <2>3, <2>5, <3>2, PairFacts DEF Waiting, Stats, Reporter
    <3>5. QED BY <1>1, <3>2, <3>3, <3>4 DEF Reports
  <2>6. CASE Proc \notin {"stats", "reporter"}
    <3>1. TestTimerProc \/ OmitTimerProc
      BY <1>7, <2>6 DEF Call, Proc
    <3>2. /\ seen'.unreported = seen.unreported
          /\ slot' = [slot EXCEPT !["timer"] = None] \/ slot' = [slot EXCEPT !["omit"] = None]
      <4>1. CASE TestTimerProc
        BY <1>1, <4>1 DEF TestTimerProc, ClientTimer, ServerTimer, ServerTimerLate, SeenType
      <4>2. CASE OmitTimerProc
        BY <1>1, <4>2 DEF OmitTimerProc, SeenType
      <4>3. QED BY <3>1, <4>1, <4>2
    <3>3. Stats' = Stats
      BY <1>1, <3>2 DEF SlotsOK, Slots, Stats
    <3>4. ~Waiting /\ ~Waiting'
      BY <2>1, <2>2, <2>3, <2>6, <3>3 DEF Waiting, AtReporter
    <3>5. QED BY <2>3, <2>6, <3>2, <3>4 DEF Reports
  <2>7. QED BY <2>4, <2>5, <2>6
<1>8. CASE Return
  <2>1. /\ pc = "call" /\ pc' = "visit" /\ ops = <<>> /\ UNCHANGED <<slot, done, seen>>
        /\ run.t # None
    BY <1>1, <1>8 DEF Return, RunOK, flags, results
  <2>2. run'.t = run.next
    BY <1>8, ReturnFacts
  <2>3. Reporter' = Reporter
    BY <2>1 DEF Reporter
  <2>4. Stats = None <=> Reporter = None
    BY <2>1 DEF Order
  <2>5. /\ Stats # None /\ run.t = Stats => run.next = Reporter
        /\ Reporter # None /\ run.next = Reporter => run.t = Stats
    BY <2>1 DEF Order
  <2>6. Waiting' <=> Waiting
    BY <2>1, <2>2, <2>3, <2>4, <2>5 DEF Waiting, AtReporter
  <2>7. QED BY <2>1, <2>6 DEF Reports
<1>9. CASE ReadInterval \/ ReadTotal
  <2>1. PICK op \in {"read", "total"} : Doing(op)
    BY <1>9 DEF ReadInterval, ReadTotal
  <2>2. UNCHANGED <<tmr, slot, run, pc, done, seen>>
    BY <1>9 DEF ReadInterval, ReadTotal, timers, loop, flags, results
  <2>3. ops' # <<>> /\ ops # <<>> /\ pc \in {"call", "final"}
    BY <1>2, <2>1, DoingStats DEF Doing
  <2>4. ~Waiting /\ ~Waiting' /\ Proc' = Proc
    BY <2>2, <2>3 DEF Waiting, Proc
  <2>5. QED BY <2>2, <2>3, <2>4 DEF Reports
<1>10. CASE SaveInterval
  <2>1. Doing("save") /\ UNCHANGED <<tmr, slot, run, pc, done>>
    BY <1>10 DEF SaveInterval, timers, loop, flags
  <2>2. pc = "final" \/ (pc = "call" /\ Proc = "stats")
    BY <2>1, DoingStats DEF Doing
  <2>3. seen'.unreported = seen.unreported + 1
    BY <1>1, <1>10 DEF SaveInterval, SeenType
  <2>4. ops # <<>> /\ ops' = <<>>
    BY <2>1, DoingStats DEF Doing
  <2>5. ~Waiting
    BY <2>2, <2>4 DEF Waiting
  <2>6. Waiting'
    <3>1. CASE pc = "final"
      BY <2>1, <2>4, <3>1 DEF Waiting
    <3>2. CASE pc = "call" /\ Proc = "stats"
      <4>1. run.t # None /\ ~ done
        BY <1>1, <2>4, <3>2 DEF RunOK, Reports
      <4>2. run.t = Stats
        BY <3>2, <4>1, VisitedSlot
      <4>3. QED BY <2>1, <2>4, <3>2, <4>1, <4>2 DEF Waiting, Stats
    <3>3. QED BY <2>2, <3>1, <3>2
  <2>7. QED BY <1>1, <2>3, <2>4, <2>5, <2>6 DEF Reports
<1>11. CASE ZeroTestBytes \/ OmitBytes \/ ZeroInterval \/ \E s \in {"stats", "reporter"} : ResetTimer(s)
  <2>1. PICK op \in {"test", "bytes", "interval", "stats", "reporter"} : Doing(op)
    BY <1>11 DEF ZeroTestBytes, OmitBytes, ZeroInterval, ResetTimer
  <2>2. UNCHANGED <<slot, run, pc, done, seen>>
    BY <1>11 DEF ZeroTestBytes, OmitBytes, ZeroInterval, ResetTimer, timers, loop, flags, results
  <2>3. pc = "call" /\ Proc = "omit"
    BY <2>1, DoingReset
  <2>4. run.t # None
    BY <1>1, <2>3 DEF RunOK
  <2>5. run.t # Stats
    BY <2>3, <2>4, VisitedSlot
  <2>6. ~Waiting /\ ~Waiting'
    BY <2>2, <2>3, <2>5 DEF Waiting, Stats
  <2>7. Proc' = "omit"
    <3>1. TimerInv' /\ run.t \in Nat /\ Active(run.t)
      BY <1>1, <2>3, TimerStep DEF RunOK
    <3>2. CASE tmr' = tmr
      BY <2>2, <2>3, <3>2 DEF Proc
    <3>3. CASE tmr' # tmr
      <4>1. PICK s \in {"stats", "reporter"} : ResetTimer(s)
        BY <1>11, <3>3 DEF ZeroTestBytes, OmitBytes, ZeroInterval, timers
      <4>2. slot[s] # None /\ slot[s] \in Nat /\ Active(slot[s])
        BY <1>1, <3>3, <4>1 DEF ResetTimer, SlotsOK, Slots
      <4>3. /\ AddUsecs(run.now, Periods[s]) \in Times
            /\ Resorts(tmr, slot[s], AddUsecs(run.now, Periods[s]), tmr')
        BY <3>1, <4>1, <4>2, ResetKeeps DEF TimerInv
      <4>4. setting' = setting
        BY <4>1 DEF ResetTimer, env
      <4>5. \A x \in 1..Len(tmr.heap) : tmr'.heap[x].proc = tmr.heap[x].proc
        BY <4>2, <4>3, <4>4, ResortFacts
      <4>6. run.t \in 1..Len(tmr.heap)
        BY <3>1, ProcInSlots
      <4>7. QED BY <2>2, <2>3, <4>5, <4>6 DEF Proc
    <3>4. QED BY <3>2, <3>3
  <2>8. QED BY <2>2, <2>6, <2>7 DEF Reports
<1>12. CASE CheckClient \/ CheckServer \/ WakeToCheck \/ HandleDone
  <2>1. /\ pc = "loop" \/ RunEnds
        /\ pc \in {"loop", "visit"} /\ pc' \in {"loop", "join", "ended"}
    BY <1>12 DEF CheckClient, CheckServer, WakeToCheck, HandleDone, RunEnds
  <2>2. seen'.unreported = seen.unreported
    BY <1>1, <1>12 DEF CheckClient, CheckServer, WakeToCheck, HandleDone, results, SeenType
  <2>3. ~Behind
    BY <2>1, NotAtReporter
  <2>4. ~Waiting /\ ~Waiting'
    BY <2>1, <2>3 DEF Waiting, Behind
  <2>5. QED BY <2>1, <2>2, <2>4 DEF Reports
<1>13. CASE JoinSender \/ HandleTestEnd
  <2>1. /\ pc \in {"loop", "join"} /\ pc' = "final" /\ ops' = StatsOps
    BY <1>13 DEF JoinSender, HandleTestEnd
  <2>2. seen'.unreported = seen.unreported
    BY <1>1, <1>13 DEF JoinSender, HandleTestEnd, results, SeenType
  <2>3. ~Waiting /\ ~Waiting'
    BY <1>2, <2>1 DEF Waiting
  <2>4. QED BY <2>1, <2>2, <2>3 DEF Reports
<1>14. CASE LastReport
  <2>1. /\ pc = "final" /\ ops = <<>> /\ pc' \in {"ended", "loop"}
    BY <1>14 DEF LastReport
  <2>2. seen'.unreported = seen.unreported - 1
    BY <1>1, <1>14 DEF LastReport, SeenType
  <2>3. Waiting /\ ~Waiting'
    BY <2>1 DEF Waiting
  <2>4. QED BY <1>1, <2>1, <2>2, <2>3 DEF Reports
<1>15. CASE Worker \/ Tick \/ UNCHANGED vars
  <2>1. UNCHANGED <<tmr, slot, run, pc, ops, done>>
    BY <1>15 DEF Worker, CountStream, CountInterval, CountTest, Tick, vars, main, timers,
         loop, callback, flags
  <2>2. seen'.unreported = seen.unreported
    BY <1>1, <1>15 DEF Worker, CountStream, CountInterval, CountTest, Tick, vars, results, SeenType
  <2>3. (Waiting' <=> Waiting) /\ Proc' = Proc
    BY <2>1 DEF Waiting, AtReporter, Stats, Reporter, Proc
  <2>4. QED BY <2>1, <2>2, <2>3 DEF Reports
<1>16. QED
  BY <1>3, <1>4, <1>5, <1>6, <1>7, <1>8, <1>9, <1>10, <1>11, <1>12, <1>13, <1>14, <1>15
     DEF Next, Main

(* Each interval that iperf_stats_callback gathers is reported once before *)
(* the next one, for every period, however late tmr_run is and whatever    *)
(* the other timers do: the two periodic timers have the same time and     *)
(* follow each other in the list, or the callback that runs restores this. *)
(* It holds even when the 32 bits of the seconds wrap around.              *)
THEOREM EveryIntervalReported == Spec => []OneReportPerInterval
<1>1. Init => Order /\ Reports
  <2> SUFFICES ASSUME Init PROVE Order /\ Reports
    OBVIOUS
  <2>1. Stats = None /\ Reporter = None /\ pc = "idle" /\ seen.unreported = 0
    BY DEF Init, Slots, NothingSeen, Stats, Reporter
  <2>2. ~AtReporter /\ ~Behind /\ ~Waiting
    BY <2>1 DEF AtReporter, Behind, Waiting
  <2>3. QED BY <2>1, <2>2 DEF Order, Reports
<1>2. TimerInv /\ Order /\ [Next]_vars => Order'
  BY OrderStep
<1>3. TimerInv /\ Order /\ Reports /\ [Next]_vars => Reports'
  BY ReportsStep
<1>4. Reports => OneReportPerInterval
  BY DEF Reports, OneReportPerInterval
<1>5. QED
  BY <1>1, <1>2, <1>3, <1>4, TimersHold, PTL DEF Spec

----------------------------------------------------------------------------
(* Lateness.                                                               *)

(* The clock is far from the end of its 32 bits of seconds: by the longest *)
(* period and more.                                                        *)
FarFromWrap ==
  \A s \in Slots : InUsecs(clock) + Periods[s] + 1 < SecsMod * UsecsPerSec

(* The time of the intervals that have been gathered.                      *)
Gathered == seen.intervals * setting.interval

(* The callback of the stats timer runs; the omit timer's has not yet      *)
(* reset the stats timer.                                                  *)
Gathering == pc = "call" /\ Stats # None /\ run.t = Stats
Restarting == pc = "call" /\ NextOp(ops) \in {"test", "bytes", "interval", "stats"}

(* The stats timer's time is never earlier than the end of the interval    *)
(* that it is to gather next, although its time is moved by its period and *)
(* not set from the clock; the test's timer is not earlier than the end.   *)
Punctual ==
  /\ pc \in {"create", "visit", "call"} => InUsecs(run.now) <= InUsecs(clock)
  /\ seen.start + Gathered <= InUsecs(clock)
  /\ Stats # None /\ ~ Restarting =>
       At(tmr, Stats) >= seen.start + Gathered + (IF Gathering THEN 0 ELSE setting.interval)
  /\ Gathering => At(tmr, Stats) <= InUsecs(run.now)
  /\ pc = "create" \/ Restarting => seen.intervals = 0 /\ seen.start = InUsecs(run.now)
  /\ setting.omit = 0 /\ slot["timer"] # None =>
       At(tmr, slot["timer"]) >= seen.start + setting.duration
  /\ seen.by = "time" /\ setting.omit = 0 => seen.start + setting.duration <= InUsecs(clock)

LEMMA PunctualTypes ==
  ASSUME TimerInv
  PROVE  /\ InUsecs(clock) \in Nat /\ InUsecs(run.now) \in Nat
         /\ seen.intervals \in Nat /\ seen.start \in Nat
         /\ setting.interval \in Nat /\ setting.duration \in Nat /\ Gathered \in Nat
         /\ \A s \in Slots : slot[s] # None =>
              slot[s] \in 1..Len(tmr.heap) /\ At(tmr, slot[s]) \in Nat
<1>1. Data /\ RunOK /\ SlotsOK /\ TimersOK(tmr)
  BY DEF TimerInv
<1>2. clock \in Times /\ run.now \in Times /\ setting \in Settings
  BY <1>1 DEF Data, RunOK
<1>3. /\ seen.intervals \in Nat /\ seen.start \in Nat
      /\ setting.interval \in Nat /\ setting.duration \in Nat
  BY <1>1, <1>2, DataFields, SettingFields
<1>4. Gathered \in Nat
  BY <1>3 DEF Gathered
<1>5. ASSUME NEW s \in Slots, slot[s] # None
      PROVE  slot[s] \in 1..Len(tmr.heap) /\ At(tmr, slot[s]) \in Nat
  <2>1. slot[s] \in Nat /\ Active(slot[s])
    BY <1>1, <1>5 DEF SlotsOK
  <2>2. slot[s] \in 1..Len(tmr.heap)
    BY <2>1, ProcInSlots
  <2>3. QED BY <1>1, <2>2, TimeOfObject
<1>6. QED BY <1>2, <1>3, <1>4, <1>5, Fields

(* A step that moves no timer and begins no interval.                      *)
LEMMA PunctualKept ==
  ASSUME TimerInv, TimerInv', Punctual, UNCHANGED <<setting, tmr, slot>>,
         seen'.intervals = seen.intervals, seen'.start = seen.start,
         seen'.by = "time" => seen.by = "time",
         InUsecs(clock) <= InUsecs(clock'),
         pc' \in {"create", "visit", "call"} =>
           \/ run'.now = run.now /\ pc \in {"create", "visit", "call"}
           \/ run'.now \in {clock, NoRun.now},
         Gathering' <=> Gathering, Gathering => run'.now = run.now,
         pc' = "create" \/ Restarting' => (pc = "create" \/ Restarting) /\ run'.now = run.now,
         Restarting => Restarting'
  PROVE  Punctual'
<1>1. /\ InUsecs(clock) \in Nat /\ InUsecs(clock') \in Nat /\ InUsecs(run.now) \in Nat
      /\ seen.start \in Nat /\ Gathered \in Nat /\ setting.duration \in Nat
  <2>1. clock' \in Times
    BY DEF TimerInv, Data
  <2>2. QED BY <2>1, PunctualTypes, Fields
<1>2. InUsecs(NoRun.now) = 0
  BY TimeAssumption DEF NoRun, InUsecs
<1>3. Gathered' = Gathered /\ Stats' = Stats /\ slot'["timer"] = slot["timer"]
  BY DEF Gathered, Stats
<1>4. /\ pc' \in {"create", "visit", "call"} => InUsecs(run'.now) <= InUsecs(clock')
  BY <1>1, <1>2 DEF Punctual
<1>5. seen'.start + Gathered' <= InUsecs(clock')
  BY <1>1, <1>3 DEF Punctual
<1>6. /\ Stats' # None /\ ~ Restarting' =>
           At(tmr', Stats') >= seen'.start + Gathered' + (IF Gathering' THEN 0 ELSE setting'.interval)
      /\ Gathering' => At(tmr', Stats') <= InUsecs(run'.now)
  BY <1>3 DEF Punctual
<1>7. pc' = "create" \/ Restarting' => seen'.intervals = 0 /\ seen'.start = InUsecs(run'.now)
  BY DEF Punctual
<1>8. setting'.omit = 0 /\ slot'["timer"] # None =>
        At(tmr', slot'["timer"]) >= seen'.start + setting'.duration
  BY <1>3 DEF Punctual
<1>9. seen'.by = "time" /\ setting'.omit = 0 => seen'.start + setting'.duration <= InUsecs(clock')
  BY <1>1 DEF Punctual
<1>10. QED BY <1>4, <1>5, <1>6, <1>7, <1>8, <1>9 DEF Punctual

(* A time that is not later than the clock, and a period after it.         *)
LEMMA PeriodLater ==
  ASSUME TimerInv, FarFromWrap, NEW v \in Times, InUsecs(v) <= InUsecs(clock), NEW s \in Slots
  PROVE  InUsecs(AddUsecs(v, Periods[s])) = InUsecs(v) + Periods[s] /\ Periods[s] \in Nat
<1>1. Periods[s] \in Nat /\ clock \in Times
  BY PeriodsType DEF TimerInv, Data
<1>2. InUsecs(v) \in Nat /\ InUsecs(clock) \in Nat /\ SecsMod * UsecsPerSec \in Nat
  BY <1>1, Fields, TimeAssumption
<1>3. InUsecs(v) + Periods[s] < SecsMod * UsecsPerSec
  BY <1>1, <1>2 DEF FarFromWrap
<1>4. QED BY <1>1, <1>3, AddFar

LEMMA PunctualCreate ==
  ASSUME TimerInv, TimerInv', Punctual, FarFromWrap, NEW s \in Slots, NEW now \in Times,
         slot[s] = None, pc = "create", Create(s, now), s = "omit" \/ now = run.now,
         UNCHANGED <<setting, seen, clock>>,
         pc' = "create" => run'.now = run.now,
         pc' \in {"create", "loop"} \/ (pc' = "visit" /\ run' = NoRun)
  PROVE  Punctual'
<1>1. /\ InUsecs(clock) \in Nat /\ InUsecs(run.now) \in Nat
      /\ seen.intervals = 0 /\ seen.start = InUsecs(run.now) /\ run.now \in Times
      /\ setting.interval \in Nat /\ setting.duration \in Nat /\ Gathered = 0
      /\ InUsecs(run.now) <= InUsecs(clock) /\ setting \in Settings
  <2>1. /\ seen.intervals = 0 /\ seen.start = InUsecs(run.now)
        /\ InUsecs(run.now) <= InUsecs(clock)
    BY DEF Punctual
  <2>2. setting.interval \in Nat /\ setting \in Settings /\ run.now \in Times
    BY PunctualTypes DEF TimerInv, RunOK, Data
  <2>3. Gathered = 0
    BY <2>1, <2>2 DEF Gathered
  <2>4. QED BY <2>1, <2>2, <2>3, PunctualTypes
<1>2. /\ ~Gathering' /\ ~Restarting' /\ ~Gathering /\ ~Restarting /\ Gathered' = Gathered
      /\ "timer" \in Slots /\ "stats" \in Slots
  BY DEF Gathering, Restarting, Gathered, Slots
<1>3. InUsecs(NoRun.now) = 0
  BY TimeAssumption DEF NoRun, InUsecs
<1>4. /\ \A r \in Slots : r # s => slot'[r] = slot[r]
      /\ \A x : Active(x) => tmr'.heap[x] = tmr.heap[x]
      /\ slot'[s] # None => tmr'.heap[slot'[s]].time = AddUsecs(now, Periods[s])
  BY CreateFacts
<1>5. \A r \in Slots : slot[r] # None => Active(slot[r])
  BY DEF TimerInv, SlotsOK
<1>6. \A r \in Slots : r # s /\ slot'[r] # None => At(tmr', slot'[r]) = At(tmr, slot[r])
  BY <1>4, <1>5 DEF At
<1>7. s # "omit" /\ slot'[s] # None => At(tmr', slot'[s]) = seen.start + Periods[s] /\ Periods[s] \in Nat
  BY <1>1, <1>4, PeriodLater DEF At
<1>8. Stats' # None => At(tmr', Stats') >= seen.start + setting.interval
  <2>1. CASE s = "stats"
    BY <1>1, <1>7, <2>1, PeriodsType DEF Stats
  <2>2. CASE s # "stats"
    BY <1>1, <1>2, <1>4, <1>6, <2>2 DEF Stats, Punctual
  <2>3. QED BY <2>1, <2>2
<1>9. setting.omit = 0 /\ slot'["timer"] # None =>
        At(tmr', slot'["timer"]) >= seen.start + setting.duration
  <2>1. CASE s = "timer"
    <3>1. setting.duration # 0 => Periods["timer"] >= setting.duration + setting.omit
      BY <1>1, PeriodsType
    <3>2. setting.omit \in Nat
      BY <1>1, SettingFields
    <3>3. setting.omit = 0 => Periods["timer"] >= setting.duration
      <4>1. CASE setting.duration = 0
        BY <1>1, <1>2, <4>1, PeriodsType
      <4>2. CASE setting.duration # 0
        BY <1>1, <3>1, <3>2, <4>2
      <4>3. QED BY <4>1, <4>2
    <3>4. QED BY <1>1, <1>7, <2>1, <3>3
  <2>2. CASE s # "timer"
    BY <1>2, <1>4, <1>6, <2>2 DEF Punctual
  <2>3. QED BY <2>1, <2>2
<1>10. pc' \in {"create", "visit", "call"} => InUsecs(run'.now) <= InUsecs(clock')
  BY <1>1, <1>3
<1>11. QED
  BY <1>1, <1>2, <1>8, <1>9, <1>10 DEF Punctual

LEMMA PunctualCall == ASSUME TimerInv, TimerInv', Punctual, Call PROVE Punctual'
<1>1. /\ InUsecs(clock) \in Nat /\ InUsecs(run.now) \in Nat /\ InUsecs(run.now) <= InUsecs(clock)
      /\ seen.intervals \in Nat /\ seen.start \in Nat /\ seen \in SeenType
      /\ setting.interval \in Nat /\ setting.duration \in Nat /\ Gathered \in Nat
      /\ pc = "visit" /\ pc' = "call" /\ run.t # None /\ UNCHANGED <<setting, tmr, clock>>
      /\ SlotsOK
  BY PunctualTypes DEF Punctual, Call, TimerInv, Data, env
<1>2. run'.t = run.t /\ run'.now = run.now /\ run.t \in Nat /\ Active(run.t)
  <2>1. run' = [run EXCEPT !.next = NextOf(tmr, run.t)]
    BY DEF Call
  <2>2. QED BY <1>1, <2>1 DEF TimerInv, RunOK
<1>3. /\ Proc \in Slots /\ run.t \in 1..Len(tmr.heap)
      /\ Proc = "stats" <=> run.t = Stats
  BY <1>1, VisitedSlot
<1>4. slot[Proc] = run.t
  BY <1>1, <1>2 DEF SlotsOK, Proc
<1>5. At(tmr, run.t) \in Nat /\ At(tmr, run.t) <= InUsecs(run.now)
  <2>1. Due(tmr, run.t, run.now) /\ TimersOK(tmr) /\ run.now \in Times
    BY DEF Call, TimerInv, RunOK
  <2>2. tmr.heap[run.t].time \in Times
    BY <1>3, <2>1, TimeOfObject
  <2>3. QED BY <2>1, <2>2, CompareSigns DEF Due, At
<1>6. /\ ~Gathering /\ ~Restarting
      /\ Stats # None => At(tmr, Stats) >= seen.start + Gathered + setting.interval
      /\ seen.start + Gathered <= InUsecs(clock)
      /\ setting.omit = 0 /\ slot["timer"] # None =>
           At(tmr, slot["timer"]) >= seen.start + setting.duration
      /\ seen.by = "time" /\ setting.omit = 0 => seen.start + setting.duration <= InUsecs(clock)
  BY <1>1 DEF Punctual, Gathering, Restarting
<1>7. Stats # None => At(tmr, Stats) \in Nat
  BY PunctualTypes DEF Stats, Slots
<1>8. /\ NextOp(<<>>) = "none" /\ NextOp(StatsOps) = "read" /\ NextOp(ResetOps) = "test"
  BY OpsLeft
<1>9. CASE Proc = "stats"
  <2>1. StatsTimerProc
    BY <1>9 DEF Call, Proc
  <2>2. /\ seen'.start = seen.start /\ seen'.by = seen.by /\ slot' = slot
        /\ seen'.intervals = seen.intervals \/ seen'.intervals = seen.intervals + 1
        /\ ops' = <<>> \/ ops' = StatsOps
    BY <1>1, <2>1 DEF StatsTimerProc, SeenType
  <2>3. Gathered' = Gathered \/ Gathered' = Gathered + setting.interval
    BY <1>1, <2>2 DEF Gathered
  <2>4. ~Restarting' /\ Gathering' /\ Stats' = Stats /\ Stats = run.t
    BY <1>1, <1>2, <1>3, <1>8, <1>9, <2>2 DEF Restarting, Gathering, Stats
  <2>5. /\ seen.start + Gathered' <= At(tmr, Stats)
        /\ seen.start + Gathered' <= InUsecs(clock)
    BY <1>1, <1>5, <1>6, <2>3, <2>4
  <2>6. Gathered' \in Nat
    BY <1>1, <2>3
  <2>7. QED BY <1>1, <1>2, <1>5, <1>6, <2>2, <2>4, <2>5, <2>6 DEF Punctual
<1>10. CASE Proc = "reporter"
  <2>1. ReporterTimerProc
    BY <1>10 DEF Call, Proc
  <2>2. /\ seen'.start = seen.start /\ seen'.by = seen.by /\ slot' = slot
        /\ seen'.intervals = seen.intervals /\ ops' = <<>>
    BY <1>1, <2>1 DEF ReporterTimerProc, SeenType
  <2>3. ~Restarting' /\ ~Gathering' /\ Stats' = Stats
    BY <1>2, <1>3, <1>8, <1>10, <2>2 DEF Restarting, Gathering, Stats
  <2>4. QED BY <1>1, <1>2, <1>6, <2>2, <2>3 DEF Punctual, Gathered
<1>11. CASE Proc = "timer"
  <2>1. TestTimerProc
    BY <1>11 DEF Call, Proc
  <2>2. /\ seen'.start = seen.start /\ seen'.intervals = seen.intervals /\ ops' = <<>>
        /\ slot' = [slot EXCEPT !["timer"] = None]
    BY <1>1, <2>1 DEF TestTimerProc, ClientTimer, ServerTimer, ServerTimerLate, SeenType
  <2>3. Stats' = Stats /\ slot'["timer"] = None
    BY <1>1, <2>2 DEF SlotsOK, Slots, Stats
  <2>4. ~Restarting' /\ ~Gathering'
    BY <1>2, <1>3, <1>8, <1>11, <2>2, <2>3 DEF Restarting, Gathering
  <2>5. setting.omit = 0 => seen.start + setting.duration <= InUsecs(clock)
    BY <1>1, <1>4, <1>5, <1>6, <1>11
  <2>6. QED BY <1>1, <1>2, <1>6, <2>2, <2>3, <2>4, <2>5 DEF Punctual, Gathered
<1>12. CASE Proc = "omit"
  <2>1. OmitTimerProc
    BY <1>12 DEF Call, Proc
  <2>2. /\ seen'.start = InUsecs(run.now) /\ seen'.intervals = 0 /\ ops' = ResetOps
        /\ slot' = [slot EXCEPT !["omit"] = None]
    BY <1>1, <2>1 DEF OmitTimerProc, SeenType
  <2>3. setting.omit # 0
    <3>1. tmr.heap[run.t].usecs = Periods["omit"] /\ tmr.heap[run.t].usecs # 0
      BY <1>3, <1>12 DEF TimerInv, HeapOK, Proc
    <3>2. QED BY <3>1, PeriodsType DEF TimerInv, Data
  <2>4. Stats' = Stats
    BY <1>1, <2>2 DEF SlotsOK, Slots, Stats
  <2>5. Restarting' /\ ~Gathering'
    BY <1>1, <1>2, <1>3, <1>8, <1>12, <2>2, <2>4 DEF Restarting, Gathering
  <2>6. Gathered' = 0
    BY <1>1, <2>2 DEF Gathered
  <2>7. QED BY <1>1, <1>2, <2>2, <2>3, <2>5, <2>6 DEF Punctual
<1>13. QED BY <1>3, <1>9, <1>10, <1>11, <1>12 DEF Slots

LEMMA PunctualReturn ==
  ASSUME TimerInv, TimerInv', Punctual, FarFromWrap, Return
  PROVE  Punctual'
<1>1. /\ InUsecs(clock) \in Nat /\ InUsecs(run.now) \in Nat /\ InUsecs(run.now) <= InUsecs(clock)
      /\ seen.start \in Nat /\ setting.interval \in Nat /\ Gathered \in Nat
      /\ pc = "call" /\ pc' = "visit" /\ ops = <<>> /\ UNCHANGED <<setting, slot, clock, seen>>
      /\ SlotsOK /\ RunOK /\ run.t # None /\ run.t \in Nat
  BY PunctualTypes DEF Punctual, Return, TimerInv, RunOK, Data, env, results
<1>2. /\ ~Gathering' /\ ~Restarting' /\ ~Restarting /\ Gathered' = Gathered /\ Stats' = Stats
  BY <1>1, OpsLeft DEF Gathering, Restarting, Gathered, Stats
<1>3. /\ run.t \in 1..Len(tmr.heap) /\ Proc \in Slots /\ Proc = "stats" <=> run.t = Stats
  BY <1>1, VisitedSlot
<1>4. run'.now = run.now
  BY ReturnFacts
<1>5. ASSUME NEW x \in 1..Len(tmr.heap), x # run.t
      PROVE  At(tmr', x) = At(tmr, x)
  <2>1. CASE Proc \in Periodic
    BY <1>5, <2>1, ReturnFacts DEF Resorts, At
  <2>2. CASE Proc \notin Periodic
    BY <2>2, ReturnFacts DEF At
  <2>3. QED BY <2>1, <2>2
<1>6. Stats # None => At(tmr', Stats) >= seen.start + Gathered + setting.interval
  <2>1. CASE Stats # None /\ run.t # Stats
    <3>1. Stats \in 1..Len(tmr.heap)
      BY <2>1, PairFacts
    <3>2. ~Gathering
      BY <2>1 DEF Gathering
    <3>3. QED BY <1>2, <1>5, <2>1, <3>1, <3>2 DEF Punctual
  <2>2. CASE Stats # None /\ run.t = Stats
    <3>1. Gathering /\ Proc = "stats"
      BY <1>1, <1>3, <2>2 DEF Gathering
    <3>2. At(tmr, Stats) >= seen.start + Gathered /\ At(tmr, Stats) <= InUsecs(run.now)
      BY <1>1, <1>2, <2>2, <3>1, PunctualTypes DEF Punctual
    <3>3. tmr.heap[Stats].time \in Times /\ At(tmr, Stats) \in Nat
      BY <1>3, <2>2, TimeOfObject DEF TimerInv
    <3>4. Resorts(tmr, run.t, AddUsecs(tmr.heap[run.t].time, Periods["stats"]), tmr')
      BY <3>1, ReturnFacts DEF Periodic
    <3>5. tmr'.heap[Stats].time = AddUsecs(tmr.heap[Stats].time, Periods["stats"])
      BY <2>2, <3>4 DEF Resorts, SameObject
    <3>6. InUsecs(tmr.heap[Stats].time) <= InUsecs(clock)
      BY <1>1, <3>2, <3>3 DEF At
    <3>7. At(tmr', Stats) = At(tmr, Stats) + Periods["stats"] /\ Periods["stats"] = setting.interval
      <4>1. "stats" \in Slots
        BY DEF Slots
      <4>2. InUsecs(AddUsecs(tmr.heap[Stats].time, Periods["stats"]))
              = InUsecs(tmr.heap[Stats].time) + Periods["stats"]
        BY <3>3, <3>6, <4>1, PeriodLater
      <4>3. Periods["stats"] = setting.interval
        BY PairFacts
      <4>4. QED BY <3>5, <4>2, <4>3 DEF At
    <3>8. QED BY <1>1, <3>2, <3>3, <3>7
  <2>3. QED BY <2>1, <2>2
<1>7. setting.omit = 0 /\ slot["timer"] # None =>
        At(tmr', slot["timer"]) >= seen.start + setting.duration
  <2>1. ASSUME slot["timer"] # None
        PROVE  slot["timer"] \in 1..Len(tmr.heap) /\ slot["timer"] # run.t
    <3>1. /\ slot["timer"] \in 1..Len(tmr.heap) /\ "timer" \in Slots
          /\ tmr.heap[slot["timer"]].proc = "timer"
      BY <1>1, <2>1, PunctualTypes DEF SlotsOK, Slots
    <3>2. Proc # "timer" \/ slot["timer"] = None
      BY <1>1 DEF RunOK, Periodic
    <3>3. QED BY <2>1, <3>1, <3>2 DEF Proc
  <2>2. QED BY <1>5, <2>1 DEF Punctual
<1>8. QED
  BY <1>1, <1>2, <1>4, <1>6, <1>7 DEF Punctual

LEMMA PunctualReset ==
  ASSUME TimerInv, TimerInv', Punctual, FarFromWrap, NEW s \in {"stats", "reporter"},
         ResetTimer(s)
  PROVE  Punctual'
<1>1. /\ InUsecs(clock) \in Nat /\ InUsecs(run.now) \in Nat /\ InUsecs(run.now) <= InUsecs(clock)
      /\ seen.start \in Nat /\ setting.interval \in Nat /\ Gathered \in Nat
      /\ UNCHANGED <<setting, slot, pc, run, clock, seen>> /\ SlotsOK
      /\ Doing(s) /\ pc = "call" /\ Proc = "omit" /\ NextOp(ops) = s /\ run.now \in Times
      /\ setting.omit # 0 /\ run.t # None
  <2>1. Doing(s) /\ UNCHANGED <<setting, slot, pc, run, clock, seen>>
    BY DEF ResetTimer, env, loop, results
  <2>2. pc = "call" /\ Proc = "omit" /\ NextOp(ops) = s
    BY <2>1, DoingReset
  <2>3. run.t # None /\ run.now \in Times /\ HeapOK /\ SlotsOK
    BY <2>2 DEF TimerInv, RunOK
  <2>4. run.t \in 1..Len(tmr.heap)
    BY <2>2, <2>3, VisitedSlot
  <2>5. tmr.heap[run.t].usecs = Periods["omit"] /\ tmr.heap[run.t].usecs # 0
    BY <2>2, <2>3, <2>4 DEF HeapOK, Proc
  <2>6. setting.omit # 0
    BY <2>5, PeriodsType DEF TimerInv, Data
  <2>7. QED BY <2>1, <2>2, <2>3, <2>6, PunctualTypes DEF Punctual
<1>2. /\ run.t # Stats /\ ~Gathering /\ ~Gathering' /\ Gathered' = Gathered /\ Stats' = Stats
  <2>1. run.t # Stats
    BY <1>1, VisitedSlot
  <2>2. QED BY <1>1, <2>1 DEF Gathering, Gathered, Stats
<1>3. ~Restarting'
  <2>1. /\ s = "stats" => NextOp(ops') = "reporter"
        /\ s = "reporter" => ops' = <<>>
    BY <1>1, DoingReset
  <2>2. QED BY <2>1, OpsLeft DEF Restarting
<1>4. slot[s] # None =>
        /\ AddUsecs(run.now, Periods[s]) \in Times
        /\ Resorts(tmr, slot[s], AddUsecs(run.now, Periods[s]), tmr')
  BY ResetKeeps DEF TimerInv
<1>5. Stats # None => At(tmr', Stats) >= seen.start + Gathered + setting.interval
  <2>1. CASE s = "stats" /\ Stats # None
    <3>1. seen.intervals = 0 /\ seen.start = InUsecs(run.now)
      BY <1>1, <2>1 DEF Punctual, Restarting
    <3>2. Gathered = 0
      BY <1>1, <3>1 DEF Gathered
    <3>3. tmr'.heap[Stats].time = AddUsecs(run.now, Periods["stats"])
      BY <1>4, <2>1 DEF Resorts, SameObject, Stats
    <3>4. InUsecs(AddUsecs(run.now, Periods["stats"])) = InUsecs(run.now) + setting.interval
      BY <1>1, PeriodLater, PairFacts DEF Slots
    <3>5. QED BY <1>1, <3>1, <3>2, <3>3, <3>4 DEF At
  <2>2. CASE s = "reporter" /\ Stats # None
    <3>1. Stats \in 1..Len(tmr.heap) /\ Stats # Reporter
      BY <2>2, PairFacts
    <3>2. At(tmr', Stats) = At(tmr, Stats)
      <4>1. CASE slot[s] = None
        BY <4>1 DEF ResetTimer, At
      <4>2. CASE slot[s] # None
        BY <1>4, <2>2, <3>1, <4>2 DEF Resorts, At, Reporter
      <4>3. QED BY <4>1, <4>2
    <3>3. ~Restarting
      BY <1>1, <2>2 DEF Restarting
    <3>4. QED BY <1>2, <2>2, <3>2, <3>3 DEF Punctual
  <2>3. QED BY <2>1, <2>2
<1>6. QED
  BY <1>1, <1>2, <1>3, <1>5 DEF Punctual

LEMMA PunctualStep ==
  ASSUME TimerInv, Punctual, FarFromWrap, [Next]_vars
  PROVE  Punctual'
<1>1. TimerInv' /\ Data /\ OpsOK /\ RunOK /\ SlotsOK /\ seen \in SeenType /\ clock \in Times
  BY TimerStep DEF TimerInv, Data
<1>2. /\ InUsecs(clock) \in Nat /\ setting.interval \in Nat
  BY PunctualTypes
<1>3. CASE CreateTimers
  <2>1. /\ pc = "idle" /\ pc' = "create" /\ UNCHANGED <<setting, clock, slot>>
        /\ run' = [NoRun EXCEPT !.now = clock]
        /\ seen' = [NothingSeen EXCEPT !.start = InUsecs(clock)]
    BY <1>3 DEF CreateTimers, timers
  <2>2. /\ seen'.intervals = 0 /\ seen'.start = InUsecs(clock) /\ seen'.by = "none"
        /\ run'.now = clock
    BY <1>1, <2>1, NoRunFacts DEF NothingSeen
  <2>3. Stats' = None /\ slot'["timer"] = None
    BY <1>1, <2>1 DEF SlotsOK, Slots, Stats
  <2>4. Gathered' = 0 /\ ~Gathering'
    BY <1>2, <2>1, <2>2 DEF Gathered, Gathering
  <2>5. QED BY <1>2, <2>1, <2>2, <2>3, <2>4 DEF Punctual
<1>4. CASE CreateTimer
  <2>1. /\ pc = "create" /\ ops # <<>> /\ Create(Head(ops), run.now)
        /\ UNCHANGED <<setting, clock, pc, run, seen>> /\ run.now \in Times
    BY <1>1, <1>4 DEF CreateTimer, env, loop, results, RunOK
  <2>2. ops \in CreateLeft
    BY <1>1, <2>1 DEF OpsOK
  <2>3. NextOp(ops) = Head(ops)
    BY <2>1, <2>2, CreateTake
  <2>4. Head(ops) \in {"timer", "stats", "reporter"}
    BY <2>1, <2>2, <2>3, OpsLeft
  <2>5. Head(ops) \in Slots /\ slot[Head(ops)] = None
    BY <1>1, <2>1, <2>3, <2>4 DEF SlotsOK, Slots
  <2>6. QED BY <1>1, <2>1, <2>5, PunctualCreate
<1>5. CASE CreateOmitTimer
  <2>1. /\ pc = "create" /\ Create("omit", clock) /\ run' = NoRun /\ pc' \in {"visit", "loop"}
        /\ UNCHANGED <<setting, clock, seen>>
    BY <1>5 DEF CreateOmitTimer, env, results
  <2>2. "omit" \in Slots /\ slot["omit"] = None
    BY <1>1, <2>1 DEF SlotsOK, Slots
  <2>3. QED BY <1>1, <2>1, <2>2, PunctualCreate
<1>6. CASE Select
  <2>1. /\ pc = "loop" /\ pc' = "visit" /\ UNCHANGED <<setting, tmr, slot, seen, clock>>
        /\ run'.now = clock
    BY <1>6 DEF Select, env, timers, results
  <2>2. ~Gathering /\ ~Gathering' /\ ~Restarting /\ ~Restarting'
    BY <2>1 DEF Gathering, Restarting
  <2>3. QED BY <1>1, <1>2, <2>1, <2>2, PunctualKept
<1>7. CASE Call
  BY <1>1, <1>7, PunctualCall
<1>8. CASE Return
  BY <1>1, <1>8, PunctualReturn
<1>9. CASE ReadInterval \/ ReadTotal \/ SaveInterval
  <2>1. PICK op \in {"read", "total", "save"} : Doing(op)
    BY <1>9 DEF ReadInterval, ReadTotal, SaveInterval
  <2>2. UNCHANGED <<setting, tmr, slot, run, pc, clock>>
    BY <1>9 DEF ReadInterval, ReadTotal, SaveInterval, env, timers, loop
  <2>3. seen'.intervals = seen.intervals /\ seen'.start = seen.start /\ seen'.by = seen.by
    BY <1>1, <1>9 DEF ReadInterval, ReadTotal, SaveInterval, results, SeenType
  <2>4. ~Restarting /\ ~Restarting' /\ pc \in {"call", "final"}
    BY <2>1, DoingStats, OpsLeft DEF Restarting, Doing
  <2>5. Gathering' <=> Gathering
    BY <2>2 DEF Gathering, Stats
  <2>6. QED BY <1>1, <1>2, <2>2, <2>3, <2>4, <2>5, PunctualKept
<1>10. CASE ZeroTestBytes \/ OmitBytes \/ ZeroInterval
  <2>1. PICK op \in {"test", "bytes", "interval"} : Doing(op)
    BY <1>10 DEF ZeroTestBytes, OmitBytes, ZeroInterval
  <2>2. UNCHANGED <<setting, tmr, slot, run, pc, clock, seen>>
    BY <1>10 DEF ZeroTestBytes, OmitBytes, ZeroInterval, env, timers, loop, results
  <2>3. Restarting /\ Restarting' /\ pc = "call"
    BY <2>1, <2>2, DoingReset DEF Restarting
  <2>4. Gathering' <=> Gathering
    BY <2>2 DEF Gathering, Stats
  <2>5. QED BY <1>1, <1>2, <2>2, <2>3, <2>4, PunctualKept
<1>11. CASE \E s \in {"stats", "reporter"} : ResetTimer(s)
  BY <1>1, <1>11, PunctualReset
<1>12. CASE CheckClient \/ CheckServer \/ WakeToCheck \/ HandleDone \/ LastReport
            \/ JoinSender \/ HandleTestEnd
  <2>1. /\ pc \notin {"create", "call"} /\ pc' \in {"loop", "join", "final", "ended"}
        /\ UNCHANGED <<setting, tmr, slot, clock>>
    BY <1>12 DEF CheckClient, CheckServer, WakeToCheck, HandleDone, LastReport, JoinSender,
         HandleTestEnd, RunEnds, env, timers
  <2>2. /\ seen'.intervals = seen.intervals /\ seen'.start = seen.start
        /\ seen'.by = "time" => seen.by = "time"
    BY <1>1, <1>12 DEF CheckClient, CheckServer, WakeToCheck, HandleDone, LastReport, JoinSender,
         HandleTestEnd, results, SeenType
  <2>3. ~Gathering /\ ~Gathering' /\ ~Restarting /\ ~Restarting'
    BY <2>1 DEF Gathering, Restarting
  <2>4. QED BY <1>1, <1>2, <2>1, <2>2, <2>3, PunctualKept
<1>13. CASE Cleanup
  <2>1. /\ pc = "ended" /\ pc' = "idle" /\ UNCHANGED <<setting, clock, seen>>
        /\ Stats' = None /\ slot'["timer"] = None
    BY <1>13 DEF Cleanup, env, results, Stats, Slots
  <2>2. ~Gathering' /\ ~Restarting' /\ Gathered' = Gathered
    BY <2>1 DEF Gathering, Restarting, Gathered
  <2>3. QED BY <2>1, <2>2 DEF Punctual
<1>14. CASE Worker \/ Tick \/ UNCHANGED vars
  <2>1. UNCHANGED <<setting, tmr, slot, run, pc, ops>>
    BY <1>14 DEF Worker, CountStream, CountInterval, CountTest, Tick, vars, env, main, timers,
         loop, callback
  <2>2. seen'.intervals = seen.intervals /\ seen'.start = seen.start /\ seen'.by = seen.by
    BY <1>1, <1>14 DEF Worker, CountStream, CountInterval, CountTest, Tick, vars, results, SeenType
  <2>3. InUsecs(clock) <= InUsecs(clock')
    <3>1. CASE Tick
      <4>1. clock' = AddUsecs(clock, 1)
        BY <3>1 DEF Tick
      <4>2. "omit" \in Slots /\ Periods["omit"] \in Nat /\ SecsMod * UsecsPerSec \in Nat
        BY <1>1, PeriodsType, TimeAssumption DEF Slots, Data
      <4>3. InUsecs(clock) + 1 < SecsMod * UsecsPerSec
        BY <1>2, <4>2 DEF FarFromWrap
      <4>4. InUsecs(clock') = InUsecs(clock) + 1
        BY <1>1, <4>1, <4>3, AddFar
      <4>5. QED BY <1>2, <4>4
    <3>2. CASE Worker \/ UNCHANGED vars
      <4>1. clock' = clock
        BY <3>2 DEF Worker, CountStream, CountInterval, CountTest, vars, env
      <4>2. QED BY <1>2, <4>1
    <3>3. QED BY <1>14, <3>1, <3>2
  <2>4. (Gathering' <=> Gathering) /\ (Restarting' <=> Restarting)
    BY <2>1 DEF Gathering, Restarting, Stats
  <2>5. QED BY <1>1, <1>2, <2>1, <2>2, <2>3, <2>4, PunctualKept
<1>15. QED
  BY <1>3, <1>4, <1>5, <1>6, <1>7, <1>8, <1>9, <1>10, <1>11, <1>12, <1>13, <1>14 DEF Next, Main

(* While the clock is far from the end of its 32 bits, a host never        *)
(* gathers an interval or lets the test's timer end a test before its time *)
(* has passed, for every period and however late tmr_run was before: the   *)
(* times of the timers are moved by whole periods, from the start or from  *)
(* the end of the omitted period.                                          *)
THEOREM TimersAreOnTime == Spec /\ []FarFromWrap => []OnTime
<1>1. Init => Punctual
  <2> SUFFICES ASSUME Init PROVE Punctual
    OBVIOUS
  <2>1. Stats = None /\ slot["timer"] = None /\ pc = "idle" /\ TimerInv
    BY InitTimers DEF Init, Slots, Stats
  <2>2. seen.start = 0 /\ seen.by = "none" /\ seen.intervals = 0
    BY DEF Init, NothingSeen
  <2>3. /\ InUsecs(clock) \in Nat /\ setting.interval \in Nat
    BY <2>1, PunctualTypes
  <2>4. Gathered = 0 /\ ~Gathering /\ ~Restarting
    BY <2>1, <2>2, <2>3 DEF Gathered, Gathering, Restarting
  <2>5. QED BY <2>1, <2>2, <2>3, <2>4 DEF Punctual
<1>2. TimerInv /\ Punctual /\ FarFromWrap /\ [Next]_vars => Punctual'
  BY PunctualStep
<1>3. TimerInv /\ Punctual => OnTime
  <2> SUFFICES ASSUME TimerInv, Punctual PROVE OnTime
    OBVIOUS
  <2>1. /\ InUsecs(clock) \in Nat /\ seen.start \in Nat /\ setting.duration \in Nat
        /\ Gathered \in Nat
    BY PunctualTypes
  <2>2. /\ seen.start + Gathered <= InUsecs(clock)
        /\ seen.by = "time" /\ setting.omit = 0 => seen.start + setting.duration <= InUsecs(clock)
    BY DEF Punctual
  <2>3. Gathered <= InUsecs(clock) - seen.start
    BY <2>1, <2>2
  <2>4. seen.by = "time" /\ setting.omit = 0 => setting.duration <= InUsecs(clock) - seen.start
    BY <2>1, <2>2
  <2>5. QED BY <2>3, <2>4 DEF OnTime, Gathered
<1>4. QED
  BY <1>1, <1>2, <1>3, TimersHold, PTL DEF Spec

============================================================================
