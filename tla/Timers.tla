------------------------------- MODULE Timers -------------------------------
(***************************************************************************)
(* timer.c: the list of active timers, sorted by time, the list of free    *)
(* ones, and the operations on them as functions of both lists.  A Timer   *)
(* object is a number from 1, in the order in which malloc returned them;  *)
(* the links prev and next are the order of the two sequences.             *)
(***************************************************************************)
EXTENDS IperfTime, Sequences, SequencesExt

None == 0     \* NULL

(* The static variables timers and free_timers, and the objects.           *)
NoTimers == [timers |-> <<>>, free |-> <<>>, heap |-> <<>>]

First(tm) == IF tm.timers = <<>> THEN None ELSE Head(tm.timers)

(* t->next, for a timer of the active list.                                *)
NextOf(tm, t) ==
  LET i == CHOOSE k \in DOMAIN tm.timers : tm.timers[k] = t
  IN  IF i = Len(tm.timers) THEN None ELSE tm.timers[i + 1]

(* list_add: before the first timer that is later, hence after the timers  *)
(* of the same time.                                                       *)
Later(heap, t, t2) == Compare(heap[t].time, heap[t2].time) < 0

ListAdd(tm, t) ==
  LET i == SelectInSeq(tm.timers, LAMBDA t2 : Later(tm.heap, t, t2))
  IN  [tm EXCEPT !.timers = IF i = 0 THEN Append(@, t) ELSE InsertAt(@, i, t)]

(* list_remove and list_resort                                             *)
ListRemove(tm, t) == [tm EXCEPT !.timers = RemoveFirst(@, t)]
ListResort(tm, t) == ListAdd(ListRemove(tm, t), t)

(* tmr_create: the object, and the lists with it.                          *)
TmrNew(tm) == IF tm.free # <<>> THEN Head(tm.free) ELSE Len(tm.heap) + 1

TmrCreate(tm, now, proc, usecs, periodic) ==
  LET t == TmrNew(tm)
      timer == [proc |-> proc, time |-> AddUsecs(now, usecs), usecs |-> usecs,
                periodic |-> periodic]
  IN  ListAdd([timers |-> tm.timers,
               free   |-> IF tm.free # <<>> THEN Tail(tm.free) ELSE tm.free,
               heap   |-> IF t > Len(tm.heap) THEN Append(tm.heap, timer)
                          ELSE [tm.heap EXCEPT ![t] = timer]],
              t)

(* tmr_timeout: how long select may sleep; -1 stands for NULL, for ever.   *)
TmrTimeout(tm, now) ==
  IF tm.timers = <<>> THEN -1
  ELSE LET time == tm.heap[First(tm)].time
       IN  IF Past(time, now) THEN 0 ELSE InUsecs(Diff(time, now))

(* The test of tmr_run whether timer t is to be called.                    *)
Due(tm, t, now) == Compare(tm.heap[t].time, now) <= 0

(* tmr_cancel, which does not look whether t is in the active list.        *)
TmrCancel(tm, t) == [ListRemove(tm, t) EXCEPT !.free = <<t>> \o @]

(* tmr_reset                                                               *)
TmrReset(tm, now, t) ==
  ListResort([tm EXCEPT !.heap[t].time = AddUsecs(now, tm.heap[t].usecs)], t)

(* The end of the loop of tmr_run, after the callback of t has returned.   *)
Rescheduled(tm, t) ==
  IF tm.heap[t].periodic
  THEN ListResort([tm EXCEPT !.heap[t].time = AddUsecs(@, tm.heap[t].usecs)], t)
  ELSE TmrCancel(tm, t)

(* Every object is in one of the lists, and there only once.               *)
Partitioned(tm) ==
  LET all == tm.timers \o tm.free
  IN  Len(all) = Len(tm.heap) /\ \A t \in 1..Len(tm.heap) : Contains(all, t)

(* What tmr_run and tmr_timeout rely on.                                   *)
Sorted(tm) ==
  \A i, j \in DOMAIN tm.timers :
    i < j => Compare(tm.heap[tm.timers[i]].time, tm.heap[tm.timers[j]].time) <= 0
============================================================================
