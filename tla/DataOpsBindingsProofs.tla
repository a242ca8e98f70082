------------------------ MODULE DataOpsBindingsProofs ------------------------
(***************************************************************************)
(* What a timer's producer wrote behind its watermark is not lost, and     *)
(* every variable keeps its type, for every number of samples, changes and *)
(* troubles, every limit of the queue and every page size.                 *)
(*                                                                         *)
(* NothingLost is not inductive: it says nothing of the sample whose       *)
(* watermark is about to move, nor of a page about to leave the queue.     *)
(* LostInv adds that the one is kept and the other confirmed.              *)
(***************************************************************************)
EXTENDS DataOpsBindings, FiniteSetTheorems, TLAPS

\* Where a sample may be without being lost.
Kept == sent \cup queue \cup dropped

Shape == DOMAIN at = Threads /\ DOMAIN page = Threads /\ done \in Nat

\* A page leaves the queue only after the node confirmed it, by either thread.
PagesConfirmed == \A x \in Threads : at[x] = "delete" => page[x] \subseteq sent

\* A tick moves the watermark to a sample that is kept.
AdvancesKept == at["tick"] \in {"flag", "advance"} => Sample \in Kept

LostInv == Shape /\ PagesConfirmed /\ AdvancesKept /\ NothingLost

\* A service that was never started has lost nothing.
LEMMA InitLost == Init => LostInv
<1> SUFFICES ASSUME Init PROVE LostInv
  OBVIOUS
<1>1. at = [x \in Threads |-> "idle"] /\ page = [x \in Threads |-> {}] /\ done = 0
  BY DEF Init
<1>2. Shape
  BY <1>1 DEF Shape
<1>3. PagesConfirmed
  BY <1>1 DEF PagesConfirmed
<1>4. AdvancesKept
  BY <1>1 DEF AdvancesKept, Threads
<1>5. NothingLost
  BY <1>1 DEF NothingLost
<1> QED
  BY <1>2, <1>3, <1>4, <1>5 DEF LostInv

\* A step that forgets no sample, leaves the watermark, confirms the page of a thread
\* that comes to delete it, and keeps the sample of a tick that comes to advance.
LEMMA KeepsLost ==
  ASSUME LostInv, Shape', done' = done, Kept \subseteq Kept', sent \subseteq sent',
         \A x \in Threads : at'[x] = "delete" => page'[x] \subseteq sent' \/ (at[x] = "delete" /\ page'[x] = page[x]),
         at'["tick"] \in {"flag", "advance"} => at["tick"] \in {"flag", "advance"} \/ Sample \in Kept'
  PROVE  LostInv'
<1>1. PagesConfirmed'
  BY DEF LostInv, PagesConfirmed
<1>2. AdvancesKept'
  BY DEF LostInv, AdvancesKept, Sample
<1>3. NothingLost'
  BY DEF LostInv, NothingLost, Kept
<1> QED
  BY <1>1, <1>2, <1>3 DEF LostInv

\* What a step of the tables below leaves alone: the samples and the pages.
Quiet == UNCHANGED <<page, disk, sent, dropped>>

\* A step of one thread that touches no sample and does not go to "delete", "flag"
\* or "advance".
LEMMA QuietLost ==
  ASSUME LostInv, Quiet,
         \/ UNCHANGED at
         \/ \E x \in Threads, step \in {"look", "build", "bind", "failed", "forget", "flushed", "page", "wait", "asleep",
                                        "resolve", "settle", "clear", "idle", "bound", "keep", "disabled", "queue", "send"} : Go(x, step)
  PROVE  LostInv'
<1>1. Kept' = Kept /\ sent' = sent /\ done' = done /\ page' = page
  BY DEF Quiet, Kept, disk
<1>2. CASE UNCHANGED at
  <2>1. Shape'
    BY <1>1, <1>2 DEF LostInv, Shape
  <2> QED
    BY <1>1, <1>2, <2>1, KeepsLost
<1>3. ASSUME NEW x \in Threads,
             NEW step \in {"look", "build", "bind", "failed", "forget", "flushed", "page", "wait", "asleep",
                           "resolve", "settle", "clear", "idle", "bound", "keep", "disabled", "queue", "send"}, Go(x, step)
      PROVE  LostInv'
  <2>1. Shape'
    BY <1>1, <1>3 DEF LostInv, Shape, Go
  <2>2. \A y \in Threads : at'[y] \notin {"delete", "flag", "advance"} \/ at'[y] = at[y]
    BY <1>3 DEF LostInv, Shape, Go
  <2>3. "tick" \in Threads
    BY DEF Threads
  <2> QED
    BY <1>1, <2>1, <2>2, <2>3, KeepsLost
<1> QED
  BY <1>2, <1>3

\* One step of a flush, in either thread.
LEMMA FlushLost == ASSUME LostInv, NEW x \in Threads, Flush(x) PROVE LostInv'
<1> USE DEF disk
<1>1. CASE FlushLooks(x)
  <2>1. Shape' /\ at'[x] # "delete" /\ \A y \in Threads : y = x \/ (at'[y] = at[y] /\ page'[y] = page[y])
    BY <1>1 DEF FlushLooks, Go, LostInv, Shape
  <2>2. at'["tick"] \in {"flag", "advance"} => at["tick"] \in {"flag", "advance"}
    BY <1>1, <2>1 DEF FlushLooks, Go, LostInv, Shape, Threads
  <2> QED
    BY <1>1, <2>1, <2>2, KeepsLost DEF FlushLooks, Kept
<1>2. CASE FlushResolves(x)
  <2>1. \E step \in {"failed", "idle", "settle", "flushed", "send"} : Go(x, step)
    BY <1>2 DEF FlushResolves, Fail, Flushed
  <2> QED
    BY <1>2, <2>1, QuietLost DEF FlushResolves, Quiet
<1>3. CASE FlushSends(x)
  <2>1. Shape' /\ page' = page /\ sent' = sent \cup page[x] /\ \A y \in Threads : y = x \/ at'[y] = at[y]
    BY <1>3 DEF FlushSends, Go, LostInv, Shape
  <2>2. at'["tick"] \in {"flag", "advance"} => at["tick"] \in {"flag", "advance"}
    BY <1>3, <2>1 DEF FlushSends, Go, LostInv, Shape, Threads
  <2>3. Kept \subseteq Kept' /\ done' = done
    BY <1>3, <2>1 DEF FlushSends, Kept
  <2> QED
    BY <2>1, <2>2, <2>3, KeepsLost
<1>4. CASE FlushFails(x)
  <2>1. Shape' /\ at'[x] # "delete" /\ \A y \in Threads : y = x \/ (at'[y] = at[y] /\ page'[y] = page[y])
    BY <1>4 DEF FlushFails, Fail, Go, LostInv, Shape
  <2>2. at'["tick"] \in {"flag", "advance"} => at["tick"] \in {"flag", "advance"}
    BY <1>4, <2>1 DEF FlushFails, Fail, Go, LostInv, Shape, Threads
  <2>3. Kept \subseteq Kept' /\ done' = done /\ sent \subseteq sent'
    BY <1>4 DEF FlushFails, Kept
  <2> QED
    BY <2>1, <2>2, <2>3, KeepsLost
<1>5. CASE FlushDeletes(x)
  <2>1. Shape' /\ at'[x] # "delete" /\ \A y \in Threads : y = x \/ (at'[y] = at[y] /\ page'[y] = page[y])
    BY <1>5 DEF FlushDeletes, Go, LostInv, Shape
  <2>2. at'["tick"] \in {"flag", "advance"} => at["tick"] \in {"flag", "advance"}
    BY <1>5, <2>1 DEF FlushDeletes, Go, LostInv, Shape, Threads
  <2>3. page[x] \subseteq sent /\ queue' = queue \ page[x] /\ UNCHANGED <<sent, dropped, done>>
    BY <1>5 DEF FlushDeletes, LostInv, PagesConfirmed
  <2>4. Kept \subseteq Kept'
    BY <2>3 DEF Kept
  <2> QED
    BY <2>1, <2>2, <2>3, <2>4, KeepsLost
<1>6. CASE FlushGoesOn(x)
  <2>1. Shape' /\ at'[x] # "delete" /\ \A y \in Threads : y = x \/ (at'[y] = at[y] /\ page'[y] = page[y])
    BY <1>6 DEF FlushGoesOn, Go, LostInv, Shape
  <2>2. at'["tick"] \in {"flag", "advance"} => at["tick"] \in {"flag", "advance"}
    BY <1>6, <2>1 DEF FlushGoesOn, Go, LostInv, Shape, Threads
  <2> QED
    BY <1>6, <2>1, <2>2, KeepsLost DEF FlushGoesOn, Kept
<1>7. CASE FlushEnds(x)
  <2>1. \E step \in {"flushed", "send"} : Go(x, step)
    BY <1>7 DEF FlushEnds, Flushed
  <2> QED
    BY <1>7, <2>1, QuietLost DEF FlushEnds, Quiet
<1> QED
  BY <1>1, <1>2, <1>3, <1>4, <1>5, <1>6, <1>7 DEF Flush

\* A tick's step to "idle", "queue", "flag" or "advance": the pages are not its business.
LEMMA TickLost ==
  ASSUME LostInv, UNCHANGED <<done, page>>, Kept \subseteq Kept', sent \subseteq sent',
         NEW step \in {"idle", "queue", "flag", "advance"}, Go("tick", step),
         step \in {"flag", "advance"} => at["tick"] = "flag" \/ Sample \in Kept'
  PROVE  LostInv'
<1>1. "tick" \in Threads
  BY DEF Threads
<1>2. Shape' /\ at'["tick"] = step /\ \A y \in Threads : y = "tick" \/ at'[y] = at[y]
  BY <1>1 DEF LostInv, Shape, Go
<1>3. \A y \in Threads : at'[y] = "delete" => at[y] = "delete" /\ page'[y] = page[y]
  BY <1>2
<1> QED
  BY <1>2, <1>3, KeepsLost

\* A sample of an output that is switched off is dropped on purpose.
LEMMA DisabledLost == ASSUME LostInv, Disabled PROVE LostInv'
<1> USE DEF disk
<1>1. CASE live /\ Seen.output = "off"
  <2>1. dropped' = dropped \cup {Sample} /\ Go("tick", "advance") /\ UNCHANGED <<done, queue, page, sent>>
    BY <1>1 DEF Disabled
  <2>2. Kept \subseteq Kept' /\ Sample \in Kept'
    BY <2>1 DEF Kept
  <2> QED
    BY <2>1, <2>2, TickLost
<1>2. CASE ~(live /\ Seen.output = "off")
  <2>1. UNCHANGED <<done, queue, page, sent, dropped>> /\ \E step \in {"queue", "idle"} : Go("tick", step)
    BY <1>2 DEF Disabled
  <2> QED
    BY <2>1, TickLost DEF Kept
<1> QED
  BY <1>1, <1>2

\* A sample is queued, or its tick fails.
LEMMA QueuesLost == ASSUME LostInv, Queues PROVE LostInv'
<1> USE DEF disk
<1>1. CASE Sample \in queue \/ Cardinality(queue) < Limit
  <2>1. queue' = queue \cup {Sample} /\ Go("tick", "flag") /\ UNCHANGED <<done, dropped, page, sent>>
    BY <1>1 DEF Queues
  <2>2. Kept \subseteq Kept' /\ Sample \in Kept'
    BY <2>1 DEF Kept
  <2> QED
    BY <2>1, <2>2, TickLost
<1>2. CASE ~(Sample \in queue \/ Cardinality(queue) < Limit)
  <2>1. UNCHANGED <<done, queue, page, sent, dropped>> /\ Go("tick", "idle")
    BY <1>2 DEF Queues
  <2> QED
    BY <2>1, TickLost DEF Kept
<1> QED
  BY <1>1, <1>2

\* The sample may have left the queue by now: another thread's flush sent it.
LEMMA FlagsLost == ASSUME LostInv, Flags PROVE LostInv'
<1>1. at["tick"] = "flag" /\ Go("tick", "advance") /\ UNCHANGED <<done, queue, page, sent, dropped>>
  BY DEF Flags, disk
<1> QED
  BY <1>1, TickLost DEF Kept

\* The node confirmed the sample.
LEMMA ConfirmedLost == ASSUME LostInv, Confirmed PROVE LostInv'
<1>1. sent' = sent \cup {Sample} /\ Go("tick", "advance") /\ UNCHANGED <<done, queue, page, dropped>>
  BY DEF Confirmed, disk
<1>2. Kept \subseteq Kept' /\ Sample \in Kept'
  BY <1>1 DEF Kept
<1> QED
  BY <1>1, <1>2, TickLost

\* It did not: the watermark stays.
LEMMA UnconfirmedLost == ASSUME LostInv, Unconfirmed PROVE LostInv'
<1>1. sent \subseteq sent' /\ Go("tick", "idle") /\ UNCHANGED <<done, queue, page, dropped>>
  BY DEF Unconfirmed, disk
<1>2. Kept \subseteq Kept'
  BY <1>1 DEF Kept
<1> QED
  BY <1>1, <1>2, TickLost

\* The watermark moves to a sample that is kept.
LEMMA AdvancesLost == ASSUME LostInv, Advances PROVE LostInv'
<1>1. at["tick"] = "advance" /\ Go("tick", "idle") /\ done' = Sample /\ UNCHANGED <<queue, page, sent, dropped>>
  BY DEF Advances
<1>2. "tick" \in Threads /\ done \in Nat /\ done' = done + 1 /\ Kept' = Kept
  BY <1>1 DEF LostInv, Shape, Sample, Threads, Kept
<1>3. Shape' /\ at'["tick"] = "idle" /\ \A y \in Threads : y = "tick" \/ at'[y] = at[y]
  BY <1>1, <1>2 DEF LostInv, Shape, Go
<1>4. PagesConfirmed'
  BY <1>1, <1>3 DEF LostInv, PagesConfirmed
<1>5. AdvancesKept'
  BY <1>3 DEF AdvancesKept
<1>6. done' \in Kept
  BY <1>1 DEF LostInv, AdvancesKept
<1>7. NothingLost'
  <2> SUFFICES ASSUME NEW s \in 1 .. done' PROVE s \in Kept'
    BY DEF NothingLost, Kept
  <2>1. CASE s \in 1 .. done
    BY <2>1, <1>2 DEF LostInv, NothingLost, Kept
  <2>2. CASE s = done'
    BY <2>2, <1>2, <1>6
  <2> QED
    BY <1>2, <2>1, <2>2
<1> QED
  BY <1>3, <1>4, <1>5, <1>7 DEF LostInv

\* Every step keeps the invariant.
LEMMA NextLost == LostInv /\ [Next]_vars => LostInv'
<1> SUFFICES ASSUME LostInv, [Next]_vars PROVE LostInv'
  OBVIOUS
<1> USE DEF disk
<1>t. "tick" \in Threads /\ "pass" \in Threads /\ \A x \in Threads : x = "tick" \/ x = "pass"
  BY DEF Threads
<1>1. CASE UNCHANGED vars
  BY <1>1, QuietLost DEF vars, Quiet
<1>2. CASE Changes
  BY <1>2, QuietLost DEF Changes, Quiet
<1>3. CASE ViewFollows
  BY <1>3, QuietLost DEF ViewFollows, Quiet
<1>4. CASE ViewLost
  BY <1>4, QuietLost DEF ViewLost, Quiet
<1>5. CASE ViewBack
  BY <1>5, QuietLost DEF ViewBack, Quiet
<1>6. CASE Start
  BY <1>6, <1>t, QuietLost DEF Start, Quiet
<1>7. CASE Serve
  BY <1>7, <1>t, QuietLost DEF Serve, Quiet
<1>8. CASE Look
  BY <1>8, <1>t, QuietLost DEF Look, Quiet
<1>9. CASE Build
  BY <1>9, <1>t, QuietLost DEF Build, Quiet
<1>10. CASE Forget
  BY <1>10, <1>t, QuietLost DEF Forget, Quiet
<1>11. CASE Keep
  BY <1>11, <1>t, QuietLost DEF Keep, Quiet
<1>12. CASE Rebind
  BY <1>12, <1>t, QuietLost DEF Rebind, Quiet
<1>13. CASE Wait
  BY <1>13, <1>t, QuietLost DEF Wait, Quiet
<1>14. CASE Woken
  BY <1>14, <1>t, QuietLost DEF Woken, Quiet
<1>15. CASE Retry
  BY <1>15, <1>t, QuietLost DEF Retry, Quiet
<1>16. CASE TickStarts
  BY <1>16, <1>t, QuietLost DEF TickStarts, Quiet
<1>17. CASE Resolves
  BY <1>17, <1>t, QuietLost DEF Resolves, Quiet
<1>18. CASE Keeps
  BY <1>18, <1>t, QuietLost DEF Keeps, Quiet
<1>19. CASE Ends
  <2>1. at' = [x \in Threads |-> "idle"] /\ page' = [x \in Threads |-> {}]
    BY <1>19 DEF Ends, Fresh
  <2>2. UNCHANGED <<done, queue, sent, dropped>>
    BY <1>19 DEF Ends, Fresh
  <2>3. Shape'
    BY <2>1, <2>2 DEF LostInv, Shape
  <2> QED
    BY <2>1, <2>2, <2>3, <1>t, KeepsLost DEF Kept
<1>20. CASE ServeFails
  <2>1. at' = [x \in Threads |-> "idle"] /\ page' = [x \in Threads |-> {}]
    BY <1>20 DEF ServeFails, StartFails, Fresh
  <2>2. UNCHANGED <<done, queue, sent, dropped>>
    BY <1>20 DEF ServeFails, StartFails, Fresh
  <2>3. Shape'
    BY <2>1, <2>2 DEF LostInv, Shape
  <2> QED
    BY <2>1, <2>2, <2>3, <1>t, KeepsLost DEF Kept
<1>21. ASSUME NEW x \in Threads, Flush(x) PROVE LostInv'
  BY <1>21, FlushLost
<1>22. CASE Disabled
  BY <1>22, DisabledLost
<1>23. CASE Queues
  BY <1>23, QueuesLost
<1>24. CASE Flags
  BY <1>24, FlagsLost
<1>25. CASE Confirmed
  BY <1>25, ConfirmedLost
<1>26. CASE Unconfirmed
  BY <1>26, UnconfirmedLost
<1>27. CASE Advances
  BY <1>27, AdvancesLost
<1> QED
  BY <1>t, <1>1, <1>2, <1>3, <1>4, <1>5, <1>6, <1>7, <1>8, <1>9, <1>10, <1>11, <1>12, <1>13, <1>14, <1>15, <1>16, <1>17, <1>18, <1>19, <1>20, <1>21, <1>22, <1>23, <1>24, <1>25, <1>26, <1>27 DEF Next, Pass, Tick

\* A sample at or below the watermark is at the node, queued on disk or was not
\* wanted: whatever changes, fails, is lost or ends in either thread.
THEOREM WatermarkLosesNothing == Spec => []NothingLost
<1>1. LostInv => NothingLost
  BY DEF LostInv
<1> QED
  BY <1>1, InitLost, NextLost, PTL DEF Spec
-----------------------------------------------------------------------------
(***************************************************************************)
(* The types.  A dispatch, a pin and a view come one from the other and    *)
(* never overtake; a tick under way has a sample left to publish.          *)
(***************************************************************************)
IndexInv ==
  /\ defs \in Seq(Definition) /\ Len(defs) # 0
  /\ view \in 1 .. Len(defs) /\ pin \in 0 .. view /\ cached \in 0 .. pin /\ active \in 0 .. cached

FlagInv ==
  /\ live \in BOOLEAN /\ changed \in BOOLEAN /\ filter \in BOOLEAN /\ binding \in BOOLEAN /\ maybe \in BOOLEAN
  /\ wake \in Places \cup {None} /\ phase \in {"off", "starting", "running"}

SampleInv ==
  /\ DOMAIN at = Threads /\ at = [x \in Threads |-> at[x]]
  /\ page \in [Threads -> SUBSET (1 .. Last)]
  /\ queue \subseteq 1 .. Last /\ Cardinality(queue) <= Limit
  /\ sent \subseteq 1 .. Last /\ dropped \subseteq 1 .. Last /\ done \in 0 .. Last
  /\ at["tick"] # "idle" => done < Last

LEMMA BothThreads == "tick" \in Threads /\ "pass" \in Threads /\ \A x \in Threads : x = "tick" \/ x = "pass"
  BY DEF Threads

LEMMA InitTypes == Init => IndexInv /\ FlagInv /\ SampleInv
<1> SUFFICES ASSUME Init PROVE IndexInv /\ FlagInv /\ SampleInv
  OBVIOUS
<1> USE DEF Init
<1>1. IndexInv
  BY DEF IndexInv, Definition
<1>2. FlagInv
  BY DEF FlagInv
<1>3. Cardinality({}) = 0 /\ Last \in Nat /\ Limit \in Nat
  BY FS_EmptySet, BindingsAssumption
<1>4. SampleInv
  BY <1>3, BothThreads DEF SampleInv
<1> QED
  BY <1>1, <1>2, <1>4

\* The indexes: only the view goes ahead of the others.
LEMMA IndexStep == IndexInv /\ [Next]_vars => IndexInv'
<1> SUFFICES ASSUME IndexInv, [Next]_vars PROVE IndexInv'
  OBVIOUS
<1> USE DEF IndexInv
<1>1. CASE Changes
  BY <1>1 DEF Changes
<1>2. CASE ViewFollows \/ ViewBack \/ Start
  BY <1>2 DEF ViewFollows, ViewBack, Start, Follow
<1>3. CASE Ends \/ ServeFails
  BY <1>3 DEF Ends, ServeFails, StartFails, Fresh, node
<1>4. CASE Build
  BY <1>4 DEF Build, node
<1>5. CASE Keep
  BY <1>5 DEF Keep, node
<1>6. CASE Rebind
  BY <1>6 DEF Rebind, node
<1>7. CASE UNCHANGED <<defs, view, pin, cached, active>>
  BY <1>7
<1>8. CASE UNCHANGED vars \/ ViewLost \/ Serve \/ Look \/ Forget \/ Wait \/ Woken \/ Retry \/ TickStarts
  BY <1>7, <1>8 DEF vars, node, ViewLost, Serve, Look, Forget, Wait, Woken, Retry, TickStarts
<1>9. ASSUME NEW x \in Threads, Flush(x) PROVE IndexInv'
  BY <1>7, <1>9 DEF node, Flush, FlushLooks, FlushResolves, FlushSends, FlushFails, FlushDeletes, FlushGoesOn, FlushEnds
<1>10. CASE Resolves \/ Keeps \/ Disabled \/ Queues \/ Flags \/ Confirmed \/ Unconfirmed \/ Advances
  BY <1>7, <1>10 DEF node, Resolves, Keeps, Disabled, Queues, Flags, Confirmed, Unconfirmed, Advances
<1> QED
  BY BothThreads, <1>1, <1>2, <1>3, <1>4, <1>5, <1>6, <1>8, <1>9, <1>10 DEF Next, Pass, Tick

\* What the threads tell each other.
LEMMA FlagStep == IndexInv /\ FlagInv /\ [Next]_vars => FlagInv'
<1> SUFFICES ASSUME IndexInv, FlagInv, [Next]_vars PROVE FlagInv'
  OBVIOUS
<1> USE DEF FlagInv
<1>1. CASE ViewFollows \/ ViewLost \/ ViewBack \/ Start \/ Look
  BY <1>1 DEF ViewFollows, ViewLost, ViewBack, Start, Look, Follow, node, ingest
<1>2. CASE Ends \/ ServeFails
  BY <1>2 DEF Ends, ServeFails, StartFails, Fresh, node
<1>3. Opens => filter' \in BOOLEAN /\ wake' \in Places \cup {None}
  <2>1. Seen.input \in Places \cup {None}
    <3>1. Seen \in Definition
      BY DEF IndexInv, Seen
    <3> QED
      BY <3>1 DEF Definition
  <2>2. Hears(cached) \in BOOLEAN
    BY DEF Hears
  <2> QED
    BY <2>1, <2>2 DEF Opens, WakesOnInputs
<1>4. CASE Serve
  BY <1>3, <1>4 DEF Serve, node
<1>5. CASE Rebind
  BY <1>3, <1>5 DEF Rebind, node, ingest
<1>6. CASE UNCHANGED <<live, changed, filter, wake, binding, maybe, phase>>
  BY <1>6
<1>7. CASE UNCHANGED vars \/ Changes \/ Build \/ Keep \/ Wait \/ Woken \/ Retry \/ TickStarts
  BY <1>6, <1>7 DEF vars, node, ingest, Changes, Build, Keep, Wait, Woken, Retry, TickStarts
<1>8. CASE Forget
  BY <1>8 DEF Forget, node, ingest
<1>9. ASSUME NEW x \in Threads, Flush(x) PROVE FlagInv'
  <2>1. CASE FlushResolves(x)
    <3>1. (binding \/ Index(x).output = "bound") \in BOOLEAN
      OBVIOUS
    <3>2. binding' \in BOOLEAN /\ UNCHANGED <<live, changed, filter, wake, maybe, phase>>
      BY <2>1, <3>1 DEF FlushResolves, node, ingest
    <3> QED
      BY <3>2
  <2>2. CASE FlushEnds(x)
    BY <2>2 DEF FlushEnds, node, ingest
  <2>3. CASE FlushLooks(x) \/ FlushSends(x) \/ FlushFails(x) \/ FlushDeletes(x) \/ FlushGoesOn(x)
    BY <1>6, <2>3 DEF node, ingest, FlushLooks, FlushSends, FlushFails, FlushDeletes, FlushGoesOn
  <2> QED
    BY <1>9, <2>1, <2>2, <2>3 DEF Flush
<1>10. CASE Keeps \/ Flags
  BY <1>10 DEF Keeps, Flags, node, ingest
<1>11. CASE Resolves \/ Disabled \/ Queues \/ Confirmed \/ Unconfirmed \/ Advances
  BY <1>6, <1>11 DEF node, ingest, Resolves, Disabled, Queues, Confirmed, Unconfirmed, Advances
<1> QED
  BY BothThreads, <1>1, <1>2, <1>4, <1>5, <1>7, <1>8, <1>9, <1>10, <1>11 DEF Next, Pass, Tick

\* A step of a thread.
LEMMA ThreadGoes ==
  ASSUME SampleInv, NEW x \in Threads, NEW step, Go(x, step)
  PROVE  /\ DOMAIN at' = Threads /\ at' = [y \in Threads |-> at'[y]] /\ at'[x] = step
         /\ \A y \in Threads : y # x => at'[y] = at[y]
  BY DEF SampleInv, Go

\* What is queued, and what a full queue refuses.
LEMMA QueueFits ==
  ASSUME SampleInv
  PROVE  /\ IsFiniteSet(queue) /\ Oldest \subseteq 1 .. Last
         /\ \A s : Cardinality(queue \ s) <= Limit
         /\ \A s \in 1 .. Last : s \in queue \/ Cardinality(queue) < Limit => Cardinality(queue \cup {s}) <= Limit
<1>1. Last \in Nat /\ Limit \in Nat
  BY BindingsAssumption
<1>2. IsFiniteSet(1 .. Last)
  BY <1>1, FS_Interval
<1>3. IsFiniteSet(queue)
  BY <1>2, FS_Subset DEF SampleInv
<1>4. Cardinality(queue) \in Nat
  BY <1>3, FS_CardinalityType
<1>5. \A s : Cardinality(queue \ s) <= Limit
  <2> SUFFICES ASSUME NEW s PROVE Cardinality(queue \ s) <= Limit
    OBVIOUS
  <2>1. queue \ s \in SUBSET queue
    OBVIOUS
  <2>2. IsFiniteSet(queue \ s) /\ Cardinality(queue \ s) <= Cardinality(queue)
    BY <1>3, <2>1, FS_Subset
  <2>3. Cardinality(queue \ s) \in Nat
    BY <2>2, FS_CardinalityType
  <2> QED
    BY <1>1, <1>4, <2>2, <2>3 DEF SampleInv
<1>6. \A s \in 1 .. Last : s \in queue \/ Cardinality(queue) < Limit => Cardinality(queue \cup {s}) <= Limit
  <2> SUFFICES ASSUME NEW s \in 1 .. Last, s \in queue \/ Cardinality(queue) < Limit PROVE Cardinality(queue \cup {s}) <= Limit
    OBVIOUS
  <2>1. Cardinality(queue \cup {s}) = IF s \in queue THEN Cardinality(queue) ELSE Cardinality(queue) + 1
    BY <1>3, FS_AddElement
  <2> QED
    BY <1>1, <1>4, <2>1 DEF SampleInv
<1> QED
  BY <1>3, <1>5, <1>6 DEF Oldest, SampleInv

\* The samples: a tick has one left, and the queue keeps to its limit.
LEMMA SampleStep == SampleInv /\ [Next]_vars => SampleInv'
<1> SUFFICES ASSUME SampleInv, [Next]_vars PROVE SampleInv'
  OBVIOUS
<1> USE DEF disk
<1>0. Last \in Nat /\ Limit \in Nat /\ done \in Nat /\ "tick" \in Threads /\ "pass" \in Threads /\ "pass" # "tick"
  BY BindingsAssumption, BothThreads DEF SampleInv
<1>1. ASSUME NEW x \in Threads, NEW step, Go(x, step), x = "tick" => at["tick"] # "idle" \/ done < Last,
             UNCHANGED <<page, disk, sent, dropped>>
      PROVE  SampleInv'
  BY <1>0, <1>1, ThreadGoes DEF SampleInv
<1>2. CASE UNCHANGED vars \/ Changes \/ ViewFollows \/ ViewLost \/ ViewBack
  BY <1>2 DEF vars, Changes, ViewFollows, ViewLost, ViewBack, SampleInv
<1>3. CASE Start \/ Serve \/ Look \/ Build \/ Forget \/ Keep \/ Rebind \/ Wait \/ Woken \/ Retry
  <2>1. UNCHANGED <<page, disk, sent, dropped>> /\ \E step : Go("pass", step)
    BY <1>3 DEF Start, Serve, Look, Build, Forget, Keep, Rebind, Wait, Woken, Retry
  <2> QED
    BY <1>0, <1>1, <2>1
<1>4. CASE Ends \/ ServeFails
  <2>1. /\ at' = [x \in Threads |-> "idle"] /\ page' = [x \in Threads |-> {}] /\ UNCHANGED <<disk, sent, dropped>>
    BY <1>4 DEF Ends, ServeFails, StartFails, Fresh
  <2> QED
    BY <1>0, <2>1 DEF SampleInv
<1>5. CASE TickStarts \/ Resolves \/ Keeps \/ Flags
  <2>1. UNCHANGED <<page, disk, sent, dropped>> /\ (at["tick"] # "idle" \/ done < Last) /\ \E step : Go("tick", step)
    BY <1>5 DEF TickStarts, Resolves, Keeps, Flags
  <2> QED
    BY <1>0, <1>1, <2>1
<1>6. ASSUME NEW x \in Threads, at[x] # "idle", NEW step, Go(x, step), page' \in [Threads -> SUBSET (1 .. Last)],
             queue' \subseteq 1 .. Last, Cardinality(queue') <= Limit, done' = done,
             sent' \subseteq 1 .. Last, dropped' \subseteq 1 .. Last
      PROVE  SampleInv'
  BY <1>0, <1>6, ThreadGoes DEF SampleInv
<1>7. ASSUME NEW x \in Threads, Flush(x) PROVE SampleInv'
  <2>1. CASE FlushLooks(x) \/ FlushGoesOn(x)
    <3>1. /\ page' = [page EXCEPT ![x] = Oldest] /\ at[x] # "idle" /\ UNCHANGED <<queue, done, sent, dropped>>
          /\ \E step : Go(x, step)
      BY <2>1 DEF FlushLooks, FlushGoesOn
    <3>2. page' \in [Threads -> SUBSET (1 .. Last)]
      BY <3>1, QueueFits DEF SampleInv
    <3> QED
      BY <1>6, <3>1, <3>2 DEF SampleInv
  <2>2. CASE FlushResolves(x) \/ FlushEnds(x)
    <3>1. at[x] # "idle" /\ UNCHANGED <<page, disk, sent, dropped>> /\ \E step : Go(x, step)
      BY <2>2 DEF FlushResolves, FlushEnds, Fail, Flushed
    <3> QED
      BY <1>1, <3>1
  <2>3. CASE FlushSends(x) \/ FlushFails(x)
    <3>1. /\ at[x] # "idle" /\ UNCHANGED <<queue, done, dropped>> /\ sent' \subseteq sent \cup page[x]
          /\ page' = page \/ page' = [page EXCEPT ![x] = {}]
          /\ \E step : Go(x, step)
      BY <2>3 DEF FlushSends, FlushFails, Fail
    <3>2. page' \in [Threads -> SUBSET (1 .. Last)] /\ sent' \subseteq 1 .. Last
      BY <3>1 DEF SampleInv
    <3> QED
      BY <1>6, <3>1, <3>2 DEF SampleInv
  <2>4. CASE FlushDeletes(x)
    <3>1. /\ at[x] # "idle" /\ UNCHANGED <<done, sent, dropped>> /\ queue' = queue \ page[x]
          /\ page' = [page EXCEPT ![x] = {}] /\ Go(x, "more")
      BY <2>4 DEF FlushDeletes
    <3>2. page' \in [Threads -> SUBSET (1 .. Last)] /\ Cardinality(queue') <= Limit /\ queue' \subseteq 1 .. Last
      BY <3>1, QueueFits DEF SampleInv
    <3> QED
      BY <1>6, <3>1, <3>2 DEF SampleInv
  <2> QED
    BY <1>7, <2>1, <2>2, <2>3, <2>4 DEF Flush
<1>8. CASE Disabled \/ Queues \/ Confirmed \/ Unconfirmed
  <2>1. /\ at["tick"] # "idle" /\ UNCHANGED <<page, done>> /\ \E step : Go("tick", step)
        /\ dropped' \subseteq dropped \cup {Sample} /\ sent' \subseteq sent \cup {Sample}
    BY <1>8 DEF Disabled, Queues, Confirmed, Unconfirmed
  <2>2. Sample \in 1 .. Last
    BY <1>0, <2>1 DEF SampleInv, Sample
  <2>3. queue' = queue \/ (queue' = queue \cup {Sample} /\ (Sample \in queue \/ Cardinality(queue) < Limit))
    BY <1>8 DEF Disabled, Queues, Confirmed, Unconfirmed
  <2>4. queue' \subseteq 1 .. Last /\ Cardinality(queue') <= Limit
    BY <2>2, <2>3, QueueFits DEF SampleInv
  <2>5. page' \in [Threads -> SUBSET (1 .. Last)] /\ dropped' \subseteq 1 .. Last /\ sent' \subseteq 1 .. Last
    BY <2>1, <2>2 DEF SampleInv
  <2> QED
    BY <1>0, <1>6, <2>1, <2>4, <2>5
<1>9. CASE Advances
  <2>1. at["tick"] # "idle" /\ Go("tick", "idle") /\ done' = done + 1 /\ UNCHANGED <<page, queue, sent, dropped>>
    BY <1>9 DEF Advances, Sample
  <2> QED
    BY <1>0, <2>1, ThreadGoes DEF SampleInv
<1> QED
  BY BothThreads, <1>2, <1>3, <1>4, <1>5, <1>7, <1>8, <1>9 DEF Next, Pass, Tick

\* Every variable keeps its type; the dispatch comes from a definition the view has
\* held (resolve.py, one_pass), and an output's queue keeps to its limit (buffer.py,
\* queue_output) though two threads work on it.
THEOREM TypeCorrect == Spec => []TypeOK
<1>1. IndexInv /\ FlagInv /\ SampleInv => TypeOK
  <2> SUFFICES ASSUME IndexInv, FlagInv, SampleInv PROVE TypeOK
    OBVIOUS
  <2>1. /\ \A i \in 1 .. Len(defs) : defs[i] \in Definition
        /\ view \in 1 .. Len(defs) /\ pin \in 0 .. view /\ cached \in 0 .. pin /\ active \in 0 .. cached
    BY DEF IndexInv
  <2> QED
    BY <2>1 DEF TypeOK, FlagInv, SampleInv
<1> QED
  BY <1>1, InitTypes, IndexStep, FlagStep, SampleStep, PTL DEF Spec
=============================================================================
