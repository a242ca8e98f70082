--------------------------- MODULE DataOpsBindings ---------------------------
(***************************************************************************)
(* A DataOps service follows the node's definitions (dataops/service.py,   *)
(* dataops/resolve.py) while a timer of its producer publishes an output   *)
(* (dataops/outputs.py).                                                   *)
(*                                                                         *)
(* Two threads work on the output: the re-resolve loop's, which forgets    *)
(* what was resolved, resolves it again and flushes the samples queued     *)
(* while the output was unbound, and the scheduler's, whose tick publishes *)
(* or queues one sample and then moves the producer's watermark.  Neither  *)
(* waits for the other.  One producer stands for all: one input, one       *)
(* output, one @every method.                                              *)
(***************************************************************************)
EXTENDS Naturals, Sequences, FiniteSets

CONSTANTS
  Places,       \* where on the node the input's signal may be
  None,         \* no place: the signal is not commissioned
  Last,         \* bound: samples the timer computes
  Limit,        \* samples an output may have queued (10000)
  PageSize,     \* queued samples published at a time (1000)
  MaxChanges,   \* bound: changes of the definitions
  MaxTroubles   \* bound: lost views, unconfirmed publishes and ends of the process

ASSUME BindingsAssumption ==
  /\ None \notin Places
  /\ {Last, Limit, PageSize} \subseteq Nat \ {0}
  /\ {MaxChanges, MaxTroubles} \subseteq Nat

VARIABLES
  defs,      \* the node's definitions, one after the other
  view,      \* the entry of defs the definition cache holds
  live,      \* whether that view is available
  changed,   \* whether its version moved since the re-resolve loop looked
  at,        \* thread -> the step it is at
  page,      \* thread -> the queued samples it is publishing
  pin,       \* the index the running pass pinned
  cached,    \* runtime._resolved_dispatch: the index it was built from, or 0
  active,    \* reresolve_loop's active_dispatch, likewise
  filter,    \* whether the ingest's stream is filtered to the input
  wake,      \* DataOpsService._wake_topics
  binding,   \* SignalOutput._binding
  maybe,     \* SignalOutput._maybe_queued
  queue,     \* pending_outputs: samples on disk
  done,      \* the producer's watermark, on disk
  sent,      \* samples the node has
  dropped,   \* samples not published because the output is switched off
  phase,     \* "off", "starting", "running"
  troubles

node == <<defs, view, live>>
disk == <<queue, done>>
ingest == <<filter, wake>>
vars == <<node, changed, at, page, pin, cached, active, ingest, binding, maybe, disk, sent, dropped, phase, troubles>>

Threads == {"pass", "tick"}
Definition == [input : Places \cup {None}, output : {"unbound", "bound", "off"}]
Now == defs[Len(defs)]
Seen == defs[view]
Go(x, step) == at' = [at EXCEPT ![x] = step]
Sample == done + 1

Init ==
  /\ defs = <<[input |-> None, output |-> "unbound"]>> /\ view = 1 /\ live = TRUE /\ changed = FALSE
  /\ at = [x \in Threads |-> "idle"] /\ page = [x \in Threads |-> {}]
  /\ pin = 0 /\ cached = 0 /\ active = 0 /\ filter = FALSE /\ wake = None
  /\ binding = FALSE /\ maybe = TRUE /\ queue = {} /\ done = 0
  /\ sent = {} /\ dropped = {} /\ phase = "off" /\ troubles = 0
-----------------------------------------------------------------------------
(***************************************************************************)
(* The node and its definition view (RetainedView)                         *)
(***************************************************************************)
Changes ==
  /\ Len(defs) <= MaxChanges
  /\ \E d \in Definition : d # Now /\ defs' = Append(defs, d)
  /\ UNCHANGED <<view, live, changed, at, page, pin, cached, active, ingest, binding, maybe, disk, sent, dropped, phase, troubles>>

Follow == /\ view' = Len(defs)
          /\ changed' = TRUE

ViewFollows ==
  /\ live /\ view # Len(defs)
  /\ Follow
  /\ UNCHANGED <<defs, live, at, page, pin, cached, active, ingest, binding, maybe, disk, sent, dropped, phase, troubles>>

ViewLost ==
  /\ live /\ troubles < MaxTroubles
  /\ troubles' = troubles + 1
  /\ live' = FALSE /\ changed' = TRUE
  /\ UNCHANGED <<defs, view, at, page, pin, cached, active, ingest, binding, maybe, disk, sent, dropped, phase>>

ViewBack ==
  /\ ~live
  /\ live' = TRUE /\ Follow
  /\ UNCHANGED <<defs, at, page, pin, cached, active, ingest, binding, maybe, disk, sent, dropped, phase, troubles>>
-----------------------------------------------------------------------------
(***************************************************************************)
(* serve(): one process after the other                                    *)
(***************************************************************************)
Fresh ==
  /\ page' = [x \in Threads |-> {}]
  /\ pin' = 0 /\ cached' = 0 /\ active' = 0 /\ filter' = FALSE /\ wake' = None
  /\ binding' = FALSE /\ maybe' = TRUE

\* A stop, a crash or a start that failed: what memory held is gone, and a
\* thread caught in a step fails at the closed buffer or client.
Ends ==
  /\ phase # "off" /\ troubles < MaxTroubles
  /\ troubles' = troubles + 1
  /\ phase' = "off" /\ at' = [x \in Threads |-> "idle"]
  /\ Fresh
  /\ UNCHANGED <<node, changed, disk, sent, dropped>>

StartFails ==
  /\ phase' = "off" /\ at' = [x \in Threads |-> "idle"]
  /\ Fresh
  /\ UNCHANGED <<node, changed, disk, sent, dropped, troubles>>

\* Serving begins once the view is available; the outputs are bound to their
\* tags, and the view is synchronized before anything is dispatched.
Start ==
  /\ phase = "off" /\ live
  /\ phase' = "starting"
  /\ view' = Len(defs) /\ changed' = TRUE
  /\ Go("pass", "build")
  /\ UNCHANGED <<defs, live, page, pin, cached, active, ingest, binding, maybe, disk, sent, dropped, troubles>>

\* _resolve_dispatch: the inputs an index resolves are what is fetched.
Hears(i) == defs[i].input # None

\* _wake_on_inputs: the topic of each input, as the view has it now.  (Its retry
\* after an HTTP error is for a door without a definition cache.)
WakesOnInputs == wake' = IF Hears(cached) THEN Seen.input ELSE None

Opens ==
  /\ filter' = Hears(cached)
  /\ WakesOnInputs

\* The first dispatch gives the ingest its stream; then the tasks start.
Serve ==
  /\ phase = "starting" /\ at["pass"] = "bind" /\ live
  /\ Opens
  /\ phase' = "running"
  /\ Go("pass", "look")
  /\ UNCHANGED <<node, changed, page, pin, cached, active, binding, maybe, disk, sent, dropped, troubles>>

ServeFails ==
  /\ phase = "starting"
  /\ at["pass"] = "failed" \/ (at["pass"] = "bind" /\ ~live)
  /\ StartFails
-----------------------------------------------------------------------------
(***************************************************************************)
(* The re-resolve loop                                                     *)
(***************************************************************************)
\* The version is taken before the pass: a change during it starts another.
Look ==
  /\ at["pass"] = "look"
  /\ changed' = FALSE
  /\ Go("pass", "build")
  /\ UNCHANGED <<node, page, pin, cached, active, ingest, binding, maybe, disk, sent, dropped, phase, troubles>>

\* build_dispatch: pins the index, or reuses what it built from the same one.
Build ==
  /\ at["pass"] = "build"
  /\ IF ~live THEN Go("pass", "failed") /\ UNCHANGED pin
     ELSE IF cached = view THEN Go("pass", "bind") /\ UNCHANGED pin
     ELSE Go("pass", "forget") /\ pin' = view
  /\ UNCHANGED <<node, changed, page, cached, active, ingest, binding, maybe, disk, sent, dropped, phase, troubles>>

\* A plausible slip: the dispatch counts as built before the outputs flushed.
ForgetAndCache ==
  /\ at["pass"] = "forget"
  /\ binding' = FALSE
  /\ cached' = pin
  /\ Go("pass", "page")
  /\ UNCHANGED <<node, changed, page, pin, active, ingest, maybe, disk, sent, dropped, phase, troubles>>

\* forget_resolved; the inputs are then resolved from the pinned index.
Forget ==
  /\ at["pass"] = "forget"
  /\ binding' = FALSE
  /\ Go("pass", "page")
  /\ UNCHANGED <<node, changed, page, pin, cached, active, ingest, maybe, disk, sent, dropped, phase, troubles>>

\* After the flush: the dispatch is kept for the next pass over this index.
Keep ==
  /\ at["pass"] = "flushed"
  /\ cached' = pin
  /\ Go("pass", "bind")
  /\ UNCHANGED <<node, changed, page, pin, active, ingest, binding, maybe, disk, sent, dropped, phase, troubles>>

\* Ingest.rebind on the service's loop, unless this dispatch is bound already.
Rebind ==
  /\ phase = "running" /\ at["pass"] = "bind"
  /\ IF active = cached THEN Go("pass", "wait") /\ UNCHANGED <<active, ingest>>
     ELSE IF live THEN Opens /\ active' = cached /\ Go("pass", "wait")
     ELSE Go("pass", "failed") /\ UNCHANGED <<active, ingest>>
  /\ UNCHANGED <<node, changed, page, pin, cached, binding, maybe, disk, sent, dropped, phase, troubles>>

\* A plausible slip: what changed during the pass is taken for read.
LookAfter ==
  /\ at["pass"] = "wait"
  /\ Go("pass", "asleep")
  /\ changed' = FALSE
  /\ UNCHANGED <<node, page, pin, cached, active, ingest, binding, maybe, disk, sent, dropped, phase, troubles>>

\* wait_async(version): returns at once if the definitions moved meanwhile.
Wait ==
  /\ at["pass"] = "wait"
  /\ Go("pass", "asleep")
  /\ UNCHANGED <<node, changed, page, pin, cached, active, ingest, binding, maybe, disk, sent, dropped, phase, troubles>>

Woken ==
  /\ at["pass"] = "asleep" /\ changed
  /\ Go("pass", "look")
  /\ UNCHANGED <<node, changed, page, pin, cached, active, ingest, binding, maybe, disk, sent, dropped, phase, troubles>>

\* A pass that failed goes on once the view is available: at once if that or a
\* change ended it, else after a backoff, which a change cuts short.
Retry ==
  /\ phase = "running" /\ at["pass"] = "failed" /\ live
  /\ Go("pass", "look")
  /\ UNCHANGED <<node, changed, page, pin, cached, active, ingest, binding, maybe, disk, sent, dropped, phase, troubles>>
-----------------------------------------------------------------------------
(***************************************************************************)
(* SignalOutput.flush, in either thread                                    *)
(***************************************************************************)
Fail(x) == Go(x, IF x = "pass" THEN "failed" ELSE "idle")
Flushed(x) == Go(x, IF x = "pass" THEN "flushed" ELSE "send")

Oldest == {s \in queue : Cardinality({r \in queue : r < s}) < PageSize}

\* The index a flush resolves with: the pass's pin, or the view as it is.
Index(x) == IF x = "pass" THEN defs[pin] ELSE Seen

FlushLooks(x) ==
  /\ at[x] = "page"
  /\ page' = [page EXCEPT ![x] = Oldest]
  /\ Go(x, IF queue = {} THEN "clear" ELSE "resolve")
  /\ UNCHANGED <<node, changed, pin, cached, active, ingest, binding, maybe, disk, sent, dropped, phase, troubles>>

\* Without a binding the samples stay where they are.
FlushResolves(x) ==
  /\ at[x] = "resolve"
  /\ IF ~binding /\ x = "tick" /\ ~live
       THEN Fail(x) /\ UNCHANGED binding
       ELSE /\ binding' = (binding \/ Index(x).output = "bound")
            /\ IF binding' THEN Go(x, "settle") ELSE Flushed(x)
  /\ UNCHANGED <<node, changed, page, pin, cached, active, ingest, maybe, disk, sent, dropped, phase, troubles>>

\* The page is published and confirmed as a whole, or some of it is not.
FlushSends(x) ==
  /\ at[x] = "settle"
  /\ sent' = sent \cup page[x]
  /\ Go(x, "delete")
  /\ UNCHANGED <<node, changed, page, pin, cached, active, ingest, binding, maybe, disk, dropped, phase, troubles>>

FlushFails(x) ==
  /\ at[x] = "settle" /\ troubles < MaxTroubles
  /\ troubles' = troubles + 1
  /\ \E arrived \in SUBSET page[x] : sent' = sent \cup arrived
  /\ page' = [page EXCEPT ![x] = {}]
  /\ Fail(x)
  /\ UNCHANGED <<node, changed, pin, cached, active, ingest, binding, maybe, disk, dropped, phase>>

\* outputs_sent, and the next page.
FlushDeletes(x) ==
  /\ at[x] = "delete"
  /\ queue' = queue \ page[x]
  /\ page' = [page EXCEPT ![x] = {}]
  /\ Go(x, "more")
  /\ UNCHANGED <<node, changed, pin, cached, active, ingest, binding, maybe, done, sent, dropped, phase, troubles>>

FlushGoesOn(x) ==
  /\ at[x] = "more"
  /\ page' = [page EXCEPT ![x] = Oldest]
  /\ Go(x, IF queue = {} THEN "clear" ELSE "settle")
  /\ UNCHANGED <<node, changed, pin, cached, active, ingest, binding, maybe, disk, sent, dropped, phase, troubles>>

FlushEnds(x) ==
  /\ at[x] = "clear"
  /\ maybe' = FALSE
  /\ Flushed(x)
  /\ UNCHANGED <<node, changed, page, pin, cached, active, ingest, binding, disk, sent, dropped, phase, troubles>>

Flush(x) == \/ FlushLooks(x) \/ FlushResolves(x) \/ FlushSends(x) \/ FlushFails(x)
            \/ FlushDeletes(x) \/ FlushGoesOn(x) \/ FlushEnds(x)
-----------------------------------------------------------------------------
(***************************************************************************)
(* A tick: off_loop's job runs the method, which publishes one sample and  *)
(* advances the watermark.  It never overlaps itself, and one that failed  *)
(* runs again.                                                             *)
(***************************************************************************)
TickStarts ==
  /\ phase = "running" /\ at["tick"] = "idle" /\ done < Last
  /\ Go("tick", "bound")
  /\ UNCHANGED <<node, changed, page, pin, cached, active, ingest, binding, maybe, disk, sent, dropped, phase, troubles>>

\* publish: the binding kept since the last pass, else what the view says.
Resolves ==
  /\ at["tick"] = "bound"
  /\ Go("tick", IF ~binding /\ ~live THEN "idle"
                ELSE IF binding \/ Seen.output = "bound" THEN "keep" ELSE "disabled")
  /\ UNCHANGED <<node, changed, page, pin, cached, active, ingest, binding, maybe, disk, sent, dropped, phase, troubles>>

Keeps ==
  /\ at["tick"] = "keep"
  /\ binding' = TRUE
  /\ Go("tick", IF maybe THEN "page" ELSE "send")
  /\ UNCHANGED <<node, changed, page, pin, cached, active, ingest, maybe, disk, sent, dropped, phase, troubles>>

\* output_disabled: a switched off output publishes nothing.
Disabled ==
  /\ at["tick"] = "disabled"
  /\ IF live /\ Seen.output = "off"
       THEN dropped' = dropped \cup {Sample} /\ Go("tick", "advance")
       ELSE Go("tick", IF live THEN "queue" ELSE "idle") /\ UNCHANGED dropped
  /\ UNCHANGED <<node, changed, page, pin, cached, active, ingest, binding, maybe, disk, sent, phase, troubles>>

\* A plausible slip: a full queue makes room.
QueuesEvicting ==
  /\ at["tick"] = "queue"
  /\ queue' = {s \in queue \cup {Sample} : Sample - s < Limit}
  /\ Go("tick", "flag")
  /\ UNCHANGED <<node, changed, page, pin, cached, active, ingest, binding, maybe, done, sent, dropped, phase, troubles>>

\* A plausible slip: the queue has no limit.
QueuesAnyway ==
  /\ at["tick"] = "queue"
  /\ queue' = queue \cup {Sample}
  /\ Go("tick", "flag")
  /\ UNCHANGED <<node, changed, page, pin, cached, active, ingest, binding, maybe, done, sent, dropped, phase, troubles>>

\* queue_output: a full queue fails the tick.
Queues ==
  /\ at["tick"] = "queue"
  /\ IF Sample \in queue \/ Cardinality(queue) < Limit
       THEN queue' = queue \cup {Sample} /\ Go("tick", "flag")
       ELSE Go("tick", "idle") /\ UNCHANGED queue
  /\ UNCHANGED <<node, changed, page, pin, cached, active, ingest, binding, maybe, done, sent, dropped, phase, troubles>>

Flags ==
  /\ at["tick"] = "flag"
  /\ maybe' = TRUE
  /\ Go("tick", "advance")
  /\ UNCHANGED <<node, changed, page, pin, cached, active, ingest, binding, disk, sent, dropped, phase, troubles>>

\* The sample is handed to the client and confirmed by advance_watermark, which
\* settles the tick's batch before it moves the watermark.
Confirmed ==
  /\ at["tick"] = "send"
  /\ sent' = sent \cup {Sample}
  /\ Go("tick", "advance")
  /\ UNCHANGED <<node, changed, page, pin, cached, active, ingest, binding, maybe, disk, dropped, phase, troubles>>

Unconfirmed ==
  /\ at["tick"] = "send" /\ troubles < MaxTroubles
  /\ troubles' = troubles + 1
  /\ sent' \in {sent, sent \cup {Sample}}
  /\ Go("tick", "idle")
  /\ UNCHANGED <<node, changed, page, pin, cached, active, ingest, binding, maybe, disk, dropped, phase>>

Advances ==
  /\ at["tick"] = "advance"
  /\ done' = Sample
  /\ Go("tick", "idle")
  /\ UNCHANGED <<node, changed, page, pin, cached, active, ingest, binding, maybe, queue, sent, dropped, phase, troubles>>
-----------------------------------------------------------------------------
Pass == \/ Serve \/ ServeFails \/ Look \/ Build \/ Forget \/ Keep \/ Rebind \/ Wait \/ Woken \/ Retry
        \/ Flush("pass")

Tick == \/ Resolves \/ Keeps \/ Disabled \/ Queues \/ Flags \/ Confirmed \/ Unconfirmed \/ Advances
        \/ Flush("tick")

Next == \/ Changes \/ ViewFollows \/ ViewLost \/ ViewBack
        \/ Start \/ Ends
        \/ Pass
        \/ TickStarts \/ Tick

Spec == Init /\ [][Next]_vars

\* Threads that can go on do, and the view and the process come back.  Nothing
\* says a tick comes: the timer of an idle producer may be hours away.
Fairness == WF_vars(Pass) /\ WF_vars(Tick) /\ WF_vars(ViewFollows) /\ WF_vars(ViewBack) /\ WF_vars(Start)

FairSpec == Spec /\ Fairness
-----------------------------------------------------------------------------
\* The variables have their types, and a dispatch comes from a definition the
\* view has held (resolve.py, one_pass).
TypeOK ==
  /\ \A i \in 1 .. Len(defs) : defs[i] \in Definition
  /\ view \in 1 .. Len(defs) /\ pin \in 0 .. view /\ cached \in 0 .. pin /\ active \in 0 .. cached
  /\ {live, changed, filter, binding, maybe} \subseteq BOOLEAN
  /\ wake \in Places \cup {None}
  /\ page \in [Threads -> SUBSET (1 .. Last)]
  /\ queue \subseteq 1 .. Last /\ Cardinality(queue) <= Limit
  /\ sent \subseteq 1 .. Last /\ dropped \subseteq 1 .. Last /\ done \in 0 .. Last
  /\ phase \in {"off", "starting", "running"}

\* What lies behind the watermark is not lost: every sample up to it is at the
\* node or queued on disk, unless the output was switched off (outputs.py,
\* publish; base.py, advance_watermark).
NothingLost == \A s \in 1 .. done : s \in sent \cup queue \cup dropped

\* "definition updates flush them without another sample" (outputs.py): a sample
\* queued before the service saw its output bound leaves the queue in the end,
\* though a flush fails, the view is lost or the process ends meanwhile.
QueueFlushed ==
  \A s \in 1 .. Last :
    s \in queue /\ at["tick"] = "idle" /\ Seen.output # "bound" /\ Now.output = "bound"
      ~> s \notin queue \/ Now.output # "bound"

\* The ingest reads and wakes on what the node defines: once the definitions
\* stop changing, its filter and its wake-up topic are those of the input, and
\* stay so (service.py, reresolve_loop).
BindingsFollow == <>[](filter = (Now.input # None) /\ wake = Now.input)
=============================================================================
