------------------------------- MODULE Ingest -------------------------------
(***************************************************************************)
(* src/chaski/dataops/ingest.py: one cursor walks the metrics stream,      *)
(* appends every record to the local buffer (dataops/buffer.py) and runs   *)
(* the handlers bound to its signal.  Producers with a checkpoint keep     *)
(* their state per page (PageCheckpoints, dataops/base.py); what handlers  *)
(* publish is pipelined and confirmed when the page ends (PublishBatch,    *)
(* publishing.py).  A page of a node that reads ahead is fetched while the *)
(* one before it is processed, and acks go out in the background.          *)
(*                                                                         *)
(* Running beside the loop: the node, the task that sends acks, the read   *)
(* ahead, a rebind to other signals, other threads that commit, put off a  *)
(* commit or roll back on the buffer's one connection, and a stop of the   *)
(* process.                                                                *)
(***************************************************************************)
EXTENDS Integers, Sequences, FiniteSets, SequencesExt

CONSTANTS
    Signal,       \* the signal of each record, by offset
    Filter,       \* the signals the stream is opened with, before and after the rebind
    Handlers,     \* the producers bound to each signal, in dispatch order
    Checkpointed, \* the producers with a state_version
    PageSize,     \* most records of one fetch
    Window,       \* PUBLISH_WINDOW: most writes a page leaves unconfirmed
    MaxUpsets     \* bound: failures of requests, writes, saves and handlers, stops, prunes,
                  \* rebinds, commits another thread puts off

Producers == UNION {{Handlers[s][k] : k \in 1 .. Len(Handlers[s])} : s \in DOMAIN Handlers}

ASSUME IngestAssumption ==
    /\ Signal \in Seq(DOMAIN Handlers) /\ \A s \in DOMAIN Handlers : Handlers[s] \in Seq(Producers)
    /\ Filter \in [0 .. 1 -> SUBSET DOMAIN Handlers]
    /\ Checkpointed \subseteq Producers
    /\ PageSize \in Nat \ {0} /\ Window \in Nat \ {0}
    /\ MaxUpsets \in Nat

VARIABLES
    head,       \* node: the last record admitted
    low,        \* node: the first record it still holds
    cursor,     \* node: the last record acknowledged
    nodeAhead,  \* node: whether it reads ahead of a cursor
    accepted,   \* what on_gap lets the loop go past
    msg,        \* a message on an input topic is on its way to wake()
    bound,      \* which filter and dispatch table are in place
    rung,       \* the bell rang after the loop took its generation
    behind,     \* _behind
    nextFrom,   \* _next_from, 0 for None
    prefetch,   \* _prefetch
    ackSend,    \* the ack in flight, 0 for none: the ack task is done
    ackWant,    \* _ack_want, 0 for None
    ackFailed,  \* _ack_failed
    pc,         \* what the loop does next
    then,       \* where _restart_from_cursor returns to
    page,       \* the page in hand: what is left of it, its gap and its ack_offset
    todo,       \* the calls left for the record in hand, as <<producer, record>>
    handled1,   \* first_handled of the page, 0 for None
    failed,     \* the record of _failed, 0 for None
    late,       \* the record of PageCheckpoints.failed, 0 for None
    live,       \* checkpointed producers: state and handled offset
    entry,      \* PageCheckpoints: what each producer may go back to
    entered,    \* the producers the page reached
    batch,      \* PublishBatch: the writes not known to be confirmed
    durable,    \* the buffer on disk
    txn,        \* the statements of the open transaction
    deferring,  \* another thread is inside one_commit
    owed,       \* history: the open transaction holds a page that ended without its commit
    done,       \* history: the calls that returned, or were recorded as rejected
    rejected,   \* history: the calls whose rejection was recorded
    confirmed,  \* history: the calls whose write the node confirmed
    blamed,     \* history: the calls whose failed write was raised to a later call
    undone,     \* history: the records whose points or saved state a rollback or a stop took
    upsets      \* how often something got in the way

node == <<head, low, cursor, nodeAhead, accepted>>
acks == <<ackSend, ackWant, ackFailed>>
reader == <<bound, behind, nextFrom, prefetch>>
flow == <<pc, then, page, todo, handled1, failed, late>>
keeper == <<live, entry, entered, batch>>
store == <<durable, txn, deferring, owed>>
past == <<done, rejected, confirmed, blamed, undone>>
vars == <<node, msg, rung, reader, acks, flow, keeper, store, past, upsets>>

MaxRecords == Len(Signal)
Records == 1 .. MaxRecords
\* src/chaski/dataops/ingest.py binds handlers only to the signals it reads.
Bound(r) == IF Signal[r] \in Filter[bound] THEN Handlers[Signal[r]] ELSE <<>>

NoPage  == [start |-> 0, recs |-> {}, next |-> 1, gap |-> 0]
NoWork  == [recs |-> {}, gap |-> 0, ack |-> 0]
NoFetch == [state |-> "none", ver |-> 0, page |-> NoPage]
Fresh   == [st |-> <<>>, off |-> 0]         \* a producer's state: the records it took in
NoEntry == [first |-> 0, start |-> Fresh, base |-> Fresh, since |-> <<>>]
Clean   == [points |-> {}, saved |-> [p \in {} |-> Fresh]]

Init ==
    /\ head = 0 /\ low = 1 /\ cursor = 0 /\ nodeAhead \in BOOLEAN /\ accepted = 0
    /\ msg = FALSE /\ bound = 0 /\ rung = FALSE /\ behind = FALSE /\ nextFrom = 0
    /\ prefetch = NoFetch /\ ackSend = 0 /\ ackWant = 0 /\ ackFailed = FALSE
    /\ pc = "top" /\ then = "top" /\ page = NoWork /\ todo = <<>>
    /\ handled1 = 0 /\ failed = 0 /\ late = 0
    /\ live = [p \in Checkpointed |-> Fresh]
    /\ entry = [p \in Checkpointed |-> NoEntry] /\ entered = {} /\ batch = <<>>
    /\ durable = [points |-> {}, saved |-> [p \in Checkpointed |-> Fresh]] /\ txn = Clean
    /\ deferring = FALSE /\ owed = FALSE
    /\ done = {} /\ rejected = {} /\ confirmed = {} /\ blamed = {} /\ undone = {}
    /\ upsets = 0

-----------------------------------------------------------------------------
(* The node, and what runs beside the loop *)

Upset == upsets < MaxUpsets /\ upsets' = upsets + 1

Admit ==
    /\ head < MaxRecords
    /\ head' = head + 1
    /\ msg' = (msg \/ Signal[head'] \in Filter[bound])
    /\ UNCHANGED <<low, cursor, nodeAhead, accepted, rung, reader, acks, flow, keeper, store, past, upsets>>

Prune ==
    /\ Upset /\ low <= head
    /\ low' = low + 1
    /\ UNCHANGED <<head, cursor, nodeAhead, accepted, msg, rung, reader, acks, flow, keeper, store, past>>

\* wake(), called from the MQTT callback of an input topic.
WakeOnInput ==
    /\ msg
    /\ msg' = FALSE /\ rung' = TRUE
    /\ UNCHANGED <<node, reader, acks, flow, keeper, store, past, upsets>>

\* on_gap's owner lets the loop go past what was pruned, and wakes it.
AcceptGap ==
    /\ accepted < low - 1
    /\ accepted' = low - 1 /\ rung' = TRUE
    /\ UNCHANGED <<head, low, cursor, nodeAhead, msg, reader, acks, flow, keeper, store, past, upsets>>

\* Ingest.rebind: another table, another filter, the same cursor.
Rebind ==
    /\ Upset /\ bound = 0
    /\ bound' = 1 /\ rung' = TRUE
    /\ UNCHANGED <<node, msg, behind, nextFrom, prefetch, acks, flow, keeper, store, past>>

\* A producer's saved checkpoint as reads on the connection see it.
Saved(t, p) == IF p \in DOMAIN t.saved THEN t.saved[p] ELSE durable.saved[p]

Committed(t) ==
    [points |-> durable.points \cup t.points, saved |-> [p \in Checkpointed |-> Saved(t, p)]]

Commit == durable' = Committed(txn) /\ txn' = Clean /\ owed' = FALSE

\* Another thread's statement on the same connection (queue_output, outputs_sent,
\* command_started, set_watermark) commits what the page wrote so far.
OtherCommits ==
    /\ txn # Clean
    /\ Commit
    /\ UNCHANGED <<node, msg, rung, reader, acks, flow, keeper, deferring, past, upsets>>

\* The steps of a page inside its one_commit.
InPage == {"records", "reject", "settle", "finish", "commit"}

\* BackfillRunner._commit opens one_commit in a thread of its own, without the page lock:
\* a page that ends meanwhile does not commit, as the two share one count.
OtherDefers ==
    /\ Upset
    /\ ~deferring /\ deferring' = TRUE
    /\ UNCHANGED <<node, msg, rung, reader, acks, flow, keeper, durable, txn, owed, past>>

\* ... and commits at its end, unless a page is under way.
OtherEnds ==
    /\ deferring /\ deferring' = FALSE
    /\ IF pc \in InPage THEN UNCHANGED <<durable, txn, owed>> ELSE Commit
    /\ UNCHANGED <<node, msg, rung, reader, acks, flow, keeper, past, upsets>>

\* The records whose point or whose saved state only the open transaction has.
Open ==
    (txn.points \ durable.points) \cup
        UNION {Range(txn.saved[p].st) \ Range(durable.saved[p].st) : p \in DOMAIN txn.saved}

\* queue_output meets a full queue: BufferError leaves its transaction, which rolls
\* back whatever the connection had not committed.
RollBack == undone' = undone \cup Open /\ txn' = Clean /\ owed' = FALSE

\* ... for the sample of a tick, in its own thread.
OtherRollsBack ==
    /\ Upset
    /\ txn # Clean /\ RollBack
    /\ UNCHANGED <<node, msg, rung, reader, acks, flow, keeper, durable, deferring, done, rejected, confirmed, blamed>>

\* The process stops and starts again: restore_checkpoint, a new cursor object.  A
\* page acknowledged without its commit is lost.
Restart ==
    /\ Upset
    /\ rung' = FALSE /\ behind' = FALSE /\ nextFrom' = 0 /\ prefetch' = NoFetch
    /\ ackSend' = 0 /\ ackWant' = 0 /\ ackFailed' = FALSE
    /\ pc' = "top" /\ then' = "top" /\ page' = NoWork /\ todo' = <<>>
    /\ handled1' = 0 /\ failed' = 0 /\ late' = 0
    /\ live' = durable.saved /\ entry' = [p \in Checkpointed |-> NoEntry] /\ entered' = {}
    /\ batch' = <<>> /\ txn' = Clean /\ deferring' = FALSE /\ owed' = FALSE
    /\ undone' = undone \cup (IF owed THEN Open \cap 1 .. cursor ELSE {})
    /\ UNCHANGED <<node, msg, bound, durable, done, rejected, confirmed, blamed>>

-----------------------------------------------------------------------------
(* Fetching: Stream.fetch and the node's GET /fetch *)

Larger(a, b) == IF a > b THEN a ELSE b

\* The pages a fetch may return now: from the cursor, or from an offset ahead of
\* it; what the filter leaves out is skipped; a pruned stretch is a gap.  A node
\* that does not read ahead scans to a record of the filter or to the head.
Pages(from, ver) ==
    LET start == IF nodeAhead THEN Larger(cursor + 1, from) ELSE cursor + 1
        at    == Larger(start, low)
        recs(next) == {r \in at .. next - 1 : Signal[r] \in Filter[ver]}
    IN  {[start |-> IF nodeAhead THEN start ELSE 0, recs |-> recs(next), next |-> next,
          gap |-> IF start < low THEN low - 1 ELSE 0] :
            next \in {n \in at .. head + 1 :
                        /\ n > at \/ at = head + 1
                        /\ Cardinality(recs(n)) <= PageSize
                        /\ nodeAhead \/ recs(n) # {} \/ n = head + 1}}

\* Page.ack_offset, 0 for None.  The records of a page, and its gap, lie before next.
AckOffset(p) ==
    IF p.recs # {} \/ (p.start # 0 /\ p.next > p.start) THEN Larger(p.gap, p.next - 1) ELSE p.gap

PrefetchAnswers ==
    /\ prefetch.state = "asked"
    /\ \/ \E p \in Pages(prefetch.page.next, prefetch.ver) :
             prefetch' = [prefetch EXCEPT !.state = "got", !.page = p] /\ UNCHANGED upsets
       \/ prefetch' = [prefetch EXCEPT !.state = "bad"] /\ Upset
    /\ UNCHANGED <<node, msg, rung, bound, behind, nextFrom, acks, flow, keeper, store, past>>

-----------------------------------------------------------------------------
(* Acknowledging *)

NodeAck(offset) == cursor' = Larger(cursor, offset)

\* _send_acks: the ack in flight ends.  Then the newest one asked for meanwhile
\* goes out; a failed one gives up and wakes the loop.
AckSucceeds ==
    /\ ackSend # 0
    /\ NodeAck(ackSend)
    /\ ackSend' = ackWant /\ ackWant' = 0
    /\ UNCHANGED <<head, low, nodeAhead, accepted, msg, rung, reader, ackFailed, flow, keeper, store, past, upsets>>

AckFails ==
    /\ Upset
    /\ ackSend # 0
    /\ UNCHANGED cursor \/ NodeAck(ackSend)       \* its answer is lost
    /\ ackSend' = 0 /\ ackWant' = 0 /\ ackFailed' = TRUE /\ rung' = TRUE
    /\ UNCHANGED <<head, low, nodeAhead, accepted, msg, reader, flow, keeper, store, past>>

-----------------------------------------------------------------------------
(* Ingest._run and Ingest._step: up to a page in hand *)

\* The generation is taken before the fetch, unless the loop is behind.
TakeGeneration ==
    /\ pc = "top"
    /\ pc' = "step" /\ rung' = (behind /\ rung)
    /\ UNCHANGED <<node, msg, reader, acks, then, page, todo, handled1, failed, late, keeper, store, past, upsets>>

RestartThen(next) == pc' = "restart" /\ then' = next

\* A failure is retried after a while: the loop is at the top again, where any
\* time may pass.  A failed ack is raised after the restart; a page read ahead through another
\* filter is dropped.
Step ==
    /\ pc = "step"
    /\ IF ackFailed THEN RestartThen("top")
       ELSE IF prefetch.state # "none" /\ prefetch.ver # bound THEN RestartThen("fetch")
       ELSE pc' = (IF prefetch.state # "none" THEN "await" ELSE "fetch") /\ UNCHANGED then
    /\ UNCHANGED <<node, msg, rung, reader, acks, page, todo, handled1, failed, late, keeper, store, past, upsets>>

\* _restart_from_cursor waits for the ack in flight; the next fetch reads from
\* the acknowledged cursor.
RestartFromCursor ==
    /\ pc = "restart" /\ ackSend = 0
    /\ prefetch' = NoFetch /\ nextFrom' = 0 /\ ackFailed' = FALSE
    /\ pc' = then
    /\ UNCHANGED <<node, msg, rung, bound, behind, ackSend, ackWant, then, page, todo, handled1, failed, late, keeper, store, past, upsets>>

\* A page of the stream opened as ver is in hand.  One that moves nothing means
\* the head; any other one is processed, with the next one read ahead.
TakePage(p, ver) ==
    /\ nextFrom' = IF p.start # 0 THEN p.next ELSE nextFrom
    /\ page' = [recs |-> p.recs, gap |-> p.gap, ack |-> AckOffset(p)]
    /\ IF AckOffset(p) = 0
       THEN pc' = "wait" /\ behind' = FALSE /\ prefetch' = NoFetch
       ELSE /\ pc' = "gap" /\ behind' = TRUE
            /\ prefetch' = IF p.start # 0
                           THEN [state |-> "asked", ver |-> ver, page |-> [NoPage EXCEPT !.next = p.next]]
                           ELSE NoFetch

\* A rebind while a fetch is in flight is seen with the next step.
Fetch ==
    /\ pc = "fetch"
    /\ \E p \in Pages(nextFrom, bound) : TakePage(p, bound)
    /\ UNCHANGED <<node, msg, rung, bound, acks, then, todo, handled1, failed, late, keeper, store, past, upsets>>

TakePrefetched ==
    /\ pc = "await" /\ prefetch.state = "got"
    /\ TakePage(prefetch.page, prefetch.ver)
    /\ UNCHANGED <<node, msg, rung, bound, acks, then, todo, handled1, failed, late, keeper, store, past, upsets>>

FetchFails ==
    /\ \/ pc = "fetch" /\ Upset
       \/ pc = "await" /\ prefetch.state = "bad" /\ UNCHANGED upsets
    /\ RestartThen("top")
    /\ UNCHANGED <<node, msg, rung, reader, acks, page, todo, handled1, failed, late, keeper, store, past>>

\* The bell rang, or idle_drain_s passed.
Wake ==
    /\ pc = "wait"
    /\ pc' = "top"
    /\ UNCHANGED <<node, msg, rung, reader, acks, then, page, todo, handled1, failed, late, keeper, store, past, upsets>>

\* GapPending waits for the bell only.
WakeAtGap ==
    /\ pc = "gapwait" /\ rung
    /\ pc' = "top" /\ rung' = FALSE
    /\ UNCHANGED <<node, msg, reader, acks, then, page, todo, handled1, failed, late, keeper, store, past, upsets>>

-----------------------------------------------------------------------------
(* PublishBatch *)

\* PublishBatch.add for each of calls: writes at the front that are confirmed
\* leave the batch, and no more than the window stay in it.
Added(b, calls) ==
    LET all == b \o calls
    IN  {[rest |-> SubSeq(all, k + 1, Len(all)), ok |-> Range(SubSeq(all, 1, k)), bad |-> {}] :
            k \in {i \in 0 .. Len(all) : Len(all) - i <= Window}}

\* ... or the write at the front failed: the call that is adding raises.
Raised(b, calls) ==
    LET all(j) == b \o SubSeq(calls, 1, j)
    IN  UNION {{[rest |-> SubSeq(all(j), k + 2, Len(all(j))), ok |-> Range(SubSeq(all(j), 1, k)),
                 bad |-> {all(j)[k + 1]}] : k \in 0 .. Len(all(j)) - 1} : j \in 1 .. Len(calls)}

Unsent(b) == [rest |-> b, ok |-> {}, bad |-> {}]

-----------------------------------------------------------------------------
(* Ingest._process and _dispatch_page *)

\* A gap on_gap does not let the loop past: GapPending.
ProcessGap ==
    /\ pc = "gap" /\ page.gap > accepted
    /\ RestartThen("gapwait")
    /\ UNCHANGED <<node, msg, rung, reader, acks, page, todo, handled1, failed, late, keeper, store, past, upsets>>

\* A page without a handled record is appended in one statement.
Process ==
    /\ pc = "gap" /\ page.gap <= accepted
    /\ failed' = 0
    /\ IF \E r \in page.recs : Bound(r) # <<>>
       THEN pc' = "records" /\ UNCHANGED <<page, txn>>
       ELSE /\ pc' = "commit" /\ page' = [page EXCEPT !.recs = {}]
            /\ txn' = [txn EXCEPT !.points = @ \cup page.recs]
    /\ UNCHANGED <<node, msg, rung, reader, acks, then, todo, handled1, late, keeper, durable, deferring, owed, past, upsets>>

Quiet(r) == Bound(r) = <<>>

\* The next handled record is appended with the quiet ones before it, right
\* before its handlers run.
TakeRecord ==
    /\ pc = "records" /\ todo = <<>>
    /\ \E r \in page.recs :
          /\ ~Quiet(r) /\ \A q \in page.recs : q < r => Quiet(q)
          /\ todo' = [i \in 1 .. Len(Bound(r)) |-> <<Bound(r)[i], r>>]
          /\ handled1' = IF handled1 = 0 THEN r ELSE handled1
          /\ txn' = [txn EXCEPT !.points = @ \cup {q \in page.recs : q <= r}]
          /\ page' = [page EXCEPT !.recs = {q \in @ : q > r}]
    /\ UNCHANGED <<node, msg, rung, reader, acks, pc, then, failed, late, keeper, durable, deferring, owed, past, upsets>>

LastRecords ==
    /\ pc = "records" /\ todo = <<>> /\ \A r \in page.recs : Quiet(r)
    /\ txn' = [txn EXCEPT !.points = @ \cup page.recs]
    /\ page' = [page EXCEPT !.recs = {}]
    /\ pc' = "settle"
    /\ UNCHANGED <<node, msg, rung, reader, acks, then, todo, handled1, failed, late, keeper, durable, deferring, owed, past, upsets>>

-----------------------------------------------------------------------------
(* PageCheckpoints.handle *)

Call == Head(todo)
Who  == Call[1]
Rec  == Call[2]
Kept == Who \in Checkpointed

\* _enter keeps the producer's state at its first record of the page.
Entry(p) == IF p \in entered THEN entry[p] ELSE [NoEntry EXCEPT !.start = live[p], !.base = live[p]]

\* The producer took the record in before: a page handled again.
Before == Kept /\ Rec <= live[Who].off

SkipHandled ==
    /\ pc = "records" /\ todo # <<>> /\ Before
    /\ entered' = entered \cup {Who} /\ entry' = [entry EXCEPT ![Who] = Entry(Who)]
    /\ todo' = Tail(todo)
    /\ UNCHANGED <<node, msg, rung, reader, acks, pc, then, page, handled1, failed, late, live, batch, store, past, upsets>>

Calling == pc = "records" /\ todo # <<>> /\ ~Before

\* The entry of the producer called, with this record as its first if it has none.
Called == [Entry(Who) EXCEPT !.first = IF @ = 0 THEN Rec ELSE @]

Enter(e, state) ==
    IF Kept
    THEN /\ entered' = entered \cup {Who}
         /\ entry' = [entry EXCEPT ![Who] = e] /\ live' = [live EXCEPT ![Who] = state]
    ELSE UNCHANGED <<entered, entry, live>>

Settled(o) ==
    /\ batch' = o.rest /\ confirmed' = confirmed \cup o.ok /\ blamed' = blamed \cup o.bad

\* The handler publishes and returns.
HandlerReturns ==
    /\ Calling
    /\ \E o \in Added(batch, <<Call>>) : Settled(o)
    /\ IF Kept
       THEN Enter([Called EXCEPT !.since = Append(@, Rec)], [st |-> Append(live[Who].st, Rec), off |-> Rec])
       ELSE UNCHANGED <<entered, entry, live>>
    /\ done' = done \cup {Call} /\ todo' = Tail(todo)
    /\ UNCHANGED <<node, msg, rung, reader, acks, pc, then, page, handled1, failed, late, store, rejected, undone, upsets>>

Again(e) == [k \in 1 .. Len(e.since) |-> <<Who, e.since[k]>>]

\* Mutant: the calls since the kept state are not made again.
BaseAlone(e) == e.base

Base(e) == [st |-> e.base.st \o e.since, off |-> IF e.since = <<>> THEN e.base.off ELSE Last(e.since)]

ToStart(e) == [e EXCEPT !.base = e.start, !.since = <<>>]

\* _rewind: the kept state, and the calls since then once more; they publish again.
\* When one of them fails the producer goes to the page's start: RewindFailed.
Rewound(e, b) == Added(b, Again(e))
RewindBroke(e, b) == IF e.since = <<>> THEN {} ELSE Raised(b, Again(e)) \cup {Unsent(b)}

Both(o, w) == [w EXCEPT !.ok = @ \cup o.ok, !.bad = @ \cup o.bad]

\* Mutant: the page goes on after a failed record.
FailAndGoOn(r) == failed' = r /\ pc' = "records" /\ todo' = <<>> /\ UNCHANGED page

\* The page ends at a failed record.
FailAt(r) == failed' = r /\ pc' = "settle" /\ todo' = <<>> /\ page' = [page EXCEPT !.recs = {}]

\* The handler raises, on its own or because a write before it failed.
HandlerRaises ==
    /\ Upset
    /\ Calling
    /\ \E o \in {Unsent(batch)} \cup Raised(batch, <<Call>>) :
          IF ~Kept THEN Settled(o) /\ FailAt(Rec) /\ UNCHANGED <<entered, entry, live>>
          ELSE \/ \E w \in Rewound(Called, o.rest) :
                     Settled(Both(o, w)) /\ FailAt(Rec) /\ Enter(Called, Base(Called))
               \/ \E w \in RewindBroke(Called, o.rest) :
                     Settled(Both(o, w)) /\ FailAt(Called.first) /\ Enter(ToStart(Called), Called.start)
    /\ UNCHANGED <<node, msg, rung, reader, acks, then, handled1, late, store, done, rejected, undone>>

\* The handler raises Reject: the producer is as before the record, which is the
\* new point to rewind to.
HandlerRejects ==
    /\ Upset
    /\ Calling
    /\ IF ~Kept THEN pc' = "reject" /\ UNCHANGED <<batch, confirmed, blamed, entered, entry, live, failed, page, todo>>
       ELSE \/ \E w \in Rewound(Called, batch) :
                  /\ Settled(w) /\ pc' = "reject"
                  /\ Enter([Called EXCEPT !.base = Base(Called), !.since = <<>>], Base(Called))
                  /\ UNCHANGED <<failed, page, todo>>
            \/ \E w \in RewindBroke(Called, batch) :
                  Settled(w) /\ FailAt(Called.first) /\ Enter(ToStart(Called), Called.start)
    /\ UNCHANGED <<node, msg, rung, reader, acks, then, handled1, late, store, done, rejected, undone>>

\* ... for an output of the handler, which fails the record.
QueueFull ==
    /\ Upset
    /\ Calling /\ ~Kept
    /\ RollBack /\ FailAt(Rec)
    /\ UNCHANGED <<node, msg, rung, reader, acks, then, handled1, late, keeper, durable, deferring, done, rejected, confirmed, blamed>>

RejectRecorded ==
    /\ pc = "reject"
    /\ rejected' = rejected \cup {Call} /\ done' = done \cup {Call}
    /\ todo' = Tail(todo) /\ pc' = "records"
    /\ UNCHANGED <<node, msg, rung, reader, acks, then, page, handled1, failed, late, keeper, store, confirmed, blamed, undone, upsets>>

RejectFails ==
    /\ Upset
    /\ pc = "reject"
    /\ FailAt(Rec)
    /\ UNCHANGED <<node, msg, rung, reader, acks, then, handled1, late, keeper, store, past>>

-----------------------------------------------------------------------------
(* The page's end: PublishBatch.settle, PageCheckpoints.finish, the commit *)

Earlier(a, b) == IF a = 0 \/ (b # 0 /\ b < a) THEN b ELSE a

SettleSucceeds ==
    /\ pc = "settle"
    /\ confirmed' = confirmed \cup Range(batch) /\ batch' = <<>>
    /\ pc' = "finish"
    /\ UNCHANGED <<node, msg, rung, reader, acks, then, page, todo, handled1, failed, late, live, entry, entered, store, done, rejected, blamed, undone, upsets>>

\* Mutant: a write that failed puts producers back, but does not fail the page.
SettleFailsUnsaid ==
    /\ Upset
    /\ pc = "settle"
    /\ \E ok \in SUBSET Range(batch) : ok # Range(batch) /\ confirmed' = confirmed \cup ok
    /\ batch' = <<>>
    /\ live' = [p \in Checkpointed |-> IF p \in entered THEN entry[p].start ELSE live[p]]
    /\ entry' = [p \in Checkpointed |-> IF p \in entered THEN [ToStart(entry[p]) EXCEPT !.first = 0] ELSE entry[p]]
    /\ late' = late
    /\ pc' = "finish"
    /\ UNCHANGED <<node, msg, rung, reader, acks, then, page, todo, handled1, failed, entered, store, done, rejected, blamed, undone>>

\* abandon: a write was refused or not confirmed in time.
SettleFails ==
    /\ Upset
    /\ pc = "settle"
    /\ \E ok \in SUBSET Range(batch) : ok # Range(batch) /\ confirmed' = confirmed \cup ok
    /\ batch' = <<>>
    /\ live' = [p \in Checkpointed |-> IF p \in entered THEN entry[p].start ELSE live[p]]
    /\ entry' = [p \in Checkpointed |-> IF p \in entered THEN [ToStart(entry[p]) EXCEPT !.first = 0] ELSE entry[p]]
    /\ late' = Earlier(late, handled1)
    /\ pc' = "finish"
    /\ UNCHANGED <<node, msg, rung, reader, acks, then, page, todo, handled1, failed, entered, store, done, rejected, blamed, undone>>

\* finish, one producer: its checkpoint is saved in the page's transaction, or it
\* goes back to the page's start.
SaveCheckpoint(p) ==
    /\ pc = "finish" /\ p \in entered
    /\ entered' = entered \ {p}
    /\ \/ /\ entry[p].first # 0
          /\ txn' = [txn EXCEPT !.saved = [q \in DOMAIN @ \cup {p} |-> IF q = p THEN live[p] ELSE @[q]]]
          /\ UNCHANGED <<live, late, upsets>>
       \/ /\ entry[p].first # 0
          /\ live' = [live EXCEPT ![p] = entry[p].start] /\ late' = Earlier(late, entry[p].first)
          /\ Upset /\ UNCHANGED txn
       \/ entry[p].first = 0 /\ UNCHANGED <<live, late, txn, upsets>>
    /\ entry' = [entry EXCEPT ![p] = NoEntry]
    /\ UNCHANGED <<node, msg, rung, reader, acks, pc, then, page, todo, handled1, failed, batch, durable, deferring, owed, past>>

\* Mutant: a page that failed is not committed.
CommitUnlessFailed ==
    /\ pc = "commit" \/ (pc = "finish" /\ entered = {})
    /\ IF Earlier(failed, late) = 0 THEN Commit ELSE txn' = Clean /\ UNCHANGED <<durable, owed>>
    /\ failed' = Earlier(failed, late) /\ late' = 0 /\ handled1' = 0
    /\ IF failed' # 0 THEN RestartThen("ackbefore") ELSE pc' = "ack" /\ UNCHANGED then
    /\ UNCHANGED <<node, msg, rung, reader, acks, page, todo, keeper, deferring, past, upsets>>

\* The end of one_commit, also when the page failed.  While another thread is inside
\* its own, the commit is left to that one; the page is acknowledged all the same.  The
\* earliest failure names the record the page is acknowledged up to.
CommitPage ==
    /\ pc = "commit" \/ (pc = "finish" /\ entered = {})
    /\ IF deferring THEN owed' = TRUE /\ UNCHANGED <<durable, txn>> ELSE Commit
    /\ failed' = Earlier(failed, late) /\ late' = 0 /\ handled1' = 0
    /\ IF failed' # 0 THEN RestartThen("ackbefore") ELSE pc' = "ack" /\ UNCHANGED then
    /\ UNCHANGED <<node, msg, rung, reader, acks, page, todo, keeper, deferring, past, upsets>>

-----------------------------------------------------------------------------
(* After the page *)

\* _queue_ack: while an ack is in flight only the newest offset is kept.
QueueAck ==
    /\ pc = "ack" /\ nodeAhead
    /\ ackSend' = IF ~ackFailed /\ ackSend = 0 THEN page.ack ELSE ackSend
    /\ ackWant' = IF ~ackFailed /\ ackSend # 0 THEN page.ack ELSE ackWant
    /\ pc' = "top" /\ page' = NoWork
    /\ UNCHANGED <<node, msg, rung, reader, ackFailed, then, todo, handled1, failed, late, keeper, store, past, upsets>>

\* Without read-ahead the page is acknowledged in turn.
AckInTurn ==
    /\ pc = "ack" /\ ~nodeAhead
    /\ \/ NodeAck(page.ack) /\ pc' = "top" /\ UNCHANGED <<then, upsets>>
       \/ Upset /\ (UNCHANGED cursor \/ NodeAck(page.ack)) /\ RestartThen("top")
    /\ page' = NoWork
    /\ UNCHANGED <<head, low, nodeAhead, accepted, msg, rung, reader, acks, todo, handled1, failed, late, keeper, store, past>>

BeforeFailed == failed - 1

\* _handler_failed: the records before the failed one were handled; an ack that
\* fails is only logged.
AckBeforeFailed ==
    /\ pc = "ackbefore"
    /\ \/ failed > 1 /\ NodeAck(BeforeFailed) /\ UNCHANGED upsets
       \/ failed = 1 /\ UNCHANGED <<cursor, upsets>>
       \/ failed > 1 /\ Upset /\ UNCHANGED cursor
    /\ failed' = 0 /\ pc' = "top" /\ page' = NoWork
    /\ UNCHANGED <<head, low, nodeAhead, accepted, msg, rung, reader, acks, then, todo, handled1, late, keeper, store, past>>

-----------------------------------------------------------------------------
Beside ==
    \/ Admit \/ Prune \/ WakeOnInput \/ AcceptGap \/ Rebind \/ Restart
    \/ OtherCommits \/ OtherDefers \/ OtherEnds \/ OtherRollsBack

Reading ==
    \/ TakeGeneration \/ Step \/ RestartFromCursor \/ Fetch \/ PrefetchAnswers \/ TakePrefetched
    \/ FetchFails \/ Wake \/ WakeAtGap

Handling ==
    \/ ProcessGap \/ Process \/ TakeRecord \/ LastRecords \/ SkipHandled
    \/ HandlerReturns \/ HandlerRaises \/ HandlerRejects \/ QueueFull \/ RejectRecorded \/ RejectFails

Ending ==
    \/ SettleSucceeds \/ SettleFails \/ (\E p \in Checkpointed : SaveCheckpoint(p)) \/ CommitPage
    \/ QueueAck \/ AckInTurn \/ AckBeforeFailed \/ AckSucceeds \/ AckFails

Next == Beside \/ Reading \/ Handling \/ Ending

Spec == Init /\ [][Next]_vars

-----------------------------------------------------------------------------
(* Properties *)

\* Every variable has its type; what is in flight lies before the head, and a
\* page under way has the part of its state that its step needs.
TypeOK ==
    /\ head \in 0 .. MaxRecords /\ low \in 1 .. head + 1 /\ cursor \in 0 .. head
    /\ nodeAhead \in BOOLEAN /\ accepted \in 0 .. low - 1 /\ msg \in BOOLEAN /\ bound \in 0 .. 1
    /\ rung \in BOOLEAN /\ behind \in BOOLEAN /\ nextFrom \in 0 .. head + 1
    /\ prefetch.state \in {"none", "asked", "got", "bad"}
    /\ ackSend \in 0 .. head /\ ackWant \in 0 .. head /\ ackFailed \in BOOLEAN
    /\ page.recs \subseteq Records /\ page.ack \in 0 .. head /\ failed \in 0 .. head
    /\ todo \in Seq(Producers \X Records) /\ batch \in Seq(Producers \X Records)
    /\ entered \subseteq Checkpointed /\ done \subseteq Producers \X Records
    /\ durable.points \subseteq Records /\ txn.points \subseteq Records
    /\ deferring \in BOOLEAN /\ owed \in BOOLEAN
    /\ pc = "ackbefore" => failed # 0
    /\ pc = "reject" => todo # <<>>
    /\ pc \in {"top", "step", "fetch", "await", "wait"} => entered = {} /\ batch = <<>> /\ (txn = Clean \/ owed)
    /\ owed => deferring \/ pc \in InPage

\* Signals both filters let through: a rebind may leave out records of the others.
Always(r) == Signal[r] \in Filter[0] \cap Filter[1]

Reads(p, r) == \E k \in 1 .. Len(Handlers[Signal[r]]) : Handlers[Signal[r]][k] = p

\* What a stop leaves, and what pages that ended without a commit still owe the disk.
Disk == IF owed THEN Committed(txn) ELSE durable

\* The buffer holds what the cursor passed: appended, committed, then acked
\* (ingest.py "Crash safety"), unless a rollback took it, or the page ended inside
\* another thread's one_commit and the process stopped before that one committed.
PointsDurable ==
    \A r \in 1 .. cursor : Always(r) => r \in Disk.points \/ r <= accepted \/ r \in undone

\* A stop loses no work: every call for a record the cursor passed returned or was
\* recorded as rejected, and the saved state of a checkpointed producer has it, but
\* for the same two.
WorkDurable ==
    \A r \in 1 .. cursor, p \in Producers :
        Always(r) /\ Reads(p, r) /\ r > accepted =>
            /\ <<p, r>> \in done
            /\ p \in Checkpointed => <<p, r>> \in rejected \/ r \in Range(Disk.saved[p].st) \/ r \in undone

\* Crash safety (ingest.py): what the cursor passed is on disk, the record in the
\* buffer and the work on it, whatever failed and wherever the process stopped, but
\* for what a rollback took and a page another thread kept from its commit.
PassedIsDurable == PointsDurable /\ WorkDurable

\* A state that took each record in once, in stream order, up to its offset.
Exact(p, c) ==
    /\ \A i, j \in 1 .. Len(c.st) : i < j => c.st[i] < c.st[j]
    /\ \A i \in 1 .. Len(c.st) : c.st[i] <= c.off
    /\ \A r \in 1 .. c.off : Always(r) /\ Reads(p, r) /\ r > accepted =>
           r \in Range(c.st) \/ <<p, r>> \in rejected \/ r \in undone

\* A checkpointed producer's state, live and saved, has every record exactly once,
\* however often pages are handled again, rewound or cut off by a stop.
ExactlyOnceState == \A p \in Checkpointed : Exact(p, live[p]) /\ Exact(p, durable.saved[p])

\* The cursor passes no record whose write failed unnoticed: the node confirmed
\* it, or a later call of the page raised its failure.
NoSilentLoss ==
    \A c \in done \ rejected :
        Always(c[2]) /\ accepted < c[2] /\ c[2] <= cursor => c \in confirmed \cup blamed

\* The records of inputs: both filters let them through, and a producer reads them.
Inputs == {r \in Records : Always(r) /\ Handlers[Signal[r]] # <<>>}

\* The calls such a record is to get.
CallsFor == [r \in Inputs |-> {<<p, r>> : p \in {q \in Producers : Reads(q, r)}}]

\* Their calls were made or recorded as rejected, but for what retention took before.
Handled == {r \in Inputs : r < low \/ CallsFor[r] \subseteq done}

\* What a named cursor promises.  The stream's records are their offsets.
Delivery == INSTANCE OrderedDelivery WITH Wanted <- Inputs, log <- [r \in 1 .. head |-> r], done <- Handled

\* The ingest implements the contract of a named cursor (ingest.py, _run): it handles
\* no record before an earlier one, whatever failed there, and the cursor passes none
\* that was not handled.
DeliverySpec == Delivery!Spec

\* src/chaski/dataops/ingest.py, first lines: the cursor "walks the stream forward,
\* appends every record to the local Buffer".
EveryRecordBuffered ==
    \A r \in 1 .. cursor : Always(r) => r \in durable.points \cup txn.points \/ r <= accepted

=============================================================================
