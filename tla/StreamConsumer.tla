--------------------------- MODULE StreamConsumer ---------------------------
(***************************************************************************)
(* src/chaski/consume.py: consume() follows one named cursor with a        *)
(* handler that may fail.  Three parties run concurrently: the node, which *)
(* stores the stream and the cursor and sends growth hints; the thread of  *)
(* StreamChanges (src/chaski/stream_changes.py), which takes the hints,    *)
(* stores the newest one and rings the bell; and the consumer, which drains*)
(* the cursor with Stream.drain (src/chaski/door.py) and sleeps on the     *)
(* bell.  A stop of the process may fall between any two steps.            *)
(*                                                                         *)
(* The node is external: an append-only stream, a stored cursor that only  *)
(* moves forward, a watch whose first hint names the stream and which      *)
(* sends another one while the stream is longer than it said last.  It may *)
(* prune old records and may be reset or restored from a backup.           *)
(***************************************************************************)
EXTENDS Integers, Sequences, FiniteSets

CONSTANTS
    Wanted,     \* the records that pass the cursor's filter (signal_ids, contracts, topics)
    PageSize,   \* most records of one fetch
    Prunes,     \* whether the node prunes its oldest records
    MaxRecords, \* bound: records ever admitted
    MaxUpsets   \* bound: lost connections, stops of the process, resets of the node

ASSUME ConsumerAssumption ==
    /\ Wanted \subseteq Nat /\ PageSize \in Nat \ {0}
    /\ Prunes \in BOOLEAN
    /\ MaxRecords \in Nat /\ MaxUpsets \in Nat

VARIABLES
    log,        \* node: the records admitted, by offset
    low,        \* node: the first offset it still holds
    cursor,     \* node: the last offset acknowledged
    admitted,   \* node: how many records were ever admitted; the newest one's name
    conn,       \* the watch's connection: "down", "up", "dead" (its node is gone)
    told,       \* node: the head the last hint on this connection said, -1 before the first
    hint,       \* the head of the hint on its way, or NoHint
    greeted,    \* watch thread: a hint of this connection arrived
    sub,        \* StreamChanges.subscription
    latest,     \* StreamChanges._latest of the stream
    ringing,    \* watch thread: between _record and notify
    rung,       \* the bell rang after the consumer took its generation
    pc,         \* what the consumer does next
    change,     \* the hint the running drain started from
    position,   \* Stream._acknowledged
    drainedOn,  \* drained_on
    head,       \* the head that bounds the drain
    first,      \* the next page is the first of its drain
    page,       \* the page being handled: the offsets left of it, and its next
    done,       \* history: the records handled, or recorded as rejected
    lost,       \* history: the node lost the cursor and no page was observed since
    upsets

node == <<log, low, cursor, admitted>>
watch == <<conn, told, hint, greeted, sub, latest, ringing>>
local == <<change, position, drainedOn, head, first, page>>
past == <<done, lost>>
vars == <<node, watch, rung, pc, local, past, upsets>>

NoHint   == -1
NoChange == [head |-> 0, sub |-> 0]       \* before the first hint
NoPage   == [recs |-> {}, next |-> 1]

\* The offsets lo .. hi the filter lets through.
Matching(lo, hi) == {i \in lo .. hi : log[i] \in Wanted}

Init ==
    /\ log = <<>> /\ low = 1 /\ cursor = 0 /\ admitted = 0
    /\ conn = "down" /\ told = NoHint /\ hint = NoHint /\ greeted = FALSE
    /\ sub = 0 /\ latest = NoChange /\ ringing = FALSE
    /\ rung = FALSE /\ pc = "top"
    /\ change = NoChange /\ position = 0 /\ drainedOn = 0
    /\ head = 0 /\ first = TRUE /\ page = NoPage
    /\ done = {} /\ lost = FALSE
    /\ upsets = 0

Upset == upsets < MaxUpsets /\ upsets' = upsets + 1

-----------------------------------------------------------------------------
(* The node *)

Admit ==
    /\ admitted < MaxRecords
    /\ admitted' = admitted + 1
    /\ log' = Append(log, admitted + 1)
    /\ UNCHANGED <<low, cursor, watch, rung, pc, local, past, upsets>>

Prune ==
    /\ Prunes /\ low <= Len(log)
    /\ low' = low + 1
    /\ UNCHANGED <<log, cursor, admitted, watch, rung, pc, local, past, upsets>>

\* The node comes back with an earlier state of its data.  Bound: not between two
\* pages of a drain, which observes the node's cursor on its first page only and
\* would fetch the same page for ever.  It is another process:
\* the watch's connection is dead, although a hint may still arrive on it.
Reset ==
    /\ Upset
    /\ pc \in {"top", "look", "head", "wait", "backoff"} \/ (pc = "fetch" /\ first)
    /\ \E n \in 0 .. Len(log) :
          /\ n < Len(log) \/ cursor > 0
          /\ log' = SubSeq(log, 1, n)
          /\ cursor' \in 0 .. (IF n < cursor THEN n ELSE cursor)
          /\ low' \in 1 .. (IF n + 1 < low THEN n + 1 ELSE low)
    /\ conn' = IF conn = "up" THEN "dead" ELSE conn
    /\ lost' = (lost \/ cursor' < position)
    /\ UNCHANGED <<admitted, told, hint, greeted, sub, latest, ringing, rung, pc, local, done>>

SendHint ==
    /\ conn = "up" /\ hint = NoHint /\ told < Len(log)
    /\ hint' = Len(log) /\ told' = Len(log)
    /\ UNCHANGED <<node, conn, greeted, sub, latest, ringing, rung, pc, local, past, upsets>>

-----------------------------------------------------------------------------
(* The thread of StreamChanges *)

Connect ==
    /\ conn = "down" /\ ~ringing
    /\ conn' = "up" /\ told' = NoHint
    /\ UNCHANGED <<node, hint, greeted, sub, latest, ringing, rung, pc, local, past, upsets>>

\* The connection fails: what it carried is lost.
Disconnect ==
    /\ ~ringing
    /\ \/ conn = "dead" /\ UNCHANGED upsets
       \/ conn = "up" /\ Upset
    /\ conn' = "down" /\ hint' = NoHint /\ greeted' = FALSE
    /\ UNCHANGED <<node, told, sub, latest, ringing, rung, pc, local, past>>

\* Mutant: every hint counts as one of the same subscription.
RecordHintSameSubscription ==
    /\ hint # NoHint /\ ~ringing
    /\ greeted' = TRUE
    /\ sub' = 1
    /\ latest' = [head |-> hint, sub |-> sub']
    /\ hint' = NoHint /\ ringing' = TRUE
    /\ UNCHANGED <<node, conn, told, rung, pc, local, past, upsets>>

\* The first hint of a connection begins a subscription.  Every hint is stored
\* before the bell rings.
RecordHint ==
    /\ hint # NoHint /\ ~ringing
    /\ greeted' = TRUE
    /\ sub' = IF greeted THEN sub ELSE sub + 1
    /\ latest' = [head |-> hint, sub |-> sub']
    /\ hint' = NoHint /\ ringing' = TRUE
    /\ UNCHANGED <<node, conn, told, rung, pc, local, past, upsets>>

Ring ==
    /\ ringing
    /\ ringing' = FALSE /\ rung' = TRUE
    /\ UNCHANGED <<node, conn, told, hint, greeted, sub, latest, pc, local, past, upsets>>

-----------------------------------------------------------------------------
(* The consumer: the loop of consume() *)

\* Mutant: a new subscription does not call for a drain.
CoversAnySubscription == latest.sub # 0 /\ position >= latest.head

\* StreamChange.covers
Covers == latest.sub # 0 /\ drainedOn = latest.sub /\ position >= latest.head

TakeGeneration ==
    /\ pc = "top"
    /\ pc' = "look" /\ rung' = FALSE
    /\ UNCHANGED <<node, watch, local, past, upsets>>

\* A hint the cursor passed already costs no request; another one bounds the
\* drain, and without one the drain reads the head first.
Look ==
    /\ pc = "look"
    /\ change' = latest
    /\ pc' = IF Covers THEN "wait" ELSE IF latest.sub = 0 THEN "head" ELSE "fetch"
    /\ head' = IF pc' = "fetch" THEN latest.head ELSE 0
    /\ first' = TRUE
    /\ UNCHANGED <<node, watch, rung, position, drainedOn, page, past, upsets>>

ReadHead ==
    /\ pc = "head"
    /\ pc' = "fetch" /\ head' = Len(log)
    /\ UNCHANGED <<node, watch, rung, change, position, drainedOn, first, page, past, upsets>>

\* The bell rang, IDLE_DRAIN_S passed, or the retry is due.
Wake ==
    /\ pc = "wait" /\ rung
    /\ pc' = "top"
    /\ UNCHANGED <<node, watch, rung, local, past, upsets>>

IdleDrain ==
    /\ pc = "wait" /\ ~rung
    /\ pc' = "top"
    /\ UNCHANGED <<node, watch, rung, local, past, upsets>>

Retry ==
    /\ pc = "backoff"
    /\ pc' = "top"
    /\ UNCHANGED <<node, watch, rung, local, past, upsets>>

\* A drain that ended well remembers the subscription it started from.
Drained ==
    /\ drainedOn' = IF change.sub # 0 THEN change.sub ELSE drainedOn
    /\ pc' = "wait" /\ page' = NoPage /\ head' = 0 /\ first' = TRUE /\ UNCHANGED change

Failed ==
    /\ pc' = "backoff" /\ page' = NoPage /\ head' = 0 /\ first' = TRUE
    /\ UNCHANGED <<change, drainedOn>>

-----------------------------------------------------------------------------
(* Stream.drain *)

\* Stream.observe: a first page that starts below the position means the node
\* lost acknowledged records.
Observe == IF first /\ cursor < position THEN cursor ELSE position

FetchPage ==
    /\ pc = "fetch" /\ cursor < Len(log) /\ low <= cursor + 1
    /\ \E next \in cursor + 2 .. Len(log) + 1 :
          /\ Cardinality(Matching(cursor + 1, next - 1)) <= PageSize
          /\ page' = [recs |-> Matching(cursor + 1, next - 1), next |-> next]
    /\ position' = Observe /\ first' = FALSE
    /\ lost' = (lost /\ ~first)
    /\ pc' = "record"
    /\ UNCHANGED <<node, watch, rung, change, drainedOn, head, done, upsets>>

\* Nothing after the cursor: it stands at the head, unless the head is further.
FetchNothing ==
    /\ pc = "fetch" /\ cursor >= Len(log) /\ low <= cursor + 1
    /\ lost' = (lost /\ ~first)
    /\ IF cursor < head
       THEN Failed /\ position' = Observe
       ELSE Drained /\ position' = IF Observe < cursor THEN cursor ELSE Observe
    /\ UNCHANGED <<node, watch, rung, done, upsets>>

\* StreamGapError ends the consumer.
FetchGap ==
    /\ pc = "fetch" /\ cursor + 1 < low
    /\ pc' = "gap" /\ position' = Observe /\ lost' = (lost /\ ~first)
    /\ UNCHANGED <<node, watch, rung, change, drainedOn, head, first, page, done, upsets>>

\* Mutant: a failed ack is blamed on the last record handled.
HttpFailsBlamed ==
    /\ pc \in {"head", "fetch"} \/ (pc = "record" /\ page.recs = {})
    /\ IF pc = "record" THEN pc' = "failed" /\ UNCHANGED local
       ELSE Failed /\ UNCHANGED position
    /\ UNCHANGED <<node, watch, rung, past, upsets>>

\* A request for the head, a page or the page's ack fails.
HttpFails ==
    /\ pc \in {"head", "fetch"} \/ (pc = "record" /\ page.recs = {})
    /\ Failed
    /\ UNCHANGED <<node, watch, rung, position, past, upsets>>

Handling == pc = "record" /\ page.recs # {}

\* The record handle() has: the first one left of the page.
InHand(i) == i \in page.recs /\ \A j \in page.recs : i <= j

\* It is done with.
Settles ==
    \E i \in page.recs :
        InHand(i) /\ done' = done \cup {log[i]} /\ page' = [page EXCEPT !.recs = @ \ {i}]

HandlerSucceeds ==
    /\ Handling
    /\ Settles
    /\ UNCHANGED <<node, watch, rung, pc, change, position, drainedOn, head, first, lost, upsets>>

HandlerRejects ==
    /\ Handling
    /\ pc' = "reject"
    /\ UNCHANGED <<node, watch, rung, local, past, upsets>>

HandlerFails ==
    /\ Handling
    /\ pc' = "failed"
    /\ UNCHANGED <<node, watch, rung, local, past, upsets>>

\* The rejection is recorded before the cursor may pass the record; recording it
\* may fail, which fails the record.
RejectRecorded ==
    /\ pc = "reject" /\ pc' = "record"
    /\ Settles
    /\ UNCHANGED <<node, watch, rung, change, position, drainedOn, head, first, lost, upsets>>

RejectFails ==
    /\ pc = "reject"
    /\ pc' = "failed"
    /\ UNCHANGED <<node, watch, rung, local, past, upsets>>

\* What POST /ack does with an offset the node holds.
NodeAck(offset) == cursor' = IF offset > cursor THEN offset ELSE cursor

\* Mutant: the failed record is acknowledged, too.
BeforeFailedInclusive(i) == i

\* The offset before the failed record: everything up to it was handled.
BeforeFailed(i) == i - 1

\* _drain: a failed record moves the cursor up to it.  An ack at or below the
\* position is not sent; a failed one is logged.
AckBeforeFailed ==
    /\ pc = "failed"
    /\ \E i \in page.recs :
          /\ InHand(i)
          /\ \/ /\ BeforeFailed(i) > position /\ BeforeFailed(i) <= Len(log)
                /\ NodeAck(BeforeFailed(i)) /\ position' \in {position, BeforeFailed(i)}
             \/ UNCHANGED <<cursor, position>>
    /\ Failed
    /\ UNCHANGED <<log, low, admitted, watch, rung, past, upsets>>

AckOffset == page.next - 1

\* Stream.ack of a whole page.  An ack at or below the position is not sent.
AckPage ==
    /\ pc = "record" /\ page.recs = {}
    /\ AckOffset <= position \/ AckOffset <= Len(log)
    /\ IF AckOffset <= position
       THEN UNCHANGED <<cursor, position>>
       ELSE NodeAck(AckOffset) /\ position' = AckOffset
    /\ IF AckOffset >= head
       THEN Drained
       ELSE pc' = "fetch" /\ page' = NoPage /\ UNCHANGED <<change, drainedOn, head, first>>
    /\ UNCHANGED <<log, low, admitted, watch, rung, past, upsets>>

\* The node moved the cursor, but its answer did not arrive.
AckAnswerLost ==
    /\ pc = "record" /\ page.recs = {}
    /\ AckOffset > position /\ AckOffset <= Len(log)
    /\ NodeAck(AckOffset)
    /\ Failed
    /\ UNCHANGED <<log, low, admitted, position, watch, rung, past, upsets>>

\* The process stops and starts again.  Only the node's data stays.
Restart ==
    /\ Upset
    /\ conn' = "down" /\ told' = NoHint /\ hint' = NoHint /\ greeted' = FALSE
    /\ sub' = 0 /\ latest' = NoChange /\ ringing' = FALSE /\ rung' = FALSE
    /\ pc' = "top" /\ change' = NoChange /\ position' = 0 /\ drainedOn' = 0
    /\ head' = 0 /\ first' = TRUE /\ page' = NoPage /\ lost' = FALSE
    /\ UNCHANGED <<node, done>>

-----------------------------------------------------------------------------
Fetch == FetchPage \/ FetchNothing \/ FetchGap

Drain ==
    \/ Fetch \/ HttpFails
    \/ HandlerSucceeds \/ HandlerRejects \/ HandlerFails
    \/ RejectRecorded \/ RejectFails \/ AckBeforeFailed
    \/ AckPage \/ AckAnswerLost

Loop == TakeGeneration \/ Look \/ ReadHead \/ Wake \/ IdleDrain \/ Retry

Next ==
    \/ Admit \/ Prune \/ Reset \/ SendHint
    \/ Connect \/ Disconnect \/ RecordHint \/ Ring
    \/ Loop \/ Drain \/ Restart

Spec == Init /\ [][Next]_vars

\* Threads run and the node answers (WF); requests and handlers that are tried
\* again for ever succeed some time, although they may fail any number of times
\* before (SF).  Nothing is assumed of IdleDrain: the hints alone must do.
Fairness ==
    /\ WF_vars(SendHint) /\ WF_vars(Connect) /\ WF_vars(RecordHint) /\ WF_vars(Ring)
    /\ WF_vars(conn = "dead" /\ Disconnect)
    /\ WF_vars(TakeGeneration) /\ WF_vars(Look) /\ WF_vars(Wake) /\ WF_vars(Retry)
    /\ WF_vars(AckBeforeFailed) /\ WF_vars(RejectRecorded \/ RejectFails)
    /\ WF_vars(HttpFails \/ ReadHead \/ Fetch \/ AckPage \/ AckAnswerLost)
    /\ SF_vars(ReadHead) /\ SF_vars(Fetch) /\ SF_vars(AckPage)
    /\ \A r \in Wanted : SF_vars(HandlerSucceeds /\ \E i \in page.recs : InHand(i) /\ log[i] = r)

FairSpec == Spec /\ Fairness

-----------------------------------------------------------------------------
(* Properties *)

NodeTyped ==
    /\ log \in Seq(1 .. MaxRecords) /\ low \in 1 .. Len(log) + 1
    /\ cursor \in 0 .. Len(log) /\ admitted \in 0 .. MaxRecords
    /\ done \in SUBSET Wanted /\ lost \in BOOLEAN
    /\ upsets \in Nat

WatchTyped ==
    /\ conn \in {"down", "up", "dead"} /\ greeted \in BOOLEAN
    /\ told \in Nat \cup {NoHint} /\ hint \in Nat \cup {NoHint}
    /\ sub \in Nat /\ latest \in [head : Nat, sub : Nat]
    /\ ringing \in BOOLEAN /\ rung \in BOOLEAN

DrainTyped ==
    /\ pc \in {"top", "look", "head", "fetch", "record", "reject", "failed", "wait", "backoff", "gap"}
    /\ change \in [head : Nat, sub : Nat]
    /\ position \in Nat /\ drainedOn \in Nat /\ head \in Nat /\ first \in BOOLEAN
    /\ page \in [recs : SUBSET (1 .. Len(log)), next : 1 .. Len(log) + 1]
    /\ pc \in {"reject", "failed"} => page.recs # {}

\* Every variable has its type; a page under way holds offsets of the stream, and
\* handle() has one of them in hand when it rejects or fails (Stream.drain, _drain).
TypeOK == NodeTyped /\ WatchTyped /\ DrainTyped

\* The records are handled in stream order, each before the cursor passes it,
\* whatever fails, stops or is lost on the way.
Delivery == INSTANCE OrderedDelivery WITH Records <- 1 .. MaxRecords

DeliverySpec == Delivery!Spec

\* No wake-up is lost: while the consumer sleeps, nothing is on its way to wake
\* it and the node has said all it has to say, the cursor stands at the head.
Quiet ==
    /\ pc = "wait" /\ ~rung /\ ~ringing
    /\ conn = "up" /\ hint = NoHint /\ told = Len(log)

NothingHidden == Quiet => cursor = Len(log)

\* A record the consumer wants is handled in the end, unless the node loses it
\* or prunes it.
EventuallyHandled ==
    \A r \in Wanted :
        (\E i \in 1 .. Len(log) : log[i] = r)
            ~> (r \in done \/ pc = "gap" \/ \A i \in 1 .. Len(log) : log[i] # r)

=============================================================================
