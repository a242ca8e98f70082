--------------------------- MODULE ConsumerProofs ----------------------------
(***************************************************************************)
(* What a consumer reads, and what makes it look: proofs about             *)
(* StreamConsumer and about MqttSession, whose subscriptions carry its     *)
(* wake-ups.                                                               *)
(*                                                                         *)
(* StreamConsumer, for every filter, every page size and any number of     *)
(* records and upsets: the variables have their types, no wake-up is lost, *)
(* and the consumer implements OrderedDelivery.  NothingHidden is not      *)
(* inductive.  That a sleeping consumer has read everything takes a chain: *)
(* the last hint on a connection said the head (WatchOK), the consumer     *)
(* looked at that hint or will be rung (SeenOK), it drained to its head    *)
(* (DrainOK), and the position it compares is not ahead of the node's      *)
(* cursor, unless a reset put it there, which a new subscription tells     *)
(* (FreshOK).                                                              *)
(*                                                                         *)
(* MqttSession, for every set of wake-ups and topics, and any number of    *)
(* changed topics, lost links and refused subscriptions.                   *)
(***************************************************************************)
EXTENDS StreamConsumer, MqttSession, SequenceTheorems, FiniteSetTheorems, TLAPS

-----------------------------------------------------------------------------
(* A consumer and its stream *)

\* A page under way has the wanted records of its range that are left.
PageOK ==
    /\ \A i \in page.recs : i < page.next /\ log[i] \in Wanted
    /\ page = NoPage \/ pc \in {"record", "reject", "failed"}

\* What the cursor passed, and the part of a page before the records left, was handled.
HandledOK ==
    \A i \in 1 .. Len(log) :
        log[i] \in Wanted /\ (i <= cursor \/ (i < page.next /\ i \notin page.recs)) => log[i] \in done

\* The hints of one connection: none yet, one on its way, or the newest is stored.
WatchOK ==
    /\ latest.sub = sub /\ drainedOn <= sub /\ change.sub <= sub /\ (greeted => sub # 0)
    /\ conn = "down" => hint = NoHint /\ ~greeted
    /\ conn = "up" => \/ told = NoHint /\ hint = NoHint /\ ~greeted
                      \/ told \in Nat /\ (hint = told \/ (hint = NoHint /\ greeted /\ latest.head = told))

\* After its look the consumer acts on the newest hint, or the bell is to ring or rang.
SeenOK == pc \notin {"top", "look"} /\ ~rung /\ ~ringing => change = latest

\* A drain goes to the head of its hint; until a reset the position is the node's.
DrainOK ==
    /\ pc = "head" => change.sub = 0 /\ first
    /\ pc \in {"fetch", "record", "reject", "failed"} /\ change.sub # 0 => head = change.head
    /\ pc = "wait" /\ change.sub # 0 => drainedOn = change.sub /\ position >= change.head
    /\ pc \in {"record", "reject", "failed"} \/ (pc = "fetch" /\ ~first) => position <= cursor

\* A position ahead of the cursor does not outlive the subscription it was made in.
FreshOK == conn = "up" /\ greeted /\ drainedOn = sub => position <= cursor

\* The inductive invariant.
Inv == TypeOK /\ PageOK /\ HandledOK /\ WatchOK /\ SeenOK /\ DrainOK /\ FreshOK

\* The node, and what happened.
LEMMA KeepsNodeTyped == Inv /\ [Next]_vars => NodeTyped'
<1> SUFFICES ASSUME Inv, [Next]_vars PROVE NodeTyped'
  OBVIOUS
<1> USE DEF Inv, TypeOK, node, watch, local, past, Upset, NoHint, NoChange, NoPage
<1>1. CASE \/ SendHint \/ Connect \/ RecordHint \/ Ring \/ TakeGeneration \/ Look \/ ReadHead
           \/ Wake \/ IdleDrain \/ Retry \/ HttpFails \/ HandlerRejects \/ HandlerFails
           \/ RejectFails \/ UNCHANGED vars
  BY <1>1 DEF NodeTyped, vars, SendHint, Connect, RecordHint, Ring, TakeGeneration, Look,
       ReadHead, Wake, IdleDrain, Retry, HttpFails, HandlerRejects, HandlerFails,
       RejectFails, Covers, Failed, Handling
<1>2. CASE Admit
  <2>1. log \in Seq(1 .. MaxRecords) /\ admitted + 1 \in 1 .. MaxRecords /\ log' = Append(log, admitted + 1)
    BY <1>2, ConsumerAssumption DEF Admit, NodeTyped
  <2>2. log' \in Seq(1 .. MaxRecords) /\ Len(log') = Len(log) + 1
    BY <2>1, AppendProperties
  <2> QED
    BY <1>2, <2>1, <2>2 DEF Admit, NodeTyped
<1>3. CASE Prune
  BY <1>3 DEF NodeTyped, DrainTyped, PageOK, Prune
<1>4. CASE Reset
  <2>1. PICK n \in 0 .. Len(log) :
           /\ log' = SubSeq(log, 1, n)
           /\ cursor' \in 0 .. (IF n < cursor THEN n ELSE cursor)
           /\ low' \in 1 .. (IF n + 1 < low THEN n + 1 ELSE low)
    BY <1>4 DEF Reset
  <2>2. log \in Seq(1 .. MaxRecords) /\ Len(log) \in Nat
    BY DEF NodeTyped
  <2>3. log' \in Seq(1 .. MaxRecords) /\ Len(log') = n
    <3>1. ASSUME NEW i \in 1 .. n PROVE log[i] \in 1 .. MaxRecords
      <4>1. i \in 1 .. Len(log)
        BY <2>1, <2>2
      <4> QED
        BY <2>2, <4>1, ElementOfSeq
    <3>2. n \in Int /\ n >= 0
      BY <2>1, <2>2
    <3>3. SubSeq(log, 1, n) \in Seq(1 .. MaxRecords) /\ Len(SubSeq(log, 1, n)) = IF 1 <= n THEN n - 1 + 1 ELSE 0
      BY <3>1, <3>2, SubSeqProperties
    <3> QED
      BY <2>1, <3>2, <3>3
  <2>4. cursor' \in 0 .. n /\ low' \in 1 .. n + 1
    BY <2>1, <2>2 DEF NodeTyped
  <2>5. lost' \in BOOLEAN
    BY <1>4 DEF Reset, NodeTyped
  <2>6. upsets' \in Nat /\ UNCHANGED <<admitted, done>>
    BY <1>4 DEF Reset, NodeTyped
  <2> QED
    BY <2>3, <2>4, <2>5, <2>6 DEF NodeTyped
<1>5. CASE Disconnect
  BY <1>5 DEF NodeTyped, DrainTyped, PageOK, Disconnect
<1>6. CASE FetchPage
  BY <1>6 DEF NodeTyped, DrainTyped, PageOK, FetchPage, Observe, Matching
<1>7. CASE FetchNothing
  BY <1>7 DEF NodeTyped, DrainTyped, PageOK, FetchNothing, Observe, Drained, Failed
<1>8. CASE FetchGap
  BY <1>8 DEF NodeTyped, DrainTyped, PageOK, FetchGap, Observe
<1>9. CASE HandlerSucceeds
  BY <1>9 DEF NodeTyped, DrainTyped, PageOK, HandlerSucceeds, Settles, Handling, InHand
<1>10. CASE RejectRecorded
  BY <1>10 DEF NodeTyped, DrainTyped, PageOK, RejectRecorded, Settles, InHand
<1>11. CASE AckBeforeFailed
  BY <1>11 DEF NodeTyped, DrainTyped, PageOK, AckBeforeFailed, Failed, InHand, BeforeFailed,
       NodeAck
<1>12. CASE AckPage
  BY <1>12 DEF NodeTyped, DrainTyped, PageOK, AckPage, AckOffset, NodeAck, Drained
<1>13. CASE AckAnswerLost
  BY <1>13 DEF NodeTyped, DrainTyped, PageOK, AckAnswerLost, AckOffset, NodeAck, Failed
<1>14. CASE Restart
  <2>1. lost' = FALSE /\ upsets' \in Nat /\ UNCHANGED <<log, low, cursor, admitted, done>>
    BY <1>14 DEF Restart, NodeTyped
  <2> QED
    BY <2>1 DEF NodeTyped
<1> QED
  BY <1>1, <1>2, <1>3, <1>4, <1>5, <1>6, <1>7, <1>8, <1>9, <1>10, <1>11, <1>12, <1>13, <1>14
     DEF Next, Loop, Drain, Fetch

\* The watch's thread.
LEMMA KeepsWatchTyped == Inv /\ [Next]_vars => WatchTyped'
<1> SUFFICES ASSUME Inv, [Next]_vars PROVE WatchTyped'
  OBVIOUS
<1> USE DEF Inv, TypeOK, node, watch, local, past, Upset, NoHint, NoChange, NoPage
<1>1. CASE \/ Admit \/ Prune \/ Look \/ ReadHead \/ Wake \/ IdleDrain \/ Retry \/ FetchPage
           \/ FetchNothing \/ FetchGap \/ HttpFails \/ HandlerSucceeds \/ HandlerRejects
           \/ HandlerFails \/ RejectRecorded \/ RejectFails \/ AckBeforeFailed \/ AckPage
           \/ AckAnswerLost \/ UNCHANGED vars
  BY <1>1 DEF WatchTyped, vars, Admit, Prune, Look, ReadHead, Wake, IdleDrain, Retry,
       FetchPage, FetchNothing, FetchGap, HttpFails, HandlerSucceeds, HandlerRejects,
       HandlerFails, RejectRecorded, RejectFails, AckBeforeFailed, AckPage, AckAnswerLost,
       AckOffset, BeforeFailed, Covers, Drained, Failed, Handling, InHand, Matching,
       NodeAck, Observe, Settles
<1>2. CASE Reset
  BY <1>2 DEF NodeTyped, WatchTyped, Reset
<1>3. CASE SendHint
  BY <1>3 DEF NodeTyped, WatchTyped, SendHint
<1>4. CASE Connect
  BY <1>4 DEF NodeTyped, WatchTyped, Connect
<1>5. CASE Disconnect
  BY <1>5 DEF NodeTyped, WatchTyped, Disconnect
<1>6. CASE RecordHint
  BY <1>6 DEF NodeTyped, WatchTyped, RecordHint
<1>7. CASE Ring
  BY <1>7 DEF NodeTyped, WatchTyped, Ring
<1>8. CASE TakeGeneration
  BY <1>8 DEF NodeTyped, WatchTyped, TakeGeneration
<1>9. CASE Restart
  BY <1>9 DEF NodeTyped, WatchTyped, Restart
<1> QED
  BY <1>1, <1>2, <1>3, <1>4, <1>5, <1>6, <1>7, <1>8, <1>9 DEF Next, Loop, Drain, Fetch

\* The consumer: a page ends at the end of the stream or before.
LEMMA KeepsDrainTyped == Inv /\ [Next]_vars => DrainTyped'
<1> SUFFICES ASSUME Inv, [Next]_vars PROVE DrainTyped'
  OBVIOUS
<1> USE DEF Inv, TypeOK, node, watch, local, past, Upset, NoHint, NoChange, NoPage
<1>1. CASE \/ Prune \/ SendHint \/ Connect \/ Disconnect \/ RecordHint \/ Ring \/ UNCHANGED vars
  BY <1>1 DEF DrainTyped, vars, Prune, SendHint, Connect, Disconnect, RecordHint, Ring
<1>2. CASE Admit
  BY <1>2 DEF NodeTyped, WatchTyped, DrainTyped, PageOK, Admit
<1>3. CASE Reset
  <2>1. page = NoPage /\ pc \notin {"reject", "failed"}
    BY <1>3 DEF PageOK, Reset
  <2>2. PICK n \in 0 .. Len(log) : log' = SubSeq(log, 1, n)
    BY <1>3 DEF Reset
  <2>3. Len(log') = n /\ n \in Nat
    BY <2>2 DEF NodeTyped
  <2>4. UNCHANGED <<pc, local>>
    BY <1>3 DEF Reset
  <2>5. page' \in [recs : SUBSET (1 .. n), next : 1 .. n + 1]
    BY <2>1, <2>3, <2>4
  <2>. QED  BY <2>1, <2>3, <2>4, <2>5 DEF DrainTyped
<1>4. CASE TakeGeneration
  BY <1>4 DEF NodeTyped, WatchTyped, DrainTyped, PageOK, TakeGeneration
<1>5. CASE Look
  BY <1>5 DEF NodeTyped, WatchTyped, DrainTyped, PageOK, Look, Covers
<1>6. CASE ReadHead
  BY <1>6 DEF NodeTyped, WatchTyped, DrainTyped, PageOK, ReadHead
<1>7. CASE Wake
  BY <1>7 DEF NodeTyped, WatchTyped, DrainTyped, PageOK, Wake
<1>8. CASE IdleDrain
  BY <1>8 DEF NodeTyped, WatchTyped, DrainTyped, PageOK, IdleDrain
<1>9. CASE Retry
  BY <1>9 DEF NodeTyped, WatchTyped, DrainTyped, PageOK, Retry
<1>10. CASE FetchPage
  <2>1. PICK next \in cursor + 2 .. Len(log) + 1 :
           page' = [recs |-> Matching(cursor + 1, next - 1), next |-> next]
    BY <1>10 DEF FetchPage
  <2>2. cursor \in Nat /\ Len(log) \in Nat /\ next \in 1 .. Len(log) + 1
    BY <2>1 DEF NodeTyped
  <2>3. Matching(cursor + 1, next - 1) \in SUBSET (1 .. Len(log))
    BY <2>2 DEF Matching
  <2>4. page' \in [recs : SUBSET (1 .. Len(log')), next : 1 .. Len(log') + 1]
    BY <1>10, <2>1, <2>2, <2>3 DEF FetchPage
  <2>5. position' \in Nat
    BY <1>10, <2>2 DEF FetchPage, Observe, DrainTyped
  <2>6. first' = FALSE /\ pc' = "record" /\ UNCHANGED <<change, drainedOn, head>>
    BY <1>10 DEF FetchPage
  <2> QED
    BY <2>4, <2>5, <2>6 DEF DrainTyped
<1>11. CASE FetchNothing
  <2>1. page' = NoPage /\ head' = 0 /\ first' = TRUE /\ pc' \in {"wait", "backoff"} /\ change' = change /\ log' = log
    BY <1>11 DEF FetchNothing, Drained, Failed
  <2>2. position' \in Nat
    BY <1>11 DEF FetchNothing, Observe, NodeTyped, DrainTyped
  <2>3. drainedOn' \in Nat
    BY <1>11 DEF FetchNothing, Drained, Failed, DrainTyped
  <2>4. page' \in [recs : SUBSET (1 .. Len(log')), next : 1 .. Len(log') + 1]
    BY <2>1 DEF NodeTyped
  <2> QED
    BY <2>1, <2>2, <2>3, <2>4 DEF DrainTyped
<1>12. CASE FetchGap
  BY <1>12 DEF NodeTyped, WatchTyped, DrainTyped, PageOK, FetchGap, Observe
<1>13. CASE HttpFails
  BY <1>13 DEF NodeTyped, WatchTyped, DrainTyped, PageOK, HttpFails, Failed
<1>14. CASE HandlerSucceeds
  BY <1>14 DEF NodeTyped, WatchTyped, DrainTyped, PageOK, HandlerSucceeds, Settles,
       Handling, InHand
<1>15. CASE HandlerRejects
  BY <1>15 DEF NodeTyped, WatchTyped, DrainTyped, PageOK, HandlerRejects, Handling
<1>16. CASE HandlerFails
  BY <1>16 DEF NodeTyped, WatchTyped, DrainTyped, PageOK, HandlerFails, Handling
<1>17. CASE RejectRecorded
  BY <1>17 DEF NodeTyped, WatchTyped, DrainTyped, PageOK, RejectRecorded, Settles, InHand
<1>18. CASE RejectFails
  BY <1>18 DEF NodeTyped, WatchTyped, DrainTyped, PageOK, RejectFails
<1>19. CASE AckBeforeFailed
  BY <1>19 DEF NodeTyped, WatchTyped, DrainTyped, PageOK, AckBeforeFailed, Failed, InHand,
       BeforeFailed, NodeAck
<1>20. CASE AckPage
  <2>1. position' \in Nat
    BY <1>20 DEF AckPage, AckOffset, NodeTyped, DrainTyped
  <2>2. drainedOn' \in {change.sub, drainedOn} /\ head' \in {0, head} /\ first' \in {TRUE, first} /\ change' = change /\ log' = log
    BY <1>20 DEF AckPage, Drained
  <2>3. page' = NoPage /\ pc' \in {"wait", "fetch"}
    BY <1>20 DEF AckPage, Drained
  <2>4. page' \in [recs : SUBSET (1 .. Len(log')), next : 1 .. Len(log') + 1]
    BY <2>2, <2>3 DEF NodeTyped
  <2>5. drainedOn' \in Nat
    BY <2>2 DEF DrainTyped
  <2>6. head' \in Nat /\ change' \in [head : Nat, sub : Nat]
    BY <2>2 DEF DrainTyped
  <2>7. first' \in BOOLEAN
    BY <2>2 DEF DrainTyped
  <2> QED
    BY <2>1, <2>3, <2>4, <2>5, <2>6, <2>7 DEF DrainTyped
<1>21. CASE AckAnswerLost
  BY <1>21 DEF NodeTyped, WatchTyped, DrainTyped, PageOK, AckAnswerLost, AckOffset, NodeAck,
       Failed
<1>22. CASE Restart
  BY <1>22 DEF NodeTyped, WatchTyped, DrainTyped, PageOK, Restart
<1> QED
  BY <1>1, <1>2, <1>3, <1>4, <1>5, <1>6, <1>7, <1>8, <1>9, <1>10, <1>11, <1>12, <1>13,
     <1>14, <1>15, <1>16, <1>17, <1>18, <1>19, <1>20, <1>21, <1>22
     DEF Next, Loop, Drain, Fetch

\* Only the record in hand leaves the page.
LEMMA KeepsPageOK == Inv /\ [Next]_vars => PageOK'
<1> SUFFICES ASSUME Inv, [Next]_vars PROVE PageOK'
  OBVIOUS
<1> USE DEF Inv, TypeOK, node, watch, local, past, Upset, NoHint, NoChange, NoPage
<1>1. CASE \/ Prune \/ SendHint \/ Connect \/ Disconnect \/ RecordHint \/ Ring \/ UNCHANGED vars
  BY <1>1 DEF PageOK, vars, Prune, SendHint, Connect, Disconnect, RecordHint, Ring
<1>2. CASE Admit
  BY <1>2 DEF NodeTyped, DrainTyped, PageOK, Admit
<1>3. CASE Reset
  BY <1>3 DEF NodeTyped, DrainTyped, PageOK, Reset
<1>4. CASE TakeGeneration
  BY <1>4 DEF NodeTyped, DrainTyped, PageOK, TakeGeneration
<1>5. CASE Look
  BY <1>5 DEF NodeTyped, DrainTyped, PageOK, Look, Covers
<1>6. CASE ReadHead
  BY <1>6 DEF NodeTyped, DrainTyped, PageOK, ReadHead
<1>7. CASE Wake
  BY <1>7 DEF NodeTyped, DrainTyped, PageOK, Wake
<1>8. CASE IdleDrain
  BY <1>8 DEF NodeTyped, DrainTyped, PageOK, IdleDrain
<1>9. CASE Retry
  BY <1>9 DEF NodeTyped, DrainTyped, PageOK, Retry
<1>10. CASE FetchPage
  BY <1>10 DEF NodeTyped, DrainTyped, PageOK, FetchPage, Observe, Matching
<1>11. CASE FetchNothing
  BY <1>11 DEF NodeTyped, DrainTyped, PageOK, FetchNothing, Observe, Drained, Failed
<1>12. CASE FetchGap
  BY <1>12 DEF NodeTyped, DrainTyped, PageOK, FetchGap, Observe
<1>13. CASE HttpFails
  BY <1>13 DEF NodeTyped, DrainTyped, PageOK, HttpFails, Failed
<1>14. CASE HandlerSucceeds
  BY <1>14 DEF NodeTyped, DrainTyped, PageOK, HandlerSucceeds, Settles, Handling, InHand
<1>15. CASE HandlerRejects
  BY <1>15 DEF NodeTyped, DrainTyped, PageOK, HandlerRejects, Handling
<1>16. CASE HandlerFails
  BY <1>16 DEF NodeTyped, DrainTyped, PageOK, HandlerFails, Handling
<1>17. CASE RejectRecorded
  BY <1>17 DEF NodeTyped, DrainTyped, PageOK, RejectRecorded, Settles, InHand
<1>18. CASE RejectFails
  BY <1>18 DEF NodeTyped, DrainTyped, PageOK, RejectFails
<1>19. CASE AckBeforeFailed
  BY <1>19 DEF NodeTyped, DrainTyped, PageOK, AckBeforeFailed, Failed, InHand, BeforeFailed,
       NodeAck
<1>20. CASE AckPage
  BY <1>20 DEF NodeTyped, DrainTyped, PageOK, AckPage, AckOffset, NodeAck, Drained
<1>21. CASE AckAnswerLost
  BY <1>21 DEF NodeTyped, DrainTyped, PageOK, AckAnswerLost, AckOffset, NodeAck, Failed
<1>22. CASE Restart
  BY <1>22 DEF NodeTyped, DrainTyped, PageOK, Restart
<1> QED
  BY <1>1, <1>2, <1>3, <1>4, <1>5, <1>6, <1>7, <1>8, <1>9, <1>10, <1>11, <1>12, <1>13,
     <1>14, <1>15, <1>16, <1>17, <1>18, <1>19, <1>20, <1>21, <1>22
     DEF Next, Loop, Drain, Fetch

\* The cursor follows the records that were handled; a reset cuts them off.
LEMMA KeepsHandledOK == Inv /\ [Next]_vars => HandledOK'
<1> SUFFICES ASSUME Inv, [Next]_vars PROVE HandledOK'
  OBVIOUS
<1> USE DEF Inv, TypeOK, node, watch, local, past, Upset, NoHint, NoChange, NoPage
<1>1. CASE \/ Prune \/ SendHint \/ Connect \/ Disconnect \/ RecordHint \/ Ring \/ TakeGeneration
           \/ Look \/ ReadHead \/ Wake \/ IdleDrain \/ Retry \/ FetchGap \/ HandlerRejects
           \/ HandlerFails \/ RejectFails \/ UNCHANGED vars
  BY <1>1 DEF HandledOK, vars, Prune, SendHint, Connect, Disconnect, RecordHint, Ring,
       TakeGeneration, Look, ReadHead, Wake, IdleDrain, Retry, FetchGap, HandlerRejects,
       HandlerFails, RejectFails, Covers, Handling, Observe
<1>2. CASE Admit
  <2>1. log \in Seq(1 .. MaxRecords) /\ admitted + 1 \in 1 .. MaxRecords /\ log' = Append(log, admitted + 1)
    BY <1>2, ConsumerAssumption DEF Admit, NodeTyped
  <2>2. Len(log') = Len(log) + 1 /\ Len(log) \in Nat /\ \A i \in 1 .. Len(log) : log'[i] = log[i]
    BY <2>1, AppendProperties
  <2>3. UNCHANGED <<cursor, page, done>>
    BY <1>2 DEF Admit
  <2>4. cursor \in 0 .. Len(log) /\ page.next \in 1 .. Len(log) + 1
    BY DEF NodeTyped, DrainTyped
  <2> QED
    BY <2>1, <2>2, <2>3, <2>4 DEF HandledOK
<1>3. CASE Reset
  <2>1. PICK n \in 0 .. Len(log) :
           log' = SubSeq(log, 1, n) /\ cursor' \in 0 .. (IF n < cursor THEN n ELSE cursor)
    BY <1>3 DEF Reset
  <2>2. log \in Seq(1 .. MaxRecords) /\ cursor \in Nat
    BY DEF NodeTyped
  <2>3. Len(log') = n /\ cursor' <= cursor /\ \A i \in 1 .. n : log'[i] = log[i]
    BY <2>1, <2>2
  <2>4. page = NoPage /\ page' = page /\ done' = done
    BY <1>3 DEF Reset, PageOK
  <2> QED
    BY <2>1, <2>2, <2>3, <2>4 DEF HandledOK
<1>4. CASE FetchPage
  <2>1. PICK next \in cursor + 2 .. Len(log) + 1 :
           page' = [recs |-> Matching(cursor + 1, next - 1), next |-> next]
    BY <1>4 DEF FetchPage
  <2>2. cursor \in Nat /\ Len(log) \in Nat /\ UNCHANGED <<log, cursor, done>>
    BY <1>4 DEF FetchPage, NodeTyped
  <2>3. \A i \in 1 .. Len(log) : log[i] \in Wanted /\ i < next /\ i \notin page'.recs => i <= cursor
    BY <2>1, <2>2 DEF Matching
  <2> QED
    BY <2>1, <2>2, <2>3 DEF HandledOK
<1>5. CASE FetchNothing
  BY <1>5 DEF NodeTyped, DrainTyped, PageOK, HandledOK, FetchNothing, Observe, Drained,
       Failed
<1>6. CASE HttpFails
  BY <1>6 DEF NodeTyped, DrainTyped, PageOK, HandledOK, HttpFails, Failed
<1>7. CASE HandlerSucceeds
  BY <1>7 DEF NodeTyped, DrainTyped, PageOK, HandledOK, HandlerSucceeds, Settles, Handling,
       InHand
<1>8. CASE RejectRecorded
  BY <1>8 DEF NodeTyped, DrainTyped, PageOK, HandledOK, RejectRecorded, Settles, InHand
<1>9. CASE AckBeforeFailed
  <2>1. PICK i \in page.recs :
           /\ \A j \in page.recs : i <= j
           /\ cursor' = cursor \/ cursor' = i - 1
    BY <1>9 DEF AckBeforeFailed, InHand, BeforeFailed, NodeAck
  <2>2. page' = NoPage /\ UNCHANGED <<log, done>>
    BY <1>9 DEF AckBeforeFailed, Failed
  <2>3. i \in Nat /\ i < page.next /\ page.recs \subseteq Nat
    BY <2>1 DEF PageOK, DrainTyped
  <2>4. \A k \in 1 .. Len(log) : k <= i - 1 => k < page.next /\ k \notin page.recs
    BY <2>1, <2>3 DEF DrainTyped
  <2> QED
    BY <2>1, <2>2, <2>4 DEF HandledOK, NodeTyped
<1>10. CASE AckPage
  BY <1>10 DEF NodeTyped, DrainTyped, PageOK, HandledOK, AckPage, AckOffset, NodeAck,
       Drained
<1>11. CASE AckAnswerLost
  BY <1>11 DEF NodeTyped, DrainTyped, PageOK, HandledOK, AckAnswerLost, AckOffset, NodeAck,
       Failed
<1>12. CASE Restart
  BY <1>12 DEF NodeTyped, DrainTyped, PageOK, HandledOK, Restart
<1> QED
  BY <1>1, <1>2, <1>3, <1>4, <1>5, <1>6, <1>7, <1>8, <1>9, <1>10, <1>11, <1>12
     DEF Next, Loop, Drain, Fetch

\* The first hint of a connection begins a subscription.
LEMMA KeepsWatchOK == Inv /\ [Next]_vars => WatchOK'
<1> SUFFICES ASSUME Inv, [Next]_vars PROVE WatchOK'
  OBVIOUS
<1> USE DEF Inv, TypeOK, node, watch, local, past, Upset, NoHint, NoChange, NoPage
<1>1. CASE \/ Admit \/ Prune \/ Ring \/ TakeGeneration \/ ReadHead \/ Wake \/ IdleDrain
           \/ Retry \/ FetchPage \/ FetchGap \/ HttpFails \/ HandlerSucceeds \/ HandlerRejects
           \/ HandlerFails \/ RejectRecorded \/ RejectFails \/ AckBeforeFailed \/ AckAnswerLost
           \/ UNCHANGED vars
  BY <1>1 DEF WatchOK, vars, Admit, Prune, Ring, TakeGeneration, ReadHead, Wake, IdleDrain,
       Retry, FetchPage, FetchGap, HttpFails, HandlerSucceeds, HandlerRejects, HandlerFails,
       RejectRecorded, RejectFails, AckBeforeFailed, AckAnswerLost, AckOffset, BeforeFailed,
       Failed, Handling, InHand, Matching, NodeAck, Observe, Settles
<1>2. CASE Reset
  BY <1>2 DEF NodeTyped, WatchTyped, DrainTyped, WatchOK, Reset
<1>3. CASE SendHint
  BY <1>3 DEF NodeTyped, WatchTyped, DrainTyped, WatchOK, SendHint
<1>4. CASE Connect
  BY <1>4 DEF NodeTyped, WatchTyped, DrainTyped, WatchOK, Connect
<1>5. CASE Disconnect
  BY <1>5 DEF NodeTyped, WatchTyped, DrainTyped, WatchOK, Disconnect
<1>6. CASE RecordHint
  BY <1>6 DEF NodeTyped, WatchTyped, DrainTyped, WatchOK, RecordHint
<1>7. CASE Look
  BY <1>7 DEF NodeTyped, WatchTyped, DrainTyped, WatchOK, Look, Covers
<1>8. CASE FetchNothing
  BY <1>8 DEF NodeTyped, WatchTyped, DrainTyped, WatchOK, FetchNothing, Observe, Drained,
       Failed
<1>9. CASE AckPage
  BY <1>9 DEF NodeTyped, WatchTyped, DrainTyped, WatchOK, AckPage, AckOffset, NodeAck,
       Drained
<1>10. CASE Restart
  BY <1>10 DEF NodeTyped, WatchTyped, DrainTyped, WatchOK, Restart
<1> QED
  BY <1>1, <1>2, <1>3, <1>4, <1>5, <1>6, <1>7, <1>8, <1>9, <1>10 DEF Next, Loop, Drain, Fetch

\* A hint stored after the look rings.
LEMMA KeepsSeenOK == Inv /\ [Next]_vars => SeenOK'
<1> SUFFICES ASSUME Inv, [Next]_vars PROVE SeenOK'
  OBVIOUS
<1> USE DEF Inv, TypeOK, node, watch, local, past, Upset, NoHint, NoChange, NoPage
<1>1. CASE \/ Admit \/ Prune \/ Reset \/ SendHint \/ Connect \/ Disconnect \/ HandlerSucceeds
           \/ UNCHANGED vars
  BY <1>1 DEF SeenOK, vars, Admit, Prune, Reset, SendHint, Connect, Disconnect,
       HandlerSucceeds, Handling, InHand, Settles
<1>2. CASE RecordHint
  BY <1>2 DEF SeenOK, RecordHint
<1>3. CASE Ring
  BY <1>3 DEF SeenOK, Ring
<1>4. CASE TakeGeneration
  BY <1>4 DEF SeenOK, TakeGeneration
<1>5. CASE Look
  BY <1>5 DEF SeenOK, Look, Covers
<1>6. CASE ReadHead
  BY <1>6 DEF SeenOK, ReadHead
<1>7. CASE Wake
  BY <1>7 DEF SeenOK, Wake
<1>8. CASE IdleDrain
  BY <1>8 DEF SeenOK, IdleDrain
<1>9. CASE Retry
  BY <1>9 DEF SeenOK, Retry
<1>10. CASE FetchPage
  BY <1>10 DEF SeenOK, FetchPage, Observe, Matching
<1>11. CASE FetchNothing
  BY <1>11 DEF SeenOK, FetchNothing, Observe, Drained, Failed
<1>12. CASE FetchGap
  BY <1>12 DEF SeenOK, FetchGap, Observe
<1>13. CASE HttpFails
  BY <1>13 DEF SeenOK, HttpFails, Failed
<1>14. CASE HandlerRejects
  BY <1>14 DEF SeenOK, HandlerRejects, Handling
<1>15. CASE HandlerFails
  BY <1>15 DEF SeenOK, HandlerFails, Handling
<1>16. CASE RejectRecorded
  BY <1>16 DEF SeenOK, RejectRecorded, Settles, InHand
<1>17. CASE RejectFails
  BY <1>17 DEF SeenOK, RejectFails
<1>18. CASE AckBeforeFailed
  BY <1>18 DEF SeenOK, AckBeforeFailed, Failed, InHand, BeforeFailed, NodeAck
<1>19. CASE AckPage
  BY <1>19 DEF SeenOK, AckPage, AckOffset, NodeAck, Drained
<1>20. CASE AckAnswerLost
  BY <1>20 DEF SeenOK, AckAnswerLost, AckOffset, NodeAck, Failed
<1>21. CASE Restart
  BY <1>21 DEF SeenOK, Restart
<1> QED
  BY <1>1, <1>2, <1>3, <1>4, <1>5, <1>6, <1>7, <1>8, <1>9, <1>10, <1>11, <1>12, <1>13,
     <1>14, <1>15, <1>16, <1>17, <1>18, <1>19, <1>20, <1>21
     DEF Next, Loop, Drain, Fetch

\* A drain that ends well reached its head.
LEMMA KeepsDrainOK == Inv /\ [Next]_vars => DrainOK'
<1> SUFFICES ASSUME Inv, [Next]_vars PROVE DrainOK'
  OBVIOUS
<1> USE DEF Inv, TypeOK, node, watch, local, past, Upset, NoHint, NoChange, NoPage
<1>1. CASE \/ Admit \/ Prune \/ SendHint \/ Connect \/ Disconnect \/ RecordHint \/ Ring
           \/ HandlerSucceeds \/ UNCHANGED vars
  BY <1>1 DEF DrainOK, vars, Admit, Prune, SendHint, Connect, Disconnect, RecordHint, Ring,
       HandlerSucceeds, Handling, InHand, Settles
<1>2. CASE Reset
  BY <1>2 DEF NodeTyped, WatchTyped, DrainTyped, PageOK, DrainOK, Reset
<1>3. CASE TakeGeneration
  BY <1>3 DEF NodeTyped, WatchTyped, DrainTyped, PageOK, DrainOK, TakeGeneration
<1>4. CASE Look
  BY <1>4 DEF NodeTyped, WatchTyped, DrainTyped, PageOK, DrainOK, Look, Covers
<1>5. CASE ReadHead
  BY <1>5 DEF NodeTyped, WatchTyped, DrainTyped, PageOK, DrainOK, ReadHead
<1>6. CASE Wake
  BY <1>6 DEF NodeTyped, WatchTyped, DrainTyped, PageOK, DrainOK, Wake
<1>7. CASE IdleDrain
  BY <1>7 DEF NodeTyped, WatchTyped, DrainTyped, PageOK, DrainOK, IdleDrain
<1>8. CASE Retry
  BY <1>8 DEF NodeTyped, WatchTyped, DrainTyped, PageOK, DrainOK, Retry
<1>9. CASE FetchPage
  BY <1>9 DEF NodeTyped, WatchTyped, DrainTyped, PageOK, DrainOK, FetchPage, Observe,
       Matching
<1>10. CASE FetchNothing
  BY <1>10 DEF NodeTyped, WatchTyped, DrainTyped, PageOK, DrainOK, FetchNothing, Observe,
       Drained, Failed
<1>11. CASE FetchGap
  BY <1>11 DEF NodeTyped, WatchTyped, DrainTyped, PageOK, DrainOK, FetchGap, Observe
<1>12. CASE HttpFails
  BY <1>12 DEF NodeTyped, WatchTyped, DrainTyped, PageOK, DrainOK, HttpFails, Failed
<1>13. CASE HandlerRejects
  BY <1>13 DEF NodeTyped, WatchTyped, DrainTyped, PageOK, DrainOK, HandlerRejects, Handling
<1>14. CASE HandlerFails
  BY <1>14 DEF NodeTyped, WatchTyped, DrainTyped, PageOK, DrainOK, HandlerFails, Handling
<1>15. CASE RejectRecorded
  BY <1>15 DEF NodeTyped, WatchTyped, DrainTyped, PageOK, DrainOK, RejectRecorded, Settles,
       InHand
<1>16. CASE RejectFails
  BY <1>16 DEF NodeTyped, WatchTyped, DrainTyped, PageOK, DrainOK, RejectFails
<1>17. CASE AckBeforeFailed
  BY <1>17 DEF NodeTyped, WatchTyped, DrainTyped, PageOK, DrainOK, AckBeforeFailed, Failed,
       InHand, BeforeFailed, NodeAck
<1>18. CASE AckPage
  <2>1. PICK n \in Nat : n = AckOffset
    BY DEF NodeTyped, DrainTyped, AckOffset
  <2>2. /\ change' = change /\ change.head \in Nat /\ head \in Nat /\ position \in Nat /\ cursor \in Nat
        /\ pc = "record"
    BY <1>18 DEF NodeTyped, DrainTyped, AckPage, Drained
  <2>3. position' >= n /\ position' \in Nat /\ position' <= cursor'
    BY <1>18, <2>1, <2>2 DEF DrainOK, AckPage, NodeAck
  <2>4. CASE n >= head /\ Drained
    BY <2>2, <2>3, <2>4 DEF DrainOK, Drained
  <2>5. CASE pc' = "fetch" /\ UNCHANGED <<change, drainedOn, head, first>>
    BY <2>2, <2>3, <2>5 DEF DrainOK
  <2> QED
    BY <1>18, <2>1, <2>4, <2>5 DEF AckPage
<1>19. CASE AckAnswerLost
  BY <1>19 DEF NodeTyped, WatchTyped, DrainTyped, PageOK, DrainOK, AckAnswerLost, AckOffset,
       NodeAck, Failed
<1>20. CASE Restart
  BY <1>20 DEF NodeTyped, WatchTyped, DrainTyped, PageOK, DrainOK, Restart
<1> QED
  BY <1>1, <1>2, <1>3, <1>4, <1>5, <1>6, <1>7, <1>8, <1>9, <1>10, <1>11, <1>12, <1>13,
     <1>14, <1>15, <1>16, <1>17, <1>18, <1>19, <1>20
     DEF Next, Loop, Drain, Fetch

\* A reset ends the connection, and the next hint begins a subscription.
LEMMA KeepsFreshOK == Inv /\ [Next]_vars => FreshOK'
<1> SUFFICES ASSUME Inv, [Next]_vars PROVE FreshOK'
  OBVIOUS
<1> USE DEF Inv, TypeOK, node, watch, local, past, Upset, NoHint, NoChange, NoPage
<1>1. CASE \/ Admit \/ Prune \/ SendHint \/ Ring \/ TakeGeneration \/ Look \/ ReadHead
           \/ Wake \/ IdleDrain \/ Retry \/ HttpFails \/ HandlerSucceeds \/ HandlerRejects
           \/ HandlerFails \/ RejectRecorded \/ RejectFails \/ UNCHANGED vars
  BY <1>1 DEF FreshOK, vars, Admit, Prune, SendHint, Ring, TakeGeneration, Look, ReadHead,
       Wake, IdleDrain, Retry, HttpFails, HandlerSucceeds, HandlerRejects, HandlerFails,
       RejectRecorded, RejectFails, Covers, Failed, Handling, InHand, Settles
<1>2. CASE Reset
  BY <1>2 DEF NodeTyped, WatchTyped, DrainTyped, WatchOK, DrainOK, FreshOK, Reset
<1>3. CASE Connect
  BY <1>3 DEF NodeTyped, WatchTyped, DrainTyped, WatchOK, DrainOK, FreshOK, Connect
<1>4. CASE Disconnect
  BY <1>4 DEF NodeTyped, WatchTyped, DrainTyped, WatchOK, DrainOK, FreshOK, Disconnect
<1>5. CASE RecordHint
  BY <1>5 DEF NodeTyped, WatchTyped, DrainTyped, WatchOK, DrainOK, FreshOK, RecordHint
<1>6. CASE FetchPage
  BY <1>6 DEF NodeTyped, WatchTyped, DrainTyped, WatchOK, DrainOK, FreshOK, FetchPage,
       Observe, Matching
<1>7. CASE FetchNothing
  BY <1>7 DEF NodeTyped, WatchTyped, DrainTyped, WatchOK, DrainOK, FreshOK, FetchNothing,
       Observe, Drained, Failed
<1>8. CASE FetchGap
  BY <1>8 DEF NodeTyped, WatchTyped, DrainTyped, WatchOK, DrainOK, FreshOK, FetchGap,
       Observe
<1>9. CASE AckBeforeFailed
  BY <1>9 DEF NodeTyped, WatchTyped, DrainTyped, WatchOK, DrainOK, FreshOK, AckBeforeFailed,
       Failed, InHand, BeforeFailed, NodeAck
<1>10. CASE AckPage
  BY <1>10 DEF NodeTyped, WatchTyped, DrainTyped, WatchOK, DrainOK, FreshOK, AckPage,
       AckOffset, NodeAck, Drained
<1>11. CASE AckAnswerLost
  BY <1>11 DEF NodeTyped, WatchTyped, DrainTyped, WatchOK, DrainOK, FreshOK, AckAnswerLost,
       AckOffset, NodeAck, Failed
<1>12. CASE Restart
  BY <1>12 DEF NodeTyped, WatchTyped, DrainTyped, WatchOK, DrainOK, FreshOK, Restart
<1> QED
  BY <1>1, <1>2, <1>3, <1>4, <1>5, <1>6, <1>7, <1>8, <1>9, <1>10, <1>11, <1>12
     DEF Next, Loop, Drain, Fetch

\* The invariant holds at the start.
LEMMA InitInv == Init => Inv
<1> SUFFICES ASSUME Init PROVE Inv
  OBVIOUS
<1> USE DEF Init, NoHint, NoChange, NoPage
<1>1. NodeTyped
  <2>1. log \in Seq(1 .. MaxRecords) /\ Len(log) = 0
    <3>1. <<>> \in Seq(1 .. MaxRecords) /\ Len(<<>>) = 0
      BY EmptySeq
    <3>2. log = <<>>
      OBVIOUS
    <3> QED
      BY ONLY <3>1, <3>2
  <2>2. low = 1 /\ cursor = 0 /\ admitted = 0 /\ done = {} /\ lost = FALSE /\ upsets = 0
    OBVIOUS
  <2>3. low \in 1 .. Len(log) + 1 /\ cursor \in 0 .. Len(log)
    BY ONLY <2>1, <2>2, SMT
  <2>4. admitted \in 0 .. MaxRecords
    BY <2>2, ConsumerAssumption
  <2> QED
    BY ONLY <2>1, <2>2, <2>3, <2>4 DEF NodeTyped
<1>2. WatchTyped
  BY DEF WatchTyped
<1>3. DrainTyped
  BY DEF DrainTyped
<1>4. PageOK /\ HandledOK
  BY DEF PageOK, HandledOK
<1>5. WatchOK /\ SeenOK /\ DrainOK /\ FreshOK
  BY DEF WatchOK, SeenOK, DrainOK, FreshOK
<1> QED
  BY <1>1, <1>2, <1>3, <1>4, <1>5 DEF Inv, TypeOK

\* Every step keeps it.
LEMMA NextInv == Inv /\ [Next]_vars => Inv'
BY KeepsNodeTyped, KeepsWatchTyped, KeepsDrainTyped, KeepsPageOK, KeepsHandledOK,
   KeepsWatchOK, KeepsSeenOK, KeepsDrainOK, KeepsFreshOK
   DEF Inv, TypeOK

\* It holds in every behaviour.
LEMMA SpecInv == Spec => []Inv
BY InitInv, NextInv, PTL DEF Spec

\* Every variable has its type, for every filter, page size and number of records
\* and upsets.
THEOREM TypeCorrect == Spec => []TypeOK
<1>1. Inv => TypeOK
  BY DEF Inv
<1> QED
  BY <1>1, SpecInv, PTL

\* A consumer that sleeps with nothing on its way to wake it has read everything.
LEMMA QuietIsDone == Inv => NothingHidden
<1> SUFFICES ASSUME Inv, Quiet PROVE cursor = Len(log)
  BY DEF NothingHidden
<1>1. Len(log) \in Nat /\ cursor \in 0 .. Len(log)
  BY DEF Inv, TypeOK, NodeTyped
<1>2. greeted /\ latest.head = Len(log) /\ latest.sub = sub /\ sub # 0
  BY <1>1 DEF Quiet, Inv, WatchOK, NoHint
<1>3. change = latest
  BY DEF Quiet, Inv, SeenOK
<1>4. drainedOn = sub /\ position >= Len(log)
  BY <1>2, <1>3 DEF Quiet, Inv, DrainOK
<1>5. position <= cursor
  BY <1>2, <1>4 DEF Quiet, Inv, FreshOK
<1>6. position \in Nat
  BY DEF Inv, TypeOK, DrainTyped
<1> QED
  BY <1>1, <1>4, <1>5, <1>6

\* No wake-up is lost: the order in which the watch stores a hint and rings, and in
\* which the consumer takes the generation, looks and sleeps, is enough.
THEOREM NoWakeUpLost == Spec => []NothingHidden
BY SpecInv, QuietIsDone, PTL

\* Up to the first record left of the page everything was handled.
LEMMA ThroughPage ==
  ASSUME Inv, NEW n \in 0 .. page.next - 1, \A i \in page.recs : n < i
  PROVE  n \in 0 .. Len(log) /\ Delivery!Through(n)
<1>1. Len(log) \in Nat /\ page.next \in 1 .. Len(log) + 1 /\ page.recs \subseteq Nat
  BY DEF Inv, TypeOK, NodeTyped, DrainTyped
<1>2. \A i \in 1 .. n : i \in 1 .. Len(log) /\ i < page.next /\ i \notin page.recs
  BY <1>1
<1> QED
  BY <1>1, <1>2 DEF Inv, HandledOK, Delivery!Through

\* A record is handled when everything before it was.
LEMMA SettlesHandles == ASSUME Inv, Settles, UNCHANGED <<log, cursor>> PROVE Delivery!Handle
<1>1. PICK i \in page.recs : (\A j \in page.recs : i <= j) /\ done' = done \cup {log[i]}
  BY DEF Settles, InHand
<1>2. i \in 1 .. Len(log) /\ i < page.next /\ log[i] \in Wanted /\ page.recs \subseteq Nat /\ page.next \in Nat
  BY <1>1 DEF Inv, TypeOK, NodeTyped, DrainTyped, PageOK
<1>3. i - 1 \in 0 .. page.next - 1 /\ \A j \in page.recs : i - 1 < j
  BY <1>1, <1>2
<1>4. Delivery!Through(i - 1)
  BY <1>3, ThroughPage
<1> QED
  BY <1>1, <1>2, <1>4 DEF Delivery!Handle

\* The cursor moves over records that were handled, or does not move.
LEMMA AckPasses ==
  ASSUME Inv, NEW n \in 0 .. page.next - 1, \A i \in page.recs : n < i,
         cursor' = cursor \/ (NodeAck(n) /\ n <= Len(log)), UNCHANGED <<log, done>>
  PROVE  [Delivery!Next]_Delivery!vars
<1>1. Len(log) \in Nat /\ cursor \in Nat /\ n \in 0 .. Len(log) /\ Delivery!Through(n)
  BY ThroughPage DEF Inv, TypeOK, NodeTyped
<1>2. CASE cursor' = cursor
  BY <1>2 DEF Delivery!vars
<1>3. CASE cursor' = n /\ n > cursor
  BY <1>1, <1>3 DEF Delivery!Next, Delivery!Pass
<1> QED
  BY <1>1, <1>2, <1>3 DEF NodeAck

\* Each step of the consumer, the watch or the node is one of the contract's, or
\* none of its business.
LEMMA StepDelivers == Inv /\ [Next]_vars => [Delivery!Next]_Delivery!vars
<1> SUFFICES ASSUME Inv, [Next]_vars PROVE [Delivery!Next]_Delivery!vars
  OBVIOUS
<1> USE DEF node, past
<1>1. CASE \/ Prune \/ SendHint \/ Connect \/ Disconnect \/ RecordHint \/ Ring \/ Loop \/ Restart
           \/ Fetch \/ HttpFails \/ HandlerRejects \/ HandlerFails \/ RejectFails \/ UNCHANGED vars
  BY <1>1
     DEF Prune, SendHint, Connect, Disconnect, RecordHint, Ring, Loop, TakeGeneration,
         Look, ReadHead, Wake, IdleDrain, Retry, Restart, Fetch, FetchPage,
         FetchNothing, FetchGap, HttpFails, HandlerRejects, HandlerFails, RejectFails,
         vars, Delivery!vars
<1>2. CASE Admit
  <2>1. admitted + 1 \in 1 .. MaxRecords /\ log' = Append(log, admitted + 1) /\ UNCHANGED <<cursor, done>>
    BY <1>2, ConsumerAssumption DEF Admit, Inv, TypeOK, NodeTyped
  <2> QED
    BY <2>1 DEF Delivery!Next, Delivery!Admit
<1>3. CASE Reset
  <2>1. PICK n \in 0 .. Len(log) :
           log' = SubSeq(log, 1, n) /\ cursor' \in 0 .. (IF n < cursor THEN n ELSE cursor)
    BY <1>3 DEF Reset
  <2>2. cursor \in Nat /\ n \in Nat /\ cursor' \in 0 .. n /\ cursor' <= cursor /\ done' = done
    BY <1>3, <2>1 DEF Reset, Inv, TypeOK, NodeTyped
  <2> QED
    BY <2>1, <2>2 DEF Delivery!Next, Delivery!Restore
<1>4. CASE HandlerSucceeds \/ RejectRecorded
  <2>1. Settles /\ UNCHANGED <<log, cursor>>
    BY <1>4 DEF HandlerSucceeds, RejectRecorded
  <2> QED
    BY <2>1, SettlesHandles DEF Delivery!Next
<1>5. CASE AckBeforeFailed
  <2>1. PICK i \in page.recs :
           /\ \A j \in page.recs : i <= j
           /\ cursor' = cursor \/ (NodeAck(i - 1) /\ i - 1 <= Len(log))
    BY <1>5 DEF AckBeforeFailed, InHand, BeforeFailed
  <2>2. i \in 1 .. Len(log) /\ i < page.next /\ page.recs \subseteq Nat /\ page.next \in Nat
    BY <2>1 DEF Inv, TypeOK, NodeTyped, DrainTyped, PageOK
  <2>3. i - 1 \in 0 .. page.next - 1 /\ \A j \in page.recs : i - 1 < j
    BY <2>1, <2>2
  <2>4. UNCHANGED <<log, done>>
    BY <1>5 DEF AckBeforeFailed
  <2> QED
    BY <2>1, <2>3, <2>4, AckPasses
<1>6. CASE AckPage \/ AckAnswerLost
  <2>1. page.recs = {} /\ (cursor' = cursor \/ (NodeAck(page.next - 1) /\ page.next - 1 <= Len(log))) /\ UNCHANGED <<log, done>>
    <3>1. position \in Nat /\ page.next - 1 \in Int /\ Len(log) \in Nat
      BY DEF Inv, TypeOK, NodeTyped, DrainTyped
    <3> QED
      BY <1>6, <3>1 DEF AckPage, AckAnswerLost, AckOffset
  <2>2. page.next - 1 \in 0 .. page.next - 1
    BY DEF Inv, TypeOK, NodeTyped, DrainTyped
  <2> QED
    BY <2>1, <2>2, AckPasses
<1> QED
  BY <1>1, <1>2, <1>3, <1>4, <1>5, <1>6 DEF Next, Drain

\* The consumer implements the contract of a named cursor: whatever fails, stops, is
\* pruned or reset, records are handled in order and passed after they were handled.
THEOREM ImplementsDelivery == Spec => DeliverySpec
<1>1. Init => Delivery!Init
  BY DEF Init, Delivery!Init
<1> QED
  BY <1>1, StepDelivers, SpecInv, PTL DEF Spec, DeliverySpec, Delivery!Spec

-----------------------------------------------------------------------------
(* MQTT subscriptions: message ids *)

LEMMA ImageSize ==
  ASSUME NEW S, IsFiniteSet(S), NEW f, f = [x \in S |-> f[x]]
  PROVE  LET T == {f[x] : x \in S}
         IN  IsFiniteSet(T) /\ Cardinality(T) <= Cardinality(S)
  <1> DEFINE T == {f[x] : x \in S}
  <1>1. f \in Surjection(S, T)
    BY DEF Surjection
  <1> QED BY <1>1, FS_Surjection

LEMMA ActorsFinite == IsFiniteSet(Actors) /\ Cardinality(Actors) \in Nat
  <1>1. IsFiniteSet(Wakeups) /\ IsFiniteSet(Topics) /\ IsFiniteSet({Net})
    BY SessionAssumption, FS_Singleton
  <1>2. IsFiniteSet(Wakeups \cup {Net})
    BY <1>1, FS_Union
  <1>3. IsFiniteSet((Wakeups \cup {Net}) \cup Topics)
    BY <1>1, <1>2, FS_Union
  <1> QED BY <1>3, FS_CardinalityType DEF Actors

\* Fewer message ids are in use than there are.
LEMMA MidFree ==
  ASSUME WireOK
  PROVE  NewMid \in FreeMids /\ NewMid \in Nat \ {0}
  <1> DEFINE a == Len(out)
             b == Len(acks)
             c == Cardinality(Actors)
             sent == [i \in 1 .. a |-> out[i].mid]
             back == [i \in 1 .. b |-> acks[i].mid]
             made == [x \in Actors |-> doing[x].mid]
             Sent == {sent[i] : i \in 1 .. a}
             Back == {back[i] : i \in 1 .. b}
             Made == {made[x] : x \in Actors}
  <1>1. a \in Nat /\ b \in Nat /\ c \in Nat /\ IsFiniteSet(Actors)
    BY ActorsFinite DEF WireOK
  <1>2. IsFiniteSet(1 .. a) /\ Cardinality(1 .. a) = a /\ IsFiniteSet(1 .. b) /\ Cardinality(1 .. b) = b
    <2>1. \A n \in Nat : IsFiniteSet(1 .. n) /\ Cardinality(1 .. n) = n
      <3>1. \A n \in Nat : IsFiniteSet(1 .. n) /\ Cardinality(1 .. n) = IF 1 > n THEN 0 ELSE n - 1 + 1
        BY FS_Interval
      <3> QED BY <3>1
    <2> QED BY <1>1, <2>1
  <1>3. IsFiniteSet(Sent) /\ Cardinality(Sent) <= a
    BY <1>2, ImageSize
  <1>4. IsFiniteSet(Back) /\ Cardinality(Back) <= b
    BY <1>2, ImageSize
  <1>5. IsFiniteSet(Made) /\ Cardinality(Made) <= c
    BY <1>1, ImageSize
  <1> HIDE DEF a, b, c, Sent, Back, Made
  <1>6. \A S, T : IsFiniteSet(S) /\ IsFiniteSet(T) =>
          IsFiniteSet(S \cup T) /\ Cardinality(S \cup T) <= Cardinality(S) + Cardinality(T)
    <2> SUFFICES ASSUME NEW S, NEW T, IsFiniteSet(S), IsFiniteSet(T)
                 PROVE  IsFiniteSet(S \cup T) /\ Cardinality(S \cup T) <= Cardinality(S) + Cardinality(T)
      OBVIOUS
    <2>1. IsFiniteSet(S \cup T) /\ IsFiniteSet(S \cap T)
          /\ Cardinality(S \cup T) = Cardinality(S) + Cardinality(T) - Cardinality(S \cap T)
      <3>1. (S \cap T) \in SUBSET S
        OBVIOUS
      <3> QED BY <3>1, FS_Union, FS_Subset
    <2>2. Cardinality(S \cap T) \in Nat /\ Cardinality(S) \in Nat /\ Cardinality(T) \in Nat
      BY <2>1, FS_CardinalityType
    <2> QED BY <2>1, <2>2
  <1>7. IsFiniteSet((Sent \cup Back) \cup Made) /\ Cardinality((Sent \cup Back) \cup Made) <= a + b + c
    <2>1. IsFiniteSet(Sent \cup Back) /\ Cardinality(Sent \cup Back) <= Cardinality(Sent) + Cardinality(Back)
      BY <1>3, <1>4, <1>6
    <2>2. /\ IsFiniteSet((Sent \cup Back) \cup Made)
          /\ Cardinality((Sent \cup Back) \cup Made) <= Cardinality(Sent \cup Back) + Cardinality(Made)
      BY <1>5, <1>6, <2>1
    <2>3. /\ Cardinality(Sent) \in Nat /\ Cardinality(Back) \in Nat /\ Cardinality(Made) \in Nat
          /\ Cardinality(Sent \cup Back) \in Nat /\ Cardinality((Sent \cup Back) \cup Made) \in Nat
      BY <1>3, <1>4, <1>5, <2>1, <2>2, FS_CardinalityType
    <2> QED BY <1>1, <1>3, <1>4, <1>5, <2>1, <2>2, <2>3
  <1>8. IsFiniteSet(Mids) /\ Cardinality(Mids) = a + b + c + 1
    <2>1. a + b + c + 1 \in Nat \ {0}
      BY <1>1
    <2>2. \A n \in Nat \ {0} : IsFiniteSet(1 .. n) /\ Cardinality(1 .. n) = n
      <3>1. \A n \in Nat : IsFiniteSet(1 .. n) /\ Cardinality(1 .. n) = IF 1 > n THEN 0 ELSE n - 1 + 1
        BY FS_Interval
      <3> QED BY <3>1
    <2> QED BY <2>1, <2>2 DEF Mids, a, b, c
  <1>9. ~(Mids \subseteq (Sent \cup Back) \cup Made)
    <2> SUFFICES ASSUME Mids \subseteq (Sent \cup Back) \cup Made PROVE FALSE
      OBVIOUS
    <2>1. Cardinality(Mids) <= Cardinality((Sent \cup Back) \cup Made)
      BY <1>7, FS_Subset
    <2>2. Cardinality((Sent \cup Back) \cup Made) \in Nat
      BY <1>7, FS_CardinalityType
    <2> QED BY <1>1, <1>7, <1>8, <2>1, <2>2
  <1>10. PICK m \in Mids : m \notin Sent /\ m \notin Back /\ m \notin Made
    BY <1>9
  <1>11. m \in FreeMids
    BY <1>10 DEF FreeMids, InFlight, Answered, Sent, Back, Made, a, b
  <1>12. FreeMids \subseteq Nat \ {0}
    BY <1>1 DEF FreeMids, Mids, a, b, c
  <1> QED BY <1>11, <1>12 DEF NewMid


-----------------------------------------------------------------------------
(* MQTT subscriptions: types *)

\* What a thread is doing, outside of the locks, has a topic.
LEMMA CallTopic ==
  ASSUME CallsOK, NEW a \in Actors, ~Is(a, "idle")
  PROVE  /\ doing[a].topic \in Topics
         /\ Is(a, "register") => doing[a].mid \in Nat \ {0}
  <1>1. doing[a] \in Calls
    BY DEF CallsOK
  <1> QED BY <1>1 DEF Calls, Is, Idle, Steps

LEMMA ThenType ==
  ASSUME CallsOK, NEW a \in Actors, NEW what \in Calls, Then(a, what),
         a \in Wakeups => what.at # "renew",
         a \notin Wakeups => what.at \in {"idle", "renew", "hold", "send", "register"}
  PROVE  CallsOK'
  <1>1. doing' \in [Actors -> Calls]
    BY DEF CallsOK, Then
  <1>2. \A b \in Actors : doing'[b] = IF b = a THEN what ELSE doing[b]
    BY DEF CallsOK, Then
  <1>3. \A w \in Wakeups : w \in Actors
    BY DEF Actors
  <1> QED BY <1>1, <1>2, <1>3 DEF CallsOK, Is

LEMMA StepType ==
  /\ Idle \in Calls /\ Idle.at = "idle"
  /\ \A a : \A t \in Topics, step \in Steps : /\ At(a, step, t) \in Calls
                                                 /\ At(a, step, t).at = step /\ At(a, step, t).topic = t
  BY DEF Idle, At, Calls

\* The step a call takes next.
LEMMA CallNext ==
  ASSUME CallsOK, NEW a \in Actors, NEW t \in Topics, NEW step \in Steps, Then(a, At(a, step, t)),
         a \in Wakeups => step # "renew",
         a \notin Wakeups => step \in {"renew", "hold", "send"}
  PROVE  CallsOK'
  <1>1. At(a, step, t) \in Calls /\ At(a, step, t).at = step
    BY StepType
  <1>2. Then(a, At(a, step, t))
    OBVIOUS
  <1>3. a \notin Wakeups => At(a, step, t).at \in {"idle", "renew", "hold", "send", "register"}
    BY <1>1
  <1>4. a \in Wakeups => At(a, step, t).at # "renew"
    BY <1>1
  <1> QED BY <1>1, <1>2, <1>3, <1>4, ThenType

LEMMA HeadTail ==
  ASSUME NEW S, NEW q \in Seq(S), q # <<>>
  PROVE  Head(q) \in S /\ Tail(q) \in Seq(S)
  OBVIOUS

LEMMA InitType == SessionInit => SessionTypeOK
  <1> SUFFICES ASSUME SessionInit PROVE SessionTypeOK
    OBVIOUS
  <1>1. ThreadsOK
    BY DEF SessionInit, ThreadsOK
  <1>2. CallsOK
    BY StepType DEF SessionInit, CallsOK, Is, Actors
  <1>3. RecordOK
    BY DEF SessionInit, RecordOK
  <1>4. WireOK
    BY DEF SessionInit, WireOK
  <1> QED BY <1>1, <1>2, <1>3, <1>4 DEF SessionTypeOK

LEMMA FanoutType ==
  ASSUME SessionTypeOK, NEW w \in Wakeups,
         \/ \E topics \in SUBSET Topics : Rebind(w, topics)
         \/ Close(w)
         \/ Consumer(w)
  PROVE  SessionTypeOK'
  <1> USE DEF SessionTypeOK
  <1>0. w \in Actors
    BY DEF Actors
  <1>1. CASE (\E topics \in SUBSET Topics : Rebind(w, topics)) \/ Close(w)
    <2>1. ThreadsOK'
      BY <1>1 DEF Rebind, Close, ThreadsOK, fanout
    <2>2. CallsOK' /\ RecordOK'
      BY <1>1 DEF Rebind, Close, CallsOK, RecordOK, Is, record
    <2>3. rebinds' \in Nat /\ UNCHANGED <<wire, network, drops, refusals>>
      BY <1>1 DEF Rebind, Close, WireOK
    <2>4. WireOK'
      BY <2>3 DEF WireOK, wire, network
    <2> QED BY <2>1, <2>2, <2>4
  <1>2. ASSUME NEW t \in Topics, FanoutAdd(w, t) \/ FanoutRemove(w, t) PROVE SessionTypeOK'
    <2>1. ThreadsOK'
      <3>1. CASE FanoutAdd(w, t)
        BY <3>1 DEF FanoutAdd, ThreadsOK
      <3>2. CASE FanoutRemove(w, t)
        BY <3>2 DEF FanoutRemove, ThreadsOK
      <3> QED BY <1>2, <3>1, <3>2
    <2>2. CallsOK'
      <3>1. UNCHANGED doing \/ Then(w, At(w, "callback", t)) \/ Then(w, At(w, "uncall", t))
        BY <1>2 DEF FanoutAdd, FanoutRemove
      <3>2. CASE UNCHANGED doing
        BY <3>2 DEF CallsOK, Is
      <3>3. {"callback", "uncall"} \subseteq Steps
        BY DEF Steps
      <3> QED BY <1>0, <3>1, <3>2, <3>3, CallNext
    <2>3. UNCHANGED <<record, wire, network, counters>>
      BY <1>2 DEF FanoutAdd, FanoutRemove
    <2>4. RecordOK' /\ WireOK'
      BY <2>3 DEF record, wire, network, counters, RecordOK, WireOK
    <2> QED BY <2>1, <2>2, <2>4
  <1> QED BY <1>1, <1>2 DEF Consumer

LEMMA CallType == ASSUME SessionTypeOK, NEW a \in Actors, Call(a) PROVE SessionTypeOK'
  <1> USE DEF SessionTypeOK
  <1> DEFINE t == doing[a].topic
  <1>1. ~Is(a, "idle") /\ t \in Topics
    <2>1. ~Is(a, "idle")
      BY DEF Call, CallbackAdd, Hold, SendSubscribe, Register, CallbackRemove, LetGo, SendUnsubscribe, Renew, Is
    <2> QED BY <2>1, CallTopic
  <1>2. {"callback", "hold", "send", "uncall", "let", "unsubscribe", "renew"} \subseteq Steps
    BY DEF Steps
  <1>3. a \notin Wakeups => doing[a].at \in {"idle", "renew", "hold", "send", "register"}
    BY DEF CallsOK
  <1>4. Then(a, Idle) => CallsOK'
    BY StepType, ThenType
  <1>5. CASE CallbackAdd(a)
    <2>1. CallsOK'
      <3>1. a \in Wakeups /\ Then(a, At(a, "hold", t))
        BY <1>3, <1>5 DEF CallbackAdd, Is
      <3> QED BY <1>1, <1>2, <3>1, CallNext
    <2>2. ThreadsOK' /\ RecordOK' /\ WireOK'
      BY <1>1, <1>5 DEF CallbackAdd, ThreadsOK, RecordOK, WireOK, threads, record, wire, network, counters
    <2> QED BY <2>1, <2>2
  <1>6. CASE Hold(a)
    <2>1. CallsOK'
      <3>1. Then(a, At(a, "send", t))
        BY <1>6 DEF Hold
      <3> QED BY <1>1, <1>2, <3>1, CallNext
    <2>2. ThreadsOK' /\ RecordOK' /\ WireOK'
      BY <1>1, <1>6 DEF Hold, MissIf, ThreadsOK, RecordOK, WireOK, threads, fanout, wire, network, counters
    <2> QED BY <2>1, <2>2
  <1>7. CASE SendSubscribe(a)
    <2>1. ThreadsOK' /\ RecordOK'
      BY <1>1, <1>7 DEF SendSubscribe, ThreadsOK, RecordOK, threads, fanout, record
    <2>2. NewMid \in Nat \ {0}
      BY MidFree
    <2>3. CASE up
      <3>1. /\ out' = Append(out, [op |-> "sub", topic |-> t, mid |-> NewMid])
            /\ Then(a, [at |-> "register", topic |-> t, mid |-> NewMid])
            /\ UNCHANGED <<up, acks, subs, network, counters>>
        BY <1>7, <2>3 DEF SendSubscribe
      <3>2. [op |-> "sub", topic |-> t, mid |-> NewMid] \in [op : {"sub"}, topic : Topics, mid : Nat \ {0}]
        BY <1>1, <2>2
      <3>3. WireOK'
        BY <2>3, <3>1, <3>2 DEF WireOK, network, counters
      <3>4. [at |-> "register", topic |-> t, mid |-> NewMid] \in Calls
        BY <1>1, <2>2 DEF Calls
      <3>5. CallsOK'
        BY <3>1, <3>4, ThenType
      <3> QED BY <2>1, <3>3, <3>5
    <2>4. CASE ~up
      <3>1. UNCHANGED <<out, up, acks, subs, network, counters>> /\ Then(a, Idle)
        BY <1>7, <2>4 DEF SendSubscribe
      <3>2. WireOK'
        BY <3>1 DEF WireOK, network, counters
      <3> QED BY <1>4, <2>1, <3>1, <3>2
    <2> QED BY <2>3, <2>4
  <1>8. CASE Register(a)
    <2>1. doing[a].mid \in Nat \ {0}
      BY <1>1, <1>8, CallTopic DEF Register
    <2>2. Then(a, Idle) /\ pending' \in {pending, pending \cup {<<doing[a].mid, t>>}}
          /\ UNCHANGED <<threads, fanout, held, timers, wire, network, missed, counters>>
      BY <1>8 DEF Register
    <2>3. RecordOK'
      BY <1>1, <2>1, <2>2 DEF RecordOK
    <2>4. ThreadsOK' /\ WireOK'
      BY <2>2 DEF ThreadsOK, WireOK, threads, fanout, wire, network, counters
    <2> QED BY <1>4, <2>2, <2>3, <2>4
  <1>9. CASE CallbackRemove(a)
    <2>1. CallsOK'
      <3>1. a \in Wakeups /\ Then(a, At(a, "let", t))
        BY <1>3, <1>9 DEF CallbackRemove, Is
      <3> QED BY <1>1, <1>2, <3>1, CallNext
    <2>2. ThreadsOK' /\ RecordOK' /\ WireOK'
      BY <1>9 DEF CallbackRemove, ThreadsOK, RecordOK, WireOK, threads, record, wire, network, counters
    <2> QED BY <2>1, <2>2
  <1>10. CASE LetGo(a)
    <2>1. CallsOK'
      <3>1. a \in Wakeups /\ Then(a, At(a, "unsubscribe", t))
        BY <1>3, <1>10 DEF LetGo, Is
      <3> QED BY <1>1, <1>2, <3>1, CallNext
    <2>2. ThreadsOK' /\ RecordOK' /\ WireOK'
      BY <1>10 DEF LetGo, ThreadsOK, RecordOK, WireOK, threads, fanout, wire, network, counters
    <2> QED BY <2>1, <2>2
  <1>11. CASE SendUnsubscribe(a)
    <2>1. /\ Then(a, Idle)
          /\ UNCHANGED <<threads, fanout, record, up, acks, subs, network, counters>>
          /\ out' = IF up THEN Append(out, [op |-> "unsub", topic |-> t]) ELSE out
          /\ missed' \in {missed, missed \cup {<<t, "link">>}}
      BY <1>11 DEF SendUnsubscribe, MissIf
    <2>2. [op |-> "unsub", topic |-> t] \in [op : {"unsub"}, topic : Topics]
      BY <1>1
    <2>3. WireOK'
      BY <2>1, <2>2 DEF WireOK, network, counters
    <2>4. ThreadsOK' /\ RecordOK'
      BY <1>1, <2>1 DEF ThreadsOK, RecordOK, threads, fanout, record
    <2> QED BY <1>4, <2>1, <2>3, <2>4
  <1>12. CASE Renew(a)
    <2>1. /\ Then(a, At(a, "hold", t)) \/ Then(a, Idle)
          /\ timers' = timers \ {t}
          /\ UNCHANGED <<threads, fanout, held, pending, wire, network, missed, counters>>
      BY <1>12 DEF Renew
    <2>2. CallsOK'
      BY <1>1, <1>2, <1>4, <2>1, CallNext
    <2>3. ThreadsOK' /\ RecordOK' /\ WireOK'
      BY <2>1 DEF ThreadsOK, RecordOK, WireOK, threads, fanout, wire, network, counters
    <2> QED BY <2>2, <2>3
  <1> QED BY <1>5, <1>6, <1>7, <1>8, <1>9, <1>10, <1>11, <1>12 DEF Call

LEMMA NetworkType ==
  ASSUME SessionTypeOK,
         \/ \E t \in Topics : TimerFires(t)
         \/ \E b \in BOOLEAN : LinkReturns(b) \/ Broker(b)
         \/ LinkDrops \/ Network
  PROVE  SessionTypeOK'
  <1> USE DEF SessionTypeOK
  <1>1. ASSUME NEW t \in Topics, TimerFires(t) PROVE SessionTypeOK'
    <2>1. t \in Actors /\ t \notin Wakeups /\ "renew" \in Steps
      BY SessionAssumption DEF Actors, Steps
    <2>2. CallsOK'
      BY <1>1, <2>1, CallNext DEF TimerFires
    <2>3. ThreadsOK' /\ RecordOK' /\ WireOK'
      BY <1>1 DEF TimerFires, ThreadsOK, RecordOK, WireOK, threads, fanout, record, wire, network, counters
    <2> QED BY <2>2, <2>3
  <1>2. ASSUME NEW b \in BOOLEAN, LinkReturns(b) PROVE SessionTypeOK'
    <2>1. ThreadsOK' /\ CallsOK' /\ RecordOK'
      BY <1>2 DEF LinkReturns, ThreadsOK, CallsOK, RecordOK, Is, threads, fanout, record
    <2>2. WireOK'
      BY <1>2 DEF LinkReturns, WireOK, counters
    <2> QED BY <2>1, <2>2
  <1>3. CASE LinkDrops
    <2>1. ThreadsOK'
      BY <1>3 DEF LinkDrops, Unanswered, ThreadsOK, threads, fanout
    <2>2. CallsOK' /\ RecordOK'
      BY <1>3 DEF LinkDrops, CallsOK, RecordOK, Is
    <2>3. /\ up' = FALSE /\ out' = <<>> /\ acks' = <<>> /\ drops' = drops + 1
          /\ UNCHANGED <<subs, network, rebinds, refusals>>
      BY <1>3 DEF LinkDrops
    <2>4. drops' \in Nat /\ \A S : <<>> \in Seq(S)
      BY <2>3 DEF WireOK
    <2>5. WireOK'
      BY <2>3, <2>4 DEF WireOK, network
    <2> QED BY <2>1, <2>2, <2>5
  <1>4. ASSUME NEW b \in BOOLEAN, Broker(b) PROVE SessionTypeOK'
    <2>1. ThreadsOK' /\ CallsOK' /\ RecordOK'
      BY <1>4 DEF Broker, ThreadsOK, CallsOK, RecordOK, Is, threads, fanout, record
    <2>2. /\ Head(out) \in [op : {"sub"}, topic : Topics, mid : Nat \ {0}] \cup [op : {"unsub"}, topic : Topics]
          /\ Tail(out) \in Seq([op : {"sub"}, topic : Topics, mid : Nat \ {0}] \cup [op : {"unsub"}, topic : Topics])
      BY <1>4 DEF Broker, WireOK
    <2>3. CASE Head(out).op = "unsub"
      <3>1. out' = Tail(out) /\ subs' \subseteq subs /\ up /\ UNCHANGED <<up, acks, network, counters>>
        BY <1>4, <2>3 DEF Broker, counters
      <3>2. WireOK'
        BY <2>2, <3>1 DEF WireOK, network, counters
      <3> QED BY <2>1, <3>2
    <2>4. CASE Head(out).op # "unsub"
      <3>1. Head(out) \in [op : {"sub"}, topic : Topics, mid : Nat \ {0}]
        BY <2>2, <2>4
      <3>2. [topic |-> Head(out).topic, mid |-> Head(out).mid, refused |-> b]
              \in [topic : Topics, mid : Nat \ {0}, refused : BOOLEAN]
        BY <3>1
      <3>3. /\ out' = Tail(out) /\ acks' = Append(acks, [topic |-> Head(out).topic, mid |-> Head(out).mid, refused |-> b])
            /\ subs' = IF b THEN subs ELSE subs \cup {Head(out).topic}
            /\ refusals' = IF b THEN refusals + 1 ELSE refusals
            /\ up /\ UNCHANGED <<up, network, rebinds, drops>>
        BY <1>4, <2>4 DEF Broker
      <3>4. WireOK'
        BY <2>2, <3>1, <3>2, <3>3 DEF WireOK, network
      <3> QED BY <2>1, <3>4
    <2> QED BY <2>1, <2>3, <2>4
  <1>5. CASE Restore
    <2>1. ThreadsOK' /\ CallsOK' /\ RecordOK'
      BY <1>5 DEF Restore, ThreadsOK, CallsOK, RecordOK, Is, threads, fanout, record
    <2>2. WireOK'
      BY <1>5 DEF Restore, WireOK, RecordOK, wire, counters
    <2> QED BY <2>1, <2>2
  <1>6. ASSUME NEW t \in Topics, RestoreNext(t) PROVE SessionTypeOK'
    <2>1. Net \in Actors /\ Net \notin Wakeups /\ "renew" \in Steps
      BY SessionAssumption DEF Actors, Steps
    <2>2. CallsOK'
      BY <1>6, <2>1, CallNext DEF RestoreNext
    <2>3. ThreadsOK' /\ RecordOK' /\ WireOK'
      BY <1>6 DEF RestoreNext, ThreadsOK, RecordOK, WireOK, threads, fanout, record, wire, counters
    <2> QED BY <2>2, <2>3
  <1>7. CASE Reconnected
    <2>1. ThreadsOK' /\ CallsOK' /\ RecordOK'
      BY <1>7 DEF Reconnected, ThreadsOK, CallsOK, RecordOK, Is, threads, fanout, record
    <2>2. WireOK'
      BY <1>7 DEF Reconnected, WireOK, wire, counters
    <2> QED BY <2>1, <2>2
  <1>8. CASE ReadSuback
    <2>0. acks # <<>> /\ acks \in Seq([topic : Topics, mid : Nat \ {0}, refused : BOOLEAN])
      BY <1>8 DEF ReadSuback, WireOK
    <2>1. /\ Head(acks) \in [topic : Topics, mid : Nat \ {0}, refused : BOOLEAN]
          /\ Tail(acks) \in Seq([topic : Topics, mid : Nat \ {0}, refused : BOOLEAN]) /\ acks # <<>>
      BY <2>0, HeadTail
    <2>2. ThreadsOK' /\ CallsOK'
      BY <1>8, <2>1 DEF ReadSuback, MissIf, ThreadsOK, CallsOK, Is, threads, fanout
    <2>3. RecordOK'
      BY <1>8, <2>1 DEF ReadSuback, RecordOK
    <2>4. WireOK'
      BY <1>8, <2>1 DEF ReadSuback, WireOK, network, counters
    <2> QED BY <2>2, <2>3, <2>4
  <1> QED BY <1>1, <1>2, <1>3, <1>4, <1>5, <1>6, <1>7, <1>8 DEF Network

LEMMA NextType == SessionTypeOK /\ [SessionNext]_sessionVars => SessionTypeOK'
  <1> SUFFICES ASSUME SessionTypeOK, [SessionNext]_sessionVars PROVE SessionTypeOK'
    OBVIOUS
  <1>1. CASE UNCHANGED sessionVars
    BY <1>1 DEF sessionVars, threads, fanout, record, wire, network, counters, SessionTypeOK, ThreadsOK, CallsOK, Is,
                RecordOK, WireOK
  <1> QED BY <1>1, FanoutType, CallType, NetworkType DEF SessionNext

\* Every variable keeps its type, a retry waits only for a topic the service
\* holds, and nothing is on the wire while the link is down.
THEOREM SessionTypeCorrect == SessionSpec => []SessionTypeOK
  BY InitType, NextType, PTL DEF SessionSpec


-----------------------------------------------------------------------------
(* Who works on a topic *)

\* A wake-up's thread is at one of these steps of a call for topic t.
Busy(t, steps) == \E w \in Wakeups : doing[w].at \in steps /\ doing[w].topic = t

Lost(t, why) == <<t, why>> \in missed

\* A thread that subscribes a topic holds it, and one that lets it go while
\* another took it is an overlap.
HolderInv ==
  /\ \A w \in Wakeups : doing[w].at \in {"callback", "hold", "send"} => w \in holders[doing[w].topic]
  /\ \A t \in Topics : holders[t] # {} /\ LettingGo(t) => Lost(t, "overlap")

\* Only a wake-up's thread adds a callback or lets a topic go.
LEMMA WakeupOnly ==
  ASSUME CallsOK, NEW a \in Actors, doing[a].at \in {"callback", "uncall", "let", "unsubscribe"}
  PROVE  a \in Wakeups
  BY DEF CallsOK

LEMMA LettingGoIs ==
  ASSUME CallsOK, NEW t
  PROVE  LettingGo(t) <=> Busy(t, {"uncall", "let", "unsubscribe"})
  <1>1. \A w \in Wakeups : w \in Actors
    BY DEF Actors
  <1> QED BY <1>1, WakeupOnly DEF LettingGo, Busy

LEMMA OneMoves ==
  ASSUME CallsOK, NEW a \in Actors, NEW what, Then(a, what)
  PROVE  doing'[a] = what /\ \A b \in Actors \ {a} : doing'[b] = doing[b]
  BY DEF CallsOK, Then

\* The steps of a broker call: what the thread does next, and what the call
\* leaves alone.
LEMMA CallMoves ==
  ASSUME CallsOK, NEW a \in Actors, Call(a)
  PROVE  /\ UNCHANGED <<threads, holders, network, subs, acks, up>>
         /\ missed \subseteq missed'
         /\ \A b \in Actors \ {a} : doing'[b] = doing[b]
         /\ \/ doing'[a].at \in {"idle", "register"}
            \/ /\ doing'[a].topic = doing[a].topic
               /\ \/ Is(a, "callback") /\ doing'[a].at = "hold"
                  \/ Is(a, "hold") /\ doing'[a].at = "send"
                  \/ Is(a, "uncall") /\ doing'[a].at = "let"
                  \/ Is(a, "let") /\ doing'[a].at = "unsubscribe"
                  \/ Is(a, "renew") /\ doing'[a].at = "hold"
  <1>1. CASE CallbackAdd(a) \/ CallbackRemove(a)
    BY <1>1, OneMoves DEF CallbackAdd, CallbackRemove, At, wire
  <1>2. CASE Hold(a)
    BY <1>2, OneMoves DEF Hold, MissIf, At, fanout, wire
  <1>3. CASE SendSubscribe(a)
    BY <1>3, OneMoves DEF SendSubscribe, Idle, fanout
  <1>4. CASE Register(a)
    BY <1>4, OneMoves DEF Register, Idle, fanout, wire
  <1>5. CASE LetGo(a)
    BY <1>5, OneMoves DEF LetGo, At, fanout, wire
  <1>6. CASE SendUnsubscribe(a)
    BY <1>6, OneMoves DEF SendUnsubscribe, MissIf, Idle, fanout
  <1>7. CASE Renew(a)
    BY <1>7, OneMoves DEF Renew, Idle, At, fanout, wire
  <1> QED BY <1>1, <1>2, <1>3, <1>4, <1>5, <1>6, <1>7 DEF Call

\* Taking a topic, and letting it go.
LEMMA AddMoves ==
  ASSUME SessionTypeOK, NEW w \in Wakeups, NEW t \in Topics, FanoutAdd(w, t)
  PROVE  /\ Is(w, "idle") /\ w \in holders'[t]
         /\ UNCHANGED <<callback, record, wire, network>>
         /\ \A u \in Topics : u # t => holders'[u] = holders[u] /\ \A why : Lost(u, why)' <=> Lost(u, why)
         /\ \/ /\ holders[t] = {} /\ doing'[w] = At(w, "callback", t)
               /\ \A a \in Actors \ {w} : doing'[a] = doing[a]
               /\ LettingGo(t) => Lost(t, "overlap")'
            \/ holders[t] # {} /\ UNCHANGED <<doing, missed>>
         /\ \A v \in Wakeups : v \in holders[t] => v \in holders'[t]
  <1>1. w \in Actors /\ holders' = [holders EXCEPT ![t] = @ \cup {w}] /\ holders \in [Topics -> SUBSET Wakeups]
    BY DEF FanoutAdd, SessionTypeOK, ThreadsOK, Actors
  <1>2. CASE holders[t] = {}
    <2>1. /\ Then(w, At(w, "callback", t))
          /\ missed' = {pair \in missed : pair[1] # t} \cup (IF LettingGo(t) THEN {<<t, "overlap">>} ELSE {})
      BY <1>2 DEF FanoutAdd
    <2>2. \A u \in Topics : u # t => \A why : Lost(u, why)' <=> Lost(u, why)
      BY <2>1 DEF Lost
    <2>3. LettingGo(t) => Lost(t, "overlap")'
      BY <2>1 DEF Lost
    <2>4. doing'[w] = At(w, "callback", t) /\ \A a \in Actors \ {w} : doing'[a] = doing[a]
      BY <1>1, <2>1, OneMoves DEF SessionTypeOK
    <2> QED BY <1>1, <1>2, <2>2, <2>3, <2>4 DEF FanoutAdd
  <1>3. CASE holders[t] # {}
    BY <1>1, <1>3 DEF FanoutAdd, Lost
  <1> QED BY <1>2, <1>3

LEMMA RemoveMoves ==
  ASSUME SessionTypeOK, NEW w \in Wakeups, NEW t \in Topics, FanoutRemove(w, t)
  PROVE  /\ Is(w, "idle")
         /\ UNCHANGED <<callback, record, wire, network, missed>>
         /\ \A u \in Topics : u # t => holders'[u] = holders[u]
         /\ \A v \in Wakeups \ {w} : v \in holders[t] => v \in holders'[t]
         /\ holders'[t] \subseteq holders[t]
         /\ \/ /\ holders'[t] = {} /\ doing'[w] = At(w, "uncall", t)
               /\ \A a \in Actors \ {w} : doing'[a] = doing[a]
            \/ UNCHANGED doing /\ (holders'[t] = {} <=> holders[t] = {})
  <1>1. w \in Actors /\ holders' = [holders EXCEPT ![t] = @ \ {w}] /\ holders \in [Topics -> SUBSET Wakeups]
    BY DEF FanoutRemove, SessionTypeOK, ThreadsOK, Actors
  <1>2. CASE holders[t] = {w}
    <2>1. doing'[w] = At(w, "uncall", t) /\ \A a \in Actors \ {w} : doing'[a] = doing[a]
      BY <1>1, <1>2, OneMoves DEF FanoutRemove, SessionTypeOK
    <2> QED BY <1>1, <1>2, <2>1 DEF FanoutRemove
  <1>3. CASE holders[t] # {w}
    BY <1>1, <1>3 DEF FanoutRemove
  <1> QED BY <1>2, <1>3

\* The network and the timers only start calls, to renew a topic.
LEMMA NetMoves ==
  ASSUME SessionTypeOK,
         \/ \E t \in Topics : TimerFires(t) \/ RestoreNext(t)
         \/ Restore \/ Reconnected \/ ReadSuback \/ LinkDrops
         \/ \E b \in BOOLEAN : Broker(b) \/ LinkReturns(b)
         \/ \E w \in Wakeups : Close(w) \/ \E topics \in SUBSET Topics : Rebind(w, topics)
         \/ UNCHANGED sessionVars
  PROVE  /\ UNCHANGED <<holders, callback, held>>
         /\ \A w \in Wakeups : doing'[w] = doing[w]
         /\ \A t, why : Lost(t, why) /\ why \in {"overlap", "renew"} => Lost(t, why)'
  <1>0. \A w \in Wakeups : w \in Actors /\ w # Net /\ w \notin Topics
    BY SessionAssumption DEF Actors
  <1>1. ASSUME NEW t \in Topics, TimerFires(t) \/ RestoreNext(t)
        PROVE  UNCHANGED <<holders, callback, held, missed>> /\ \A w \in Wakeups : doing'[w] = doing[w]
    <2>1. Then(t, At(t, "renew", t)) \/ Then(Net, At(Net, "renew", t))
      BY <1>1 DEF TimerFires, RestoreNext
    <2>2. t \in Actors /\ Net \in Actors
      BY DEF Actors
    <2>3. \A w \in Wakeups : doing'[w] = doing[w]
      BY <1>0, <2>1, <2>2, OneMoves DEF SessionTypeOK
    <2> QED BY <1>1, <2>3 DEF TimerFires, RestoreNext, fanout, record
  <1>2. CASE Restore \/ Reconnected \/ UNCHANGED sessionVars
    BY <1>2 DEF Restore, Reconnected, sessionVars, fanout, record, Lost
  <1>3. CASE ReadSuback \/ LinkDrops
    BY <1>3 DEF ReadSuback, LinkDrops, MissIf, fanout, Lost
  <1>4. CASE \E b \in BOOLEAN : Broker(b) \/ LinkReturns(b)
    <2>1. UNCHANGED <<holders, callback, held, doing>>
      BY <1>4 DEF Broker, LinkReturns, fanout, record
    <2>2. \A t, why : Lost(t, why) /\ why \in {"overlap", "renew"} => Lost(t, why)'
      BY <1>4 DEF Broker, LinkReturns, Lost
    <2> QED BY <2>1, <2>2
  <1>5. CASE \E w \in Wakeups : Close(w) \/ \E topics \in SUBSET Topics : Rebind(w, topics)
    BY <1>5 DEF Close, Rebind, fanout, record, Lost
  <1> QED BY <1>1, <1>2, <1>3, <1>4, <1>5 DEF Lost

LEMMA HolderNext == SessionTypeOK /\ SessionTypeOK' /\ HolderInv /\ [SessionNext]_sessionVars => HolderInv'
  <1> SUFFICES ASSUME SessionTypeOK, SessionTypeOK', HolderInv, [SessionNext]_sessionVars PROVE HolderInv'
    OBVIOUS
  <1>0. /\ \A w \in Wakeups : w \in Actors
        /\ \A t : LettingGo(t) <=> Busy(t, {"uncall", "let", "unsubscribe"})
        /\ holders \in [Topics -> SUBSET Wakeups]
    BY LettingGoIs DEF Actors, SessionTypeOK, ThreadsOK
  <1>1. ASSUME NEW w \in Wakeups, NEW t \in Topics, FanoutAdd(w, t) PROVE HolderInv'
    <2>1. CASE holders[t] # {} /\ UNCHANGED <<doing, missed>>
      <3>1. \A v \in Wakeups : doing[v].at \in {"callback", "hold", "send"} => v \in holders'[doing[v].topic]
        <4>1. \A v \in Wakeups : doing[v].at \in {"callback", "hold", "send"} => doing[v].topic \in Topics
          BY <1>0, CallTopic DEF SessionTypeOK, Is
        <4> QED BY <1>1, <4>1, AddMoves DEF HolderInv
      <3>2. \A u \in Topics : LettingGo(u)' <=> LettingGo(u)
        BY <2>1 DEF LettingGo
      <3> QED BY <1>1, <2>1, <3>1, <3>2, AddMoves DEF HolderInv, Lost
    <2>2. CASE /\ holders[t] = {} /\ doing'[w] = At(w, "callback", t)
               /\ \A a \in Actors \ {w} : doing'[a] = doing[a]
               /\ LettingGo(t) => Lost(t, "overlap")'
      <3>1. doing'[w].at = "callback" /\ doing'[w].topic = t
        BY <2>2 DEF At
      <3>2. ASSUME NEW v \in Wakeups, doing'[v].at \in {"callback", "hold", "send"}
            PROVE  v \in holders'[doing'[v].topic]
        <4>1. CASE v = w
          BY <1>1, <3>1, <4>1, AddMoves
        <4>2. CASE v # w
          <5>1. doing'[v] = doing[v] /\ v \in holders[doing[v].topic] /\ doing[v].topic \in Topics
            BY <1>0, <2>2, <3>2, <4>2, CallTopic DEF HolderInv, SessionTypeOK, Is
          <5> QED BY <1>1, <5>1, AddMoves
        <4> QED BY <4>1, <4>2
      <3>3. \A u \in Topics : LettingGo(u)' => LettingGo(u)
        BY <2>2, <3>1 DEF LettingGo
      <3> QED BY <1>1, <2>2, <3>2, <3>3, AddMoves DEF HolderInv
    <2> QED BY <1>1, <2>1, <2>2, AddMoves
  <1>2. ASSUME NEW w \in Wakeups, NEW t \in Topics, FanoutRemove(w, t) PROVE HolderInv'
    <2>1. \A v \in Wakeups : doing'[v].at \in {"callback", "hold", "send"} => doing'[v] = doing[v] /\ v # w
      <3>1. CASE UNCHANGED doing
        BY <1>2, <3>1, RemoveMoves DEF Is
      <3>2. CASE doing'[w] = At(w, "uncall", t) /\ \A a \in Actors \ {w} : doing'[a] = doing[a]
        <4>1. doing'[w].at = "uncall"
          BY <3>2 DEF At
        <4> QED BY <1>0, <3>2, <4>1
      <3> QED BY <1>2, <3>1, <3>2, RemoveMoves
    <2>2. ASSUME NEW v \in Wakeups, doing'[v].at \in {"callback", "hold", "send"}
          PROVE  v \in holders'[doing'[v].topic]
      <3>1. doing'[v] = doing[v] /\ v \in holders[doing[v].topic] /\ doing[v].topic \in Topics
        BY <1>0, <2>1, <2>2, CallTopic DEF HolderInv, SessionTypeOK, Is
      <3> QED BY <1>2, <2>1, <2>2, <3>1, RemoveMoves
    <2>3. ASSUME NEW u \in Topics, holders'[u] # {}, LettingGo(u)' PROVE Lost(u, "overlap")'
      <3>1. holders[u] # {}
        BY <1>2, <2>3, RemoveMoves
      <3>2. LettingGo(u)
        <4>1. PICK a \in Actors : doing'[a].at \in {"uncall", "let", "unsubscribe"} /\ doing'[a].topic = u
          BY <2>3 DEF LettingGo
        <4>2. doing'[a] = doing[a]
          <5>1. CASE UNCHANGED doing
            BY <5>1
          <5>2. CASE /\ holders'[t] = {} /\ doing'[w] = At(w, "uncall", t)
                     /\ \A b \in Actors \ {w} : doing'[b] = doing[b]
            <6>1. doing'[w].topic = t
              BY <5>2 DEF At
            <6> QED BY <2>3, <4>1, <5>2, <6>1
          <5> QED BY <1>2, <5>1, <5>2, RemoveMoves
        <4> QED BY <4>1, <4>2 DEF LettingGo
      <3> QED BY <1>2, <2>3, <3>1, <3>2, RemoveMoves DEF HolderInv, Lost
    <2> QED BY <2>2, <2>3 DEF HolderInv
  <1>3. ASSUME NEW a \in Actors, Call(a) PROVE HolderInv'
    <2>1. ASSUME NEW v \in Wakeups, doing'[v].at \in {"callback", "hold", "send"}
          PROVE  v \in holders'[doing'[v].topic]
      <3>1. doing[v].at \in {"callback", "hold", "send"} /\ doing'[v].topic = doing[v].topic
        BY <1>0, <1>3, <2>1, CallMoves DEF Is, SessionTypeOK, CallsOK
      <3> QED BY <1>3, <3>1, CallMoves DEF HolderInv, SessionTypeOK
    <2>2. \A u \in Topics : LettingGo(u)' => LettingGo(u)
      BY <1>3, CallMoves DEF LettingGo, Is, SessionTypeOK
    <2> QED BY <1>3, <2>1, <2>2, CallMoves DEF HolderInv, Lost, SessionTypeOK
  <1>4. ASSUME /\ UNCHANGED <<holders, callback, held>>
               /\ \A w \in Wakeups : doing'[w] = doing[w]
               /\ \A t, why : Lost(t, why) /\ why \in {"overlap", "renew"} => Lost(t, why)'
        PROVE  HolderInv'
    <2>1. \A t : LettingGo(t)' => LettingGo(t)
      <3>1. ASSUME NEW t, LettingGo(t)' PROVE LettingGo(t)
        <4>1. PICK a \in Actors : doing'[a].at \in {"uncall", "let", "unsubscribe"} /\ doing'[a].topic = t
          BY <3>1 DEF LettingGo
        <4>2. a \in Wakeups
          BY <4>1 DEF SessionTypeOK, CallsOK
        <4> QED BY <1>4, <4>1, <4>2 DEF LettingGo
      <3> QED BY <3>1
    <2> QED BY <1>4, <2>1 DEF HolderInv
  <1> QED BY <1>1, <1>2, <1>3, <1>4, NetMoves DEF SessionNext, Consumer, Network


-----------------------------------------------------------------------------
(* What the service holds *)

\* A topic that is wanted has its callback and is recorded, or its subscribe is
\* about to do both; one that is not is neither, or its unsubscribe is about to
\* see to it.
RecordAt(t) ==
  /\ holders[t] # {} => /\ t \in callback \/ Busy(t, {"callback"})
                        /\ t \in held \/ Busy(t, {"callback", "hold"})
  /\ holders[t] = {} => /\ t \notin callback \/ Busy(t, {"uncall"})
                        /\ t \notin held \/ Busy(t, {"uncall", "let"})

RecordInv == \A t \in Topics : ~Lost(t, "overlap") /\ ~Lost(t, "renew") => RecordAt(t)

\* A call goes on for its topic where it is another thread's, or elsewhere.
LEMMA BusyKept ==
  ASSUME NEW t, NEW steps, NEW a, Busy(t, steps), \A b \in Actors \ {a} : doing'[b] = doing[b],
         doing[a].at \notin steps \/ doing[a].topic # t
  PROVE  Busy(t, steps)'
  <1>1. PICK w \in Wakeups : doing[w].at \in steps /\ doing[w].topic = t
    BY DEF Busy
  <1>2. w \in Actors \ {a}
    BY <1>1 DEF Actors
  <1> QED BY <1>1, <1>2 DEF Busy

\* A step that moves none of the three.
LEMMA RecordQuiet ==
  ASSUME RecordInv, UNCHANGED <<callback, held>>, NEW t \in Topics,
         ~Lost(t, "overlap")', ~Lost(t, "renew")',
         \A why : Lost(t, why) /\ why \in {"overlap", "renew"} => Lost(t, why)',
         holders'[t] = {} <=> holders[t] = {},
         \A w \in Wakeups : \/ doing'[w] = doing[w]
                            \/ doing[w].at \notin {"callback", "hold", "uncall", "let"}
  PROVE  RecordAt(t)'
  <1>1. RecordAt(t)
    BY DEF RecordInv
  <1>2. ASSUME NEW steps, steps \subseteq {"callback", "hold", "uncall", "let"}, Busy(t, steps)
        PROVE  Busy(t, steps)'
    BY <1>2 DEF Busy
  <1>3. /\ Busy(t, {"callback"}) => Busy(t, {"callback"})'
        /\ Busy(t, {"callback", "hold"}) => Busy(t, {"callback", "hold"})'
        /\ Busy(t, {"uncall"}) => Busy(t, {"uncall"})'
        /\ Busy(t, {"uncall", "let"}) => Busy(t, {"uncall", "let"})'
    BY <1>2
  <1> QED BY <1>1, <1>3 DEF RecordAt

LEMMA RecordCall ==
  ASSUME SessionTypeOK, HolderInv, RecordInv, NEW a \in Actors, Call(a)
  PROVE  RecordInv'
  <1> DEFINE t == doing[a].topic
  <1>1. /\ UNCHANGED holders /\ missed \subseteq missed' /\ \A b \in Actors \ {a} : doing'[b] = doing[b]
        /\ \A u, why : Lost(u, why) => Lost(u, why)'
        /\ \A w \in Wakeups : w \in Actors
    BY CallMoves DEF SessionTypeOK, Lost, Actors
  <1>2. SUFFICES ASSUME NEW u \in Topics, ~Lost(u, "overlap")', ~Lost(u, "renew")' PROVE RecordAt(u)'
    BY DEF RecordInv
  <1>3. RecordAt(u)
    BY <1>1, <1>2 DEF RecordInv
  <1>4. \A steps : Busy(u, steps) /\ (u # t \/ doing[a].at \notin steps) => Busy(u, steps)'
    BY <1>1, BusyKept
  <1>5. ASSUME LettingGo(u) PROVE holders[u] = {}
    BY <1>1, <1>2, <1>5 DEF HolderInv
  <1>6. CASE u # t /\ (CallbackAdd(a) \/ Hold(a) \/ CallbackRemove(a) \/ LetGo(a))
    <2>1. (u \in callback' <=> u \in callback) /\ (u \in held' <=> u \in held)
      BY <1>6 DEF CallbackAdd, Hold, CallbackRemove, LetGo, fanout, record
    <2> QED BY <1>1, <1>3, <1>4, <1>6, <2>1 DEF RecordAt
  <1>7. CASE u = t /\ CallbackAdd(a)
    <2>1. a \in Wakeups /\ doing[a].at = "callback" /\ callback' = callback \cup {t} /\ UNCHANGED held
      BY <1>7, WakeupOnly DEF CallbackAdd, Is, record, SessionTypeOK
    <2>2. doing'[a] = At(a, "hold", t)
      BY <1>7, OneMoves DEF CallbackAdd, SessionTypeOK
    <2>3. Busy(u, {"callback", "hold"})'
      BY <1>7, <2>1, <2>2 DEF Busy, At
    <2>4. holders[u] # {}
      BY <1>7, <2>1 DEF HolderInv
    <2> QED BY <1>1, <1>7, <2>1, <2>3, <2>4 DEF RecordAt
  <1>8. CASE u = t /\ Hold(a) /\ a \in Wakeups
    <2>1. doing[a].at = "hold" /\ held' = held \cup {t} /\ UNCHANGED callback
      BY <1>8 DEF Hold, Is, fanout
    <2>2. holders[u] # {}
      BY <1>8, <2>1 DEF HolderInv
    <2>3. Busy(u, {"callback"}) => Busy(u, {"callback"})'
      BY <1>4, <2>1
    <2> QED BY <1>1, <1>3, <1>8, <2>1, <2>2, <2>3 DEF RecordAt
  <1>9. CASE u = t /\ Hold(a) /\ a \notin Wakeups
    <2>1. held' = held \cup {u} /\ UNCHANGED callback
          /\ (u \notin held => missed' = missed \cup {<<u, "renew">>})
      BY <1>9 DEF Hold, MissIf, fanout
    <2>2. held' = held
      <3>1. u \in held
        BY <1>2, <2>1 DEF Lost
      <3> QED BY <2>1, <3>1
    <2>3. \A w \in Wakeups : doing'[w] = doing[w]
      BY <1>1, <1>9
    <2> QED BY <1>1, <1>2, <2>1, <2>2, <2>3, RecordQuiet
  <1>10. CASE u = t /\ CallbackRemove(a)
    <2>1. a \in Wakeups /\ doing[a].at = "uncall" /\ callback' = callback \ {t} /\ UNCHANGED held
      BY <1>10, WakeupOnly DEF CallbackRemove, Is, record, SessionTypeOK
    <2>2. doing'[a] = At(a, "let", t)
      BY <1>10, OneMoves DEF CallbackRemove, SessionTypeOK
    <2>3. Busy(u, {"uncall", "let"})'
      BY <1>10, <2>1, <2>2 DEF Busy, At
    <2>4. holders[u] = {}
      BY <1>5, <1>10, <2>1 DEF LettingGo
    <2> QED BY <1>1, <1>10, <2>1, <2>3, <2>4 DEF RecordAt
  <1>11. CASE u = t /\ LetGo(a)
    <2>1. doing[a].at = "let" /\ held' = held \ {t} /\ UNCHANGED callback
      BY <1>11 DEF LetGo, Is, fanout
    <2>2. holders[u] = {}
      BY <1>5, <1>11, <2>1 DEF LettingGo
    <2>3. Busy(u, {"uncall"}) => Busy(u, {"uncall"})'
      BY <1>4, <2>1
    <2> QED BY <1>1, <1>3, <1>11, <2>1, <2>2, <2>3 DEF RecordAt
  <1>12. CASE SendSubscribe(a) \/ Register(a) \/ SendUnsubscribe(a) \/ Renew(a)
    <2>1. UNCHANGED <<callback, held>>
      BY <1>12 DEF SendSubscribe, Register, SendUnsubscribe, Renew, fanout, record
    <2>2. doing[a].at \notin {"callback", "hold", "uncall", "let"}
      BY <1>12 DEF SendSubscribe, Register, SendUnsubscribe, Renew, Is
    <2>3. \A w \in Wakeups : doing'[w] = doing[w] \/ doing[w].at \notin {"callback", "hold", "uncall", "let"}
      BY <1>1, <2>2
    <2> QED BY <1>1, <1>2, <2>1, <2>3, RecordQuiet
  <1> QED BY <1>6, <1>7, <1>8, <1>9, <1>10, <1>11, <1>12 DEF Call

LEMMA RecordNext ==
  SessionTypeOK /\ HolderInv /\ RecordInv /\ [SessionNext]_sessionVars => RecordInv'
  <1> SUFFICES ASSUME SessionTypeOK, HolderInv, RecordInv, [SessionNext]_sessionVars PROVE RecordInv'
    OBVIOUS
  <1>0. \A w \in Wakeups : w \in Actors
    BY DEF Actors
  <1>1. ASSUME NEW w \in Wakeups, NEW t \in Topics, FanoutAdd(w, t) PROVE RecordInv'
    <2> SUFFICES ASSUME NEW u \in Topics, ~Lost(u, "overlap")', ~Lost(u, "renew")' PROVE RecordAt(u)'
      BY DEF RecordInv
    <2>0. Is(w, "idle") /\ UNCHANGED <<callback, held>>
      BY <1>1, AddMoves DEF record
    <2>1. CASE u = t /\ holders[t] = {}
      <3>1. doing'[w] = At(w, "callback", t) /\ w \in holders'[t]
        BY <1>1, <2>1, AddMoves
      <3>2. Busy(u, {"callback"})' /\ Busy(u, {"callback", "hold"})'
        BY <2>1, <3>1 DEF Busy, At
      <3> QED BY <2>1, <3>1, <3>2 DEF RecordAt
    <2>2. CASE u = t /\ holders[t] # {}
      <3>1. UNCHANGED <<doing, missed>> /\ w \in holders'[t]
        BY <1>1, <2>2, AddMoves
      <3> QED BY <2>0, <2>2, <3>1, RecordQuiet DEF Lost
    <2>3. CASE u # t
      <3>1. holders'[u] = holders[u] /\ \A why : Lost(u, why)' <=> Lost(u, why)
        BY <1>1, <2>3, AddMoves
      <3>2. \A v \in Wakeups : doing'[v] = doing[v] \/ doing[v].at = "idle"
        BY <1>0, <1>1, <2>0, AddMoves DEF Is
      <3> QED BY <2>0, <3>1, <3>2, RecordQuiet
    <2> QED BY <2>1, <2>2, <2>3
  <1>2. ASSUME NEW w \in Wakeups, NEW t \in Topics, FanoutRemove(w, t) PROVE RecordInv'
    <2> SUFFICES ASSUME NEW u \in Topics, ~Lost(u, "overlap")', ~Lost(u, "renew")' PROVE RecordAt(u)'
      BY DEF RecordInv
    <2>0. Is(w, "idle") /\ UNCHANGED <<callback, held, missed>>
      BY <1>2, RemoveMoves DEF record
    <2>1. CASE u = t /\ holders'[t] = {} /\ doing'[w] = At(w, "uncall", t)
      <3>1. Busy(u, {"uncall"})' /\ Busy(u, {"uncall", "let"})'
        BY <2>1 DEF Busy, At
      <3> QED BY <2>1, <3>1 DEF RecordAt
    <2>2. CASE u # t \/ (UNCHANGED doing /\ (holders'[t] = {} <=> holders[t] = {}))
      <3>1. holders'[u] = {} <=> holders[u] = {}
        BY <1>2, <2>2, RemoveMoves
      <3>2. \A v \in Wakeups : doing'[v] = doing[v] \/ doing[v].at = "idle"
        BY <1>0, <1>2, <2>0, RemoveMoves DEF Is
      <3> QED BY <2>0, <3>1, <3>2, RecordQuiet DEF Lost
    <2> QED BY <1>2, <2>1, <2>2, RemoveMoves
  <1>3. ASSUME NEW a \in Actors, Call(a) PROVE RecordInv'
    BY <1>3, RecordCall
  <1>4. ASSUME /\ UNCHANGED <<holders, callback, held>>
               /\ \A w \in Wakeups : doing'[w] = doing[w]
               /\ \A t, why : Lost(t, why) /\ why \in {"overlap", "renew"} => Lost(t, why)'
        PROVE  RecordInv'
    <2> SUFFICES ASSUME NEW u \in Topics, ~Lost(u, "overlap")', ~Lost(u, "renew")' PROVE RecordAt(u)'
      BY DEF RecordInv
    <2> QED BY <1>4, RecordQuiet
  <1> QED BY <1>1, <1>2, <1>3, <1>4, NetMoves DEF SessionNext, Consumer, Network


-----------------------------------------------------------------------------
(* Packets of a topic on a queue of the wire *)

None(q, t) == \A i \in 1 .. Len(q) : q[i].topic # t

\* The last packet of topic t on q is at i.
LastAt(q, t, i) == i \in 1 .. Len(q) /\ q[i].topic = t /\ \A j \in i + 1 .. Len(q) : q[j].topic # t

LEMMA AppendOwn ==
  ASSUME NEW S, NEW q \in Seq(S), NEW e \in S, NEW t, e.topic = t
  PROVE  LastAt(Append(q, e), t, Len(q) + 1) /\ Append(q, e)[Len(q) + 1] = e
  <1>1. Len(Append(q, e)) = Len(q) + 1 /\ Append(q, e)[Len(q) + 1] = e /\ Len(q) \in Nat
    OBVIOUS
  <1> QED BY <1>1 DEF LastAt

LEMMA AppendOther ==
  ASSUME NEW S, NEW q \in Seq(S), NEW e \in S, NEW t, e.topic # t
  PROVE  /\ None(q, t) => None(Append(q, e), t)
         /\ \A i : LastAt(q, t, i) => LastAt(Append(q, e), t, i) /\ Append(q, e)[i] = q[i]
  <1>1. /\ Len(Append(q, e)) = Len(q) + 1 /\ Append(q, e)[Len(q) + 1] = e /\ Len(q) \in Nat
        /\ \A i \in 1 .. Len(q) : Append(q, e)[i] = q[i]
    OBVIOUS
  <1>2. \A j \in 1 .. Len(q) + 1 : j \in 1 .. Len(q) \/ j = Len(q) + 1
    BY <1>1
  <1>3. None(q, t) => None(Append(q, e), t)
    BY <1>1, <1>2 DEF None
  <1>4. ASSUME NEW i, LastAt(q, t, i) PROVE LastAt(Append(q, e), t, i) /\ Append(q, e)[i] = q[i]
    <2>1. i \in 1 .. Len(q) /\ q[i].topic = t /\ \A j \in i + 1 .. Len(q) : q[j].topic # t
      BY <1>4 DEF LastAt
    <2>2. ASSUME NEW j \in i + 1 .. Len(q) + 1 PROVE Append(q, e)[j].topic # t
      <3>1. CASE j = Len(q) + 1
        BY <1>1, <3>1
      <3>2. CASE j \in i + 1 .. Len(q)
        <4>1. j \in 1 .. Len(q)
          BY <1>1, <2>1, <3>2
        <4> QED BY <1>1, <2>1, <3>2, <4>1
      <3> QED BY <1>1, <2>1, <3>1, <3>2
    <2>3. i \in 1 .. Len(q) + 1
      BY <1>1, <2>1
    <2> QED BY <1>1, <2>1, <2>2, <2>3 DEF LastAt
  <1> QED BY <1>3, <1>4

LEMMA TailLast ==
  ASSUME NEW S, NEW q \in Seq(S), q # <<>>, NEW t
  PROVE  /\ None(q, t) => None(Tail(q), t) /\ Head(q).topic # t
         /\ \A i : LastAt(q, t, i) =>
              \/ i = 1 /\ q[i] = Head(q) /\ Head(q).topic = t /\ None(Tail(q), t)
              \/ LastAt(Tail(q), t, i - 1) /\ Tail(q)[i - 1] = q[i]
  <1>1. /\ Len(Tail(q)) = Len(q) - 1 /\ Len(q) \in Nat \ {0} /\ Head(q) = q[1]
        /\ \A i \in 1 .. Len(q) - 1 : Tail(q)[i] = q[i + 1]
    OBVIOUS
  <1>2. \A i \in 1 .. Len(q) - 1 : i + 1 \in 1 .. Len(q)
    BY <1>1
  <1>3. ASSUME None(q, t) PROVE None(Tail(q), t) /\ Head(q).topic # t
    <2>1. 1 \in 1 .. Len(q)
      BY <1>1
    <2> QED BY <1>1, <1>2, <1>3, <2>1 DEF None
  <1>4. ASSUME NEW i, LastAt(q, t, i)
        PROVE  \/ i = 1 /\ q[i] = Head(q) /\ Head(q).topic = t /\ None(Tail(q), t)
               \/ LastAt(Tail(q), t, i - 1) /\ Tail(q)[i - 1] = q[i]
    <2>1. i \in 1 .. Len(q) /\ q[i].topic = t /\ \A j \in i + 1 .. Len(q) : q[j].topic # t
      BY <1>4 DEF LastAt
    <2>2. ASSUME NEW j \in i .. Len(q) - 1 PROVE Tail(q)[j].topic # t
      <3>1. j \in 1 .. Len(q) - 1 /\ j + 1 \in i + 1 .. Len(q)
        BY <1>1, <2>1
      <3>2. q[j + 1].topic # t
        BY <2>1, <3>1
      <3> QED BY <1>1, <3>1, <3>2
    <2>3. CASE i = 1
      BY <1>1, <2>1, <2>2, <2>3 DEF None
    <2>4. CASE i # 1
      <3>1. i - 1 \in 1 .. Len(q) - 1 /\ (i - 1) + 1 = i
        BY <1>1, <2>1, <2>4
      <3>2. Tail(q)[i - 1] = q[i]
        BY <1>1, <3>1
      <3> QED BY <1>1, <2>1, <2>2, <3>1, <3>2 DEF LastAt
    <2> QED BY <2>3, <2>4
  <1> QED BY <1>3, <1>4

-----------------------------------------------------------------------------
(* What the broker holds *)

\* The last packet of topic t on its way to the broker is an op.
Sent(t, op) == \E i : LastAt(out, t, i) /\ out[i].op = op

\* The last SUBACK of topic t on its way back refuses it.
Refused(t) == \E i : LastAt(acks, t, i) /\ acks[i].refused

\* The network thread or a timer subscribes topic t again.
Renewing(t) == \E a \in Actors \ Wakeups : doing[a].at \in {"renew", "hold", "send"} /\ doing[a].topic = t

\* Nothing is on its way to the broker for topic t, and it is subscribed there
\* or will be: by a new session's restore, a renewal, or the retry of a refusal.
Covered(t) ==
  /\ None(out, t)
  /\ \/ t \in subs \/ connect = "fresh" \/ t \in restoring \/ Renewing(t)
     \/ Refused(t) \/ (None(acks, t) /\ t \in timers)

\* What makes a wanted topic subscribed in the end, and an unwanted one not.
WireAt(t) ==
  /\ holders[t] # {} => Busy(t, {"callback", "hold", "send"}) \/ Sent(t, "sub") \/ Covered(t)
  /\ holders[t] = {} => LettingGo(t) \/ Sent(t, "unsub") \/ (None(out, t) /\ t \notin subs)

WireInv == \A t \in Topics \ Missed : WireAt(t)

Whys == {"overlap", "link", "suback", "renew"}

LEMMA MissedIs ==
  ASSUME ThreadsOK, NEW t
  PROVE  t \in Missed <=> \E why \in Whys : Lost(t, why)
  <1>1. ASSUME t \in Missed PROVE \E why \in Whys : Lost(t, why)
    <2>1. PICK pair \in missed : pair[1] = t
      BY <1>1 DEF Missed
    <2>2. pair \in Topics \X Whys
      BY <2>1 DEF ThreadsOK, Whys
    <2>3. pair = <<t, pair[2]>> /\ pair[2] \in Whys
      BY <2>1, <2>2
    <2> QED BY <2>1, <2>3 DEF Lost
  <1>2. ASSUME NEW why \in Whys, Lost(t, why) PROVE t \in Missed
    BY <1>2 DEF Lost, Missed
  <1> QED BY <1>1, <1>2

\* A thread goes on with its call, in the same half of it, or starts one.
GoesOn(a) ==
  \/ doing'[a] = doing[a]
  \/ doing[a].at \in {"idle", "register"}
  \/ /\ doing'[a].topic = doing[a].topic
     /\ \/ {doing[a].at, doing'[a].at} \subseteq {"callback", "hold", "send", "renew"}
        \/ {doing[a].at, doing'[a].at} \subseteq {"uncall", "let", "unsubscribe"}

LEMMA GoesOnKeeps ==
  ASSUME CallsOK, CallsOK', \A a \in Actors : GoesOn(a), NEW t
  PROVE  /\ Busy(t, {"callback", "hold", "send"}) => Busy(t, {"callback", "hold", "send"})'
         /\ LettingGo(t) => LettingGo(t)'
         /\ Renewing(t) => Renewing(t)'
  <1>0. \A w \in Wakeups : w \in Actors /\ doing[w].at # "renew" /\ doing'[w].at # "renew"
    BY DEF CallsOK, Actors, Is
  <1>1. ASSUME NEW a \in Actors, GoesOn(a), doing[a].at \in {"callback", "hold", "send", "renew"}
        PROVE  doing'[a].at \in {"callback", "hold", "send", "renew"} /\ doing'[a].topic = doing[a].topic
    BY <1>1 DEF GoesOn
  <1>2. ASSUME NEW a \in Actors, GoesOn(a), doing[a].at \in {"uncall", "let", "unsubscribe"}
        PROVE  doing'[a].at \in {"uncall", "let", "unsubscribe"} /\ doing'[a].topic = doing[a].topic
    BY <1>2 DEF GoesOn
  <1>3. Busy(t, {"callback", "hold", "send"}) => Busy(t, {"callback", "hold", "send"})'
    BY <1>0, <1>1 DEF Busy
  <1>4. LettingGo(t) => LettingGo(t)'
    BY <1>2 DEF LettingGo
  <1>5. Renewing(t) => Renewing(t)'
    <2>1. \A a \in Actors \ Wakeups : doing'[a].at # "callback"
      BY DEF CallsOK
    <2> QED BY <1>1, <2>1 DEF Renewing
  <1> QED BY <1>3, <1>4, <1>5

\* A step that puts nothing on the wire and takes nothing off it.
LEMMA WireQuiet ==
  ASSUME CallsOK, CallsOK', \A a \in Actors : GoesOn(a), UNCHANGED <<out, acks, subs>>,
         NEW t, WireAt(t), holders'[t] = {} <=> holders[t] = {},
         connect = "fresh" => connect' = "fresh",
         t \in restoring => t \in restoring' \/ Renewing(t)',
         t \in timers => t \in timers' \/ Renewing(t)' \/ holders[t] = {}
  PROVE  WireAt(t)'
  <1>1. Sent(t, "sub")' = Sent(t, "sub") /\ Sent(t, "unsub")' = Sent(t, "unsub") /\ Refused(t)' = Refused(t)
    BY DEF Sent, Refused
  <1>2. holders[t] # {} /\ Covered(t) => Covered(t)'
    BY <1>1, GoesOnKeeps DEF Covered
  <1> QED BY <1>1, <1>2, GoesOnKeeps DEF WireAt


LEMMA WireCall ==
  ASSUME SessionTypeOK, SessionTypeOK', HolderInv, RecordInv, WireInv, NEW a \in Actors, Call(a)
  PROVE  WireInv'
  <1> DEFINE t == doing[a].topic
             S == [op : {"sub"}, topic : Topics, mid : Nat \ {0}] \cup [op : {"unsub"}, topic : Topics]
  <1>1. /\ UNCHANGED <<holders, connect, restoring, subs, acks, up>> /\ missed \subseteq missed'
        /\ \A b \in Actors \ {a} : doing'[b] = doing[b]
        /\ \A u, why : Lost(u, why) => Lost(u, why)'
    BY CallMoves DEF SessionTypeOK, Lost, network
  <1>2. SUFFICES ASSUME NEW u \in Topics, \A why \in Whys : ~Lost(u, why)' PROVE WireAt(u)'
    <2>1. ASSUME NEW u \in Topics, u \notin Missed' PROVE \A why \in Whys : ~Lost(u, why)'
      BY <2>1 DEF Missed, Lost
    <2> QED BY <1>2, <2>1 DEF WireInv
  <1>3. WireAt(u) /\ \A why \in Whys : ~Lost(u, why)
    BY <1>1, <1>2, MissedIs DEF WireInv, SessionTypeOK
  <1>4. ASSUME LettingGo(u) PROVE holders[u] = {}
    BY <1>3, <1>4 DEF HolderInv, Whys
  <1>5. RecordAt(u)
    BY <1>3 DEF RecordInv, Whys
  <1>6. CASE CallbackAdd(a) \/ Hold(a) \/ CallbackRemove(a) \/ Register(a)
    <2>1. UNCHANGED <<out, timers>>
      BY <1>6 DEF CallbackAdd, Hold, CallbackRemove, Register, wire, record
    <2>2. GoesOn(a)
      <3>1. CASE Register(a)
        BY <3>1 DEF Register, GoesOn, Is
      <3>2. CASE CallbackAdd(a)
        BY <3>2, OneMoves DEF CallbackAdd, GoesOn, Is, At, SessionTypeOK
      <3>3. CASE Hold(a)
        BY <3>3, OneMoves DEF Hold, GoesOn, Is, At, SessionTypeOK
      <3>4. CASE CallbackRemove(a)
        BY <3>4, OneMoves DEF CallbackRemove, GoesOn, Is, At, SessionTypeOK
      <3> QED BY <1>6, <3>1, <3>2, <3>3, <3>4
    <2>3. \A b \in Actors : GoesOn(b)
      BY <1>1, <2>2 DEF GoesOn
    <2> QED BY <1>1, <1>3, <2>1, <2>3, WireQuiet DEF SessionTypeOK
  <1>7. CASE LetGo(a)
    <2>1. doing[a].at = "let" /\ UNCHANGED out /\ timers' = timers \ {t}
      BY <1>7 DEF LetGo, Is, wire
    <2>2. GoesOn(a)
      BY <1>7, OneMoves DEF LetGo, GoesOn, Is, At, SessionTypeOK
    <2>3. \A b \in Actors : GoesOn(b)
      BY <1>1, <2>2 DEF GoesOn
    <2>4. u = t => holders[u] = {}
      BY <1>4, <2>1 DEF LettingGo
    <2> QED BY <1>1, <1>3, <2>1, <2>3, <2>4, WireQuiet DEF SessionTypeOK
  <1>8. CASE Renew(a) /\ t \in held
    <2>1. doing[a].at = "renew" /\ UNCHANGED out /\ timers' = timers \ {t} /\ doing'[a] = At(a, "hold", t)
      BY <1>8, OneMoves DEF Renew, Is, wire, SessionTypeOK
    <2>2. a \notin Wakeups
      BY <2>1 DEF SessionTypeOK, CallsOK, Is
    <2>3. u = t => Renewing(u)'
      BY <2>1, <2>2 DEF Renewing, At
    <2>4. \A b \in Actors : GoesOn(b)
      BY <1>1, <2>1 DEF GoesOn, At
    <2> QED BY <1>1, <1>3, <2>1, <2>3, <2>4, WireQuiet DEF SessionTypeOK
  <1>9. CASE Renew(a) /\ t \notin held
    <2>1. doing[a].at = "renew" /\ UNCHANGED <<out, held>> /\ timers' = timers \ {t} /\ doing'[a] = Idle
      BY <1>9, OneMoves DEF Renew, Is, wire, SessionTypeOK
    <2>2. a \notin Wakeups
      BY <2>1 DEF SessionTypeOK, CallsOK, Is
    <2>3. \A w \in Wakeups : w \in Actors /\ doing'[w] = doing[w]
      BY <1>1, <2>2 DEF Actors
    <2>4. \A steps : Busy(u, steps)' <=> Busy(u, steps)
      BY <2>3 DEF Busy
    <2>5. LettingGo(u)' <=> LettingGo(u)
      <3>1. LettingGo(u) <=> Busy(u, {"uncall", "let", "unsubscribe"})
        BY LettingGoIs DEF SessionTypeOK
      <3>2. LettingGo(u) => LettingGo(u)'
        BY <2>3, <3>1 DEF Busy, LettingGo
      <3>3. LettingGo(u)' => LettingGo(u)
        BY <1>1, <2>1 DEF LettingGo, Idle
      <3> QED BY <3>2, <3>3
    <2>6. CASE u = t
      <3>1. holders[u] # {} => Busy(u, {"callback", "hold", "send"})'
        <4>1. holders[u] # {} => Busy(u, {"callback", "hold"})
          BY <1>5, <1>9, <2>6 DEF RecordAt
        <4>2. Busy(u, {"callback", "hold"}) => Busy(u, {"callback", "hold", "send"})
          BY DEF Busy
        <4> QED BY <2>4, <4>1, <4>2
      <3>2. Sent(u, "unsub")' <=> Sent(u, "unsub")
        BY <2>1 DEF Sent
      <3> QED BY <1>1, <1>3, <2>1, <2>5, <3>1, <3>2 DEF WireAt
    <2>7. CASE u # t
      <3>1. Renewing(u) => Renewing(u)'
        BY <1>1, <2>7 DEF Renewing
      <3>2. Sent(u, "sub")' = Sent(u, "sub") /\ Sent(u, "unsub")' = Sent(u, "unsub") /\ Refused(u)' = Refused(u)
        BY <1>1, <2>1 DEF Sent, Refused
      <3>3. Covered(u) => Covered(u)'
        BY <1>1, <2>1, <2>7, <3>1, <3>2 DEF Covered
      <3> QED BY <1>1, <1>3, <2>1, <2>4, <2>5, <3>2, <3>3 DEF WireAt
    <2> QED BY <2>6, <2>7
  <1>10. ASSUME u # t, doing'[a].at \in {"idle", "register"}, UNCHANGED timers,
                NEW e \in S, e.topic = t, out' \in {out, Append(out, e)}
         PROVE  WireAt(u)'
    <2>1. \A steps : Busy(u, steps) => Busy(u, steps)'
      BY <1>1, <1>10, BusyKept
    <2>2. LettingGo(u) => LettingGo(u)'
      BY <1>1, <1>10 DEF LettingGo
    <2>3. Renewing(u) => Renewing(u)'
      BY <1>1, <1>10 DEF Renewing
    <2>4. /\ None(out, u) => None(out', u)
          /\ \A i : LastAt(out, u, i) => LastAt(out', u, i) /\ out'[i] = out[i]
      <3>1. out \in Seq(S) /\ e \in S /\ e.topic # u
        BY <1>10 DEF SessionTypeOK, WireOK
      <3> HIDE DEF S
      <3>2. /\ None(out, u) => None(Append(out, e), u)
            /\ \A i : LastAt(out, u, i) => LastAt(Append(out, e), u, i) /\ Append(out, e)[i] = out[i]
        BY <3>1, AppendOther
      <3> QED BY <1>10, <3>2
    <2>5. /\ Sent(u, "sub") => Sent(u, "sub")'
          /\ Sent(u, "unsub") => Sent(u, "unsub")'
      BY <2>4 DEF Sent
    <2>6. Refused(u)' = Refused(u)
      BY <1>1 DEF Refused
    <2>7. Covered(u) => Covered(u)'
      BY <1>1, <1>10, <2>3, <2>4, <2>6 DEF Covered
    <2> QED BY <1>1, <1>3, <2>1, <2>2, <2>4, <2>5, <2>7 DEF WireAt
  <1>11. CASE SendSubscribe(a)
    <2>1. doing[a].at = "send" /\ UNCHANGED <<held, timers>>
      BY <1>11 DEF SendSubscribe, Is, record
    <2>2. doing'[a].at \in {"idle", "register"}
      BY <1>11, OneMoves DEF SendSubscribe, Idle, SessionTypeOK
    <2>3. DEFINE e == [op |-> "sub", topic |-> t, mid |-> NewMid]
    <2>4. e \in S /\ e.topic = t /\ e.op = "sub"
      <3>1. NewMid \in Nat \ {0} /\ t \in Topics
        BY <2>1, MidFree, CallTopic DEF SessionTypeOK, Is
      <3> QED BY <3>1
    <2>5. out' \in {out, Append(out, e)} /\ (up => out' = Append(out, e))
      BY <1>11 DEF SendSubscribe
    <2>6. CASE u # t
      BY <1>10, <2>1, <2>2, <2>4, <2>5, <2>6
    <2>7. CASE u = t
      <3>1. up
        <4>1. ~up => <<u, "link">> \in missed'
          BY <1>11, <2>7 DEF SendSubscribe
        <4> QED BY <1>2, <4>1 DEF Lost, Whys
      <3>2. Sent(u, "sub")'
        <4>1. out \in Seq(S)
          BY DEF SessionTypeOK, WireOK
        <4>2. LastAt(Append(out, e), u, Len(out) + 1) /\ Append(out, e)[Len(out) + 1] = e
          BY <2>4, <2>7, <4>1, AppendOwn
        <4>3. out' = Append(out, e)
          BY <2>5, <3>1
        <4> HIDE DEF e
        <4> QED BY <2>4, <4>2, <4>3 DEF Sent
      <3>3. CASE holders[u] # {}
        BY <1>1, <3>2, <3>3 DEF WireAt
      <3>4. CASE holders[u] = {}
        <4>1. a \notin Wakeups
          BY <2>1, <2>7, <3>4 DEF HolderInv
        <4>2. u \in held
          <5>1. u \notin held => <<u, "renew">> \in missed'
            BY <1>11, <2>7, <4>1 DEF SendSubscribe
          <5> QED BY <1>2, <5>1 DEF Lost, Whys
        <4>3. PICK w \in Wakeups : doing[w].at \in {"uncall", "let"} /\ doing[w].topic = u
          BY <1>5, <3>4, <4>2 DEF RecordAt, Busy
        <4>4. w \in Actors \ {a}
          BY <4>1 DEF Actors
        <4>5. LettingGo(u)'
          BY <1>1, <4>3, <4>4 DEF LettingGo
        <4> QED BY <1>1, <3>4, <4>5 DEF WireAt
      <3> QED BY <3>3, <3>4
    <2> QED BY <2>6, <2>7
  <1>12. CASE SendUnsubscribe(a)
    <2>1. doing[a].at = "unsubscribe" /\ UNCHANGED <<held, timers>>
      BY <1>12 DEF SendUnsubscribe, Is, record
    <2>2. doing'[a].at \in {"idle", "register"}
      BY <1>12, OneMoves DEF SendUnsubscribe, Idle, SessionTypeOK
    <2>3. DEFINE e == [op |-> "unsub", topic |-> t]
    <2>4. e \in S /\ e.topic = t /\ e.op = "unsub"
      <3>1. t \in Topics
        BY <2>1, CallTopic DEF SessionTypeOK, Is
      <3> QED BY <3>1
    <2>5. out' \in {out, Append(out, e)} /\ (up => out' = Append(out, e))
      BY <1>12 DEF SendUnsubscribe
    <2>6. CASE u # t
      BY <1>10, <2>1, <2>2, <2>4, <2>5, <2>6
    <2>7. CASE u = t
      <3>1. up
        <4>1. ~up => <<u, "link">> \in missed'
          BY <1>12, <2>7 DEF SendUnsubscribe, MissIf
        <4> QED BY <1>2, <4>1 DEF Lost, Whys
      <3>2. Sent(u, "unsub")'
        <4>1. out \in Seq(S)
          BY DEF SessionTypeOK, WireOK
        <4>2. LastAt(Append(out, e), u, Len(out) + 1) /\ Append(out, e)[Len(out) + 1] = e
          BY <2>4, <2>7, <4>1, AppendOwn
        <4>3. out' = Append(out, e)
          BY <2>5, <3>1
        <4> HIDE DEF e
        <4> QED BY <2>4, <4>2, <4>3 DEF Sent
      <3>3. holders[u] = {}
        BY <1>4, <2>1, <2>7 DEF LettingGo
      <3> QED BY <1>1, <3>2, <3>3 DEF WireAt
    <2> QED BY <2>6, <2>7
  <1> QED BY <1>6, <1>7, <1>8, <1>9, <1>11, <1>12 DEF Call


LEMMA WireFanout ==
  ASSUME SessionTypeOK, SessionTypeOK', WireInv, NEW w \in Wakeups, NEW t \in Topics, FanoutAdd(w, t) \/ FanoutRemove(w, t)
  PROVE  WireInv'
  <1> SUFFICES ASSUME NEW u \in Topics, u \notin Missed' PROVE WireAt(u)'
    BY DEF WireInv
  <1>1. w \in Actors /\ Is(w, "idle") /\ UNCHANGED <<out, acks, subs, connect, restoring, timers>>
    BY AddMoves, RemoveMoves DEF Actors, wire, network, record
  <1>2. \A a \in Actors : GoesOn(a)
    BY <1>1, AddMoves, RemoveMoves DEF GoesOn, Is
  <1>3. ASSUME u \notin Missed, holders'[u] = {} <=> holders[u] = {} PROVE WireAt(u)'
    BY <1>1, <1>2, <1>3, WireQuiet DEF WireInv, SessionTypeOK
  <1>4. CASE u = t /\ FanoutAdd(w, t)
    <2>1. CASE holders[t] = {}
      <3>1. doing'[w] = At(w, "callback", t) /\ w \in holders'[t]
        BY <1>4, <2>1, AddMoves
      <3>2. Busy(u, {"callback", "hold", "send"})'
        BY <1>4, <3>1 DEF Busy, At
      <3> QED BY <1>4, <3>1, <3>2 DEF WireAt
    <2>2. CASE holders[t] # {}
      <3>1. UNCHANGED missed /\ w \in holders'[t]
        BY <1>4, <2>2, AddMoves
      <3> QED BY <1>3, <1>4, <2>2, <3>1 DEF Missed
    <2> QED BY <2>1, <2>2
  <1>5. CASE u = t /\ FanoutRemove(w, t)
    <2>1. UNCHANGED missed
      BY <1>5, RemoveMoves
    <2>2. CASE holders'[t] = {} /\ doing'[w] = At(w, "uncall", t)
      <3>1. LettingGo(u)'
        BY <1>1, <1>5, <2>2 DEF LettingGo, At
      <3> QED BY <1>5, <2>2, <3>1 DEF WireAt
    <2>3. CASE holders'[t] = {} <=> holders[t] = {}
      BY <1>3, <1>5, <2>1, <2>3 DEF Missed
    <2> QED BY <1>5, <2>2, <2>3, RemoveMoves
  <1>6. CASE u # t
    <2>1. holders'[u] = holders[u] /\ \A why : Lost(u, why)' <=> Lost(u, why)
      BY <1>6, AddMoves, RemoveMoves DEF Lost
    <2>2. u \notin Missed
      <3>1. \A why : <<u, why>> \in missed' <=> <<u, why>> \in missed
        BY <2>1 DEF Lost
      <3>2. \A why \in Whys : ~Lost(u, why)
        <4>1. \A why \in Whys : <<u, why>> \notin missed'
          BY DEF Missed
        <4> QED BY <3>1, <4>1 DEF Lost
      <3> QED BY <3>2, MissedIs DEF SessionTypeOK
    <2> QED BY <1>3, <2>1, <2>2
  <1> QED BY <1>4, <1>5, <1>6

LEMMA FirstOf ==
  ASSUME NEW M, NEW t, t \notin {pair[1] : pair \in M}
  PROVE  \A why : <<t, why>> \notin M
  <1> SUFFICES ASSUME NEW why, <<t, why>> \in M PROVE FALSE
    OBVIOUS
  <1>1. <<t, why>>[1] = t
    OBVIOUS
  <1> QED BY <1>1

\* The broker takes the first packet of the queue.
LEMMA WireBroker ==
  ASSUME SessionTypeOK, SessionTypeOK', WireInv, NEW b \in BOOLEAN, Broker(b)
  PROVE  WireInv'
  <1> DEFINE S == [op : {"sub"}, topic : Topics, mid : Nat \ {0}] \cup [op : {"unsub"}, topic : Topics]
             A == [topic : Topics, mid : Nat \ {0}, refused : BOOLEAN]
             p == Head(out)
  <1>1. /\ out \in Seq(S) /\ out # <<>> /\ out' = Tail(out) /\ acks \in Seq(A)
        /\ UNCHANGED <<threads, fanout, record, doing, network, missed>>
    BY DEF Broker, SessionTypeOK, WireOK
  <1>2. SUFFICES ASSUME NEW u \in Topics, u \notin Missed PROVE WireAt(u)'
    BY <1>1 DEF WireInv, Missed
  <1>3. WireAt(u)
    BY <1>2 DEF WireInv
  <1>4. /\ UNCHANGED <<holders, timers, connect, restoring>>
        /\ LettingGo(u)' = LettingGo(u) /\ Renewing(u)' = Renewing(u)
        /\ \A steps : Busy(u, steps)' = Busy(u, steps)
    BY <1>1 DEF fanout, record, network, LettingGo, Renewing, Busy
  <1>5. p \in S
    BY <1>1, HeadTail
  <1>6. p.op = "unsub" \/ (p.op = "sub" /\ p \in [op : {"sub"}, topic : Topics, mid : Nat \ {0}])
    BY <1>5
  <1>7. /\ p.op = "unsub" => subs' = subs \ {p.topic} /\ UNCHANGED acks
        /\ p.op = "sub" => /\ subs' = IF b THEN subs ELSE subs \cup {p.topic}
                           /\ acks' = Append(acks, [topic |-> p.topic, mid |-> p.mid, refused |-> b])
    BY DEF Broker
  <1> HIDE DEF S
  <1>8. /\ None(out, u) => None(out', u) /\ p.topic # u
        /\ \A i : LastAt(out, u, i) =>
             \/ i = 1 /\ out[i] = p /\ p.topic = u /\ None(out', u)
             \/ LastAt(out', u, i - 1) /\ out'[i - 1] = out[i]
    <2>1. /\ None(out, u) => None(Tail(out), u) /\ Head(out).topic # u
          /\ \A i : LastAt(out, u, i) =>
               \/ i = 1 /\ out[i] = Head(out) /\ Head(out).topic = u /\ None(Tail(out), u)
               \/ LastAt(Tail(out), u, i - 1) /\ Tail(out)[i - 1] = out[i]
      <3>1. out \in Seq(S) /\ out # <<>>
        BY <1>1
      <3> QED BY ONLY <3>1, TailLast
    <2> QED BY <1>1, <2>1
  <1>9. ASSUME NEW op, Sent(u, op)
        PROVE  Sent(u, op)' \/ (p.op = op /\ p.topic = u /\ None(out', u))
    <2>1. PICK i : LastAt(out, u, i) /\ out[i].op = op
      BY <1>9 DEF Sent
    <2>2. CASE i = 1 /\ out[i] = p /\ p.topic = u /\ None(out', u)
      BY <2>1, <2>2
    <2>3. CASE LastAt(out', u, i - 1) /\ out'[i - 1] = out[i]
      BY <2>1, <2>3 DEF Sent
    <2> QED BY <1>8, <2>1, <2>2, <2>3
  <1>10. ASSUME p.topic # u
         PROVE  /\ u \in subs' <=> u \in subs
                /\ Refused(u) => Refused(u)'
                /\ None(acks, u) => None(acks', u)
    <2>1. CASE p.op = "unsub"
      BY <1>7, <1>10, <2>1 DEF Refused
    <2>2. CASE p.op = "sub" /\ p \in [op : {"sub"}, topic : Topics, mid : Nat \ {0}]
      <3> DEFINE e == [topic |-> p.topic, mid |-> p.mid, refused |-> b]
      <3>1. e \in A /\ e.topic # u
        BY <1>10, <2>2
      <3>2. acks' = Append(acks, e)
        BY <1>7, <2>2
      <3> HIDE DEF A, e
      <3>3. /\ None(acks, u) => None(acks', u)
            /\ \A i : LastAt(acks, u, i) => LastAt(acks', u, i) /\ acks'[i] = acks[i]
        BY <1>1, <3>1, <3>2, AppendOther
      <3>4. u \in subs' <=> u \in subs
        BY <1>7, <1>10, <2>2
      <3> QED BY <3>3, <3>4 DEF Refused
    <2> QED BY <1>6, <2>1, <2>2
  <1>11. ASSUME p.topic = u, p.op = "sub" PROVE u \in subs' \/ Refused(u)'
    <2>1. CASE ~b
      BY <1>7, <1>11, <2>1
    <2>2. CASE b
      <3> DEFINE e == [topic |-> p.topic, mid |-> p.mid, refused |-> b]
      <3>1. e \in A /\ e.topic = u /\ e.refused
        BY <1>6, <1>11, <2>2
      <3>2. acks' = Append(acks, e)
        BY <1>7, <1>11
      <3> HIDE DEF A, e
      <3>3. LastAt(acks', u, Len(acks) + 1) /\ acks'[Len(acks) + 1] = e
        BY <1>1, <3>1, <3>2, AppendOwn
      <3> QED BY <3>1, <3>3 DEF Refused
    <2> QED BY <2>1, <2>2
  <1>12. holders[u] # {} => Busy(u, {"callback", "hold", "send"})' \/ Sent(u, "sub")' \/ Covered(u)'
    <2>1. Sent(u, "sub") => Sent(u, "sub")' \/ Covered(u)'
      BY <1>9, <1>11 DEF Covered
    <2>2. Covered(u) => Covered(u)'
      BY <1>4, <1>8, <1>10 DEF Covered
    <2> QED BY <1>3, <1>4, <2>1, <2>2 DEF WireAt
  <1>13. holders[u] = {} => LettingGo(u)' \/ Sent(u, "unsub")' \/ (None(out', u) /\ u \notin subs')
    <2>1. Sent(u, "unsub") => Sent(u, "unsub")' \/ (None(out', u) /\ u \notin subs')
      BY <1>7, <1>9
    <2>2. None(out, u) /\ u \notin subs => None(out', u) /\ u \notin subs'
      BY <1>8, <1>10
    <2> QED BY <1>3, <1>4, <2>1, <2>2 DEF WireAt
  <1> QED BY <1>4, <1>12, <1>13 DEF WireAt

\* The network thread reads the first SUBACK of the queue.
LEMMA WireSuback ==
  ASSUME SessionTypeOK, SessionTypeOK', RecordInv, WireInv, ReadSuback
  PROVE  WireInv'
  <1> DEFINE A == [topic : Topics, mid : Nat \ {0}, refused : BOOLEAN]
             ack == Head(acks)
             known == <<ack.mid, ack.topic>> \in pending
  <1>1. /\ acks \in Seq(A) /\ acks # <<>> /\ acks' = Tail(acks) /\ connect = "no"
        /\ timers' = IF ~known \/ ack.topic \notin held THEN timers
                     ELSE IF ack.refused THEN timers \cup {ack.topic} ELSE timers \ {ack.topic}
        /\ missed' = IF ack.refused /\ ~known THEN missed \cup {<<ack.topic, "suback">>} ELSE missed
        /\ UNCHANGED <<threads, fanout, held, doing, out, subs, network>>
    BY DEF ReadSuback, MissIf, SessionTypeOK, WireOK
  <1>2. SUFFICES ASSUME NEW u \in Topics, u \notin Missed' PROVE WireAt(u)'
    BY DEF WireInv
  <1>3. u \notin Missed /\ (ack.topic = u /\ ack.refused => known)
    <2>1. u \notin {pair[1] : pair \in missed'}
      BY <1>2 DEF Missed
    <2>2. missed \subseteq missed'
      BY <1>1
    <2>3. u \notin Missed
      BY <2>1, <2>2 DEF Missed
    <2>4. <<u, "suback">> \notin missed'
      BY <2>1, FirstOf
    <2> QED BY <1>1, <2>3, <2>4
  <1>4. WireAt(u)
    BY <1>3 DEF WireInv
  <1>5. /\ UNCHANGED <<holders, connect, restoring>>
        /\ LettingGo(u)' = LettingGo(u) /\ Renewing(u)' = Renewing(u) /\ None(out, u)' = None(out, u)
        /\ Sent(u, "sub")' = Sent(u, "sub") /\ Sent(u, "unsub")' = Sent(u, "unsub")
        /\ \A steps : Busy(u, steps)' = Busy(u, steps)
    BY <1>1 DEF fanout, network, LettingGo, Renewing, Busy, Sent
  <1>6. RecordAt(u)
    BY <1>3, MissedIs DEF RecordInv, Whys, SessionTypeOK
  <1> HIDE DEF A
  <1>7. /\ None(acks, u) => None(acks', u) /\ ack.topic # u
        /\ \A i : LastAt(acks, u, i) =>
             \/ i = 1 /\ acks[i] = ack /\ ack.topic = u /\ None(acks', u)
             \/ LastAt(acks', u, i - 1) /\ acks'[i - 1] = acks[i]
    <2>1. /\ None(acks, u) => None(Tail(acks), u) /\ Head(acks).topic # u
          /\ \A i : LastAt(acks, u, i) =>
               \/ i = 1 /\ acks[i] = Head(acks) /\ Head(acks).topic = u /\ None(Tail(acks), u)
               \/ LastAt(Tail(acks), u, i - 1) /\ Tail(acks)[i - 1] = acks[i]
      <3>1. acks \in Seq(A) /\ acks # <<>>
        BY <1>1
      <3> QED BY ONLY <3>1, TailLast
    <2> QED BY <1>1, <2>1
  <1>8. ASSUME Refused(u), holders[u] # {}
        PROVE  Refused(u)' \/ (None(acks', u) /\ u \in timers') \/ Busy(u, {"callback", "hold", "send"})
    <2>1. PICK i : LastAt(acks, u, i) /\ acks[i].refused
      BY <1>8 DEF Refused
    <2>2. CASE LastAt(acks', u, i - 1) /\ acks'[i - 1] = acks[i]
      BY <2>1, <2>2 DEF Refused
    <2>3. CASE i = 1 /\ acks[i] = ack /\ ack.topic = u /\ None(acks', u)
      <3>1. ack.refused /\ known
        BY <1>3, <2>1, <2>3
      <3>2. CASE u \in held
        BY <1>1, <2>3, <3>1, <3>2
      <3>3. CASE u \notin held
        BY <1>6, <1>8, <3>3 DEF RecordAt, Busy
      <3> QED BY <3>2, <3>3
    <2> QED BY <1>7, <2>1, <2>2, <2>3
  <1>9. None(acks, u) /\ u \in timers => None(acks', u) /\ u \in timers'
    BY <1>1, <1>7
  <1>10. holders[u] # {} /\ Covered(u) => Covered(u)' \/ Busy(u, {"callback", "hold", "send"})
    BY <1>1, <1>5, <1>8, <1>9 DEF Covered
  <1> QED BY <1>1, <1>4, <1>5, <1>10 DEF WireAt

LEMMA WireLink ==
  ASSUME SessionTypeOK, SessionTypeOK', RecordInv, WireInv, LinkDrops \/ \E b \in BOOLEAN : LinkReturns(b)
  PROVE  WireInv'
  <1> SUFFICES ASSUME NEW u \in Topics, u \notin Missed' PROVE WireAt(u)'
    BY DEF WireInv
  <1>0. /\ UNCHANGED <<threads, fanout, held, timers, doing, restoring>>
        /\ LettingGo(u)' = LettingGo(u) /\ Renewing(u)' = Renewing(u)
        /\ \A steps : Busy(u, steps)' = Busy(u, steps)
    <2>1. UNCHANGED <<threads, fanout, held, timers, doing, restoring>>
      BY DEF LinkDrops, LinkReturns, record, network
    <2> QED BY <2>1 DEF LettingGo, Renewing, Busy
  <1>1. CASE LinkDrops
    <2>1. /\ out' = <<>> /\ acks' = <<>> /\ UNCHANGED <<subs, network>>
          /\ missed' = missed \cup (Unanswered \X {"link"})
      BY <1>1 DEF LinkDrops
    <2>2. u \notin Missed /\ u \notin Unanswered
      <3>1. u \notin {pair[1] : pair \in missed'}
        BY DEF Missed
      <3>2. u \notin Missed
        BY <2>1, <3>1 DEF Missed
      <3>3. <<u, "link">> \notin missed'
        BY <3>1, FirstOf
      <3> QED BY <2>1, <3>2, <3>3
    <2>3. None(out', u) /\ None(acks', u)
      BY <2>1 DEF None
    <2>4. WireAt(u) /\ ~Sent(u, "sub") /\ ~Sent(u, "unsub") /\ ~Refused(u)
      BY <2>2 DEF WireInv, Unanswered, Sent, Refused, LastAt
    <2>5. Covered(u) => Covered(u)'
      BY <1>0, <2>1, <2>3, <2>4 DEF Covered, network
    <2> QED BY <1>0, <2>1, <2>3, <2>4, <2>5 DEF WireAt, fanout
  <1>2. CASE LinkReturns(TRUE)
    <2>1. UNCHANGED <<out, acks, subs, missed>> /\ connect = "no"
      BY <1>2 DEF LinkReturns
    <2>2. \A a \in Actors : GoesOn(a)
      BY <1>0 DEF GoesOn
    <2> QED BY <1>0, <2>1, <2>2, WireQuiet DEF WireInv, Missed, SessionTypeOK, fanout
  <1>3. CASE LinkReturns(FALSE)
    <2>1. /\ ~up /\ connect' = "fresh" /\ subs' = {} /\ UNCHANGED out
          /\ out = <<>>
      BY <1>3 DEF LinkReturns, SessionTypeOK, WireOK
    <2>2. None(out', u)
      BY <2>1 DEF None
    <2>3. Covered(u)'
      BY <2>1, <2>2 DEF Covered
    <2> QED BY <2>1, <2>2, <2>3 DEF WireAt
  <1> QED BY <1>1, <1>2, <1>3

LEMMA WireNetwork ==
  ASSUME SessionTypeOK, SessionTypeOK', RecordInv, WireInv,
         \/ \E t \in Topics : TimerFires(t) \/ RestoreNext(t)
         \/ Restore \/ Reconnected
         \/ \E w \in Wakeups : Close(w) \/ \E topics \in SUBSET Topics : Rebind(w, topics)
         \/ UNCHANGED sessionVars
  PROVE  WireInv'
  <1>0. UNCHANGED <<holders, out, acks, subs, missed, held>>
    BY DEF TimerFires, RestoreNext, Restore, Reconnected, Close, Rebind, sessionVars, fanout, wire, record
  <1>1. SUFFICES ASSUME NEW u \in Topics, u \notin Missed PROVE WireAt(u)'
    BY <1>0 DEF WireInv, Missed
  <1>2. WireAt(u)
    BY <1>1 DEF WireInv
  <1>3. ASSUME NEW t \in Topics, TimerFires(t) PROVE WireAt(u)'
    <2>1. t \in Actors /\ Then(t, At(t, "renew", t)) /\ Is(t, "idle") /\ UNCHANGED <<network, timers>>
      BY <1>3 DEF TimerFires, Actors, record
    <2>2. \A a \in Actors : GoesOn(a)
      BY <2>1, OneMoves DEF GoesOn, Is, SessionTypeOK
    <2> QED BY <1>0, <1>2, <2>1, <2>2, WireQuiet DEF SessionTypeOK, network
  <1>4. ASSUME NEW t \in Topics, RestoreNext(t) PROVE WireAt(u)'
    <2>1. /\ Net \in Actors \ Wakeups /\ Then(Net, At(Net, "renew", t)) /\ Is(Net, "idle")
          /\ UNCHANGED <<connect, timers>> /\ restoring' = restoring \ {t}
      BY <1>4, SessionAssumption DEF RestoreNext, Actors, record
    <2>2. \A a \in Actors : GoesOn(a)
      BY <2>1, OneMoves DEF GoesOn, Is, SessionTypeOK
    <2>3. Renewing(t)'
      <3>1. doing'[Net] = At(Net, "renew", t)
        BY <2>1, OneMoves DEF SessionTypeOK
      <3> QED BY <2>1, <3>1 DEF Renewing, At
    <2> QED BY <1>0, <1>2, <2>1, <2>2, <2>3, WireQuiet DEF SessionTypeOK
  <1>5. CASE Restore
    <2>1. connect = "fresh" /\ restoring' = held /\ UNCHANGED <<doing, timers>>
      BY <1>5 DEF Restore, record
    <2>2. /\ LettingGo(u)' = LettingGo(u) /\ Renewing(u)' = Renewing(u)
          /\ Sent(u, "sub")' = Sent(u, "sub") /\ Sent(u, "unsub")' = Sent(u, "unsub")
          /\ \A steps : Busy(u, steps)' = Busy(u, steps)
      BY <1>0, <2>1 DEF LettingGo, Renewing, Busy, Sent
    <2>3. holders[u] # {} /\ Covered(u) => Covered(u)' \/ Busy(u, {"callback", "hold", "send"})
      <3>1. CASE u \in held
        BY <1>0, <2>1, <3>1 DEF Covered
      <3>2. CASE u \notin held
        <4>1. RecordAt(u)
          BY <1>1, MissedIs DEF RecordInv, Whys, SessionTypeOK
        <4> QED BY <3>2, <4>1 DEF RecordAt, Busy
      <3> QED BY <3>1, <3>2
    <2> QED BY <1>0, <1>2, <2>2, <2>3 DEF WireAt
  <1>6. CASE Reconnected \/ UNCHANGED sessionVars
            \/ \E w \in Wakeups : Close(w) \/ \E topics \in SUBSET Topics : Rebind(w, topics)
    <2>1. UNCHANGED <<doing, timers, restoring>> /\ (connect = "fresh" => connect' = "fresh")
      BY <1>6 DEF Reconnected, Close, Rebind, sessionVars, record, network
    <2>2. \A a \in Actors : GoesOn(a)
      BY <2>1 DEF GoesOn
    <2> QED BY <1>0, <1>2, <2>1, <2>2, WireQuiet DEF SessionTypeOK
  <1> QED BY <1>3, <1>4, <1>5, <1>6

LEMMA WireNext ==
  SessionTypeOK /\ SessionTypeOK' /\ HolderInv /\ RecordInv /\ WireInv /\ [SessionNext]_sessionVars => WireInv'
  BY WireFanout, WireCall, WireBroker, WireSuback, WireLink, WireNetwork DEF SessionNext, Consumer, Network

LEMMA SessionInvariant == SessionSpec => [](SessionTypeOK /\ HolderInv /\ RecordInv /\ WireInv)
  <1>1. SessionInit => HolderInv /\ RecordInv /\ WireInv
    <2> SUFFICES ASSUME SessionInit PROVE HolderInv /\ RecordInv /\ WireInv
      OBVIOUS
    <2>1. /\ \A a \in Actors : doing[a].at = "idle"
          /\ \A w \in Wakeups : w \in Actors
          /\ \A t \in Topics : holders[t] = {}
      BY StepType DEF SessionInit, Actors
    <2>2. HolderInv
      BY <2>1 DEF HolderInv
    <2>3. RecordInv
      BY <2>1 DEF SessionInit, RecordInv, RecordAt
    <2>4. WireInv
      BY <2>1 DEF SessionInit, WireInv, WireAt, None
    <2> QED BY <2>2, <2>3, <2>4
  <1>2. SessionTypeOK /\ SessionTypeOK' /\ HolderInv /\ RecordInv /\ WireInv /\ [SessionNext]_sessionVars
          => (HolderInv /\ RecordInv /\ WireInv)'
    BY HolderNext, RecordNext, WireNext
  <1> QED BY <1>1, <1>2, SessionTypeCorrect, PTL DEF SessionSpec

\* Once nothing is under way for a topic, it has a callback, is recorded and is
\* subscribed at the broker exactly if a wake-up wants it, whatever threads did
\* together and whatever was refused, lost, restored or retried meanwhile, unless
\* it was missed in one of the four ways the code leaves open.
THEOREM SettledCorrect == SessionSpec => []Settled
  <1>1. SessionTypeOK /\ HolderInv /\ RecordInv /\ WireInv => Settled
    <2> SUFFICES ASSUME SessionTypeOK, RecordInv, WireInv, NEW t \in Topics, Resting(t), t \notin Missed
                 PROVE  /\ t \in callback <=> holders[t] # {}
                        /\ t \in held <=> holders[t] # {}
                        /\ t \in subs <=> holders[t] # {}
      BY DEF Settled
    <2>1. RecordAt(t) /\ WireAt(t)
      BY MissedIs DEF RecordInv, WireInv, Whys, SessionTypeOK
    <2>2. \A a \in Actors : doing[a].at = "idle" \/ doing[a].topic # t
      BY DEF Resting, Is
    <2>3. \A steps : "idle" \notin steps => ~Busy(t, steps)
      BY <2>2 DEF Busy, Actors
    <2>4. ~LettingGo(t) /\ ~Renewing(t)
      BY <2>2 DEF LettingGo, Renewing
    <2>5. (\A op : ~Sent(t, op)) /\ ~Refused(t)
      BY DEF Resting, Sent, Refused, LastAt
    <2>6. connect # "fresh" /\ t \notin timers
      BY DEF Resting
    <2>7. t \notin restoring
      BY DEF Resting, SessionTypeOK, WireOK
    <2>8. /\ ~Busy(t, {"callback"}) /\ ~Busy(t, {"callback", "hold"}) /\ ~Busy(t, {"uncall"})
          /\ ~Busy(t, {"uncall", "let"}) /\ ~Busy(t, {"callback", "hold", "send"})
      BY <2>3
    <2> QED BY <2>1, <2>4, <2>5, <2>6, <2>7, <2>8 DEF RecordAt, WireAt, Covered
  <1> QED BY <1>1, SessionInvariant, PTL

=============================================================================
