------------------------ MODULE CommandExecutorProofs ------------------------
(***************************************************************************)
(* Proofs about CommandExecutor, for every set of commands, every page     *)
(* size and any number of sends, restarts and lost answers.                *)
(***************************************************************************)
EXTENDS CommandExecutor, FiniteSetTheorems, TLAPS

\* Nothing is noted as answered that was not noted before or found now.
LEMMA RememberedBound ==
    ASSUME NEW old, NEW new, NEW kept \in Remembered(old, new)
    PROVE  kept \subseteq old \cup new
  BY DEF Remembered

\* Only tracked commands are answered.
LEMMA AnsweredInTracked ==
    ASSUME log \in Seq(Records), NEW lo \in Nat \ {0}, NEW hi \in Int, hi <= Len(log)
    PROVE  AnsweredIn(lo, hi) \subseteq Tracked
  <1> SUFFICES ASSUME NEW i \in lo .. hi, log[i].kind = "answer"
               PROVE  log[i].id \in Tracked
    BY DEF AnsweredIn
  <1>1. log[i] \in Records
    OBVIOUS
  <1> QED BY <1>1 DEF Records

\* Appending leaves the offsets that were there.
LEMMA AppendKeeps ==
    ASSUME log \in Seq(Records), NEW r \in Records, log' = Append(log, r)
    PROVE  /\ log' \in Seq(Records)
           /\ Len(log') = Len(log) + 1
           /\ \A i \in 1 .. Len(log) : log'[i] = log[i]
           /\ log'[Len(log) + 1] = r
  OBVIOUS

LEMMA PageEndBound ==
    ASSUME TypeOK
    PROVE  PageEnd \in cursor + 1 .. Len(log) + 1
  BY LimitAssumption DEF TypeOK, StoreOK, PageEnd

\* The states of a ledger entry.
LEMMA EntryStates ==
    /\ Absent \in States /\ Started \in States
    /\ Absent \in OpStates /\ Started \in OpStates
    /\ \A x \in Codes : Held(x) \in States
    /\ \A c \in Commands, x \in Codes : Held(OpEntry(Material[c], x)) \in OpStates
  BY DEF States, OpStates

\* A scan that read k full pages stays in the stream.
LEMMA ScanBound ==
    ASSUME NEW n \in Nat, NEW from \in 1 .. n + 1, NEW k \in 0 .. (n + 1 - from) \div PageSize
    PROVE  k * PageSize <= n + 1 - from /\ k * PageSize \in Nat
  <1> DEFINE m == n + 1 - from
  <1>1. m \in Nat /\ PageSize \in Nat \ {0} /\ k \in Nat
    BY LimitAssumption
  <1>2. k <= m \div PageSize /\ m \div PageSize \in Nat
    BY <1>1
  <1>3. (m \div PageSize) * PageSize <= m
    BY <1>1
  <1> QED BY <1>1, <1>2, <1>3

\* No page.
LEMMA NoPageType ==
    /\ NoPage \in [from : Nat \ {0}, next : Nat]
    /\ NoPage.from = 1 /\ NoPage.next = 1
  BY DEF NoPage

LEMMA BusyStates ==
    /\ "idle" \notin Busy /\ "fetch" \notin Busy /\ "record" \notin Busy
    /\ "ok" \in Codes /\ Outcomes \subseteq Codes
  BY DEF Busy, Codes, Outcomes

\* At the command handle() works on.
LEMMA CurrentCommand ==
    ASSUME TypeOK, idx < page.next
    PROVE  /\ idx \in 1 .. Len(log)
           /\ log[idx] \in Records
           /\ Current \in Commands
  <1>1. idx \in 1 .. Len(log)
    BY DEF TypeOK, StoreOK, DrainOK
  <1>2. log[idx] \in Records
    BY <1>1 DEF TypeOK, StoreOK
  <1> QED BY <1>1, <1>2, CommandAssumption DEF Records, Current

-----------------------------------------------------------------------------
(* Type correctness *)

LEMMA InitType == Init => TypeOK
  <1> SUFFICES ASSUME Init PROVE TypeOK
    OBVIOUS
  <1>1. StoreOK
    BY EntryStates, CommandAssumption DEF Init, StoreOK
  <1>2. DrainOK
    <2>1. pc \in {"idle", "fetch", "record"} \cup Busy BY DEF Init
    <2>2. head \in 0 .. Len(log) BY DEF Init
    <2>3. page \in [from : Nat \ {0}, next : Nat] BY NoPageType DEF Init
    <2>4. page.next \in page.from .. Len(log) + 1 BY NoPageType DEF Init
    <2>5. idx \in page.from .. page.next BY NoPageType DEF Init
    <2>6. ahead \in BOOLEAN /\ code \in Codes BY BusyStates DEF Init
    <2>7. pc \notin Busy BY BusyStates DEF Init
    <2>8. pc = "idle" BY BusyStates DEF Init
    <2> HIDE DEF Init
    <2> QED BY <2>1, <2>2, <2>3, <2>4, <2>5, <2>6, <2>7, <2>8 DEF DrainOK, Busy
  <1> QED BY <1>1, <1>2 DEF TypeOK

\* The end of a drain leaves no page behind.
LEMMA EndDrainType ==
    ASSUME TypeOK, EndDrain, UNCHANGED log
    PROVE  DrainOK'
  <1>1. Len(log) \in Nat
    BY DEF TypeOK, StoreOK
  <1>2. /\ pc' = "idle" /\ page' = NoPage /\ idx' = 1 /\ head' = 0
        /\ ahead' = FALSE /\ code' = "ok"
    BY DEF EndDrain, NoLocals
  <1>3. /\ head' \in 0 .. Len(log) /\ page' \in [from : Nat \ {0}, next : Nat]
        /\ page'.next \in page'.from .. Len(log) + 1 /\ idx' \in page'.from .. page'.next
    BY <1>1, <1>2, NoPageType
  <1> QED BY <1>2, <1>3, BusyStates DEF DrainOK

\* The next record of the page stays within it.
LEMMA NextRecordType ==
    ASSUME TypeOK, NextRecord, idx < page.next, pc = "record" \/ pc \in Busy,
           Len(log') \in Nat, Len(log') >= Len(log), UNCHANGED <<cursor, drain>>
    PROVE  DrainOK'
  BY BusyStates DEF TypeOK, StoreOK, DrainOK, NextRecord, drain

LEMMA WorldType == TypeOK /\ World => TypeOK'
  <1> SUFFICES ASSUME TypeOK, World PROVE TypeOK'
    OBVIOUS
  <1> USE DEF TypeOK
  <1>1. ASSUME NEW c \in Commands, Submit(c) PROVE TypeOK'
    <2> DEFINE r == [kind |-> "command", id |-> c]
    <2>1. r \in Records
      BY DEF Records
    <2>2. /\ log' \in Seq(Records) /\ Len(log') = Len(log) + 1
          /\ \A i \in 1 .. Len(log) : log'[i] = log[i]
      BY <1>1, <2>1, AppendKeeps DEF Submit, StoreOK
    <2>3. StoreOK'
      BY <1>1, <2>2 DEF Submit, StoreOK, world
    <2>4. DrainOK'
      BY <1>1, <2>2 DEF Submit, StoreOK, DrainOK, Current, drain
    <2> QED BY <2>3, <2>4
  <1>2. ASSUME NEW c \in Commands, Progress(c) PROVE TypeOK'
    <2> DEFINE r == [kind |-> "progress", id |-> c]
    <2>1. r \in Records
      BY DEF Records
    <2>2. /\ log' \in Seq(Records) /\ Len(log') = Len(log) + 1
          /\ \A i \in 1 .. Len(log) : log'[i] = log[i]
      BY <1>2, <2>1, AppendKeeps DEF Progress, StoreOK
    <2>3. StoreOK'
      BY <1>2, <2>2 DEF Progress, StoreOK, world
    <2>4. DrainOK'
      BY <1>2, <2>2 DEF Progress, StoreOK, DrainOK, Current, drain
    <2> QED BY <2>3, <2>4
  <1>3. ASSUME NEW c \in Commands, Expire(c) PROVE TypeOK'
    BY <1>3 DEF Expire, StoreOK, DrainOK, Current, durable, drain
  <1>4. CASE LinkDown
    BY <1>4 DEF LinkDown, StoreOK, DrainOK, Current, durable, drain
  <1>5. CASE LinkUp
    <2>1. StoreOK'
      BY <1>5 DEF LinkUp, StoreOK, durable
    <2>2. Current' = Current /\ UNCHANGED <<log, cursor, head, page, idx, ahead, code>>
      BY <1>5 DEF LinkUp, Current, durable, drain
    <2>3. ASSUME pc # "await" PROVE DrainOK'
      BY <1>5, <2>2, <2>3 DEF LinkUp, DrainOK
    <2>4. ASSUME pc = "await" PROVE DrainOK'
      <3>1. pc' = "resume"
        BY <1>5, <2>4 DEF LinkUp
      <3> QED BY <2>2, <2>4, <3>1 DEF DrainOK, Busy
    <2> QED BY <2>1, <2>3, <2>4
  <1>6. CASE Restart
    <2>1. StoreOK'
      BY <1>6, EntryStates DEF Restart, StoreOK
    <2>2. DrainOK'
      BY <1>6, EndDrainType DEF Restart
    <2> QED BY <2>1, <2>2
  <1> QED BY <1>1, <1>2, <1>3, <1>4, <1>5, <1>6 DEF World

LEMMA DrainType ==
    ASSUME TypeOK, ReadHead \/ FetchPage \/ FetchNothing \/ AckPage \/ AckAnswerLost \/ HttpFails
    PROVE  TypeOK'
  <1> USE DEF TypeOK
  <1>1. CASE ReadHead
    BY <1>1, BusyStates DEF ReadHead, StoreOK, DrainOK, Current, durable, world
  <1>2. CASE FetchPage
    <2>1. PageEnd \in cursor + 1 .. Len(log) + 1 /\ PageEnd > cursor + 1
      BY <1>2, PageEndBound DEF FetchPage
    <2>2. /\ pc' = "record" /\ page' = [from |-> cursor + 1, next |-> PageEnd]
          /\ idx' = cursor + 1 /\ ahead' = FALSE
          /\ UNCHANGED <<durable, scannedTo, head, code, world, runs>>
      BY <1>2 DEF FetchPage
    <2>3. answered' \subseteq Tracked
      <3>1. AnsweredIn(cursor + 1, PageEnd - 1) \subseteq Tracked
        BY <2>1, AnsweredInTracked DEF StoreOK
      <3> QED BY <1>2, <3>1, RememberedBound DEF FetchPage, StoreOK
    <2>4. StoreOK'
      BY <2>2, <2>3 DEF StoreOK, durable, world
    <2>5. DrainOK'
      <3>1. cursor \in Nat /\ Len(log) \in Nat /\ log' = log /\ cursor' = cursor
        BY <2>2 DEF StoreOK, durable
      <3>2. /\ page' \in [from : Nat \ {0}, next : Nat]
            /\ page'.from = cursor + 1 /\ page'.next = PageEnd
        BY <2>1, <2>2, <3>1
      <3>3. /\ page'.next \in page'.from .. Len(log) + 1
            /\ idx' \in page'.from .. page'.next
        BY <2>1, <2>2, <3>1, <3>2
      <3>4. head' \in 0 .. Len(log) /\ code' \in Codes
        BY <2>2 DEF DrainOK
      <3> QED BY <2>2, <3>1, <3>2, <3>3, <3>4, BusyStates DEF DrainOK
    <2> QED BY <2>4, <2>5
  <1>3. CASE FetchNothing
    BY <1>3, EndDrainType DEF FetchNothing, StoreOK, durable, world
  <1>4. ASSUME pc = "record", idx = page.next, cursor' = AckOffset
        PROVE  cursor' \in 0 .. Len(log)
    BY <1>4 DEF StoreOK, DrainOK, AckOffset
  <1>5. CASE AckPage
    <2>1. StoreOK'
      BY <1>4, <1>5 DEF AckPage, StoreOK, world
    <2>2. CASE EndDrain
      BY <1>5, <2>1, <2>2, EndDrainType DEF AckPage
    <2>3. CASE ~EndDrain
      <3>1. /\ pc' = "fetch" /\ page' = NoPage /\ idx' = 1 /\ ahead' = FALSE /\ code' = "ok"
            /\ UNCHANGED <<log, head>>
        BY <1>5, <2>3 DEF AckPage, NoLocals
      <3>2. /\ page' \in [from : Nat \ {0}, next : Nat]
            /\ page'.next \in page'.from .. Len(log) + 1 /\ idx' \in page'.from .. page'.next
        BY <3>1, NoPageType DEF StoreOK
      <3> QED BY <2>1, <3>1, <3>2, BusyStates DEF DrainOK
    <2> QED BY <2>2, <2>3
  <1>6. CASE AckAnswerLost
    <2>1. StoreOK'
      BY <1>4, <1>6 DEF AckAnswerLost, StoreOK, world
    <2> QED BY <1>6, <2>1, EndDrainType DEF AckAnswerLost
  <1>7. CASE HttpFails
    <2>1. EndDrain /\ UNCHANGED <<durable, world, runs>>
      BY <1>7 DEF HttpFails
    <2>2. answered' \subseteq Tracked /\ scannedTo' \in 0 .. Len(log) + 1
      <3>1. CASE UNCHANGED <<answered, scannedTo>>
        BY <3>1 DEF StoreOK
      <3>2. ASSUME NEW k \in 0 .. (Len(log) + 1 - ScanFrom) \div PageSize,
                   answered' \in Remembered(answered, AnsweredIn(ScanFrom, ScanFrom + k * PageSize - 1)),
                   scannedTo' = IF k = 0 THEN scannedTo ELSE ScanFrom + k * PageSize
            PROVE  answered' \subseteq Tracked /\ scannedTo' \in 0 .. Len(log) + 1
        <4>1. ScanFrom \in 1 .. Len(log) + 1
          BY DEF StoreOK, DrainOK, ScanFrom
        <4>2. k * PageSize <= Len(log) + 1 - ScanFrom /\ k * PageSize \in Nat
          <5>1. Len(log) \in Nat
            BY DEF StoreOK
          <5> QED BY <4>1, <5>1, ScanBound, Zenon
        <4>3. AnsweredIn(ScanFrom, ScanFrom + k * PageSize - 1) \subseteq Tracked
          BY <4>1, <4>2, AnsweredInTracked DEF StoreOK
        <4>4. answered' \subseteq Tracked
          BY <3>2, <4>3, RememberedBound DEF StoreOK
        <4> QED BY <3>2, <4>1, <4>2, <4>4 DEF StoreOK
      <3> QED BY <1>7, <3>1, <3>2 DEF HttpFails
    <2>3. StoreOK'
      BY <2>1, <2>2 DEF StoreOK, durable, world
    <2> QED BY <2>1, <2>3, EndDrainType DEF durable
  <1> QED BY <1>1, <1>2, <1>3, <1>5, <1>6, <1>7

\* The steps of handle() but the two that publish.
LEMMA HandleType == TypeOK /\ Handle => TypeOK'
  <1> SUFFICES ASSUME TypeOK, Handle PROVE TypeOK'
    OBVIOUS
  <1> USE DEF TypeOK
  <1>c. idx < page.next => Current \in Commands
    BY CurrentCommand
  <1>1. CASE ScanAhead
    <2>1. ScanFrom \in 1 .. Len(log) + 1
      BY DEF StoreOK, DrainOK, ScanFrom
    <2>2. AnsweredIn(ScanFrom, Len(log)) \subseteq Tracked
      BY <2>1, AnsweredInTracked DEF StoreOK
    <2>3. answered' \subseteq Tracked
      BY <1>1, <2>2, RememberedBound DEF ScanAhead, StoreOK
    <2>4. StoreOK'
      BY <1>1, <2>3 DEF ScanAhead, StoreOK, durable, world
    <2> QED BY <1>1, <2>4 DEF ScanAhead, DrainOK, Current, durable
  <1>2. CASE Skip
    <2>1. StoreOK'
      BY <1>2 DEF Skip, StoreOK, durable, world
    <2> QED BY <1>2, <2>1, NextRecordType DEF Skip, Handling, StoreOK, durable
  <1>3. CASE AnswerUnknown
    <2>1. Held("unknown") \in States /\ "unknown" \in Codes
      BY EntryStates DEF Codes, Outcomes
    <2>2. StoreOK'
      BY <1>3, <2>1 DEF AnswerUnknown, StoreOK, world
    <2> QED BY <1>3, <2>1, <2>2 DEF AnswerUnknown, Taking, Handling, DrainOK, Busy, Current, drain
  <1>4. CASE AnswerAgain
    <2>1. StoreOK'
      BY <1>4 DEF AnswerAgain, StoreOK, durable, world
    <2>2. ledger[Current].answer \in Codes
      <3>1. ledger[Current] \in States /\ ledger[Current].state = "answered"
        BY <1>4 DEF AnswerAgain, StoreOK
      <3> QED BY <3>1 DEF States, Held, Absent, Started
    <2> QED BY <1>4, <2>1, <2>2
            DEF AnswerAgain, Taking, Handling, DrainOK, Busy, Current, drain, durable
  <1>5. CASE RefuseEnvelope
    <2>1. "invalid" \in Codes
      BY DEF Codes
    <2> QED BY <1>5, <2>1
            DEF RefuseEnvelope, Fresh, Taking, Handling, StoreOK, DrainOK, Busy, Current, drain, durable, world
  <1>6. CASE Replay
    <2>1. Current \in Commands /\ Op[Current] \in Ops /\ "unknown" \in Codes /\ "conflict" \in Codes
      BY <1>6, <1>c DEF Replay, Fresh, Taking, Handling, Ops, Codes, Outcomes
    <2>2. opLedger[Op[Current]] \in OpStates /\ opLedger[Op[Current]] # Absent
      BY <1>6, <2>1 DEF Replay, StoreOK
    <2>3. opLedger[Op[Current]] # Started => opLedger[Op[Current]].answer.code \in Codes
      <3>1. SUFFICES ASSUME opLedger[Op[Current]] # Started
                     PROVE  opLedger[Op[Current]].answer.code \in Codes
        OBVIOUS
      <3>2. PICK c \in Commands, x \in Codes : opLedger[Op[Current]] = Held(OpEntry(Material[c], x))
        BY <2>2, <3>1 DEF OpStates
      <3> QED BY <3>2 DEF Held, OpEntry
    <2>4. Held(OpEntry(Material[Current], "unknown")) \in OpStates
      BY <2>1, EntryStates
    <2>5. StoreOK'
      BY <1>6, <2>4 DEF Replay, StoreOK, world
    <2>6. code' \in Codes
      BY <1>6, <2>1, <2>3 DEF Replay
    <2> QED BY <1>6, <2>5, <2>6
            DEF Replay, Fresh, Taking, Handling, DrainOK, Busy, Current, drain
  <1>7. CASE RefuseExpired
    <2>1. "expired" \in Codes
      BY DEF Codes
    <2> QED BY <1>7, <2>1
            DEF RefuseExpired, New, Fresh, Taking, Handling, StoreOK, DrainOK, Busy, Current, drain, durable, world
  <1>8. CASE AwaitLink
    BY <1>8 DEF AwaitLink, New, Fresh, Taking, Handling, StoreOK, DrainOK, Busy, Current, drain, durable, world
  <1>9. CASE LinkBefore
    <2>1. "expired" \in Codes
      BY DEF Codes
    <2> QED BY <1>9, <2>1 DEF LinkBefore, StoreOK, DrainOK, Busy, Current, drain, durable, world
  <1>10. CASE StartCommand
    <2>1. StoreOK'
      BY <1>10, EntryStates DEF StartCommand, StoreOK, world
    <2> QED BY <1>10, <2>1 DEF StartCommand, DrainOK, Busy, Current, drain
  <1>11. CASE StartOperation
    <2>1. StoreOK'
      BY <1>11, EntryStates DEF StartOperation, StoreOK, world
    <2> QED BY <1>11, <2>1 DEF StartOperation, DrainOK, Busy, Current, drain
  <1>12. CASE CallHandler
    <2>1. Current \in Commands
      BY <1>12, <1>c DEF CallHandler, DrainOK, Busy
    <2>2. StoreOK'
      BY <1>12, <2>1 DEF CallHandler, StoreOK, durable, world
    <2> QED BY <1>12, <2>2 DEF CallHandler, DrainOK, Busy, Current, drain, durable
  <1>13. CASE HandlerReturns
    <2>1. code' \in Codes
      BY <1>13, BusyStates DEF HandlerReturns
    <2> QED BY <1>13, <2>1 DEF HandlerReturns, StoreOK, DrainOK, Busy, Current, drain, durable, world
  <1>14. CASE RecordOperation
    <2>1. Held(OpEntry(Material[Current], code)) \in OpStates
      BY <1>14, <1>c, EntryStates DEF RecordOperation, DrainOK, Busy
    <2>2. StoreOK'
      BY <1>14, <2>1 DEF RecordOperation, StoreOK, world
    <2> QED BY <1>14, <2>2 DEF RecordOperation, DrainOK, Busy, Current, drain
  <1>15. CASE RecordAnswer
    <2>1. CASE Current \in Tracked
      <3>1. Held(code) \in States
        BY EntryStates DEF DrainOK
      <3>2. StoreOK'
        BY <1>15, <2>1, <3>1 DEF RecordAnswer, StoreOK, world
      <3> QED BY <1>15, <2>1, <3>2 DEF RecordAnswer, DrainOK, Busy, Current, drain
    <2>2. CASE Current \notin Tracked
      <3>1. StoreOK'
        BY <1>15, <2>2 DEF RecordAnswer, StoreOK, world
      <3> QED BY <1>15, <2>2, <3>1, NextRecordType DEF RecordAnswer, DrainOK, Busy, StoreOK
    <2> QED BY <2>1, <2>2
  <1> QED BY <1>1, <1>2, <1>3, <1>4, <1>5, <1>6, <1>7, <1>8, <1>9, <1>10, <1>11,
             <1>12, <1>13, <1>14, <1>15 DEF Handle

LEMMA PublishType == TypeOK /\ (Publish \/ PublishUnconfirmed) => TypeOK'
  <1> SUFFICES ASSUME TypeOK, Publish \/ PublishUnconfirmed PROVE TypeOK'
    OBVIOUS
  <1> USE DEF TypeOK
  <1> DEFINE r == [kind |-> "answer", id |-> Current, code |-> code]
  <1>1. pc = "publish" /\ Current \in Tracked /\ log' = Append(log, r)
    BY DEF Publish, PublishUnconfirmed, DrainOK
  <1>2. r \in Records
    BY <1>1 DEF Records, DrainOK
  <1>3. /\ log' \in Seq(Records) /\ Len(log') = Len(log) + 1
        /\ \A i \in 1 .. Len(log) : log'[i] = log[i]
    BY <1>1, <1>2, AppendKeeps DEF StoreOK
  <1>4. CASE Publish
    <2>1. answered' \subseteq Tracked
      BY <1>1, <1>4, RememberedBound DEF Publish, StoreOK
    <2>2. StoreOK'
      BY <1>3, <1>4, <2>1 DEF Publish, StoreOK, world
    <2> QED BY <1>1, <1>3, <1>4, <2>2, NextRecordType DEF Publish, DrainOK, Busy, StoreOK
  <1>5. CASE PublishUnconfirmed
    <2>1. StoreOK'
      BY <1>3, <1>5 DEF PublishUnconfirmed, StoreOK, world
    <2> QED BY <1>1, <1>3, <1>5, <2>1 DEF PublishUnconfirmed, StoreOK, DrainOK, Busy, Current, drain
  <1> QED BY <1>4, <1>5

\* Every variable keeps its type, and the page, the position in it and the
\* cursor stay in step, whatever the ledger, the page size and the faults.
THEOREM TypeCorrect == Spec => []TypeOK
  <1>1. TypeOK /\ [Next]_vars => TypeOK'
    <2> SUFFICES ASSUME TypeOK, [Next]_vars PROVE TypeOK'
      OBVIOUS
    <2>1. CASE UNCHANGED vars
      BY <2>1 DEF vars, TypeOK, StoreOK, DrainOK, Current
    <2> QED BY <2>1, WorldType, DrainType, HandleType, PublishType DEF Next
  <1> QED BY <1>1, InitType, PTL DEF Spec

-----------------------------------------------------------------------------
(* At most once *)

\* What AtMostOnce needs to be inductive: as long as the ledger has no entry of
\* a command or of its operation, its handler was not called; and handle()
\* carries that fact from its look at the ledger to the call.
OnceInv ==
    /\ \A c \in Tracked : ledger[c] = Absent => runs[c] = 0
    /\ \A c \in Commands : Op[c] # NoOp /\ opLedger[Op[c]] = Absent => runs[c] = 0
    /\ pc \in {"await", "resume", "start"} =>
          /\ Current \in Tracked => ledger[Current] = Absent
          /\ Op[Current] # NoOp => opLedger[Op[Current]] = Absent
    /\ pc = "startOp" =>
          /\ Current \in Tracked => ledger[Current] # Absent /\ runs[Current] = 0
          /\ opLedger[Op[Current]] = Absent
    /\ pc = "run" =>
          /\ Current \in Tracked => ledger[Current] # Absent /\ runs[Current] = 0
          /\ Op[Current] # NoOp =>
                /\ opLedger[Op[Current]] # Absent
                /\ \A d \in Commands : Op[d] = Op[Current] => runs[d] = 0
    /\ AtMostOnce

LEMMA EntriesDiffer ==
    /\ Started # Absent
    /\ \A x : Held(x) # Absent /\ Held(x) # Started
  BY DEF Started, Absent, Held

\* The stream only grows, so the command under way stays what it is.
LEMMA CurrentKept ==
    ASSUME TypeOK, pc \in Busy, UNCHANGED idx, NEW r \in Records, log' = log \/ log' = Append(log, r)
    PROVE  Current' = Current
  <1>1. idx \in 1 .. Len(log)
    BY CurrentCommand DEF TypeOK, DrainOK
  <1>2. log'[idx] = log[idx]
    BY <1>1, AppendKeeps DEF TypeOK, StoreOK
  <1> QED BY <1>2 DEF Current

\* A step that leaves the ledger and the runs alone and ends or leaves handle()
\* before the call keeps the invariant.
LEMMA OnceQuiet ==
    ASSUME OnceInv, UNCHANGED <<ledger, opLedger, runs>>,
           \/ pc' \notin {"await", "resume", "start", "startOp", "run"}
           \/ pc' = pc /\ Current' = Current
           \/ pc = "await" /\ pc' = "resume" /\ Current' = Current
    PROVE  OnceInv'
  BY DEF OnceInv, AtMostOnce

LEMMA OnceWorld == Durable /\ TypeOK /\ OnceInv /\ World => OnceInv'
  <1> SUFFICES ASSUME Durable, TypeOK, OnceInv, World PROVE OnceInv'
    OBVIOUS
  <1>1. ASSUME NEW r \in Records, log' = log \/ log' = Append(log, r),
               UNCHANGED <<ledger, opLedger, runs, pc, idx>>
        PROVE  OnceInv'
    <2>1. CASE pc \in Busy
      BY <1>1, <2>1, CurrentKept, OnceQuiet
    <2>2. CASE pc \notin Busy
      BY <1>1, <2>2, OnceQuiet DEF Busy
    <2> QED BY <2>1, <2>2
  <1>2. ASSUME NEW c \in Commands, Submit(c) \/ Progress(c) \/ Expire(c) PROVE OnceInv'
    <2>1. [kind |-> "command", id |-> c] \in Records /\ [kind |-> "progress", id |-> c] \in Records
      BY DEF Records
    <2> QED BY <1>1, <1>2, <2>1 DEF Submit, Progress, Expire, durable
  <1>3. CASE LinkDown \/ LinkUp
    <2>1. Current' = Current /\ UNCHANGED <<ledger, opLedger, runs>>
      BY <1>3 DEF LinkDown, LinkUp, durable, Current
    <2>2. pc' = pc \/ (pc = "await" /\ pc' = "resume")
      BY <1>3 DEF LinkDown, LinkUp
    <2> QED BY <2>1, <2>2, OnceQuiet
  <1>4. CASE Restart
    BY <1>4, OnceQuiet DEF Restart, EndDrain
  <1> QED BY <1>2, <1>3, <1>4 DEF World

LEMMA OnceDrain ==
    ASSUME OnceInv, ReadHead \/ FetchPage \/ FetchNothing \/ AckPage \/ AckAnswerLost \/ HttpFails
    PROVE  OnceInv'
  BY OnceQuiet DEF ReadHead, FetchPage, FetchNothing, AckPage, AckAnswerLost, HttpFails,
                   EndDrain, durable

LEMMA OnceHandle == TypeOK /\ OnceInv /\ Handle => OnceInv'
  <1> SUFFICES ASSUME TypeOK, OnceInv, Handle PROVE OnceInv'
    OBVIOUS
  <1>1. CASE ScanAhead \/ Skip \/ AnswerAgain \/ RefuseEnvelope \/ RefuseExpired \/ HandlerReturns
    BY <1>1, OnceQuiet DEF ScanAhead, Skip, AnswerAgain, RefuseEnvelope, RefuseExpired,
                           HandlerReturns, NextRecord, Handling, durable
  <1>2. CASE AnswerUnknown
    BY <1>2, EntriesDiffer DEF AnswerUnknown, OnceInv, AtMostOnce, TypeOK, StoreOK
  <1>3. CASE Replay
    <2>1. /\ opLedger[Op[Current]] # Absent /\ pc' = "answer" /\ UNCHANGED <<ledger, runs>>
          /\ \/ UNCHANGED opLedger
             \/ \E x : opLedger' = [opLedger EXCEPT ![Op[Current]] = Held(x)]
      BY <1>3 DEF Replay
    <2>2. \A o \in Ops : opLedger'[o] = Absent => opLedger[o] = Absent
      BY <2>1, EntriesDiffer DEF TypeOK, StoreOK
    <2>3. \A c \in Commands : Op[c] # NoOp => Op[c] \in Ops
      BY DEF Ops
    <2> QED BY <2>1, <2>2, <2>3 DEF OnceInv, AtMostOnce
  <1>4. CASE AwaitLink
    BY <1>4 DEF AwaitLink, New, Fresh, Current, OnceInv, AtMostOnce, durable
  <1>5. CASE LinkBefore
    BY <1>5 DEF LinkBefore, Current, OnceInv, AtMostOnce, durable
  <1>6. CASE StartCommand
    <2>1. Current \in Commands /\ Current' = Current
      BY <1>6, CurrentCommand DEF StartCommand, TypeOK, DrainOK, Busy, Current
    <2>2. CASE Current \in Tracked
      <3>1. ledger' = [ledger EXCEPT ![Current] = Started] /\ runs[Current] = 0
        BY <1>6, <2>2 DEF StartCommand, OnceInv
      <3> QED BY <1>6, <2>1, <2>2, <3>1, EntriesDiffer
              DEF StartCommand, OnceInv, AtMostOnce, TypeOK, StoreOK
    <2>3. CASE Current \notin Tracked
      BY <1>6, <2>1, <2>3 DEF StartCommand, OnceInv, AtMostOnce
    <2> QED BY <2>2, <2>3
  <1>7. CASE StartOperation
    <2>1. Current \in Commands /\ Current' = Current /\ Op[Current] \in Ops /\ Op[Current] # NoOp
      BY <1>7, CurrentCommand DEF StartOperation, TypeOK, DrainOK, Busy, Current, Ops
    <2>2. \A d \in Commands : Op[d] = Op[Current] => runs[d] = 0
      BY <1>7, <2>1 DEF StartOperation, OnceInv
    <2> QED BY <1>7, <2>1, <2>2, EntriesDiffer
            DEF StartOperation, OnceInv, AtMostOnce, TypeOK, StoreOK
  <1>8. CASE CallHandler
    <2>1. Current \in Commands
      BY <1>8, CurrentCommand DEF CallHandler, TypeOK, DrainOK, Busy
    <2>2. runs' = [runs EXCEPT ![Current] = @ + 1] /\ pc = "run" /\ pc' = "running"
          /\ UNCHANGED <<ledger, opLedger>>
      BY <1>8 DEF CallHandler, durable
    <2>3. AtMostOnce'
      BY <2>1, <2>2 DEF OnceInv, AtMostOnce, TypeOK, StoreOK
    <2> QED BY <2>1, <2>2, <2>3 DEF OnceInv, TypeOK, StoreOK
  <1>9. CASE RecordOperation
    <2>1. /\ pc' = "answer" /\ UNCHANGED <<ledger, runs>>
          /\ \E x : opLedger' = [opLedger EXCEPT ![Op[Current]] = Held(x)]
      BY <1>9 DEF RecordOperation
    <2>2. \A o \in Ops : opLedger'[o] = Absent => opLedger[o] = Absent
      BY <2>1, EntriesDiffer DEF TypeOK, StoreOK
    <2>3. \A c \in Commands : Op[c] # NoOp => Op[c] \in Ops
      BY DEF Ops
    <2> QED BY <2>1, <2>2, <2>3 DEF OnceInv, AtMostOnce
  <1>10. CASE RecordAnswer
    BY <1>10, EntriesDiffer DEF RecordAnswer, NextRecord, OnceInv, AtMostOnce, TypeOK, StoreOK
  <1> QED BY <1>1, <1>2, <1>3, <1>4, <1>5, <1>6, <1>7, <1>8, <1>9, <1>10 DEF Handle

LEMMA OnceInvariant == ASSUME Durable PROVE Spec => []OnceInv
  <1>1. Init => OnceInv
    <2> SUFFICES ASSUME Init PROVE OnceInv
      OBVIOUS
    <2>1. pc = "idle" /\ \A c \in Commands : runs[c] = 0
      BY DEF Init
    <2> QED BY <2>1, CommandAssumption DEF OnceInv, AtMostOnce
  <1>2. TypeOK /\ OnceInv /\ [Next]_vars => OnceInv'
    <2> SUFFICES ASSUME TypeOK, OnceInv, [Next]_vars PROVE OnceInv'
      OBVIOUS
    <2>1. CASE UNCHANGED vars
      BY <2>1 DEF vars, OnceInv, AtMostOnce, Current
    <2>2. CASE Publish \/ PublishUnconfirmed
      BY <2>2, OnceQuiet DEF Publish, PublishUnconfirmed, NextRecord
    <2> QED BY <2>1, <2>2, Durable, OnceWorld, OnceDrain, OnceHandle DEF Next
  <1> QED BY <1>1, <1>2, TypeCorrect, PTL DEF Spec

\* Over a durable ledger no handler is called twice for a command with a
\* correlation id or for an operation, whatever stops, resends and repeats.
THEOREM CalledAtMostOnce == ASSUME Durable PROVE Spec => []AtMostOnce
  <1>1. OnceInv => AtMostOnce
    BY DEF OnceInv
  <1>2. Spec => []OnceInv
    BY Durable, OnceInvariant
  <1> QED BY <1>1, <1>2, PTL

-----------------------------------------------------------------------------
(* A command is answered before the cursor passes it *)

\* The command at offset i, if it wants an answer, has one.
Served(i) == log[i].kind = "command" /\ log[i].id \in Tracked => Answers(log[i].id) # {}

Paging == pc = "record" \/ pc \in Busy

\* What AnsweredBehindCursor needs to be inductive: an id known to be answered
\* has an answer in the stream, and so has every command of the page handle()
\* already passed.
AnswerInv ==
    /\ \A c \in answered : Answers(c) # {}
    /\ Paging => \A i \in page.from .. idx - 1 : Served(i)
    /\ \A i \in 1 .. cursor : Served(i)

\* The stream keeps what it holds.
Grows ==
    /\ Len(log') >= Len(log)
    /\ \A i \in 1 .. Len(log) : log'[i] = log[i]

LEMMA AppendGrows ==
    ASSUME log \in Seq(Records), NEW r \in Records, log' = Append(log, r)
    PROVE  Grows
  BY AppendKeeps DEF Grows

LEMMA SameGrows ==
    ASSUME log \in Seq(Records), log' = log
    PROVE  Grows
  BY DEF Grows

LEMMA AnsweredInAnswers ==
    ASSUME log \in Seq(Records), NEW lo \in Nat \ {0}, NEW hi \in Int, hi <= Len(log)
    PROVE  \A c \in AnsweredIn(lo, hi) : Answers(c) # {}
  <1> SUFFICES ASSUME NEW i \in lo .. hi, log[i].kind = "answer"
               PROVE  i \in Answers(log[i].id)
    BY DEF AnsweredIn
  <1>1. i \in 1 .. Len(log)
    OBVIOUS
  <1> QED BY <1>1 DEF Answers

\* Answers stay in the stream, and a served command stays served.
LEMMA AnswersKept ==
    ASSUME log \in Seq(Records), log' \in Seq(Records), Grows
    PROVE  \A c : Answers(c) # {} => Answers(c)' # {}
  <1> SUFFICES ASSUME NEW c, NEW i \in Answers(c) PROVE i \in Answers(c)'
    OBVIOUS
  <1>1. i \in 1 .. Len(log) /\ log[i].kind = "answer" /\ log[i].id = c
    BY DEF Answers
  <1>2. i \in 1 .. Len(log') /\ log'[i] = log[i]
    BY <1>1 DEF Grows
  <1> QED BY <1>1, <1>2 DEF Answers

LEMMA ServedKept ==
    ASSUME log \in Seq(Records), log' \in Seq(Records), Grows,
           NEW i \in 1 .. Len(log), Served(i)
    PROVE  Served(i)'
  <1>1. log'[i] = log[i]
    BY DEF Grows
  <1> QED BY <1>1, AnswersKept DEF Served

\* A step moves the cursor only over a page that was handled to its end ...
CursorStep ==
    \/ cursor' = cursor
    \/ pc = "record" /\ idx = page.next /\ cursor' = page.next - 1

\* ... and it leaves the page, starts one, stays at its record, or passes a
\* record that is served.
PageStep ==
    \/ ~Paging'
    \/ page'.from = idx'
    \/ Paging /\ page' = page /\ idx' = idx
    \/ Paging /\ page' = page /\ idx' = idx + 1 /\ idx < page.next /\ \E i \in {idx} : Served(i)'

LEMMA AnswerStep ==
    ASSUME TypeOK, TypeOK', AnswerInv, Grows, CursorStep, PageStep,
           \A c \in answered' : Answers(c)' # {}
    PROVE  AnswerInv'
  <1>1. log \in Seq(Records) /\ log' \in Seq(Records) /\ Len(log) \in Nat
    BY DEF TypeOK, StoreOK
  <1>2. /\ cursor \in 0 .. Len(log) /\ page.from \in Nat \ {0} /\ page.next \in Nat
        /\ page.next <= Len(log) + 1 /\ idx \in page.from .. page.next
        /\ idx' \in Nat /\ page'.from \in Nat
        /\ Paging => page.from = cursor + 1
    <2>1. cursor \in 0 .. Len(log)
      BY DEF TypeOK, StoreOK
    <2>2. page.from \in Nat \ {0} /\ page.next \in Nat /\ page'.from \in Nat
      BY DEF TypeOK, DrainOK
    <2>3. page.next <= Len(log) + 1 /\ idx \in page.from .. page.next
      BY <1>1, <2>2 DEF TypeOK, DrainOK
    <2>4. idx' \in Nat
      <3>1. page' \in [from : Nat \ {0}, next : Nat] /\ idx' \in page'.from .. page'.next
        BY DEF TypeOK, DrainOK
      <3> QED BY <3>1
    <2>5. Paging => page.from = cursor + 1
      BY DEF TypeOK, DrainOK, Paging
    <2> QED BY <2>1, <2>2, <2>3, <2>4, <2>5
  <1>3. ASSUME NEW i \in 1 .. cursor' PROVE Served(i)'
    <2>1. CASE i \in 1 .. cursor
      BY <1>1, <1>2, <2>1, ServedKept DEF AnswerInv
    <2>2. CASE i \notin 1 .. cursor
      <3>1. pc = "record" /\ idx = page.next /\ cursor' = page.next - 1
        BY <1>3, <2>2 DEF CursorStep
      <3>2. Paging /\ page.from = cursor + 1
        BY <1>2, <3>1 DEF Paging
      <3>3. i \in page.from .. idx - 1 /\ i \in 1 .. Len(log)
        BY <1>2, <1>3, <2>2, <3>1, <3>2
      <3> QED BY <1>1, <3>2, <3>3, ServedKept DEF AnswerInv
    <2> QED BY <2>1, <2>2
  <1>4. ASSUME Paging', NEW i \in Int, page'.from <= i, i < idx' PROVE Served(i)'
    <2>1. Paging /\ page' = page /\ idx' \in {idx, idx + 1}
      <3>1. page'.from # idx'
        BY <1>2, <1>4
      <3> QED BY <1>4, <3>1 DEF PageStep
    <2>2. CASE i \in page.from .. idx - 1
      <3>1. i \in 1 .. Len(log) /\ Served(i)
        BY <1>2, <2>1, <2>2 DEF AnswerInv
      <3> QED BY <1>1, <3>1, ServedKept
    <2>3. CASE i \notin page.from .. idx - 1
      <3>1. i = idx /\ idx' = idx + 1
        BY <1>2, <1>4, <2>1, <2>3
      <3>2. idx' # idx /\ page'.from # idx'
        BY <1>2, <1>4, <3>1
      <3>3. \E j \in {idx} : Served(j)'
        BY <1>4, <3>2 DEF PageStep
      <3> QED BY <3>1, <3>3
    <2> QED BY <2>2, <2>3
  <1>5. Paging' => \A i \in page'.from .. idx' - 1 : Served(i)'
    <2>1. page'.from .. idx' - 1 \subseteq {i \in Int : page'.from <= i /\ i < idx'}
      BY <1>2
    <2> QED BY <1>4, <2>1
  <1> QED BY <1>3, <1>5 DEF AnswerInv, Served

LEMMA AnswerNext == TypeOK /\ TypeOK' /\ AnswerInv /\ Next => AnswerInv'
  <1> SUFFICES ASSUME TypeOK, TypeOK', AnswerInv, Next PROVE AnswerInv'
    OBVIOUS
  <1>0. /\ log \in Seq(Records) /\ log' \in Seq(Records) /\ Len(log) \in Nat
        /\ answered \subseteq Tracked /\ idx \in Nat
        /\ idx \in page.from .. page.next
    <2>1. log \in Seq(Records) /\ log' \in Seq(Records) /\ answered \subseteq Tracked
      BY DEF TypeOK, StoreOK
    <2>2. page.from \in Nat /\ page.next \in Nat /\ idx \in page.from .. page.next
      BY DEF TypeOK, DrainOK
    <2> QED BY <2>1, <2>2
  <1>s. ASSUME log' = log, CursorStep, PageStep,
               NEW new, \A c \in new : Answers(c) # {}, answered' \subseteq answered \cup new
        PROVE  AnswerInv'
    <2>1. \A c \in answered' : Answers(c)' # {}
      BY <1>s DEF AnswerInv, Answers
    <2> QED BY <1>0, <1>s, <2>1, SameGrows, AnswerStep
  <1>g. ASSUME NEW r \in Records, log' = Append(log, r), UNCHANGED <<answered, cursor>>, PageStep
        PROVE  AnswerInv'
    <2>1. Grows
      BY <1>0, <1>g, AppendGrows
    <2>2. \A c \in answered' : Answers(c)' # {}
      BY <1>0, <1>g, <2>1, AnswersKept DEF AnswerInv
    <2> QED BY <1>g, <2>1, <2>2, AnswerStep DEF CursorStep
  <1>q. ASSUME UNCHANGED <<log, answered, cursor, page, idx>>, pc' = pc \/ Paging \/ ~Paging'
        PROVE  AnswerInv'
    <2>1. PageStep
      BY <1>q DEF PageStep, Paging
    <2> QED BY <1>q, <1>s, <2>1 DEF CursorStep
  <1>1. ASSUME NEW c \in Commands, Submit(c) \/ Progress(c) PROVE AnswerInv'
    <2>1. [kind |-> "command", id |-> c] \in Records /\ [kind |-> "progress", id |-> c] \in Records
      BY DEF Records
    <2>2. PageStep
      BY <1>1 DEF PageStep, Paging, Submit, Progress, drain
    <2> QED BY <1>1, <1>g, <2>1, <2>2 DEF Submit, Progress
  <1>2. CASE (\E c \in Commands : Expire(c)) \/ LinkDown \/ ReadHead
    BY <1>2, <1>q, BusyStates DEF Expire, LinkDown, ReadHead, durable, drain, Paging
  <1>u. CASE LinkUp
    <2>1. pc' = pc \/ (pc = "await" /\ pc' = "resume") BY <1>u DEF LinkUp
    <2>2. Paging' => Paging BY <2>1 DEF Paging, Busy
    <2> QED BY <1>u, <1>q, <2>1, <2>2 DEF LinkUp, durable, drain, Paging, Busy
  <1>3. CASE Restart
    <2>1. PageStep
      BY <1>3, BusyStates DEF PageStep, Paging, Restart, EndDrain
    <2> QED BY <1>3, <1>s, <2>1 DEF Restart, CursorStep
  <1>4. CASE FetchPage
    <2>1. PageEnd \in cursor + 1 .. Len(log) + 1 /\ cursor \in Nat
      BY PageEndBound DEF TypeOK, StoreOK
    <2>2. \A c \in AnsweredIn(cursor + 1, PageEnd - 1) : Answers(c) # {}
      BY <1>0, <2>1, AnsweredInAnswers
    <2>3. answered' \subseteq answered \cup AnsweredIn(cursor + 1, PageEnd - 1)
      BY <1>4, RememberedBound DEF FetchPage
    <2>4. PageStep
      BY <1>4 DEF PageStep, FetchPage
    <2> QED BY <1>4, <1>s, <2>2, <2>3, <2>4 DEF FetchPage, durable, CursorStep
  <1>5. CASE FetchNothing \/ AckPage \/ AckAnswerLost
    <2>1. PageStep
      BY <1>5, BusyStates DEF PageStep, Paging, FetchNothing, AckPage, AckAnswerLost, EndDrain
    <2>2. CursorStep /\ UNCHANGED <<log, answered>>
      BY <1>5 DEF CursorStep, FetchNothing, AckPage, AckAnswerLost, AckOffset, durable
    <2> QED BY <1>s, <2>1, <2>2
  <1>6. ScanFrom \in 1 .. Len(log) + 1
    <2>1. scannedTo \in Nat /\ scannedTo <= Len(log) + 1
      BY <1>0 DEF TypeOK, StoreOK
    <2>2. page.from \in Nat \ {0} /\ page.next \in Nat /\ page.next \in page.from .. Len(log) + 1
      BY DEF TypeOK, DrainOK
    <2>3. page.next >= 1 /\ page.next <= Len(log) + 1
      BY <1>0, <2>2
    <2> QED BY <1>0, <2>1, <2>2, <2>3 DEF ScanFrom
  <1>7. CASE HttpFails
    <2>1. PageStep /\ CursorStep /\ UNCHANGED log
      BY <1>7, BusyStates DEF PageStep, CursorStep, Paging, HttpFails, EndDrain, durable
    <2>2. CASE UNCHANGED answered
      BY <1>s, <2>1, <2>2
    <2>3. ASSUME NEW k \in 0 .. (Len(log) + 1 - ScanFrom) \div PageSize,
                 answered' \in Remembered(answered, AnsweredIn(ScanFrom, ScanFrom + k * PageSize - 1))
          PROVE  AnswerInv'
      <3>1. k * PageSize <= Len(log) + 1 - ScanFrom /\ k * PageSize \in Nat
        BY <1>0, <1>6, ScanBound, Zenon
      <3>2. \A c \in AnsweredIn(ScanFrom, ScanFrom + k * PageSize - 1) : Answers(c) # {}
        BY <1>0, <1>6, <3>1, AnsweredInAnswers
      <3>3. answered' \subseteq answered \cup AnsweredIn(ScanFrom, ScanFrom + k * PageSize - 1)
        BY <2>3, RememberedBound, Zenon
      <3> QED BY <1>s, <2>1, <3>2, <3>3, Zenon
    <2> QED BY <1>7, <2>2, <2>3 DEF HttpFails
  <1>8. CASE ScanAhead
    <2>1. \A c \in AnsweredIn(ScanFrom, Len(log)) : Answers(c) # {}
      BY <1>0, <1>6, AnsweredInAnswers
    <2>2. answered' \subseteq answered \cup AnsweredIn(ScanFrom, Len(log))
      BY <1>8, RememberedBound DEF ScanAhead
    <2>3. PageStep /\ CursorStep /\ UNCHANGED log
      BY <1>8 DEF ScanAhead, PageStep, CursorStep, Paging, Handling, durable
    <2> QED BY <1>s, <2>1, <2>2, <2>3
  <1>9. ASSUME NextRecord, idx < page.next, Paging, UNCHANGED <<log, cursor, answered, page>>, Served(idx)
        PROVE  AnswerInv'
    <2>1. \E i \in {idx} : Served(i)'
      BY <1>9 DEF Served, Answers
    <2>2. PageStep
      BY <1>9, <2>1 DEF PageStep, NextRecord
    <2> QED BY <1>9, <1>s, <2>2 DEF CursorStep
  <1>10. CASE Skip
    <2>1. Served(idx)
      BY <1>10 DEF Skip, Served, IsAnswered, Current, AnswerInv
    <2> QED BY <1>9, <1>10, <2>1 DEF Skip, Handling, Paging, durable, drain
  <1>11. CASE RecordAnswer
    <2>1. CASE Current \in Tracked
      BY <1>11, <1>q, <2>1 DEF RecordAnswer, Paging, drain, Busy
    <2>2. CASE Current \notin Tracked
      <3>1. Served(idx) /\ Paging /\ idx < page.next
        BY <1>11, <2>2 DEF RecordAnswer, Served, Current, Paging, Busy, TypeOK, DrainOK
      <3> QED BY <1>9, <1>11, <2>2, <3>1 DEF RecordAnswer, drain
    <2> QED BY <2>1, <2>2
  <1>12. CASE AnswerUnknown \/ AnswerAgain \/ RefuseEnvelope \/ Replay \/ RefuseExpired \/ AwaitLink
    BY <1>12, <1>q DEF AnswerUnknown, AnswerAgain, RefuseEnvelope, Replay, RefuseExpired, AwaitLink,
                       New, Fresh, Taking, Handling, Paging, drain, durable
  <1>13. CASE LinkBefore \/ StartCommand \/ StartOperation \/ CallHandler \/ HandlerReturns \/ RecordOperation
    BY <1>13, <1>q DEF LinkBefore, StartCommand, StartOperation, CallHandler, HandlerReturns,
                       RecordOperation, Busy, Paging, drain, durable
  <1>14. CASE Publish \/ PublishUnconfirmed
    <2> DEFINE r == [kind |-> "answer", id |-> Current, code |-> code]
    <2>1. pc = "publish" /\ Paging /\ idx < page.next /\ Current \in Tracked /\ log' = Append(log, r)
      BY <1>14 DEF Publish, PublishUnconfirmed, Paging, Busy, TypeOK, DrainOK
    <2>2. r \in Records
      BY <2>1 DEF Records, TypeOK, DrainOK
    <2>3. Grows /\ Len(log') = Len(log) + 1 /\ log'[Len(log) + 1] = r
      BY <1>0, <2>1, <2>2, AppendGrows, AppendKeeps
    <2>4. CASE PublishUnconfirmed
      <3>1. PageStep
        BY <2>1, <2>4 DEF PageStep, PublishUnconfirmed, drain
      <3> QED BY <1>g, <2>1, <2>2, <2>4, <3>1 DEF PublishUnconfirmed
    <2>5. CASE Publish
      <3>1. \A c \in {Current} : Answers(c)' # {}
        <4> SUFFICES ASSUME NEW c \in {Current} PROVE Len(log) + 1 \in Answers(c)'
          OBVIOUS
        <4> QED BY <1>0, <2>3 DEF Answers
      <3>2. \A c \in answered' : Answers(c)' # {}
        <4>1. answered' \subseteq answered \cup {Current}
          BY <2>5, RememberedBound DEF Publish
        <4> QED BY <1>0, <2>3, <3>1, <4>1, AnswersKept DEF AnswerInv
      <3>3. \E i \in {idx} : Served(i)'
        <4> SUFFICES ASSUME NEW i \in {idx} PROVE Served(i)'
          OBVIOUS
        <4>1. idx \in 1 .. Len(log)
          BY <2>1, CurrentCommand
        <4>2. log'[i] = log[idx]
          BY <2>3, <4>1 DEF Grows
        <4> QED BY <3>1, <4>2 DEF Served, Current
      <3>4. PageStep
        BY <2>1, <2>5, <3>3 DEF PageStep, Publish, NextRecord, drain
      <3> QED BY <2>3, <2>5, <3>2, <3>4, AnswerStep DEF Publish, CursorStep
    <2> QED BY <1>14, <2>4, <2>5
  <1> QED BY <1>1, <1>2, <1>u, <1>3, <1>4, <1>5, <1>7, <1>8, <1>10, <1>11, <1>12, <1>13, <1>14
          DEF Next, World, Handle

\* The cursor never passes a command that has no answer in the stream, whatever
\* is lost, resent or cut off.
THEOREM CursorBehindAnswers == Spec => []AnsweredBehindCursor
  <1>1. Init => AnswerInv
    BY BusyStates DEF Init, AnswerInv, Paging
  <1>2. TypeOK /\ TypeOK' /\ AnswerInv /\ [Next]_vars => AnswerInv'
    <2> SUFFICES ASSUME TypeOK, TypeOK', AnswerInv, UNCHANGED vars PROVE AnswerInv'
      BY AnswerNext
    <2> QED BY DEF vars, AnswerInv, Paging, Served, Answers
  <1>3. AnswerInv => AnsweredBehindCursor
    BY DEF AnswerInv, AnsweredBehindCursor, Served
  <1> QED BY <1>1, <1>2, <1>3, TypeCorrect, PTL DEF Spec


-----------------------------------------------------------------------------
(* The executor implements the contract *)

\* A handler was called for c, or for another command of its operation.
Effect(c) == \E d \in Commands : (d = c \/ (Op[c] # NoOp /\ Op[d] = Op[c])) /\ runs[d] > 0

\* Answering c with x is no lie.
Truthful(c, x) ==
    /\ x \in {"ok", "failed"} => Effect(c)
    /\ x \in {"invalid", "conflict", "expired"} => runs[c] = 0

\* The answers in the stream are the one the ledger holds, which is true, and
\* so is the one it holds of an operation ...
LedgerTrue ==
    /\ \A c \in Tracked : \A i \in Answers(c) : ledger[c] = Held(log[i].code)
    /\ \A c \in Tracked : ledger[c].state = "answered" => Truthful(c, ledger[c].answer)
    /\ \A o \in Ops : opLedger[o].state = "answered" =>
          /\ opLedger[o].answer.code \in Outcomes
          /\ opLedger[o].answer.code # "unknown" => \E d \in Commands : Op[d] = o /\ runs[d] > 0

\* ... and handle() works towards a true answer while the ledger holds none.
HandleTrue ==
    /\ pc \in Busy \ {"publish"} /\ Current \in Tracked => ledger[Current].state # "answered"
    /\ pc \in {"running", "answerOp"} => runs[Current] > 0
    /\ pc = "answerOp" => code \in Outcomes
    /\ pc = "answer" /\ Current \in Tracked => Truthful(Current, code)
    /\ pc = "publish" => ledger[Current] = Held(code)

ReplyInv == LedgerTrue /\ HandleTrue

LEMMA HeldFields ==
    /\ \A y : Held(y).state = "answered" /\ Held(y).answer = y
    /\ Absent.state # "answered" /\ Started.state # "answered"
    /\ \A m, y : OpEntry(m, y).digest = m /\ OpEntry(m, y).code = y
  BY DEF Held, Absent, Started, OpEntry

\* A step that leaves the stream's answers, the ledger and the runs alone.
SameAnswers == \A c : Answers(c)' = Answers(c) /\ \A i \in Answers(c) : log'[i] = log[i]

LEMMA AppendAnswers ==
    ASSUME log \in Seq(Records), NEW r \in Records, r.kind # "answer", log' = Append(log, r)
    PROVE  SameAnswers
  <1>1. /\ log' \in Seq(Records) /\ Len(log') = Len(log) + 1 /\ Len(log) \in Nat
        /\ \A i \in 1 .. Len(log) : log'[i] = log[i]
        /\ log'[Len(log) + 1] = r
    BY AppendKeeps
  <1>2. ASSUME NEW c PROVE Answers(c)' = Answers(c)
    <2>1. \A i \in 1 .. Len(log') : i \in 1 .. Len(log) \/ i = Len(log) + 1
      BY <1>1
    <2>2. 1 .. Len(log) \subseteq 1 .. Len(log')
      BY <1>1
    <2> QED BY <1>1, <2>1, <2>2 DEF Answers
  <1> QED BY <1>1, <1>2 DEF SameAnswers, Answers

LEMMA QuietLedger ==
    ASSUME LedgerTrue, SameAnswers, UNCHANGED <<ledger, opLedger, runs>>
    PROVE  LedgerTrue'
  BY DEF LedgerTrue, SameAnswers, Truthful, Effect

LEMMA QuietHandle ==
    ASSUME HandleTrue, UNCHANGED <<ledger, runs>>,
           \/ pc' \notin Busy
           \/ pc' = pc /\ Current' = Current /\ code' = code
           \/ /\ pc \in Busy \ {"publish"} /\ Current' = Current
              /\ pc' \in {"await", "resume", "start", "startOp", "run"}
    PROVE  HandleTrue'
  BY DEF HandleTrue, Busy, Truthful, Effect

LEMMA ReplyWorld == Durable /\ TypeOK /\ ReplyInv /\ World => ReplyInv'
  <1> SUFFICES ASSUME Durable, TypeOK, ReplyInv, World PROVE ReplyInv'
    OBVIOUS
  <1>0. log \in Seq(Records)
    BY DEF TypeOK, StoreOK
  <1>1. ASSUME NEW r \in Records, r.kind # "answer", log' = log \/ log' = Append(log, r),
               UNCHANGED <<ledger, opLedger, runs, pc, idx, code>>
        PROVE  ReplyInv'
    <2>1. SameAnswers
      BY <1>0, <1>1, AppendAnswers DEF SameAnswers, Answers
    <2>2. CASE pc \in Busy
      BY <1>1, <2>1, <2>2, CurrentKept, QuietLedger, QuietHandle DEF ReplyInv
    <2>3. CASE pc \notin Busy
      BY <1>1, <2>1, <2>3, QuietLedger, QuietHandle DEF ReplyInv
    <2> QED BY <2>2, <2>3
  <1>2. ASSUME NEW c \in Commands, Submit(c) \/ Progress(c) \/ Expire(c) PROVE ReplyInv'
    <2>1. [kind |-> "command", id |-> c] \in Records /\ [kind |-> "progress", id |-> c] \in Records
      BY DEF Records
    <2> QED BY <1>1, <1>2, <2>1 DEF Submit, Progress, Expire, durable
  <1>3. CASE LinkDown \/ LinkUp \/ Restart
    <2>1. SameAnswers /\ UNCHANGED <<ledger, opLedger, runs>>
      BY <1>3 DEF LinkDown, LinkUp, Restart, durable, SameAnswers, Answers
    <2>2. CASE LinkDown
      BY <2>1, <2>2, QuietLedger, QuietHandle DEF LinkDown, ReplyInv, Current, durable
    <2>3. CASE LinkUp
      BY <2>1, <2>3, QuietLedger, QuietHandle DEF LinkUp, ReplyInv, Current, durable, Busy
    <2>4. CASE Restart
      BY <2>1, <2>4, BusyStates, QuietLedger, QuietHandle DEF Restart, EndDrain, ReplyInv
    <2> QED BY <1>3, <2>2, <2>3, <2>4
  <1> QED BY <1>2, <1>3 DEF World

LEMMA ReplyDrain ==
    ASSUME ReplyInv, ReadHead \/ FetchPage \/ FetchNothing \/ AckPage \/ AckAnswerLost \/ HttpFails
    PROVE  ReplyInv'
  <1>1. SameAnswers /\ UNCHANGED <<ledger, opLedger, runs>>
    BY DEF ReadHead, FetchPage, FetchNothing, AckPage, AckAnswerLost, HttpFails, durable,
           SameAnswers, Answers
  <1>2. pc' \notin Busy
    BY BusyStates DEF ReadHead, FetchPage, FetchNothing, AckPage, AckAnswerLost, HttpFails, EndDrain
  <1> QED BY <1>1, <1>2, QuietLedger, QuietHandle DEF ReplyInv

\* Where a command is started, refused or answered, its handler was not called.
LEMMA NotCalledYet ==
    ASSUME TypeOK, OnceInv, Current \in Tracked, Fresh \/ pc \in {"await", "resume", "start"}
    PROVE  ledger[Current] = Absent /\ runs[Current] = 0
  BY DEF OnceInv, Fresh

LEMMA ReplyHandle == TypeOK /\ OnceInv /\ ReplyInv /\ Handle => ReplyInv'
  <1> SUFFICES ASSUME TypeOK, OnceInv, ReplyInv, Handle PROVE ReplyInv'
    OBVIOUS
  <1>0. /\ UNCHANGED log /\ SameAnswers
        /\ idx' = idx => Current' = Current
    BY DEF Handle, ScanAhead, Skip, AnswerUnknown, AnswerAgain, RefuseEnvelope, Replay, RefuseExpired,
           AwaitLink, LinkBefore, StartCommand, StartOperation, CallHandler, HandlerReturns,
           RecordOperation, RecordAnswer, durable, SameAnswers, Answers, Current
  <1>c. /\ Handling \/ pc \in Busy => Current \in Commands
        /\ \A c \in Commands : Op[c] # NoOp => Op[c] \in Ops
    BY CurrentCommand DEF Handling, TypeOK, DrainOK, Ops
  <1>d. ledger \in [Tracked -> States] /\ opLedger \in [Ops -> OpStates] /\ runs \in [Commands -> Nat]
    BY DEF TypeOK, StoreOK
  \* Nothing was answered yet that the ledger holds no answer of.
  <1>e. ASSUME NEW c \in Tracked, ledger[c].state # "answered" PROVE Answers(c) = {}
    BY <1>e, HeldFields DEF ReplyInv, LedgerTrue
  <1>1. CASE ScanAhead \/ Skip
    <2>1. pc' \notin Busy /\ UNCHANGED <<ledger, opLedger, runs>>
      BY <1>1, BusyStates DEF ScanAhead, Skip, Handling, NextRecord, durable
    <2> QED BY <1>0, <2>1, QuietLedger, QuietHandle DEF ReplyInv
  <1>2. CASE AnswerUnknown
    <2>1. /\ Current \in Tracked /\ ledger[Current] = Started /\ pc' = "publish" /\ code' = "unknown"
          /\ ledger' = [ledger EXCEPT ![Current] = Held("unknown")]
          /\ UNCHANGED <<opLedger, runs>> /\ Current' = Current
      BY <1>0, <1>2 DEF AnswerUnknown
    <2>2. Answers(Current) = {}
      BY <1>e, <2>1, HeldFields
    <2>3. LedgerTrue'
      BY <1>0, <1>d, <2>1, <2>2, HeldFields DEF ReplyInv, LedgerTrue, SameAnswers, Truthful, Effect
    <2>4. HandleTrue'
      BY <1>d, <2>1 DEF HandleTrue
    <2> QED BY <2>3, <2>4 DEF ReplyInv
  <1>3. CASE AnswerAgain
    <2>1. /\ ledger[Current] = Held(code') /\ pc' = "publish"
          /\ UNCHANGED <<ledger, opLedger, runs>> /\ Current' = Current
      <3>1. Current \in Tracked /\ ledger[Current].state = "answered" /\ ledger[Current] \in States
        BY <1>3, <1>d DEF AnswerAgain
      <3>2. ledger[Current] = Held(ledger[Current].answer)
        BY <3>1, HeldFields DEF States
      <3> QED BY <1>0, <1>3, <3>2 DEF AnswerAgain, durable
    <2> QED BY <1>0, <2>1, QuietLedger DEF ReplyInv, HandleTrue
  <1>4. CASE RefuseEnvelope \/ RefuseExpired
    <2>1. /\ pc' = "answer" /\ code' \in {"invalid", "expired"} /\ Fresh
          /\ UNCHANGED <<ledger, opLedger, runs>> /\ Current' = Current
      BY <1>0, <1>4 DEF RefuseEnvelope, RefuseExpired, New, durable
    <2>2. HandleTrue'
      BY <2>1, NotCalledYet, HeldFields DEF HandleTrue, Truthful
    <2> QED BY <1>0, <2>1, <2>2, QuietLedger DEF ReplyInv
  <1>5. CASE Replay
    <2> DEFINE op == Op[Current]
               entry == opLedger[op]
    <2>1. /\ pc' = "answer" /\ Fresh /\ Current \in Commands /\ op \in Ops /\ op # NoOp
          /\ UNCHANGED <<ledger, runs>> /\ Current' = Current
          /\ entry # Absent /\ entry \in OpStates
      BY <1>0, <1>5, <1>c, <1>d DEF Replay, Fresh, Taking
    <2>2. /\ \/ opLedger' = [opLedger EXCEPT ![op] = Held(OpEntry(Material[Current], "unknown"))]
             \/ UNCHANGED opLedger
          /\ \/ code' \in {"unknown", "conflict"}
             \/ entry # Started /\ code' = entry.answer.code
      BY <1>5 DEF Replay
    <2>3. LedgerTrue'
      BY <1>0, <1>d, <2>1, <2>2, HeldFields
         DEF ReplyInv, LedgerTrue, SameAnswers, Truthful, Effect, Outcomes
    <2>4. Current \in Tracked => Truthful(Current, code')
      <3>1. Current \in Tracked => runs[Current] = 0
        BY <2>1, NotCalledYet
      <3>2. CASE code' \in {"unknown", "conflict"}
        BY <3>1, <3>2 DEF Truthful
      <3>3. CASE entry # Started /\ code' = entry.answer.code
        <4>1. entry.state = "answered"
          BY <2>1, <3>3, HeldFields DEF OpStates
        <4>2. code' \in Outcomes /\ (code' # "unknown" => \E d \in Commands : Op[d] = op /\ runs[d] > 0)
          BY <2>1, <3>3, <4>1 DEF ReplyInv, LedgerTrue
        <4> QED BY <2>1, <4>2 DEF Truthful, Effect, Outcomes
      <3> QED BY <2>2, <3>2, <3>3
    <2>5. HandleTrue'
      BY <2>1, <2>4, NotCalledYet, HeldFields DEF HandleTrue, Truthful, Effect
    <2> QED BY <2>3, <2>5 DEF ReplyInv
  <1>6. CASE AwaitLink
    <2>1. pc' \in {"start", "await"} /\ Fresh /\ UNCHANGED <<ledger, opLedger, runs>> /\ Current' = Current
      BY <1>0, <1>6 DEF AwaitLink, New, durable
    <2>2. HandleTrue'
      BY <2>1, NotCalledYet, HeldFields DEF HandleTrue
    <2> QED BY <1>0, <2>1, <2>2, QuietLedger DEF ReplyInv
  <1>7. CASE LinkBefore
    <2>1. /\ pc \in {"await", "resume"} /\ UNCHANGED <<ledger, opLedger, runs>> /\ Current' = Current
          /\ pc' = "start" \/ (pc' = "answer" /\ code' = "expired")
      BY <1>0, <1>7 DEF LinkBefore, durable
    <2>2. HandleTrue'
      BY <2>1, NotCalledYet, HeldFields DEF HandleTrue, Truthful
    <2> QED BY <1>0, <2>1, <2>2, QuietLedger DEF ReplyInv
  <1>8. CASE StartCommand
    <2>1. /\ pc = "start" /\ pc' \in {"run", "startOp"} /\ UNCHANGED <<opLedger, runs>> /\ Current' = Current
          /\ Current \in Tracked => ledger' = [ledger EXCEPT ![Current] = Started]
          /\ Current \notin Tracked => UNCHANGED ledger
      BY <1>0, <1>8 DEF StartCommand
    <2>2. Current \in Tracked => Answers(Current) = {}
      BY <1>e, <2>1, NotCalledYet, HeldFields
    <2>3. LedgerTrue'
      BY <1>0, <1>d, <2>1, <2>2, HeldFields DEF ReplyInv, LedgerTrue, SameAnswers, Truthful, Effect
    <2>4. HandleTrue'
      BY <1>d, <2>1, HeldFields DEF HandleTrue
    <2> QED BY <2>3, <2>4 DEF ReplyInv
  <1>9. CASE StartOperation
    <2>1. /\ pc = "startOp" /\ pc' = "run" /\ UNCHANGED <<ledger, runs>> /\ Current' = Current
          /\ opLedger' = [opLedger EXCEPT ![Op[Current]] = Started]
      BY <1>0, <1>9 DEF StartOperation
    <2>2. LedgerTrue'
      BY <1>0, <1>d, <2>1, HeldFields DEF ReplyInv, LedgerTrue, SameAnswers, Truthful, Effect
    <2> QED BY <2>1, <2>2, QuietHandle DEF ReplyInv, Busy
  <1>10. CASE CallHandler
    <2>1. /\ pc = "run" /\ pc' = "running" /\ UNCHANGED <<ledger, opLedger>> /\ Current' = Current
          /\ runs' = [runs EXCEPT ![Current] = @ + 1] /\ Current \in Commands
      BY <1>0, <1>10, <1>c DEF CallHandler, durable, Busy
    <2>2. /\ \A d \in Commands : runs[d] > 0 => runs'[d] > 0
          /\ \A d \in Commands : d # Current => runs'[d] = runs[d]
          /\ runs'[Current] > 0
      BY <1>d, <2>1
    <2>3. Current \in Tracked => ledger[Current].state # "answered"
      BY <2>1 DEF ReplyInv, HandleTrue, Busy
    <2>4. LedgerTrue'
      <3>1. \A c \in Tracked : ledger[c].state = "answered" => Truthful(c, ledger[c].answer)'
        <4> SUFFICES ASSUME NEW c \in Tracked, ledger[c].state = "answered"
                     PROVE  Truthful(c, ledger[c].answer)'
          OBVIOUS
        <4>1. c # Current /\ c \in Commands /\ Truthful(c, ledger[c].answer)
          BY <2>3, CommandAssumption DEF ReplyInv, LedgerTrue
        <4> QED BY <2>1, <2>2, <4>1 DEF Truthful, Effect
      <3> QED BY <1>0, <2>1, <2>2, <3>1 DEF ReplyInv, LedgerTrue, SameAnswers
    <2>5. HandleTrue'
      BY <2>1, <2>2, <2>3 DEF HandleTrue
    <2> QED BY <2>4, <2>5 DEF ReplyInv
  <1>11. CASE HandlerReturns
    <2>1. /\ pc = "running" /\ pc' \in {"answer", "answerOp"} /\ code' \in Outcomes
          /\ UNCHANGED <<ledger, opLedger, runs>> /\ Current' = Current /\ Current \in Commands
      BY <1>0, <1>11, <1>c DEF HandlerReturns, durable, Busy
    <2>2. Effect(Current) /\ runs[Current] > 0
      BY <2>1 DEF ReplyInv, HandleTrue, Effect
    <2>3. HandleTrue'
      <3>1. Truthful(Current, code)'
        BY <2>1, <2>2 DEF Truthful, Effect, Outcomes
      <3> QED BY <2>1, <2>2, <3>1 DEF ReplyInv, HandleTrue, Busy
    <2> QED BY <1>0, <2>1, <2>3, QuietLedger DEF ReplyInv
  <1>12. CASE RecordOperation
    <2>1. /\ pc = "answerOp" /\ pc' = "answer" /\ UNCHANGED <<ledger, runs, code>> /\ Current' = Current
          /\ opLedger' = [opLedger EXCEPT ![Op[Current]] = Held(OpEntry(Material[Current], code))]
          /\ Current \in Commands
      BY <1>0, <1>12, <1>c DEF RecordOperation, Busy
    <2>2. runs[Current] > 0 /\ code \in Outcomes /\ Effect(Current)
      BY <2>1 DEF ReplyInv, HandleTrue, Effect
    <2>3. LedgerTrue'
      BY <1>0, <1>d, <2>1, <2>2, HeldFields DEF ReplyInv, LedgerTrue, SameAnswers, Truthful, Effect
    <2>4. HandleTrue'
      <3>1. Truthful(Current, code)'
        BY <2>1, <2>2 DEF Truthful, Effect, Outcomes
      <3> QED BY <2>1, <3>1 DEF ReplyInv, HandleTrue, Busy
    <2> QED BY <2>3, <2>4 DEF ReplyInv
  <1>13. CASE RecordAnswer
    <2>1. CASE Current \notin Tracked
      <3>1. pc' \notin Busy /\ UNCHANGED <<ledger, opLedger, runs>>
        BY <1>13, <2>1, BusyStates DEF RecordAnswer, NextRecord
      <3> QED BY <1>0, <3>1, QuietLedger, QuietHandle DEF ReplyInv
    <2>2. CASE Current \in Tracked
      <3>1. /\ pc = "answer" /\ pc' = "publish" /\ UNCHANGED <<opLedger, runs, code>> /\ Current' = Current
            /\ ledger' = [ledger EXCEPT ![Current] = Held(code)]
        BY <1>0, <1>13, <2>2 DEF RecordAnswer
      <3>2. Truthful(Current, code) /\ Answers(Current) = {}
        BY <1>e, <2>2, <3>1 DEF ReplyInv, HandleTrue, Busy
      <3>3. LedgerTrue'
        BY <1>0, <1>d, <2>2, <3>1, <3>2, HeldFields DEF ReplyInv, LedgerTrue, SameAnswers, Truthful, Effect
      <3>4. HandleTrue'
        BY <1>d, <2>2, <3>1 DEF HandleTrue
      <3> QED BY <3>3, <3>4 DEF ReplyInv
    <2> QED BY <2>1, <2>2
  <1> QED BY <1>1, <1>2, <1>3, <1>4, <1>5, <1>6, <1>7, <1>8, <1>9, <1>10, <1>11, <1>12, <1>13 DEF Handle


\* Publishing an answer adds it to the answers of its command.
LEMMA PublishAnswers ==
    ASSUME TypeOK, Publish \/ PublishUnconfirmed
    PROVE  /\ pc = "publish" /\ Current \in Tracked /\ UNCHANGED <<ledger, opLedger, runs>>
           /\ log'[idx] = log[idx]
           /\ \A c : Answers(c)' = Answers(c) \cup (IF c = Current THEN {Len(log) + 1} ELSE {})
           /\ \A c : \A i \in Answers(c) : log'[i] = log[i]
           /\ log'[Len(log) + 1].code = code
  <1> DEFINE r == [kind |-> "answer", id |-> Current, code |-> code]
  <1>1. /\ pc = "publish" /\ Current \in Tracked /\ log' = Append(log, r)
        /\ UNCHANGED <<ledger, opLedger, runs>> /\ log \in Seq(Records) /\ code \in Codes
        /\ idx < page.next
    BY DEF Publish, PublishUnconfirmed, TypeOK, StoreOK, DrainOK, Busy
  <1>2. r \in Records
    BY <1>1 DEF Records
  <1>3. /\ Len(log') = Len(log) + 1 /\ Len(log) \in Nat
        /\ \A i \in 1 .. Len(log) : log'[i] = log[i]
        /\ log'[Len(log) + 1] = r
    BY <1>1, <1>2, AppendKeeps
  <1>4. \A i \in 1 .. Len(log') : i \in 1 .. Len(log) \/ i = Len(log) + 1
    BY <1>3
  <1>5. 1 .. Len(log) \subseteq 1 .. Len(log') /\ Len(log) + 1 \in 1 .. Len(log')
    BY <1>3
  <1>6. idx \in 1 .. Len(log)
    BY <1>1, CurrentCommand
  <1>7. log'[idx] = log[idx]
    BY <1>3, <1>6
  <1>8. r.kind = "answer" /\ r.id = Current /\ r.code = code
    OBVIOUS
  <1> HIDE DEF r
  <1>9. ASSUME NEW c PROVE Answers(c)' = Answers(c) \cup (IF c = Current THEN {Len(log) + 1} ELSE {})
    BY <1>3, <1>4, <1>5, <1>8 DEF Answers
  <1>10. \A c : \A i \in Answers(c) : log'[i] = log[i]
    BY <1>3 DEF Answers
  <1> QED BY <1>1, <1>3, <1>7, <1>8, <1>9, <1>10

LEMMA ReplyPublish ==
    ASSUME TypeOK, ReplyInv, Publish \/ PublishUnconfirmed
    PROVE  ReplyInv'
  <1>1. ledger[Current] = Held(code) /\ Len(log) \in Nat
    BY PublishAnswers DEF ReplyInv, HandleTrue, TypeOK, StoreOK
  <1>2. LedgerTrue'
    BY <1>1, PublishAnswers DEF ReplyInv, LedgerTrue, Truthful, Effect
  <1>3. CASE Publish
    <2>1. pc' \notin Busy
      BY <1>3, BusyStates DEF Publish, NextRecord
    <2> QED BY <1>2, <2>1, PublishAnswers, QuietHandle DEF ReplyInv
  <1>4. CASE PublishUnconfirmed
    <2>1. pc' = pc /\ code' = code /\ Current' = Current
      BY <1>4, PublishAnswers DEF PublishUnconfirmed, Current
    <2> QED BY <1>2, <2>1, PublishAnswers, QuietHandle DEF ReplyInv
  <1> QED BY <1>3, <1>4

LEMMA ReplyInit == Init => ReplyInv
  <1> SUFFICES ASSUME Init PROVE ReplyInv
    OBVIOUS
  <1>1. pc = "idle" /\ log = <<>> /\ \A c : Answers(c) = {}
    BY DEF Init, Answers
  <1>2. LedgerTrue
    BY <1>1, HeldFields DEF Init, LedgerTrue
  <1>3. HandleTrue
    BY <1>1 DEF HandleTrue, Busy
  <1> QED BY <1>2, <1>3 DEF ReplyInv

LEMMA ReplyNext == Durable /\ TypeOK /\ OnceInv /\ ReplyInv /\ [Next]_vars => ReplyInv'
  <1>1. ASSUME ReplyInv, UNCHANGED vars PROVE ReplyInv'
    <2>1. SameAnswers /\ UNCHANGED <<ledger, opLedger, runs>> /\ pc' = pc /\ Current' = Current /\ code' = code
      BY <1>1 DEF vars, SameAnswers, Answers, Current
    <2> QED BY <1>1, <2>1, QuietLedger, QuietHandle DEF ReplyInv
  <1> QED BY <1>1, ReplyWorld, ReplyDrain, ReplyHandle, ReplyPublish DEF Next

\* A step that answers nobody and calls no handler is none of the contract's.
LEMMA ContractStutter ==
    ASSUME SameAnswers, UNCHANGED runs
    PROVE  UNCHANGED Contract!vars
  <1>1. \A c \in Tracked : {log[i].code : i \in Answers(c)}' = {log[i].code : i \in Answers(c)}
    BY DEF SameAnswers
  <1> QED BY <1>1 DEF Contract!vars

\* A call is the contract's call: in an operation nobody was called, and the
\* command has no answer.
LEMMA ContractCall ==
    ASSUME TypeOK, OnceInv, ReplyInv, CallHandler
    PROVE  \E c \in Commands : Contract!Call(c)
  <1>1. /\ pc = "run" /\ runs' = [runs EXCEPT ![Current] = @ + 1] /\ UNCHANGED log
        /\ Current \in Commands /\ runs \in [Commands -> Nat]
    BY CurrentCommand DEF CallHandler, durable, TypeOK, StoreOK, DrainOK, Busy
  <1>2. Contract!Once(Current) => Contract!Same(Current) \cap {c \in Commands : runs[c] > 0} = {}
    BY <1>1 DEF OnceInv, Contract!Once, Contract!Same
  <1>3. Current \in Tracked => {log[i].code : i \in Answers(Current)} = {}
    BY <1>1, HeldFields DEF ReplyInv, LedgerTrue, HandleTrue, Busy
  <1>4. {c \in Commands : runs'[c] > 0} = {c \in Commands : runs[c] > 0} \cup {Current}
    BY <1>1
  <1>5. [c \in Tracked |-> {log[i].code : i \in Answers(c)}]'
            = [c \in Tracked |-> {log[i].code : i \in Answers(c)}]
    BY <1>1 DEF Answers
  <1> QED BY <1>1, <1>2, <1>3, <1>4, <1>5 DEF Contract!Call

\* A publish is the contract's reply with the code the ledger holds.
LEMMA ContractReply ==
    ASSUME TypeOK, ReplyInv, Publish \/ PublishUnconfirmed
    PROVE  \E c \in Tracked, y \in Contract!Codes : Contract!Reply(c, y)
  <1>1. /\ Current \in Tracked /\ Current \in Commands /\ code \in Codes /\ UNCHANGED runs
        /\ ledger[Current] = Held(code) /\ runs \in [Commands -> Nat]
    BY PublishAnswers, CommandAssumption DEF ReplyInv, HandleTrue, TypeOK, StoreOK, DrainOK
  <1>2. Truthful(Current, code) /\ \A i \in Answers(Current) : log[i].code = code
    BY <1>1, HeldFields DEF ReplyInv, LedgerTrue
  <1>3. code \in Contract!Codes
    BY <1>1 DEF Contract!Codes, Contract!Ran, Contract!Refused, Codes, Outcomes
  <1>4. code \in Contract!Ran => Contract!Same(Current) \cap {c \in Commands : runs[c] > 0} # {}
    BY <1>2 DEF Contract!Ran, Contract!Same, Truthful, Effect
  <1>5. code \in Contract!Refused => Current \notin {c \in Commands : runs[c] > 0}
    BY <1>2 DEF Contract!Refused, Truthful
  <1>6. ASSUME NEW c \in Tracked
        PROVE  {log[i].code : i \in Answers(c)}'
                   = IF c = Current THEN {code} ELSE {log[i].code : i \in Answers(c)}
    BY <1>2, PublishAnswers
  <1>7. [c \in Tracked |-> {log[i].code : i \in Answers(c)}]'
            = [[c \in Tracked |-> {log[i].code : i \in Answers(c)}] EXCEPT ![Current] = {code}]
    BY <1>1, <1>6
  <1>8. [c \in Tracked |-> {log[i].code : i \in Answers(c)}][Current] \subseteq {code}
    BY <1>1, <1>2
  <1> QED BY <1>1, <1>3, <1>4, <1>5, <1>7, <1>8 DEF Contract!Reply

LEMMA ContractStep ==
    ASSUME TypeOK, OnceInv, ReplyInv, [Next]_vars
    PROVE  [Contract!Next]_(Contract!vars)
  <1>1. CASE Publish \/ PublishUnconfirmed
    BY <1>1, ContractReply DEF Contract!Next
  <1>2. CASE CallHandler
    BY <1>2, ContractCall DEF Contract!Next
  <1>3. ASSUME log' = log, UNCHANGED runs PROVE UNCHANGED Contract!vars
    BY <1>3, ContractStutter DEF SameAnswers, Answers
  <1>4. CASE World
    <2>1. ASSUME NEW c \in Commands, Submit(c) \/ Progress(c) PROVE UNCHANGED Contract!vars
      <3>1. [kind |-> "command", id |-> c] \in Records /\ [kind |-> "progress", id |-> c] \in Records
        BY DEF Records
      <3> QED BY <2>1, <3>1, AppendAnswers, ContractStutter DEF Submit, Progress, TypeOK, StoreOK
    <2>2. ASSUME NEW c \in Commands, Expire(c) PROVE UNCHANGED Contract!vars
      BY <1>3, <2>2 DEF Expire, durable
    <2>3. CASE LinkDown \/ LinkUp \/ Restart
      BY <1>3, <2>3 DEF LinkDown, LinkUp, Restart, durable
    <2> QED BY <1>4, <2>1, <2>2, <2>3 DEF World
  <1>5. CASE ReadHead \/ FetchPage \/ FetchNothing \/ HttpFails \/ AckPage \/ AckAnswerLost
    BY <1>3, <1>5 DEF ReadHead, FetchPage, FetchNothing, HttpFails, AckPage, AckAnswerLost, durable
  <1>6. CASE Handle /\ ~CallHandler
    BY <1>3, <1>6 DEF Handle, ScanAhead, Skip, AnswerUnknown, AnswerAgain, RefuseEnvelope, Replay,
       RefuseExpired, AwaitLink, LinkBefore, StartCommand, StartOperation, HandlerReturns,
       RecordOperation, RecordAnswer, durable
  <1>7. CASE UNCHANGED vars
    BY <1>3, <1>7 DEF vars
  <1> QED BY <1>1, <1>2, <1>4, <1>5, <1>6, <1>7 DEF Next

\* Over a durable ledger the executor implements the contract: an operation has
\* effect once, a command gets one outcome, an outcome of the handler is only
\* reported when a handler ran, and a refused command never ran.
THEOREM ImplementsContract == ASSUME Durable PROVE Spec => ContractSpec
  <1>1. Spec => []OnceInv
    BY Durable, OnceInvariant
  <1>2. TypeOK /\ OnceInv /\ ReplyInv /\ [Next]_vars => ReplyInv'
    BY Durable, ReplyNext
  <1>3. Init => Contract!Init
    <2> SUFFICES ASSUME Init PROVE Contract!Init
      OBVIOUS
    <2>1. log = <<>> /\ \A c \in Commands : ~(runs[c] > 0)
      BY DEF Init
    <2>2. \A c : Answers(c) = {}
      BY <2>1 DEF Answers
    <2> QED BY <2>1, <2>2 DEF Contract!Init
  <1>4. TypeOK /\ OnceInv /\ ReplyInv /\ [Next]_vars => [Contract!Next]_(Contract!vars)
    BY ContractStep
  <1> QED BY <1>1, <1>2, <1>3, <1>4, ReplyInit, TypeCorrect, PTL
          DEF Spec, ContractSpec, Contract!Spec


-----------------------------------------------------------------------------
(* An expired command never runs *)

\* What ExpiredNeverRuns needs to be stable: the command is not on its way from
\* the look at its deadline to its call.
Refusable(c) ==
    /\ c \in expired /\ runs[c] = 0
    /\ ~(pc \in {"start", "startOp", "run"} /\ Current = c)

LEMMA RefusableStable ==
    ASSUME NEW c \in Mortal, TypeOK, Refusable(c), [Next]_vars
    PROVE  Refusable(c)'
  <1> USE DEF Refusable
  <1>q. ASSUME UNCHANGED runs, expired \subseteq expired', pc' \notin {"start", "startOp", "run"}
        PROVE  Refusable(c)'
    BY <1>q
  <1>k. ASSUME UNCHANGED <<runs, pc, idx>>, expired \subseteq expired',
               NEW r \in Records, log' = log \/ log' = Append(log, r)
        PROVE  Refusable(c)'
    <2>1. pc \in Busy => Current' = Current
      BY <1>k, CurrentKept
    <2> QED BY <1>k, <2>1 DEF Busy
  <1>1. CASE World
    <2>1. ASSUME NEW d \in Commands, Submit(d) \/ Progress(d) \/ Expire(d) PROVE Refusable(c)'
      <3>1. [kind |-> "command", id |-> d] \in Records /\ [kind |-> "progress", id |-> d] \in Records
        BY DEF Records
      <3> QED BY <1>k, <2>1, <3>1 DEF Submit, Progress, Expire, durable, world
    <2>2. CASE LinkDown \/ LinkUp \/ Restart
      BY <2>2, <1>q DEF LinkDown, LinkUp, Restart, EndDrain, durable, Current
    <2> QED BY <1>1, <2>1, <2>2 DEF World
  <1>2. CASE ReadHead \/ FetchPage \/ FetchNothing \/ HttpFails \/ AckPage \/ AckAnswerLost
    BY <1>2, <1>q DEF ReadHead, FetchPage, FetchNothing, HttpFails, AckPage, AckAnswerLost, EndDrain, world
  <1>3. CASE Handle
    <2>1. CASE ScanAhead \/ Skip \/ AnswerUnknown \/ AnswerAgain \/ RefuseEnvelope \/ Replay \/ RefuseExpired
               \/ HandlerReturns \/ RecordOperation \/ RecordAnswer
      BY <2>1, <1>q DEF ScanAhead, Skip, Handling, AnswerUnknown, AnswerAgain, RefuseEnvelope, Replay,
         RefuseExpired, HandlerReturns, RecordOperation, RecordAnswer, NextRecord, world
    <2>2. CASE AwaitLink \/ LinkBefore \/ StartCommand \/ StartOperation
      BY <2>2 DEF AwaitLink, LinkBefore, StartCommand, StartOperation, Current, durable, world
    <2>3. CASE CallHandler
      <3>1. Current # c /\ runs' = [runs EXCEPT ![Current] = @ + 1] /\ pc' = "running" /\ UNCHANGED expired
        BY <2>3 DEF CallHandler, world
      <3> QED BY <3>1, CommandAssumption DEF TypeOK, StoreOK
    <2> QED BY <1>3, <2>1, <2>2, <2>3 DEF Handle
  <1>4. CASE Publish \/ PublishUnconfirmed
    BY <1>4, <1>q DEF Publish, PublishUnconfirmed, NextRecord, world
  <1>5. CASE UNCHANGED vars
    BY <1>5 DEF vars, Current
  <1> QED BY <1>1, <1>2, <1>3, <1>4, <1>5 DEF Next

\* A command found expired is never executed afterwards, over either ledger,
\* however often it is resent and the process stops.
THEOREM ExpiredStaysUnrun == Spec => ExpiredNeverRuns
  <1>1. ASSUME NEW c \in Mortal
        PROVE  Spec => []((pc \in {"await", "resume"} \/ Handling) /\ Current = c /\ c \in expired /\ runs[c] = 0
                            => [](runs[c] = 0))
    <2>1. (pc \in {"await", "resume"} \/ Handling) /\ Current = c /\ c \in expired /\ runs[c] = 0
             => Refusable(c)
      BY DEF Refusable, Handling
    <2>2. TypeOK /\ Refusable(c) /\ [Next]_vars => Refusable(c)'
      BY RefusableStable
    <2>3. Refusable(c) => runs[c] = 0
      BY DEF Refusable
    <2> QED BY <2>1, <2>2, <2>3, TypeCorrect, PTL DEF Spec
  <1> QED BY <1>1 DEF ExpiredNeverRuns


-----------------------------------------------------------------------------
(* No call of a command that was answered, over a ledger in memory *)

\* Before the first stop, the ledger knows every answer in the stream, and on
\* its way to the call a command has the entry that says it was not answered.
MemoryInv ==
    /\ \A c \in Tracked : stops = 0 /\ Answers(c) # {} => ledger[c].state = "answered"
    /\ pc \in {"await", "resume", "start"} /\ Current \in Tracked => ledger[Current] = Absent
    /\ pc \in {"startOp", "run"} /\ Current \in Tracked => ledger[Current] = Started
    /\ pc = "publish" => ledger[Current].state = "answered"

LEMMA MemoryQuiet ==
    ASSUME MemoryInv, SameAnswers, UNCHANGED ledger, stops' = 0 => stops = 0,
           \/ pc' \notin {"await", "resume", "start", "startOp", "run", "publish"}
           \/ pc' = pc /\ Current' = Current
           \/ pc = "await" /\ pc' = "resume" /\ Current' = Current
    PROVE  MemoryInv'
  BY DEF MemoryInv, SameAnswers

LEMMA MemoryWorld == TypeOK /\ MemoryInv /\ World => MemoryInv'
  <1> SUFFICES ASSUME TypeOK, MemoryInv, World PROVE MemoryInv'
    OBVIOUS
  <1>0. log \in Seq(Records) /\ stops \in Nat
    BY DEF TypeOK, StoreOK
  <1>1. ASSUME NEW r \in Records, r.kind # "answer", log' = log \/ log' = Append(log, r),
               UNCHANGED <<ledger, pc, idx, stops>>
        PROVE  MemoryInv'
    <2>1. SameAnswers
      BY <1>0, <1>1, AppendAnswers DEF SameAnswers, Answers
    <2>2. pc \in Busy => Current' = Current
      BY <1>1, CurrentKept
    <2> QED BY <1>1, <2>1, <2>2, MemoryQuiet DEF Busy
  <1>2. ASSUME NEW c \in Commands, Submit(c) \/ Progress(c) \/ Expire(c) PROVE MemoryInv'
    <2>1. [kind |-> "command", id |-> c] \in Records /\ [kind |-> "progress", id |-> c] \in Records
      BY DEF Records
    <2> QED BY <1>1, <1>2, <2>1 DEF Submit, Progress, Expire, durable, world
  <1>3. CASE LinkDown \/ LinkUp
    <2>1. SameAnswers /\ UNCHANGED <<ledger, stops>> /\ Current' = Current
      BY <1>3 DEF LinkDown, LinkUp, durable, Current, SameAnswers, Answers
    <2> QED BY <1>3, <2>1, MemoryQuiet DEF LinkDown, LinkUp
  <1>4. CASE Restart
    <2>1. pc' = "idle" /\ stops' # 0
      BY <1>0, <1>4 DEF Restart, EndDrain
    <2> QED BY <2>1 DEF MemoryInv
  <1> QED BY <1>2, <1>3, <1>4 DEF World

LEMMA MemoryDrain ==
    ASSUME MemoryInv, ReadHead \/ FetchPage \/ FetchNothing \/ AckPage \/ AckAnswerLost \/ HttpFails
    PROVE  MemoryInv'
  <1>1. SameAnswers /\ UNCHANGED <<ledger, stops>>
    BY DEF ReadHead, FetchPage, FetchNothing, AckPage, AckAnswerLost, HttpFails, durable, world,
           SameAnswers, Answers
  <1>2. pc' \in {"idle", "fetch", "record"}
    BY DEF ReadHead, FetchPage, FetchNothing, AckPage, AckAnswerLost, HttpFails, EndDrain
  <1> QED BY <1>1, <1>2, MemoryQuiet

LEMMA MemoryHandle == TypeOK /\ MemoryInv /\ Handle => MemoryInv'
  <1> SUFFICES ASSUME TypeOK, MemoryInv, Handle PROVE MemoryInv'
    OBVIOUS
  <1>0. /\ SameAnswers /\ UNCHANGED stops
        /\ idx' = idx => Current' = Current
    BY DEF Handle, ScanAhead, Skip, AnswerUnknown, AnswerAgain, RefuseEnvelope, Replay, RefuseExpired,
           AwaitLink, LinkBefore, StartCommand, StartOperation, CallHandler, HandlerReturns,
           RecordOperation, RecordAnswer, durable, world, SameAnswers, Answers, Current
  <1>d. ledger \in [Tracked -> States]
    BY DEF TypeOK, StoreOK
  <1>1. CASE ScanAhead \/ Skip \/ RefuseEnvelope \/ Replay \/ RefuseExpired \/ CallHandler
             \/ HandlerReturns \/ RecordOperation
    <2>1. UNCHANGED ledger /\ pc' \in {"record", "answer", "running", "answerOp"}
      BY <1>1 DEF ScanAhead, Skip, Handling, RefuseEnvelope, Replay, RefuseExpired, CallHandler,
         HandlerReturns, RecordOperation, NextRecord, durable
    <2> QED BY <1>0, <2>1, MemoryQuiet
  <1>2. CASE AnswerUnknown \/ AnswerAgain
    <2>1. /\ Current \in Tracked /\ pc' = "publish" /\ Current' = Current
          /\ \/ ledger' = [ledger EXCEPT ![Current] = Held("unknown")]
             \/ UNCHANGED ledger /\ ledger[Current].state = "answered"
      BY <1>0, <1>2 DEF AnswerUnknown, AnswerAgain, durable
    <2> QED BY <1>0, <1>d, <2>1, HeldFields DEF MemoryInv, SameAnswers
  <1>3. CASE AwaitLink
    <2>1. UNCHANGED ledger /\ pc' \in {"start", "await"} /\ Current' = Current
          /\ (Current \in Tracked => ledger[Current] = Absent)
      BY <1>0, <1>3 DEF AwaitLink, New, Fresh, durable
    <2> QED BY <1>0, <2>1 DEF MemoryInv, SameAnswers
  <1>4. CASE LinkBefore
    <2>1. UNCHANGED ledger /\ pc \in {"await", "resume"} /\ pc' \in {"start", "answer"} /\ Current' = Current
      BY <1>0, <1>4 DEF LinkBefore, durable
    <2> QED BY <1>0, <2>1 DEF MemoryInv, SameAnswers
  <1>5. CASE StartCommand
    <2>1. /\ pc = "start" /\ pc' \in {"startOp", "run"} /\ Current' = Current
          /\ Current \in Tracked => ledger[Current] = Absent /\ ledger' = [ledger EXCEPT ![Current] = Started]
          /\ Current \notin Tracked => UNCHANGED ledger
      BY <1>0, <1>5 DEF StartCommand, MemoryInv
    <2> QED BY <1>0, <1>d, <2>1, HeldFields DEF MemoryInv, SameAnswers
  <1>6. CASE StartOperation
    <2>1. UNCHANGED ledger /\ pc = "startOp" /\ pc' = "run" /\ Current' = Current
      BY <1>0, <1>6 DEF StartOperation
    <2> QED BY <1>0, <2>1 DEF MemoryInv, SameAnswers
  <1>7. CASE RecordAnswer
    <2>1. /\ \/ pc' = "record" /\ UNCHANGED ledger
             \/ /\ pc' = "publish" /\ Current' = Current /\ Current \in Tracked
                /\ ledger' = [ledger EXCEPT ![Current] = Held(code)]
      BY <1>0, <1>7 DEF RecordAnswer, NextRecord
    <2> QED BY <1>0, <1>d, <2>1, HeldFields, MemoryQuiet DEF MemoryInv, SameAnswers
  <1> QED BY <1>1, <1>2, <1>3, <1>4, <1>5, <1>6, <1>7 DEF Handle

LEMMA MemoryPublish ==
    ASSUME TypeOK, MemoryInv, Publish \/ PublishUnconfirmed
    PROVE  MemoryInv'
  <1>1. UNCHANGED stops /\ (pc' = "record" \/ (pc' = "publish" /\ idx' = idx))
    BY DEF Publish, PublishUnconfirmed, NextRecord, world
  <1>2. idx' = idx => Current' = Current
    BY PublishAnswers DEF Current
  <1> QED BY <1>1, <1>2, PublishAnswers DEF MemoryInv

LEMMA MemoryInvariant == Spec => []MemoryInv
  <1>1. Init => MemoryInv
    BY DEF Init, MemoryInv, Answers
  <1>2. TypeOK /\ MemoryInv /\ [Next]_vars => MemoryInv'
    <2>1. ASSUME MemoryInv, UNCHANGED vars PROVE MemoryInv'
      BY <2>1 DEF vars, MemoryInv, Answers, Current
    <2> QED BY <2>1, MemoryWorld, MemoryDrain, MemoryHandle, MemoryPublish DEF Next
  <1> QED BY <1>1, <1>2, TypeCorrect, PTL DEF Spec


\* If offset i holds an answer, _answered knows it.
Noted(i) == log[i].kind = "answer" => log[i].id \in answered

\* _answered knows the answers past the cursor that a scan read, those of the
\* page and, once the page was scanned ahead or if it ends with the stream, those
\* behind it; so a command on its way to the call has none of them.
SeenInv ==
    /\ \A i \in cursor + 1 .. scannedTo - 1 : Noted(i)
    /\ Paging => \A i \in page.from .. page.next - 1 : Noted(i)
    /\ Paging /\ (ahead \/ page.next - page.from < PageSize) =>
          \A i \in page.next .. Len(log) : Noted(i) \/ (pc = "publish" /\ log[i].id = Current)
    /\ pc \in Busy \ {"publish"} /\ Current \in Tracked => \A i \in Answers(Current) : i <= cursor

\* While _ANSWERED_LIMIT covers the commands, no answer is forgotten.
LEMMA RememberedAll ==
    ASSUME IsFiniteSet(Tracked), Cardinality(Tracked) <= AnsweredLimit,
           NEW old \in SUBSET Tracked, NEW new \in SUBSET Tracked, NEW kept \in Remembered(old, new)
    PROVE  kept = old \cup new
  <1>1. old \cup new \in SUBSET Tracked
    OBVIOUS
  <1>2. /\ IsFiniteSet(old \cup new) /\ Cardinality(old \cup new) <= Cardinality(Tracked)
        /\ Cardinality(old \cup new) \in Nat /\ Cardinality(Tracked) \in Nat
    BY <1>1, FS_Subset, FS_CardinalityType
  <1>3. Cardinality(old \cup new) <= AnsweredLimit
    BY <1>2, LimitAssumption
  <1> QED BY <1>3 DEF Remembered

\* A command taken from the page was not answered past the cursor.
LEMMA TakenSeen ==
    ASSUME TypeOK, SeenInv, Taking, Current \in Tracked
    PROVE  \A i \in Answers(Current) : i <= cursor
  <1> SUFFICES ASSUME NEW i \in Answers(Current), ~(i <= cursor) PROVE FALSE
    OBVIOUS
  <1>1. /\ i \in 1 .. Len(log) /\ log[i].kind = "answer" /\ log[i].id = Current
        /\ Current \notin answered /\ pc = "record" /\ Paging
        /\ page.from = cursor + 1 /\ cursor \in Nat /\ page.next \in Nat /\ page.from \in Nat
        /\ Len(log) \in Nat
    BY DEF Answers, Taking, Handling, IsAnswered, Paging, TypeOK, StoreOK, DrainOK
  <1>2. ahead \/ page.next - page.from < PageSize
    BY <1>1, LimitAssumption DEF Taking, NeedsLookAhead, IsAnswered
  <1>3. i \in page.from .. page.next - 1 \/ i \in page.next .. Len(log)
    BY <1>1
  <1> QED BY <1>1, <1>2, <1>3 DEF SeenInv, Noted

\* A step that answers nobody and notes nothing.
LEMMA SeenQuiet ==
    ASSUME TypeOK, SeenInv, NEW r \in Records, r.kind # "answer", log' = log \/ log' = Append(log, r),
           UNCHANGED <<answered, scannedTo, cursor>>,
           \/ ~Paging'
           \/ Paging /\ page' = page /\ ahead' = ahead /\ (pc # "publish" \/ (pc' = pc /\ idx' = idx)),
           \/ pc' \notin Busy \ {"publish"}
           \/ idx' = idx /\ pc \in Busy \ {"publish"}
           \/ idx' = idx /\ Taking
    PROVE  SeenInv'
  <1>1. /\ log \in Seq(Records) /\ Len(log) \in Nat /\ cursor \in Nat /\ scannedTo \in 0 .. Len(log) + 1
        /\ page.from \in Nat \ {0} /\ page.next \in Nat /\ page.next <= Len(log) + 1
    BY DEF TypeOK, StoreOK, DrainOK
  <1>2. /\ log' \in Seq(Records) /\ \A i \in 1 .. Len(log) : log'[i] = log[i]
        /\ \A i \in 1 .. Len(log') : i \in 1 .. Len(log) \/ log'[i].kind # "answer"
    <2>1. CASE log' = log
      BY <1>1, <2>1
    <2>2. CASE log' = Append(log, r)
      BY <1>1, <2>2, AppendKeeps
    <2> QED BY <2>1, <2>2
  <1>3. ASSUME NEW i \in 1 .. Len(log'), i \in 1 .. Len(log) => Noted(i) PROVE Noted(i)'
    BY <1>2, <1>3 DEF Noted
  <1>l. Len(log') \in Nat /\ Len(log') >= Len(log)
    <2>1. CASE log' = log
      BY <1>1, <2>1
    <2>2. CASE log' = Append(log, r)
      BY <1>1, <2>2, AppendKeeps
    <2> QED BY <2>1, <2>2
  <1>c. idx < page.next => idx \in 1 .. Len(log) /\ log'[idx] = log[idx]
    BY <1>2, CurrentCommand
  <1>4. \A i \in cursor + 1 .. scannedTo - 1 : Noted(i)'
    <2> SUFFICES ASSUME NEW i \in cursor + 1 .. scannedTo - 1 PROVE Noted(i)'
      OBVIOUS
    <2>1. Noted(i) BY DEF SeenInv
    <2> QED BY <1>1, <1>3, <1>l, <2>1
  <1>5. Paging' => \A i \in page'.from .. page'.next - 1 : Noted(i)'
    <2> SUFFICES ASSUME Paging', NEW i \in page.from .. page.next - 1 PROVE Noted(i)'
      OBVIOUS
    <2>1. Noted(i) BY DEF SeenInv
    <2> QED BY <1>1, <1>3, <1>l, <2>1
  <1>6. Paging' /\ (ahead' \/ page'.next - page'.from < PageSize) =>
          \A i \in page'.next .. Len(log') : Noted(i)' \/ (pc' = "publish" /\ log'[i].id = Current')
    <2> SUFFICES ASSUME Paging', ahead \/ page.next - page.from < PageSize,
                        NEW i \in page.next .. Len(log'), ~Noted(i)'
                 PROVE  pc' = "publish" /\ log'[i].id = Current'
      OBVIOUS
    <2>0. i \in Nat /\ i # 0
      <3>1. page.next >= page.from
        BY DEF TypeOK, DrainOK
      <3> QED BY <1>1, <1>l, <3>1
    <2>1. i \in 1 .. Len(log) /\ ~Noted(i)
      BY <1>3, <1>l, <2>0
    <2>2. pc = "publish" /\ log[i].id = Current
      BY <2>1 DEF SeenInv
    <2>3. pc' = "publish" /\ idx' = idx /\ idx < page.next
      BY <2>2 DEF TypeOK, DrainOK, Busy
    <2> QED BY <1>2, <1>c, <2>1, <2>2, <2>3 DEF Current
  <1>7. pc' \in Busy \ {"publish"} /\ Current' \in Tracked => \A i \in Answers(Current)' : i <= cursor
    <2> SUFFICES ASSUME pc' \in Busy \ {"publish"}, Current' \in Tracked, NEW i \in Answers(Current)'
                 PROVE  i <= cursor
      OBVIOUS
    <2>1. idx' = idx /\ (pc \in Busy \ {"publish"} \/ Taking)
      OBVIOUS
    <2>2. idx < page.next
      BY <2>1 DEF Taking, Handling, TypeOK, DrainOK
    <2>3. Current' = Current
      BY <1>c, <2>1, <2>2 DEF Current
    <2>4. i \in 1 .. Len(log') /\ log'[i].kind = "answer" /\ log'[i].id = Current
      BY <2>3 DEF Answers
    <2>5. i \in Answers(Current)
      BY <1>2, <2>4 DEF Answers
    <2> QED BY <2>1, <2>3, <2>5, TakenSeen DEF SeenInv
  <1> QED BY <1>4, <1>5, <1>6, <1>7 DEF SeenInv

\* What is known of the stream once a scan read it up to offset hi.
LEMMA ScanSeen ==
    ASSUME TypeOK, SeenInv, Handling, NEW hi \in Int, hi <= Len(log),
           answered' = answered \cup AnsweredIn(ScanFrom, hi), log' = log
    PROVE  /\ \A i \in cursor + 1 .. hi : Noted(i)'
           /\ \A i \in cursor + 1 .. scannedTo - 1 : Noted(i)'
           /\ \A i \in page.from .. page.next - 1 : Noted(i)'
  <1>1. /\ page.from = cursor + 1 /\ cursor \in Nat /\ page.next \in Nat /\ scannedTo \in Nat /\ Paging
    BY DEF Handling, Paging, TypeOK, StoreOK, DrainOK
  <1>2. ASSUME NEW i, Noted(i) PROVE Noted(i)'
    BY <1>2 DEF Noted
  <1>3. ASSUME NEW i \in cursor + 1 .. hi PROVE Noted(i)'
    <2>1. CASE i \in page.from .. page.next - 1
      BY <1>1, <1>2, <2>1 DEF SeenInv
    <2>2. CASE i \in cursor + 1 .. scannedTo - 1
      BY <1>2, <2>2 DEF SeenInv
    <2>3. CASE i \in ScanFrom .. hi
      BY <2>3 DEF Noted, AnsweredIn
    <2> QED BY <1>1, <2>1, <2>2, <2>3 DEF ScanFrom
  <1> QED BY <1>1, <1>2, <1>3 DEF SeenInv


LEMMA SeenFetch ==
    ASSUME IsFiniteSet(Tracked), Cardinality(Tracked) <= AnsweredLimit, TypeOK, SeenInv, FetchPage
    PROVE  SeenInv'
  <1>1. /\ PageEnd \in cursor + 1 .. Len(log) + 1 /\ cursor \in Nat /\ Len(log) \in Nat
        /\ log \in Seq(Records) /\ answered \in SUBSET Tracked
    BY PageEndBound DEF TypeOK, StoreOK
  <1>2. /\ pc' = "record" /\ page'.from = cursor + 1 /\ page'.next = PageEnd /\ ahead' = FALSE
        /\ answered' \in Remembered(answered, AnsweredIn(cursor + 1, PageEnd - 1))
        /\ UNCHANGED <<log, cursor, scannedTo>>
    BY DEF FetchPage, durable
  <1>3. AnsweredIn(cursor + 1, PageEnd - 1) \in SUBSET Tracked
    BY <1>1, AnsweredInTracked
  <1>4. answered' = answered \cup AnsweredIn(cursor + 1, PageEnd - 1)
    BY <1>1, <1>2, <1>3, RememberedAll
  <1>5. \A i \in cursor + 1 .. scannedTo - 1 : Noted(i)'
    BY <1>2, <1>4 DEF SeenInv, Noted
  <1>6. \A i \in cursor + 1 .. PageEnd - 1 : Noted(i)'
    BY <1>2, <1>4 DEF Noted, AnsweredIn
  <1>7. PageEnd - (cursor + 1) < PageSize => PageEnd = Len(log) + 1
    BY <1>1, LimitAssumption DEF PageEnd
  <1>8. pc' \notin Busy
    BY <1>2, BusyStates
  <1>9. PageEnd - (cursor + 1) < PageSize => PageEnd .. Len(log) = {}
    BY <1>1, <1>7
  <1> QED BY <1>2, <1>5, <1>6, <1>8, <1>9 DEF SeenInv

LEMMA SeenScan ==
    ASSUME IsFiniteSet(Tracked), Cardinality(Tracked) <= AnsweredLimit, TypeOK, SeenInv,
           ScanAhead \/ HttpFails
    PROVE  SeenInv'
  <1>1. /\ ScanFrom \in 1 .. Len(log) + 1 /\ Len(log) \in Nat /\ cursor \in Nat /\ page.next \in Nat
        /\ scannedTo \in Nat /\ page.next >= page.from
        /\ log \in Seq(Records) /\ answered \in SUBSET Tracked
    BY DEF ScanFrom, TypeOK, StoreOK, DrainOK
  <1>2. CASE ScanAhead
    <2>1. AnsweredIn(ScanFrom, Len(log)) \in SUBSET Tracked
      BY <1>1, AnsweredInTracked
    <2>2. /\ Handling /\ pc = "record" /\ UNCHANGED <<log, cursor, pc, page, idx>>
          /\ answered' = answered \cup AnsweredIn(ScanFrom, Len(log))
          /\ scannedTo' = Len(log) + 1
      BY <1>1, <1>2, <2>1, RememberedAll DEF ScanAhead, Handling, durable
    <2>3. /\ \A i \in cursor + 1 .. Len(log) : Noted(i)'
          /\ \A i \in page.from .. page.next - 1 : Noted(i)'
      BY <1>1, <2>2, ScanSeen
    <2>4. page.next >= cursor + 1 /\ page.next .. Len(log) \subseteq cursor + 1 .. Len(log)
      BY <1>1, <2>2 DEF TypeOK, DrainOK
    <2>5. (Len(log) + 1) - 1 = Len(log)
      BY <1>1
    <2> QED BY <2>2, <2>3, <2>4, <2>5, BusyStates DEF SeenInv
  <1>3. CASE HttpFails
    <2>1. UNCHANGED <<log, cursor>> /\ ~Paging'
      BY <1>3, BusyStates DEF HttpFails, EndDrain, durable, Paging
    <2>2. SUFFICES \A i \in cursor + 1 .. scannedTo' - 1 : Noted(i)'
      BY <2>1 DEF SeenInv, Paging
    <2>3. CASE UNCHANGED <<answered, scannedTo>>
      BY <2>1, <2>3 DEF SeenInv, Noted
    <2>4. ASSUME Handling, NEW k \in 0 .. (Len(log) + 1 - ScanFrom) \div PageSize,
                 answered' \in Remembered(answered, AnsweredIn(ScanFrom, ScanFrom + k * PageSize - 1)),
                 scannedTo' = IF k = 0 THEN scannedTo ELSE ScanFrom + k * PageSize
          PROVE  \A i \in cursor + 1 .. scannedTo' - 1 : Noted(i)'
      <3>1. k * PageSize <= Len(log) + 1 - ScanFrom /\ k * PageSize \in Nat
        BY <1>1, ScanBound, Zenon
      <3> DEFINE hi == ScanFrom + k * PageSize - 1
      <3>2. hi \in Int /\ hi <= Len(log) /\ ScanFrom + k * PageSize = hi + 1
        BY <1>1, <3>1
      <3> HIDE DEF hi
      <3>3. AnsweredIn(ScanFrom, hi) \in SUBSET Tracked
        BY <1>1, <3>2, AnsweredInTracked
      <3>4. answered' = answered \cup AnsweredIn(ScanFrom, hi)
        BY <1>1, <2>4, <3>3, RememberedAll DEF hi
      <3>5. /\ \A i \in cursor + 1 .. hi : Noted(i)'
            /\ \A i \in cursor + 1 .. scannedTo - 1 : Noted(i)'
        BY <2>1, <2>4, <3>2, <3>4, ScanSeen
      <3>6. scannedTo' = scannedTo \/ scannedTo' - 1 = hi
        BY <2>4, <3>2
      <3> QED BY <3>5, <3>6
    <2> QED BY <1>3, <2>3, <2>4 DEF HttpFails
  <1> QED BY <1>2, <1>3

LEMMA SeenPublish ==
    ASSUME IsFiniteSet(Tracked), Cardinality(Tracked) <= AnsweredLimit, TypeOK, SeenInv,
           Publish \/ PublishUnconfirmed
    PROVE  SeenInv'
  <1> DEFINE r == [kind |-> "answer", id |-> Current, code |-> code]
             n == Len(log) + 1
  <1>1. /\ pc = "publish" /\ Paging /\ Current \in Tracked /\ log' = Append(log, r)
        /\ UNCHANGED <<cursor, scannedTo, page, ahead>> /\ code \in Codes
        /\ answered \in SUBSET Tracked /\ log \in Seq(Records) /\ Len(log) \in Nat /\ cursor \in Nat
        /\ page.from \in Nat \ {0} /\ page.next \in Nat /\ page.next <= Len(log) + 1
        /\ page.next >= page.from /\ scannedTo \in 0 .. Len(log) + 1
        /\ idx < page.next
    BY DEF Publish, PublishUnconfirmed, TypeOK, StoreOK, DrainOK, Busy, Paging, drain
  <1>2. r \in Records
    BY <1>1 DEF Records
  <1>3. /\ \A i \in 1 .. Len(log) : log'[i] = log[i]
        /\ Len(log') = n /\ log'[n].id = Current
    BY <1>1, <1>2, AppendKeeps
  <1>4. \/ Publish /\ pc' = "record" /\ answered' = answered \cup {Current}
        \/ pc' = "publish" /\ answered' = answered /\ Current' = Current
    <2>1. CASE Publish
      BY <1>1, <2>1, RememberedAll DEF Publish, NextRecord
    <2>2. CASE PublishUnconfirmed
      BY <1>1, <2>2, PublishAnswers DEF PublishUnconfirmed, Current
    <2> QED BY <2>1, <2>2
  <1>5. ASSUME NEW i \in 1 .. Len(log), Noted(i) PROVE Noted(i)'
    BY <1>3, <1>4, <1>5 DEF Noted
  <1>6. \A i \in cursor + 1 .. scannedTo - 1 : Noted(i)'
    <2> SUFFICES ASSUME NEW i \in cursor + 1 .. scannedTo - 1 PROVE Noted(i)'
      OBVIOUS
    <2> QED BY <1>1, <1>5 DEF SeenInv
  <1>7. \A i \in page.from .. page.next - 1 : Noted(i)'
    <2> SUFFICES ASSUME NEW i \in page.from .. page.next - 1 PROVE Noted(i)'
      OBVIOUS
    <2> QED BY <1>1, <1>5 DEF SeenInv
  <1>8. ASSUME ahead \/ page.next - page.from < PageSize, NEW i \in page.next .. Len(log')
        PROVE  Noted(i)' \/ (pc' = "publish" /\ log'[i].id = Current')
    <2>1. CASE i \in 1 .. Len(log)
      <3>1. Noted(i) \/ log[i].id = Current
        BY <1>1, <1>8, <2>1 DEF SeenInv
      <3>2. CASE Noted(i)
        BY <1>5, <2>1, <3>2
      <3>3. CASE log[i].id = Current
        BY <1>3, <1>4, <2>1, <3>3 DEF Noted
      <3> QED BY <3>1, <3>2, <3>3
    <2>2. CASE i = n
      BY <1>3, <1>4, <2>2 DEF Noted
    <2> QED BY <1>1, <1>3, <1>8, <2>1, <2>2
  <1>9. pc' \notin Busy \ {"publish"}
    BY <1>4, BusyStates
  <1> QED BY <1>1, <1>6, <1>7, <1>8, <1>9 DEF SeenInv

LEMMA SeenWorld == TypeOK /\ SeenInv /\ World => SeenInv'
  <1> SUFFICES ASSUME TypeOK, SeenInv, World PROVE SeenInv'
    OBVIOUS
  <1>1. ASSUME NEW c \in Commands, Submit(c) \/ Progress(c) \/ Expire(c) PROVE SeenInv'
    <2>1. [kind |-> "command", id |-> c] \in Records /\ [kind |-> "progress", id |-> c] \in Records
      BY DEF Records
    <2>2. /\ UNCHANGED <<answered, scannedTo, cursor, page, ahead, pc, idx>>
          /\ \E r \in Records : r.kind # "answer" /\ (log' = log \/ log' = Append(log, r))
      BY <1>1, <2>1 DEF Submit, Progress, Expire, durable, drain
    <2> QED BY <2>2, SeenQuiet DEF Paging
  <1>2. CASE LinkDown \/ LinkUp
    <2>1. UNCHANGED <<log, answered, scannedTo, cursor, page, ahead, idx>>
          /\ (pc' = pc \/ (pc = "await" /\ pc' = "resume"))
      BY <1>2 DEF LinkDown, LinkUp, durable, drain
    <2> QED BY <2>1 DEF SeenInv, Paging, Noted, Answers, Current, Busy
  <1>3. CASE Restart
    <2>1. ~Paging' /\ scannedTo' = 0 /\ cursor' = cursor /\ cursor \in Nat
      BY <1>3, BusyStates DEF Restart, EndDrain, Paging, TypeOK, StoreOK
    <2>2. cursor + 1 .. 0 - 1 = {}
      BY <2>1
    <2> QED BY <2>1, <2>2 DEF SeenInv, Paging
  <1> QED BY <1>1, <1>2, <1>3 DEF World

LEMMA IntervalShrinks ==
    ASSUME NEW m \in Nat, NEW n \in Nat, n >= m, NEW hi \in Nat
    PROVE  \A i \in n + 1 .. hi - 1 : i \in m + 1 .. hi - 1
  OBVIOUS

LEMMA SeenDrain ==
    ASSUME TypeOK, SeenInv, ReadHead \/ FetchNothing \/ AckPage \/ AckAnswerLost
    PROVE  SeenInv'
  <1>1. ~Paging' /\ UNCHANGED <<log, answered, scannedTo>>
    BY BusyStates DEF ReadHead, FetchNothing, AckPage, AckAnswerLost, EndDrain, durable, Paging
  <1>2. cursor' \in Nat /\ cursor' >= cursor /\ cursor \in Nat /\ scannedTo \in Nat
    BY DEF ReadHead, FetchNothing, AckPage, AckAnswerLost, AckOffset, durable, TypeOK, StoreOK, DrainOK
  <1>3. ASSUME NEW i \in cursor' + 1 .. scannedTo' - 1 PROVE Noted(i)'
    <2>1. i \in cursor' + 1 .. scannedTo - 1
      BY <1>1
    <2>2. i \in cursor + 1 .. scannedTo - 1
      BY <1>2, <2>1, IntervalShrinks
    <2> QED BY <1>1, <2>2 DEF SeenInv, Noted
  <1> QED BY <1>1, <1>3, BusyStates DEF SeenInv, Paging

LEMMA SeenHandle == TypeOK /\ SeenInv /\ Handle /\ ~ScanAhead => SeenInv'
  <1> SUFFICES ASSUME TypeOK, SeenInv, Handle, ~ScanAhead PROVE SeenInv'
    OBVIOUS
  <1>0. UNCHANGED <<log, answered, scannedTo, cursor, page, ahead>> /\ Paging /\ pc # "publish"
    BY DEF Handle, Skip, AnswerUnknown, AnswerAgain, RefuseEnvelope, Replay, RefuseExpired,
           AwaitLink, LinkBefore, StartCommand, StartOperation, CallHandler, HandlerReturns,
           RecordOperation, RecordAnswer, New, Fresh, Taking, Handling, durable, drain, Paging, Busy
  <1>1. \/ pc' \notin Busy \ {"publish"}
        \/ idx' = idx /\ pc \in Busy \ {"publish"}
        \/ idx' = idx /\ Taking
    <2>1. CASE Skip \/ AnswerUnknown \/ AnswerAgain
      BY <2>1, BusyStates DEF Skip, AnswerUnknown, AnswerAgain, NextRecord
    <2>2. CASE RefuseEnvelope \/ Replay \/ RefuseExpired \/ AwaitLink
      BY <2>2 DEF RefuseEnvelope, Replay, RefuseExpired, AwaitLink, New, Fresh
    <2>3. CASE LinkBefore \/ StartCommand \/ StartOperation \/ CallHandler \/ HandlerReturns \/ RecordOperation
      BY <2>3 DEF LinkBefore, StartCommand, StartOperation, CallHandler, HandlerReturns, RecordOperation, Busy
    <2>4. CASE RecordAnswer
      BY <2>4 DEF RecordAnswer, NextRecord, Busy
    <2> QED BY <2>1, <2>2, <2>3, <2>4 DEF Handle
  <1>2. \E r \in Records : r.kind # "answer" /\ (log' = log \/ log' = Append(log, r))
    <2>1. log[idx].kind \in {"command", "progress", "answer"} /\ idx < page.next => Current \in Commands
      BY CurrentCommand
    <2>2. idx < page.next
      BY <1>0 DEF Handle, Skip, AnswerUnknown, AnswerAgain, RefuseEnvelope, Replay, RefuseExpired,
           AwaitLink, LinkBefore, StartCommand, StartOperation, CallHandler, HandlerReturns,
           RecordOperation, RecordAnswer, New, Fresh, Taking, Handling, TypeOK, DrainOK, Busy
    <2>3. [kind |-> "command", id |-> Current] \in Records
      BY <2>2, CurrentCommand DEF Records
    <2> QED BY <1>0, <2>3
  <1> QED BY <1>0, <1>1, <1>2, SeenQuiet

\* While _ANSWERED_LIMIT ids cover the commands that want an answer, none is
\* called that has an answer past the cursor, nor, before the process first
\* stopped, one that has an answer at all, over a ledger in memory too.
THEOREM AnsweredNotRun ==
    ASSUME IsFiniteSet(Tracked), Cardinality(Tracked) <= AnsweredLimit
    PROVE  Spec => NoRunAfterAnswer
  <1>1. Init => SeenInv
    BY BusyStates DEF Init, SeenInv, Paging
  <1>2. TypeOK /\ SeenInv /\ [Next]_vars => SeenInv'
    <2>1. ASSUME SeenInv, UNCHANGED vars PROVE SeenInv'
      BY <2>1 DEF vars, SeenInv, Paging, Noted, Answers, Current
    <2> QED BY <2>1, SeenWorld, SeenDrain, SeenFetch, SeenScan, SeenHandle, SeenPublish DEF Next
  <1>3. TypeOK /\ MemoryInv /\ SeenInv /\ [Next]_vars =>
           [\A c \in Tracked : runs'[c] # runs[c] => \A i \in Answers(c) : i <= cursor /\ stops > 0]_vars
    <2> SUFFICES ASSUME TypeOK, MemoryInv, SeenInv, Next, NEW c \in Tracked, runs'[c] # runs[c],
                        NEW i \in Answers(c)
                 PROVE  i <= cursor /\ stops > 0
      OBVIOUS
    <2>1. CallHandler
      BY DEF Next, World, Submit, Progress, Expire, LinkDown, LinkUp, Restart, ReadHead, FetchPage,
         FetchNothing, HttpFails, AckPage, AckAnswerLost, Handle, ScanAhead, Skip, AnswerUnknown,
         AnswerAgain, RefuseEnvelope, Replay, RefuseExpired, AwaitLink, LinkBefore, StartCommand,
         StartOperation, HandlerReturns, RecordOperation, RecordAnswer, Publish, PublishUnconfirmed
    <2>2. pc = "run" /\ c = Current
      BY <2>1, CommandAssumption DEF CallHandler, TypeOK, StoreOK
    <2>3. i <= cursor
      BY <2>2 DEF SeenInv, Busy
    <2>4. stops # 0 /\ stops \in Nat
      BY <2>2, HeldFields DEF MemoryInv, TypeOK, StoreOK
    <2> QED BY <2>3, <2>4
  <1> QED BY <1>1, <1>2, <1>3, TypeCorrect, MemoryInvariant, PTL DEF Spec, NoRunAfterAnswer
=============================================================================
