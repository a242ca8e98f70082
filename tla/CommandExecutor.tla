--------------------------- MODULE CommandExecutor ---------------------------
(***************************************************************************)
(* src/chaski/executor.py: CommandExecutor drains the node's `commands`    *)
(* stream through a durable cursor, runs each command's handler, records   *)
(* what it does in a ledger and answers with an `_Ack` record, which the   *)
(* node appends to the same stream.                                        *)
(*                                                                         *)
(* The executor is one asyncio task, so its own steps never interleave     *)
(* with each other.  They interleave with the senders, the broker link,    *)
(* the clock, and a stop of the process, which may fall between any two    *)
(* of them; a step therefore ends wherever the code awaits the ledger, the *)
(* node, the link or the handler.                                          *)
(*                                                                         *)
(* Left out: retention of the stream and of the ledger (seven days), and   *)
(* the commands of paths without a handler, which a drain reads past.      *)
(***************************************************************************)
EXTENDS Integers, Sequences, FiniteSets

CONSTANTS
    Commands,       \* commands, one per correlation id (or per untracked send)
    Tracked,        \* the commands that carry a correlation_id
    Malformed,      \* the commands whose envelope is refused
    Mortal,         \* the commands with an expires_at
    Announced,      \* the commands sent with progress=True
    Op,             \* Op[c]: what `(attested sender, operation_id)` c carries, or NoOp
    NoOp,
    Material,       \* Material[c]: contract, path, command and on_behalf_of of c
    Durable,        \* the ledger is SQLite (TRUE) or MemoryLedger (FALSE)
    LinkFails,      \* whether the broker link may go down
    PageSize,       \* records one fetch returns at most
    AnsweredLimit,  \* _ANSWERED_LIMIT
    MaxSends,       \* bound: command records, QoS 1 resends included
    MaxLog,         \* bound: an answer is stored again while the stream is shorter
    MaxStops        \* bound: times the process stops and starts again

ASSUME CommandAssumption ==
    /\ Tracked \subseteq Commands /\ Malformed \subseteq Commands
    /\ Mortal \subseteq Commands /\ Announced \subseteq Commands
    /\ DOMAIN Op = Commands /\ DOMAIN Material = Commands
ASSUME LimitAssumption ==
    /\ PageSize \in Nat \ {0} /\ AnsweredLimit \in Nat \ {0}
    /\ MaxSends \in Nat /\ MaxLog \in Nat /\ MaxStops \in Nat
    /\ Durable \in BOOLEAN /\ LinkFails \in BOOLEAN

VARIABLES
    log,        \* the stream: commands, progress acks and answers, by offset
    cursor,     \* the cursor the node stores: the last offset acknowledged
    ledger,     \* the ledger's entry per correlation id
    opLedger,   \* the ledger's entry per operation
    answered,   \* _answered: ids known to be answered
    scannedTo,  \* _scanned_to
    pc,         \* what the executor does next
    head,       \* the head the running drain captured
    page,       \* the page being handled: offsets page.from .. page.next - 1
    idx,        \* the offset handle() works on
    ahead,      \* scanned_ahead, for this page
    code,       \* the result code of the command at idx
    link,       \* the broker link, as _link holds it
    expired,    \* the commands whose expires_at has passed
    runs,       \* history: how often each command's handler was called
    stops       \* how often the process stopped

vars == <<log, cursor, ledger, opLedger, answered, scannedTo, pc, head, page,
          idx, ahead, code, link, expired, runs, stops>>
durable == <<log, cursor, ledger, opLedger>>
drain == <<head, page, ahead>>
world == <<link, expired, stops>>

Outcomes == {"ok", "failed", "unknown"}                    \* what _run maps a handler to
Codes    == Outcomes \cup {"invalid", "conflict", "expired"}
Ops      == {Op[c] : c \in Commands} \ {NoOp}
Absent   == [state |-> "absent"]
Started  == [state |-> "started"]
Held(x)  == [state |-> "answered", answer |-> x]
OpEntry(m, x) == [digest |-> m, code |-> x]
States   == {Absent, Started} \cup {Held(x) : x \in Codes}
OpStates == {Absent, Started} \cup {Held(OpEntry(Material[c], x)) : c \in Commands, x \in Codes}
NoPage   == [from |-> 1, next |-> 1]

Records ==   [kind : {"command", "progress"}, id : Commands]
        \cup [kind : {"answer"}, id : Tracked, code : Codes]

Answers(c) == {i \in 1 .. Len(log) : log[i].kind = "answer" /\ log[i].id = c}

Copies(c) == {i \in 1 .. Len(log) : log[i].kind = "command" /\ log[i].id = c}

\* What _answered can be once new was noted: at most AnsweredLimit ids.  The
\* code evicts the ids noted longest ago; which go is left open here.
Remembered(old, new) ==
    LET all == old \cup new
    IN  IF Cardinality(all) <= AnsweredLimit THEN {all}
        ELSE {kept \in SUBSET all : Cardinality(kept) = AnsweredLimit}

\* Mutant: a 202 progress ack counts as an answer.
AnsweredInWithProgress(lo, hi) == {log[i].id : i \in {j \in lo .. hi : log[j].kind # "command"}}

\* _note_answers: the ids answered in the offsets lo .. hi, without progress acks.
AnsweredIn(lo, hi) == {log[i].id : i \in {j \in lo .. hi : log[j].kind = "answer"}}

IsAnswered(c) == c \in Tracked /\ c \in answered

\* The locals of drain() and handle() mean nothing outside of a page.
NoLocals == page' = NoPage /\ idx' = 1 /\ ahead' = FALSE /\ code' = "ok"

EndDrain == pc' = "idle" /\ head' = 0 /\ NoLocals

NextRecord == pc' = "record" /\ idx' = idx + 1 /\ code' = "ok"

Init ==
    /\ log = <<>> /\ cursor = 0
    /\ ledger = [c \in Tracked |-> Absent] /\ opLedger = [o \in Ops |-> Absent]
    /\ answered = {} /\ scannedTo = 0
    /\ pc = "idle" /\ head = 0 /\ page = NoPage /\ idx = 1 /\ ahead = FALSE /\ code = "ok"
    /\ link = TRUE /\ expired = {} /\ stops = 0
    /\ runs = [c \in Commands |-> 0]

-----------------------------------------------------------------------------
(* The world around the executor. *)

\* A sender's command is stored; a QoS 1 resend may store it again.
Submit(c) ==
    /\ Cardinality({i \in 1 .. Len(log) : log[i].kind = "command"}) < MaxSends
    /\ log' = Append(log, [kind |-> "command", id |-> c])
    /\ UNCHANGED <<cursor, ledger, opLedger, answered, scannedTo, pc, drain, idx, code, world, runs>>

\* The node answers a command sent with progress=True that it queued it.
Progress(c) ==
    /\ c \in Announced /\ Copies(c) # {}
    /\ \A i \in 1 .. Len(log) : log[i] # [kind |-> "progress", id |-> c]
    /\ log' = Append(log, [kind |-> "progress", id |-> c])
    /\ UNCHANGED <<cursor, ledger, opLedger, answered, scannedTo, pc, drain, idx, code, world, runs>>

Expire(c) ==
    /\ c \in Mortal \ expired
    /\ expired' = expired \cup {c}
    /\ UNCHANGED <<durable, answered, scannedTo, pc, drain, idx, code, link, runs, stops>>

LinkDown ==
    /\ LinkFails /\ link /\ link' = FALSE
    /\ UNCHANGED <<durable, answered, scannedTo, pc, drain, idx, code, expired, runs, stops>>

\* The link event wakes whoever awaits it, who runs a moment later.
LinkUp ==
    /\ ~link /\ link' = TRUE
    /\ pc' = IF pc = "await" THEN "resume" ELSE pc
    /\ UNCHANGED <<durable, answered, scannedTo, drain, idx, code, expired, runs, stops>>

\* The process stops, or _Stopping ends the loop, and a new one starts: the
\* node's stream and cursor and a durable ledger stay.
Restart ==
    /\ stops < MaxStops
    /\ stops' = stops + 1
    /\ answered' = {} /\ scannedTo' = 0
    /\ EndDrain
    /\ link' = TRUE
    /\ IF Durable
       THEN UNCHANGED <<ledger, opLedger>>
       ELSE /\ ledger' = [c \in Tracked |-> Absent]
            /\ opLedger' = [o \in Ops |-> Absent]
    /\ UNCHANGED <<log, cursor, expired, runs>>

-----------------------------------------------------------------------------
(* drain() *)

\* A wake, a retry or IDLE_DRAIN_S starts a drain.  The watch is narrowed to
\* contracts, so its hints carry no head and the drain reads it.
ReadHead ==
    /\ pc = "idle"
    /\ pc' = "fetch" /\ head' = Len(log)
    /\ UNCHANGED <<durable, answered, scannedTo, page, idx, ahead, code, world, runs>>

\* One past the last offset of a page fetched now.
PageEnd == (IF Len(log) < cursor + PageSize THEN Len(log) ELSE cursor + PageSize) + 1

FetchPage ==
    /\ pc = "fetch" /\ PageEnd > cursor + 1
    /\ pc' = "record"
    /\ page' = [from |-> cursor + 1, next |-> PageEnd]
    /\ idx' = cursor + 1 /\ ahead' = FALSE
    /\ answered' \in Remembered(answered, AnsweredIn(cursor + 1, PageEnd - 1))
    /\ UNCHANGED <<durable, scannedTo, head, code, world, runs>>

\* Nothing after the cursor: it already stands at the head.
FetchNothing ==
    /\ pc = "fetch" /\ PageEnd = cursor + 1
    /\ EndDrain
    /\ UNCHANGED <<durable, answered, scannedTo, world, runs>>

\* Mutant: one past the last record of the page.
AckOffsetOffByOne == page.next

\* Page.ack_offset of a page that moved the position.
AckOffset == page.next - 1

AckPage ==
    /\ pc = "record" /\ idx = page.next
    /\ cursor' = AckOffset
    /\ IF AckOffset >= head THEN EndDrain
       ELSE pc' = "fetch" /\ NoLocals /\ UNCHANGED head
    /\ UNCHANGED <<log, ledger, opLedger, answered, scannedTo, world, runs>>

\* The node moved the cursor, but its answer did not arrive.
AckAnswerLost ==
    /\ pc = "record" /\ idx = page.next
    /\ cursor' = AckOffset
    /\ EndDrain
    /\ UNCHANGED <<log, ledger, opLedger, answered, scannedTo, world, runs>>

-----------------------------------------------------------------------------
(* handle(record) *)

Current == log[idx].id

Handling == pc = "record" /\ idx < page.next

\* Mutant: no look-ahead.
NeedsNoLookAhead == FALSE

\* _needs_look_ahead: a full page may end before the answer to its command.
NeedsLookAhead ==
    /\ ~ahead
    /\ page.next - page.from >= PageSize
    /\ log[idx].kind = "command"
    /\ Current \in Tracked
    /\ ~IsAnswered(Current)

\* What an earlier scan read is not read again.
ScanFrom == IF page.next > scannedTo THEN page.next ELSE scannedTo

\* Mutant: the page does not remember that it was scanned ahead.
ScanAheadForgotten ==
    /\ Handling /\ NeedsLookAhead
    /\ answered' \in Remembered(answered, AnsweredIn(ScanFrom, Len(log)))
    /\ scannedTo' = Len(log) + 1
    /\ UNCHANGED <<durable, pc, drain, idx, code, world, runs>>

ScanAhead ==
    /\ Handling /\ NeedsLookAhead
    /\ answered' \in Remembered(answered, AnsweredIn(ScanFrom, Len(log)))
    /\ scannedTo' = Len(log) + 1
    /\ ahead' = TRUE
    /\ UNCHANGED <<durable, pc, head, page, idx, code, world, runs>>

\* A failed request ends the drain, which starts over after a backoff.  A scan
\* has noted the pages it read before the one that failed.
HttpFails ==
    /\ \/ /\ pc = "fetch" \/ (pc = "record" /\ idx = page.next)
          /\ UNCHANGED <<answered, scannedTo>>
       \/ /\ Handling /\ NeedsLookAhead
          /\ \E k \in 0 .. (Len(log) + 1 - ScanFrom) \div PageSize :
                /\ answered' \in Remembered(answered, AnsweredIn(ScanFrom, ScanFrom + k * PageSize - 1))
                /\ scannedTo' = IF k = 0 THEN scannedTo ELSE ScanFrom + k * PageSize
    /\ EndDrain
    /\ UNCHANGED <<durable, world, runs>>

\* The record is not a command, or the command was answered already.
Skip ==
    /\ Handling /\ ~NeedsLookAhead
    /\ log[idx].kind # "command" \/ IsAnswered(Current)
    /\ NextRecord
    /\ UNCHANGED <<durable, answered, scannedTo, drain, world, runs>>

Taking == Handling /\ ~NeedsLookAhead /\ log[idx].kind = "command" /\ ~IsAnswered(Current)

Fresh == Taking /\ (Current \in Tracked => ledger[Current] = Absent)

\* Mutant: the unknown outcome is recorded, not published.
AnswerUnknownSilent ==
    /\ Taking /\ Current \in Tracked /\ ledger[Current] = Started
    /\ ledger' = [ledger EXCEPT ![Current] = Held("unknown")]
    /\ NextRecord
    /\ UNCHANGED <<log, cursor, opLedger, answered, scannedTo, drain, world, runs>>

\* The process stopped between the start and the answer: 504, recorded.
AnswerUnknown ==
    /\ Taking /\ Current \in Tracked /\ ledger[Current] = Started
    /\ ledger' = [ledger EXCEPT ![Current] = Held("unknown")]
    /\ code' = "unknown" /\ pc' = "publish"
    /\ UNCHANGED <<log, cursor, opLedger, answered, scannedTo, drain, idx, world, runs>>

AnswerAgain ==
    /\ Taking /\ Current \in Tracked /\ ledger[Current].state = "answered"
    /\ Answers(Current) # {} => Len(log) < MaxLog
    /\ code' = ledger[Current].answer /\ pc' = "publish"
    /\ UNCHANGED <<durable, answered, scannedTo, drain, idx, world, runs>>

RefuseEnvelope ==
    /\ Fresh /\ Current \in Malformed
    /\ code' = "invalid" /\ pc' = "answer"
    /\ UNCHANGED <<durable, answered, scannedTo, drain, idx, world, runs>>

\* _replay.  An operation that was started and never answered is recorded as
\* unknown under the repeat's digest: the start did not record one.
Replay ==
    /\ Fresh /\ Current \notin Malformed /\ Op[Current] # NoOp
    /\ LET entry == opLedger[Op[Current]]
       IN  /\ entry # Absent
           /\ IF entry = Started
              THEN /\ opLedger' = [opLedger EXCEPT ![Op[Current]] =
                                       Held(OpEntry(Material[Current], "unknown"))]
                   /\ code' = "unknown"
              ELSE /\ code' = IF entry.answer.digest = Material[Current]
                              THEN entry.answer.code ELSE "conflict"
                   /\ UNCHANGED opLedger
    /\ pc' = "answer"
    /\ UNCHANGED <<log, cursor, ledger, answered, scannedTo, drain, idx, world, runs>>

\* The command is new: it expired, it waits for the link, or it starts.
New ==
    /\ Fresh /\ Current \notin Malformed
    /\ Op[Current] # NoOp => opLedger[Op[Current]] = Absent

RefuseExpired ==
    /\ New /\ Current \in expired
    /\ code' = "expired" /\ pc' = "answer"
    /\ UNCHANGED <<durable, answered, scannedTo, drain, idx, world, runs>>

AwaitLink ==
    /\ New /\ Current \notin expired
    /\ pc' = IF link THEN "start" ELSE "await"
    /\ UNCHANGED <<durable, answered, scannedTo, drain, idx, code, world, runs>>

\* Mutant: the deadline is not looked at again once the link is back.
LinkBeforeStale ==
    /\ pc = "resume" \/ (pc = "await" /\ Current \in expired)
    /\ IF link
       THEN pc' = "start" /\ UNCHANGED code
       ELSE pc' = "answer" /\ code' = "expired"
    /\ UNCHANGED <<durable, answered, scannedTo, drain, idx, world, runs>>

\* _link_before: the link came back, or the command expired first.  A link lost
\* again before the woken task runs refuses the command as well.
LinkBefore ==
    /\ pc = "resume" \/ (pc = "await" /\ Current \in expired)
    /\ IF link /\ Current \notin expired
       THEN pc' = "start" /\ UNCHANGED code
       ELSE pc' = "answer" /\ code' = "expired"
    /\ UNCHANGED <<durable, answered, scannedTo, drain, idx, world, runs>>

StartCommand ==
    /\ pc = "start"
    /\ IF Current \in Tracked
       THEN ledger' = [ledger EXCEPT ![Current] = Started]
       ELSE UNCHANGED ledger
    /\ pc' = IF Op[Current] = NoOp THEN "run" ELSE "startOp"
    /\ UNCHANGED <<log, cursor, opLedger, answered, scannedTo, drain, idx, code, world, runs>>

\* Mutant: the operation is recorded only after its handler ran.
StartOperationUnrecorded ==
    /\ pc = "startOp"
    /\ pc' = "run"
    /\ UNCHANGED <<durable, answered, scannedTo, drain, idx, code, world, runs>>

StartOperation ==
    /\ pc = "startOp"
    /\ opLedger' = [opLedger EXCEPT ![Op[Current]] = Started]
    /\ pc' = "run"
    /\ UNCHANGED <<log, cursor, ledger, answered, scannedTo, drain, idx, code, world, runs>>

\* The handler is called: from here on the command may have taken effect.
CallHandler ==
    /\ pc = "run"
    /\ runs' = [runs EXCEPT ![Current] = @ + 1]
    /\ pc' = "running"
    /\ UNCHANGED <<durable, answered, scannedTo, drain, idx, code, world>>

HandlerReturns ==
    /\ pc = "running"
    /\ \E outcome \in Outcomes : code' = outcome
    /\ pc' = IF Op[Current] = NoOp THEN "answer" ELSE "answerOp"
    /\ UNCHANGED <<durable, answered, scannedTo, drain, idx, world, runs>>

RecordOperation ==
    /\ pc = "answerOp"
    /\ opLedger' = [opLedger EXCEPT ![Op[Current]] = Held(OpEntry(Material[Current], code))]
    /\ pc' = "answer"
    /\ UNCHANGED <<log, cursor, ledger, answered, scannedTo, drain, idx, code, world, runs>>

\* Mutant: the answer is published without having been recorded.
RecordAnswerNot ==
    /\ pc = "answer"
    /\ IF Current \in Tracked
       THEN pc' = "publish" /\ UNCHANGED <<idx, code>>
       ELSE NextRecord
    /\ UNCHANGED <<durable, answered, scannedTo, drain, world, runs>>

\* The answer is recorded before it is published.  A command without a
\* correlation id is not answered.
RecordAnswer ==
    /\ pc = "answer"
    /\ IF Current \in Tracked
       THEN /\ ledger' = [ledger EXCEPT ![Current] = Held(code)]
            /\ pc' = "publish" /\ UNCHANGED <<idx, code>>
       ELSE NextRecord /\ UNCHANGED ledger
    /\ UNCHANGED <<log, cursor, opLedger, answered, scannedTo, drain, world, runs>>

\* _publish_answer, the confirmed attempt.
Publish ==
    /\ pc = "publish" /\ link
    /\ log' = Append(log, [kind |-> "answer", id |-> Current, code |-> code])
    /\ answered' \in Remembered(answered, {Current})
    /\ NextRecord
    /\ UNCHANGED <<cursor, ledger, opLedger, scannedTo, drain, world, runs>>

\* The answer reached the node but no PUBACK came: it is sent again.
PublishUnconfirmed ==
    /\ pc = "publish" /\ link
    /\ Len(log) < MaxLog
    /\ log' = Append(log, [kind |-> "answer", id |-> Current, code |-> code])
    /\ UNCHANGED <<cursor, ledger, opLedger, answered, scannedTo, pc, drain, idx, code, world, runs>>

Handle ==
    \/ ScanAhead \/ Skip \/ AnswerUnknown \/ AnswerAgain \/ RefuseEnvelope
    \/ Replay \/ RefuseExpired \/ AwaitLink \/ LinkBefore
    \/ StartCommand \/ StartOperation \/ CallHandler \/ HandlerReturns
    \/ RecordOperation \/ RecordAnswer

World ==
    \/ \E c \in Commands : Submit(c) \/ Progress(c) \/ Expire(c)
    \/ LinkDown \/ LinkUp \/ Restart

Next ==
    \/ World
    \/ ReadHead \/ FetchPage \/ FetchNothing \/ HttpFails \/ AckPage \/ AckAnswerLost
    \/ Handle \/ Publish \/ PublishUnconfirmed

Spec == Init /\ [][Next]_vars

\* The task keeps running and handlers return (WF).  The link comes back
\* (paho reconnects for ever); a request or a publish that is retried for ever
\* succeeds some time, although it may fail any number of times before (SF).
Fairness ==
    /\ WF_vars(ReadHead) /\ WF_vars(Handle) /\ WF_vars(LinkUp)
    /\ SF_vars(FetchPage) /\ SF_vars(ScanAhead) /\ SF_vars(AckPage)
    /\ SF_vars(Publish)

FairSpec == Spec /\ Fairness

-----------------------------------------------------------------------------
(* Properties *)

\* The states in which handle() holds the command at idx past its first look
\* at the ledger.
Busy == {"await", "resume", "start", "startOp", "run", "running", "answerOp", "answer", "publish"}

\* What outlives a page: the stream, the ledger, the world.
StoreOK ==
    /\ log \in Seq(Records)
    /\ cursor \in 0 .. Len(log)
    /\ ledger \in [Tracked -> States] /\ opLedger \in [Ops -> OpStates]
    /\ answered \in SUBSET Tracked
    /\ scannedTo \in 0 .. Len(log) + 1
    /\ link \in BOOLEAN /\ expired \in SUBSET Mortal
    /\ runs \in [Commands -> Nat] /\ stops \in Nat

\* The drain: a page under way starts after the cursor and was in the stream
\* when it was fetched; past its first look at the ledger handle() holds a
\* command.
DrainOK ==
    /\ pc \in {"idle", "fetch", "record"} \cup Busy
    /\ head \in 0 .. Len(log)
    /\ page \in [from : Nat \ {0}, next : Nat]
    /\ page.next \in page.from .. Len(log) + 1
    /\ idx \in page.from .. page.next
    /\ ahead \in BOOLEAN /\ code \in Codes
    /\ pc = "record" \/ pc \in Busy => page.from = cursor + 1
    /\ pc \in Busy => idx < page.next /\ log[idx].kind = "command"
    /\ pc \in {"startOp", "answerOp"} => Op[Current] # NoOp
    /\ pc = "publish" => Current \in Tracked

\* Every variable has its type, and the page, the position in it and the cursor
\* fit together (drain, handle).
TypeOK == StoreOK /\ DrainOK

\* Over a durable ledger a command with a correlation id, and an operation
\* however many commands ask for it, has its handler called at most once:
\* whatever is sent twice, fetched twice, or cut off by a stop between any two
\* steps of handle().
AtMostOnce ==
    /\ \A c \in Commands : c \in Tracked \/ Op[c] # NoOp => runs[c] <= 1
    /\ \A c, d \in Commands :
          c # d /\ Op[c] = Op[d] /\ Op[c] # NoOp => runs[c] = 0 \/ runs[d] = 0

\* The cursor passes a command only once its answer is in the stream: a command
\* behind the cursor is never read again, so nobody would answer it later.
AnsweredBehindCursor ==
    \A i \in 1 .. cursor :
        log[i].kind = "command" /\ log[i].id \in Tracked => Answers(log[i].id) # {}

\* What the executor does implements what it promises the senders.
Contract == INSTANCE CommandContract WITH
    called <- {c \in Commands : runs[c] > 0},
    reply  <- [c \in Tracked |-> {log[i].code : i \in Answers(c)}]

ContractSpec == Contract!Spec

\* Whatever a ledger in memory forgot at a restart, no handler is called for a
\* command whose answer is past the cursor: its own page and the look-ahead show
\* it.  Before the first restart the ledger knows the answers behind the cursor,
\* too.  (As long as _ANSWERED_LIMIT ids cover the answers past the cursor.)
NoRunAfterAnswer ==
    [][\A c \in Tracked : runs'[c] # runs[c] =>
          \A i \in Answers(c) : i <= cursor /\ stops > 0]_vars

\* A command that had expired when the drain took it, or while it waited for
\* the link, is never executed afterwards, not after a restart either.
ExpiredNeverRuns ==
    \A c \in Mortal :
        []((pc \in {"await", "resume"} \/ Handling) /\ Current = c /\ c \in expired /\ runs[c] = 0
             => [](runs[c] = 0))

\* A stored command is answered in the end, through lost links, failing
\* requests, unconfirmed publishes and stops.
EventuallyAnswered ==
    \A c \in Tracked : Copies(c) # {} ~> Answers(c) # {}

=============================================================================
