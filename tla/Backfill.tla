------------------------------ MODULE Backfill ------------------------------
(***************************************************************************)
(* src/chaski/dataops/backfill.py: a checkpointed producer handles history *)
(* in windows while its live triggers are held, then takes over the live   *)
(* records between two pages of the ingest.  Beside it: the first backfill *)
(* of a producer that is not held, the replay after a code change, and the *)
(* repair of records the stream pruned (DataOpsService._on_gap).           *)
(*                                                                         *)
(* The buffer is one connection: what a page of the ingest has written is  *)
(* read by the runner before it is committed, and of the page's and the    *)
(* runner's one_commit the one that ends last commits both.  There is a    *)
(* sample at every instant, so a sample is known by its time.              *)
(***************************************************************************)
EXTENDS Integers, Sequences, FiniteSets, SequencesExt, FiniteSetsExt

CONSTANTS
    Declared,   \* by code version: "hold", "independent" or "none"
    Horizon,    \* Backfill.horizon_s
    Window,     \* Backfill.window_s
    Before,     \* samples the node admitted before the first start
    Overtakes,  \* whether the first page may come after windows past it
    MaxTime,    \* bound: samples of a behaviour
    MaxUpsets   \* bound: stops, failed windows and acks, prunes

ASSUME BackfillAssumption ==
    /\ Declared \in [0 .. 1 -> {"hold", "independent", "none"}]
    /\ Horizon \in Nat /\ Window \in Nat \ {0}
    /\ Overtakes \in BOOLEAN /\ MaxTime \in Nat /\ Before \in 0 .. MaxTime /\ MaxUpsets \in Nat

Names == {"initial", "replay", "gap"}

VARIABLES
    now,        \* the newest sample of the node's stream
    low,        \* the oldest one the stream holds
    cursor,     \* the last one acknowledged
    historian,  \* whether the service has one: it holds every sample
    code,       \* the producer's code version, its hash
    up,         \* the process runs
    next,       \* the ingest: the sample it reads next
    page,       \* the sample of its open page, 0 for none
    toAck,      \* the ack in flight, 0 for none
    caught,     \* caught_up: it drained to the head once
    held,       \* BackfillRunner._held has the producer
    live,       \* the live instance: samples taken in, and the handled offset
    conn,       \* the buffer as its connection reads it
    disk,       \* the buffer as committed
    rpc,        \* what the runner does next
    job, rpos, rwin, rend,      \* the job it runs, its position and windows, the window's end
    covered,    \* history: the samples separate instances handled
    gapped,     \* history: the samples the ingest went past unread
    lost,       \* history: those acknowledged uncommitted, which a stop took
    upsets

node   == <<now, low, cursor, historian, code>>
ingest == <<next, page, toAck, caught>>
buffer == <<conn, disk>>
runner == <<rpc, job, rpos, rwin, rend>>
seen   == <<covered, gapped, lost>>
vars   == <<node, up, ingest, held, live, buffer, runner, seen, upsets>>

Samples == 1 .. MaxTime
Here    == now + 1      \* time.time(): after the newest sample
Fresh   == [st |-> <<>>, off |-> 0]
NoJob   == [start |-> 0, end |-> 0, pos |-> 0, windows |-> 0, hash |-> 0, done |-> TRUE, made |-> FALSE]
NoHash  == 2
NoSaved == [st |-> <<>>, off |-> 0, hash |-> NoHash]
Empty   == [points |-> {}, saved |-> NoSaved, jobs |-> [n \in Names |-> NoJob], mark |-> NoHash]

Init ==
    /\ now = Before /\ low \in 1 .. Before + 1 /\ cursor = 0 /\ historian \in BOOLEAN
    /\ code \in 0 .. 1 /\ up = FALSE
    /\ next = 1 /\ page = 0 /\ toAck = 0 /\ caught = FALSE
    /\ held = FALSE /\ live = Fresh /\ conn = Empty /\ disk = Empty
    /\ rpc = "look" /\ job = "initial" /\ rpos = 0 /\ rwin = 0 /\ rend = 0
    /\ covered = {} /\ gapped = {} /\ lost = {} /\ upsets = 0

Upset == upsets < MaxUpsets /\ upsets' = upsets + 1

Larger(a, b)  == IF a > b THEN a ELSE b
Smaller(a, b) == IF a < b THEN a ELSE b

-----------------------------------------------------------------------------
(* The buffer *)

Write(c)  == conn' = c /\ disk' = c                     \* commits at once
Defer(c)  == conn' = c /\ disk' = IF page = 0 THEN c ELSE disk

WithJob(n, j) == [conn EXCEPT !.jobs = [@ EXCEPT ![n] = j]]

Earliest == Min(conn.points)
\* BackfillRunner._edge.
Edge == IF conn.points = {} THEN Here ELSE Max(conn.points)

\* math.nextafter(edge): the edge's own sample is the last one of the range.
PastEdge == IF conn.points = {} THEN Here ELSE Max(conn.points) + 1

\* Mutant: the historian is read only while the buffer holds nothing.
RowsOfOne(start, end, name) ==
    {r \in start .. end - 1 :
        \/ r \in conn.points
        \/ historian /\ name # "replay" /\ r <= now /\ conn.points = {}}

\* fetch_many: the buffer where it holds the range, the historian for what lies
\* before the buffer's earliest sample; a replay reads the buffer alone.
Rows(start, end, name) ==
    {r \in start .. end - 1 :
        \/ r \in conn.points
        \/ /\ historian /\ name # "replay" /\ r <= now
           /\ conn.points = {} \/ r < Earliest}

-----------------------------------------------------------------------------
(* BackfillRunner.plan and _plan_replays *)

Declares == Declared[code]

\* The first backfill is recorded once; one recorded as held ends here when the
\* declaration says independent now.
First ==
    LET old == conn.jobs["initial"]
        new == [start |-> Larger(1, Here - Horizon), end |-> IF Declares = "hold" THEN 0 ELSE Here,
                pos |-> Larger(1, Here - Horizon), windows |-> 0, hash |-> code, done |-> FALSE, made |-> TRUE]
    IN  IF Declares = "none" THEN old
        ELSE IF ~old.made THEN new
        ELSE IF ~old.done /\ old.end = 0 /\ Declares = "independent" THEN [old EXCEPT !.end = Here]
        ELSE old

FirstHolds == Declares # "none" /\ ~First.done /\ First.end = 0

\* save_checkpoint, and restore_checkpoint: only one of the same code.
Saved == [st |-> live.st, off |-> live.off, hash |-> code]
Restored == conn.saved.hash = code
Checkpoint == [st |-> conn.saved.st, off |-> conn.saved.off]

Resuming == LET r == conn.jobs["replay"] IN ~r.done /\ r.hash = code

\* A replay is left out behind a held first backfill, and where the code that
\* ran last is the same and its checkpoint is back.
Replays == ~FirstHolds /\ (Resuming \/ conn.mark # code \/ ~Restored)

Replay ==
    LET start == IF conn.points = {} THEN Here ELSE Earliest
    IN  IF Replays /\ ~Resuming
        THEN [start |-> start, end |-> 0, pos |-> start, windows |-> 0, hash |-> code, done |-> FALSE, made |-> TRUE]
        ELSE conn.jobs["replay"]

Start ==
    /\ ~up
    /\ up' = TRUE
    /\ Write([conn EXCEPT !.jobs = [@ EXCEPT !["initial"] = First, !["replay"] = Replay]])
    /\ held' = (FirstHolds \/ Replays)
    /\ live' = IF ~FirstHolds /\ Restored THEN Checkpoint ELSE Fresh
    /\ rpc' = "look"
    /\ UNCHANGED <<node, ingest, job, rpos, rwin, rend, seen, upsets>>

\* A stop at any point; the next start may be of other code.
Stop ==
    /\ Upset /\ up
    /\ up' = FALSE /\ held' = FALSE /\ live' = Fresh
    /\ code' \in {code, 1}
    /\ next' = cursor + 1 /\ page' = 0 /\ toAck' = 0 /\ caught' = FALSE
    /\ conn' = disk /\ lost' = lost \cup {r \in conn.points \ disk.points : r <= cursor}
    /\ rpc' = "look" /\ job' = "initial" /\ rpos' = 0 /\ rwin' = 0 /\ rend' = 0
    /\ UNCHANGED <<now, low, cursor, historian, disk, covered, gapped>>

-----------------------------------------------------------------------------
(* The node and the ingest *)

Admit ==
    /\ now < MaxTime
    /\ now' = now + 1
    /\ UNCHANGED <<low, cursor, historian, code, up, ingest, held, live, buffer, runner, seen, upsets>>

\* Bound: one gap in a behaviour.
Prune ==
    /\ Upset
    /\ low <= now /\ ~conn.jobs["gap"].made /\ gapped = {}
    /\ low' \in low + 1 .. now + 1
    /\ UNCHANGED <<now, cursor, historian, code, up, ingest, held, live, buffer, runner, seen>>

\* The runner has the ingest's page lock while it hands over.
PageLocked == rpc \in {"handover", "handwindow", "handcommit", "handmark", "release"}

\* The live edge of an empty buffer is the present: the runner walks past samples
\* that are on their way to it.  What the historian gave it is not missed.
Overtaken ==
    /\ conn.points = {}
    /\ \/ rpc = "window"
       \/ rpc = "commit" /\ next < rend /\ (job = "replay" \/ ~historian)
       \/ \E n \in {"initial", "replay"} :
             ~conn.jobs[n].done /\ conn.jobs[n].windows > 0 /\ next < conn.jobs[n].pos /\ (n = "replay" \/ ~historian)

PageComes == up /\ page = 0 /\ ~PageLocked /\ (Overtaken => Overtakes)

\* Mutant: a page that comes while the producer is held is handled all the same.
ReadPageLive ==
    /\ PageComes /\ next \in low .. now
    /\ page' = next
    /\ conn' = [conn EXCEPT !.points = @ \cup {next}]
    /\ live' = IF next <= live.off THEN live ELSE [st |-> Append(live.st, next), off |-> next]
    /\ UNCHANGED <<node, up, next, toAck, caught, held, disk, runner, seen, upsets>>

\* The record is buffered; a held producer's handlers are not called, and a
\* checkpointed one skips what it took in before.
ReadPage ==
    /\ PageComes /\ next \in low .. now
    /\ page' = next
    /\ conn' = [conn EXCEPT !.points = @ \cup {next}]
    /\ live' = IF held \/ next <= live.off THEN live
               ELSE [st |-> Append(live.st, next), off |-> next]
    /\ UNCHANGED <<node, up, next, toAck, caught, held, disk, runner, seen, upsets>>

\* The page's end: a producer it called saves its state, then the commit, then the
\* ack.  Inside the runner's one_commit (CommitWindow ends it) nothing is committed,
\* and the ack follows all the same.
EndPage ==
    /\ page # 0
    /\ conn' = IF held THEN conn ELSE [conn EXCEPT !.saved = Saved]
    /\ disk' = conn' \/ (rpc = "commit" /\ disk' = disk)
    /\ page' = 0 /\ next' = page + 1 /\ toAck' = page
    /\ UNCHANGED <<node, up, caught, held, live, runner, seen, upsets>>

AckSucceeds ==
    /\ toAck # 0
    /\ cursor' = toAck /\ toAck' = 0
    /\ UNCHANGED <<now, low, historian, code, up, next, page, caught, held, live, buffer, runner, seen, upsets>>

\* The ingest reads from the acknowledged cursor again.
AckFails ==
    /\ Upset
    /\ toAck # 0 /\ page = 0
    /\ toAck' = 0 /\ next' = cursor + 1
    /\ UNCHANGED <<node, up, page, caught, held, live, buffer, runner, seen>>

CatchUp ==
    /\ up /\ page = 0 /\ next > now /\ ~caught
    /\ caught' = TRUE
    /\ UNCHANGED <<node, up, next, page, toAck, held, live, buffer, runner, seen, upsets>>

\* DataOpsService._on_gap: with a historian a repair over the gap's time range is
\* recorded, once, and the ingest goes on; without one an operator accepted the loss.
PassGap ==
    /\ up /\ page = 0 /\ next < low
    /\ gapped' = gapped \cup ((next .. low - 1) \ conn.points)
    /\ next' = low
    /\ IF historian /\ ~conn.jobs["gap"].made
       THEN Write(WithJob("gap", [start |-> next, end |-> low, pos |-> next, windows |-> 0, hash |-> NoHash,
                                  done |-> FALSE, made |-> TRUE]))
       ELSE UNCHANGED buffer
    /\ UNCHANGED <<node, up, page, toAck, caught, held, live, runner, covered, lost, upsets>>

-----------------------------------------------------------------------------
(* BackfillRunner.run and _run_job *)

\* BackfillRunner._runs.
Runs(n) == ~conn.jobs[n].done /\ (n # "initial" \/ Declares # "none")
Holding(n) == conn.jobs[n].end = 0
Row == conn.jobs[job]

\* Held, a job that finished a window before goes on with the state saved then.
RestoreFor(n) == IF Holding(n) /\ conn.jobs[n].windows > 0 /\ conn.jobs[n].hash = code /\ Restored
                 THEN Checkpoint ELSE live

\* A job that holds live dispatch goes first, the oldest of them: a replay beside a
\* held first backfill was recorded before it.  Changed code starts a job over.
TakeJob ==
    /\ up /\ rpc = "look"
    /\ \E n \in Names :
          LET old  == conn.jobs[n]
              over == old.windows > 0 /\ old.hash # code
          IN  /\ Runs(n) /\ (Holding(n) \/ \A o \in Names : Runs(o) => ~Holding(o))
              /\ n = "initial" /\ Holding(n) => ~Runs("replay")
              /\ job' = n /\ rpc' = "loop"
              /\ rpos' = (IF over THEN old.start ELSE old.pos)
              /\ rwin' = (IF over THEN 0 ELSE old.windows)
              /\ IF over THEN Defer(WithJob(n, [old EXCEPT !.pos = old.start, !.windows = 0, !.hash = code]))
                 ELSE UNCHANGED buffer
              /\ live' = RestoreFor(n)
    /\ UNCHANGED <<node, up, ingest, held, rend, seen, upsets>>

\* The history begins where the buffer does: without a historian, and in a replay.
FromBuffer == job = "replay" \/ ~historian

\* _caught_up: until then the buffer is not where live intake continues from.
MustWait == ~caught /\ (Holding(job) \/ FromBuffer) /\ job # "gap"

\* The position after the stretch that holds nothing to read.
Skipped ==
    LET first == Earliest
        at == IF rpos < first \/ (job = "replay" /\ rwin = 0) THEN first ELSE rpos
        left == {r \in conn.points : r >= at}
    IN  IF ~FromBuffer \/ conn.points = {} THEN rpos
        ELSE IF job = "replay" /\ left # {} THEN Min(left)
        ELSE at

Looping == up /\ rpc = "loop" /\ ~(FromBuffer /\ MustWait)

\* The next window, while it ends before the live edge or the job's end.
NextWindow ==
    /\ Looping
    /\ \/ Holding(job) /\ Skipped + Window < Edge /\ rend' = Skipped + Window
       \/ ~Holding(job) /\ Skipped < Row.end /\ rend' = Smaller(Skipped + Window, Row.end)
    /\ rpos' = Skipped /\ rpc' = "window"
    /\ UNCHANGED <<node, up, ingest, held, live, buffer, job, rwin, seen, upsets>>

Finish ==
    /\ Looping
    /\ ~Holding(job) /\ Skipped >= Row.end
    /\ Defer(WithJob(job, [Row EXCEPT !.done = TRUE]))
    /\ rpc' = "look"
    /\ UNCHANGED <<node, up, ingest, held, live, job, rpos, rwin, rend, seen, upsets>>

\* The samples of a set in timestamp order.
InOrder(S) == {s \in [1 .. Cardinality(S) -> S] :
                 Range(s) = S /\ \A i, j \in DOMAIN s : i < j => s[i] < s[j]}

\* _window: the rows through the handlers, on the live instance or on one of the job's own.
RunWindow(next_pc) ==
    LET rows == Rows(rpos, rend, job)
    IN  /\ rpc' = next_pc
        /\ IF Holding(job)
           THEN /\ \E s \in InOrder(rows) : live' = [live EXCEPT !.st = @ \o s]
                /\ UNCHANGED covered
           ELSE covered' = covered \cup rows /\ UNCHANGED live
        /\ UNCHANGED <<node, up, ingest, held, buffer, job, rpos, rwin, rend, gapped, lost, upsets>>

WindowSucceeds == rpc = "window" /\ RunWindow("commit")

\* A handler raised, or a write was not confirmed: the state is put back, the
\* runner starts again (supervise), and the page lock is free.
WindowFails ==
    /\ Upset
    /\ rpc \in {"window", "handwindow"}
    /\ rpc' = "look"
    /\ UNCHANGED <<node, up, ingest, held, live, buffer, job, rpos, rwin, rend, seen>>

\* Mutant: the position is committed without the state.
CommittedAlone(pos, over) ==
    WithJob(job, [Row EXCEPT !.pos = pos, !.windows = rwin + 1, !.hash = code, !.done = over])

\* _commit: the state and the position in one commit.
Committed(pos, over) ==
    [WithJob(job, [Row EXCEPT !.pos = pos, !.windows = rwin + 1, !.hash = code, !.done = over])
        EXCEPT !.saved = IF Holding(job) THEN Saved ELSE @]

CommitWindow ==
    /\ rpc = "commit"
    /\ Defer(Committed(rend, FALSE))
    /\ rpos' = rend /\ rwin' = rwin + 1 /\ rpc' = "loop"
    /\ UNCHANGED <<node, up, ingest, held, live, job, rend, seen, upsets>>

-----------------------------------------------------------------------------
(* _hand_over *)

\* The live edge is within a window, and the ingest was at the head once: the lock
\* of the page is taken between two pages.
\* Mutant: the lock is taken inside a page.
TakeNoLock ==
    /\ Looping
    /\ Holding(job) /\ ~(Skipped + Window < Edge) /\ ~MustWait
    /\ rpos' = Skipped /\ rpc' = "handover"
    /\ UNCHANGED <<node, up, ingest, held, live, buffer, job, rwin, rend, seen, upsets>>

TakePageLock ==
    /\ Looping
    /\ Holding(job) /\ ~(Skipped + Window < Edge) /\ ~MustWait
    /\ page = 0
    /\ rpos' = Skipped /\ rpc' = "handover"
    /\ UNCHANGED <<node, up, ingest, held, live, buffer, job, rwin, rend, seen, upsets>>

\* The edge moved on while the runner waited for the lock, or the rest is read.
CheckEdge ==
    /\ rpc = "handover"
    /\ IF rpos + Window < Edge THEN rpc' = "loop" /\ UNCHANGED rend
       ELSE rpc' = "handwindow" /\ rend' = Larger(PastEdge, rpos)
    /\ UNCHANGED <<node, up, ingest, held, live, buffer, job, rpos, rwin, seen, upsets>>

HandWindow == rpc = "handwindow" /\ RunWindow("handcommit")

\* Mutant: the job is not ended with the last window.
HandCommitOpen ==
    /\ rpc = "handcommit"
    /\ Defer(Committed(rend, FALSE))
    /\ rpc' = "handmark"
    /\ UNCHANGED <<node, up, ingest, held, live, job, rpos, rwin, rend, seen, upsets>>

HandCommit ==
    /\ rpc = "handcommit"
    /\ Defer(Committed(rend, TRUE))
    /\ rpc' = "handmark"
    /\ UNCHANGED <<node, up, ingest, held, live, job, rpos, rwin, rend, seen, upsets>>

SetWatermark ==
    /\ rpc = "handmark"
    /\ Write([conn EXCEPT !.mark = code])
    /\ rpc' = "release"
    /\ UNCHANGED <<node, up, ingest, held, live, job, rpos, rwin, rend, seen, upsets>>

Release ==
    /\ rpc = "release"
    /\ held' = FALSE /\ rpc' = "look"
    /\ UNCHANGED <<node, up, ingest, live, buffer, job, rpos, rwin, rend, seen, upsets>>

-----------------------------------------------------------------------------
Reading == ReadPage \/ EndPage \/ AckSucceeds \/ CatchUp \/ PassGap

\* What happens on its own: without a historian passing a gap is an operator's act.
ReadsOn == ReadPage \/ EndPage \/ AckSucceeds \/ CatchUp \/ (historian /\ PassGap)
Running ==
    \/ TakeJob \/ NextWindow \/ Finish \/ WindowSucceeds \/ CommitWindow
    \/ TakePageLock \/ CheckEdge \/ HandWindow \/ HandCommit \/ SetWatermark \/ Release

Next == Start \/ Stop \/ Admit \/ Prune \/ AckFails \/ WindowFails \/ Reading \/ Running

Spec == Init /\ [][Next]_vars

\* The process is started again, the ingest and the runner go on (supervise
\* restarts them), and the ingest's thread lets the lock of its page go: asyncio
\* and threading schedule whoever is ready.  Taking the lock between two pages
\* needs it to be free again and again.
FairSpec == Spec /\ WF_vars(Start) /\ WF_vars(ReadsOn) /\ WF_vars(Running) /\ SF_vars(TakePageLock)

-----------------------------------------------------------------------------
(* Properties *)

TypeOK ==
    /\ now \in 0 .. MaxTime /\ low \in 1 .. now + 1 /\ cursor \in 0 .. now /\ code \in 0 .. 1
    /\ next \in 1 .. now + 1 /\ page \in 0 .. now /\ toAck \in 0 .. now
    /\ live.st \in Seq(Samples) /\ live.off \in 0 .. now
    /\ conn.points \subseteq Samples /\ disk.points \subseteq conn.points
    /\ \A n \in Names : conn.jobs[n].pos \in 0 .. MaxTime + 2 /\ conn.jobs[n].hash \in 0 .. NoHash
    /\ page = 0 /\ rpc # "commit" => conn = disk
    /\ PageLocked => page = 0 /\ held /\ Holding(job)

\* A sample that comes out of order in a state is one the state has already, or one
\* from before the first backfill.
InTimeOrder(s) ==
    \A i, j \in 1 .. Len(s) : i < j /\ s[i] > s[j] =>
        s[j] < conn.jobs["initial"].start \/ \E k \in 1 .. i - 1 : s[k] = s[j]

\* One instance sees the producer's whole timeline in order, history before live
\* records, whatever stops, fails and is done again.
OneTimeline == InTimeOrder(live.st) /\ InTimeOrder(conn.saved.st)

\* A first backfill that holds live dispatch holds it until it is done (plan), and
\* no other job's hand-over lets the producer go before.
FirstIsHeld ==
    LET j == conn.jobs["initial"] IN
    up /\ Declares = "hold" /\ j.made /\ ~j.done /\ j.end = 0 => held

\* A producer that is not held has taken in all that was acknowledged since its first
\* backfill's start, but for what the stream pruned unread and what a stop took from a
\* page acknowledged uncommitted (README, Seen on the way), and all the buffer holds,
\* the page under way included.
NothingMissed ==
    up /\ ~held =>
        \A r \in Samples : r >= conn.jobs["initial"].start =>
            /\ r <= cursor => r \in Range(live.st) \cup gapped \cup lost
            /\ r \in conn.points => r \in Range(live.st)

\* A first backfill beside live dispatch: history and live together leave nothing
\* out that the historian or the buffer still has.  A record the stream pruned
\* unread is in the historian; a gap behind buffered samples is the repair's, and
\* what a stop took there stays out.
UnionCovers ==
    LET j == disk.jobs["initial"] IN
    j.done /\ j.made /\ j.end # 0 /\ up /\ ~held =>
        \A r \in j.start .. Smaller(j.end - 1, cursor) :
            \/ r \in covered \cup Range(live.st)
            \/ ~historian /\ (r \in gapped \cup lost \/ r < Earliest)
            \/ r \in gapped \cup lost /\ conn.points # {} /\ r > Earliest

\* The live triggers are released in the end, and every recorded job ends, whatever
\* stops or fails on the way (backfill.py, run), unless the ingest waits for good for
\* an operator to accept a loss (service.py, _on_gap).
HoldEnds == held ~> up /\ ~held
JobsEnd  == \A n \in Names : conn.jobs[n].made /\ ~conn.jobs[n].done /\ Declares # "none" ~> conn.jobs[n].done
OperatorAsked == up /\ ~historian /\ page = 0 /\ next < low
BackfillsEnd == []<>~OperatorAsked => HoldEnds /\ JobsEnd
=============================================================================
