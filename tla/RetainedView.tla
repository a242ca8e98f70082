---------------------------- MODULE RetainedView ----------------------------
(***************************************************************************)
(* src/chaski/retained_view.py: a copy of the node's retained state within *)
(* a scope, taken once from /kv and kept current from the streams.         *)
(*                                                                         *)
(* Three threads share the view's lock: the background drain (_run), a     *)
(* caller of synchronize(), and the thread of the hints (StreamChanges),   *)
(* which makes the view unavailable when its connection fails.  A drain    *)
(* holds the lock from its first request to its last, so two drains never  *)
(* interleave; the node, readers without the lock, hints and the clock     *)
(* interleave with every request.                                          *)
(*                                                                         *)
(* The order in which a hint is stored and rung is looked at in            *)
(* StreamConsumer; here it is one step.  Closing the view is left out.     *)
(***************************************************************************)
EXTENDS Integers, Sequences, FiniteSets, FiniteSetsExt

CONSTANTS
    Streams,    \* the streams the view reads
    Topics,     \* the topics within the view's contracts and scope
    StreamOf,   \* StreamOf[t]: the stream the records of topic t are on
    Other,      \* stands for the topics outside of the scope
    PageSize,   \* most records of one fetch (1000)
    Prunes,     \* whether the node prunes past the cursor
    MaxRecords, \* bound: records ever admitted
    Troubles,   \* what may happen: "drop" the hints' connection is lost, "fail"
                \* a request fails, "reset" the node loses records, "sync" a
                \* caller synchronizes
    MaxTroubles \* bound: how many of them happen

ASSUME ViewAssumption ==
    /\ StreamOf \in [Topics -> Streams] /\ Other \notin Topics
    /\ IsFiniteSet(Streams) /\ IsFiniteSet(Topics)
    /\ PageSize \in Nat \ {0} /\ Prunes \in BOOLEAN
    /\ MaxRecords \in Nat /\ MaxTroubles \in Nat
    /\ Troubles \subseteq {"drop", "fail", "reset", "sync"}

VARIABLES
    log,        \* node: the records of each stream: topic, number, whether it has a payload
    cursor,     \* node: the view's cursor on each stream
    low,        \* node: the first offset each stream still holds, 1 if none after the
                \* cursor is pruned
    admitted,   \* node: how many records were ever admitted; the newest one's number
    conn,       \* the watch: "down", "up", or "dropping" until the view knows of it
    told,       \* node: the head the connection's last hint said, per stream, -1 for none
    sub,        \* StreamChanges.subscription
    latest,     \* StreamChanges._latest, per stream
    changed,    \* the stream's signal rang since _stream_versions
    captured,   \* it did not ring since the running drain took its version
    rung,       \* watch.changes rang since _run took its version
    run,        \* what _run does next
    silent,     \* _run's last wait timed out, and what it drains for that has not begun
    holder,     \* who drains, holding the lock: "none", "bg" or "sync"
    pc,         \* what the drain does next
    drain,      \* the locals of _snapshot
    entries,    \* the number of the record shown per topic, 0 for none
    offsets,    \* self.offsets
    positions,  \* self.positions
    drainedOn,  \* self._drained_on
    initialized, available,
    hidden,     \* history: topics for which a reset took what the view shows, and the
                \* view's position does not tell
    failing,    \* _failing_since: "no", "yes", "expired" after STALE_GRACE_S
    published,  \* what readers copy
    refusing,   \* a reader found the grace over, and is about to say so
    troubles    \* how many of Troubles happened

node == <<log, cursor, low, admitted>>
watch == <<conn, told, sub, latest>>
signals == <<changed, captured, rung>>
loop == <<run, silent>>
locked == <<holder, pc, drain>>
state == <<entries, offsets, positions, drainedOn, initialized, hidden>>
reading == <<available, failing, published>>
vars == <<node, watch, signals, loop, locked, state, reading, refusing, troubles>>

Untold == [s \in Streams |-> -1]
NoChange == [head |-> 0, sub |-> 0]
NoDrain == [took |-> {}, todo |-> {}, hinted |-> FALSE, tries |-> 0,
            stream |-> CHOOSE s \in Streams : TRUE, change |-> NoChange,
            head |-> 0, heads |-> [s \in Streams |-> 0], first |-> TRUE, next |-> 1,
            asked |-> [s \in Streams |-> 0]]

MaxOf(a, b) == IF a > b THEN a ELSE b

MinOf(a, b) == IF a < b THEN a ELSE b

\* The last offset in lo .. hi of stream s with a record of topic t, or 0.
LastOf(s, lo, hi, t) ==
    LET found == {i \in lo .. hi : log[s][i].topic = t}
    IN  IF found = {} THEN 0 ELSE Max(found)

\* What the record at offset i shows: nothing if it is a tombstone, or there is none.
Shows(s, i) == IF i = 0 \/ ~log[s][i].live THEN 0 ELSE log[s][i].id

\* The node's retained state of topic t when its stream ended at offset n.
KvAt(n, t) == Shows(StreamOf[t], LastOf(StreamOf[t], 1, n, t))

Kv(t) == KvAt(Len(log[StreamOf[t]]), t)

Init ==
    /\ log = [s \in Streams |-> <<>>] /\ cursor = [s \in Streams |-> 0]
    /\ low = [s \in Streams |-> 1] /\ admitted = 0
    /\ conn = "down" /\ told = Untold /\ sub = 0
    /\ latest = [s \in Streams |-> NoChange]
    /\ changed = [s \in Streams |-> TRUE] /\ captured = [s \in Streams |-> FALSE]
    /\ rung = FALSE /\ run = "top" /\ silent = FALSE
    /\ holder = "none" /\ pc = "none" /\ drain = NoDrain
    /\ entries = [t \in Topics |-> 0] /\ offsets = [t \in Topics |-> 0]
    /\ positions = [s \in Streams |-> 0] /\ drainedOn = [s \in Streams |-> 0]
    /\ initialized = FALSE /\ hidden = {} /\ available = FALSE /\ failing = "no"
    /\ published = [t \in Topics |-> 0]
    /\ refusing = FALSE /\ troubles = 0

Trouble(kind) ==
    /\ kind \in Troubles /\ troubles < MaxTroubles
    /\ troubles' = troubles + 1

-----------------------------------------------------------------------------
(* The node *)

Admit(s) ==
    /\ admitted < MaxRecords
    /\ admitted' = admitted + 1
    /\ \E t \in {u \in Topics : StreamOf[u] = s} \cup {Other}, live \in BOOLEAN :
          /\ t = Other => live
          /\ log' = [log EXCEPT ![s] = Append(@, [topic |-> t, live |-> live, id |-> admitted + 1])]
    /\ UNCHANGED <<cursor, low, watch, signals, loop, locked, state, reading, refusing, troubles>>

\* The node prunes records the view did not acknowledge.
Prune(s) ==
    /\ Prunes /\ cursor[s] < Len(log[s]) /\ low[s] <= Len(log[s])
    /\ low' = [low EXCEPT ![s] = Len(log[s]) + 1]
    /\ UNCHANGED <<log, cursor, admitted, watch, signals, loop, locked, state, reading, refusing, troubles>>

\* The node lost records of stream s the view had acknowledged.
Behind(s) == cursor[s] < positions[s]

\* The view shows of topic t what the node did when its stream ended at n, and
\* will take no record of it up to there for a newer one.
Matches(t, n) ==
    /\ entries[t] = KvAt(n, t)
    /\ offsets[t] = LastOf(StreamOf[t], 1, n, t) \/ (offsets[t] = 0 /\ entries[t] = 0)

Unavailable == available' = FALSE /\ failing' = "no" /\ UNCHANGED published

\* A failed drain.  _tolerate keeps a readable view readable for the grace;
\* synchronize() makes it unavailable and wakes the background drain.
Fail(expected) ==
    /\ IF holder = "bg" /\ available /\ expected /\ failing # "expired"
       THEN failing' = "yes" /\ UNCHANGED <<available, published>>
       ELSE Unavailable
    /\ run' = IF holder = "bg" THEN "backoff" ELSE run
    /\ rung' = (rung \/ holder = "sync")
    /\ holder' = "none" /\ pc' = "none" /\ drain' = NoDrain
    /\ captured' = [s \in Streams |-> FALSE] /\ UNCHANGED <<changed, silent>>

\* The drain is between requests that build on one another.
Engaged == pc \in {"bootKv", "bootAck", "ack"} \/ (pc = "fetch" /\ ~drain.first)

\* The node comes back without its newest records, and with cursors as old or
\* older: it was reset or restored.  That fails the request an engaged drain is at.
\* The view may show such records although its position is before them: it read
\* them from /kv, or it applied them and their ack failed.
Reset ==
    /\ Trouble("reset")
    /\ \E to \in [Streams -> 0 .. MaxRecords] :
          /\ \A s \in Streams : to[s] <= Len(log[s])
          /\ \E s \in Streams : to[s] < Len(log[s])
          /\ log' = [s \in Streams |-> SubSeq(log[s], 1, to[s])]
          /\ cursor' \in {c \in [Streams -> 0 .. MaxRecords] :
                            \A s \in Streams : c[s] <= MinOf(cursor[s], to[s])}
          /\ low' \in {l \in [Streams -> 1 .. MaxRecords + 1] : \A s \in Streams : l[s] \in {1, to[s] + 1}}
          /\ hidden' = hidden \cup
                {t \in Topics : LET s == StreamOf[t] IN
                    positions[s] <= cursor'[s] /\ \A n \in positions[s] .. to[s] : ~Matches(t, n)}
          /\ IF Engaged THEN Fail(TRUE)
             ELSE /\ drain' = [drain EXCEPT !.asked = [s \in Streams |-> MinOf(@[s], to[s])]]
                  /\ UNCHANGED <<holder, pc, signals, loop, reading>>
    /\ conn' = (IF conn = "up" THEN "dropping" ELSE conn) /\ told' = Untold
    /\ UNCHANGED <<admitted, sub, latest, entries, offsets, positions, drainedOn, initialized, refusing>>

-----------------------------------------------------------------------------
(* The hints *)

Connect ==
    /\ conn = "down"
    /\ conn' = "up"
    /\ UNCHANGED <<node, told, sub, latest, signals, loop, locked, state, reading, refusing, troubles>>

\* A hint arrives: the first one of a connection names every stream, a later one
\* those that grew; what is admitted meanwhile comes with the next.
Hint ==
    /\ conn = "up"
    /\ LET grown == {s \in Streams : told[s] < Len(log[s])}
           begins == \A s \in Streams : told[s] = -1
       IN  /\ grown # {}
           /\ sub' = IF begins THEN sub + 1 ELSE sub
           /\ told' \in {h \in [Streams -> -1 .. MaxRecords] : \A s \in Streams :
                            IF s \in grown THEN h[s] \in told[s] + 1 .. Len(log[s]) ELSE h[s] = told[s]}
           /\ latest' = [s \in Streams |-> IF s \in grown THEN [head |-> told'[s], sub |-> sub'] ELSE latest[s]]
           /\ changed' = [s \in Streams |-> s \in grown \/ changed[s]]
           /\ captured' = [s \in Streams |-> s \notin grown /\ captured[s]]
    /\ rung' = TRUE
    /\ UNCHANGED <<node, conn, loop, locked, state, reading, refusing, troubles>>

Disconnect ==
    /\ conn = "up" /\ Trouble("drop")
    /\ conn' = "dropping" /\ told' = Untold
    /\ UNCHANGED <<node, sub, latest, signals, loop, locked, state, reading, refusing>>

\* disconnected=self._unavailable, which waits for the lock.
Disconnected ==
    /\ conn = "dropping" /\ holder = "none"
    /\ conn' = "down" /\ Unavailable
    /\ UNCHANGED <<node, told, sub, latest, signals, loop, locked, state, refusing, troubles>>

-----------------------------------------------------------------------------
(* Who drains *)

\* _snapshot takes the lock and the versions of the streams it is to drain.  For
\* CausalRead, drain.asked keeps where the streams ended when a caller asked.
Start(who, selected, hinted) ==
    /\ holder' = who /\ pc' = "pass"
    /\ drain' = [NoDrain EXCEPT !.took = selected, !.hinted = hinted,
                    !.asked = [s \in Streams |-> IF who = "sync" THEN Len(log[s]) ELSE 0]]
    /\ captured' = [s \in Streams |-> s \in selected]

TakeVersion ==
    /\ run = "top"
    /\ run' = "refresh" /\ rung' = FALSE
    /\ UNCHANGED <<node, watch, changed, captured, silent, locked, state, reading, refusing, troubles>>

\* _refresh_changed
Refresh ==
    /\ run = "refresh" /\ holder = "none"
    /\ LET selected == IF silent THEN Streams ELSE {s \in Streams : ~available \/ changed[s]}
       IN  IF selected = {}
           THEN run' = "wait" /\ UNCHANGED <<locked, captured>>
           ELSE run' = "draining" /\ Start("bg", selected, ~silent)
    /\ silent' = FALSE
    /\ UNCHANGED <<node, watch, changed, rung, state, reading, refusing, troubles>>

\* Mutant: a causal read trusts the hints.
CausalHinted == TRUE

CausalIsHinted == FALSE

Synchronize ==
    /\ holder = "none" /\ Trouble("sync")
    /\ Start("sync", Streams, CausalIsHinted)
    /\ UNCHANGED <<node, watch, changed, rung, loop, state, reading, refusing>>

\* A hint between the end of a wait and TakeVersion is as one before that end.
Wake ==
    /\ run = "wait" /\ rung
    /\ run' = "refresh" /\ rung' = FALSE /\ silent' = FALSE
    /\ UNCHANGED <<node, watch, changed, captured, locked, state, reading, refusing, troubles>>

\* No hint for IDLE_DRAIN_S.
IdleDrain ==
    /\ run = "wait" /\ ~rung
    /\ run' = "top" /\ silent' = TRUE
    /\ UNCHANGED <<node, watch, signals, locked, state, reading, refusing, troubles>>

Retry ==
    /\ run = "backoff"
    /\ run' = "refresh" /\ rung' = FALSE /\ silent' = FALSE
    /\ UNCHANGED <<node, watch, changed, captured, locked, state, reading, refusing, troubles>>

GraceEnds ==
    /\ failing = "yes" /\ failing' = "expired"
    /\ UNCHANGED <<node, watch, signals, loop, locked, state, available, published, refusing, troubles>>

\* snapshot(): a reader finds the grace over, without the lock.
ReaderFinds ==
    /\ failing = "expired" /\ ~refusing /\ refusing' = TRUE
    /\ UNCHANGED <<node, watch, signals, loop, locked, state, reading, troubles>>

\* It makes the view unavailable once it has the lock, whatever happened since.
ReaderRefuses ==
    /\ refusing /\ holder = "none"
    /\ refusing' = FALSE /\ Unavailable
    /\ UNCHANGED <<node, watch, signals, loop, locked, state, troubles>>

\* Mutant: the streams drained are clean, whatever rang meanwhile.
ReleaseDrained ==
    /\ changed' = [s \in Streams |-> s \notin drain.took /\ changed[s]]
    /\ captured' = [s \in Streams |-> FALSE] /\ UNCHANGED rung

\* _stream_versions.update(versions)
Release ==
    /\ changed' = [s \in Streams |-> IF s \in drain.took THEN ~captured[s] ELSE changed[s]]
    /\ captured' = [s \in Streams |-> FALSE] /\ UNCHANGED rung

\* Every stream was drained: readers get the new state.
Finish ==
    /\ pc = "pick" /\ drain.todo = {}
    /\ available' = TRUE /\ failing' = "no" /\ published' = entries
    /\ Release
    /\ run' = IF holder = "bg" THEN "wait" ELSE run
    /\ holder' = "none" /\ pc' = "none" /\ drain' = NoDrain
    /\ UNCHANGED <<node, watch, silent, state, refusing, troubles>>

-----------------------------------------------------------------------------
(* _snapshot and _bootstrap *)

\* One of the three tries, on a view that holds a state.
Pass ==
    /\ pc = "pass" /\ drain.tries < 3 /\ initialized
    /\ pc' = "pick"
    /\ drain' = [drain EXCEPT !.tries = @ + 1, !.todo = drain.took]
    /\ UNCHANGED <<node, watch, signals, loop, holder, state, reading, refusing, troubles>>

\* The positions come before the snapshot.
BootHeads ==
    /\ pc = "pass" /\ drain.tries < 3 /\ ~initialized
    /\ pc' = "bootKv"
    /\ drain' = [drain EXCEPT !.tries = @ + 1, !.took = Streams, !.todo = Streams,
                              !.heads = [s \in Streams |-> Len(log[s])]]
    /\ captured' = [s \in Streams |-> TRUE]
    /\ UNCHANGED <<node, watch, changed, rung, loop, holder, state, reading, refusing, troubles>>

BootKv ==
    /\ pc = "bootKv"
    /\ pc' = "bootAck"
    /\ entries' = [t \in Topics |-> Kv(t)]
    /\ offsets' = [t \in Topics |->
                     IF Kv(t) = 0 THEN 0 ELSE LastOf(StreamOf[t], 1, Len(log[StreamOf[t]]), t)]
    /\ hidden' = {}
    /\ UNCHANGED <<node, watch, signals, loop, holder, drain, positions, drainedOn, initialized, reading, refusing, troubles>>

Held(s, c) == IF low[s] <= c + 1 THEN 1 ELSE low[s]

BootAck ==
    /\ pc = "bootAck"
    /\ pc' = "pick"
    /\ cursor' = [s \in Streams |-> MaxOf(cursor[s], drain.heads[s])]
    /\ low' = [s \in Streams |-> Held(s, cursor'[s])]
    /\ positions' = drain.heads /\ drainedOn' = [s \in Streams |-> 0]
    /\ initialized' = TRUE
    /\ drain' = [drain EXCEPT !.heads = NoDrain.heads]
    /\ UNCHANGED <<log, admitted, watch, signals, loop, holder, entries, offsets, hidden, reading, refusing, troubles>>

GiveUp ==
    /\ pc = "pass" /\ drain.tries = 3
    /\ Fail(TRUE)
    /\ UNCHANGED <<node, watch, state, refusing, troubles>>

Covered(s) ==
    /\ drain.hinted /\ latest[s].sub # 0
    /\ drainedOn[s] = latest[s].sub /\ positions[s] >= latest[s].head

\* A hint the view already applied costs no request.
SkipStream ==
    /\ pc = "pick"
    /\ \E s \in drain.todo :
          Covered(s) /\ drain' = [drain EXCEPT !.todo = @ \ {s}]
    /\ UNCHANGED <<node, watch, signals, loop, holder, pc, state, reading, refusing, troubles>>

PickStream ==
    /\ pc = "pick"
    /\ \E s \in drain.todo :
          /\ ~Covered(s)
          /\ LET change == IF drain.hinted THEN latest[s] ELSE NoChange
             IN  /\ drain' = [drain EXCEPT !.stream = s, !.change = change, !.head = change.head,
                                           !.first = TRUE]
                 /\ pc' = IF change = NoChange THEN "head" ELSE "fetch"
    /\ UNCHANGED <<node, watch, signals, loop, holder, state, reading, refusing, troubles>>

ReadHead ==
    /\ pc = "head"
    /\ pc' = "fetch" /\ drain' = [drain EXCEPT !.head = Len(log[drain.stream])]
    /\ UNCHANGED <<node, watch, signals, loop, holder, state, reading, refusing, troubles>>

\* The stream is drained through its head.
StreamDone ==
    /\ pc' = "pick"
    /\ drain' = [drain EXCEPT !.todo = @ \ {drain.stream}, !.change = NoChange, !.head = 0,
                              !.first = TRUE, !.next = 1]
    /\ drainedOn' = IF drain.change = NoChange THEN drainedOn
                    ELSE [drainedOn EXCEPT ![drain.stream] = drain.change.sub]

\* Mutant: a restarted node is not noticed.
NotRestarted(s) == FALSE

\* The first page starts below the position: the node lost acknowledged records.
Restarted(s) == drain.first /\ Behind(s)

Gap(s) == cursor[s] + 1 < low[s]

\* A restarted stream or a pruned range: the view is rebuilt.
FetchRebuild ==
    /\ pc = "fetch" /\ (Restarted(drain.stream) \/ Gap(drain.stream))
    /\ initialized' = FALSE /\ pc' = "pass"
    /\ drain' = [drain EXCEPT !.change = NoChange, !.head = 0, !.first = TRUE]
    /\ UNCHANGED <<node, watch, signals, loop, holder, entries, offsets, positions, drainedOn, hidden, reading, refusing, troubles>>

\* Per-topic offsets reject records older than the snapshot.
Newer(t, i) == i > offsets[t]

FetchPage ==
    LET s == drain.stream
    IN  /\ pc = "fetch" /\ ~Restarted(s) /\ ~Gap(s) /\ cursor[s] < Len(log[s])
        /\ \E next \in cursor[s] + 2 .. Len(log[s]) + 1 :
              LET found(t) == IF StreamOf[t] = s THEN LastOf(s, cursor[s] + 1, next - 1, t) ELSE 0
              IN  /\ Cardinality({i \in cursor[s] + 1 .. next - 1 : log[s][i].topic # Other}) <= PageSize
                  /\ offsets' = [t \in Topics |-> IF Newer(t, found(t)) THEN found(t) ELSE offsets[t]]
                  /\ entries' = [t \in Topics |-> IF Newer(t, found(t)) THEN Shows(s, found(t)) ELSE entries[t]]
                  /\ drain' = [drain EXCEPT !.next = next, !.first = FALSE]
        /\ pc' = "ack"
        /\ UNCHANGED <<node, watch, signals, loop, holder, positions, drainedOn, initialized, hidden, reading, refusing, troubles>>

FetchNothing ==
    LET s == drain.stream
    IN  /\ pc = "fetch" /\ ~Restarted(s) /\ ~Gap(s) /\ cursor[s] = Len(log[s]) /\ cursor[s] >= drain.head
        /\ positions' = [positions EXCEPT ![s] = MaxOf(@, cursor[s])]
        /\ StreamDone
        /\ UNCHANGED <<node, watch, signals, loop, holder, entries, offsets, initialized, hidden, reading, refusing, troubles>>

\* ColcaUnavailable: the stream ends before the head.
FetchShort ==
    LET s == drain.stream
    IN  /\ pc = "fetch" /\ ~Restarted(s) /\ ~Gap(s) /\ cursor[s] = Len(log[s]) /\ cursor[s] < drain.head
        /\ Fail(TRUE)
        /\ UNCHANGED <<node, watch, state, refusing, troubles>>

\* Mutant: the offset to read next is acknowledged.
AckNext == drain.next

AckOffset == drain.next - 1

AckPage ==
    LET s == drain.stream
    IN  /\ pc = "ack"
        /\ cursor' = [cursor EXCEPT ![s] = MaxOf(@, AckOffset)]
        /\ low' = [low EXCEPT ![s] = Held(s, cursor'[s])]
        /\ positions' = [positions EXCEPT ![s] = AckOffset]
        /\ IF AckOffset >= drain.head THEN StreamDone
           ELSE pc' = "fetch" /\ drain' = [drain EXCEPT !.next = 1] /\ UNCHANGED drainedOn
        /\ UNCHANGED <<log, admitted, watch, signals, loop, holder, entries, offsets, initialized, hidden,
                       reading, refusing, troubles>>

\* Any request fails, for a reason Colca causes or another.
HttpFails ==
    /\ Trouble("fail")
    /\ pc \in {"bootKv", "bootAck", "head", "fetch", "ack"} \/ (pc = "pass" /\ ~initialized)
    /\ \E expected \in BOOLEAN : Fail(expected)
    /\ UNCHANGED <<node, watch, state, refusing>>

-----------------------------------------------------------------------------
Drain ==
    \/ Pass \/ BootHeads \/ BootKv \/ BootAck \/ GiveUp
    \/ SkipStream \/ PickStream \/ ReadHead
    \/ FetchRebuild \/ FetchPage \/ FetchNothing \/ FetchShort \/ AckPage \/ Finish

Next ==
    \/ \E s \in Streams : Admit(s) \/ Prune(s)
    \/ Reset \/ Connect \/ Hint \/ Disconnect \/ Disconnected
    \/ TakeVersion \/ Refresh \/ Synchronize \/ Wake \/ IdleDrain \/ Retry
    \/ GraceEnds \/ ReaderFinds \/ ReaderRefuses \/ Drain \/ HttpFails

Spec == Init /\ [][Next]_vars

\* Threads run, hints arrive, and requests are answered but for MaxTroubles
\* of them.  The lock is free during every wait and backoff of _run, so the
\* thread of the hints and a reader get it.  Nothing is assumed of IdleDrain.
Fairness ==
    /\ WF_vars(Connect \/ Hint) /\ SF_vars(Disconnected)
    /\ WF_vars(TakeVersion \/ Refresh \/ Wake \/ Retry)
    /\ WF_vars(Drain) /\ SF_vars(ReaderRefuses)

FairSpec == Spec /\ Fairness

-----------------------------------------------------------------------------
(* Properties *)

Records == [topic : Topics \cup {Other}, live : BOOLEAN, id : 1 .. MaxRecords]

Change == [head : Nat, sub : Nat]

\* The locals of _snapshot.
Locals == [took : SUBSET Streams, todo : SUBSET Streams, hinted : BOOLEAN, tries : 0 .. 3,
           stream : Streams \cup {NoDrain.stream}, change : Change,
           head : Nat, heads : [Streams -> Nat], first : BOOLEAN, next : Nat \ {0},
           asked : [Streams -> Nat]]

\* The node and its hints.
NodeOK ==
    /\ log \in [Streams -> Seq(Records)] /\ admitted \in 0 .. MaxRecords
    /\ cursor \in [Streams -> Nat] /\ low \in [Streams -> Nat \ {0}]
    /\ \A s \in Streams : cursor[s] <= Len(log[s]) /\ low[s] <= Len(log[s]) + 1
    /\ conn \in {"down", "up", "dropping"} /\ sub \in Nat
    /\ told \in [Streams -> -1 .. MaxRecords] /\ latest \in [Streams -> Change]
    /\ changed \in [Streams -> BOOLEAN] /\ captured \in [Streams -> BOOLEAN] /\ rung \in BOOLEAN

\* The view.
ViewOK ==
    /\ run \in {"top", "refresh", "draining", "wait", "backoff"} /\ silent \in BOOLEAN
    /\ entries \in [Topics -> 0 .. MaxRecords] /\ offsets \in [Topics -> Nat]
    /\ published \in [Topics -> 0 .. MaxRecords]
    /\ positions \in [Streams -> Nat] /\ drainedOn \in [Streams -> Nat]
    /\ initialized \in BOOLEAN /\ hidden \subseteq Topics /\ available \in BOOLEAN /\ failing \in {"no", "yes", "expired"}
    /\ refusing \in BOOLEAN /\ troubles \in 0 .. MaxTroubles

\* The drain: it holds the lock, and works on a stream it has still to do.
DrainOK ==
    /\ holder \in {"none", "bg", "sync"}
    /\ pc \in {"none", "pass", "bootKv", "bootAck", "pick", "head", "fetch", "ack"}
    /\ holder = "none" <=> pc = "none"
    /\ run = "draining" <=> holder = "bg"
    /\ drain \in Locals
    /\ pc \in {"head", "fetch", "ack"} => drain.stream \in drain.todo
    /\ pc \in {"bootKv", "bootAck"} => \A s \in Streams : drain.heads[s] \in cursor[s] .. Len(log[s])
    /\ pc = "ack" => drain.next \in cursor[drain.stream] + 2 .. Len(log[drain.stream]) + 1

\* Every variable has its type, the lock is held exactly while a drain runs, and
\* the offsets it is about to acknowledge lie between the cursor and the head.
TypeOK == NodeOK /\ ViewOK /\ DrainOK

\* A view that took its snapshot shows, for every topic, the node's state at some
\* offset at or after its position: it applied every record up to it, and none out
\* of order.  Records a node lost are noticed at the next first page, but for those
\* the view's position was not past yet (README, Seen on the way).
AppliedState ==
    initialized => \A t \in Topics \ hidden :
        \/ Behind(StreamOf[t])
        \/ \E n \in positions[StreamOf[t]] .. Len(log[StreamOf[t]]) : entries[t] = KvAt(n, t)

\* What synchronize() returns holds every record admitted before it was called,
\* whatever the hints had said by then, unless the node lost it meanwhile.
CausalRead ==
    [][holder = "sync" /\ pc = "pick" /\ holder' = "none" =>
         \A t \in Topics \ hidden : LET s == StreamOf[t] IN
            \/ Behind(s)
            \/ \E n \in drain.asked[s] .. Len(log[s]) : published'[t] = KvAt(n, t)]_vars

\* Once the node, the link and the callers are quiet, the state readers get is
\* the node's, woken by hints alone, but for what a reset took unnoticed; and the view
\* is readable, if no grace ended and no idle drain was needed (what happens then:
\* README, Seen on the way).
Converges ==
    /\ <>[](\A t \in Topics \ hidden : published[t] = Kv(t))
    /\ [](~silent /\ failing # "expired") => <>[]available

=============================================================================
