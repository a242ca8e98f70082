--------------------------- MODULE ServiceRecords ---------------------------
(***************************************************************************)
(* src/chaski/service.py: the records one service keeps at its node.       *)
(* A catalogue says which paths it publishes, the node binds a Signal to   *)
(* each, samples go to the bound Signal or wait on disk for it, and a      *)
(* retained record says whether the service is up.  Decisions are made     *)
(* under one lock, which the MQTT network thread takes too; every publish  *)
(* happens outside of it, for only that thread reads the PUBACK.           *)
(*                                                                         *)
(* The session is persistent: what was handed to the MQTT client is sent   *)
(* in order, over a lost link too, and a crash loses it.                   *)
(***************************************************************************)
EXTENDS Integers, Sequences, FiniteSets, Functions

CONSTANTS
    Paths,       \* what is published
    Writers,     \* threads that call publish() and declare()
    MaxRows,     \* _MAX_BUFFERED_PER_PATH
    MaxSamples,  \* bound: samples per path
    MaxUpsets    \* bound: lost links, writes that time out, crashes, changes of a binding

ASSUME ServiceAssumption ==
    /\ Paths # {} /\ IsFiniteSet(Paths) /\ Writers # {} /\ Writers \cap {"main", "drain", "none"} = {}
    /\ MaxRows \in Nat \ {0} /\ MaxSamples \in Nat /\ MaxUpsets \in Nat

VARIABLES
    mpc,       \* the thread that starts and closes the service
    closed,    \* Service._closed
    link,      \* the MQTT connection is up
    will,      \* a last will the broker has yet to publish
    out,       \* writes handed to the MQTT client, in order
    inb,       \* what the network thread has to read, in order
    net,       \* the network thread: idle, or in _reannounce
    retry,     \* the thread of _retry_reannounce
    cat, dirty, revision, seen,   \* the Catalogue, and the paths of this run
    bind,      \* _bindings: what is bound to each path
    wpc, task, \* each writer, and the publish() it is in
    rows,      \* pending-samples.sqlite3: the samples of each path
    sources,   \* _pending_sources
    dpc, dpaths, dpath, dpage,  \* the thread of _drain_pending
    node,      \* what the node keeps: catalogue, Signals, samples, the own record
    made, minted, accepted, dropped, held, late,  \* history
    upsets

main  == <<mpc, closed>>
wire  == <<link, will, out, inb>>
again == <<net, retry>>
known == <<cat, dirty, revision, seen>>
writers == <<wpc, task>>
pending == <<rows, sources>>
drain == <<dpc, dpaths, dpath, dpage>>
history == <<made, minted, accepted, dropped, held, late>>
vars == <<main, wire, again, known, bind, writers, pending, drain, node, history, upsets>>

Unknown == [id |-> 0, stale |-> FALSE]
Unbound == [id |-> 0, on |-> FALSE]

\* Sample k of path p, to be sent or not; what to publish of the catalogue is added later.
TaskOf(p, k, send) == [path |-> p, k |-> k, send |-> send, payload |-> <<>>]

NoTask == TaskOf(CHOOSE p \in Paths : TRUE, 0, FALSE)

Init ==
    /\ mpc = "down" /\ closed = FALSE
    /\ link = FALSE /\ will = FALSE /\ out = <<>> /\ inb = <<>>
    /\ net = "idle" /\ retry = "idle"
    /\ cat = [p \in Paths |-> Unknown] /\ dirty = FALSE /\ revision = cat /\ seen = {}
    /\ bind = [p \in Paths |-> Unbound]
    /\ wpc = [w \in Writers |-> "idle"] /\ task = [w \in Writers |-> NoTask]
    /\ rows = [p \in Paths |-> {}] /\ sources = {}
    /\ dpc = "off" /\ dpaths = {} /\ dpath = NoTask.path /\ dpage = {}
    /\ node = [cat |-> cat, sig |-> bind, got |-> [p \in Paths |-> <<>>], active |-> FALSE]
    /\ made = [p \in Paths |-> 0] /\ minted = made /\ accepted = {} /\ dropped = {} /\ held = {} /\ late = FALSE
    /\ upsets = 0

Upset == upsets < MaxUpsets /\ upsets' = upsets + 1

-----------------------------------------------------------------------------
(* Writes.  A write of a thread is confirmed when its PUBACK was read. *)

CatalogueOf(t, payload) == [kind |-> "cat", who |-> t, cat |-> payload]
DetailsOf(t, active)    == [kind |-> "details", who |-> t, active |-> active]
MetricOf(t, p, k)       == [kind |-> "metric", who |-> t, path |-> p, k |-> k]

Send(ms) == out' = out \o ms
Waits(t) == (\E i \in DOMAIN out : out[i].who = t) \/ (\E i \in DOMAIN inb : inb[i].who = t)

\* The waits a thread makes with the lock taken: none.
\* Mutant: the catalogue is published under it.
CatalogueWaits == {"cat"}

WaitsUnderLock == {}

Lock == \A w \in Writers : wpc[w] \notin WaitsUnderLock

\* A wait ends with PublishTimeout while the link is down; the write stays queued.
Forget(t) ==
    LET dis(m) == IF m.who = t THEN [m EXCEPT !.who = "none"] ELSE m
    IN  out' = [i \in DOMAIN out |-> dis(out[i])] /\ inb' = [i \in DOMAIN inb |-> dis(inb[i])]

-----------------------------------------------------------------------------
(* The catalogue *)

\* Catalogue._upsert: mint a tag, or revive a stale one.
Ensured(p) == [cat EXCEPT ![p] = IF @.id = 0 THEN [id |-> minted[p] + 1, stale |-> FALSE]
                                 ELSE [@ EXCEPT !.stale = FALSE]]
Minted(p)  == [minted EXCEPT ![p] = IF cat[p].id = 0 THEN @ + 1 ELSE @]

\* Catalogue.seal.
Sealed == [p \in Paths |-> IF cat[p].id # 0 /\ p \notin seen THEN [cat[p] EXCEPT !.stale = TRUE] ELSE cat[p]]

\* _catalogue_to_publish, after the catalogue became c.
Due(c) == (dirty \/ c # cat) /\ c # revision

Change(c) ==
    /\ cat' = c
    /\ dirty' = ((dirty \/ c # cat) /\ c # revision)

\* Catalogue.record_published.
Record(payload) == revision' = payload /\ dirty' = FALSE

-----------------------------------------------------------------------------
(* The node and the broker, as the service uses them *)

Subscribed == mpc \notin {"down", "closed"}

\* The broker takes the client's next write; the own record comes back.
Broker ==
    /\ link /\ out # <<>>
    /\ LET m == Head(out)
           ack == IF m.who = "none" THEN <<>> ELSE <<[kind |-> "ack", who |-> m.who]>>
           own == IF m.kind = "details" /\ ~m.active /\ Subscribed THEN <<[kind |-> "own", who |-> "none"]>> ELSE <<>>
       IN  /\ node' = CASE m.kind = "cat"     -> [node EXCEPT !.cat = m.cat]
                        [] m.kind = "details" -> [node EXCEPT !.active = m.active]
                        [] OTHER              -> [node EXCEPT !.got[m.path] = Append(@, m.k)]
           /\ inb' = inb \o own \o ack
           /\ held' = IF m.kind = "cat" THEN held \cup {<<p, m.cat[p].id>> : p \in {q \in Paths : m.cat[q].id # 0}} ELSE held
    /\ out' = Tail(out)
    /\ UNCHANGED <<main, link, will, again, known, bind, writers, pending, drain, made, minted, accepted, dropped, late, upsets>>

Tell(p, s) ==
    /\ node' = [node EXCEPT !.sig[p] = s]
    /\ inb' = IF Subscribed THEN Append(inb, [kind |-> "signal", who |-> "none", path |-> p, sig |-> s]) ELSE inb

\* The node binds a Signal to a tag of the catalogue it keeps.
NodeBinds ==
    /\ \E p \in Paths :
          /\ node.cat[p].id \notin {0, node.sig[p].id} /\ ~node.cat[p].stale
          /\ Tell(p, [id |-> node.cat[p].id, on |-> TRUE])
    /\ UNCHANGED <<main, link, will, out, again, known, bind, writers, pending, drain, history, upsets>>

\* A Signal is switched off, or retired; a retired one is made again.
NodeChanges ==
    /\ Upset
    /\ \E p \in Paths : node.sig[p].on /\ \E s \in {[node.sig[p] EXCEPT !.on = FALSE], Unbound} : Tell(p, s)
    /\ UNCHANGED <<main, link, will, out, again, known, bind, writers, pending, drain, history>>

Will ==
    /\ will
    /\ will' = FALSE /\ node' = [node EXCEPT !.active = FALSE]
    /\ inb' = IF Subscribed THEN Append(inb, [kind |-> "own", who |-> "none"]) ELSE inb
    /\ UNCHANGED <<main, link, out, again, known, bind, writers, pending, drain, history, upsets>>

LinkDrops ==
    /\ Upset
    /\ link /\ mpc # "closed"
    /\ link' = FALSE /\ will' = TRUE
    /\ retry' = IF retry = "wait" THEN "idle" ELSE retry     \* _on_disconnect cancels it
    /\ UNCHANGED <<main, out, inb, net, known, bind, writers, pending, drain, node, history>>

\* CONNACK comes before what the session has queued.
LinkReturns ==
    /\ ~link /\ Subscribed
    /\ link' = TRUE
    /\ inb' = <<[kind |-> "connack", who |-> "none"]>> \o inb
    /\ UNCHANGED <<main, will, out, again, known, bind, writers, pending, drain, node, history, upsets>>

\* What a process had in memory is gone; what is on disk stays.
Lost ==
    /\ link' = FALSE /\ out' = <<>> /\ inb' = <<>> /\ net' = "idle" /\ retry' = "idle"
    /\ cat' = [p \in Paths |-> Unknown] /\ dirty' = FALSE /\ revision' = cat' /\ seen' = {}
    /\ bind' = [p \in Paths |-> Unbound]
    /\ wpc' = [w \in Writers |-> "idle"] /\ task' = [w \in Writers |-> NoTask]
    /\ sources' = {} /\ dpc' = "off" /\ dpaths' = {} /\ dpath' = NoTask.path /\ dpage' = {}
    /\ UNCHANGED <<rows, node, history>>

Crash ==
    /\ Upset /\ mpc \notin {"down", "closed"}
    /\ mpc' = "down" /\ closed' = FALSE /\ will' = TRUE
    /\ Lost

-----------------------------------------------------------------------------
(* start() *)

\* _connect_and_wait, with a last will that says inactive.
Connects == link' = TRUE

\* Mutant: the previous catalogue is not loaded.
LoadsNothing == UNCHANGED <<cat, revision, dirty>>

\* _previous_catalogue: a failure of its raises, it never reads as none.
LoadsPrevious == cat' = node.cat /\ revision' = node.cat /\ dirty' = FALSE

\* The Signals' retained records arrive, after the catalogue they name was loaded.
SubscribesSignals ==
    LET bound == {p \in Paths : node.sig[p].id # 0}
        told(p) == [kind |-> "signal", who |-> "none", path |-> p, sig |-> node.sig[p]]
    IN  \E order \in [1 .. Cardinality(bound) -> bound] :
            Range(order) = bound /\ inb' = [i \in DOMAIN order |-> told(order[i])]

Start ==
    /\ mpc = "down"
    /\ mpc' = "announce"
    /\ Connects /\ LoadsPrevious /\ SubscribesSignals
    /\ Send(<<DetailsOf("main", TRUE)>>)
    /\ UNCHANGED <<closed, will, again, seen, bind, writers, pending, drain, node, history, upsets>>

\* The paths that wait on disk are in the catalogue again, and their thread runs.
\* The own record is subscribed: read back if it says inactive.
Announced ==
    /\ mpc = "announce" /\ ~Waits("main") /\ Lock
    /\ LET waiting == {p \in Paths : rows[p] # {}}
           c == [p \in Paths |-> IF p \in waiting THEN Ensured(p)[p] ELSE cat[p]]
       IN  /\ sources' = waiting /\ seen' = waiting /\ dpc' = IF waiting = {} THEN "off" ELSE "look"
           /\ Change(c) /\ minted' = [p \in Paths |-> IF p \in waiting THEN Minted(p)[p] ELSE minted[p]]
           /\ IF Due(c) THEN mpc' = "catalogue" /\ Send(<<CatalogueOf("main", c)>>)
              ELSE mpc' = "ready" /\ UNCHANGED out
    /\ inb' = IF node.active THEN inb ELSE Append(inb, [kind |-> "own", who |-> "none"])
    /\ UNCHANGED <<closed, link, will, again, revision, bind, writers, rows, dpaths, dpath, dpage, node, made, accepted, dropped, held, late, upsets>>

\* start() publishes before any writer: the catalogue it recorded is the one it has.
Started ==
    /\ mpc = "catalogue" /\ ~Waits("main") /\ Lock
    /\ mpc' = "ready" /\ Record(cat)
    /\ UNCHANGED <<closed, wire, again, cat, seen, bind, writers, pending, drain, node, history, upsets>>

\* A publish of start() timed out: the caller starts the process again.
StartFails ==
    /\ mpc \in {"announce", "catalogue"} /\ ~link /\ Waits("main")
    /\ Crash

-----------------------------------------------------------------------------
(* close() *)

Close ==
    /\ mpc = "ready"
    /\ mpc' = "stopping" /\ closed' = TRUE
    /\ retry' = IF retry = "wait" THEN "idle" ELSE retry
    /\ UNCHANGED <<wire, net, known, bind, writers, pending, drain, node, history, upsets>>

\* The drain's thread ended, or was waited for long enough.
CloseSeals ==
    /\ mpc = "stopping" /\ Lock /\ (dpc \in {"off", "look"} \/ ~link)
    /\ Change(Sealed)
    /\ IF Due(Sealed) THEN mpc' = "sealing" /\ Send(<<CatalogueOf("main", Sealed)>>)
       ELSE mpc' = "leaving" /\ Send(<<DetailsOf("main", FALSE)>>)
    /\ dpc' = IF dpc = "look" THEN "off" ELSE dpc
    /\ UNCHANGED <<closed, link, will, inb, again, revision, seen, bind, writers, pending, dpaths, dpath, dpage, node, history, upsets>>

CloseSealed ==
    /\ mpc = "sealing" /\ ~Waits("main") /\ Lock
    /\ mpc' = "leaving" /\ Record(cat)
    /\ Send(<<DetailsOf("main", FALSE)>>)
    /\ UNCHANGED <<closed, link, will, inb, again, cat, seen, bind, writers, pending, drain, node, history, upsets>>

\* close() raises, and is a no-op from then on: the caller ends the process.
CloseFails ==
    /\ mpc \in {"sealing", "leaving"} /\ Waits("main") /\ ~link
    /\ Crash

\* loop_stop lets the network thread finish what it handles and write the rest.
CloseLeaves ==
    /\ mpc = "leaving" /\ ~Waits("main") /\ net = "idle" /\ out = <<>>
    /\ mpc' = "closed" /\ Lost
    /\ UNCHANGED <<closed, will, upsets>>

-----------------------------------------------------------------------------
(* The network thread *)

Reads(kind) == net = "idle" /\ link /\ inb # <<>> /\ Head(inb).kind = kind

ReadAck ==
    /\ Reads("ack")
    /\ inb' = Tail(inb)
    /\ UNCHANGED <<main, link, will, out, again, known, bind, writers, pending, drain, node, history, upsets>>

\* _on_signal: a binding for a tag of this catalogue, by the tag's id.
OnSignal ==
    /\ Reads("signal") /\ Lock
    /\ LET m == Head(inb)
       IN  bind' = [bind EXCEPT ![m.path] = IF m.sig.id # 0 /\ cat[m.path].id = m.sig.id THEN m.sig ELSE Unbound]
    /\ inb' = Tail(inb)
    /\ UNCHANGED <<main, link, will, out, again, known, writers, pending, drain, node, history, upsets>>

\* Mutant: a late will is not answered.
OnOwnDetailsIgnored ==
    /\ Reads("own") /\ Lock
    /\ inb' = Tail(inb)
    /\ UNCHANGED <<main, link, will, out, again, known, bind, writers, pending, drain, node, history, upsets>>

\* _on_own_details, when the record reads inactive: a late will is answered, under
\* the lock that close() takes after setting _closed.
OnOwnDetails ==
    /\ Reads("own") /\ Lock
    /\ inb' = Tail(inb)
    /\ IF closed THEN UNCHANGED out ELSE Send(<<DetailsOf("none", TRUE)>>)
    /\ UNCHANGED <<main, link, will, again, known, bind, writers, pending, drain, node, history, upsets>>

\* _on_connect of a reconnect, which asks the node where the service is.
OnConnect ==
    /\ Reads("connack")
    /\ inb' = Tail(inb) /\ net' = "asking"
    /\ retry' = IF retry = "wait" THEN "idle" ELSE retry
    /\ UNCHANGED <<main, link, will, out, known, bind, writers, pending, drain, node, history, upsets>>

\* _reannounce publishes the own record without waiting, closed or not.
Reannounce ==
    /\ net = "asking" /\ Lock
    /\ net' = "idle"
    /\ Send(<<DetailsOf("none", TRUE)>>) /\ late' = (late \/ closed)
    /\ UNCHANGED <<main, link, will, inb, retry, known, bind, writers, pending, drain, node, made, minted, accepted, dropped, held, upsets>>

\* The node's HTTP door did not answer: a thread tries again.
ReannounceFails ==
    /\ Upset
    /\ net = "asking" /\ retry = "idle"
    /\ net' = "idle" /\ retry' = "wait"
    /\ UNCHANGED <<main, wire, known, bind, writers, pending, drain, node, history>>

RetryReannounce ==
    /\ retry = "wait"
    /\ retry' = IF closed THEN "idle" ELSE "asking"
    /\ UNCHANGED <<main, wire, net, known, bind, writers, pending, drain, node, history, upsets>>

RetrySucceeds ==
    /\ retry = "asking" /\ Lock
    /\ retry' = "idle"
    /\ Send(<<DetailsOf("none", TRUE)>>) /\ late' = (late \/ closed)
    /\ UNCHANGED <<main, link, will, inb, net, known, bind, writers, pending, drain, node, made, minted, accepted, dropped, held, upsets>>

-----------------------------------------------------------------------------
(* publish() and declare() *)

Writing(w) == mpc = "ready" /\ ~closed /\ wpc[w] = "idle" /\ Lock

\* The task's next step after the lock: the catalogue first, then the sample.
Begin(w, t, c) ==
    /\ task' = [task EXCEPT ![w] = [t EXCEPT !.payload = c]]
    /\ wpc' = [wpc EXCEPT ![w] = IF Due(c) THEN "sendcat" ELSE "sendmetric"]
    /\ Change(c) /\ minted' = Minted(t.path) /\ seen' = seen \cup {t.path}
    /\ UNCHANGED <<main, wire, again, revision, bind, node, accepted, held, late, upsets>>

Declare(w, p) ==
    /\ Writing(w) /\ cat[p].id = 0
    /\ Begin(w, TaskOf(p, 0, FALSE), Ensured(p))
    /\ UNCHANGED <<pending, drain, made, dropped>>

Sample(w, p) == Writing(w) /\ made[p] < MaxSamples /\ made' = [made EXCEPT ![p] = @ + 1]

\* Mutant: a bound path's sample is sent although older ones wait on disk.
BoundAlone(p) == bind[p].id = 0

\* No Signal is bound, or older samples of the path wait.
MustWait(p) == bind[p].id = 0 \/ p \in sources

PublishBound(w, p) ==
    /\ Sample(w, p) /\ ~MustWait(p)
    /\ Begin(w, TaskOf(p, made[p] + 1, bind[p].on), Ensured(p))
    /\ dropped' = IF bind[p].on THEN dropped ELSE dropped \cup {<<p, made[p] + 1>>}
    /\ UNCHANGED <<pending, drain>>

\* _buffer_sample: on disk before the lock is released.
PublishBuffered(w, p) ==
    /\ Sample(w, p) /\ MustWait(p) /\ Cardinality(rows[p]) < MaxRows
    /\ Begin(w, TaskOf(p, made[p] + 1, FALSE), Ensured(p))
    /\ rows' = [rows EXCEPT ![p] = @ \cup {made[p] + 1}]
    /\ sources' = sources \cup {p}
    /\ dpc' = IF dpc = "off" THEN "look" ELSE dpc
    /\ UNCHANGED <<dpaths, dpath, dpage, dropped>>

\* The path's buffer is full: BufferError, after the catalogue took the path.
PublishRefused(w, p) ==
    /\ Writing(w) /\ MustWait(p) /\ Cardinality(rows[p]) >= MaxRows
    /\ Change(Ensured(p)) /\ minted' = Minted(p) /\ seen' = seen \cup {p}
    /\ UNCHANGED <<main, wire, again, revision, bind, writers, pending, drain, node, made, accepted, dropped, held, late, upsets>>

SendCatalogue(w) ==
    /\ wpc[w] = "sendcat" /\ Subscribed
    /\ Send(<<CatalogueOf(w, task[w].payload)>>)
    /\ wpc' = [wpc EXCEPT ![w] = "cat"]
    /\ UNCHANGED <<main, link, will, inb, again, known, bind, task, pending, drain, node, history, upsets>>

CataloguePublished(w) ==
    /\ wpc[w] = "cat" /\ ~Waits(w)
    /\ Record(task[w].payload)
    /\ wpc' = [wpc EXCEPT ![w] = "sendmetric"]
    /\ UNCHANGED <<main, wire, again, cat, seen, bind, task, pending, drain, node, history, upsets>>

SendSample(w) ==
    /\ wpc[w] = "sendmetric" /\ task[w].send /\ Subscribed
    /\ wpc' = [wpc EXCEPT ![w] = "metric"]
    /\ Send(<<MetricOf(w, task[w].path, task[w].k)>>)
    /\ UNCHANGED <<main, link, will, inb, again, known, bind, task, pending, drain, node, history, upsets>>

Published(w) ==
    /\ (wpc[w] = "metric" /\ ~Waits(w)) \/ (wpc[w] = "sendmetric" /\ ~task[w].send)
    /\ wpc' = [wpc EXCEPT ![w] = "idle"] /\ task' = [task EXCEPT ![w] = NoTask]
    /\ accepted' = IF task[w].k = 0 THEN accepted ELSE accepted \cup {<<task[w].path, task[w].k>>}
    /\ UNCHANGED <<main, wire, again, known, bind, pending, drain, node, made, minted, dropped, held, late, upsets>>

\* PublishTimeout is raised to the caller.
PublishTimesOut(w) ==
    /\ Upset
    /\ wpc[w] \in {"cat", "metric"} /\ Waits(w) /\ ~link
    /\ Forget(w)
    /\ wpc' = [wpc EXCEPT ![w] = "idle"] /\ task' = [task EXCEPT ![w] = NoTask]
    /\ UNCHANGED <<main, link, will, again, known, bind, pending, drain, node, history>>

-----------------------------------------------------------------------------
(* _drain_pending *)

\* A ring, or a long silence, makes it look again; there is something to publish.
DrainLooks ==
    /\ dpc = "look" /\ ~closed /\ Lock
    /\ \E p \in sources : bind[p].id # 0
    /\ dpaths' = sources /\ dpc' = "path"
    /\ UNCHANGED <<main, wire, again, known, bind, writers, pending, dpath, dpage, node, history, upsets>>

DrainEnds ==
    /\ dpc = "path" /\ dpaths = {}
    /\ dpc' = "look"
    /\ UNCHANGED <<main, wire, again, known, bind, writers, pending, dpaths, dpath, dpage, node, history, upsets>>

\* Rows in the order of their ids, which is the order they were appended in.
ById(S) == {s \in [1 .. Cardinality(S) -> S] : Range(s) = S /\ \A i, j \in DOMAIN s : i < j => s[i] < s[j]}

\* A page of a bound path's rows, which holds all of them (200, of at most 100); a
\* path without a binding is left for later.
DrainPath ==
    /\ dpc = "path" /\ Lock
    /\ \E p \in dpaths :
          /\ dpaths' = dpaths \ {p}
          /\ IF bind[p].id = 0 THEN UNCHANGED <<dpc, dpath, dpage, out, dropped>>
             ELSE /\ dpath' = p /\ dpc' = "settle" /\ dpage' = rows[p]
                  /\ IF bind[p].on
                     THEN UNCHANGED dropped /\ \E s \in ById(rows[p]) : Send([i \in DOMAIN s |-> MetricOf("drain", p, s[i])])
                     ELSE dropped' = dropped \cup {<<p, k>> : k \in rows[p]} /\ UNCHANGED out
    /\ UNCHANGED <<main, link, will, inb, again, known, bind, writers, pending, node, made, minted, accepted, held, late, upsets>>

\* Mutant: the path counts as empty, whatever was appended meanwhile.
DrainAcksAll ==
    /\ dpc = "settle" /\ ~Waits("drain") /\ Lock
    /\ rows' = [rows EXCEPT ![dpath] = @ \ dpage]
    /\ sources' = sources \ {dpath}
    /\ dpc' = "path"
    /\ dpage' = {}
    /\ UNCHANGED <<main, wire, again, known, bind, writers, dpaths, dpath, node, history, upsets>>

\* Everything the page published is confirmed: its rows go.
DrainAcks ==
    /\ dpc = "settle" /\ ~Waits("drain") /\ Lock
    /\ rows' = [rows EXCEPT ![dpath] = @ \ dpage]
    /\ sources' = IF rows'[dpath] = {} THEN sources \ {dpath} ELSE sources
    /\ dpc' = "path"
    /\ dpage' = {}
    /\ UNCHANGED <<main, wire, again, known, bind, writers, dpaths, dpath, node, history, upsets>>

\* The batch was not confirmed: the rows stay, the thread starts over.
DrainFails ==
    /\ Upset
    /\ dpc = "settle" /\ Waits("drain") /\ ~link
    /\ Forget("drain")
    /\ dpc' = "look" /\ dpaths' = {} /\ dpage' = {}
    /\ UNCHANGED <<main, link, will, again, known, bind, writers, pending, dpath, node, history>>

-----------------------------------------------------------------------------
Main == Start \/ Announced \/ Started \/ StartFails \/ Close \/ CloseSeals \/ CloseSealed \/ CloseFails \/ CloseLeaves
Network == ReadAck \/ OnSignal \/ OnOwnDetails \/ OnConnect \/ Reannounce \/ ReannounceFails
Retrying == RetryReannounce \/ RetrySucceeds
Going(w) == SendCatalogue(w) \/ CataloguePublished(w) \/ SendSample(w) \/ Published(w) \/ PublishTimesOut(w)
Calls(w) == \E p \in Paths : Declare(w, p) \/ PublishBound(w, p) \/ PublishBuffered(w, p) \/ PublishRefused(w, p)
Draining == DrainLooks \/ DrainPath \/ DrainEnds \/ DrainAcks \/ DrainFails
World == Broker \/ NodeBinds \/ NodeChanges \/ Will \/ LinkDrops \/ LinkReturns \/ Crash

Next == Main \/ Network \/ Retrying \/ Draining \/ World \/ \E w \in Writers : Going(w) \/ Calls(w)

Spec == Init /\ [][Next]_vars

\* Every thread goes on, the process is started again, the link comes back, and the
\* broker and the node do their work; nobody has to close, call or disturb it.
FairSpec ==
    /\ Spec
    /\ WF_vars(Start \/ Announced \/ Started) /\ WF_vars(Network) /\ WF_vars(Draining)
    /\ WF_vars(Broker) /\ WF_vars(NodeBinds) /\ WF_vars(LinkReturns)
    /\ \A w \in Writers : WF_vars(Going(w))

-----------------------------------------------------------------------------
(* Properties *)

Tags       == [id : Nat, stale : BOOLEAN]
Signals    == [id : Nat, on : BOOLEAN]
Catalogues == [Paths -> Tags]
Threads    == Writers \cup {"main", "drain", "none"}

Writes ==
    [kind : {"cat"}, who : Threads, cat : Catalogues] \cup [kind : {"details"}, who : Threads, active : BOOLEAN]
        \cup [kind : {"metric"}, who : Threads, path : Paths, k : Nat]

Inbound ==
    [kind : {"ack", "own", "connack"}, who : Threads]
        \cup [kind : {"signal"}, who : {"none"}, path : Paths, sig : Signals]

\* A process that is not there holds nothing.
MainOK ==
    /\ mpc \in {"down", "announce", "catalogue", "ready", "stopping", "sealing", "leaving", "closed"}
    /\ closed \in BOOLEAN /\ (closed <=> mpc \in {"stopping", "sealing", "leaving", "closed"})
    /\ link \in BOOLEAN /\ will \in BOOLEAN /\ late \in BOOLEAN /\ upsets \in Nat
    /\ net \in {"idle", "asking"} /\ retry \in {"idle", "wait", "asking"}
    /\ ~Subscribed => ~link /\ out = <<>> /\ net = "idle" /\ retry = "idle" /\ dpc = "off"

WireOK == out \in Seq(Writes) /\ inb \in Seq(Inbound)

\* No tag id that was not minted.
Old(c) == \A p \in Paths : c[p].id <= minted[p]

KnownOK ==
    /\ cat \in Catalogues /\ revision \in Catalogues /\ dirty \in BOOLEAN /\ seen \subseteq Paths
    /\ minted \in [Paths -> Nat] /\ bind \in [Paths -> Signals]
    /\ Old(cat) /\ Old(bind)

\* Nor in what was published, or is about to be.
MintedOK ==
    /\ Old(node.cat)
    /\ \A i \in DOMAIN out : out[i].kind = "cat" => Old(out[i].cat)
    /\ \A w \in Writers : wpc[w] = "sendcat" => Old(task[w].payload)

\* There is nothing to write before start() returned.
WritersOK ==
    /\ wpc \in [Writers -> {"idle", "sendcat", "cat", "sendmetric", "metric"}]
    /\ task \in [Writers -> [path : Paths, k : Nat, send : BOOLEAN, payload : Catalogues \cup {<<>>}]]
    /\ \A w \in Writers :
          /\ wpc[w] # "idle" => mpc \in {"ready", "stopping", "sealing", "leaving"} /\ task[w].payload \in Catalogues
          /\ wpc[w] = "metric" => task[w].send

\* A path has rows if and only if it counts as pending.
RowsOK ==
    /\ made \in [Paths -> Nat] /\ rows \in [Paths -> SUBSET (Nat \ {0})] /\ sources \subseteq Paths
    /\ \A p \in Paths : \A k \in rows[p] : k <= made[p]
    /\ \A p \in Paths : rows[p] # {} /\ mpc \notin {"down", "announce", "closed"} => p \in sources
    /\ \A p \in sources : rows[p] # {}
    /\ mpc \in {"down", "announce", "closed"} => sources = {}

\* A page is never empty, and its rows are still there.
DrainOK ==
    /\ dpc \in {"off", "look", "path", "settle"} /\ dpath \in Paths /\ dpaths \subseteq sources
    /\ dpc = "settle" => dpage # {} /\ dpage \subseteq rows[dpath] /\ dpath \notin dpaths

NodeOK ==
    /\ node \in [cat : Catalogues, sig : [Paths -> Signals], got : [Paths -> Seq(Nat)], active : BOOLEAN]
    /\ accepted \subseteq Paths \X Nat /\ dropped \subseteq Paths \X Nat /\ held \subseteq Paths \X Nat

\* The variables have their types, no id is used that was not minted, and the paths
\* that count as pending are those with rows (_pending_sources).
TypeOK == MainOK /\ WireOK /\ KnownOK /\ MintedOK /\ WritersOK /\ RowsOK /\ DrainOK /\ NodeOK

Kept(p, k) == k \in Range(node.got[p]) \/ k \in rows[p] \/ <<p, k>> \in dropped

\* A sample publish() took without an error is at the node, on disk, or was one the
\* node had switched off.
AcceptedKept == \A a \in accepted : Kept(a[1], a[2])

\* The node reads a path's samples in order, repeats aside.
ReadInOrder ==
    \A p \in Paths : \A i, j \in DOMAIN node.got[p] :
        i < j /\ node.got[p][i] > node.got[p][j] => \E k \in 1 .. i - 1 : node.got[p][k] = node.got[p][j]

\* No accepted sample is lost, and none overtakes another (publish, _drain_pending).
SamplesKept == AcceptedKept /\ ReadInOrder

\* The node knows one tag id per path, over every restart: a new one would orphan
\* the Signals bound to the path.
IdKept == \A a, b \in held : a[1] = b[1] => a = b

\* What waits on disk is published in the end.
SamplesDrain ==
    \A p \in Paths : \A k \in 1 .. MaxSamples :
        k \in rows[p] ~> k \in Range(node.got[p]) \/ <<p, k>> \in dropped \/ closed

\* The own record says what is so: a service that stays up reads active in the end,
\* whatever wills land late, and a closed one reads inactive, unless a reconnect
\* announced it after it closed (_reannounce does not look at _closed).
OwnRecordTrue ==
    /\ <>[](mpc = "ready") => <>[]node.active
    /\ [](mpc = "closed" /\ ~late => ~node.active)
=============================================================================
