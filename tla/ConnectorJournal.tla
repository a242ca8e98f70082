-------------------------- MODULE ConnectorJournal --------------------------
(***************************************************************************)
(* src/chaski/connector.py: a connector polls a source and journals what   *)
(* it read before it sends it.  The poll loop and the heartbeat's thread   *)
(* publish the journal, one at a time, in batches over the node's HTTP     *)
(* door; the result of each record decides whether its row may go.         *)
(* Writes to the source share the driver with the poll.                    *)
(*                                                                         *)
(* A signal's value is one of Values; the node refuses some signals for    *)
(* good.  Time, rounding and the log are left out.                         *)
(***************************************************************************)
EXTENDS Integers, Sequences, FiniteSets, SequencesExt

CONSTANTS
    Signals,     \* the source's signals
    Beat, Up,    \* the Signals of the synthetic tags: the heartbeat's, is_connected's
    Values,      \* what the source reads
    NaN,         \* a reading JSON cannot carry
    None,
    MaxPending,  \* max_pending: rows the journal holds
    PageSize,    \* rows in one batch
    Pages,       \* PUBLISH_PAGES
    MaxReads,    \* bound: polls of the source
    MaxBeats,    \* bound: beats
    MaxUpsets    \* bound: lost links, doors, sources, replies, failed writes, stops

ASSUME ConnectorAssumption ==
    /\ {Beat, Up} \cap Signals = {} /\ Beat # Up /\ Beat # "poll" /\ None \notin {Beat, "poll", "refused"}
    /\ {NaN, None} \cap Values = {}
    /\ IsFiniteSet(Signals) /\ Cardinality(Signals) <= MaxPending
    /\ {MaxPending, PageSize, Pages} \subseteq Nat \ {0} /\ {MaxReads, MaxBeats, MaxUpsets} \subseteq Nat

VARIABLES
    named,     \* the node names the reason of a refusal (colca after 0.27)
    bad,       \* signals the node refuses for good
    link, door, source,  \* MQTT, the node's HTTP door, and the source answer
    pc,        \* the poll loop
    wpc,       \* the write being executed
    discovered, listed, bound, targets,  \* discovery, the tags the node lists, bindings, what this poll reads
    latest,    \* _latest_by_topic
    batch, lost,  \* what this poll has to send, and whether it lost the source
    bpc, beat, \* the heartbeat's thread, and the value it published last
    journal,   \* connector-samples.sqlite3
    who, left, page, some,  \* the call that holds _journal_lock
    spell,     \* _refusal_spells
    healthy, told, queued,  \* _source_healthy, _is_connected_published, and one that timed out
    got, found, conn,       \* what the node keeps: samples, findings, is_connected
    reads, beats, taken, upsets  \* bounds, and what was acquired

world == <<named, bad, link, door, source>>
wired == <<discovered, listed, bound, targets>>
poll  == <<pc, latest, batch, lost>>
beating == <<bpc, beat>>
call  == <<who, left, page, some>>
health == <<healthy, told, queued, conn>>
node  == <<got, found>>
bounds == <<reads, beats, taken>>
vars  == <<world, wired, poll, wpc, beating, journal, call, spell, health, node, bounds, upsets>>

\* Constructed.
Fresh ==
    /\ pc = "down" /\ wpc = "idle"
    /\ discovered = FALSE /\ targets = {}
    /\ latest = [s \in Signals |-> None] /\ batch = <<>> /\ lost = FALSE
    /\ bpc = "idle" /\ beat = None
    /\ who = None /\ left = 0 /\ page = {} /\ some = FALSE
    /\ spell = [s \in Signals |-> None]
    /\ healthy = FALSE /\ told = None /\ queued = None

Init ==
    /\ Fresh
    /\ named \in BOOLEAN /\ bad \in SUBSET Signals
    /\ link = TRUE /\ door = TRUE /\ source = TRUE
    /\ listed = {} /\ bound = {} /\ journal = <<>>
    /\ got = {} /\ found = {} /\ conn = None
    /\ reads = 0 /\ beats = 0 /\ taken = {} /\ upsets = 0

Upset == upsets < MaxUpsets /\ upsets' = upsets + 1
Calm  == UNCHANGED upsets

-----------------------------------------------------------------------------
(* is_connected *)

\* _publish_is_connected, after the flag became state: on a change, and remembered
\* when the node confirmed it.  One that timed out stays in the MQTT client.  Without
\* a Signal bound to it what was published is forgotten.
Tells(state) ==
    /\ healthy' = state
    /\ IF Up \notin bound THEN told' = None /\ UNCHANGED <<queued, conn>>
       ELSE IF told = state THEN UNCHANGED <<told, queued, conn>>
       ELSE IF link THEN told' = state /\ queued' = None /\ conn' = state
       ELSE queued' = state /\ UNCHANGED <<told, conn>>

-----------------------------------------------------------------------------
(* Starting, and discovery *)

\* serve(), and _startup_discovery, which a source that is down does not end.
Serve ==
    /\ pc = "down"
    /\ pc' = "top" /\ discovered' = source
    /\ Tells(source)
    /\ UNCHANGED <<world, listed, bound, targets, latest, batch, lost, wpc, beating, journal, call, spell, node, bounds>> /\ Calm

\* _retry_discovery: a full connect and discover.
Rediscover ==
    /\ pc = "top" /\ ~discovered /\ source
    /\ discovered' = TRUE
    /\ Tells(TRUE)
    /\ UNCHANGED <<world, listed, bound, targets, poll, wpc, beating, journal, call, spell, node, bounds>> /\ Calm

\* _declare_discovery: the tags not marked stale, the synthetic ones and, once it was
\* discovered, those of the source.
Tags == {Beat, Up} \cup (IF discovered THEN Signals ELSE {})

CatalogueDue == listed # Tags

\* _publish_catalogue_if_due: with the link down the iteration ends here.
PublishCatalogue ==
    /\ pc = "top" /\ CatalogueDue /\ link
    /\ listed' = Tags
    /\ UNCHANGED <<world, discovered, bound, targets, poll, wpc, beating, journal, call, spell, health, node, bounds>> /\ Calm

\* The node binds a Signal to a tag of the catalogue, and retires one.
Binds ==
    /\ \E s \in listed \ bound : bound' = bound \cup {s}
    /\ UNCHANGED <<world, discovered, listed, targets, poll, wpc, beating, journal, call, spell, health, node, bounds>> /\ Calm

Retires ==
    /\ Upset
    /\ \E s \in bound : bound' = bound \ {s}
    /\ UNCHANGED <<world, discovered, listed, targets, poll, wpc, beating, journal, call, spell, health, node, bounds>>

-----------------------------------------------------------------------------
(* The journal: one call of _publish_batch at a time *)

\* Mutant: the last row counts as free.
RoomBesides(k) == Len(journal) + k <= MaxPending + 1

Room(k) == Len(journal) + k <= MaxPending

\* _publish_batch takes the lock, and append_batch the whole batch or nothing.
Enter(t, rows) ==
    /\ who = None
    /\ Room(Len(rows))
    /\ journal' = journal \o rows
    /\ who' = t /\ left' = Pages
    /\ taken' = taken \cup Range(rows)
    /\ UNCHANGED <<page, some>>

\* The rows of s that are not gone, in their order.
Without(s, gone) ==
    LET kept[i \in 0 .. Len(s)] ==
            IF i = 0 THEN <<>> ELSE IF s[i] \in gone THEN kept[i - 1] ELSE Append(kept[i - 1], s[i])
    IN  kept[Len(s)]

\* page_all: the oldest rows.
Page == {journal[i] : i \in {n \in DOMAIN journal : n <= PageSize}}

\* The node judges a page: what it admits it writes in one append.
Admitted == {r \in Page : r.sig \notin bad}

\* The page's rows and what the node made of them.
Post ==
    /\ who # None /\ page = {} /\ left > 0 /\ journal # <<>> /\ door
    /\ page' = Page
    /\ \/ /\ Calm
          /\ some' = (Admitted # {}) /\ got' = got \cup Admitted
          /\ journal' = Without(journal, Admitted)
          /\ spell' = [s \in Signals |-> IF s \in {r.sig : r \in Admitted} THEN None ELSE spell[s]]
       \/ \* the store did not write: every record is refused
          /\ Upset
          /\ some' = FALSE
          /\ UNCHANGED <<got, journal, spell>>
    /\ UNCHANGED <<who, left>>
    /\ UNCHANGED <<world, wired, poll, wpc, beating, health, found, bounds>>

\* What is left of the page: refused.
Refused == page \cap Range(journal)

\* Mutant: the batch decides, whatever reason the node names.
FinalByBatch(r) == some

\* refusal_is_final.
Final(r) == IF named THEN r.sig \in bad ELSE some

Finals == {r \in Refused : Final(r)}

\* _set_aside has to record the first refusal of a spell.
Unrecorded == {r.sig : r \in Finals} \cap {s \in Signals : spell[s] # "refused"}

\* Mutant: refused rows go, recorded or not.
SetAsideAnyway ==
    /\ journal' = Without(journal, Finals)
    /\ found' = IF link THEN found \cup Unrecorded ELSE found
    /\ spell' = [s \in Signals |-> IF s \in {r.sig : r \in Finals} THEN "refused" ELSE spell[s]]

\* _set_aside: recorded, and only then removed.
SetAside ==
    /\ Unrecorded = {} \/ link
    /\ journal' = Without(journal, Finals)
    /\ found' = found \cup Unrecorded
    /\ spell' = [s \in Signals |-> IF s \in {r.sig : r \in Finals} THEN "refused" ELSE spell[s]]

\* The call ends and gives the lock back.
Leaves == who' = None /\ left' = 0 /\ page' = {} /\ some' = FALSE

\* How the poll goes on after a call that raised kind, or returned.
After(kind) ==
    IF who = Beat THEN
        /\ bpc' = "idle" /\ beat' = IF kind = "ok" THEN beats % 2 ELSE beat
        /\ UNCHANGED <<poll, wired>>
    ELSE
        /\ UNCHANGED <<latest, wired, beating>>
        /\ IF pc = "drain"
           THEN LET backlog == kind = "refused" \/ (kind = "ok" /\ journal' # <<>>)
                    room    == Len(journal') + Cardinality(targets) <= MaxPending
                IN  /\ pc' = IF kind \in {"http", "mqtt"} \/ (backlog /\ ~room) THEN "top" ELSE "read"
                    /\ UNCHANGED <<batch, lost>>
           ELSE /\ pc' = IF kind = "ok" /\ lost THEN "reconnect" ELSE "top"
                /\ lost' = FALSE /\ UNCHANGED batch

\* A page's refusals are decided: undecided ones stay, and raise PublishRejected.
Decide ==
    /\ page # {}
    /\ SetAside
    /\ IF {r \in Refused : ~Final(r)} # {} THEN Leaves /\ After("refused")
       ELSE /\ page' = {} /\ some' = FALSE /\ left' = left - 1
            /\ UNCHANGED <<who, wired, poll, beating>>
    /\ UNCHANGED <<world, wpc, health, got, bounds>> /\ Calm

\* MqttDisconnectedError: a refusal could not be recorded; its rows stay.
DecideFails ==
    /\ page # {} /\ Unrecorded # {} /\ ~link
    /\ UNCHANGED journal
    /\ Leaves /\ After("mqtt")
    /\ UNCHANGED <<world, wpc, spell, health, node, bounds>> /\ Calm

Return ==
    /\ who # None /\ page = {} /\ (left = 0 \/ journal = <<>>)
    /\ UNCHANGED journal
    /\ Leaves /\ After("ok")
    /\ UNCHANGED <<world, wpc, spell, health, node, bounds>> /\ Calm

\* The door does not answer.
PostFails ==
    /\ who # None /\ page = {} /\ left > 0 /\ journal # <<>> /\ ~door
    /\ UNCHANGED journal
    /\ Leaves /\ After("http")
    /\ UNCHANGED <<world, wpc, spell, health, node, bounds>> /\ Calm

\* The reply is lost after the node admitted what it could.
ReplyLost ==
    /\ who # None /\ page = {} /\ left > 0 /\ journal # <<>> /\ door
    /\ Upset
    /\ got' = got \cup Admitted
    /\ UNCHANGED journal
    /\ Leaves /\ After("http")
    /\ UNCHANGED <<world, wpc, spell, health, found, bounds>>

-----------------------------------------------------------------------------
(* The poll loop *)

\* _update_targets: what is bound to a tag of the source, and was discovered.
Targets == IF discovered THEN bound \cap Signals ELSE {}

\* Without any target the loop waits for a change, and publishes nothing.
HasTargets == Targets # {} \/ bound \cap {Beat, Up} # {}

\* With synthetic targets alone there is still the journal to publish.
PollStarts ==
    /\ pc = "top" /\ ~CatalogueDue /\ HasTargets
    /\ targets' = Targets
    /\ IF Targets = {} THEN pc' = "append" /\ Tells(healthy) ELSE pc' = "await" /\ UNCHANGED health
    /\ UNCHANGED <<world, discovered, listed, bound, latest, batch, lost, wpc, beating, journal, call, spell, node, bounds>> /\ Calm

\* Older samples first.
PollDrains ==
    /\ pc = "await"
    /\ Enter("poll", <<>>)
    /\ pc' = "drain"
    /\ UNCHANGED <<world, wired, latest, batch, lost, wpc, beating, spell, health, node, reads, beats>> /\ Calm

\* _source_lock: a poll's read, or a write and its read-back.
SourceFree == wpc = "idle"

\* What report-by-exception may leave out: an unchanged value, until the integrity
\* interval passed since it was sent.
MayOmit(s, v) == latest[s] = v

\* A reading JSON cannot carry is set aside before the journal, recorded if it can be.
SetsAside(bads) ==
    /\ spell' = [s \in Signals |-> IF s \in bads /\ link THEN "nan" ELSE spell[s]]
    /\ found' = IF link THEN found \cup {s \in bads : spell[s] # "nan"} ELSE found

\* One read; what the driver could not read is absent.  A reading to send becomes the latest.
PollReads ==
    /\ pc = "read" /\ SourceFree /\ source
    /\ Tells(TRUE)
    /\ \E r \in [targets -> Values \cup {NaN, None}] :
          LET fine == {s \in targets : r[s] \in Values}
          IN  \E sent \in SUBSET fine :
                /\ \A s \in fine \ sent : MayOmit(s, r[s])
                /\ sent # {} => reads < MaxReads
                /\ reads' = IF sent = {} THEN reads ELSE reads + 1
                /\ SetsAside({s \in targets : r[s] = NaN})
                /\ latest' = [s \in Signals |-> IF s \in sent THEN r[s] ELSE latest[s]]
                /\ LET order == SetToSeq(sent)
                   IN  batch' = [i \in DOMAIN order |-> [sig |-> order[i], val |-> r[order[i]], at |-> reads']]
    /\ pc' = "append"
    /\ UNCHANGED <<world, wired, lost, wpc, beating, journal, call, got, beats, taken>> /\ Calm

\* The source is lost: nothing was read.
PollLoses ==
    /\ pc = "read" /\ SourceFree /\ ~source
    /\ Tells(FALSE)
    /\ lost' = TRUE /\ pc' = "append"
    /\ UNCHANGED <<world, wired, latest, batch, wpc, beating, journal, call, spell, node, bounds>> /\ Calm

PollAppends ==
    /\ pc = "append" /\ Enter("poll", batch)
    /\ pc' = "send" /\ batch' = <<>>
    /\ UNCHANGED <<world, wired, latest, lost, wpc, beating, spell, health, node, reads, beats>> /\ Calm

\* What a process had in memory is gone; the journal stays.
Ends ==
    /\ pc' = "down" /\ wpc' = "idle" /\ discovered' = FALSE /\ targets' = {}
    /\ latest' = [s \in Signals |-> None] /\ batch' = <<>> /\ lost' = FALSE
    /\ bpc' = "idle" /\ beat' = None
    /\ who' = None /\ left' = 0 /\ page' = {} /\ some' = FALSE
    /\ spell' = [s \in Signals |-> None]
    /\ healthy' = FALSE /\ told' = None /\ queued' = None
    /\ UNCHANGED <<world, listed, bound, journal, conn, node, bounds>>

\* Mutant: a full journal is logged and the loop goes on.
PollGoesOn ==
    /\ pc = "append" /\ who = None /\ ~Room(Len(batch))
    /\ pc' = "top" /\ batch' = <<>> /\ lost' = FALSE
    /\ UNCHANGED <<world, wired, latest, wpc, beating, journal, call, spell, health, node, bounds>> /\ Calm

\* The journal took a beat meanwhile and has no room: the loop ends, and the process.
PollDies ==
    /\ pc = "append" /\ who = None /\ ~Room(Len(batch))
    /\ Ends /\ Calm

\* _reconnect_source closes and opens the driver, whatever a write does.
Reconnect ==
    /\ pc = "reconnect"
    /\ pc' = "top"
    /\ UNCHANGED <<world, wired, latest, batch, lost, wpc, beating, journal, call, spell, health, node, bounds>> /\ Calm

-----------------------------------------------------------------------------
(* The heartbeat's thread *)

\* _publish_heartbeat: to the Signal bound, a value it did not publish yet.
HeartBeats ==
    /\ bpc = "idle" /\ pc # "down" /\ beats < MaxBeats /\ Beat \in bound
    /\ beats' = beats + 1 /\ bpc' = "append"
    /\ UNCHANGED <<world, wired, poll, wpc, beat, journal, call, spell, health, node, reads, taken>> /\ Calm

BeatAppends ==
    /\ bpc = "append" /\ beat # beats % 2
    /\ Enter(Beat, <<[sig |-> Beat, val |-> beats % 2, at |-> beats]>>)
    /\ bpc' = "send"
    /\ UNCHANGED <<world, wired, poll, wpc, beat, spell, health, node, reads, beats>> /\ Calm

BeatSkips ==
    /\ bpc = "append" /\ beat = beats % 2
    /\ bpc' = "idle"
    /\ UNCHANGED <<world, wired, poll, wpc, beat, journal, call, spell, health, node, bounds>> /\ Calm

\* BufferError is none of the errors it defers: the task ends, and nobody looks.
BeatDies ==
    /\ bpc = "append" /\ beat # beats % 2 /\ who = None /\ ~Room(1)
    /\ bpc' = "dead"
    /\ UNCHANGED <<world, wired, poll, wpc, beat, journal, call, spell, health, node, bounds>> /\ Calm

-----------------------------------------------------------------------------
(* A write to the source: Driver.write, and its read-back *)

WriteStarts ==
    /\ wpc = "idle" /\ pc # "down" /\ Targets # {} /\ source
    /\ wpc' = "written"
    /\ UNCHANGED <<world, wired, poll, beating, journal, call, spell, health, node, bounds>> /\ Calm

\* SourceDisconnectedError: the write is answered 503.
WriteLoses ==
    /\ wpc = "idle" /\ pc # "down" /\ Targets # {} /\ ~source /\ healthy
    /\ Tells(FALSE)
    /\ UNCHANGED <<world, wired, poll, wpc, beating, journal, call, spell, node, bounds>> /\ Calm

\* applied, failed, or unknown.
WriteAnswered ==
    /\ wpc = "written" /\ wpc' = "idle"
    /\ UNCHANGED <<world, wired, poll, beating, journal, call, spell, health, node, bounds>> /\ Calm

-----------------------------------------------------------------------------
(* The world *)

Others == UNCHANGED <<named, bad, wired, poll, wpc, beating, journal, call, spell, node, bounds>>

LinkDrops == Upset /\ link /\ link' = FALSE /\ UNCHANGED <<door, source, health>> /\ Others

\* The client sends what it still has.
LinkReturns ==
    /\ ~link /\ link' = TRUE
    /\ conn' = IF queued = None THEN conn ELSE queued
    /\ queued' = None
    /\ UNCHANGED <<door, source, healthy, told>> /\ Others /\ Calm

DoorDrops     == Upset /\ door /\ door' = FALSE /\ UNCHANGED <<link, source, health>> /\ Others
DoorReturns   == ~door /\ door' = TRUE /\ UNCHANGED <<link, source, health>> /\ Others /\ Calm
SourceDrops   == Upset /\ source /\ source' = FALSE /\ UNCHANGED <<link, door, health>> /\ Others
SourceReturns == ~source /\ source' = TRUE /\ UNCHANGED <<link, door, health>> /\ Others /\ Calm

Crash == Upset /\ pc # "down" /\ Ends

-----------------------------------------------------------------------------
Publishing == Post \/ Decide \/ DecideFails \/ Return \/ PostFails \/ ReplyLost
Polling == \/ Serve \/ Rediscover \/ PublishCatalogue \/ PollStarts \/ PollDrains
           \/ PollReads \/ PollLoses \/ PollAppends \/ PollDies \/ Reconnect
Beating == BeatAppends \/ BeatSkips \/ BeatDies
Writes  == WriteStarts \/ WriteLoses \/ WriteAnswered
World   == LinkDrops \/ LinkReturns \/ DoorDrops \/ DoorReturns \/ SourceDrops \/ SourceReturns \/ Binds \/ Retires \/ Crash

Next == Publishing \/ Polling \/ HeartBeats \/ Beating \/ Writes \/ World

Spec == Init /\ [][Next]_vars

\* The loop, the thread and a call go on, a write is answered, what drops returns;
\* asyncio.Lock is handed over in the order it was asked for.
FairSpec ==
    /\ Spec
    /\ WF_vars(Publishing) /\ WF_vars(Polling) /\ WF_vars(Beating) /\ WF_vars(WriteAnswered)
    /\ SF_vars(PollReads \/ PollLoses)
    /\ WF_vars(LinkReturns) /\ WF_vars(DoorReturns)

-----------------------------------------------------------------------------
(* Properties *)

Row == [sig : Signals \cup {Beat}, val : Values \cup {0, 1}, at : 0 .. MaxReads + MaxBeats]

TypeOK ==
    /\ Len(journal) <= MaxPending /\ Range(journal) \subseteq taken /\ taken \subseteq Row
    /\ who \in {None, "poll", Beat} /\ (who = None => page = {} /\ left = 0) /\ left \in 0 .. Pages
    /\ pc \in {"drain", "send"} <=> who = "poll"
    /\ bpc = "send" <=> who = Beat
    /\ targets \subseteq Signals /\ (pc = "append" \/ batch = <<>>)

\* A sample that was journaled is there until the node has it, or refused it for good
\* and the finding says so.
SampleKept ==
    \A r \in taken : r \in Range(journal) \cup got \/ r.sig \in bad \cap found

\* What report-by-exception compares with is a value that was journaled: no change of a
\* signal goes unreported.
LatestJournaled ==
    pc # "append" => \A s \in Signals : latest[s] # None =>
        LET of == {r \in taken : r.sig = s}
        IN  \E r \in of : r.val = latest[s] /\ \A x \in of : x.at <= r.at

\* With a node that names its reasons, the journal drains, if in the end the connector
\* has a target: without one its rows stay where they are.
JournalDrains == named /\ <>[]HasTargets => <>[](journal = <<>>)

=============================================================================
