------------------------ MODULE ServiceRecordsProofs ------------------------
(***************************************************************************)
(* Proofs about ServiceRecords: types, that an accepted sample is kept,    *)
(* that the samples of a path reach the node in order, and that a path     *)
(* keeps its tag id.                                                       *)
(***************************************************************************)
EXTENDS ServiceRecords, FiniteSetTheorems, TLAPS

-----------------------------------------------------------------------------
(* What the operators of the catalogue and the wire return *)

\* A path that enters the catalogue is the only one whose id changes.
LEMMA EnsuredType ==
  ASSUME NEW p \in Paths, KnownOK
  PROVE  /\ Ensured(p) \in Catalogues /\ Minted(p) \in [Paths -> Nat]
         /\ \A q \in Paths : minted[q] <= Minted(p)[q] /\ Ensured(p)[q].id <= Minted(p)[q]
         /\ \A q \in Paths : cat[q].id # 0 => Ensured(p)[q].id = cat[q].id
<1>1. CASE cat[p].id = 0
  BY <1>1 DEF KnownOK, Ensured, Minted, Catalogues, Tags, Old
<1>2. CASE cat[p].id # 0
  <2>1. Ensured(p) = [cat EXCEPT ![p] = [cat[p] EXCEPT !.stale = FALSE]] /\ Minted(p) = [minted EXCEPT ![p] = minted[p]]
    BY <1>2 DEF Ensured, Minted
  <2>2. cat \in Catalogues /\ cat[p] \in Tags /\ [cat[p] EXCEPT !.stale = FALSE] \in Tags
    BY DEF KnownOK, Catalogues, Tags
  <2>3. QED
    BY <2>1, <2>2 DEF KnownOK, Catalogues, Tags, Old
<1>3. QED
  BY <1>1, <1>2

\* Sealing changes no id.
LEMMA SealedType ==
  ASSUME KnownOK
  PROVE  Sealed \in Catalogues /\ \A q \in Paths : Sealed[q].id = cat[q].id
BY DEF KnownOK, Sealed, Catalogues, Tags

LEMMA CatalogueType ==
  ASSUME NEW t \in Threads, NEW c \in Catalogues
  PROVE  CatalogueOf(t, c) \in Writes
BY DEF CatalogueOf, Writes

LEMMA DetailsType ==
  ASSUME NEW t \in Threads, NEW b \in BOOLEAN
  PROVE  DetailsOf(t, b) \in Writes
BY DEF DetailsOf, Writes

LEMMA MetricType ==
  ASSUME NEW t \in Threads, NEW p \in Paths, NEW k \in Nat
  PROVE  MetricOf(t, p, k) \in Writes
BY DEF MetricOf, Writes

LEMMA ThreadsHave ==
  ASSUME ServiceAssumption
  PROVE  /\ {"main", "drain", "none"} \subseteq Threads /\ Writers \subseteq Threads
         /\ "main" \notin Writers /\ "drain" \notin Writers /\ "none" \notin Writers
BY DEF Threads, ServiceAssumption

\* What was sent is the old writes and then the new ones.
LEMMA SentList ==
  ASSUME NEW ms \in Seq(Writes), out \in Seq(Writes), Send(ms)
  PROVE  /\ out' \in Seq(Writes) /\ Len(out') = Len(out) + Len(ms)
         /\ \A i \in 1 .. Len(out) : out'[i] = out[i]
         /\ \A i \in 1 .. Len(ms) : out'[Len(out) + i] = ms[i]
         /\ \A i \in DOMAIN out' : i \in DOMAIN out \/ (i - Len(out) \in DOMAIN ms /\ out'[i] = ms[i - Len(out)])
BY DEF Send

\* The same for one write.
LEMMA SentOne ==
  ASSUME NEW m \in Writes, out \in Seq(Writes), Send(<<m>>)
  PROVE  /\ out' \in Seq(Writes) /\ Len(out') = Len(out) + 1 /\ out'[Len(out) + 1] = m
         /\ \A i \in 1 .. Len(out) : out'[i] = out[i]
BY DEF Send

\* A write whose wait was given up is the same write, nobody waiting for it.
LEMMA ForgottenType ==
  ASSUME NEW t, Forget(t), WireOK, "none" \in Threads
  PROVE  WireOK'
<1> DEFINE Dis(m) == IF m.who = t THEN [m EXCEPT !.who = "none"] ELSE m
<1>1. ASSUME NEW m \in Writes PROVE Dis(m) \in Writes
  <2>1. CASE m \in [kind : {"cat"}, who : Threads, cat : Catalogues]
    BY <2>1 DEF Writes
  <2>2. CASE m \in [kind : {"details"}, who : Threads, active : BOOLEAN]
    BY <2>2 DEF Writes
  <2>3. CASE m \in [kind : {"metric"}, who : Threads, path : Paths, k : Nat]
    BY <2>3 DEF Writes
  <2>4. QED
    BY <2>1, <2>2, <2>3 DEF Writes
<1>2. ASSUME NEW m \in Inbound PROVE Dis(m) \in Inbound
  <2>1. CASE m \in [kind : {"ack", "own", "connack"}, who : Threads]
    BY <2>1 DEF Inbound
  <2>2. CASE m \in [kind : {"signal"}, who : {"none"}, path : Paths, sig : Signals]
    BY <2>2 DEF Inbound
  <2>3. QED
    BY <2>1, <2>2 DEF Inbound
<1>3. out' = [i \in DOMAIN out |-> Dis(out[i])] /\ inb' = [i \in DOMAIN inb |-> Dis(inb[i])]
  BY DEF Forget
<1> HIDE DEF Dis
<1>4. out' \in Seq(Writes)
  <2>1. out \in Seq(Writes)
    BY DEF WireOK
  <2>2. \A i \in DOMAIN out : Dis(out[i]) \in Writes
    BY <1>1, <2>1
  <2>3. QED
    BY <1>3, <2>1, <2>2
<1>5. inb' \in Seq(Inbound)
  <2>1. inb \in Seq(Inbound)
    BY DEF WireOK
  <2>2. \A i \in DOMAIN inb : Dis(inb[i]) \in Inbound
    BY <1>2, <2>1
  <2>3. QED
    BY <1>3, <2>1, <2>2
<1>6. QED
  BY <1>4, <1>5 DEF WireOK

\* And keeps its kind and contents.
LEMMA ForgottenSame ==
  ASSUME NEW t, Forget(t), WireOK
  PROVE  /\ DOMAIN out' = DOMAIN out
         /\ \A i \in DOMAIN out : out'[i].kind = out[i].kind
         /\ \A i \in DOMAIN out : out[i].who # t => out'[i] = out[i]
         /\ \A i \in DOMAIN out : out[i].kind = "cat" => out'[i].cat = out[i].cat
         /\ \A i \in DOMAIN out : out[i].kind = "metric" => out'[i].path = out[i].path /\ out'[i].k = out[i].k
<1>1. DOMAIN out' = DOMAIN out
  BY DEF Forget
<1>2. ASSUME NEW i \in DOMAIN out
      PROVE  /\ out'[i].kind = out[i].kind /\ (out[i].who # t => out'[i] = out[i])
             /\ out[i].kind = "cat" => out'[i].cat = out[i].cat
             /\ out[i].kind = "metric" => out'[i].path = out[i].path /\ out'[i].k = out[i].k
  <2>1. out'[i] = IF out[i].who = t THEN [out[i] EXCEPT !.who = "none"] ELSE out[i]
    BY DEF Forget
  <2>2. out[i] \in Writes
    BY DEF WireOK
  <2>3. CASE out[i] \in [kind : {"cat"}, who : Threads, cat : Catalogues]
    BY <2>1, <2>3
  <2>4. CASE out[i] \in [kind : {"details"}, who : Threads, active : BOOLEAN]
    BY <2>1, <2>4
  <2>5. CASE out[i] \in [kind : {"metric"}, who : Threads, path : Paths, k : Nat]
    BY <2>1, <2>5
  <2>6. QED
    BY <2>2, <2>3, <2>4, <2>5 DEF Writes
<1>3. QED
  BY <1>1, <1>2

\* What a write is, by its kind.
LEMMA WriteKinds ==
  ASSUME NEW m \in Writes
  PROVE  /\ m.who \in Threads
         /\ m.kind = "cat" => m.cat \in Catalogues
         /\ m.kind = "metric" => m.path \in Paths /\ m.k \in Nat
         /\ m.kind = "details" => m.active \in BOOLEAN
         /\ m.kind \in {"cat", "details", "metric"}
BY DEF Writes

-----------------------------------------------------------------------------
(* Types *)

\* Init satisfies the type invariant.
LEMMA TypeInit ==
  ASSUME ServiceAssumption, Init
  PROVE  TypeOK
<1> USE DEF Init, Unknown, Unbound
<1>1. NoTask.path \in Paths /\ NoTask \in [path : Paths, k : Nat, send : BOOLEAN, payload : Catalogues \cup {<<>>}]
  BY DEF NoTask, TaskOf, ServiceAssumption
<1>2. cat \in Catalogues /\ bind \in [Paths -> Signals]
  BY DEF Catalogues, Tags, Signals
<1>3. MainOK
  BY DEF MainOK, Subscribed, ServiceAssumption
<1>4. WireOK
  BY DEF WireOK
<1>5. KnownOK /\ MintedOK
  <2>1. node.cat = cat /\ out = <<>> /\ (\A w \in Writers : wpc[w] = "idle") /\ \A p \in Paths : cat[p].id = 0
    OBVIOUS
  <2>2. Old(cat) /\ Old(bind) /\ minted \in [Paths -> Nat]
    BY DEF Old
  <2>3. dirty \in BOOLEAN /\ seen \subseteq Paths /\ revision = cat
    OBVIOUS
  <2>4. KnownOK
    BY <1>2, <2>2, <2>3 DEF KnownOK
  <2>5. MintedOK
    <3>1. Old(node.cat)
      BY <2>1, <2>2
    <3>2. QED
      BY <2>1, <3>1 DEF MintedOK
  <2>6. QED
    BY <2>4, <2>5
<1>6. WritersOK
  BY <1>1 DEF WritersOK
<1>7. RowsOK
  BY DEF RowsOK
<1>8. DrainOK
  BY <1>1 DEF DrainOK
<1>9. NodeOK
  BY <1>2 DEF NodeOK
<1>10. QED
  BY <1>3, <1>4, <1>5, <1>6, <1>7, <1>8, <1>9 DEF TypeOK

\* What Lost leaves of a process has its types.
LEMMA LostTypes ==
  ASSUME ServiceAssumption, Lost
  PROVE  /\ cat' \in Catalogues /\ revision' \in Catalogues /\ bind' \in [Paths -> Signals]
         /\ \A p \in Paths : cat'[p].id = 0 /\ bind'[p].id = 0
         /\ NoTask \in [path : Paths, k : Nat, send : BOOLEAN, payload : Catalogues \cup {<<>>}]
         /\ dpath' \in Paths
<1>1. NoTask.path \in Paths /\ NoTask \in [path : Paths, k : Nat, send : BOOLEAN, payload : Catalogues \cup {<<>>}]
  BY DEF NoTask, TaskOf, ServiceAssumption
<1>2. QED
  BY <1>1 DEF Lost, Unknown, Unbound, Catalogues, Tags, Signals

\* The actions of a step.
LEMMA NextCases ==
  ASSUME [Next]_vars
  PROVE  \/ UNCHANGED vars
         \/ Start \/ Announced \/ Started \/ Close \/ CloseSeals \/ CloseSealed \/ CloseLeaves \/ Crash \/
              ReadAck \/ OnSignal \/ OnOwnDetails \/ OnConnect \/ Reannounce \/ ReannounceFails \/
              RetryReannounce \/ RetrySucceeds \/ DrainLooks \/ DrainEnds \/ DrainPath \/ DrainAcks \/
              DrainFails \/ Broker \/ NodeBinds \/ NodeChanges \/ Will \/ LinkDrops \/ LinkReturns
         \/ \E w \in Writers : \E p \in Paths : Declare(w, p)
         \/ \E w \in Writers : \E p \in Paths : PublishBound(w, p)
         \/ \E w \in Writers : \E p \in Paths : PublishBuffered(w, p)
         \/ \E w \in Writers : \E p \in Paths : PublishRefused(w, p)
         \/ \E w \in Writers : SendCatalogue(w)
         \/ \E w \in Writers : CataloguePublished(w)
         \/ \E w \in Writers : SendSample(w)
         \/ \E w \in Writers : Published(w)
         \/ \E w \in Writers : PublishTimesOut(w)
BY DEF Next, Main, Network, Retrying, Draining, World, Going, Calls, StartFails, CloseFails

\* The process and its links.
LEMMA MainKept ==
  ASSUME MainOK, WritersOK, DrainOK, ServiceAssumption, [Next]_vars
  PROVE  MainOK'
<1>1. ASSUME UNCHANGED <<mpc, closed, link, will, late, upsets, net, retry, out, dpc>> PROVE MainOK'
  BY <1>1 DEF MainOK, Subscribed
<1>2. CASE UNCHANGED vars
  BY <1>2, <1>1 DEF main, wire, again, known, writers, pending, drain, history, vars
<1>3. CASE ReadAck \/ OnSignal \/ NodeBinds
  BY <1>3, <1>1 DEF ReadAck, OnSignal, NodeBinds, main, wire, again, known, writers, pending, drain, history,
       vars
<1>4. ASSUME NEW w \in Writers, CataloguePublished(w) \/ Published(w) PROVE MainOK'
  BY <1>4, <1>1 DEF CataloguePublished, Published, main, wire, again, known, writers, pending, drain, history,
       vars
<1>5. ASSUME NEW w \in Writers, NEW p \in Paths, Declare(w, p) \/ PublishBound(w, p) \/ PublishRefused(w, p)
     PROVE MainOK'
  BY <1>5, <1>1 DEF Declare, PublishBound, PublishRefused, Begin, Sample, main, wire, again, known, writers,
       pending, drain, history, vars
<1>6. CASE Start
  BY <1>6 DEF MainOK, Subscribed, WritersOK, DrainOK, Start, Connects, LoadsPrevious, SubscribesSignals, Send,
       DetailsOf, main, wire, again, known, writers, pending, drain, history, vars
<1>7. CASE Announced
  BY <1>7 DEF MainOK, Subscribed, WritersOK, DrainOK, Announced, Change, Ensured, Minted, Due, Send,
       CatalogueOf, main, wire, again, known, writers, pending, drain, history, vars
<1>8. CASE Started
  BY <1>8 DEF MainOK, Subscribed, WritersOK, DrainOK, Started, Record, main, wire, again, known, writers,
       pending, drain, history, vars
<1>9. CASE Close
  BY <1>9 DEF MainOK, Subscribed, WritersOK, DrainOK, Close, main, wire, again, known, writers, pending,
       drain, history, vars
<1>10. CASE CloseSeals
  BY <1>10 DEF MainOK, Subscribed, WritersOK, DrainOK, CloseSeals, Change, Due, Send, CatalogueOf, DetailsOf,
       main, wire, again, known, writers, pending, drain, history, vars
<1>11. CASE CloseSealed
  BY <1>11 DEF MainOK, Subscribed, WritersOK, DrainOK, CloseSealed, Record, Send, DetailsOf, main, wire,
       again, known, writers, pending, drain, history, vars
<1>12. CASE CloseLeaves
  BY <1>12 DEF MainOK, Subscribed, WritersOK, DrainOK, CloseLeaves, Lost, main, wire, again, known, writers,
       pending, drain, history, vars
<1>13. CASE Crash
  <2>1. mpc' = "down" /\ closed' = FALSE /\ will' = TRUE /\ upsets' = upsets + 1
    BY <1>13 DEF Crash, Upset
  <2>2. link' = FALSE /\ out' = <<>> /\ net' = "idle" /\ retry' = "idle" /\ dpc' = "off" /\ late' = late
    BY <1>13 DEF Crash, Lost, history
  <2>3. will' \in BOOLEAN /\ link' \in BOOLEAN /\ closed' \in BOOLEAN /\ ~closed'
    BY <2>1, <2>2
  <2>4. QED
    BY <2>1, <2>2, <2>3 DEF MainOK, Subscribed
<1>14. CASE OnOwnDetails
  BY <1>14 DEF MainOK, Subscribed, WritersOK, DrainOK, OnOwnDetails, Reads, Send, DetailsOf, main, wire,
       again, known, writers, pending, drain, history, vars
<1>15. CASE OnConnect
  BY <1>15 DEF MainOK, Subscribed, WritersOK, DrainOK, OnConnect, Reads, main, wire, again, known, writers,
       pending, drain, history, vars
<1>16. CASE Reannounce
  BY <1>16 DEF MainOK, Subscribed, WritersOK, DrainOK, Reannounce, Send, DetailsOf, main, wire, again, known,
       writers, pending, drain, history, vars
<1>17. CASE ReannounceFails
  BY <1>17 DEF MainOK, Subscribed, WritersOK, DrainOK, ReannounceFails, Upset, main, wire, again, known,
       writers, pending, drain, history, vars
<1>18. CASE RetryReannounce
  BY <1>18 DEF MainOK, Subscribed, WritersOK, DrainOK, RetryReannounce, main, wire, again, known, writers,
       pending, drain, history, vars
<1>19. CASE RetrySucceeds
  BY <1>19 DEF MainOK, Subscribed, WritersOK, DrainOK, RetrySucceeds, Send, DetailsOf, main, wire, again,
       known, writers, pending, drain, history, vars
<1>20. ASSUME NEW w \in Writers, NEW p \in Paths, PublishBuffered(w, p) PROVE MainOK'
  BY <1>20 DEF MainOK, Subscribed, WritersOK, DrainOK, PublishBuffered, Sample, Writing, Begin, Change,
       TaskOf, main, wire, again, known, writers, pending, drain, history, vars
<1>21. ASSUME NEW w \in Writers, SendCatalogue(w) PROVE MainOK'
  BY <1>21 DEF MainOK, Subscribed, WritersOK, DrainOK, SendCatalogue, Send, CatalogueOf, main, wire, again,
       known, writers, pending, drain, history, vars
<1>22. ASSUME NEW w \in Writers, SendSample(w) PROVE MainOK'
  BY <1>22 DEF MainOK, Subscribed, WritersOK, DrainOK, SendSample, Send, MetricOf, main, wire, again, known,
       writers, pending, drain, history, vars
<1>23. ASSUME NEW w \in Writers, PublishTimesOut(w) PROVE MainOK'
  BY <1>23 DEF MainOK, Subscribed, WritersOK, DrainOK, PublishTimesOut, Upset, Forget, main, wire, again,
       known, writers, pending, drain, history, vars
<1>24. CASE DrainLooks
  BY <1>24 DEF MainOK, Subscribed, WritersOK, DrainOK, DrainLooks, main, wire, again, known, writers, pending,
       drain, history, vars
<1>25. CASE DrainEnds
  BY <1>25 DEF MainOK, Subscribed, WritersOK, DrainOK, DrainEnds, main, wire, again, known, writers, pending,
       drain, history, vars
<1>26. CASE DrainPath
  BY <1>26 DEF MainOK, Subscribed, WritersOK, DrainOK, DrainPath, Send, MetricOf, main, wire, again, known,
       writers, pending, drain, history, vars
<1>27. CASE DrainAcks
  BY <1>27 DEF MainOK, Subscribed, WritersOK, DrainOK, DrainAcks, main, wire, again, known, writers, pending,
       drain, history, vars
<1>28. CASE DrainFails
  BY <1>28 DEF MainOK, Subscribed, WritersOK, DrainOK, DrainFails, Upset, Forget, main, wire, again, known,
       writers, pending, drain, history, vars
<1>29. CASE Broker
  BY <1>29 DEF MainOK, Subscribed, WritersOK, DrainOK, Broker, main, wire, again, known, writers, pending,
       drain, history, vars
<1>30. CASE NodeChanges
  BY <1>30 DEF MainOK, Subscribed, WritersOK, DrainOK, NodeChanges, Upset, Tell, main, wire, again, known,
       writers, pending, drain, history, vars
<1>31. CASE Will
  BY <1>31 DEF MainOK, Subscribed, WritersOK, DrainOK, Will, main, wire, again, known, writers, pending,
       drain, history, vars
<1>32. CASE LinkDrops
  <2>1. link' = FALSE /\ will' = TRUE /\ upsets' = upsets + 1 /\ retry' \in {"idle", retry} /\ Subscribed
    BY <1>32 DEF LinkDrops, Upset, MainOK
  <2>2. UNCHANGED <<mpc, closed, late, net, out, dpc>>
    BY <1>32 DEF LinkDrops, main, known, drain, history
  <2>3. will' \in BOOLEAN /\ link' \in BOOLEAN
    BY <2>1
  <2>4. QED
    BY <2>1, <2>2, <2>3 DEF MainOK, Subscribed
<1>33. CASE LinkReturns
  BY <1>33 DEF MainOK, Subscribed, WritersOK, DrainOK, LinkReturns, main, wire, again, known, writers,
       pending, drain, history, vars
<1>34. QED
  BY NextCases, <1>1, <1>2, <1>3, <1>4, <1>5, <1>6, <1>7, <1>8, <1>9, <1>10, <1>11, <1>12, <1>13, <1>14,
       <1>15, <1>16, <1>17, <1>18, <1>19, <1>20, <1>21, <1>22, <1>23, <1>24, <1>25, <1>26, <1>27, <1>28,
       <1>29, <1>30, <1>31, <1>32, <1>33

\* What the network thread reads.
LEMMA InboundHas ==
  ASSUME ServiceAssumption, NEW t \in Threads, NEW p \in Paths, NEW s \in Signals, NEW k \in {"ack", "own", "connack"}
  PROVE  /\ [kind |-> k, who |-> t] \in Inbound
         /\ [kind |-> "signal", who |-> "none", path |-> p, sig |-> s] \in Inbound
BY DEF Inbound

LEMMA OwnType == [kind |-> "own", who |-> "none"] \in Inbound /\ [kind |-> "connack", who |-> "none"] \in Inbound
BY DEF Inbound, Threads

\* The rows of a path are finitely many.
LEMMA RowsFinite ==
  ASSUME RowsOK, NEW p \in Paths
  PROVE  IsFiniteSet(rows[p])
<1>1. rows[p] \subseteq 1 .. made[p] /\ made[p] \in Nat
  BY DEF RowsOK
<1>2. IsFiniteSet(1 .. made[p])
  BY <1>1, FS_Interval
<1>3. QED
  BY <1>1, <1>2, FS_Subset

\* A page lists the rows of its path.
LEMMA ByIdType ==
  ASSUME NEW S, IsFiniteSet(S), NEW s \in ById(S)
  PROVE  /\ s \in Seq(S) /\ \A k \in S : \E i \in DOMAIN s : s[i] = k
         /\ \A i, j \in DOMAIN s : i < j => s[i] < s[j]
<1>1. Cardinality(S) \in Nat
  BY FS_CardinalityType
<1>2. s \in [1 .. Cardinality(S) -> S] /\ Range(s) = S /\ \A i, j \in DOMAIN s : i < j => s[i] < s[j]
  BY DEF ById
<1>3. QED
  BY <1>1, <1>2 DEF Range

\* The node tells a Signal's retained record.
LEMMA Told ==
  ASSUME NEW p \in Paths, NEW s \in Signals, WireOK, Tell(p, s), UNCHANGED out
  PROVE  WireOK'
<1>1. [kind |-> "signal", who |-> "none", path |-> p, sig |-> s] \in Inbound
  BY DEF Inbound
<1>2. QED
  BY <1>1 DEF Tell, WireOK

\* What is on its way.
LEMMA WireKept ==
  ASSUME MainOK, WireOK, KnownOK, WritersOK, RowsOK, DrainOK, NodeOK, ServiceAssumption, [Next]_vars
  PROVE  WireOK'
<1>1. ASSUME UNCHANGED <<out, inb>> PROVE WireOK'
  BY <1>1 DEF WireOK
<1>2. CASE UNCHANGED vars
  BY <1>2, <1>1 DEF main, wire, again, known, writers, pending, drain, history, vars
<1>3. CASE Started \/ Close \/ ReannounceFails \/ RetryReannounce \/ DrainLooks \/ DrainEnds \/ DrainAcks \/
     LinkDrops
  BY <1>3, <1>1 DEF Started, Close, ReannounceFails, RetryReannounce, DrainLooks, DrainEnds, DrainAcks,
       LinkDrops, main, wire, again, known, writers, pending, drain, history, vars
<1>4. ASSUME NEW w \in Writers, CataloguePublished(w) \/ Published(w) PROVE WireOK'
  BY <1>4, <1>1 DEF CataloguePublished, Published, main, wire, again, known, writers, pending, drain, history,
       vars
<1>5. ASSUME NEW w \in Writers, NEW p \in Paths, Declare(w, p) \/ PublishBound(w, p) \/ PublishBuffered(w, p)
     \/ PublishRefused(w, p) PROVE WireOK'
  BY <1>5, <1>1 DEF Declare, PublishBound, PublishBuffered, PublishRefused, Begin, Sample, main, wire, again,
       known, writers, pending, drain, history, vars
<1>6. CASE Start
  <2>1. DetailsOf("main", TRUE) \in Writes
    BY DetailsType, ThreadsHave
  <2>2. out' \in Seq(Writes)
    BY <1>6, <2>1, SentOne DEF Start, WireOK
  <2> DEFINE bound == {p \in Paths : node.sig[p].id # 0}
  <2> DEFINE told(p) == [kind |-> "signal", who |-> "none", path |-> p, sig |-> node.sig[p]]
  <2>3. PICK order \in [1 .. Cardinality(bound) -> bound] : inb' = [i \in DOMAIN order |-> told(order[i])]
    BY <1>6 DEF Start, SubscribesSignals
  <2>4. ASSUME NEW p \in Paths PROVE told(p) \in Inbound
    BY DEF NodeOK, Inbound
  <2>5. Cardinality(bound) \in Nat
    BY FS_Subset, FS_CardinalityType DEF ServiceAssumption
  <2>6. bound \subseteq Paths
    OBVIOUS
  <2> HIDE DEF told, bound
  <2>7. inb' \in Seq(Inbound)
    BY <2>3, <2>4, <2>5, <2>6
  <2>8. QED
    BY <2>2, <2>7 DEF WireOK
<1>7. CASE Announced
  <2>1. inb' \in Seq(Inbound)
    BY <1>7, OwnType DEF Announced, WireOK
  <2>2. CASE UNCHANGED out
    BY <2>1, <2>2 DEF WireOK
  <2>3. ASSUME NEW c \in Catalogues, Send(<<CatalogueOf("main", c)>>) PROVE out' \in Seq(Writes)
    BY <2>3, CatalogueType, ThreadsHave, SentOne DEF WireOK
  <2> DEFINE c == [p \in Paths |-> IF p \in {q \in Paths : rows[q] # {}} THEN Ensured(p)[p] ELSE cat[p]]
  <2>4. c \in Catalogues
    BY EnsuredType DEF KnownOK, Catalogues
  <2>5. UNCHANGED out \/ Send(<<CatalogueOf("main", c)>>)
    BY <1>7 DEF Announced
  <2>6. QED
    BY <2>1, <2>2, <2>3, <2>4, <2>5 DEF WireOK
<1>8. CASE CloseSeals
  <2>1. UNCHANGED inb /\ (Send(<<CatalogueOf("main", Sealed)>>) \/ Send(<<DetailsOf("main", FALSE)>>))
    BY <1>8 DEF CloseSeals
  <2>2. CatalogueOf("main", Sealed) \in Writes /\ DetailsOf("main", FALSE) \in Writes
    BY CatalogueType, DetailsType, SealedType, ThreadsHave
  <2>3. QED
    BY <2>1, <2>2, SentOne DEF WireOK
<1>9. CASE CloseSealed
  <2>1. DetailsOf("main", FALSE) \in Writes
    BY DetailsType, ThreadsHave
  <2>2. QED
    BY <1>9, <2>1, SentOne DEF CloseSealed, WireOK
<1>10. CASE CloseLeaves
  BY <1>10 DEF CloseLeaves, Lost, WireOK
<1>11. CASE Crash
  BY <1>11 DEF Crash, Lost, WireOK
<1>12. CASE ReadAck
  BY <1>12 DEF WireOK, ReadAck, Reads, main, wire, again, known, writers, pending, drain, history, vars
<1>13. CASE OnSignal
  BY <1>13 DEF WireOK, OnSignal, Reads, main, wire, again, known, writers, pending, drain, history, vars
<1>14. CASE OnOwnDetails
  <2>1. DetailsOf("none", TRUE) \in Writes
    BY DetailsType, ThreadsHave
  <2>2. inb' \in Seq(Inbound)
    BY <1>14 DEF OnOwnDetails, Reads, WireOK
  <2>3. QED
    BY <1>14, <2>1, <2>2, SentOne DEF OnOwnDetails, WireOK
<1>15. CASE OnConnect
  BY <1>15 DEF WireOK, OnConnect, Reads, main, wire, again, known, writers, pending, drain, history, vars
<1>16. CASE Reannounce
  <2>1. DetailsOf("none", TRUE) \in Writes
    BY DetailsType, ThreadsHave
  <2>2. QED
    BY <1>16, <2>1, SentOne DEF Reannounce, WireOK
<1>17. CASE RetrySucceeds
  <2>1. DetailsOf("none", TRUE) \in Writes
    BY DetailsType, ThreadsHave
  <2>2. QED
    BY <1>17, <2>1, SentOne DEF RetrySucceeds, WireOK
<1>18. ASSUME NEW w \in Writers, SendCatalogue(w) PROVE WireOK'
  <2>1. CatalogueOf(w, task[w].payload) \in Writes
    BY <1>18, CatalogueType, ThreadsHave DEF SendCatalogue, WritersOK
  <2>2. QED
    BY <1>18, <2>1, SentOne DEF SendCatalogue, WireOK
<1>19. ASSUME NEW w \in Writers, SendSample(w) PROVE WireOK'
  <2>1. MetricOf(w, task[w].path, task[w].k) \in Writes
    BY <1>19, MetricType, ThreadsHave DEF SendSample, WritersOK
  <2>2. QED
    BY <1>19, <2>1, SentOne DEF SendSample, WireOK
<1>20. ASSUME NEW w \in Writers, PublishTimesOut(w) PROVE WireOK'
  BY <1>20, ForgottenType, ThreadsHave DEF PublishTimesOut
<1>21. CASE DrainPath
  <2>1. CASE UNCHANGED out
    BY <1>21, <2>1 DEF DrainPath, WireOK
  <2>2. ASSUME NEW p \in dpaths, NEW s \in ById(rows[p]), Send([i \in DOMAIN s |-> MetricOf("drain", p,
       s[i])])
        PROVE  WireOK'
    <3>1. p \in Paths /\ rows[p] \subseteq Nat
      BY DEF DrainOK, RowsOK
    <3>2. [i \in DOMAIN s |-> MetricOf("drain", p, s[i])] \in Seq(Writes)
      BY <3>1, ByIdType, RowsFinite, MetricType, ThreadsHave
    <3>3. QED
      BY <1>21, <2>2, <3>2, SentList DEF DrainPath, WireOK
  <2>3. QED
    BY <1>21, <2>1, <2>2 DEF DrainPath
<1>22. CASE DrainFails
  BY <1>22, ForgottenType, ThreadsHave DEF DrainFails
<1>23. CASE Broker
  <2>1. out \in Seq(Writes) /\ out # <<>> /\ out' = Tail(out) /\ inb \in Seq(Inbound)
    BY <1>23 DEF Broker, WireOK
  <2>2. Head(out) \in Writes
    BY <2>1
  <2> DEFINE ack == IF Head(out).who = "none" THEN <<>> ELSE <<[kind |-> "ack", who |-> Head(out).who]>>
  <2> DEFINE own == IF Head(out).kind = "details" /\ ~Head(out).active /\ Subscribed
                    THEN <<[kind |-> "own", who |-> "none"]>> ELSE <<>>
  <2>3. [kind |-> "ack", who |-> Head(out).who] \in Inbound
    BY <2>2, WriteKinds DEF Inbound
  <2>4. ack \in Seq(Inbound) /\ own \in Seq(Inbound)
    BY <2>3, OwnType
  <2>5. inb' = inb \o own \o ack
    BY <1>23 DEF Broker
  <2>6. QED
    BY <2>1, <2>4, <2>5 DEF WireOK
<1>24. CASE NodeBinds
  <2>1. PICK p \in Paths : node.cat[p].id # 0 /\ Tell(p, [id |-> node.cat[p].id, on |-> TRUE])
    BY <1>24 DEF NodeBinds
  <2>2. [id |-> node.cat[p].id, on |-> TRUE] \in Signals
    BY DEF NodeOK, Signals, Catalogues, Tags
  <2>3. QED
    BY <1>24, <2>1, <2>2, Told DEF NodeBinds, wire
<1>25. CASE NodeChanges
  <2>0. PICK p \in Paths : \E s \in {[node.sig[p] EXCEPT !.on = FALSE], Unbound} : Tell(p, s)
    BY <1>25 DEF NodeChanges
  <2>1. PICK s \in {[node.sig[p] EXCEPT !.on = FALSE], Unbound} : Tell(p, s)
    BY <2>0
  <2>2. s \in Signals
    <3>1. node.sig[p] \in Signals
      BY DEF NodeOK
    <3>2. [node.sig[p] EXCEPT !.on = FALSE] \in Signals /\ Unbound \in Signals
      BY <3>1 DEF Signals, Unbound
    <3>3. QED
      BY <3>2
  <2>3. QED
    BY <1>25, <2>1, <2>2, Told DEF NodeChanges, wire
<1>26. CASE Will
  BY <1>26, OwnType DEF Will, WireOK
<1>27. CASE LinkReturns
  BY <1>27, OwnType DEF LinkReturns, WireOK
<1>28. QED
  BY NextCases, <1>1, <1>2, <1>3, <1>4, <1>5, <1>6, <1>7, <1>8, <1>9, <1>10, <1>11, <1>12, <1>13, <1>14,
       <1>15, <1>16, <1>17, <1>18, <1>19, <1>20, <1>21, <1>22, <1>23, <1>24, <1>25, <1>26, <1>27

\* Where ids are minted: the catalogue becomes c.
LEMMA KnownChanges ==
  ASSUME KnownOK, NEW c \in Catalogues, Change(c), NEW m \in [Paths -> Nat], minted' = m,
         \A q \in Paths : minted[q] <= m[q] /\ c[q].id <= m[q],
         seen' \subseteq Paths, UNCHANGED <<revision, bind>>
  PROVE  KnownOK'
<1>1. cat' = c /\ dirty' \in BOOLEAN
  BY DEF Change
<1>2. Old(cat)'
  BY <1>1 DEF Old
<1>3. Old(bind)'
  BY DEF Old, KnownOK, Signals
<1>4. QED
  BY <1>1, <1>2, <1>3 DEF KnownOK

\* The catalogue of start(), with the paths that wait.
Revived ==
    [p \in Paths |-> IF p \in {q \in Paths : rows[q] # {}} THEN Ensured(p)[p] ELSE cat[p]]

RevivedMinted ==
    [p \in Paths |-> IF p \in {q \in Paths : rows[q] # {}} THEN Minted(p)[p] ELSE minted[p]]

LEMMA RevivedType ==
  ASSUME KnownOK
  PROVE  /\ Revived \in Catalogues /\ RevivedMinted \in [Paths -> Nat]
         /\ \A q \in Paths : minted[q] <= RevivedMinted[q] /\ Revived[q].id <= RevivedMinted[q]
         /\ \A q \in Paths : cat[q].id # 0 => Revived[q].id = cat[q].id
<1>1. ASSUME NEW p \in Paths
      PROVE  /\ Revived[p] \in Tags /\ RevivedMinted[p] \in Nat
             /\ minted[p] <= RevivedMinted[p] /\ Revived[p].id <= RevivedMinted[p]
             /\ cat[p].id # 0 => Revived[p].id = cat[p].id
  <2>1. CASE rows[p] # {}
    <3>1. Revived[p] = Ensured(p)[p] /\ RevivedMinted[p] = Minted(p)[p]
      BY <2>1 DEF Revived, RevivedMinted
    <3>2. QED
      BY <3>1, EnsuredType DEF Catalogues
  <2>2. CASE rows[p] = {}
    <3>1. Revived[p] = cat[p] /\ RevivedMinted[p] = minted[p]
      BY <2>2 DEF Revived, RevivedMinted
    <3>2. QED
      BY <3>1 DEF KnownOK, Catalogues, Tags, Old
  <2>3. QED
    BY <2>1, <2>2
<1>2. DOMAIN Revived = Paths /\ DOMAIN RevivedMinted = Paths
  BY DEF Revived, RevivedMinted
<1>3. Revived \in Catalogues
  <2>1. Revived = [p \in Paths |-> Revived[p]]
    BY DEF Revived
  <2>2. QED
    BY <1>1, <2>1 DEF Catalogues
<1>4. RevivedMinted \in [Paths -> Nat]
  <2>1. RevivedMinted = [p \in Paths |-> RevivedMinted[p]]
    BY DEF RevivedMinted
  <2>2. QED
    BY <1>1, <2>1
<1>5. QED
  BY <1>1, <1>3, <1>4

\* What Announced does to the catalogue.
LEMMA AnnouncedChange ==
  ASSUME Announced
  PROVE  /\ Change(Revived) /\ minted' = RevivedMinted /\ UNCHANGED <<revision, bind, node, rows, wpc, task, made>>
         /\ \/ UNCHANGED out /\ mpc' = "ready"
            \/ Send(<<CatalogueOf("main", Revived)>>) /\ mpc' = "catalogue"
         /\ seen' = {p \in Paths : rows[p] # {}} /\ sources' = seen'
         /\ dpc' = IF sources' = {} THEN "off" ELSE "look"
         /\ mpc = "announce" /\ UNCHANGED <<dpaths, dpath, dpage, accepted, dropped, held>>
BY DEF Announced, Revived, RevivedMinted, writers, drain

\* The catalogue and the bindings.
LEMMA KnownKept ==
  ASSUME WireOK, KnownOK, MintedOK, WritersOK, NodeOK, ServiceAssumption, [Next]_vars
  PROVE  KnownOK'
<1>1. ASSUME UNCHANGED <<cat, revision, dirty, seen, minted, bind>> PROVE KnownOK'
  BY <1>1 DEF KnownOK, Old
<1>2. CASE UNCHANGED vars
  BY <1>2, <1>1 DEF main, wire, again, known, writers, pending, drain, history, vars
<1>3. CASE Close \/ ReadAck \/ OnOwnDetails \/ OnConnect \/ Reannounce \/ ReannounceFails \/ RetryReannounce
     \/ RetrySucceeds \/ DrainLooks \/ DrainEnds \/ DrainPath \/ DrainAcks \/ DrainFails \/ Broker \/
     NodeBinds \/ NodeChanges \/ Will \/ LinkDrops \/ LinkReturns
  BY <1>3, <1>1 DEF Close, ReadAck, OnOwnDetails, OnConnect, Reannounce, ReannounceFails, RetryReannounce,
       RetrySucceeds, DrainLooks, DrainEnds, DrainPath, DrainAcks, DrainFails, Broker, NodeBinds, NodeChanges,
       Will, LinkDrops, LinkReturns, main, wire, again, known, writers, pending, drain, history, vars
<1>4. ASSUME NEW w \in Writers, SendCatalogue(w) \/ SendSample(w) \/ Published(w) \/ PublishTimesOut(w) PROVE
     KnownOK'
  BY <1>4, <1>1 DEF SendCatalogue, SendSample, Published, PublishTimesOut, main, wire, again, known, writers,
       pending, drain, history, vars
<1>5. CASE Start
  <2>1. cat' = node.cat /\ revision' = node.cat /\ dirty' \in BOOLEAN /\ UNCHANGED <<seen, minted, bind>>
    BY <1>5 DEF Start, LoadsPrevious, history
  <2>2. node.cat \in Catalogues /\ Old(cat)' /\ Old(bind)'
    BY <2>1 DEF NodeOK, MintedOK, KnownOK, Old
  <2>3. QED
    BY <2>1, <2>2 DEF KnownOK
<1>6. CASE Announced
  <2>1. seen' \subseteq Paths
    BY <1>6, AnnouncedChange
  <2>2. QED
    BY <1>6, <2>1, AnnouncedChange, RevivedType, KnownChanges
<1>7. CASE Started
  BY <1>7 DEF Started, Record, KnownOK, Old, main, wire, again, known, writers, pending, drain, history, vars
<1>8. CASE CloseSeals
  <2>1. Change(Sealed) /\ UNCHANGED <<minted, seen, revision, bind>>
    BY <1>8 DEF CloseSeals, history
  <2>2. Sealed \in Catalogues /\ minted \in [Paths -> Nat] /\ \A q \in Paths : minted[q] <= minted[q] /\
       Sealed[q].id <= minted[q]
    BY SealedType DEF KnownOK, Old
  <2>3. seen' \subseteq Paths
    BY <2>1 DEF KnownOK
  <2>4. QED
    BY <2>1, <2>2, <2>3, KnownChanges
<1>9. CASE CloseSealed
  BY <1>9 DEF CloseSealed, Record, KnownOK, Old, main, wire, again, known, writers, pending, drain, history,
       vars
<1>10. CASE CloseLeaves
  <2>1. Lost
    BY <1>10 DEF CloseLeaves
  <2>2. cat' \in Catalogues /\ revision' \in Catalogues /\ bind' \in [Paths -> Signals]
        /\ \A p \in Paths : cat'[p].id = 0 /\ bind'[p].id = 0
    BY <2>1, LostTypes
  <2>3. dirty' \in BOOLEAN /\ seen' \subseteq Paths /\ minted' = minted
    BY <2>1 DEF Lost, history
  <2>4. Old(cat)' /\ Old(bind)'
    BY <2>2, <2>3 DEF Old, KnownOK
  <2>5. QED
    BY <2>2, <2>3, <2>4 DEF KnownOK
<1>11. CASE Crash
  <2>1. Lost
    BY <1>11 DEF Crash
  <2>2. cat' \in Catalogues /\ revision' \in Catalogues /\ bind' \in [Paths -> Signals]
        /\ \A p \in Paths : cat'[p].id = 0 /\ bind'[p].id = 0
    BY <2>1, LostTypes
  <2>3. dirty' \in BOOLEAN /\ seen' \subseteq Paths /\ minted' = minted
    BY <2>1 DEF Lost, history
  <2>4. Old(cat)' /\ Old(bind)'
    BY <2>2, <2>3 DEF Old, KnownOK
  <2>5. QED
    BY <2>2, <2>3, <2>4 DEF KnownOK
<1>12. CASE OnSignal
  <2>1. Head(inb) \in Inbound /\ Head(inb).kind = "signal"
    BY <1>12 DEF OnSignal, Reads, WireOK
  <2>2. Head(inb).path \in Paths /\ Head(inb).sig \in Signals
    BY <2>1 DEF Inbound
  <2>3. bind' = [bind EXCEPT ![Head(inb).path] = IF Head(inb).sig.id # 0 /\ cat[Head(inb).path].id =
       Head(inb).sig.id
                                                 THEN Head(inb).sig ELSE Unbound]
    BY <1>12 DEF OnSignal
  <2>4. bind' \in [Paths -> Signals] /\ UNCHANGED <<cat, revision, dirty, seen, minted>>
    BY <1>12, <2>2, <2>3 DEF OnSignal, known, history, KnownOK, Unbound, Signals
  <2>5. Old(cat)' /\ Old(bind)'
    BY <2>2, <2>3, <2>4 DEF KnownOK, Old, Unbound, Signals
  <2>6. QED
    BY <2>4, <2>5 DEF KnownOK
<1>13. ASSUME NEW w \in Writers, NEW p \in Paths, Declare(w, p) PROVE KnownOK'
  <2>1. Ensured(p) \in Catalogues /\ Minted(p) \in [Paths -> Nat]
        /\ \A q \in Paths : minted[q] <= Minted(p)[q] /\ Ensured(p)[q].id <= Minted(p)[q]
    BY EnsuredType
  <2>2. Change(Ensured(p)) /\ minted' = Minted(p) /\ seen' = seen \cup {p} /\ UNCHANGED <<revision, bind>>
    BY <1>13 DEF Declare, Writing, Begin, Change, main, wire, again, known, writers, pending, drain, history,
         vars, TaskOf
  <2>3. seen' \subseteq Paths
    BY <2>2 DEF KnownOK
  <2>4. QED
    BY <2>1, <2>2, <2>3, KnownChanges
<1>14. ASSUME NEW w \in Writers, NEW p \in Paths, PublishBound(w, p) PROVE KnownOK'
  <2>1. Ensured(p) \in Catalogues /\ Minted(p) \in [Paths -> Nat]
        /\ \A q \in Paths : minted[q] <= Minted(p)[q] /\ Ensured(p)[q].id <= Minted(p)[q]
    BY EnsuredType
  <2>2. Change(Ensured(p)) /\ minted' = Minted(p) /\ seen' = seen \cup {p} /\ UNCHANGED <<revision, bind>>
    BY <1>14 DEF PublishBound, Sample, Writing, Begin, Change, TaskOf, main, wire, again, known, writers,
         pending, drain, history, vars, TaskOf
  <2>3. seen' \subseteq Paths
    BY <2>2 DEF KnownOK
  <2>4. QED
    BY <2>1, <2>2, <2>3, KnownChanges
<1>15. ASSUME NEW w \in Writers, NEW p \in Paths, PublishBuffered(w, p) PROVE KnownOK'
  <2>1. Ensured(p) \in Catalogues /\ Minted(p) \in [Paths -> Nat]
        /\ \A q \in Paths : minted[q] <= Minted(p)[q] /\ Ensured(p)[q].id <= Minted(p)[q]
    BY EnsuredType
  <2>2. Change(Ensured(p)) /\ minted' = Minted(p) /\ seen' = seen \cup {p} /\ UNCHANGED <<revision, bind>>
    BY <1>15 DEF PublishBuffered, Sample, Writing, Begin, Change, TaskOf, main, wire, again, known, writers,
         pending, drain, history, vars, TaskOf
  <2>3. seen' \subseteq Paths
    BY <2>2 DEF KnownOK
  <2>4. QED
    BY <2>1, <2>2, <2>3, KnownChanges
<1>16. ASSUME NEW w \in Writers, NEW p \in Paths, PublishRefused(w, p) PROVE KnownOK'
  <2>1. Ensured(p) \in Catalogues /\ Minted(p) \in [Paths -> Nat]
        /\ \A q \in Paths : minted[q] <= Minted(p)[q] /\ Ensured(p)[q].id <= Minted(p)[q]
    BY EnsuredType
  <2>2. Change(Ensured(p)) /\ minted' = Minted(p) /\ seen' = seen \cup {p} /\ UNCHANGED <<revision, bind>>
    BY <1>16 DEF PublishRefused, Writing, Change, main, wire, again, known, writers, pending, drain, history,
         vars, TaskOf
  <2>3. seen' \subseteq Paths
    BY <2>2 DEF KnownOK
  <2>4. QED
    BY <2>1, <2>2, <2>3, KnownChanges
<1>17. ASSUME NEW w \in Writers, CataloguePublished(w) PROVE KnownOK'
  BY <1>17 DEF CataloguePublished, Record, KnownOK, WritersOK, Old, main, wire, again, known, writers,
       pending, drain, history, vars
<1>18. QED
  BY NextCases, <1>1, <1>2, <1>3, <1>4, <1>5, <1>6, <1>7, <1>8, <1>9, <1>10, <1>11, <1>12, <1>13, <1>14,
       <1>15, <1>16, <1>17

\* What a call of publish() or declare() begins.
LEMMA BeginsTask ==
  ASSUME NEW w \in Writers, NEW p \in Paths, NEW k \in Nat, NEW b \in BOOLEAN, NEW c,
         WritersOK, Begin(w, TaskOf(p, k, b), c)
  PROVE  /\ task' = [task EXCEPT ![w] = [path |-> p, k |-> k, send |-> b, payload |-> c]]
         /\ wpc' = [wpc EXCEPT ![w] = wpc'[w]] /\ wpc'[w] \in {"sendcat", "sendmetric"}
         /\ Change(c) /\ minted' = Minted(p) /\ seen' = seen \cup {p}
         /\ UNCHANGED <<main, wire, again, revision, bind, node, accepted, held, late, upsets>>
<1>1. [TaskOf(p, k, b) EXCEPT !.payload = c] = [path |-> p, k |-> k, send |-> b, payload |-> c]
  BY DEF TaskOf
<1>2. TaskOf(p, k, b).path = p
  BY DEF TaskOf
<1>3. wpc' = [wpc EXCEPT ![w] = wpc'[w]] /\ wpc'[w] \in {"sendcat", "sendmetric"}
  BY DEF Begin, WritersOK
<1>4. QED
  BY <1>1, <1>2, <1>3 DEF Begin

\* The four calls.
LEMMA DeclareBegins ==
  ASSUME NEW w \in Writers, NEW p \in Paths, WritersOK, Declare(w, p)
  PROVE  /\ Begin(w, TaskOf(p, 0, FALSE), Ensured(p)) /\ Writing(w) /\ cat[p].id = 0
         /\ UNCHANGED <<pending, drain, made, dropped>>
BY DEF Declare

LEMMA BoundBegins ==
  ASSUME NEW w \in Writers, NEW p \in Paths, WritersOK, KnownOK, RowsOK, PublishBound(w, p)
  PROVE  /\ bind[p].on \in BOOLEAN /\ made[p] + 1 \in Nat /\ Writing(w) /\ ~MustWait(p)
         /\ Begin(w, TaskOf(p, made[p] + 1, bind[p].on), Ensured(p))
         /\ made' = [made EXCEPT ![p] = @ + 1] /\ UNCHANGED <<pending, drain>>
         /\ dropped' = IF bind[p].on THEN dropped ELSE dropped \cup {<<p, made[p] + 1>>}
<1>1. bind[p].on \in BOOLEAN /\ made[p] + 1 \in Nat
  BY DEF KnownOK, RowsOK, Signals
<1>2. QED
  BY <1>1 DEF PublishBound, Sample

LEMMA BufferedBegins ==
  ASSUME NEW w \in Writers, NEW p \in Paths, WritersOK, RowsOK, PublishBuffered(w, p)
  PROVE  /\ made[p] + 1 \in Nat /\ Writing(w)
         /\ Begin(w, TaskOf(p, made[p] + 1, FALSE), Ensured(p))
         /\ made' = [made EXCEPT ![p] = @ + 1] /\ rows' = [rows EXCEPT ![p] = @ \cup {made[p] + 1}]
         /\ sources' = sources \cup {p} /\ dpc' = (IF dpc = "off" THEN "look" ELSE dpc)
         /\ UNCHANGED <<dpaths, dpath, dpage, dropped>>
<1>1. made[p] + 1 \in Nat
  BY DEF RowsOK
<1>2. QED
  BY <1>1 DEF PublishBuffered, Sample

\* What was minted stays minted.
LEMMA OldStays ==
  ASSUME NEW c \in Catalogues, KnownOK, minted' \in [Paths -> Nat], \A q \in Paths : minted[q] <= minted'[q], Old(c)
  PROVE  Old(c)'
BY DEF Old, KnownOK, Catalogues, Tags

LEMMA MintedChanges ==
  ASSUME MintedOK, KnownOK, NodeOK, WireOK, WritersOK,
         minted' \in [Paths -> Nat], \A q \in Paths : minted[q] <= minted'[q], UNCHANGED node,
         \A i \in DOMAIN out' : out'[i].kind = "cat" =>
            (i \in DOMAIN out /\ out'[i] = out[i]) \/ \A p \in Paths : out'[i].cat[p].id <= minted'[p],
         \A w \in Writers : wpc'[w] = "sendcat" =>
            (wpc[w] = "sendcat" /\ task'[w] = task[w]) \/ \A p \in Paths : task'[w].payload[p].id <= minted'[p]
  PROVE  MintedOK'
<1>1. Old(node.cat)'
  <2>1. node.cat \in Catalogues /\ Old(node.cat)
    BY DEF NodeOK, MintedOK
  <2>2. PICK c \in Catalogues : c = node.cat
    BY <2>1
  <2>3. Old(c)'
    BY <2>1, <2>2, OldStays
  <2>4. QED
    BY <2>2, <2>3 DEF Old
<1>2. ASSUME NEW i \in DOMAIN out', out'[i].kind = "cat" PROVE Old(out[i].cat)'
  <2>1. CASE i \in DOMAIN out /\ out'[i] = out[i]
    <3>1. out[i].cat \in Catalogues /\ Old(out[i].cat)
      BY <1>2, <2>1, WriteKinds DEF WireOK, MintedOK
    <3>2. PICK c \in Catalogues : c = out[i].cat
      BY <3>1
    <3>3. Old(c)'
      BY <3>1, <3>2, OldStays
    <3>4. QED
      BY <2>1, <3>2, <3>3 DEF Old
  <2>2. QED
    BY <1>2, <2>1 DEF Old
<1>3. ASSUME NEW w \in Writers, wpc'[w] = "sendcat" PROVE Old(task[w].payload)'
  <2>1. CASE wpc[w] = "sendcat" /\ task'[w] = task[w]
    <3>1. task[w].payload \in Catalogues /\ Old(task[w].payload)
      BY <2>1 DEF WritersOK, MintedOK
    <3>2. PICK c \in Catalogues : c = task[w].payload
      BY <3>1
    <3>3. Old(c)'
      BY <3>1, <3>2, OldStays
    <3>4. QED
      BY <2>1, <3>2, <3>3 DEF Old
  <2>2. QED
    BY <1>3, <2>1 DEF Old
<1>4. QED
  BY <1>1, <1>2, <1>3 DEF MintedOK

\* Where no id is minted: what is published is what was published before, or of minted ids.
LEMMA MintedWire ==
  ASSUME MintedOK, UNCHANGED minted, node'.cat = node.cat \/ \A p \in Paths : node'.cat[p].id <= minted[p],
         \A i \in DOMAIN out' : out'[i].kind = "cat" =>
            \/ \E j \in DOMAIN out : out[j].kind = "cat" /\ out[j].cat = out'[i].cat
            \/ \A p \in Paths : out'[i].cat[p].id <= minted[p],
         \A w \in Writers : wpc'[w] = "sendcat" => wpc[w] = "sendcat" /\ task'[w] = task[w]
  PROVE  MintedOK'
<1>1. Old(node.cat)'
  BY DEF MintedOK, Old
<1>2. ASSUME NEW i \in DOMAIN out', out'[i].kind = "cat" PROVE \A p \in Paths : out'[i].cat[p].id <= minted'[p]
  BY <1>2 DEF MintedOK, Old
<1>3. ASSUME NEW w \in Writers, wpc'[w] = "sendcat" PROVE \A p \in Paths : task'[w].payload[p].id <= minted'[p]
  BY <1>3 DEF MintedOK, Old
<1>4. QED
  BY <1>1, <1>2, <1>3 DEF MintedOK, Old

\* The same for what is sent, and for a wait that was given up.
LEMMA MintedSent ==
  ASSUME MintedOK, WireOK, UNCHANGED <<minted, node>>, NEW m \in Writes, Send(<<m>>),
         m.kind = "cat" => \A p \in Paths : m.cat[p].id <= minted[p],
         \A w \in Writers : wpc'[w] = "sendcat" => wpc[w] = "sendcat" /\ task'[w] = task[w]
  PROVE  MintedOK'
<1>1. ASSUME NEW i \in DOMAIN out', out'[i].kind = "cat"
      PROVE  \/ \E j \in DOMAIN out : out[j].kind = "cat" /\ out[j].cat = out'[i].cat
             \/ \A p \in Paths : out'[i].cat[p].id <= minted[p]
  <2>1. out \in Seq(Writes) /\ out' \in Seq(Writes) /\ Len(out') = Len(out) + 1 /\ out'[Len(out) + 1] = m
        /\ \A j \in 1 .. Len(out) : out'[j] = out[j]
    BY SentOne DEF WireOK
  <2>2. QED
    BY <1>1, <2>1
<1>2. QED
  BY <1>1, MintedWire

LEMMA MintedForgot ==
  ASSUME MintedOK, WireOK, UNCHANGED <<minted, node>>, NEW t, Forget(t),
         \A w \in Writers : wpc'[w] = "sendcat" => wpc[w] = "sendcat" /\ task'[w] = task[w]
  PROVE  MintedOK'
<1>1. ASSUME NEW i \in DOMAIN out', out'[i].kind = "cat"
      PROVE  \E j \in DOMAIN out : out[j].kind = "cat" /\ out[j].cat = out'[i].cat
  BY <1>1, ForgottenSame
<1>2. QED
  BY <1>1, MintedWire

\* What the broker does with a write.
LEMMA BrokerTakes ==
  ASSUME Broker
  PROVE  /\ out # <<>> /\ out' = Tail(out)
         /\ Head(out).kind = "cat" => node' = [node EXCEPT !.cat = Head(out).cat]
         /\ Head(out).kind = "details" => node' = [node EXCEPT !.active = Head(out).active]
         /\ Head(out).kind \notin {"cat", "details"} =>
               node' = [node EXCEPT !.got[Head(out).path] = Append(@, Head(out).k)]
BY DEF Broker

LEMMA BrokerKeepsCat ==
  ASSUME Broker, NodeOK, Head(out).kind # "cat"
  PROVE  node'.cat = node.cat
BY BrokerTakes DEF NodeOK

\* No id that was not minted.
LEMMA MintedKept ==
  ASSUME MainOK, WireOK, KnownOK, MintedOK, WritersOK, RowsOK, DrainOK, NodeOK, ServiceAssumption, [Next]_vars
  PROVE  MintedOK'
<1>1. ASSUME UNCHANGED <<node, out, wpc, task, minted>> PROVE MintedOK'
  BY <1>1 DEF MintedOK, Old
<1>2. CASE UNCHANGED vars
  BY <1>2, <1>1 DEF main, wire, again, known, writers, pending, drain, history, vars
<1>3. CASE Started \/ Close \/ ReadAck \/ OnSignal \/ OnConnect \/ ReannounceFails \/ RetryReannounce \/
     DrainLooks \/ DrainEnds \/ DrainAcks \/ LinkDrops \/ LinkReturns
  BY <1>3, <1>1 DEF Started, Close, ReadAck, OnSignal, OnConnect, ReannounceFails, RetryReannounce,
       DrainLooks, DrainEnds, DrainAcks, LinkDrops, LinkReturns, main, wire, again, known, writers, pending,
       drain, history, vars
<1>4. CASE Start
  <2>1. DetailsOf("main", TRUE) \in Writes /\ DetailsOf("main", TRUE).kind = "details"
    BY DetailsType, ThreadsHave DEF DetailsOf
  <2>2. Send(<<DetailsOf("main", TRUE)>>) /\ UNCHANGED <<minted, node, wpc, task>>
    BY <1>4 DEF Start, main, wire, again, known, writers, pending, drain, history, vars
  <2>3. QED
    BY <2>1, <2>2, MintedSent
<1>5. CASE Announced
  <2>1. Revived \in Catalogues /\ RevivedMinted \in [Paths -> Nat]
        /\ \A q \in Paths : minted[q] <= RevivedMinted[q] /\ Revived[q].id <= RevivedMinted[q]
    BY RevivedType
  <2>2. minted' = RevivedMinted /\ UNCHANGED <<node, wpc, task>>
        /\ (UNCHANGED out \/ Send(<<CatalogueOf("main", Revived)>>))
    BY <1>5, AnnouncedChange
  <2>3. CatalogueOf("main", Revived) \in Writes /\ CatalogueOf("main", Revived).cat = Revived
    BY <2>1, CatalogueType, ThreadsHave DEF CatalogueOf
  <2>4. ASSUME NEW i \in DOMAIN out', out'[i].kind = "cat"
        PROVE  (i \in DOMAIN out /\ out'[i] = out[i]) \/ \A p \in Paths : out'[i].cat[p].id <= minted'[p]
    <3>1. CASE UNCHANGED out
      BY <2>4, <3>1
    <3>2. CASE Send(<<CatalogueOf("main", Revived)>>)
      <4>1. out \in Seq(Writes) /\ out' \in Seq(Writes) /\ Len(out') = Len(out) + 1
            /\ out'[Len(out) + 1] = CatalogueOf("main", Revived) /\ \A j \in 1 .. Len(out) : out'[j] = out[j]
        BY <2>3, <3>2, SentOne DEF WireOK
      <4>2. QED
        BY <2>1, <2>2, <2>3, <2>4, <4>1
    <3>3. QED
      BY <2>2, <3>1, <3>2
  <2>5. QED
    BY <2>1, <2>2, <2>4, MintedChanges
<1>6. CASE CloseSeals
  <2>1. Sealed \in Catalogues /\ \A q \in Paths : Sealed[q].id <= minted[q]
    BY SealedType DEF KnownOK, Old
  <2>2. CatalogueOf("main", Sealed) \in Writes /\ CatalogueOf("main", Sealed).cat = Sealed
        /\ DetailsOf("main", FALSE) \in Writes /\ DetailsOf("main", FALSE).kind = "details"
    BY <2>1, CatalogueType, DetailsType, ThreadsHave DEF CatalogueOf, DetailsOf
  <2>3. UNCHANGED <<minted, node, wpc, task>> /\ (Send(<<CatalogueOf("main", Sealed)>>) \/
       Send(<<DetailsOf("main", FALSE)>>))
    BY <1>6 DEF CloseSeals, writers, history
  <2>4. QED
    BY <2>1, <2>2, <2>3, MintedSent
<1>7. CASE CloseSealed
  <2>1. DetailsOf("main", FALSE) \in Writes /\ DetailsOf("main", FALSE).kind = "details"
    BY DetailsType, ThreadsHave DEF DetailsOf
  <2>2. Send(<<DetailsOf("main", FALSE)>>) /\ UNCHANGED <<minted, node, wpc, task>>
    BY <1>7 DEF CloseSealed, main, wire, again, known, writers, pending, drain, history, vars
  <2>3. QED
    BY <2>1, <2>2, MintedSent
<1>8. CASE CloseLeaves
  <2>1. out' = <<>> /\ UNCHANGED <<minted, node>> /\ \A w \in Writers : wpc'[w] = "idle"
    BY <1>8 DEF CloseLeaves, Lost, history
  <2>2. QED
    BY <2>1, MintedWire
<1>9. CASE Crash
  <2>1. out' = <<>> /\ UNCHANGED <<minted, node>> /\ \A w \in Writers : wpc'[w] = "idle"
    BY <1>9 DEF Crash, Lost, history
  <2>2. QED
    BY <2>1, MintedWire
<1>10. CASE OnOwnDetails
  <2>1. DetailsOf("none", TRUE) \in Writes /\ DetailsOf("none", TRUE).kind = "details"
    BY DetailsType, ThreadsHave DEF DetailsOf
  <2>2. UNCHANGED <<minted, node, wpc, task>> /\ (UNCHANGED out \/ Send(<<DetailsOf("none", TRUE)>>))
    BY <1>10 DEF OnOwnDetails, main, wire, again, known, writers, pending, drain, history, vars
  <2>3. CASE UNCHANGED out
    BY <2>2, <2>3, <1>1
  <2>4. QED
    BY <2>1, <2>2, <2>3, MintedSent
<1>11. CASE Reannounce
  <2>1. DetailsOf("none", TRUE) \in Writes /\ DetailsOf("none", TRUE).kind = "details"
    BY DetailsType, ThreadsHave DEF DetailsOf
  <2>2. Send(<<DetailsOf("none", TRUE)>>) /\ UNCHANGED <<minted, node, wpc, task>>
    BY <1>11 DEF Reannounce, main, wire, again, known, writers, pending, drain, history, vars
  <2>3. QED
    BY <2>1, <2>2, MintedSent
<1>12. CASE RetrySucceeds
  <2>1. DetailsOf("none", TRUE) \in Writes /\ DetailsOf("none", TRUE).kind = "details"
    BY DetailsType, ThreadsHave DEF DetailsOf
  <2>2. Send(<<DetailsOf("none", TRUE)>>) /\ UNCHANGED <<minted, node, wpc, task>>
    BY <1>12 DEF RetrySucceeds, main, wire, again, known, writers, pending, drain, history, vars
  <2>3. QED
    BY <2>1, <2>2, MintedSent
<1>13. ASSUME NEW w \in Writers, NEW p \in Paths, Declare(w, p) PROVE MintedOK'
  <2>1. Ensured(p) \in Catalogues /\ Minted(p) \in [Paths -> Nat]
        /\ \A q \in Paths : minted[q] <= Minted(p)[q] /\ Ensured(p)[q].id <= Minted(p)[q]
    BY EnsuredType
  <2>2. PICK k \in Nat, b \in BOOLEAN : Begin(w, TaskOf(p, k, b), Ensured(p))
    BY <1>13, DeclareBegins
  <2>3. task' = [task EXCEPT ![w] = [path |-> p, k |-> k, send |-> b, payload |-> Ensured(p)]]
        /\ wpc' = [wpc EXCEPT ![w] = wpc'[w]] /\ minted' = Minted(p) /\ UNCHANGED <<out, node>>
    BY <2>2, BeginsTask DEF wire
  <2>4. ASSUME NEW v \in Writers, wpc'[v] = "sendcat"
        PROVE  (wpc[v] = "sendcat" /\ task'[v] = task[v]) \/ \A q \in Paths : task'[v].payload[q].id <=
             minted'[q]
    BY <2>1, <2>3, <2>4 DEF WritersOK
  <2>5. QED
    BY <2>1, <2>3, <2>4, MintedChanges
<1>14. ASSUME NEW w \in Writers, NEW p \in Paths, PublishBound(w, p) PROVE MintedOK'
  <2>1. Ensured(p) \in Catalogues /\ Minted(p) \in [Paths -> Nat]
        /\ \A q \in Paths : minted[q] <= Minted(p)[q] /\ Ensured(p)[q].id <= Minted(p)[q]
    BY EnsuredType
  <2>2. PICK k \in Nat, b \in BOOLEAN : Begin(w, TaskOf(p, k, b), Ensured(p))
    BY <1>14, BoundBegins
  <2>3. task' = [task EXCEPT ![w] = [path |-> p, k |-> k, send |-> b, payload |-> Ensured(p)]]
        /\ wpc' = [wpc EXCEPT ![w] = wpc'[w]] /\ minted' = Minted(p) /\ UNCHANGED <<out, node>>
    BY <2>2, BeginsTask DEF wire
  <2>4. ASSUME NEW v \in Writers, wpc'[v] = "sendcat"
        PROVE  (wpc[v] = "sendcat" /\ task'[v] = task[v]) \/ \A q \in Paths : task'[v].payload[q].id <=
             minted'[q]
    BY <2>1, <2>3, <2>4 DEF WritersOK
  <2>5. QED
    BY <2>1, <2>3, <2>4, MintedChanges
<1>15. ASSUME NEW w \in Writers, NEW p \in Paths, PublishBuffered(w, p) PROVE MintedOK'
  <2>1. Ensured(p) \in Catalogues /\ Minted(p) \in [Paths -> Nat]
        /\ \A q \in Paths : minted[q] <= Minted(p)[q] /\ Ensured(p)[q].id <= Minted(p)[q]
    BY EnsuredType
  <2>2. PICK k \in Nat, b \in BOOLEAN : Begin(w, TaskOf(p, k, b), Ensured(p))
    BY <1>15, BufferedBegins
  <2>3. task' = [task EXCEPT ![w] = [path |-> p, k |-> k, send |-> b, payload |-> Ensured(p)]]
        /\ wpc' = [wpc EXCEPT ![w] = wpc'[w]] /\ minted' = Minted(p) /\ UNCHANGED <<out, node>>
    BY <2>2, BeginsTask DEF wire
  <2>4. ASSUME NEW v \in Writers, wpc'[v] = "sendcat"
        PROVE  (wpc[v] = "sendcat" /\ task'[v] = task[v]) \/ \A q \in Paths : task'[v].payload[q].id <=
             minted'[q]
    BY <2>1, <2>3, <2>4 DEF WritersOK
  <2>5. QED
    BY <2>1, <2>3, <2>4, MintedChanges
<1>16. ASSUME NEW w \in Writers, NEW p \in Paths, PublishRefused(w, p) PROVE MintedOK'
  <2>1. Ensured(p) \in Catalogues /\ Minted(p) \in [Paths -> Nat] /\ \A q \in Paths : minted[q] <=
       Minted(p)[q]
    BY EnsuredType
  <2>2. minted' = Minted(p) /\ UNCHANGED <<out, node, wpc, task>>
    BY <1>16 DEF PublishRefused, main, wire, again, known, writers, pending, drain, history, vars
  <2>3. QED
    BY <2>1, <2>2, MintedChanges
<1>17. ASSUME NEW w \in Writers, SendCatalogue(w) PROVE MintedOK'
  <2>1. task[w].payload \in Catalogues /\ \A p \in Paths : task[w].payload[p].id <= minted[p]
    BY <1>17 DEF SendCatalogue, WritersOK, MintedOK, Old
  <2>2. CatalogueOf(w, task[w].payload) \in Writes /\ CatalogueOf(w, task[w].payload).cat = task[w].payload
    BY <2>1, CatalogueType, ThreadsHave DEF CatalogueOf
  <2>3. UNCHANGED <<minted, node, task>> /\ Send(<<CatalogueOf(w, task[w].payload)>>) /\ wpc' = [wpc EXCEPT
       ![w] = "cat"]
    BY <1>17 DEF SendCatalogue, main, wire, again, known, writers, pending, drain, history, vars
  <2>4. \A v \in Writers : wpc'[v] = "sendcat" => wpc[v] = "sendcat" /\ task'[v] = task[v]
    BY <2>3 DEF WritersOK
  <2>5. QED
    BY <2>1, <2>2, <2>3, <2>4, MintedSent
<1>18. ASSUME NEW w \in Writers, CataloguePublished(w) PROVE MintedOK'
  <2>1. UNCHANGED <<minted, node, out>> /\ \A v \in Writers : wpc'[v] = "sendcat" => wpc[v] = "sendcat" /\
       task'[v] = task[v]
    BY <1>18 DEF CataloguePublished, WritersOK, main, wire, again, known, writers, pending, drain, history,
         vars
  <2>2. QED
    BY <2>1, MintedWire
<1>19. ASSUME NEW w \in Writers, SendSample(w) PROVE MintedOK'
  <2>1. MetricOf(w, task[w].path, task[w].k) \in Writes /\ MetricOf(w, task[w].path, task[w].k).kind =
       "metric"
    BY <1>19, MetricType, ThreadsHave DEF WritersOK, MetricOf
  <2>2. UNCHANGED <<minted, node, task>> /\ Send(<<MetricOf(w, task[w].path, task[w].k)>>) /\ wpc' = [wpc
       EXCEPT ![w] = "metric"]
    BY <1>19 DEF SendSample, main, wire, again, known, writers, pending, drain, history, vars
  <2>3. \A v \in Writers : wpc'[v] = "sendcat" => wpc[v] = "sendcat" /\ task'[v] = task[v]
    BY <2>2 DEF WritersOK
  <2>4. QED
    BY <2>1, <2>2, <2>3, MintedSent
<1>20. ASSUME NEW w \in Writers, Published(w) PROVE MintedOK'
  <2>1. UNCHANGED <<minted, node, out>> /\ \A v \in Writers : wpc'[v] = "sendcat" => wpc[v] = "sendcat" /\
       task'[v] = task[v]
    BY <1>20 DEF Published, WritersOK, main, wire, again, known, writers, pending, drain, history, vars
  <2>2. QED
    BY <2>1, MintedWire
<1>21. ASSUME NEW w \in Writers, PublishTimesOut(w) PROVE MintedOK'
  <2>1. UNCHANGED <<minted, node>> /\ Forget(w)
        /\ wpc' = [wpc EXCEPT ![w] = "idle"] /\ task' = [task EXCEPT ![w] = NoTask]
    BY <1>21 DEF PublishTimesOut, main, wire, again, known, writers, pending, drain, history, vars
  <2>2. \A v \in Writers : wpc'[v] = "sendcat" => wpc[v] = "sendcat" /\ task'[v] = task[v]
    BY <2>1 DEF WritersOK
  <2>3. QED
    BY <2>1, <2>2, MintedForgot
<1>22. CASE DrainPath
  <2>1. UNCHANGED <<minted, node, wpc, task>>
    BY <1>22 DEF DrainPath, main, wire, again, known, writers, pending, drain, history, vars
  <2>2. CASE UNCHANGED out
    BY <1>1, <2>1, <2>2
  <2>3. ASSUME NEW p \in dpaths, NEW s \in ById(rows[p]), Send([i \in DOMAIN s |-> MetricOf("drain", p,
       s[i])])
        PROVE  MintedOK'
    <3>1. p \in Paths /\ rows[p] \subseteq Nat
      BY DEF DrainOK, RowsOK
    <3> DEFINE ms == [i \in DOMAIN s |-> MetricOf("drain", p, s[i])]
    <3>2. ms \in Seq(Writes) /\ \A i \in DOMAIN ms : ms[i].kind = "metric"
      BY <3>1, ByIdType, RowsFinite, MetricType, ThreadsHave DEF MetricOf
    <3>3. \A i \in DOMAIN out' : (i \in DOMAIN out /\ out'[i] = out[i]) \/ out'[i].kind = "metric"
      <4> HIDE DEF ms
      <4>1. Send(ms)
        BY <2>3 DEF ms
      <4>2. out \in Seq(Writes)
        BY DEF WireOK
      <4>3. QED
        BY <3>2, <4>1, <4>2, SentList
    <3>4. QED
      BY <2>1, <3>3, MintedWire
  <2>4. QED
    BY <1>22, <2>2, <2>3 DEF DrainPath
<1>23. CASE DrainFails
  <2>1. UNCHANGED <<minted, node, wpc, task>> /\ Forget("drain")
    BY <1>23 DEF DrainFails, main, wire, again, known, writers, pending, drain, history, vars
  <2>2. QED
    BY <2>1, MintedForgot
<1>24. CASE Broker
  <2>1. out \in Seq(Writes) /\ out # <<>> /\ out' = Tail(out) /\ UNCHANGED <<minted, wpc, task>>
    BY <1>24 DEF Broker, WireOK, main, wire, again, known, writers, pending, drain, history, vars
  <2>2. \A i \in DOMAIN out' : out'[i] = out[i + 1] /\ i + 1 \in DOMAIN out
    BY <2>1
  <2>3. node'.cat = node.cat \/ \A p \in Paths : node'.cat[p].id <= minted[p]
    <3>1. Head(out).kind = "cat" => Old(Head(out).cat)
      BY <2>1 DEF MintedOK
    <3>2. Head(out).kind = "cat" => node' = [node EXCEPT !.cat = Head(out).cat]
      BY <1>24 DEF Broker
    <3>3. Head(out).kind # "cat" => node'.cat = node.cat
      BY <1>24, BrokerKeepsCat
    <3>4. QED
      BY <3>1, <3>2, <3>3 DEF Old, NodeOK
  <2>4. QED
    BY <2>1, <2>2, <2>3, MintedWire
<1>25. CASE NodeBinds
  <2>1. UNCHANGED <<minted, out, wpc, task>> /\ node'.cat = node.cat
    BY <1>25 DEF NodeBinds, Tell, NodeOK, main, wire, again, known, writers, pending, drain, history, vars
  <2>2. QED
    BY <2>1, MintedWire
<1>26. CASE NodeChanges
  <2>1. UNCHANGED <<minted, out, wpc, task>> /\ node'.cat = node.cat
    BY <1>26 DEF NodeChanges, Tell, NodeOK, main, wire, again, known, writers, pending, drain, history, vars
  <2>2. QED
    BY <2>1, MintedWire
<1>27. CASE Will
  <2>1. UNCHANGED <<minted, out, wpc, task>> /\ node'.cat = node.cat
    BY <1>27 DEF Will, Tell, NodeOK, main, wire, again, known, writers, pending, drain, history, vars
  <2>2. QED
    BY <2>1, MintedWire
<1>28. QED
  BY NextCases, <1>1, <1>2, <1>3, <1>4, <1>5, <1>6, <1>7, <1>8, <1>9, <1>10, <1>11, <1>12, <1>13, <1>14,
       <1>15, <1>16, <1>17, <1>18, <1>19, <1>20, <1>21, <1>22, <1>23, <1>24, <1>25, <1>26, <1>27

LEMMA TasksNone ==
  ASSUME ServiceAssumption
  PROVE  NoTask \in [path : Paths, k : Nat, send : BOOLEAN, payload : Catalogues \cup {<<>>}]
BY DEF NoTask, TaskOf, ServiceAssumption

\* The calls of publish() and declare().
LEMMA WritersKept ==
  ASSUME KnownOK, WritersOK, RowsOK, ServiceAssumption, [Next]_vars
  PROVE  WritersOK'
<1>1. ASSUME UNCHANGED <<mpc, wpc, task>> PROVE WritersOK'
  BY <1>1 DEF WritersOK
<1>2. CASE UNCHANGED vars
  BY <1>2, <1>1 DEF main, wire, again, known, writers, pending, drain, history, vars
<1>3. CASE ReadAck \/ OnSignal \/ OnOwnDetails \/ OnConnect \/ Reannounce \/ ReannounceFails \/
     RetryReannounce \/ RetrySucceeds \/ DrainLooks \/ DrainEnds \/ DrainPath \/ DrainAcks \/ DrainFails \/
     Broker \/ NodeBinds \/ NodeChanges \/ Will \/ LinkDrops \/ LinkReturns
  BY <1>3, <1>1 DEF ReadAck, OnSignal, OnOwnDetails, OnConnect, Reannounce, ReannounceFails, RetryReannounce,
       RetrySucceeds, DrainLooks, DrainEnds, DrainPath, DrainAcks, DrainFails, Broker, NodeBinds, NodeChanges,
       Will, LinkDrops, LinkReturns, main, wire, again, known, writers, pending, drain, history, vars
<1>4. ASSUME NEW w \in Writers, NEW p \in Paths, PublishRefused(w, p) PROVE WritersOK'
  BY <1>4, <1>1 DEF PublishRefused, main, wire, again, known, writers, pending, drain, history, vars
<1>5. CASE Start
  <2>1. UNCHANGED <<wpc, task>> /\ (mpc \in {"down", "announce", "catalogue"} \/ mpc' \in {"stopping",
       "sealing", "leaving"})
    BY <1>5 DEF Start, main, wire, again, known, writers, pending, drain, history, vars
  <2>2. QED
    BY <2>1 DEF WritersOK
<1>6. CASE Announced
  <2>1. UNCHANGED <<wpc, task>> /\ (mpc \in {"down", "announce", "catalogue"} \/ mpc' \in {"stopping",
       "sealing", "leaving"})
    BY <1>6 DEF Announced, main, wire, again, known, writers, pending, drain, history, vars
  <2>2. QED
    BY <2>1 DEF WritersOK
<1>7. CASE Started
  <2>1. UNCHANGED <<wpc, task>> /\ (mpc \in {"down", "announce", "catalogue"} \/ mpc' \in {"stopping",
       "sealing", "leaving"})
    BY <1>7 DEF Started, main, wire, again, known, writers, pending, drain, history, vars
  <2>2. QED
    BY <2>1 DEF WritersOK
<1>8. CASE Close
  <2>1. UNCHANGED <<wpc, task>> /\ (mpc \in {"down", "announce", "catalogue"} \/ mpc' \in {"stopping",
       "sealing", "leaving"})
    BY <1>8 DEF Close, main, wire, again, known, writers, pending, drain, history, vars
  <2>2. QED
    BY <2>1 DEF WritersOK
<1>9. CASE CloseSeals
  <2>1. UNCHANGED <<wpc, task>> /\ (mpc \in {"down", "announce", "catalogue"} \/ mpc' \in {"stopping",
       "sealing", "leaving"})
    BY <1>9 DEF CloseSeals, main, wire, again, known, writers, pending, drain, history, vars
  <2>2. QED
    BY <2>1 DEF WritersOK
<1>10. CASE CloseSealed
  <2>1. UNCHANGED <<wpc, task>> /\ (mpc \in {"down", "announce", "catalogue"} \/ mpc' \in {"stopping",
       "sealing", "leaving"})
    BY <1>10 DEF CloseSealed, main, wire, again, known, writers, pending, drain, history, vars
  <2>2. QED
    BY <2>1 DEF WritersOK
<1>11. CASE CloseLeaves
  <2>1. wpc' = [w \in Writers |-> "idle"] /\ task' = [w \in Writers |-> NoTask]
    BY <1>11 DEF CloseLeaves, Lost
  <2>2. NoTask \in [path : Paths, k : Nat, send : BOOLEAN, payload : Catalogues \cup {<<>>}]
    BY <1>11, LostTypes DEF CloseLeaves
  <2>3. QED
    BY <2>1, <2>2 DEF WritersOK
<1>12. CASE Crash
  <2>1. wpc' = [w \in Writers |-> "idle"] /\ task' = [w \in Writers |-> NoTask]
    BY <1>12 DEF Crash, Lost
  <2>2. NoTask \in [path : Paths, k : Nat, send : BOOLEAN, payload : Catalogues \cup {<<>>}]
    BY <1>12, LostTypes DEF Crash
  <2>3. QED
    BY <2>1, <2>2 DEF WritersOK
<1>13. ASSUME NEW w \in Writers, NEW p \in Paths, Declare(w, p) PROVE WritersOK'
  <2>1. Ensured(p) \in Catalogues
    BY EnsuredType
  <2>2. PICK k \in Nat, b \in BOOLEAN : Begin(w, TaskOf(p, k, b), Ensured(p))
    BY <1>13, DeclareBegins
  <2>3. task' = [task EXCEPT ![w] = [path |-> p, k |-> k, send |-> b, payload |-> Ensured(p)]]
        /\ wpc' = [wpc EXCEPT ![w] = wpc'[w]] /\ wpc'[w] \in {"sendcat", "sendmetric"} /\ mpc' = mpc
    BY <2>2, BeginsTask DEF main
  <2>4. mpc = "ready"
    BY <1>13, DeclareBegins DEF Writing
  <2>5. QED
    BY <2>1, <2>3, <2>4 DEF WritersOK
<1>14. ASSUME NEW w \in Writers, NEW p \in Paths, PublishBound(w, p) PROVE WritersOK'
  <2>1. Ensured(p) \in Catalogues
    BY EnsuredType
  <2>2. PICK k \in Nat, b \in BOOLEAN : Begin(w, TaskOf(p, k, b), Ensured(p))
    BY <1>14, BoundBegins
  <2>3. task' = [task EXCEPT ![w] = [path |-> p, k |-> k, send |-> b, payload |-> Ensured(p)]]
        /\ wpc' = [wpc EXCEPT ![w] = wpc'[w]] /\ wpc'[w] \in {"sendcat", "sendmetric"} /\ mpc' = mpc
    BY <2>2, BeginsTask DEF main
  <2>4. mpc = "ready"
    BY <1>14, BoundBegins DEF Writing
  <2>5. QED
    BY <2>1, <2>3, <2>4 DEF WritersOK
<1>15. ASSUME NEW w \in Writers, NEW p \in Paths, PublishBuffered(w, p) PROVE WritersOK'
  <2>1. Ensured(p) \in Catalogues
    BY EnsuredType
  <2>2. PICK k \in Nat, b \in BOOLEAN : Begin(w, TaskOf(p, k, b), Ensured(p))
    BY <1>15, BufferedBegins
  <2>3. task' = [task EXCEPT ![w] = [path |-> p, k |-> k, send |-> b, payload |-> Ensured(p)]]
        /\ wpc' = [wpc EXCEPT ![w] = wpc'[w]] /\ wpc'[w] \in {"sendcat", "sendmetric"} /\ mpc' = mpc
    BY <2>2, BeginsTask DEF main
  <2>4. mpc = "ready"
    BY <1>15, BufferedBegins DEF Writing
  <2>5. QED
    BY <2>1, <2>3, <2>4 DEF WritersOK
<1>16. ASSUME NEW w \in Writers, SendCatalogue(w) PROVE WritersOK'
  <2>1. wpc' = [wpc EXCEPT ![w] = "cat"] /\ UNCHANGED <<mpc, task>> /\ wpc[w] # "idle"
    BY <1>16 DEF SendCatalogue, main, wire, again, known, writers, pending, drain, history, vars
  <2>2. QED
    BY <2>1 DEF WritersOK
<1>17. ASSUME NEW w \in Writers, CataloguePublished(w) PROVE WritersOK'
  <2>1. wpc' = [wpc EXCEPT ![w] = "sendmetric"] /\ UNCHANGED <<mpc, task>> /\ wpc[w] # "idle"
    BY <1>17 DEF CataloguePublished, main, wire, again, known, writers, pending, drain, history, vars
  <2>2. QED
    BY <2>1 DEF WritersOK
<1>18. ASSUME NEW w \in Writers, SendSample(w) PROVE WritersOK'
  <2>1. wpc' = [wpc EXCEPT ![w] = "metric"] /\ UNCHANGED <<mpc, task>> /\ wpc[w] # "idle" /\ task[w].send
    BY <1>18 DEF SendSample, main, wire, again, known, writers, pending, drain, history, vars
  <2>2. QED
    BY <2>1 DEF WritersOK
<1>19. ASSUME NEW w \in Writers, Published(w) PROVE WritersOK'
  <2>1. wpc' = [wpc EXCEPT ![w] = "idle"] /\ task' = [task EXCEPT ![w] = NoTask] /\ mpc' = mpc
    BY <1>19 DEF Published, main, wire, again, known, writers, pending, drain, history, vars
  <2>2. NoTask \in [path : Paths, k : Nat, send : BOOLEAN, payload : Catalogues \cup {<<>>}]
    BY TasksNone
  <2>3. QED
    BY <2>1, <2>2 DEF WritersOK
<1>20. ASSUME NEW w \in Writers, PublishTimesOut(w) PROVE WritersOK'
  <2>1. wpc' = [wpc EXCEPT ![w] = "idle"] /\ task' = [task EXCEPT ![w] = NoTask] /\ mpc' = mpc
    BY <1>20 DEF PublishTimesOut, main, wire, again, known, writers, pending, drain, history, vars
  <2>2. NoTask \in [path : Paths, k : Nat, send : BOOLEAN, payload : Catalogues \cup {<<>>}]
    BY TasksNone
  <2>3. QED
    BY <2>1, <2>2 DEF WritersOK
<1>21. QED
  BY NextCases, <1>1, <1>2, <1>3, <1>4, <1>5, <1>6, <1>7, <1>8, <1>9, <1>10, <1>11, <1>12, <1>13, <1>14,
       <1>15, <1>16, <1>17, <1>18, <1>19, <1>20

\* What waits on disk.
LEMMA RowsKept ==
  ASSUME KnownOK, WritersOK, RowsOK, DrainOK, ServiceAssumption, [Next]_vars
  PROVE  RowsOK'
<1>1. ASSUME UNCHANGED <<made, rows, sources, mpc>> PROVE RowsOK'
  BY <1>1 DEF RowsOK
<1>2. CASE UNCHANGED vars
  BY <1>2, <1>1 DEF main, wire, again, known, writers, pending, drain, history, vars
<1>3. CASE ReadAck \/ OnSignal \/ OnOwnDetails \/ OnConnect \/ Reannounce \/ ReannounceFails \/
     RetryReannounce \/ RetrySucceeds \/ DrainLooks \/ DrainEnds \/ DrainPath \/ DrainFails \/ Broker \/
     NodeBinds \/ NodeChanges \/ Will \/ LinkDrops \/ LinkReturns
  BY <1>3, <1>1 DEF ReadAck, OnSignal, OnOwnDetails, OnConnect, Reannounce, ReannounceFails, RetryReannounce,
       RetrySucceeds, DrainLooks, DrainEnds, DrainPath, DrainFails, Broker, NodeBinds, NodeChanges, Will,
       LinkDrops, LinkReturns, main, wire, again, known, writers, pending, drain, history, vars
<1>4. ASSUME NEW w \in Writers, SendCatalogue(w) \/ CataloguePublished(w) \/ SendSample(w) \/ Published(w) \/
     PublishTimesOut(w) PROVE RowsOK'
  BY <1>4, <1>1 DEF SendCatalogue, CataloguePublished, SendSample, Published, PublishTimesOut, main, wire,
       again, known, writers, pending, drain, history, vars
<1>5. ASSUME NEW w \in Writers, NEW p \in Paths, Declare(w, p) \/ PublishRefused(w, p) PROVE RowsOK'
  BY <1>5, <1>1 DEF Declare, PublishRefused, Begin, main, wire, again, known, writers, pending, drain,
       history, vars
<1>6. CASE Start
  <2>1. UNCHANGED <<made, rows, sources>>
        /\ \/ mpc = "down" /\ mpc' = "announce"
           \/ {mpc, mpc'} \cap {"down", "announce", "closed"} = {}
    BY <1>6 DEF Start, main, wire, again, known, writers, pending, drain, history, vars
  <2>2. QED
    BY <2>1 DEF RowsOK
<1>7. CASE Announced
  <2>1. UNCHANGED <<made, rows>> /\ sources' = {p \in Paths : rows[p] # {}} /\ mpc' \in {"ready", "catalogue"}
    BY <1>7, AnnouncedChange
  <2>2. QED
    BY <2>1 DEF RowsOK
<1>8. CASE Started
  <2>1. UNCHANGED <<made, rows, sources>>
        /\ \/ mpc = "down" /\ mpc' = "announce"
           \/ {mpc, mpc'} \cap {"down", "announce", "closed"} = {}
    BY <1>8 DEF Started, main, wire, again, known, writers, pending, drain, history, vars
  <2>2. QED
    BY <2>1 DEF RowsOK
<1>9. CASE Close
  <2>1. UNCHANGED <<made, rows, sources>>
        /\ \/ mpc = "down" /\ mpc' = "announce"
           \/ {mpc, mpc'} \cap {"down", "announce", "closed"} = {}
    BY <1>9 DEF Close, main, wire, again, known, writers, pending, drain, history, vars
  <2>2. QED
    BY <2>1 DEF RowsOK
<1>10. CASE CloseSeals
  <2>1. UNCHANGED <<made, rows, sources>>
        /\ \/ mpc = "down" /\ mpc' = "announce"
           \/ {mpc, mpc'} \cap {"down", "announce", "closed"} = {}
    BY <1>10 DEF CloseSeals, main, wire, again, known, writers, pending, drain, history, vars
  <2>2. QED
    BY <2>1 DEF RowsOK
<1>11. CASE CloseSealed
  <2>1. UNCHANGED <<made, rows, sources>>
        /\ \/ mpc = "down" /\ mpc' = "announce"
           \/ {mpc, mpc'} \cap {"down", "announce", "closed"} = {}
    BY <1>11 DEF CloseSealed, main, wire, again, known, writers, pending, drain, history, vars
  <2>2. QED
    BY <2>1 DEF RowsOK
<1>12. CASE CloseLeaves
  <2>1. UNCHANGED <<made, rows>> /\ sources' = {} /\ mpc' \in {"down", "closed"}
    BY <1>12 DEF CloseLeaves, Lost, history
  <2>2. QED
    BY <2>1 DEF RowsOK
<1>13. CASE Crash
  <2>1. UNCHANGED <<made, rows>> /\ sources' = {} /\ mpc' \in {"down", "closed"}
    BY <1>13 DEF Crash, Lost, history
  <2>2. QED
    BY <2>1 DEF RowsOK
<1>14. ASSUME NEW w \in Writers, NEW p \in Paths, PublishBound(w, p) PROVE RowsOK'
  <2>1. made' = [made EXCEPT ![p] = @ + 1] /\ UNCHANGED <<rows, sources, mpc>>
    BY <1>14, BoundBegins DEF pending, Begin, main
  <2>2. QED
    BY <2>1 DEF RowsOK
<1>15. ASSUME NEW w \in Writers, NEW p \in Paths, PublishBuffered(w, p) PROVE RowsOK'
  <2>1. made' = [made EXCEPT ![p] = @ + 1] /\ rows' = [rows EXCEPT ![p] = @ \cup {made[p] + 1}]
        /\ sources' = sources \cup {p} /\ mpc = "ready" /\ mpc' = mpc
    BY <1>15, BufferedBegins DEF Begin, main, Writing
  <2>2. QED
    BY <2>1 DEF RowsOK
<1>16. CASE DrainAcks
  <2>1. rows' = [rows EXCEPT ![dpath] = @ \ dpage] /\ UNCHANGED <<made, mpc>> /\ dpath \in Paths
        /\ sources' = IF rows[dpath] \ dpage = {} THEN sources \ {dpath} ELSE sources
    BY <1>16 DEF DrainAcks, RowsOK, DrainOK, main, wire, again, known, writers, pending, drain, history, vars
  <2>2. QED
    BY <2>1 DEF RowsOK
<1>17. QED
  BY NextCases, <1>1, <1>2, <1>3, <1>4, <1>5, <1>6, <1>7, <1>8, <1>9, <1>10, <1>11, <1>12, <1>13, <1>14,
       <1>15, <1>16

\* The thread that publishes what waits.
LEMMA DrainKept ==
  ASSUME MainOK, KnownOK, WritersOK, RowsOK, DrainOK, ServiceAssumption, [Next]_vars
  PROVE  DrainOK'
<1>1. ASSUME UNCHANGED <<dpc, dpaths, dpath, dpage, sources, rows>> PROVE DrainOK'
  BY <1>1 DEF DrainOK
<1>2. CASE UNCHANGED vars
  BY <1>2, <1>1 DEF main, wire, again, known, writers, pending, drain, history, vars
<1>3. CASE Start \/ Started \/ Close \/ CloseSealed \/ ReadAck \/ OnSignal \/ OnOwnDetails \/ OnConnect \/
     Reannounce \/ ReannounceFails \/ RetryReannounce \/ RetrySucceeds \/ Broker \/ NodeBinds \/ NodeChanges
     \/ Will \/ LinkDrops \/ LinkReturns
  BY <1>3, <1>1 DEF Start, Started, Close, CloseSealed, ReadAck, OnSignal, OnOwnDetails, OnConnect,
       Reannounce, ReannounceFails, RetryReannounce, RetrySucceeds, Broker, NodeBinds, NodeChanges, Will,
       LinkDrops, LinkReturns, main, wire, again, known, writers, pending, drain, history, vars
<1>4. ASSUME NEW w \in Writers, SendCatalogue(w) \/ CataloguePublished(w) \/ SendSample(w) \/ Published(w) \/
     PublishTimesOut(w) PROVE DrainOK'
  BY <1>4, <1>1 DEF SendCatalogue, CataloguePublished, SendSample, Published, PublishTimesOut, main, wire,
       again, known, writers, pending, drain, history, vars
<1>5. ASSUME NEW w \in Writers, NEW p \in Paths, Declare(w, p) \/ PublishBound(w, p) \/ PublishRefused(w, p)
     PROVE DrainOK'
  BY <1>5, <1>1 DEF Declare, PublishBound, PublishRefused, Begin, Sample, main, wire, again, known, writers,
       pending, drain, history, vars
<1>6. CASE Announced
  <2>1. dpc' \in {"off", "look"} /\ UNCHANGED <<dpath, dpaths>> /\ dpaths = {}
    BY <1>6, AnnouncedChange DEF RowsOK, DrainOK
  <2>2. QED
    BY <1>6, <2>1, AnnouncedChange DEF DrainOK, RowsOK
<1>7. CASE CloseSeals
  BY <1>7 DEF CloseSeals, DrainOK, main, wire, again, known, writers, pending, drain, history, vars
<1>8. CASE CloseLeaves
  BY <1>8, LostTypes DEF CloseLeaves, Lost, DrainOK
<1>9. CASE Crash
  BY <1>9, LostTypes DEF Crash, Lost, DrainOK
<1>10. ASSUME NEW w \in Writers, NEW p \in Paths, PublishBuffered(w, p) PROVE DrainOK'
  <2>1. rows' = [rows EXCEPT ![p] = @ \cup {made[p] + 1}] /\ sources' = sources \cup {p}
        /\ dpc' = (IF dpc = "off" THEN "look" ELSE dpc) /\ UNCHANGED <<dpaths, dpath, dpage>>
    BY <1>10, BufferedBegins
  <2>2. QED
    BY <2>1 DEF DrainOK, RowsOK
<1>11. CASE DrainLooks
  BY <1>11 DEF DrainLooks, DrainOK, main, wire, again, known, writers, pending, drain, history, vars
<1>12. CASE DrainEnds
  BY <1>12 DEF DrainEnds, DrainOK, main, wire, again, known, writers, pending, drain, history, vars
<1>13. CASE DrainPath
  <2>1. PICK p \in dpaths :
            /\ dpaths' = dpaths \ {p}
            /\ (UNCHANGED <<dpc, dpath, dpage>> /\ dpc = "path") \/ (dpath' = p /\ dpc' = "settle" /\ dpage' =
                 rows[p])
    BY <1>13 DEF DrainPath, drain
  <2>2. UNCHANGED <<sources, rows>> /\ p \in Paths /\ rows[p] # {}
    BY <1>13 DEF DrainPath, DrainOK, RowsOK, main, wire, again, known, writers, pending, drain, history, vars
  <2>3. QED
    BY <2>1, <2>2 DEF DrainOK
<1>14. CASE DrainAcks
  <2>1. dpc' = "path" /\ dpc = "settle" /\ UNCHANGED <<dpaths, dpath>> /\ sources \ {dpath} \subseteq sources'
    BY <1>14 DEF DrainAcks, drain
  <2>2. QED
    BY <2>1 DEF DrainOK
<1>15. CASE DrainFails
  BY <1>15 DEF DrainFails, DrainOK, main, wire, again, known, writers, pending, drain, history, vars
<1>16. QED
  BY NextCases, <1>1, <1>2, <1>3, <1>4, <1>5, <1>6, <1>7, <1>8, <1>9, <1>10, <1>11, <1>12, <1>13, <1>14, <1>15

\* What the node keeps, and the history.
LEMMA NodeKept ==
  ASSUME WireOK, KnownOK, WritersOK, RowsOK, DrainOK, NodeOK, ServiceAssumption, [Next]_vars
  PROVE  NodeOK'
<1>1. ASSUME UNCHANGED <<node, accepted, dropped, held>> PROVE NodeOK'
  BY <1>1 DEF NodeOK
<1>2. CASE UNCHANGED vars
  BY <1>2, <1>1 DEF main, wire, again, known, writers, pending, drain, history, vars
<1>3. CASE Start \/ Announced \/ Started \/ Close \/ CloseSeals \/ CloseSealed \/ CloseLeaves \/ Crash \/
     ReadAck \/ OnSignal \/ OnOwnDetails \/ OnConnect \/ Reannounce \/ ReannounceFails \/ RetryReannounce \/
     RetrySucceeds \/ DrainLooks \/ DrainEnds \/ DrainAcks \/ DrainFails \/ LinkDrops \/ LinkReturns
  BY <1>3, <1>1 DEF Start, Announced, Started, Close, CloseSeals, CloseSealed, CloseLeaves, Crash, ReadAck,
       OnSignal, OnOwnDetails, OnConnect, Reannounce, ReannounceFails, RetryReannounce, RetrySucceeds,
       DrainLooks, DrainEnds, DrainAcks, DrainFails, LinkDrops, LinkReturns, Lost, main, wire, again, known,
       writers, pending, drain, history, vars
<1>4. ASSUME NEW w \in Writers, SendCatalogue(w) \/ CataloguePublished(w) \/ SendSample(w) \/
     PublishTimesOut(w) PROVE NodeOK'
  BY <1>4, <1>1 DEF SendCatalogue, CataloguePublished, SendSample, PublishTimesOut, main, wire, again, known,
       writers, pending, drain, history, vars
<1>5. ASSUME NEW w \in Writers, NEW p \in Paths, Declare(w, p) \/ PublishBuffered(w, p) \/ PublishRefused(w,
     p) PROVE NodeOK'
  BY <1>5, <1>1 DEF Declare, PublishBuffered, PublishRefused, Begin, Sample, main, wire, again, known,
       writers, pending, drain, history, vars
<1>6. ASSUME NEW w \in Writers, NEW p \in Paths, PublishBound(w, p) PROVE NodeOK'
  <2>1. dropped' \in {dropped, dropped \cup {<<p, made[p] + 1>>}} /\ made[p] + 1 \in Nat /\ UNCHANGED <<node,
       accepted, held>>
    BY <1>6, BoundBegins DEF Begin
  <2>2. QED
    BY <2>1 DEF NodeOK
<1>7. ASSUME NEW w \in Writers, Published(w) PROVE NodeOK'
  <2>1. accepted' \in {accepted, accepted \cup {<<task[w].path, task[w].k>>}} /\ UNCHANGED <<node, dropped,
       held>>
    BY <1>7 DEF Published, main, wire, again, known, writers, pending, drain, history, vars
  <2>2. task[w].path \in Paths /\ task[w].k \in Nat
    BY DEF WritersOK
  <2>3. QED
    BY <2>1, <2>2 DEF NodeOK
<1>8. CASE DrainPath
  <2>1. PICK p \in dpaths : UNCHANGED dropped \/ dropped' = dropped \cup {<<p, k>> : k \in rows[p]}
    BY <1>8 DEF DrainPath
  <2>2. p \in Paths /\ rows[p] \subseteq Nat /\ UNCHANGED <<node, accepted, held>>
    BY <1>8 DEF DrainPath, DrainOK, RowsOK, main, wire, again, known, writers, pending, drain, history, vars
  <2>3. QED
    BY <2>1, <2>2 DEF NodeOK
<1>9. CASE Broker
  <2>1. Head(out) \in Writes /\ UNCHANGED <<accepted, dropped>>
    BY <1>9 DEF Broker, WireOK
  <2>2. node' \in [cat : Catalogues, sig : [Paths -> Signals], got : [Paths -> Seq(Nat)], active : BOOLEAN]
    <3>1. CASE Head(out).kind = "cat"
      BY <1>9, <2>1, <3>1, WriteKinds, BrokerTakes DEF NodeOK
    <3>2. CASE Head(out).kind = "details"
      BY <1>9, <2>1, <3>2, WriteKinds, BrokerTakes DEF NodeOK
    <3>3. CASE Head(out).kind = "metric"
      <4>1. node' = [node EXCEPT !.got[Head(out).path] = Append(@, Head(out).k)]
        BY <1>9, <3>3, BrokerTakes
      <4>2. Head(out).path \in Paths /\ Head(out).k \in Nat
        BY <2>1, <3>3, WriteKinds
      <4>3. [node.got EXCEPT ![Head(out).path] = Append(@, Head(out).k)] \in [Paths -> Seq(Nat)]
        BY <4>2 DEF NodeOK
      <4>4. QED
        BY <4>1, <4>3 DEF NodeOK
    <3>4. QED
      BY <2>1, <3>1, <3>2, <3>3, WriteKinds
  <2>3. held' \subseteq Paths \X Nat
    <3>1. CASE Head(out).kind = "cat"
      <4>1. Head(out).cat \in Catalogues
        BY <2>1, <3>1, WriteKinds
      <4>2. held' = held \cup {<<p, Head(out).cat[p].id>> : p \in {q \in Paths : Head(out).cat[q].id # 0}}
        BY <1>9, <3>1 DEF Broker
      <4>3. QED
        BY <4>1, <4>2 DEF NodeOK, Catalogues, Tags
    <3>2. CASE Head(out).kind # "cat"
      BY <1>9, <3>2 DEF Broker, NodeOK
    <3>3. QED
      BY <3>1, <3>2
  <2>4. QED
    BY <2>1, <2>2, <2>3 DEF NodeOK
<1>10. CASE NodeBinds
  <2>1. PICK p \in Paths : node' = [node EXCEPT !.sig[p] = [id |-> node.cat[p].id, on |-> TRUE]]
    BY <1>10 DEF NodeBinds, Tell
  <2>2. [id |-> node.cat[p].id, on |-> TRUE] \in Signals
    BY DEF NodeOK, Signals, Catalogues, Tags
  <2>3. QED
    BY <1>10, <2>1, <2>2 DEF NodeBinds, NodeOK, main, wire, again, known, writers, pending, drain, history,
         vars
<1>11. CASE NodeChanges
  <2>1. PICK p \in Paths : \E s \in {[node.sig[p] EXCEPT !.on = FALSE], Unbound} : node' = [node EXCEPT
       !.sig[p] = s]
    BY <1>11 DEF NodeChanges, Tell
  <2>2. node.sig[p] \in Signals
    BY DEF NodeOK
  <2>3. [node.sig[p] EXCEPT !.on = FALSE] \in Signals /\ Unbound \in Signals
    BY <2>2 DEF Signals, Unbound
  <2>4. PICK s \in Signals : node' = [node EXCEPT !.sig[p] = s]
    BY <2>1, <2>3
  <2>5. UNCHANGED <<accepted, dropped, held>>
    BY <1>11 DEF NodeChanges, history
  <2>6. QED
    BY <2>4, <2>5 DEF NodeOK
<1>12. CASE Will
  <2>1. node' = [node EXCEPT !.active = FALSE] /\ UNCHANGED <<accepted, dropped, held>>
    BY <1>12 DEF Will, history
  <2>2. QED
    BY <2>1 DEF NodeOK
<1>13. QED
  BY NextCases, <1>1, <1>2, <1>3, <1>4, <1>5, <1>6, <1>7, <1>8, <1>9, <1>10, <1>11, <1>12

\* A step keeps the type invariant.
LEMMA TypeNext ==
  ASSUME ServiceAssumption, TypeOK, [Next]_vars
  PROVE  TypeOK'
<1>1. MainOK /\ WireOK /\ KnownOK /\ MintedOK /\ WritersOK /\ RowsOK /\ DrainOK /\ NodeOK
  BY DEF TypeOK
<1>2. MainOK' /\ WireOK'
  BY <1>1, MainKept, WireKept
<1>3. KnownOK' /\ MintedOK'
  BY <1>1, KnownKept, MintedKept
<1>4. WritersOK' /\ RowsOK'
  BY <1>1, WritersKept, RowsKept
<1>5. DrainOK' /\ NodeOK'
  BY <1>1, DrainKept, NodeKept
<1>6. QED
  BY <1>2, <1>3, <1>4, <1>5 DEF TypeOK

\* Every variable has its type, no tag id is used that was not minted, the paths that
\* count as pending are those with rows, and a page that waits for its confirmation is
\* still on disk: for any paths and writers, and any number of samples and upsets.
THEOREM TypeCorrect == Spec => []TypeOK
<1>1. Init => TypeOK
  BY TypeInit, ServiceAssumption
<1>2. TypeOK /\ [Next]_vars => TypeOK'
  BY TypeNext, ServiceAssumption
<1>3. QED
  BY <1>1, <1>2, PTL DEF Spec

-----------------------------------------------------------------------------
(* An accepted sample is kept *)

SentAs(m) == \E i \in DOMAIN out : out[i] = m

\* A sample thread t published is at the node, or on its way there.
At(t, p, k) == k \in Range(node.got[p]) \/ SentAs(MetricOf(t, p, k))

\* A sample that left the caller's hands is kept.
TasksKept ==
    \A w \in Writers : task[w].k # 0 =>
        /\ ~task[w].send => Kept(task[w].path, task[w].k)
        /\ wpc[w] = "metric" => At(w, task[w].path, task[w].k)

\* So are the rows of a page that waits for its confirmation.
PageKept == dpc = "settle" => \A k \in dpage : At("drain", dpath, k) \/ <<dpath, k>> \in dropped

KeptInv == AcceptedKept /\ TasksKept /\ PageKept

\* What a step does to the writes on their way.
WireStep ==
    \/ UNCHANGED out /\ node'.got = node.got
    \/ \E m \in Writes : Send(<<m>>) /\ m.kind # "metric" /\ node' = node
    \/ \E w \in Writers : SendSample(w)
    \/ /\ dpc = "path" /\ node' = node
       /\ \E p \in dpaths : \E s \in ById(rows[p]) : Send([i \in DOMAIN s |-> MetricOf("drain", p, s[i])])
    \/ Broker
    \/ out' = <<>> /\ ~Subscribed' /\ node' = node
    \/ \E w \in Writers : Forget(w) /\ wpc'[w] = "idle" /\ node' = node
    \/ Forget("drain") /\ dpc' # "settle" /\ node' = node

\* Every step is one of these.
LEMMA WireSteps ==
  ASSUME TypeOK, ServiceAssumption, [Next]_vars
  PROVE  WireStep
<1> MainOK /\ WireOK /\ KnownOK /\ WritersOK /\ RowsOK /\ DrainOK /\ NodeOK
  BY DEF TypeOK
<1>1. ASSUME UNCHANGED <<node, out>> PROVE WireStep
  BY <1>1 DEF WireStep
<1>2. CASE UNCHANGED vars
  BY <1>2, <1>1 DEF main, wire, again, known, writers, pending, drain, history, vars
<1>3. CASE Started \/ Close \/ ReadAck \/ OnSignal \/ OnConnect \/ ReannounceFails \/ RetryReannounce \/
     DrainLooks \/ DrainEnds \/ DrainAcks \/ LinkDrops \/ LinkReturns
  BY <1>3, <1>1 DEF Started, Close, ReadAck, OnSignal, OnConnect, ReannounceFails, RetryReannounce,
       DrainLooks, DrainEnds, DrainAcks, LinkDrops, LinkReturns, main, wire, again, known, writers, pending,
       drain, history, vars
<1>4. ASSUME NEW w \in Writers, CataloguePublished(w) \/ Published(w) PROVE WireStep
  BY <1>4, <1>1 DEF CataloguePublished, Published, main, wire, again, known, writers, pending, drain, history,
       vars
<1>5. ASSUME NEW w \in Writers, NEW p \in Paths, Declare(w, p) \/ PublishBound(w, p) \/ PublishBuffered(w, p)
     \/ PublishRefused(w, p) PROVE WireStep
  BY <1>5, <1>1 DEF Declare, PublishBound, PublishBuffered, PublishRefused, Begin, Sample, main, wire, again,
       known, writers, pending, drain, history, vars
<1>6. CASE Start
  <2>1. DetailsOf("main", TRUE) \in Writes /\ DetailsOf("main", TRUE).kind # "metric"
    BY <1>6, DetailsType, ThreadsHave DEF DetailsOf, CatalogueOf
  <2>2. Send(<<DetailsOf("main", TRUE)>>) /\ node' = node
    BY <1>6 DEF Start, main, wire, again, known, writers, pending, drain, history, vars
  <2>3. QED
    BY <2>1, <2>2 DEF WireStep
<1>7. CASE Announced
  <2>1. CatalogueOf("main", Revived) \in Writes /\ CatalogueOf("main", Revived).kind # "metric"
    BY CatalogueType, RevivedType, ThreadsHave DEF CatalogueOf
  <2>2. node' = node /\ (UNCHANGED out \/ Send(<<CatalogueOf("main", Revived)>>))
    BY <1>7, AnnouncedChange
  <2>3. QED
    BY <2>1, <2>2 DEF WireStep
<1>8. CASE CloseSeals
  <2>1. CatalogueOf("main", Sealed) \in Writes /\ CatalogueOf("main", Sealed).kind # "metric"
        /\ DetailsOf("main", FALSE) \in Writes /\ DetailsOf("main", FALSE).kind # "metric"
    BY SealedType, CatalogueType, DetailsType, ThreadsHave DEF CatalogueOf, DetailsOf
  <2>2. node' = node /\ (Send(<<CatalogueOf("main", Sealed)>>) \/ Send(<<DetailsOf("main", FALSE)>>))
    BY <1>8 DEF CloseSeals
  <2>3. QED
    BY <2>1, <2>2 DEF WireStep
<1>9. CASE CloseSealed
  <2>1. DetailsOf("main", FALSE) \in Writes /\ DetailsOf("main", FALSE).kind # "metric"
    BY <1>9, DetailsType, ThreadsHave DEF DetailsOf, CatalogueOf
  <2>2. Send(<<DetailsOf("main", FALSE)>>) /\ node' = node
    BY <1>9 DEF CloseSealed, main, wire, again, known, writers, pending, drain, history, vars
  <2>3. QED
    BY <2>1, <2>2 DEF WireStep
<1>10. CASE CloseLeaves
  <2>1. out' = <<>> /\ ~Subscribed' /\ node' = node
    BY <1>10 DEF CloseLeaves, Lost, Subscribed
  <2>2. QED
    BY <2>1 DEF WireStep
<1>11. CASE Crash
  <2>1. out' = <<>> /\ ~Subscribed' /\ node' = node
    BY <1>11 DEF Crash, Lost, Subscribed
  <2>2. QED
    BY <2>1 DEF WireStep
<1>12. CASE OnOwnDetails
  <2>1. DetailsOf("none", TRUE) \in Writes /\ DetailsOf("none", TRUE).kind # "metric"
    BY DetailsType, ThreadsHave DEF DetailsOf
  <2>2. node' = node /\ (UNCHANGED out \/ Send(<<DetailsOf("none", TRUE)>>))
    BY <1>12 DEF OnOwnDetails
  <2>3. QED
    BY <2>1, <2>2 DEF WireStep
<1>13. CASE Reannounce
  <2>1. DetailsOf("none", TRUE) \in Writes /\ DetailsOf("none", TRUE).kind # "metric"
    BY <1>13, DetailsType, ThreadsHave DEF DetailsOf, CatalogueOf
  <2>2. Send(<<DetailsOf("none", TRUE)>>) /\ node' = node
    BY <1>13 DEF Reannounce, main, wire, again, known, writers, pending, drain, history, vars
  <2>3. QED
    BY <2>1, <2>2 DEF WireStep
<1>14. CASE RetrySucceeds
  <2>1. DetailsOf("none", TRUE) \in Writes /\ DetailsOf("none", TRUE).kind # "metric"
    BY <1>14, DetailsType, ThreadsHave DEF DetailsOf, CatalogueOf
  <2>2. Send(<<DetailsOf("none", TRUE)>>) /\ node' = node
    BY <1>14 DEF RetrySucceeds, main, wire, again, known, writers, pending, drain, history, vars
  <2>3. QED
    BY <2>1, <2>2 DEF WireStep
<1>15. ASSUME NEW w \in Writers, SendCatalogue(w) PROVE WireStep
  <2>1. CatalogueOf(w, task[w].payload) \in Writes /\ CatalogueOf(w, task[w].payload).kind # "metric"
    BY <1>15, CatalogueType, ThreadsHave DEF DetailsOf, CatalogueOf, WritersOK, SendCatalogue
  <2>2. Send(<<CatalogueOf(w, task[w].payload)>>) /\ node' = node
    BY <1>15 DEF SendCatalogue, main, wire, again, known, writers, pending, drain, history, vars
  <2>3. QED
    BY <2>1, <2>2 DEF WireStep
<1>16. ASSUME NEW w \in Writers, SendSample(w) PROVE WireStep
  BY <1>16 DEF WireStep
<1>17. ASSUME NEW w \in Writers, PublishTimesOut(w) PROVE WireStep
  <2>1. Forget(w) /\ wpc'[w] = "idle" /\ node' = node
    BY <1>17 DEF PublishTimesOut, WritersOK
  <2>2. QED
    BY <2>1 DEF WireStep
<1>18. CASE DrainPath
  <2>1. dpc = "path" /\ node' = node
    BY <1>18 DEF DrainPath
  <2>2. UNCHANGED out \/ \E p \in dpaths : \E s \in ById(rows[p]) : Send([i \in DOMAIN s |-> MetricOf("drain",
       p, s[i])])
    BY <1>18 DEF DrainPath
  <2>3. QED
    BY <2>1, <2>2 DEF WireStep
<1>19. CASE DrainFails
  <2>1. Forget("drain") /\ dpc' # "settle" /\ node' = node
    BY <1>19 DEF DrainFails
  <2>2. QED
    BY <2>1 DEF WireStep
<1>20. CASE Broker
  BY <1>20 DEF WireStep
<1>21. CASE NodeBinds
  <2>1. UNCHANGED out /\ node'.got = node.got
    BY <1>21 DEF NodeBinds, Tell, NodeOK, wire
  <2>2. QED
    BY <2>1 DEF WireStep
<1>22. CASE NodeChanges
  <2>1. UNCHANGED out /\ node'.got = node.got
    BY <1>22 DEF NodeChanges, Tell, NodeOK, wire
  <2>2. QED
    BY <2>1 DEF WireStep
<1>23. CASE Will
  <2>1. UNCHANGED out /\ node'.got = node.got
    BY <1>23 DEF Will, Tell, NodeOK, wire
  <2>2. QED
    BY <2>1 DEF WireStep
<1>24. QED
  BY NextCases, <1>1, <1>2, <1>3, <1>4, <1>5, <1>6, <1>7, <1>8, <1>9, <1>10, <1>11, <1>12, <1>13, <1>14,
       <1>15, <1>16, <1>17, <1>18, <1>19, <1>20, <1>21, <1>22, <1>23

\* What the broker takes is at the node.
LEMMA BrokerMoves ==
  ASSUME Broker, WireOK, NodeOK
  PROVE  /\ out' = Tail(out) /\ out # <<>> /\ Head(out) = out[1] /\ node'.got \in [Paths -> Seq(Nat)]
         /\ \A p \in Paths : IF Head(out).kind = "metric" /\ Head(out).path = p
                             THEN node'.got[p] = Append(node.got[p], Head(out).k) ELSE node'.got[p] = node.got[p]
         /\ \A i \in DOMAIN out : i # 1 => i - 1 \in DOMAIN out' /\ out'[i - 1] = out[i]
         /\ \A i \in DOMAIN out' : i + 1 \in DOMAIN out /\ out'[i] = out[i + 1]
<1>1. out \in Seq(Writes) /\ out # <<>> /\ out' = Tail(out)
  BY BrokerTakes DEF WireOK
<1>2. Head(out) \in Writes
  BY <1>1
<1>3. node'.got \in [Paths -> Seq(Nat)]
      /\ \A p \in Paths : IF Head(out).kind = "metric" /\ Head(out).path = p
                          THEN node'.got[p] = Append(node.got[p], Head(out).k) ELSE node'.got[p] = node.got[p]
  <2>1. CASE Head(out).kind = "metric"
    <3>1. node' = [node EXCEPT !.got[Head(out).path] = Append(@, Head(out).k)]
      BY <2>1, BrokerTakes
    <3>2. Head(out).path \in Paths /\ Head(out).k \in Nat
      BY <1>2, <2>1, WriteKinds
    <3>3. node'.got = [node.got EXCEPT ![Head(out).path] = Append(@, Head(out).k)]
      BY <3>1 DEF NodeOK
    <3>4. QED
      BY <2>1, <3>2, <3>3 DEF NodeOK
  <2>2. CASE Head(out).kind # "metric"
    <3>1. node'.got = node.got
      BY <1>2, <2>2, BrokerTakes, WriteKinds DEF NodeOK
    <3>2. QED
      BY <2>2, <3>1 DEF NodeOK
  <2>3. QED
    BY <2>1, <2>2
<1>4. Head(out) = out[1]
  BY <1>1
<1>5. /\ \A i \in DOMAIN out : i # 1 => i - 1 \in DOMAIN out' /\ out'[i - 1] = out[i]
      /\ \A i \in DOMAIN out' : i + 1 \in DOMAIN out /\ out'[i] = out[i + 1]
  BY <1>1
<1>6. QED
  BY <1>1, <1>3, <1>4, <1>5

\* What was sent stays sent: until the wait for it was given up, or the process went.
LEMMA SentStays ==
  ASSUME NEW ms \in Seq(Writes), WireOK, Send(ms), node'.got = node.got, NEW t, NEW p, NEW k, At(t, p, k)
  PROVE  At(t, p, k)'
<1>1. CASE k \in Range(node.got[p])
  BY <1>1 DEF At
<1>2. CASE SentAs(MetricOf(t, p, k))
  <2>1. PICK i \in DOMAIN out : out[i] = MetricOf(t, p, k)
    BY <1>2 DEF SentAs
  <2>2. i \in DOMAIN out' /\ out'[i] = out[i]
    <3>1. out \in Seq(Writes) /\ out' \in Seq(Writes) /\ Len(out') = Len(out) + Len(ms) /\ Len(ms) \in Nat
          /\ \A j \in 1 .. Len(out) : out'[j] = out[j]
      BY SentList DEF WireOK
    <3>2. QED
      BY <3>1
  <2>3. QED
    BY <2>1, <2>2 DEF At, SentAs, MetricOf
<1>3. QED
  BY <1>1, <1>2 DEF At

LEMMA ForgottenStays ==
  ASSUME NEW u, Forget(u), WireOK, node'.got = node.got, NEW t, t # u, NEW p, NEW k, At(t, p, k)
  PROVE  At(t, p, k)'
<1>1. CASE k \in Range(node.got[p])
  BY <1>1 DEF At
<1>2. CASE SentAs(MetricOf(t, p, k))
  <2>1. PICK i \in DOMAIN out : out[i] = MetricOf(t, p, k)
    BY <1>2 DEF SentAs
  <2>2. out[i].who = t
    BY <2>1 DEF MetricOf
  <2>3. i \in DOMAIN out' /\ out'[i] = out[i]
    BY <2>2, ForgottenSame
  <2>4. QED
    BY <2>1, <2>3 DEF At, SentAs, MetricOf
<1>3. QED
  BY <1>1, <1>2 DEF At

LEMMA BrokerStays ==
  ASSUME Broker, WireOK, NodeOK, NEW t, NEW p \in Paths, NEW k, At(t, p, k)
  PROVE  At(t, p, k)'
<1>1. CASE k \in Range(node.got[p])
  <2>1. node.got[p] \in Seq(Nat)
    BY DEF NodeOK
  <2>2. PICK i \in DOMAIN node.got[p] : node.got[p][i] = k
    BY <1>1 DEF Range
  <2>3. i \in DOMAIN node'.got[p] /\ node'.got[p][i] = k
    <3>1. CASE node'.got[p] = Append(node.got[p], Head(out).k)
      BY <2>1, <2>2, <3>1
    <3>2. CASE node'.got[p] = node.got[p]
      BY <2>2, <3>2
    <3>3. QED
      BY <3>1, <3>2, BrokerMoves
  <2>4. QED
    BY <2>3 DEF At, Range
<1>2. CASE SentAs(MetricOf(t, p, k))
  <2>1. PICK i \in DOMAIN out : out[i] = MetricOf(t, p, k)
    BY <1>2 DEF SentAs
  <2>2. CASE i = 1
    <3>1. Head(out).kind = "metric" /\ Head(out).path = p /\ Head(out).k = k
      BY <2>1, <2>2, BrokerMoves DEF MetricOf
    <3>2. node'.got[p] = Append(node.got[p], k) /\ node.got[p] \in Seq(Nat)
      BY <3>1, BrokerMoves DEF NodeOK
    <3>3. Len(node.got[p]) + 1 \in DOMAIN node'.got[p] /\ node'.got[p][Len(node.got[p]) + 1] = k
      BY <3>2
    <3>4. QED
      BY <3>3 DEF At, Range
  <2>3. CASE i # 1
    <3>1. i - 1 \in DOMAIN out' /\ out'[i - 1] = out[i]
      BY <2>1, <2>3, BrokerMoves
    <3>2. QED
      BY <2>1, <3>1 DEF At, SentAs, MetricOf
  <2>4. QED
    BY <2>2, <2>3
<1>3. QED
  BY <1>1, <1>2 DEF At

\* A page that is sent.
LEMMA PageSends ==
  ASSUME ServiceAssumption, WireOK, RowsOK, DrainOK, NEW p \in dpaths, NEW s \in ById(rows[p])
  PROVE  /\ p \in Paths /\ s \in Seq(Nat) /\ \A k \in rows[p] : \E i \in DOMAIN s : s[i] = k
         /\ \A i \in DOMAIN s : s[i] \in rows[p]
         /\ \A i, j \in DOMAIN s : i < j => s[i] < s[j]
         /\ [i \in DOMAIN s |-> MetricOf("drain", p, s[i])] \in Seq(Writes)
<1>1. p \in Paths /\ rows[p] \subseteq Nat /\ IsFiniteSet(rows[p])
  BY RowsFinite DEF DrainOK, RowsOK
<1>2. s \in Seq(rows[p]) /\ (\A k \in rows[p] : \E i \in DOMAIN s : s[i] = k) /\ \A i, j \in DOMAIN s : i < j => s[i] < s[j]
  BY <1>1, ByIdType
<1>3. s \in Seq(Nat) /\ \A i \in DOMAIN s : s[i] \in rows[p]
  BY <1>1, <1>2
<1>4. [i \in DOMAIN s |-> MetricOf("drain", p, s[i])] \in Seq(Writes)
  BY <1>1, <1>3, MetricType, ThreadsHave
<1>5. QED
  BY <1>1, <1>2, <1>3, <1>4

LEMMA SampleSends ==
  ASSUME ServiceAssumption, WritersOK, NEW w \in Writers, SendSample(w)
  PROVE  /\ MetricOf(w, task[w].path, task[w].k) \in Writes /\ Send(<<MetricOf(w, task[w].path, task[w].k)>>)
         /\ node' = node /\ wpc[w] = "sendmetric" /\ task[w].send /\ wpc' = [wpc EXCEPT ![w] = "metric"] /\ task' = task
         /\ UNCHANGED <<rows, made, mpc>>
BY MetricType, ThreadsHave DEF SendSample, WritersOK, pending, history, main

LEMMA AtStays ==
  ASSUME ServiceAssumption, TypeOK, TypeOK', [Next]_vars, NEW t \in Writers \cup {"drain"}, NEW p \in Paths, NEW k, At(t, p, k),
         t \in Writers => wpc'[t] # "idle", t = "drain" => dpc' = "settle"
  PROVE  At(t, p, k)'
<1> MainOK /\ WireOK /\ KnownOK /\ WritersOK /\ RowsOK /\ DrainOK /\ NodeOK
  BY DEF TypeOK
<1>1. CASE UNCHANGED out /\ node'.got = node.got
  BY <1>1 DEF At, SentAs, MetricOf
<1>2. ASSUME NEW m \in Writes, Send(<<m>>), node' = node PROVE At(t, p, k)'
  <2>1. <<m>> \in Seq(Writes)
    OBVIOUS
  <2>2. QED
    BY <1>2, <2>1, SentStays
<1>3. ASSUME NEW w \in Writers, SendSample(w) PROVE At(t, p, k)'
  BY <1>2, <1>3, SampleSends
<1>4. ASSUME NEW q \in dpaths, NEW s \in ById(rows[q]), Send([i \in DOMAIN s |-> MetricOf("drain", q, s[i])]), node' = node
      PROVE  At(t, p, k)'
  <2> DEFINE ms == [i \in DOMAIN s |-> MetricOf("drain", q, s[i])]
  <2>1. ms \in Seq(Writes)
    BY PageSends
  <2>2. Send(ms)
    BY <1>4
  <2> HIDE DEF ms
  <2>3. QED
    BY <1>4, <2>1, <2>2, SentStays
<1>5. CASE Broker
  BY <1>5, BrokerStays
<1>6. ASSUME ~Subscribed' PROVE FALSE
  <2>1. MainOK' /\ WritersOK'
    BY DEF TypeOK
  <2>2. dpc' = "off" /\ \A w \in Writers : wpc'[w] = "idle"
    BY <1>6, <2>1 DEF MainOK, WritersOK, Subscribed
  <2>3. QED
    BY <2>2
<1>7. ASSUME NEW w \in Writers, Forget(w), wpc'[w] = "idle", node' = node PROVE At(t, p, k)'
  <2>1. t # w
    BY <1>7, ThreadsHave
  <2>2. QED
    BY <1>7, <2>1, ForgottenStays
<1>8. ASSUME Forget("drain"), dpc' # "settle", node' = node PROVE At(t, p, k)'
  <2>1. t # "drain"
    BY <1>8
  <2>2. QED
    BY <1>8, <2>1, ForgottenStays
<1>9. QED
  BY <1>1, <1>2, <1>3, <1>4, <1>5, <1>6, <1>7, <1>8, WireSteps DEF WireStep

\* What is kept stays kept: a row goes when what its page published is at the node.
LEMMA KeptStays ==
  ASSUME TypeOK, ServiceAssumption, PageKept, NEW q \in Paths, NEW k, Kept(q, k), [Next]_vars
  PROVE  Kept(q, k)'
<1> MainOK /\ WireOK /\ KnownOK /\ WritersOK /\ RowsOK /\ DrainOK /\ NodeOK
  BY DEF TypeOK
<1>1. ASSUME UNCHANGED <<node, rows, dropped>> PROVE Kept(q, k)'
  BY <1>1 DEF Kept
<1>2. CASE UNCHANGED vars
  BY <1>2, <1>1 DEF main, wire, again, known, writers, pending, drain, history, vars
<1>3. CASE Start \/ Announced \/ Started \/ Close \/ CloseSeals \/ CloseSealed \/ CloseLeaves \/ Crash \/
     ReadAck \/ OnSignal \/ OnOwnDetails \/ OnConnect \/ Reannounce \/ ReannounceFails \/ RetryReannounce \/
     RetrySucceeds \/ DrainLooks \/ DrainEnds \/ DrainFails \/ LinkDrops \/ LinkReturns
  BY <1>3, <1>1 DEF Start, Announced, Started, Close, CloseSeals, CloseSealed, CloseLeaves, Crash, ReadAck,
       OnSignal, OnOwnDetails, OnConnect, Reannounce, ReannounceFails, RetryReannounce, RetrySucceeds,
       DrainLooks, DrainEnds, DrainFails, LinkDrops, LinkReturns, Lost, main, wire, again, known, writers,
       pending, drain, history, vars
<1>4. ASSUME NEW w \in Writers, SendCatalogue(w) \/ CataloguePublished(w) \/ SendSample(w) \/ Published(w) \/
     PublishTimesOut(w) PROVE Kept(q, k)'
  BY <1>4, <1>1 DEF SendCatalogue, CataloguePublished, SendSample, Published, PublishTimesOut, main, wire,
       again, known, writers, pending, drain, history, vars
<1>5. ASSUME NEW w \in Writers, NEW p \in Paths, Declare(w, p) \/ PublishRefused(w, p) PROVE Kept(q, k)'
  BY <1>5, <1>1 DEF Declare, PublishRefused, Begin, main, wire, again, known, writers, pending, drain,
       history, vars
<1>6. ASSUME NEW w \in Writers, NEW p \in Paths, PublishBound(w, p) PROVE Kept(q, k)'
  <2>1. dropped \subseteq dropped' /\ UNCHANGED <<node, rows>>
    BY <1>6, BoundBegins DEF Begin, pending
  <2>2. QED
    BY <2>1 DEF Kept
<1>7. ASSUME NEW w \in Writers, NEW p \in Paths, PublishBuffered(w, p) PROVE Kept(q, k)'
  <2>1. UNCHANGED <<node, dropped>> /\ rows' = [rows EXCEPT ![p] = @ \cup {made[p] + 1}]
    BY <1>7, BufferedBegins DEF Begin
  <2>2. rows[q] \subseteq rows'[q]
    BY <2>1 DEF RowsOK
  <2>3. QED
    BY <2>1, <2>2 DEF Kept
<1>8. CASE DrainPath
  <2>1. dropped \subseteq dropped' /\ UNCHANGED <<node, rows>>
    BY <1>8 DEF DrainPath, pending
  <2>2. QED
    BY <2>1 DEF Kept
<1>9. CASE DrainAcks
  <2>1. dpc = "settle" /\ UNCHANGED <<node, dropped>> /\ rows' = [rows EXCEPT ![dpath] = @ \ dpage] /\
       ~Waits("drain")
    BY <1>9 DEF DrainAcks, history
  <2>2. CASE q = dpath /\ k \in dpage
    <3>1. ~SentAs(MetricOf("drain", dpath, k))
      BY <2>1 DEF Waits, SentAs, MetricOf
    <3>2. k \in Range(node.got[q]) \/ <<q, k>> \in dropped
      BY <2>1, <2>2, <3>1 DEF PageKept, At
    <3>3. QED
      BY <2>1, <3>2 DEF Kept
  <2>3. CASE ~(q = dpath /\ k \in dpage)
    <3>1. k \in rows[q] => k \in rows'[q]
      BY <2>1, <2>3 DEF RowsOK, DrainOK
    <3>2. QED
      BY <2>1, <3>1 DEF Kept
  <2>4. QED
    BY <2>2, <2>3
<1>10. CASE Broker
  <2>1. UNCHANGED <<rows, dropped>>
    BY <1>10 DEF Broker, pending
  <2>2. k \in Range(node.got[q]) => k \in Range(node'.got[q])
    <3>1. node.got[q] \in Seq(Nat)
      BY DEF NodeOK
    <3>2. CASE node'.got[q] = Append(node.got[q], Head(out).k)
      <4>1. \A i \in DOMAIN node.got[q] : i \in DOMAIN node'.got[q] /\ node'.got[q][i] = node.got[q][i]
        BY <3>1, <3>2
      <4>2. QED
        BY <4>1 DEF Range
    <3>3. CASE node'.got[q] = node.got[q]
      BY <3>3
    <3>4. QED
      BY <1>10, <3>2, <3>3, BrokerMoves
  <2>3. QED
    BY <2>1, <2>2 DEF Kept
<1>11. CASE NodeBinds
  <2>1. UNCHANGED <<rows, dropped>> /\ node'.got = node.got
    BY <1>11 DEF NodeBinds, Tell, NodeOK, pending, history
  <2>2. QED
    BY <2>1 DEF Kept
<1>12. CASE NodeChanges
  <2>1. UNCHANGED <<rows, dropped>> /\ node'.got = node.got
    BY <1>12 DEF NodeChanges, Tell, NodeOK, pending, history
  <2>2. QED
    BY <2>1 DEF Kept
<1>13. CASE Will
  <2>1. UNCHANGED <<rows, dropped>> /\ node'.got = node.got
    BY <1>13 DEF Will, Tell, NodeOK, pending, history
  <2>2. QED
    BY <2>1 DEF Kept
<1>14. QED
  BY NextCases, <1>1, <1>2, <1>3, <1>4, <1>5, <1>6, <1>7, <1>8, <1>9, <1>10, <1>11, <1>12, <1>13

\* An accepted sample was kept when publish() returned.
LEMMA AcceptedStays ==
  ASSUME TypeOK, ServiceAssumption, KeptInv, \A q \in Paths, k \in Nat : Kept(q, k) => Kept(q, k)',
       [Next]_vars
  PROVE  AcceptedKept'
<1> NodeOK /\ WritersOK /\ AcceptedKept /\ TasksKept /\ PageKept
  BY DEF TypeOK, KeptInv
<1>1. ASSUME UNCHANGED <<accepted>> PROVE AcceptedKept'
  BY <1>1 DEF AcceptedKept, NodeOK
<1>2. CASE UNCHANGED vars
  BY <1>2, <1>1 DEF main, wire, again, known, writers, pending, drain, history, vars
<1>3. CASE Start \/ Announced \/ Started \/ Close \/ CloseSeals \/ CloseSealed \/ CloseLeaves \/ Crash \/
     ReadAck \/ OnSignal \/ OnOwnDetails \/ OnConnect \/ Reannounce \/ ReannounceFails \/ RetryReannounce \/
     RetrySucceeds \/ DrainLooks \/ DrainEnds \/ DrainPath \/ DrainAcks \/ DrainFails \/ Broker \/ NodeBinds
     \/ NodeChanges \/ Will \/ LinkDrops \/ LinkReturns
  BY <1>3, <1>1 DEF Start, Announced, Started, Close, CloseSeals, CloseSealed, CloseLeaves, Crash, ReadAck,
       OnSignal, OnOwnDetails, OnConnect, Reannounce, ReannounceFails, RetryReannounce, RetrySucceeds,
       DrainLooks, DrainEnds, DrainPath, DrainAcks, DrainFails, Broker, NodeBinds, NodeChanges, Will,
       LinkDrops, LinkReturns, Lost, main, wire, again, known, writers, pending, drain, history, vars
<1>4. ASSUME NEW w \in Writers, SendCatalogue(w) \/ CataloguePublished(w) \/ SendSample(w) \/
     PublishTimesOut(w) PROVE AcceptedKept'
  BY <1>4, <1>1 DEF SendCatalogue, CataloguePublished, SendSample, PublishTimesOut, main, wire, again, known,
       writers, pending, drain, history, vars
<1>5. ASSUME NEW w \in Writers, NEW p \in Paths, Declare(w, p) \/ PublishBound(w, p) \/ PublishBuffered(w, p)
     \/ PublishRefused(w, p) PROVE AcceptedKept'
  BY <1>5, <1>1 DEF Declare, PublishBound, PublishBuffered, PublishRefused, Begin, Sample, main, wire, again,
       known, writers, pending, drain, history, vars
<1>6. ASSUME NEW w \in Writers, Published(w) PROVE AcceptedKept'
  <2>1. UNCHANGED <<node, rows, dropped>> /\ (accepted' = accepted
           \/ (task[w].k # 0 /\ accepted' = accepted \cup {<<task[w].path, task[w].k>>}))
    BY <1>6 DEF Published, pending
  <2>2. CASE accepted' = accepted
    BY <2>1, <2>2 DEF AcceptedKept, Kept
  <2>3. CASE task[w].k # 0 /\ accepted' = accepted \cup {<<task[w].path, task[w].k>>}
    <3>1. Kept(task[w].path, task[w].k)
      <4>1. CASE wpc[w] = "metric" /\ ~Waits(w)
        <5>1. ~SentAs(MetricOf(w, task[w].path, task[w].k))
          BY <4>1 DEF Waits, SentAs, MetricOf
        <5>2. QED
          BY <2>3, <4>1, <5>1 DEF TasksKept, At, Kept
      <4>2. CASE ~task[w].send
        BY <2>3, <4>2 DEF TasksKept
      <4>3. QED
        BY <1>6, <4>1, <4>2 DEF Published
    <3>2. PICK q \in Paths, k \in Nat : task[w].path = q /\ task[w].k = k
      BY DEF WritersOK
    <3>3. Kept(q, k)' /\ accepted' = accepted \cup {<<q, k>>}
      BY <2>1, <2>3, <3>1, <3>2 DEF Kept
    <3>4. ASSUME NEW a \in accepted PROVE Kept(a[1], a[2])'
      BY <2>1 DEF AcceptedKept, Kept
    <3>5. QED
      BY <3>3, <3>4 DEF AcceptedKept
  <2>4. QED
    BY <2>1, <2>2, <2>3
<1>7. QED
  BY NextCases, <1>1, <1>2, <1>3, <1>4, <1>5, <1>6

\* Where a task goes on, or there is none.
LEMMA TasksFrame ==
  ASSUME TypeOK, TypeOK', TasksKept,
         \A q \in Paths, k \in Nat : Kept(q, k) => Kept(q, k)',
         \A t \in Writers, q \in Paths, k \in Nat : At(t, q, k) /\ wpc'[t] # "idle" => At(t, q, k)',
         \A w \in Writers : task'[w].k # 0 =>
            \/ task'[w] = task[w] /\ (wpc'[w] = "metric" => wpc[w] = "metric")
            \/ (~task'[w].send => Kept(task[w].path, task[w].k)') /\ (wpc'[w] = "metric" => At(w, task[w].path, task[w].k)')
  PROVE  TasksKept'
<1>1. ASSUME NEW w \in Writers, task'[w].k # 0
      PROVE  /\ ~task'[w].send => Kept(task[w].path, task[w].k)'
             /\ wpc'[w] = "metric" => At(w, task[w].path, task[w].k)'
  <2>1. CASE task'[w] = task[w] /\ (wpc'[w] = "metric" => wpc[w] = "metric")
    <3>1. PICK q \in Paths, k \in Nat : task[w].path = q /\ task[w].k = k
      BY DEF TypeOK, WritersOK
    <3>2. ~task[w].send => Kept(q, k)
      BY <1>1, <2>1, <3>1 DEF TasksKept
    <3>3. wpc[w] = "metric" => At(w, q, k)
      BY <1>1, <2>1, <3>1 DEF TasksKept
    <3>4. /\ ~task'[w].send => Kept(q, k)'
          /\ wpc'[w] = "metric" => At(w, q, k)'
      BY <2>1, <3>2, <3>3
    <3>5. task'[w].path = q /\ task'[w].k = k
      BY <2>1, <3>1
    <3>6. QED
      BY <3>4, <3>5
  <2>2. QED
    BY <1>1, <2>1
<1>2. QED
  BY <1>1 DEF TasksKept

\* A call of publish() that began.
LEMMA TasksBegun ==
  ASSUME TypeOK, TypeOK', TasksKept,
         \A q \in Paths, k \in Nat : Kept(q, k) => Kept(q, k)',
         \A t \in Writers, q \in Paths, k \in Nat : At(t, q, k) /\ wpc'[t] # "idle" => At(t, q, k)',
         NEW w \in Writers, NEW p \in Paths, NEW k \in Nat, NEW b \in BOOLEAN, NEW c,
         Begin(w, TaskOf(p, k, b), c), k # 0 /\ ~b => Kept(p, k)'
  PROVE  TasksKept'
<1>1. WritersOK
  BY DEF TypeOK
<1>2. task' = [task EXCEPT ![w] = [path |-> p, k |-> k, send |-> b, payload |-> c]]
      /\ wpc' = [wpc EXCEPT ![w] = wpc'[w]] /\ wpc'[w] # "metric"
  BY <1>1, BeginsTask
<1>3. task'[w].path = p /\ task'[w].k = k /\ task'[w].send = b /\ \A v \in Writers \ {w} : task'[v] = task[v] /\ wpc'[v] = wpc[v]
  BY <1>1, <1>2 DEF WritersOK
<1>4. task'[w].k # 0 /\ ~task'[w].send => Kept(task[w].path, task[w].k)'
  BY <1>3
<1>5. QED
  BY <1>2, <1>3, <1>4, TasksFrame

\* The samples in the calls of publish().
LEMMA TasksStay ==
  ASSUME TypeOK, TypeOK', ServiceAssumption, TasksKept, \A q \in Paths, k \in Nat : Kept(q, k) => Kept(q, k)',
       \A t \in Writers, q \in Paths, k \in Nat : At(t, q, k) /\ wpc'[t] # "idle" => At(t, q, k)', [Next]_vars
  PROVE  TasksKept'
<1> WritersOK /\ RowsOK /\ DrainOK /\ NodeOK /\ WireOK /\ KnownOK
  BY DEF TypeOK
<1>1. ASSUME UNCHANGED <<task, wpc>> PROVE TasksKept'
  BY <1>1, TasksFrame
<1>2. CASE UNCHANGED vars
  BY <1>2, <1>1 DEF main, wire, again, known, writers, pending, drain, history, vars
<1>3. CASE Start \/ Announced \/ Started \/ Close \/ CloseSeals \/ CloseSealed \/ ReadAck \/ OnSignal \/
     OnOwnDetails \/ OnConnect \/ Reannounce \/ ReannounceFails \/ RetryReannounce \/ RetrySucceeds \/
     DrainLooks \/ DrainEnds \/ DrainPath \/ DrainAcks \/ DrainFails \/ Broker \/ NodeBinds \/ NodeChanges \/
     Will \/ LinkDrops \/ LinkReturns
  BY <1>3, <1>1 DEF Start, Announced, Started, Close, CloseSeals, CloseSealed, ReadAck, OnSignal,
       OnOwnDetails, OnConnect, Reannounce, ReannounceFails, RetryReannounce, RetrySucceeds, DrainLooks,
       DrainEnds, DrainPath, DrainAcks, DrainFails, Broker, NodeBinds, NodeChanges, Will, LinkDrops,
       LinkReturns, main, wire, again, known, writers, pending, drain, history, vars
<1>4. ASSUME NEW w \in Writers, NEW p \in Paths, PublishRefused(w, p) PROVE TasksKept'
  BY <1>4, <1>1 DEF PublishRefused, main, wire, again, known, writers, pending, drain, history, vars
<1>5. CASE CloseLeaves
  <2>1. \A v \in Writers : task'[v].k = 0
    BY <1>5 DEF CloseLeaves, Lost, NoTask, TaskOf
  <2>2. QED
    BY <2>1, TasksFrame
<1>6. CASE Crash
  <2>1. \A v \in Writers : task'[v].k = 0
    BY <1>6 DEF Crash, Lost, NoTask, TaskOf
  <2>2. QED
    BY <2>1, TasksFrame
<1>7. ASSUME NEW w \in Writers, NEW p \in Paths, Declare(w, p) PROVE TasksKept'
  <2>1. Begin(w, TaskOf(p, 0, FALSE), Ensured(p))
    BY <1>7, DeclareBegins
  <2>2. QED
    BY <2>1, TasksBegun
<1>8. ASSUME NEW w \in Writers, NEW p \in Paths, PublishBound(w, p) PROVE TasksKept'
  <2>1. PICK k \in Nat, b \in BOOLEAN : k = made[p] + 1 /\ b = bind[p].on
    BY <1>8, BoundBegins
  <2>2. Begin(w, TaskOf(p, k, b), Ensured(p)) /\ dropped' = IF b THEN dropped ELSE dropped \cup {<<p, k>>}
    BY <1>8, <2>1, BoundBegins
  <2>3. ~b => Kept(p, k)'
    BY <2>2 DEF Kept
  <2>4. QED
    BY <2>2, <2>3, TasksBegun
<1>9. ASSUME NEW w \in Writers, NEW p \in Paths, PublishBuffered(w, p) PROVE TasksKept'
  <2>1. PICK k \in Nat : k = made[p] + 1
    BY <1>9, BufferedBegins
  <2>2. Begin(w, TaskOf(p, k, FALSE), Ensured(p)) /\ rows' = [rows EXCEPT ![p] = @ \cup {k}]
    BY <1>9, <2>1, BufferedBegins
  <2>3. Kept(p, k)'
    BY <2>2 DEF Kept, RowsOK
  <2>4. QED
    BY <2>2, <2>3, TasksBegun
<1>10. ASSUME NEW w \in Writers, SendCatalogue(w) PROVE TasksKept'
  <2>1. task' = task /\ \A v \in Writers : wpc'[v] = "metric" => wpc[v] = "metric"
    BY <1>10 DEF SendCatalogue, WritersOK, main, wire, again, known, writers, pending, drain, history, vars
  <2>2. QED
    BY <2>1, TasksFrame
<1>11. ASSUME NEW w \in Writers, CataloguePublished(w) PROVE TasksKept'
  <2>1. task' = task /\ \A v \in Writers : wpc'[v] = "metric" => wpc[v] = "metric"
    BY <1>11 DEF CataloguePublished, WritersOK, main, wire, again, known, writers, pending, drain, history,
         vars
  <2>2. QED
    BY <2>1, TasksFrame
<1>12. ASSUME NEW w \in Writers, SendSample(w) PROVE TasksKept'
  <2>1. PICK q \in Paths, k \in Nat : task[w].path = q /\ task[w].k = k
    BY DEF WritersOK
  <2>2. Send(<<MetricOf(w, q, k)>>) /\ MetricOf(w, q, k) \in Writes /\ task' = task /\ wpc' = [wpc EXCEPT ![w]
       = "metric"] /\ task[w].send
    BY <1>12, <2>1, SampleSends
  <2>3. out' \in Seq(Writes) /\ out \in Seq(Writes) /\ Len(out') = Len(out) + 1 /\ out'[Len(out) + 1] =
       MetricOf(w, q, k)
    BY <2>2, SentOne DEF WireOK
  <2>4. At(w, q, k)'
    BY <2>3 DEF At, SentAs, MetricOf
  <2>5. At(w, task[w].path, task[w].k)'
    BY <2>1, <2>2, <2>4
  <2>6. \A v \in Writers \ {w} : wpc'[v] = wpc[v]
    BY <2>2 DEF WritersOK
  <2>7. QED
    BY <2>2, <2>5, <2>6, TasksFrame
<1>13. ASSUME NEW w \in Writers, Published(w) PROVE TasksKept'
  <2>1. wpc' = [wpc EXCEPT ![w] = "idle"] /\ task' = [task EXCEPT ![w] = NoTask]
    BY <1>13 DEF Published
  <2>2. task'[w].k = 0 /\ \A v \in Writers \ {w} : task'[v] = task[v] /\ wpc'[v] = wpc[v]
    BY <2>1 DEF WritersOK, NoTask, TaskOf
  <2>3. QED
    BY <2>2, TasksFrame
<1>14. ASSUME NEW w \in Writers, PublishTimesOut(w) PROVE TasksKept'
  <2>1. wpc' = [wpc EXCEPT ![w] = "idle"] /\ task' = [task EXCEPT ![w] = NoTask]
    BY <1>14 DEF PublishTimesOut
  <2>2. task'[w].k = 0 /\ \A v \in Writers \ {w} : task'[v] = task[v] /\ wpc'[v] = wpc[v]
    BY <2>1 DEF WritersOK, NoTask, TaskOf
  <2>3. QED
    BY <2>2, TasksFrame
<1>15. QED
  BY NextCases, <1>1, <1>2, <1>3, <1>4, <1>5, <1>6, <1>7, <1>8, <1>9, <1>10, <1>11, <1>12, <1>13, <1>14

\* Where the thread goes on with its page, or has none.
LEMMA PageFrame ==
  ASSUME TypeOK, PageKept, dropped \subseteq dropped',
         \A q \in Paths, k \in Nat : At("drain", q, k) /\ dpc' = "settle" => At("drain", q, k)',
         dpc' = "settle" => dpc = "settle" /\ UNCHANGED <<dpath, dpage>>
  PROVE  PageKept'
<1>1. SUFFICES ASSUME dpc' = "settle", NEW k \in dpage' PROVE At("drain", dpath, k)' \/ <<dpath, k>>' \in dropped'
  BY DEF PageKept
<1>2. PICK q \in Paths : q = dpath
  BY DEF TypeOK, DrainOK
<1>3. k \in Nat /\ (At("drain", q, k) \/ <<q, k>> \in dropped) /\ dpath' = q
  BY <1>1, <1>2 DEF PageKept, TypeOK, DrainOK, RowsOK
<1>4. At("drain", q, k)' \/ <<q, k>> \in dropped'
  BY <1>1, <1>3
<1>5. QED
  BY <1>3, <1>4

\* The page that waits for its confirmation.
LEMMA PageStays ==
  ASSUME TypeOK, ServiceAssumption, PageKept, dropped \subseteq dropped', \A q \in Paths, k \in Nat :
       At("drain", q, k) /\ dpc' = "settle" => At("drain", q, k)', [Next]_vars
  PROVE  PageKept'
<1> WritersOK /\ RowsOK /\ DrainOK /\ NodeOK /\ WireOK /\ KnownOK
  BY DEF TypeOK
<1>1. ASSUME UNCHANGED <<dpc, dpage, dpath>> PROVE PageKept'
  BY <1>1, PageFrame
<1>2. CASE UNCHANGED vars
  BY <1>2, <1>1 DEF main, wire, again, known, writers, pending, drain, history, vars
<1>3. CASE Start \/ Started \/ Close \/ CloseSealed \/ ReadAck \/ OnSignal \/ OnOwnDetails \/ OnConnect \/
     Reannounce \/ ReannounceFails \/ RetryReannounce \/ RetrySucceeds \/ Broker \/ NodeBinds \/ NodeChanges
     \/ Will \/ LinkDrops \/ LinkReturns
  BY <1>3, <1>1 DEF Start, Started, Close, CloseSealed, ReadAck, OnSignal, OnOwnDetails, OnConnect,
       Reannounce, ReannounceFails, RetryReannounce, RetrySucceeds, Broker, NodeBinds, NodeChanges, Will,
       LinkDrops, LinkReturns, main, wire, again, known, writers, pending, drain, history, vars
<1>4. ASSUME NEW w \in Writers, SendCatalogue(w) \/ CataloguePublished(w) \/ SendSample(w) \/ Published(w) \/
     PublishTimesOut(w) PROVE PageKept'
  BY <1>4, <1>1 DEF SendCatalogue, CataloguePublished, SendSample, Published, PublishTimesOut, main, wire,
       again, known, writers, pending, drain, history, vars
<1>5. ASSUME NEW w \in Writers, NEW p \in Paths, Declare(w, p) \/ PublishBound(w, p) \/ PublishRefused(w, p)
     PROVE PageKept'
  BY <1>5, <1>1 DEF Declare, PublishBound, PublishRefused, Begin, Sample, main, wire, again, known, writers,
       pending, drain, history, vars
<1>6. CASE Announced
  <2>1. dpc' # "settle"
    BY <1>6, AnnouncedChange
  <2>2. QED
    BY <2>1, PageFrame
<1>7. CASE CloseSeals
  <2>1. dpc' = "settle" => dpc = "settle" /\ UNCHANGED <<dpath, dpage>>
    BY <1>7 DEF CloseSeals, Change, Due, Send, CatalogueOf, DetailsOf, main, wire, again, known, writers,
         pending, drain, history, vars, Lost
  <2>2. QED
    BY <2>1, PageFrame
<1>8. CASE CloseLeaves
  <2>1. dpc' = "settle" => dpc = "settle" /\ UNCHANGED <<dpath, dpage>>
    BY <1>8 DEF CloseLeaves, Lost, main, wire, again, known, writers, pending, drain, history, vars, Lost
  <2>2. QED
    BY <2>1, PageFrame
<1>9. CASE Crash
  <2>1. dpc' = "settle" => dpc = "settle" /\ UNCHANGED <<dpath, dpage>>
    BY <1>9 DEF Crash, Lost, Upset, main, wire, again, known, writers, pending, drain, history, vars, Lost
  <2>2. QED
    BY <2>1, PageFrame
<1>10. ASSUME NEW w \in Writers, NEW p \in Paths, PublishBuffered(w, p) PROVE PageKept'
  <2>1. dpc' = "settle" => dpc = "settle" /\ UNCHANGED <<dpath, dpage>>
    BY <1>10 DEF PublishBuffered, Sample, Writing, Begin, Change, TaskOf, main, wire, again, known, writers,
         pending, drain, history, vars, Lost
  <2>2. QED
    BY <2>1, PageFrame
<1>11. CASE DrainLooks
  <2>1. dpc' = "settle" => dpc = "settle" /\ UNCHANGED <<dpath, dpage>>
    BY <1>11 DEF DrainLooks, main, wire, again, known, writers, pending, drain, history, vars, Lost
  <2>2. QED
    BY <2>1, PageFrame
<1>12. CASE DrainEnds
  <2>1. dpc' = "settle" => dpc = "settle" /\ UNCHANGED <<dpath, dpage>>
    BY <1>12 DEF DrainEnds, main, wire, again, known, writers, pending, drain, history, vars, Lost
  <2>2. QED
    BY <2>1, PageFrame
<1>13. CASE DrainPath
  <2>1. PICK p \in dpaths :
           IF bind[p].id = 0 THEN UNCHANGED <<dpc, dpath, dpage>>
           ELSE /\ dpath' = p /\ dpc' = "settle" /\ dpage' = rows[p]
                /\ IF bind[p].on
                   THEN \E s \in ById(rows[p]) : Send([i \in DOMAIN s |-> MetricOf("drain", p, s[i])])
                   ELSE dropped' = dropped \cup {<<p, k>> : k \in rows[p]}
    BY <1>13 DEF DrainPath
  <2>2. CASE bind[p].id = 0
    BY <1>13, <2>1, <2>2, PageFrame DEF DrainPath
  <2>3. CASE bind[p].id # 0 /\ bind[p].on
    <3>1. PICK s \in ById(rows[p]) : Send([i \in DOMAIN s |-> MetricOf("drain", p, s[i])])
      BY <2>1, <2>3
    <3> DEFINE ms == [i \in DOMAIN s |-> MetricOf("drain", p, s[i])]
    <3>2. ms \in Seq(Writes) /\ \A k \in rows[p] : \E i \in DOMAIN s : s[i] = k
      BY PageSends
    <3>3. Send(ms) /\ DOMAIN ms = DOMAIN s /\ \A i \in DOMAIN s : ms[i] = MetricOf("drain", p, s[i])
      BY <3>1
    <3>4. ASSUME NEW k \in rows[p] PROVE At("drain", p, k)'
      <4>1. PICK i \in DOMAIN s : s[i] = k
        BY <3>2
      <4>2. ms[i] = MetricOf("drain", p, k) /\ i \in DOMAIN ms
        BY <3>3, <4>1
      <4> HIDE DEF ms
      <4>3. out' \in Seq(Writes) /\ out \in Seq(Writes) /\ Len(out') = Len(out) + Len(ms) /\ out'[Len(out) +
           i] = ms[i]
        <5>1. ms \in Seq(Writes) /\ Send(ms) /\ out \in Seq(Writes)
          BY <3>2, <3>3 DEF WireOK
        <5>2. i \in 1 .. Len(ms)
          BY <4>2, <5>1
        <5>3. QED
          BY <5>1, <5>2, SentList
      <4>4. Len(out) + i \in DOMAIN out'
        BY <3>2, <4>2, <4>3
      <4>5. QED
        BY <4>2, <4>3, <4>4 DEF At, SentAs, MetricOf
    <3>5. dpath' = p /\ dpage' = rows[p]
      BY <2>1, <2>3
    <3>6. QED
      BY <3>4, <3>5 DEF PageKept
  <2>4. CASE bind[p].id # 0 /\ ~bind[p].on
    BY <2>1, <2>4 DEF PageKept
  <2>5. QED
    BY <2>2, <2>3, <2>4
<1>14. CASE DrainAcks
  <2>1. dpc' = "settle" => dpc = "settle" /\ UNCHANGED <<dpath, dpage>>
    BY <1>14 DEF DrainAcks, main, wire, again, known, writers, pending, drain, history, vars, Lost
  <2>2. QED
    BY <2>1, PageFrame
<1>15. CASE DrainFails
  <2>1. dpc' = "settle" => dpc = "settle" /\ UNCHANGED <<dpath, dpage>>
    BY <1>15 DEF DrainFails, Upset, Forget, main, wire, again, known, writers, pending, drain, history, vars,
         Lost
  <2>2. QED
    BY <2>1, PageFrame
<1>16. QED
  BY NextCases, <1>1, <1>2, <1>3, <1>4, <1>5, <1>6, <1>7, <1>8, <1>9, <1>10, <1>11, <1>12, <1>13, <1>14, <1>15

\* A sample that was not wanted stays one.
LEMMA DroppedStays ==
  ASSUME TypeOK, ServiceAssumption, [Next]_vars
  PROVE  dropped \subseteq dropped'
<1> WritersOK /\ RowsOK /\ DrainOK /\ NodeOK /\ WireOK /\ KnownOK
  BY DEF TypeOK
<1>1. ASSUME UNCHANGED <<dropped>> PROVE dropped \subseteq dropped'
  BY <1>1
<1>2. CASE UNCHANGED vars
  BY <1>2, <1>1 DEF main, wire, again, known, writers, pending, drain, history, vars
<1>3. CASE Start \/ Announced \/ Started \/ Close \/ CloseSeals \/ CloseSealed \/ CloseLeaves \/ Crash \/
     ReadAck \/ OnSignal \/ OnOwnDetails \/ OnConnect \/ Reannounce \/ ReannounceFails \/ RetryReannounce \/
     RetrySucceeds \/ DrainLooks \/ DrainEnds \/ DrainAcks \/ DrainFails \/ Broker \/ NodeBinds \/ NodeChanges
     \/ Will \/ LinkDrops \/ LinkReturns
  BY <1>3, <1>1 DEF Start, Announced, Started, Close, CloseSeals, CloseSealed, CloseLeaves, Crash, ReadAck,
       OnSignal, OnOwnDetails, OnConnect, Reannounce, ReannounceFails, RetryReannounce, RetrySucceeds,
       DrainLooks, DrainEnds, DrainAcks, DrainFails, Broker, NodeBinds, NodeChanges, Will, LinkDrops,
       LinkReturns, Lost, main, wire, again, known, writers, pending, drain, history, vars
<1>4. ASSUME NEW w \in Writers, SendCatalogue(w) \/ CataloguePublished(w) \/ SendSample(w) \/ Published(w) \/
     PublishTimesOut(w) PROVE dropped \subseteq dropped'
  BY <1>4, <1>1 DEF SendCatalogue, CataloguePublished, SendSample, Published, PublishTimesOut, main, wire,
       again, known, writers, pending, drain, history, vars
<1>5. ASSUME NEW w \in Writers, NEW p \in Paths, Declare(w, p) \/ PublishBuffered(w, p) \/ PublishRefused(w,
     p) PROVE dropped \subseteq dropped'
  BY <1>5, <1>1 DEF Declare, PublishBuffered, PublishRefused, Begin, Sample, main, wire, again, known,
       writers, pending, drain, history, vars
<1>6. ASSUME NEW w \in Writers, NEW p \in Paths, PublishBound(w, p) PROVE dropped \subseteq dropped'
  BY <1>6, BoundBegins
<1>7. CASE DrainPath
  BY <1>7 DEF DrainPath
<1>8. QED
  BY NextCases, <1>1, <1>2, <1>3, <1>4, <1>5, <1>6, <1>7

\* A step keeps the invariant.
LEMMA KeptNext ==
  ASSUME ServiceAssumption, TypeOK, TypeOK', KeptInv, [Next]_vars
  PROVE  KeptInv'
<1>1. AcceptedKept /\ TasksKept /\ PageKept
  BY DEF KeptInv
<1>2. \A q \in Paths, k \in Nat : Kept(q, k) => Kept(q, k)'
  BY <1>1, KeptStays
<1>3. \A t \in Writers, q \in Paths, k \in Nat : At(t, q, k) /\ wpc'[t] # "idle" => At(t, q, k)'
  BY AtStays, ThreadsHave
<1>4. \A q \in Paths, k \in Nat : At("drain", q, k) /\ dpc' = "settle" => At("drain", q, k)'
  BY AtStays, ThreadsHave
<1>5. AcceptedKept'
  BY <1>2, AcceptedStays DEF KeptInv
<1>6. TasksKept'
  BY <1>1, <1>2, <1>3, TasksStay
<1>7. PageKept'
  BY <1>1, <1>4, DroppedStays, PageStays
<1>8. QED
  BY <1>5, <1>6, <1>7 DEF KeptInv

\* A sample that publish() took without an error is at the node, on disk, or was not
\* wanted: for any number of writers, samples, crashes, lost links and timeouts.
THEOREM AcceptedCorrect == Spec => []AcceptedKept
<1>1. Init => KeptInv
  BY DEF Init, KeptInv, AcceptedKept, TasksKept, PageKept, NoTask, TaskOf
<1>2. TypeOK /\ TypeOK' /\ KeptInv /\ [Next]_vars => KeptInv'
  BY KeptNext, ServiceAssumption
<1>3. KeptInv => AcceptedKept
  BY DEF KeptInv
<1>4. QED
  BY <1>1, <1>2, <1>3, TypeCorrect, PTL DEF Spec

-----------------------------------------------------------------------------
(* A path keeps its tag id *)

\* Catalogue d has the ids of c.
Agrees(c, d) == \A p \in Paths : c[p].id # 0 => d[p].id = c[p].id

\* What the node was ever told is what it keeps, and what the service goes on from.
HeldIds == \A a \in held : a[2] # 0 /\ node.cat[a[1]].id = a[2]
NodeIds == Subscribed => Agrees(node.cat, cat)

\* No catalogue on its way takes an id back.
WireIds ==
    /\ \A i \in DOMAIN out : out[i].kind = "cat" => Agrees(node.cat, out[i].cat) /\ Agrees(out[i].cat, cat)
    /\ \A i, j \in DOMAIN out : i < j /\ out[i].kind = "cat" /\ out[j].kind = "cat" => Agrees(out[i].cat, out[j].cat)

\* Nor does one a caller of publish() is about to send.
TaskIds == \A w \in Writers : wpc[w] = "sendcat" => \A p \in Paths : task[w].payload[p].id = cat[p].id

IdInv == HeldIds /\ NodeIds /\ WireIds /\ TaskIds

\* One thread calls publish() and declare().
OneWriter == \A v, w \in Writers : v = w

LEMMA IdFrame ==
  ASSUME TypeOK, TypeOK', IdInv, node'.cat = node.cat, held' = held, Subscribed' => Subscribed, Agrees(cat, cat'),
         \A i \in DOMAIN out' : out'[i].kind = "cat" =>
            \/ i \in DOMAIN out /\ out'[i] = out[i]
            \/ Subscribed /\ (\A j \in DOMAIN out' : j <= i) /\ \A p \in Paths : out'[i].cat[p].id = cat'[p].id,
         \A w \in Writers : wpc'[w] = "sendcat" => \A p \in Paths : task'[w].payload[p].id = cat'[p].id
  PROVE  IdInv'
<1>1. HeldIds' /\ NodeIds' /\ TaskIds'
  BY DEF IdInv, HeldIds, NodeIds, TaskIds, Agrees
<1>2. ASSUME NEW i \in DOMAIN out', out'[i].kind = "cat"
      PROVE  Agrees(node.cat, out'[i].cat) /\ Agrees(out'[i].cat, cat')
  <2>1. CASE i \in DOMAIN out /\ out'[i] = out[i]
    <3>1. Agrees(node.cat, out[i].cat) /\ Agrees(out[i].cat, cat)
      BY <1>2, <2>1 DEF IdInv, WireIds
    <3>2. QED
      BY <2>1, <3>1 DEF Agrees
  <2>2. CASE Subscribed /\ \A p \in Paths : out'[i].cat[p].id = cat'[p].id
    BY <2>2 DEF Agrees, IdInv, NodeIds
  <2>3. QED
    BY <1>2, <2>1, <2>2
<1>3. ASSUME NEW i \in DOMAIN out', NEW j \in DOMAIN out', i < j, out'[i].kind = "cat", out'[j].kind = "cat"
      PROVE  Agrees(out'[i].cat, out'[j].cat)
  <2>1. CASE j \in DOMAIN out /\ out'[j] = out[j]
    <3>1. out \in Seq(Writes) /\ out' \in Seq(Writes)
      BY DEF TypeOK, WireOK
    <3>2. i \in Nat /\ j \in Nat
      BY <3>1
    <3>3. i \in DOMAIN out /\ out'[i] = out[i]
      <4>1. CASE \A k \in DOMAIN out' : k <= i
        BY <1>3, <3>2, <4>1
      <4>2. QED
        BY <1>3, <4>1
    <3>4. QED
      BY <1>3, <2>1, <3>3 DEF IdInv, WireIds
  <2>2. CASE \A p \in Paths : out'[j].cat[p].id = cat'[p].id
    BY <1>2, <1>3, <2>2 DEF Agrees
  <2>3. QED
    BY <1>3, <2>1, <2>2
<1>4. WireIds'
  BY <1>2, <1>3 DEF WireIds, Agrees
<1>5. QED
  BY <1>1, <1>4 DEF IdInv

\* A write that is sent is the last one; a page has no catalogue.
LEMMA SentLast ==
  ASSUME WireOK, NEW m \in Writes, Send(<<m>>)
  PROVE  \A i \in DOMAIN out' : \/ i \in DOMAIN out /\ out'[i] = out[i]
                                \/ (\A j \in DOMAIN out' : j <= i) /\ out'[i] = m
<1>1. out \in Seq(Writes) /\ out' \in Seq(Writes) /\ Len(out') = Len(out) + 1 /\ out'[Len(out) + 1] = m
      /\ \A i \in 1 .. Len(out) : out'[i] = out[i]
  BY SentOne DEF WireOK
<1>2. QED
  BY <1>1

LEMMA SentFirst ==
  ASSUME NEW m \in Writes, out = <<>>, Send(<<m>>)
  PROVE  \A i \in DOMAIN out' : out'[i] = m
<1>1. out' = <<>> \o <<m>>
  BY DEF Send
<1>2. <<>> \in Seq(Writes) /\ <<m>> \in Seq(Writes) /\ Len(<<>>) = 0 /\ Len(<<m>>) = 1 /\ <<m>>[1] = m
  OBVIOUS
<1>3. Len(out') = 1 /\ out' \in Seq(Writes) /\ out'[1] = m
  BY <1>1, <1>2
<1>4. QED
  BY <1>3

\* The step of a call of publish() or declare() that takes the path.
LEMMA IdsBegin ==
  ASSUME ServiceAssumption, OneWriter, TypeOK, TypeOK', IdInv, NEW w \in Writers, NEW p \in Paths, NEW k \in Nat, NEW b \in BOOLEAN,
         Begin(w, TaskOf(p, k, b), Ensured(p))
  PROVE  IdInv'
<1>1. KnownOK /\ WritersOK
  BY DEF TypeOK
<1>2. \A q \in Paths : cat[q].id # 0 => Ensured(p)[q].id = cat[q].id
  BY <1>1, EnsuredType
<1>3. task' = [task EXCEPT ![w] = [path |-> p, k |-> k, send |-> b, payload |-> Ensured(p)]] /\ Change(Ensured(p))
      /\ UNCHANGED <<main, wire, node, held>>
  BY <1>1, BeginsTask
<1>4. cat' = Ensured(p) /\ out' = out /\ mpc' = mpc /\ task'[w].payload = Ensured(p)
  BY <1>1, <1>3 DEF Change, wire, main, WritersOK
<1>5. \A v \in Writers : wpc'[v] = "sendcat" => \A q \in Paths : task'[v].payload[q].id = cat'[q].id
  BY <1>4 DEF OneWriter
<1>6. QED
  BY <1>2, <1>3, <1>4, <1>5, IdFrame DEF Agrees, Subscribed

\* A step keeps the invariant.
LEMMA IdNext ==
  ASSUME ServiceAssumption, OneWriter, TypeOK, TypeOK', IdInv, [Next]_vars
  PROVE  IdInv'
<1> MainOK /\ WireOK /\ KnownOK /\ WritersOK /\ RowsOK /\ DrainOK /\ NodeOK
  BY DEF TypeOK
<1>1. ASSUME UNCHANGED <<node, held, mpc, cat, out, wpc, task>> PROVE IdInv'
  BY <1>1 DEF IdInv, HeldIds, NodeIds, WireIds, TaskIds, Agrees, Subscribed
<1>2. CASE UNCHANGED vars
  BY <1>2, <1>1 DEF main, wire, again, known, writers, pending, drain, history, vars
<1>3. CASE ReadAck \/ OnSignal \/ OnConnect \/ ReannounceFails \/ RetryReannounce \/ DrainLooks \/ DrainEnds
     \/ DrainAcks \/ LinkDrops \/ LinkReturns
  BY <1>3, <1>1 DEF ReadAck, OnSignal, OnConnect, ReannounceFails, RetryReannounce, DrainLooks, DrainEnds,
       DrainAcks, LinkDrops, LinkReturns, main, wire, again, known, writers, pending, drain, history, vars
<1>4. CASE Start
  <2>1. out = <<>> /\ Send(<<DetailsOf("main", TRUE)>>) /\ cat' = node.cat /\ UNCHANGED <<node, held, wpc,
       task>>
    BY <1>4 DEF Start, LoadsPrevious, history, writers, MainOK, Subscribed
  <2>2. DetailsOf("main", TRUE) \in Writes /\ DetailsOf("main", TRUE).kind = "details"
    BY DetailsType, ThreadsHave DEF DetailsOf
  <2>3. \A i \in DOMAIN out' : out'[i].kind # "cat"
    BY <2>1, <2>2, SentFirst
  <2>4. \A w \in Writers : wpc'[w] # "sendcat"
    BY <1>4, <2>1 DEF Start, WritersOK
  <2>5. QED
    BY <2>1, <2>3, <2>4 DEF IdInv, HeldIds, NodeIds, WireIds, TaskIds, Agrees
<1>5. CASE Announced
  <2>1. cat' = Revived /\ (\A q \in Paths : cat[q].id # 0 => Revived[q].id = cat[q].id) /\ Revived \in
       Catalogues
    BY <1>5, AnnouncedChange, RevivedType DEF Change
  <2>2. UNCHANGED <<node, wpc, task>> /\ mpc = "announce" /\ (UNCHANGED out \/ Send(<<CatalogueOf("main",
       Revived)>>))
    BY <1>5, AnnouncedChange
  <2>3. CatalogueOf("main", Revived) \in Writes /\ CatalogueOf("main", Revived).cat = Revived
    BY <2>1, CatalogueType, ThreadsHave DEF CatalogueOf
  <2>4. \A i \in DOMAIN out' : \/ i \in DOMAIN out /\ out'[i] = out[i]
                               \/ (\A j \in DOMAIN out' : j <= i) /\ out'[i].cat = Revived
    BY <2>2, <2>3, SentLast
  <2>5. \A w \in Writers : wpc'[w] # "sendcat"
    BY <2>2 DEF WritersOK
  <2>6. held' = held /\ Subscribed
    BY <1>5, <2>2 DEF Announced, Subscribed
  <2>7. QED
    BY <2>1, <2>2, <2>4, <2>5, <2>6, IdFrame DEF Agrees
<1>6. CASE Started
  <2>1. UNCHANGED <<out, held, wpc, task, cat>> /\ node'.cat = node.cat /\ (Subscribed' => Subscribed)
    BY <1>6 DEF Started, Subscribed, main, wire, again, known, writers, pending, drain, history, vars
  <2>2. QED
    BY <2>1, IdFrame DEF Agrees, IdInv, TaskIds
<1>7. CASE Close
  <2>1. UNCHANGED <<out, held, wpc, task, cat>> /\ node'.cat = node.cat /\ (Subscribed' => Subscribed)
    BY <1>7 DEF Close, Subscribed, main, wire, again, known, writers, pending, drain, history, vars
  <2>2. QED
    BY <2>1, IdFrame DEF Agrees, IdInv, TaskIds
<1>8. CASE CloseSeals
  <2>1. cat' = Sealed /\ (\A q \in Paths : Sealed[q].id = cat[q].id) /\ Sealed \in Catalogues
    BY <1>8, SealedType DEF CloseSeals, Change
  <2>2. UNCHANGED <<node, wpc, task, held>> /\ Subscribed
        /\ (Send(<<CatalogueOf("main", Sealed)>>) \/ Send(<<DetailsOf("main", FALSE)>>))
    BY <1>8 DEF CloseSeals, writers, history, Subscribed
  <2>3. CatalogueOf("main", Sealed) \in Writes /\ CatalogueOf("main", Sealed).cat = Sealed
        /\ DetailsOf("main", FALSE) \in Writes /\ DetailsOf("main", FALSE).kind = "details"
    BY <2>1, CatalogueType, DetailsType, ThreadsHave DEF CatalogueOf, DetailsOf
  <2>4. \A i \in DOMAIN out' : out'[i].kind = "cat" =>
           \/ i \in DOMAIN out /\ out'[i] = out[i]
           \/ (\A j \in DOMAIN out' : j <= i) /\ out'[i].cat = Sealed
    BY <2>2, <2>3, SentLast
  <2>5. \A w \in Writers : wpc'[w] = "sendcat" => \A q \in Paths : task'[w].payload[q].id = cat'[q].id
    BY <2>1, <2>2 DEF IdInv, TaskIds
  <2>6. QED
    BY <2>1, <2>2, <2>4, <2>5, IdFrame DEF Agrees
<1>9. CASE CloseSealed
  <2>1. DetailsOf("main", FALSE) \in Writes /\ DetailsOf("main", FALSE).kind = "details"
    BY DetailsType, ThreadsHave DEF DetailsOf
  <2>2. (UNCHANGED out \/ Send(<<DetailsOf("main", FALSE)>>)) /\ UNCHANGED <<node, held, wpc, task, cat>> /\
       (Subscribed' => Subscribed)
    BY <1>9 DEF CloseSealed, Subscribed, main, wire, again, known, writers, pending, drain, history, vars
  <2>3. \A i \in DOMAIN out' : out'[i].kind = "cat" => i \in DOMAIN out /\ out'[i] = out[i]
    BY <2>1, <2>2, SentLast
  <2>4. QED
    BY <2>2, <2>3, IdFrame DEF Agrees, IdInv, TaskIds
<1>10. CASE CloseLeaves
  <2>1. out' = <<>> /\ ~Subscribed' /\ UNCHANGED <<node, held>> /\ \A v \in Writers : wpc'[v] = "idle"
    BY <1>10 DEF CloseLeaves, Lost, history, Subscribed
  <2>2. QED
    BY <2>1 DEF IdInv, HeldIds, NodeIds, WireIds, TaskIds
<1>11. CASE Crash
  <2>1. out' = <<>> /\ ~Subscribed' /\ UNCHANGED <<node, held>> /\ \A v \in Writers : wpc'[v] = "idle"
    BY <1>11 DEF Crash, Lost, history, Subscribed
  <2>2. QED
    BY <2>1 DEF IdInv, HeldIds, NodeIds, WireIds, TaskIds
<1>12. CASE OnOwnDetails
  <2>1. DetailsOf("none", TRUE) \in Writes /\ DetailsOf("none", TRUE).kind = "details"
    BY DetailsType, ThreadsHave DEF DetailsOf
  <2>2. (UNCHANGED out \/ Send(<<DetailsOf("none", TRUE)>>)) /\ UNCHANGED <<node, held, wpc, task, cat>> /\
       (Subscribed' => Subscribed)
    BY <1>12 DEF OnOwnDetails, Subscribed, main, wire, again, known, writers, pending, drain, history, vars
  <2>3. \A i \in DOMAIN out' : out'[i].kind = "cat" => i \in DOMAIN out /\ out'[i] = out[i]
    BY <2>1, <2>2, SentLast
  <2>4. QED
    BY <2>2, <2>3, IdFrame DEF Agrees, IdInv, TaskIds
<1>13. CASE Reannounce
  <2>1. DetailsOf("none", TRUE) \in Writes /\ DetailsOf("none", TRUE).kind = "details"
    BY DetailsType, ThreadsHave DEF DetailsOf
  <2>2. (UNCHANGED out \/ Send(<<DetailsOf("none", TRUE)>>)) /\ UNCHANGED <<node, held, wpc, task, cat>> /\
       (Subscribed' => Subscribed)
    BY <1>13 DEF Reannounce, Subscribed, main, wire, again, known, writers, pending, drain, history, vars
  <2>3. \A i \in DOMAIN out' : out'[i].kind = "cat" => i \in DOMAIN out /\ out'[i] = out[i]
    BY <2>1, <2>2, SentLast
  <2>4. QED
    BY <2>2, <2>3, IdFrame DEF Agrees, IdInv, TaskIds
<1>14. CASE RetrySucceeds
  <2>1. DetailsOf("none", TRUE) \in Writes /\ DetailsOf("none", TRUE).kind = "details"
    BY DetailsType, ThreadsHave DEF DetailsOf
  <2>2. (UNCHANGED out \/ Send(<<DetailsOf("none", TRUE)>>)) /\ UNCHANGED <<node, held, wpc, task, cat>> /\
       (Subscribed' => Subscribed)
    BY <1>14 DEF RetrySucceeds, Subscribed, main, wire, again, known, writers, pending, drain, history, vars
  <2>3. \A i \in DOMAIN out' : out'[i].kind = "cat" => i \in DOMAIN out /\ out'[i] = out[i]
    BY <2>1, <2>2, SentLast
  <2>4. QED
    BY <2>2, <2>3, IdFrame DEF Agrees, IdInv, TaskIds
<1>15. ASSUME NEW w \in Writers, NEW p \in Paths, Declare(w, p) PROVE IdInv'
  <2>1. PICK k \in Nat, b \in BOOLEAN : Begin(w, TaskOf(p, k, b), Ensured(p))
    BY <1>15, DeclareBegins
  <2>2. QED
    BY <2>1, IdsBegin
<1>16. ASSUME NEW w \in Writers, NEW p \in Paths, PublishBound(w, p) PROVE IdInv'
  <2>1. PICK k \in Nat, b \in BOOLEAN : Begin(w, TaskOf(p, k, b), Ensured(p))
    BY <1>16, BoundBegins
  <2>2. QED
    BY <2>1, IdsBegin
<1>17. ASSUME NEW w \in Writers, NEW p \in Paths, PublishBuffered(w, p) PROVE IdInv'
  <2>1. PICK k \in Nat, b \in BOOLEAN : Begin(w, TaskOf(p, k, b), Ensured(p))
    BY <1>17, BufferedBegins
  <2>2. QED
    BY <2>1, IdsBegin
<1>18. ASSUME NEW w \in Writers, NEW p \in Paths, PublishRefused(w, p) PROVE IdInv'
  <2>1. cat' = Ensured(p) /\ UNCHANGED <<out, node, held, wpc, task, mpc>> /\ wpc[w] = "idle"
    BY <1>18 DEF PublishRefused, Change, Writing, main, wire, again, known, writers, pending, drain, history,
         vars
  <2>2. \A q \in Paths : cat[q].id # 0 => Ensured(p)[q].id = cat[q].id
    BY EnsuredType
  <2>3. \A v \in Writers : wpc'[v] # "sendcat"
    BY <2>1 DEF OneWriter
  <2>4. QED
    BY <2>1, <2>2, <2>3, IdFrame DEF Agrees, Subscribed
<1>19. ASSUME NEW w \in Writers, SendCatalogue(w) PROVE IdInv'
  <2>1. wpc[w] = "sendcat" /\ Subscribed /\ Send(<<CatalogueOf(w, task[w].payload)>>) /\ wpc' = [wpc EXCEPT
       ![w] = "cat"]
        /\ UNCHANGED <<node, held, task, cat, mpc>>
    BY <1>19 DEF SendCatalogue, main, wire, again, known, writers, pending, drain, history, vars
  <2>2. task[w].payload \in Catalogues /\ \A q \in Paths : task[w].payload[q].id = cat[q].id
    BY <2>1 DEF IdInv, TaskIds, WritersOK
  <2>3. CatalogueOf(w, task[w].payload) \in Writes /\ CatalogueOf(w, task[w].payload).cat = task[w].payload
    BY <2>2, CatalogueType, ThreadsHave DEF CatalogueOf
  <2>4. \A i \in DOMAIN out' : \/ i \in DOMAIN out /\ out'[i] = out[i]
                               \/ (\A j \in DOMAIN out' : j <= i) /\ out'[i].cat = task[w].payload
    BY <2>1, <2>3, SentLast
  <2>5. \A v \in Writers : wpc'[v] = "sendcat" => wpc[v] = "sendcat"
    BY <2>1 DEF WritersOK
  <2>6. QED
    BY <2>1, <2>2, <2>4, <2>5, IdFrame DEF Agrees, IdInv, TaskIds
<1>20. ASSUME NEW w \in Writers, CataloguePublished(w) PROVE IdInv'
  <2>1. UNCHANGED <<out, held, cat, node, mpc>> /\ \A v \in Writers : wpc'[v] = "sendcat" => wpc[v] =
       "sendcat" /\ task'[v] = task[v]
    BY <1>20 DEF CataloguePublished, WritersOK, main, wire, again, known, writers, pending, drain, history,
         vars
  <2>2. QED
    BY <2>1, IdFrame DEF Agrees, IdInv, TaskIds, Subscribed
<1>21. ASSUME NEW w \in Writers, SendSample(w) PROVE IdInv'
  <2>1. MetricOf(w, task[w].path, task[w].k) \in Writes /\ MetricOf(w, task[w].path, task[w].k).kind =
       "metric"
    BY <1>21, SampleSends DEF MetricOf
  <2>2. Send(<<MetricOf(w, task[w].path, task[w].k)>>) /\ wpc' = [wpc EXCEPT ![w] = "metric"] /\ UNCHANGED
       <<node, held, task, cat, mpc>>
    BY <1>21 DEF SendSample, main, wire, again, known, writers, pending, drain, history, vars
  <2>3. \A i \in DOMAIN out' : out'[i].kind = "cat" => i \in DOMAIN out /\ out'[i] = out[i]
    BY <2>1, <2>2, SentLast
  <2>4. \A v \in Writers : wpc'[v] = "sendcat" => wpc[v] = "sendcat"
    BY <2>2 DEF WritersOK
  <2>5. QED
    BY <2>2, <2>3, <2>4, IdFrame DEF Agrees, IdInv, TaskIds, Subscribed
<1>22. ASSUME NEW w \in Writers, Published(w) PROVE IdInv'
  <2>1. UNCHANGED <<out, held, cat, node, mpc>> /\ \A v \in Writers : wpc'[v] = "sendcat" => wpc[v] =
       "sendcat" /\ task'[v] = task[v]
    BY <1>22 DEF Published, WritersOK, main, wire, again, known, writers, pending, drain, history, vars
  <2>2. QED
    BY <2>1, IdFrame DEF Agrees, IdInv, TaskIds, Subscribed
<1>23. ASSUME NEW w \in Writers, PublishTimesOut(w) PROVE IdInv'
  <2>1. UNCHANGED <<node, held, cat, mpc>> /\ Forget(w) /\ wpc' = [wpc EXCEPT ![w] = "idle"] /\ task' = [task
       EXCEPT ![w] = NoTask]
    BY <1>23 DEF PublishTimesOut, main, wire, again, known, writers, pending, drain, history, vars
  <2>2. \A v \in Writers : wpc'[v] = "sendcat" => wpc[v] = "sendcat" /\ task'[v] = task[v]
    BY <2>1 DEF WritersOK
  <2>3. DOMAIN out' = DOMAIN out /\ \A i \in DOMAIN out : /\ out'[i].kind = out[i].kind
                                                          /\ out[i].kind = "cat" => out'[i].cat = out[i].cat
    BY <2>1, ForgottenSame
  <2>4. QED
    BY <2>1, <2>2, <2>3 DEF IdInv, HeldIds, NodeIds, WireIds, TaskIds, Subscribed
<1>24. CASE DrainPath
  <2>1. UNCHANGED <<node, held, wpc, task, cat, mpc>>
    BY <1>24 DEF DrainPath, main, wire, again, known, writers, pending, drain, history, vars
  <2>2. \A i \in DOMAIN out' : out'[i].kind = "cat" => i \in DOMAIN out /\ out'[i] = out[i]
    <3>1. CASE UNCHANGED out
      BY <3>1
    <3>2. ASSUME NEW p \in dpaths, NEW s \in ById(rows[p]), Send([i \in DOMAIN s |-> MetricOf("drain", p,
         s[i])])
          PROVE  \A i \in DOMAIN out' : out'[i].kind = "cat" => i \in DOMAIN out /\ out'[i] = out[i]
      <4> DEFINE ms == [i \in DOMAIN s |-> MetricOf("drain", p, s[i])]
      <4>1. ms \in Seq(Writes) /\ Send(ms) /\ \A i \in DOMAIN ms : ms[i].kind = "metric"
        BY <3>2, PageSends DEF MetricOf
      <4> HIDE DEF ms
      <4>2. out \in Seq(Writes)
        BY DEF WireOK
      <4>3. out' \in Seq(Writes) /\ (\A i \in 1 .. Len(out) : out'[i] = out[i])
            /\ \A i \in DOMAIN out' : i \in DOMAIN out \/ (i - Len(out) \in DOMAIN ms /\ out'[i] = ms[i -
                 Len(out)])
        BY <4>1, <4>2, SentList
      <4>4. QED
        BY <4>1, <4>2, <4>3
    <3>3. QED
      BY <1>24, <3>1, <3>2 DEF DrainPath
  <2>3. QED
    BY <2>1, <2>2, IdFrame DEF Agrees, IdInv, TaskIds, Subscribed
<1>25. CASE DrainFails
  <2>1. UNCHANGED <<node, held, cat, mpc>> /\ Forget("drain") /\ UNCHANGED <<wpc, task>>
    BY <1>25 DEF DrainFails, main, wire, again, known, writers, pending, drain, history, vars
  <2>2. \A v \in Writers : wpc'[v] = "sendcat" => wpc[v] = "sendcat" /\ task'[v] = task[v]
    BY <2>1 DEF WritersOK
  <2>3. DOMAIN out' = DOMAIN out /\ \A i \in DOMAIN out : /\ out'[i].kind = out[i].kind
                                                          /\ out[i].kind = "cat" => out'[i].cat = out[i].cat
    BY <2>1, ForgottenSame
  <2>4. QED
    BY <2>1, <2>2, <2>3 DEF IdInv, HeldIds, NodeIds, WireIds, TaskIds, Subscribed
<1>26. CASE Broker
  <2>1. UNCHANGED <<mpc, cat, wpc, task>> /\ out \in Seq(Writes) /\ out' \in Seq(Writes) /\ out # <<>> /\ out'
       = Tail(out)
    <3>1. UNCHANGED <<mpc, cat, wpc, task>>
      BY <1>26 DEF Broker, main, known, writers
    <3>2. out \in Seq(Writes) /\ out # <<>> /\ out' = Tail(out)
      BY <1>26, BrokerMoves DEF WireOK
    <3>3. Tail(out) \in Seq(Writes)
      BY <3>2
    <3>4. QED
      BY <3>1, <3>2, <3>3
  <2>2. (\A i \in DOMAIN out' : i + 1 \in DOMAIN out /\ out'[i] = out[i + 1]) /\ 1 \in DOMAIN out /\ Head(out)
       = out[1]
    BY <2>1
  <2>3. \A i \in DOMAIN out' : i \in Nat \ {0} /\ i + 1 > 1
    BY <2>1
  <2>4. CASE Head(out).kind = "cat"
    <3>1. node'.cat = Head(out).cat
      BY <1>26, <2>4, BrokerTakes DEF NodeOK
    <3>2. held' = held \cup {<<p, Head(out).cat[p].id>> : p \in {q \in Paths : Head(out).cat[q].id # 0}}
      BY <1>26, <2>4 DEF Broker
    <3>3. Agrees(node.cat, Head(out).cat) /\ Agrees(Head(out).cat, cat)
          /\ \A i \in DOMAIN out' : out'[i].kind = "cat" => Agrees(Head(out).cat, out'[i].cat) /\
               Agrees(out'[i].cat, cat)
      BY <2>2, <2>3, <2>4 DEF IdInv, WireIds
    <3>4. HeldIds'
      <4>1. ASSUME NEW a \in held PROVE a[2] # 0 /\ Head(out).cat[a[1]].id = a[2]
        BY <3>3 DEF IdInv, HeldIds, Agrees, NodeOK
      <4>2. ASSUME NEW p \in Paths, Head(out).cat[p].id # 0, NEW a, a = <<p, Head(out).cat[p].id>>
            PROVE  a[2] # 0 /\ Head(out).cat[a[1]].id = a[2]
        BY <4>2
      <4>3. QED
        BY <3>1, <3>2, <4>1, <4>2 DEF HeldIds
    <3>5. NodeIds' /\ TaskIds'
      BY <2>1, <3>1, <3>3 DEF IdInv, NodeIds, TaskIds, Agrees
    <3>6. WireIds'
      <4>1. ASSUME NEW i \in DOMAIN out', NEW j \in DOMAIN out', i < j, out'[i].kind = "cat", out'[j].kind =
           "cat"
            PROVE  Agrees(out'[i].cat, out'[j].cat)
        <5>1. i + 1 < j + 1
          BY <2>3, <4>1
        <5>2. QED
          BY <2>2, <4>1, <5>1 DEF IdInv, WireIds
      <4>2. QED
        BY <2>1, <3>1, <3>3, <4>1 DEF WireIds, Agrees
    <3>7. QED
      BY <3>4, <3>5, <3>6 DEF IdInv
  <2>5. CASE Head(out).kind # "cat"
    <3>1. node'.cat = node.cat /\ held' = held
      BY <1>26, <2>5, BrokerKeepsCat DEF Broker
    <3>2. \A i \in DOMAIN out' : out'[i].kind = "cat" => Agrees(node.cat, out'[i].cat) /\ Agrees(out'[i].cat,
         cat)
      BY <2>2 DEF IdInv, WireIds
    <3>3. ASSUME NEW i \in DOMAIN out', NEW j \in DOMAIN out', i < j, out'[i].kind = "cat", out'[j].kind =
         "cat"
          PROVE  Agrees(out'[i].cat, out'[j].cat)
      <4>1. i + 1 < j + 1
        BY <2>3, <3>3
      <4>2. QED
        BY <2>2, <3>3, <4>1 DEF IdInv, WireIds
    <3>4. QED
      BY <2>1, <3>1, <3>2, <3>3 DEF IdInv, HeldIds, NodeIds, WireIds, TaskIds, Agrees, Subscribed
  <2>6. QED
    BY <2>4, <2>5
<1>27. CASE NodeBinds
  <2>1. UNCHANGED <<out, held, wpc, task, cat>> /\ node'.cat = node.cat /\ (Subscribed' => Subscribed)
    BY <1>27 DEF NodeBinds, Subscribed, main, wire, again, known, writers, pending, drain, history, vars,
         Tell, NodeOK
  <2>2. QED
    BY <2>1, IdFrame DEF Agrees, IdInv, TaskIds
<1>28. CASE NodeChanges
  <2>1. UNCHANGED <<out, held, wpc, task, cat>> /\ node'.cat = node.cat /\ (Subscribed' => Subscribed)
    BY <1>28 DEF NodeChanges, Subscribed, main, wire, again, known, writers, pending, drain, history, vars,
         Tell, NodeOK
  <2>2. QED
    BY <2>1, IdFrame DEF Agrees, IdInv, TaskIds
<1>29. CASE Will
  <2>1. UNCHANGED <<out, held, wpc, task, cat>> /\ node'.cat = node.cat /\ (Subscribed' => Subscribed)
    BY <1>29 DEF Will, Subscribed, main, wire, again, known, writers, pending, drain, history, vars, Tell,
         NodeOK
  <2>2. QED
    BY <2>1, IdFrame DEF Agrees, IdInv, TaskIds
<1>30. QED
  BY NextCases, <1>1, <1>2, <1>3, <1>4, <1>5, <1>6, <1>7, <1>8, <1>9, <1>10, <1>11, <1>12, <1>13, <1>14,
       <1>15, <1>16, <1>17, <1>18, <1>19, <1>20, <1>21, <1>22, <1>23, <1>24, <1>25, <1>26, <1>27, <1>28, <1>29

\* Where one thread calls publish(), a path keeps its tag id over every crash and
\* restart; two of them may publish their catalogues in the other order than they
\* made them, and a crash then loses an id.
THEOREM IdCorrect == ASSUME OneWriter PROVE Spec => []IdKept
<1>1. Init => IdInv
  <2>1. SUFFICES ASSUME Init PROVE IdInv
    OBVIOUS
  <2>2. held = {} /\ out = <<>> /\ ~Subscribed /\ \A w \in Writers : wpc[w] = "idle"
    BY <2>1 DEF Init, Subscribed
  <2>3. QED
    BY <2>2 DEF IdInv, HeldIds, NodeIds, WireIds, TaskIds
<1>2. TypeOK /\ TypeOK' /\ IdInv /\ [Next]_vars => IdInv'
  BY IdNext, ServiceAssumption
<1>3. TypeOK /\ IdInv => IdKept
  <2>1. SUFFICES ASSUME TypeOK, IdInv, NEW a \in held, NEW b \in held, a[1] = b[1] PROVE a = b
    BY DEF IdKept
  <2>2. a[2] = b[2] /\ a \in Paths \X Nat /\ b \in Paths \X Nat
    BY <2>1 DEF IdInv, HeldIds, TypeOK, NodeOK
  <2>3. QED
    BY <2>1, <2>2
<1>4. QED
  BY <1>1, <1>2, <1>3, TypeCorrect, PTL DEF Spec

-----------------------------------------------------------------------------
(* The samples of a path reach the node in order *)

IsMetric(i, p) == i \in DOMAIN out /\ out[i].kind = "metric" /\ out[i].path = p

\* The stream of a path is what the node has of it and then what is on its way.
InStream(p, k) == k \in Range(node.got[p]) \/ \E i \in DOMAIN out : IsMetric(i, p) /\ out[i].k = k

NoneAfter(p, k) ==
    /\ \A x \in Range(node.got[p]) : x <= k
    /\ \A i \in DOMAIN out : IsMetric(i, p) => out[i].k <= k

\* Sample k of p comes before the write at i.
Ahead(p, i, k) == k \in Range(node.got[p]) \/ \E l \in DOMAIN out : l < i /\ IsMetric(l, p) /\ out[l].k = k

\* What is on its way only repeats what it is behind of.
WaitInOrder ==
    /\ \A p \in Paths : \A j \in DOMAIN out : IsMetric(j, p) =>
          \A x \in Range(node.got[p]) : x > out[j].k => out[j].k \in Range(node.got[p])
    /\ \A p \in Paths : \A i, j \in DOMAIN out :
          i < j /\ IsMetric(i, p) /\ IsMetric(j, p) /\ out[i].k > out[j].k => Ahead(p, i, out[j].k)

\* A row was published before, or everything published is older.
RowsWait == \A p \in Paths : \A r \in rows[p] : InStream(p, r) \/ NoneAfter(p, r)
MadeLast == \A p \in Paths : NoneAfter(p, made[p])

\* A sample that goes past the disk is the newest, and no row of its path waits.
TaskLast ==
    \A w \in Writers : task[w].send /\ wpc[w] \in {"sendcat", "cat", "sendmetric"} =>
        task[w].k = made[task[w].path] /\ rows[task[w].path] = {}

StreamOK == ReadInOrder /\ WaitInOrder
OrderInv == StreamOK /\ RowsWait /\ MadeLast /\ TaskLast

\* The numbers of a stream.
LEMMA StreamNat ==
  ASSUME TypeOK, NEW p \in Paths
  PROVE  /\ \A x \in Range(node.got[p]) : x \in Nat
         /\ \A i \in DOMAIN out : IsMetric(i, p) => out[i].k \in Nat
         /\ \A i \in DOMAIN out : i \in Nat \ {0}
         /\ made[p] \in Nat /\ \A r \in rows[p] : r \in Nat
<1>1. node.got[p] \in Seq(Nat) /\ out \in Seq(Writes)
  BY DEF TypeOK, NodeOK, WireOK
<1>2. \A x \in Range(node.got[p]) : x \in Nat
  BY <1>1 DEF Range
<1>3. \A i \in DOMAIN out : IsMetric(i, p) => out[i].k \in Nat
  BY <1>1, WriteKinds DEF IsMetric
<1>4. QED
  BY <1>1, <1>2, <1>3 DEF TypeOK, RowsOK

LEMMA NoneAfterMore ==
  ASSUME TypeOK, NEW p \in Paths, NEW j \in Nat, NoneAfter(p, j), NEW k \in Nat, k >= j
  PROVE  NoneAfter(p, k)
<1>1. \A x \in Range(node.got[p]) : x <= k
  BY StreamNat DEF NoneAfter
<1>2. ASSUME NEW i \in DOMAIN out, IsMetric(i, p) PROVE out[i].k <= k
  <2>1. out[i].k \in Nat /\ out[i].k <= j
    BY <1>2, StreamNat DEF NoneAfter
  <2>2. QED
    BY <2>1
<1>3. QED
  BY <1>1, <1>2 DEF NoneAfter

\* A step that keeps the streams in order, with the rows and samples there were.
StreamStep ==
    /\ StreamOK'
    /\ \A p \in Paths : \A r \in rows[p] : (InStream(p, r) \/ NoneAfter(p, r))'
    /\ \A p \in Paths : \A k \in Nat : k >= made[p] => NoneAfter(p, k)'

\* No sample came or went.
LEMMA StreamSame ==
  ASSUME TypeOK, StreamOK, RowsWait, MadeLast, node'.got = node.got,
         \A p \in Paths : \A i : /\ IsMetric(i, p)' <=> IsMetric(i, p)
                                 /\ IsMetric(i, p) => out'[i].k = out[i].k
  PROVE  StreamStep
<1>1. ReadInOrder'
  BY DEF StreamOK, ReadInOrder
<1>2. ASSUME NEW p \in Paths
      PROVE  /\ \A k : InStream(p, k)' <=> InStream(p, k)
             /\ \A k : NoneAfter(p, k)' <=> NoneAfter(p, k)
             /\ \A i, k : Ahead(p, i, k)' <=> Ahead(p, i, k)
  BY DEF InStream, NoneAfter, Ahead, IsMetric
<1>3. ASSUME NEW p \in Paths, NEW j \in DOMAIN out', IsMetric(j, p)', NEW x \in Range(node'.got[p]), x > out'[j].k
      PROVE  out'[j].k \in Range(node'.got[p])
  BY <1>3 DEF StreamOK, WaitInOrder, IsMetric
<1>4. ASSUME NEW p \in Paths, NEW i \in DOMAIN out', NEW j \in DOMAIN out', i < j, IsMetric(i, p)', IsMetric(j, p)',
             out'[i].k > out'[j].k
      PROVE  Ahead(p, i, out[j].k)'
  <2>1. IsMetric(i, p) /\ IsMetric(j, p) /\ out'[i].k = out[i].k /\ out'[j].k = out[j].k
    BY <1>4
  <2>2. Ahead(p, i, out[j].k)
    BY <1>4, <2>1 DEF StreamOK, WaitInOrder, IsMetric
  <2>3. QED
    BY <2>1, <2>2 DEF Ahead, IsMetric
<1>5. WaitInOrder'
  BY <1>3, <1>4 DEF WaitInOrder
<1>6. ASSUME NEW p \in Paths, NEW k \in Nat, k >= made[p] PROVE NoneAfter(p, k)
  BY <1>6, NoneAfterMore, StreamNat DEF MadeLast
<1>7. QED
  BY <1>1, <1>2, <1>5, <1>6 DEF StreamOK, RowsWait, StreamStep

\* Samples of one path, in order, that were sent before or are the newest.
LEMMA StreamAppended ==
  ASSUME TypeOK, TypeOK', StreamOK, RowsWait, MadeLast, node' = node,
         NEW q \in Paths, NEW ms \in Seq(Writes), Send(ms),
         \A i \in DOMAIN ms : ms[i].kind = "metric" /\ ms[i].path = q,
         \A i, j \in DOMAIN ms : i < j => ms[i].k < ms[j].k,
         \A i \in DOMAIN ms : ms[i].k <= made[q] /\ (InStream(q, ms[i].k) \/ NoneAfter(q, ms[i].k)),
         \A r \in rows[q] : \E i \in DOMAIN ms : ms[i].k = r
  PROVE  StreamStep
<1>1. out \in Seq(Writes) /\ out' \in Seq(Writes) /\ Len(out') = Len(out) + Len(ms) /\ Len(out) \in Nat /\ Len(ms) \in Nat
  BY SentList DEF TypeOK, WireOK
<1>2. /\ DOMAIN out = 1 .. Len(out) /\ DOMAIN out' = 1 .. Len(out) + Len(ms) /\ DOMAIN ms = 1 .. Len(ms)
  BY <1>1
<1>3. ASSUME NEW i \in DOMAIN out PROVE i \in DOMAIN out' /\ out'[i] = out[i]
  <2>1. out'[i] = out[i]
    BY <1>1, <1>2, SentList
  <2>2. QED
    BY <1>1, <1>2, <2>1
<1>4. ASSUME NEW i \in DOMAIN out', i \notin DOMAIN out
      PROVE  i - Len(out) \in DOMAIN ms /\ out'[i] = ms[i - Len(out)]
  BY <1>1, <1>4, SentList
<1>5. ASSUME NEW i \in DOMAIN ms PROVE Len(out) + i \in DOMAIN out' /\ out'[Len(out) + i] = ms[i]
  <2>1. out'[Len(out) + i] = ms[i]
    BY <1>1, <1>2, SentList
  <2>2. QED
    BY <1>1, <1>2, <2>1
<1>6. ReadInOrder'
  BY DEF StreamOK, ReadInOrder
<1>7. ASSUME NEW p \in Paths, NEW i, IsMetric(i, p)'
      PROVE  \/ IsMetric(i, p) /\ out'[i] = out[i]
             \/ i \notin DOMAIN out /\ p = q /\ i - Len(out) \in DOMAIN ms /\ out'[i] = ms[i - Len(out)]
  <2>1. CASE i \in DOMAIN out
    BY <1>3, <1>7, <2>1 DEF IsMetric
  <2>2. CASE i \notin DOMAIN out
    <3>1. i \in DOMAIN out' /\ out'[i].path = p
      BY <1>7 DEF IsMetric
    <3>2. i - Len(out) \in DOMAIN ms /\ out'[i] = ms[i - Len(out)]
      BY <1>4, <2>2, <3>1
    <3>3. QED
      BY <2>2, <3>1, <3>2
  <2>3. QED
    BY <2>1, <2>2
<1>8. ASSUME NEW p, NEW i, NEW k, Ahead(p, i, k) PROVE Ahead(p, i, k)'
  <2>1. CASE k \in Range(node.got[p])
    BY <2>1 DEF Ahead
  <2>2. ASSUME NEW l \in DOMAIN out, l < i, IsMetric(l, p), out[l].k = k PROVE Ahead(p, i, k)'
    <3>1. l \in DOMAIN out' /\ out'[l] = out[l]
      BY <1>3
    <3>2. IsMetric(l, p)'
      BY <2>2, <3>1 DEF IsMetric
    <3>3. QED
      BY <2>2, <3>1, <3>2 DEF Ahead
  <2>3. QED
    BY <1>8, <2>1, <2>2 DEF Ahead
<1>9. ASSUME NEW p \in Paths, NEW j \in DOMAIN out', IsMetric(j, p)', NEW x \in Range(node.got[p]), x > out'[j].k
      PROVE  out'[j].k \in Range(node.got[p])
  <2>1. CASE IsMetric(j, p) /\ out'[j] = out[j]
    BY <1>9, <2>1 DEF StreamOK, WaitInOrder, IsMetric
  <2>2. CASE p = q /\ j - Len(out) \in DOMAIN ms /\ out'[j] = ms[j - Len(out)]
    <3> DEFINE k == ms[j - Len(out)].k
    <3>1. InStream(p, k) \/ NoneAfter(p, k)
      BY <2>2
    <3>2. x > k
      BY <1>9, <2>2
    <3>3. x \in Nat /\ k \in Nat
      <4>1. IsMetric(j, p)' => out'[j].k \in Nat
        BY StreamNat, <1>7, WriteKinds, <2>2
      <4>2. QED
        BY <1>9, <2>2, <4>1, StreamNat
    <3> HIDE DEF k
    <3>4. ~NoneAfter(p, k)
      BY <3>2, <3>3 DEF NoneAfter
    <3>5. ASSUME NEW i \in DOMAIN out, IsMetric(i, p), out[i].k = k PROVE k \in Range(node.got[p])
      BY <3>2, <3>5 DEF StreamOK, WaitInOrder
    <3>6. k \in Range(node.got[p])
      BY <3>1, <3>4, <3>5 DEF InStream
    <3>7. QED
      BY <2>2, <3>6 DEF k
  <2>3. QED
    BY <1>7, <1>9, <2>1, <2>2
<1>10. ASSUME NEW p \in Paths, NEW i \in DOMAIN out', NEW j \in DOMAIN out', i < j, IsMetric(i, p)', IsMetric(j, p)',
              out'[i].k > out'[j].k, NEW k, k = out'[j].k
       PROVE  Ahead(p, i, k)'
  <2>1. i \in Nat /\ j \in Nat
    BY <1>1
  <2>2. CASE IsMetric(j, p) /\ out'[j] = out[j]
    <3>1. IsMetric(i, p) /\ out'[i] = out[i]
      <4>1. i \in DOMAIN out
        BY <1>1, <1>2, <1>10, <2>1, <2>2 DEF IsMetric
      <4>2. QED
        BY <1>7, <1>10, <4>1
    <3>2. Ahead(p, i, k)
      BY <1>10, <2>2, <3>1 DEF StreamOK, WaitInOrder, IsMetric
    <3>3. QED
      BY <1>8, <2>2, <3>2
  <2>3. CASE p = q /\ j \notin DOMAIN out /\ j - Len(out) \in DOMAIN ms /\ out'[j] = ms[j - Len(out)]
    <3>1. InStream(p, k) \/ NoneAfter(p, k)
      BY <1>10, <2>3
    <3>2. k \in Nat /\ out'[i].k \in Nat
      <4>1. out'[i] \in Writes /\ out'[j] \in Writes
        BY <1>1
      <4>2. out'[i].kind = "metric" /\ out'[j].kind = "metric"
        BY <1>10 DEF IsMetric
      <4>3. QED
        BY <1>10, <4>1, <4>2, WriteKinds
    <3>3. out'[i].k > k
      BY <1>10
    <3>4. IsMetric(i, p) /\ out'[i] = out[i]
      <4>1. CASE i - Len(out) \in DOMAIN ms /\ out'[i] = ms[i - Len(out)]
        <5>1. i - Len(out) < j - Len(out)
          BY <1>1, <1>10, <2>1
        <5>2. ms[i - Len(out)].k < ms[j - Len(out)].k
          BY <2>3, <4>1, <5>1
        <5>3. out'[i].k < k
          BY <1>10, <2>3, <4>1, <5>2
        <5>4. QED
          BY <3>2, <3>3, <5>3
      <4>2. QED
        BY <1>7, <1>10, <4>1
    <3>5. ~NoneAfter(p, k)
      <4>1. out[i].k \in Nat /\ out[i].k > k /\ i \in DOMAIN out
        BY <3>2, <3>3, <3>4 DEF IsMetric
      <4>2. QED
        BY <3>2, <3>4, <4>1 DEF NoneAfter
    <3>6. ASSUME NEW l \in DOMAIN out, IsMetric(l, p), out[l].k = k PROVE Ahead(p, i, k)
      <4>1. l \in Nat /\ i \in DOMAIN out
        BY <1>1, <3>4 DEF IsMetric
      <4>2. CASE l < i
        BY <3>6, <4>2 DEF Ahead
      <4>3. CASE l = i
        BY <3>2, <3>3, <3>4, <3>6, <4>3
      <4>4. CASE i < l
        <5>1. out[i].k > out[l].k
          BY <3>3, <3>4, <3>6
        <5>2. QED
          BY <3>4, <3>6, <4>1, <4>4, <5>1 DEF StreamOK, WaitInOrder
      <4>5. QED
        BY <2>1, <4>1, <4>2, <4>3, <4>4
    <3>7. Ahead(p, i, k)
      <4>1. CASE k \in Range(node.got[p])
        BY <4>1 DEF Ahead
      <4>2. QED
        BY <3>1, <3>5, <3>6, <4>1 DEF InStream
    <3>8. QED
      BY <1>8, <3>7
  <2>4. QED
    BY <1>7, <1>10, <2>2, <2>3
<1>11. WaitInOrder'
  BY <1>9, <1>10 DEF WaitInOrder, Ahead
<1>12. ASSUME NEW p \in Paths, NEW r \in rows[p] PROVE (InStream(p, r) \/ NoneAfter(p, r))'
  <2>1. CASE InStream(p, r)
    <3>1. CASE r \in Range(node.got[p])
      BY <3>1 DEF InStream
    <3>2. ASSUME NEW i \in DOMAIN out, IsMetric(i, p), out[i].k = r PROVE InStream(p, r)'
      BY <1>3, <3>2 DEF InStream, IsMetric
    <3>3. QED
      BY <2>1, <3>1, <3>2 DEF InStream
  <2>2. CASE p = q
    <3>1. PICK i \in DOMAIN ms : ms[i].k = r
      BY <2>2
    <3>2. PICK j \in DOMAIN out' : out'[j] = ms[i]
      BY <1>5
    <3>3. IsMetric(j, p)'
      BY <2>2, <3>2 DEF IsMetric
    <3>4. QED
      BY <3>1, <3>2, <3>3 DEF InStream
  <2>3. CASE p # q /\ NoneAfter(p, r)
    BY <1>7, <2>3 DEF NoneAfter, IsMetric
  <2>4. QED
    BY <2>1, <2>2, <2>3 DEF RowsWait
<1>13. ASSUME NEW p \in Paths, NEW k \in Nat, k >= made[p] PROVE NoneAfter(p, k)'
  <2>1. NoneAfter(p, k)
    BY <1>13, NoneAfterMore, StreamNat DEF MadeLast
  <2>2. ASSUME NEW i \in DOMAIN out', IsMetric(i, p)' PROVE out'[i].k <= k
    <3>1. CASE IsMetric(i, p) /\ out'[i] = out[i]
      BY <2>1, <3>1 DEF NoneAfter, IsMetric
    <3>2. CASE p = q /\ i - Len(out) \in DOMAIN ms /\ out'[i] = ms[i - Len(out)]
      <4>1. out'[i].k <= made[p] /\ made[p] \in Nat
        BY <3>2, StreamNat
      <4>2. out'[i].k \in Nat
        BY <1>1, <2>2, WriteKinds DEF IsMetric
      <4>3. QED
        BY <1>13, <4>1, <4>2
    <3>3. QED
      BY <1>7, <2>2, <3>1, <3>2
  <2>3. QED
    BY <2>1, <2>2 DEF NoneAfter
<1>14. QED
  BY <1>6, <1>11, <1>12, <1>13 DEF StreamOK, StreamStep

\* What was on its way is lost with the process; what is left is still in order.
LEMMA StreamLost ==
  ASSUME TypeOK, StreamOK, RowsWait, MadeLast, node' = node, out' = <<>>
  PROVE  StreamStep
<1>1. StreamOK'
  BY DEF StreamOK, ReadInOrder, WaitInOrder
<1>2. ASSUME NEW p \in Paths, NEW r \in rows[p] PROVE (InStream(p, r) \/ NoneAfter(p, r))'
  <2>1. CASE r \in Range(node.got[p])
    BY <2>1 DEF InStream
  <2>2. ASSUME NEW i \in DOMAIN out, IsMetric(i, p), out[i].k = r, r \notin Range(node.got[p]) PROVE NoneAfter(p, r)'
    <3>1. ASSUME NEW x \in Range(node.got[p]) PROVE x <= r
      <4>1. ~(x > r)
        BY <2>2 DEF StreamOK, WaitInOrder
      <4>2. x \in Nat /\ r \in Nat
        BY StreamNat
      <4>3. QED
        BY <4>1, <4>2
    <3>2. QED
      BY <3>1 DEF NoneAfter
  <2>3. CASE NoneAfter(p, r)
    BY <2>3 DEF NoneAfter
  <2>4. QED
    BY <2>1, <2>2, <2>3 DEF RowsWait, InStream
<1>3. ASSUME NEW p \in Paths, NEW k \in Nat, k >= made[p] PROVE NoneAfter(p, k)'
  <2>1. NoneAfter(p, k)
    BY <1>3, NoneAfterMore, StreamNat DEF MadeLast
  <2>2. QED
    BY <2>1 DEF NoneAfter
<1>4. QED
  BY <1>1, <1>2, <1>3 DEF StreamStep

LEMMA RangeAppend ==
  ASSUME NEW g \in Seq(Nat), NEW a \in Nat
  PROVE  \A x : x \in Range(Append(g, a)) <=> x \in Range(g) \/ x = a
<1>1. DOMAIN g = 1 .. Len(g) /\ DOMAIN Append(g, a) = 1 .. Len(g) + 1 /\ Len(g) \in Nat
  OBVIOUS
<1>2. Append(g, a)[Len(g) + 1] = a /\ \A i \in 1 .. Len(g) : Append(g, a)[i] = g[i]
  OBVIOUS
<1>3. 1 .. Len(g) + 1 = (1 .. Len(g)) \cup {Len(g) + 1}
  BY <1>1
<1>4. QED
  BY <1>1, <1>2, <1>3 DEF Range

\* The node reads the next write.
LEMMA StreamRead ==
  ASSUME TypeOK, TypeOK', StreamOK, RowsWait, MadeLast, Broker
  PROVE  StreamStep
<1> WireOK /\ NodeOK
  BY DEF TypeOK
<1>1. out \in Seq(Writes) /\ out # <<>> /\ 1 \in DOMAIN out /\ Head(out) = out[1] /\ out' \in Seq(Writes)
  BY BrokerMoves DEF WireOK, TypeOK
<1>2. /\ \A i \in DOMAIN out : i # 1 => i - 1 \in DOMAIN out' /\ out'[i - 1] = out[i]
      /\ \A i \in DOMAIN out' : i \in Nat \ {0} /\ i + 1 \in DOMAIN out /\ out'[i] = out[i + 1]
  BY <1>1, BrokerMoves
<1>3. ASSUME NEW p \in Paths
      PROVE  IF IsMetric(1, p)
             THEN /\ node'.got[p] = Append(node.got[p], out[1].k) /\ out[1].k \in Nat
                  /\ \A x : x \in Range(node'.got[p]) <=> x \in Range(node.got[p]) \/ x = out[1].k
             ELSE node'.got[p] = node.got[p]
  <2>1. CASE IsMetric(1, p)
    <3>1. node'.got[p] = Append(node.got[p], out[1].k) /\ out[1].k \in Nat
      BY <1>1, <2>1, BrokerMoves, StreamNat DEF IsMetric
    <3>2. node.got[p] \in Seq(Nat)
      BY DEF NodeOK
    <3>3. QED
      BY <2>1, <3>1, <3>2, RangeAppend
  <2>2. CASE ~IsMetric(1, p)
    BY <1>1, <2>2, BrokerMoves DEF IsMetric
  <2>3. QED
    BY <2>1, <2>2
<1>4. ASSUME NEW p \in Paths, NEW i, IsMetric(i, p)'
      PROVE  i + 1 \in DOMAIN out /\ IsMetric(i + 1, p) /\ out'[i] = out[i + 1] /\ i \in Nat \ {0}
  BY <1>2, <1>4 DEF IsMetric
<1>5. ASSUME NEW p \in Paths, NEW k, k \in Range(node.got[p]) PROVE k \in Range(node'.got[p])
  BY <1>3, <1>5
<1>6. ASSUME NEW p \in Paths, NEW l \in DOMAIN out, IsMetric(l, p)
      PROVE  \/ l = 1 /\ out[l].k \in Range(node'.got[p])
             \/ l - 1 \in DOMAIN out' /\ IsMetric(l - 1, p)' /\ out'[l - 1] = out[l]
  <2>1. CASE l = 1
    BY <1>3, <1>6, <2>1
  <2>2. CASE l # 1
    <3>1. PICK m \in DOMAIN out' : m = l - 1 /\ out'[m] = out[l]
      BY <1>2, <2>2
    <3>2. IsMetric(m, p)'
      BY <1>6, <3>1 DEF IsMetric
    <3>3. QED
      BY <3>1, <3>2
  <2>3. QED
    BY <2>1, <2>2
<1>7. ReadInOrder'
  <2>1. SUFFICES ASSUME NEW p \in Paths, NEW i \in DOMAIN node'.got[p], NEW j \in DOMAIN node'.got[p],
                        i < j, node'.got[p][i] > node'.got[p][j]
                 PROVE  \E k \in 1 .. i - 1 : node'.got[p][k] = node'.got[p][j]
    BY DEF ReadInOrder
  <2>2. CASE ~IsMetric(1, p)
    <3>1. node'.got[p] = node.got[p]
      BY <1>3, <2>2
    <3>2. QED
      BY <2>1, <3>1 DEF StreamOK, ReadInOrder
  <2>3. CASE IsMetric(1, p)
    <3> DEFINE g == node.got[p]
               a == out[1].k
    <3>1. g \in Seq(Nat) /\ a \in Nat /\ node'.got[p] = Append(g, a)
      BY <1>3, <2>3 DEF NodeOK
    <3>2. \A c, d \in DOMAIN g : c < d /\ g[c] > g[d] => \E k \in 1 .. c - 1 : g[k] = g[d]
      BY DEF StreamOK, ReadInOrder
    <3>3. \A x \in Range(g) : x > a => a \in Range(g)
      BY <1>1, <2>3 DEF StreamOK, WaitInOrder
    <3> HIDE DEF g, a
    <3>4. i \in 1 .. Len(g) /\ Append(g, a)[i] = g[i] /\ j \in 1 .. Len(g) + 1 /\ DOMAIN g = 1 .. Len(g) /\ Len(g) \in Nat
      BY <2>1, <3>1
    <3>5. CASE j \in 1 .. Len(g)
      <4>1. Append(g, a)[j] = g[j]
        BY <3>1, <3>5
      <4>2. PICK k \in 1 .. i - 1 : g[k] = g[j]
        BY <2>1, <3>1, <3>2, <3>4, <3>5, <4>1
      <4>3. Append(g, a)[k] = g[k]
        BY <3>1, <3>4, <4>2
      <4>4. QED
        BY <3>1, <4>1, <4>2, <4>3
    <3>6. CASE j = Len(g) + 1
      <4>1. Append(g, a)[j] = a /\ g[i] > a
        BY <2>1, <3>1, <3>4, <3>6
      <4>2. a \in Range(g)
        <5>1. g[i] \in Range(g)
          BY <3>4 DEF Range
        <5>2. QED
          BY <3>3, <4>1, <5>1
      <4>3. PICK l \in DOMAIN g : g[l] = a
        BY <4>2 DEF Range
      <4>4. \E k \in 1 .. i - 1 : g[k] = a
        <5>1. CASE l < i
          BY <3>4, <4>3, <5>1
        <5>2. CASE l = i
          BY <3>1, <4>1, <4>3, <5>2
        <5>3. CASE i < l
          BY <3>2, <3>4, <4>1, <4>3, <5>3
        <5>4. QED
          BY <3>4, <4>3, <5>1, <5>2, <5>3
      <4>5. PICK k \in 1 .. i - 1 : g[k] = a
        BY <4>4
      <4>6. Append(g, a)[k] = g[k]
        BY <3>1, <3>4, <4>5
      <4>7. QED
        BY <3>1, <4>1, <4>5, <4>6
    <3>7. QED
      BY <3>4, <3>5, <3>6
  <2>4. QED
    BY <2>2, <2>3
<1>8. ASSUME NEW p \in Paths, NEW j \in DOMAIN out', IsMetric(j, p)', NEW x \in Range(node'.got[p]), x > out'[j].k
      PROVE  out'[j].k \in Range(node'.got[p])
  <2>1. j + 1 \in DOMAIN out /\ IsMetric(j + 1, p) /\ out'[j] = out[j + 1] /\ 1 < j + 1
    BY <1>4, <1>8
  <2>2. CASE x \in Range(node.got[p])
    <3>1. out[j + 1].k \in Range(node.got[p])
      BY <1>8, <2>1, <2>2 DEF StreamOK, WaitInOrder
    <3>2. QED
      BY <1>5, <2>1, <3>1
  <2>3. CASE IsMetric(1, p) /\ x = out[1].k
    <3>1. Ahead(p, 1, out[j + 1].k)
      BY <1>1, <1>8, <2>1, <2>3 DEF StreamOK, WaitInOrder
    <3>2. \A l \in DOMAIN out : ~(l < 1)
      BY <1>1
    <3>3. out[j + 1].k \in Range(node.got[p])
      BY <3>1, <3>2 DEF Ahead
    <3>4. QED
      BY <1>5, <2>1, <3>3
  <2>4. QED
    BY <1>3, <1>8, <2>2, <2>3
<1>9. ASSUME NEW p \in Paths, NEW i \in DOMAIN out', NEW j \in DOMAIN out', i < j, IsMetric(i, p)', IsMetric(j, p)',
             out'[i].k > out'[j].k, NEW k, k = out'[j].k
      PROVE  Ahead(p, i, k)'
  <2>1. /\ i + 1 \in DOMAIN out /\ IsMetric(i + 1, p) /\ out'[i] = out[i + 1] /\ i \in Nat \ {0}
        /\ j + 1 \in DOMAIN out /\ IsMetric(j + 1, p) /\ out'[j] = out[j + 1] /\ j \in Nat \ {0}
    BY <1>4, <1>9
  <2>2. i + 1 < j + 1
    BY <1>9, <2>1
  <2>3. Ahead(p, i + 1, k)
    BY <1>9, <2>1, <2>2 DEF StreamOK, WaitInOrder
  <2>4. CASE k \in Range(node.got[p])
    BY <1>5, <2>4 DEF Ahead
  <2>5. ASSUME NEW l \in DOMAIN out, l < i + 1, IsMetric(l, p), out[l].k = k PROVE Ahead(p, i, k)'
    <3>1. CASE k \in Range(node'.got[p])
      BY <3>1 DEF Ahead
    <3>2. ASSUME NEW m \in DOMAIN out', m = l - 1, IsMetric(m, p)', out'[m] = out[l] PROVE Ahead(p, i, k)'
      <4>1. l \in Nat
        BY <1>1
      <4>2. m < i
        BY <2>1, <2>5, <3>2, <4>1
      <4>3. QED
        BY <2>5, <3>2, <4>2 DEF Ahead
    <3>3. QED
      <4>1. CASE l = 1
        BY <1>3, <2>5, <3>1, <4>1
      <4>2. CASE l # 1
        <5>1. PICK m \in DOMAIN out' : m = l - 1 /\ out'[m] = out[l]
          BY <1>2, <4>2
        <5>2. IsMetric(m, p)'
          BY <2>5, <5>1 DEF IsMetric
        <5>3. QED
          BY <3>2, <5>1, <5>2
      <4>3. QED
        BY <4>1, <4>2
  <2>6. QED
    BY <2>3, <2>4, <2>5 DEF Ahead
<1>10. WaitInOrder'
  BY <1>8, <1>9 DEF WaitInOrder, Ahead
<1>11. ASSUME NEW p \in Paths, NEW r \in rows[p] PROVE (InStream(p, r) \/ NoneAfter(p, r))'
  <2>1. CASE r \in Range(node.got[p])
    BY <1>5, <2>1 DEF InStream
  <2>2. ASSUME NEW i \in DOMAIN out, IsMetric(i, p), out[i].k = r PROVE InStream(p, r)'
    <3>1. CASE i = 1
      BY <1>3, <2>2, <3>1 DEF InStream
    <3>2. CASE i # 1
      <4>1. PICK m \in DOMAIN out' : out'[m] = out[i]
        BY <1>2, <3>2
      <4>2. IsMetric(m, p)'
        BY <2>2, <4>1 DEF IsMetric
      <4>3. QED
        BY <2>2, <4>1, <4>2 DEF InStream
    <3>3. QED
      BY <3>1, <3>2
  <2>3. CASE NoneAfter(p, r)
    <3>1. ASSUME NEW x \in Range(node'.got[p]) PROVE x <= r
      <4>1. CASE x \in Range(node.got[p])
        BY <2>3, <4>1 DEF NoneAfter
      <4>2. CASE IsMetric(1, p) /\ x = out[1].k
        BY <1>1, <2>3, <4>2 DEF NoneAfter
      <4>3. QED
        BY <1>3, <3>1, <4>1, <4>2
    <3>2. ASSUME NEW i \in DOMAIN out', IsMetric(i, p)' PROVE out'[i].k <= r
      <4>1. i + 1 \in DOMAIN out /\ IsMetric(i + 1, p) /\ out'[i] = out[i + 1]
        BY <1>4, <3>2
      <4>2. QED
        BY <2>3, <4>1 DEF NoneAfter
    <3>3. QED
      BY <3>1, <3>2 DEF NoneAfter
  <2>4. QED
    BY <2>1, <2>2, <2>3 DEF RowsWait, InStream
<1>12. ASSUME NEW p \in Paths, NEW k \in Nat, k >= made[p] PROVE NoneAfter(p, k)'
  <2>1. NoneAfter(p, k)
    BY <1>12, NoneAfterMore, StreamNat DEF MadeLast
  <2>2. QED
    BY <1>3, <1>4, <2>1 DEF NoneAfter, IsMetric
<1>13. QED
  BY <1>7, <1>10, <1>11, <1>12 DEF StreamOK, StreamStep

\* Every step keeps the streams in order.
LEMMA StreamNext ==
  ASSUME ServiceAssumption, OneWriter, TypeOK, TypeOK', OrderInv, WireStep
  PROVE  StreamStep
<1> MainOK /\ WireOK /\ KnownOK /\ WritersOK /\ RowsOK /\ DrainOK /\ NodeOK
  BY DEF TypeOK
<1> StreamOK /\ RowsWait /\ MadeLast /\ TaskLast
  BY DEF OrderInv
<1>1. CASE UNCHANGED out /\ node'.got = node.got
  BY <1>1, StreamSame DEF IsMetric
<1>2. ASSUME NEW m \in Writes, Send(<<m>>), m.kind # "metric", node' = node PROVE StreamStep
  <2>1. \A i \in DOMAIN out' : \/ i \in DOMAIN out /\ out'[i] = out[i]
                               \/ (\A j \in DOMAIN out' : j <= i) /\ out'[i] = m
    BY <1>2, SentLast
  <2>2. \A i \in DOMAIN out : i \in DOMAIN out' /\ out'[i] = out[i]
    <3>1. out \in Seq(Writes)
      BY DEF WireOK
    <3>2. out' \in Seq(Writes) /\ Len(out') = Len(out) + 1 /\ \A i \in 1 .. Len(out) : out'[i] = out[i]
      BY <1>2, <3>1, SentOne
    <3>3. QED
      BY <3>1, <3>2
  <2>3. ASSUME NEW p \in Paths, NEW i
        PROVE  (IsMetric(i, p)' <=> IsMetric(i, p)) /\ (IsMetric(i, p) => out'[i].k = out[i].k)
    BY <1>2, <2>1, <2>2 DEF IsMetric
  <2>4. QED
    BY <1>2, <2>3, StreamSame
<1>3. ASSUME NEW w \in Writers, SendSample(w) PROVE StreamStep
  <2> DEFINE m == MetricOf(w, task[w].path, task[w].k)
             q == task[w].path
  <2>1. m \in Writes /\ Send(<<m>>) /\ node' = node /\ q \in Paths
    BY <1>3, SampleSends DEF WritersOK
  <2>2. task[w].k = made[q] /\ rows[q] = {}
    BY <1>3, SampleSends DEF TaskLast
  <2>3. m.kind = "metric" /\ m.path = q /\ m.k = made[q] /\ made[q] \in Nat
    BY <2>1, <2>2, StreamNat DEF MetricOf
  <2>4. NoneAfter(q, m.k)
    BY <2>1, <2>3 DEF MadeLast
  <2> HIDE DEF m, q
  <2>5. <<m>> \in Seq(Writes) /\ DOMAIN <<m>> = {1} /\ <<m>>[1] = m
    BY <2>1
  <2>6. /\ \A i \in DOMAIN <<m>> : <<m>>[i].kind = "metric" /\ <<m>>[i].path = q
        /\ \A i, j \in DOMAIN <<m>> : i < j => <<m>>[i].k < <<m>>[j].k
        /\ \A i \in DOMAIN <<m>> : <<m>>[i].k <= made[q] /\ (InStream(q, <<m>>[i].k) \/ NoneAfter(q, <<m>>[i].k))
        /\ \A r \in rows[q] : \E i \in DOMAIN <<m>> : <<m>>[i].k = r
    BY <2>2, <2>3, <2>4, <2>5 DEF q
  <2>7. QED
    BY <2>1, <2>5, <2>6, StreamAppended
<1>4. ASSUME NEW q \in dpaths, NEW s \in ById(rows[q]), Send([i \in DOMAIN s |-> MetricOf("drain", q, s[i])]), node' = node
      PROVE  StreamStep
  <2> DEFINE ms == [i \in DOMAIN s |-> MetricOf("drain", q, s[i])]
  <2>1. ms \in Seq(Writes) /\ Send(ms) /\ q \in Paths
    BY <1>4, PageSends
  <2>2. DOMAIN ms = DOMAIN s /\ \A i \in DOMAIN s : ms[i].kind = "metric" /\ ms[i].path = q /\ ms[i].k = s[i]
    BY DEF MetricOf
  <2> HIDE DEF ms
  <2>3. /\ \A i \in DOMAIN s : s[i] \in rows[q] /\ s[i] <= made[q]
        /\ \A i, j \in DOMAIN s : i < j => s[i] < s[j]
        /\ \A k \in rows[q] : \E i \in DOMAIN s : s[i] = k
    BY <2>1, PageSends DEF RowsOK
  <2>4. \A i \in DOMAIN s : InStream(q, s[i]) \/ NoneAfter(q, s[i])
    BY <2>1, <2>3 DEF RowsWait
  <2>5. /\ \A i \in DOMAIN ms : ms[i].kind = "metric" /\ ms[i].path = q
        /\ \A i, j \in DOMAIN ms : i < j => ms[i].k < ms[j].k
        /\ \A i \in DOMAIN ms : ms[i].k <= made[q] /\ (InStream(q, ms[i].k) \/ NoneAfter(q, ms[i].k))
        /\ \A r \in rows[q] : \E i \in DOMAIN ms : ms[i].k = r
    BY <2>2, <2>3, <2>4
  <2>6. QED
    BY <1>4, <2>1, <2>5, StreamAppended
<1>5. CASE Broker
  BY <1>5, StreamRead
<1>6. CASE out' = <<>> /\ node' = node
  BY <1>6, StreamLost
<1>7. ASSUME NEW u, Forget(u), node' = node PROVE StreamStep
  <2>1. DOMAIN out' = DOMAIN out
        /\ \A i \in DOMAIN out : out'[i].kind = out[i].kind
                                 /\ (out[i].kind = "metric" => out'[i].path = out[i].path /\ out'[i].k = out[i].k)
    BY <1>7, ForgottenSame
  <2>2. ASSUME NEW p \in Paths, NEW i
        PROVE  (IsMetric(i, p)' <=> IsMetric(i, p)) /\ (IsMetric(i, p) => out'[i].k = out[i].k)
    BY <2>1 DEF IsMetric
  <2>3. QED
    BY <1>7, <2>2, StreamSame
<1>8. QED
  BY <1>1, <1>2, <1>3, <1>4, <1>5, <1>6, <1>7 DEF WireStep

\* A row that is new is the newest sample.
LEMMA RowsGrow ==
  ASSUME ServiceAssumption, RowsOK, DrainOK, RowsOK', [Next]_vars
  PROVE  \A q \in Paths : made'[q] >= made[q] /\ \A r \in rows'[q] : r \in rows[q] \/ r > made[q]
<1>1. ASSUME UNCHANGED <<rows, made>> PROVE \A q \in Paths : made'[q] >= made[q] /\ \A r \in rows'[q] : r \in
     rows[q] \/ r > made[q]
  BY <1>1 DEF RowsOK
<1>2. CASE UNCHANGED vars
  BY <1>2, <1>1 DEF main, wire, again, known, writers, pending, drain, history, vars
<1>3. CASE Start \/ Announced \/ Started \/ Close \/ CloseSeals \/ CloseSealed \/ CloseLeaves \/ Crash \/
     ReadAck \/ OnSignal \/ OnOwnDetails \/ OnConnect \/ Reannounce \/ ReannounceFails \/ RetryReannounce \/
     RetrySucceeds \/ DrainLooks \/ DrainEnds \/ DrainPath \/ DrainFails \/ Broker \/ NodeBinds \/ NodeChanges
     \/ Will \/ LinkDrops \/ LinkReturns
  BY <1>3, <1>1 DEF Start, Announced, Started, Close, CloseSeals, CloseSealed, CloseLeaves, Crash, ReadAck,
       OnSignal, OnOwnDetails, OnConnect, Reannounce, ReannounceFails, RetryReannounce, RetrySucceeds,
       DrainLooks, DrainEnds, DrainPath, DrainFails, Broker, NodeBinds, NodeChanges, Will, LinkDrops,
       LinkReturns, Lost, main, wire, again, known, writers, pending, drain, history, vars
<1>4. ASSUME NEW w \in Writers, SendCatalogue(w) \/ CataloguePublished(w) \/ SendSample(w) \/ Published(w) \/
     PublishTimesOut(w) PROVE \A q \in Paths : made'[q] >= made[q] /\ \A r \in rows'[q] : r \in rows[q] \/ r >
     made[q]
  BY <1>4, <1>1 DEF SendCatalogue, CataloguePublished, SendSample, Published, PublishTimesOut, main, wire,
       again, known, writers, pending, drain, history, vars
<1>5. ASSUME NEW w \in Writers, NEW p \in Paths, Declare(w, p) \/ PublishRefused(w, p) PROVE \A q \in Paths :
     made'[q] >= made[q] /\ \A r \in rows'[q] : r \in rows[q] \/ r > made[q]
  BY <1>5, <1>1 DEF Declare, PublishRefused, Begin, main, wire, again, known, writers, pending, drain,
       history, vars
<1>6. ASSUME NEW w \in Writers, NEW p \in Paths, PublishBound(w, p) PROVE \A q \in Paths : made'[q] >= made[q]
     /\ \A r \in rows'[q] : r \in rows[q] \/ r > made[q]
  <2>1. made' = [made EXCEPT ![p] = made[p] + 1] /\ rows' = rows
    BY <1>6 DEF PublishBound, Sample, pending
  <2>2. QED
    BY <2>1 DEF RowsOK
<1>7. ASSUME NEW w \in Writers, NEW p \in Paths, PublishBuffered(w, p) PROVE \A q \in Paths : made'[q] >=
     made[q] /\ \A r \in rows'[q] : r \in rows[q] \/ r > made[q]
  <2>1. made' = [made EXCEPT ![p] = made[p] + 1] /\ rows' = [rows EXCEPT ![p] = rows[p] \cup {made[p] + 1}]
    BY <1>7 DEF PublishBuffered, Sample
  <2>2. QED
    BY <2>1 DEF RowsOK
<1>8. CASE DrainAcks
  <2>1. made' = made /\ rows' = [rows EXCEPT ![dpath] = rows[dpath] \ dpage]
    BY <1>8 DEF DrainAcks, history
  <2>2. QED
    BY <2>1 DEF RowsOK, DrainOK
<1>9. QED
  BY NextCases, <1>1, <1>2, <1>3, <1>4, <1>5, <1>6, <1>7, <1>8

\* A sample the caller keeps is none that goes past the disk.
LEMMA TaskBegins ==
  ASSUME ServiceAssumption, OneWriter, TypeOK, NEW w \in Writers, NEW p \in Paths, NEW k \in Nat, NEW b \in BOOLEAN,
         Begin(w, TaskOf(p, k, b), Ensured(p)), b => k = made'[p] /\ rows'[p] = {}
  PROVE  TaskLast'
<1>1. WritersOK /\ KnownOK
  BY DEF TypeOK
<1>2. task' = [task EXCEPT ![w] = [path |-> p, k |-> k, send |-> b, payload |-> Ensured(p)]]
  BY <1>1, BeginsTask
<1>3. task'[w].send = b /\ task'[w].k = k /\ task'[w].path = p
  BY <1>1, <1>2 DEF WritersOK
<1>4. \A v \in Writers : v = w
  BY DEF OneWriter
<1>5. QED
  BY <1>3, <1>4 DEF TaskLast

\* What goes past the disk stays the newest: its caller is the only one.
LEMMA TaskLastKept ==
  ASSUME ServiceAssumption, OneWriter, TypeOK, TypeOK', TaskLast, [Next]_vars
  PROVE  TaskLast'
<1>1. ASSUME UNCHANGED <<wpc, task, rows, made>> PROVE TaskLast'
  BY <1>1 DEF TaskLast
<1>2. CASE UNCHANGED vars
  BY <1>2, <1>1 DEF main, wire, again, known, writers, pending, drain, history, vars
<1>3. CASE Start \/ Announced \/ Started \/ Close \/ CloseSeals \/ CloseSealed \/ ReadAck \/ OnSignal \/
     OnOwnDetails \/ OnConnect \/ Reannounce \/ ReannounceFails \/ RetryReannounce \/ RetrySucceeds \/
     DrainLooks \/ DrainEnds \/ DrainPath \/ DrainFails \/ Broker \/ NodeBinds \/ NodeChanges \/ Will \/
     LinkDrops \/ LinkReturns
  BY <1>3, <1>1 DEF Start, Announced, Started, Close, CloseSeals, CloseSealed, ReadAck, OnSignal,
       OnOwnDetails, OnConnect, Reannounce, ReannounceFails, RetryReannounce, RetrySucceeds, DrainLooks,
       DrainEnds, DrainPath, DrainFails, Broker, NodeBinds, NodeChanges, Will, LinkDrops, LinkReturns, main,
       wire, again, known, writers, pending, drain, history, vars
<1>4. ASSUME NEW w \in Writers, NEW p \in Paths, PublishRefused(w, p) PROVE TaskLast'
  BY <1>4, <1>1 DEF PublishRefused, main, wire, again, known, writers, pending, drain, history, vars
<1>5. CASE CloseLeaves
  <2>1. \A v \in Writers : wpc'[v] = "idle"
    BY <1>5 DEF CloseLeaves, Lost
  <2>2. QED
    BY <2>1 DEF TaskLast
<1>6. CASE Crash
  <2>1. \A v \in Writers : wpc'[v] = "idle"
    BY <1>6 DEF Crash, Lost
  <2>2. QED
    BY <2>1 DEF TaskLast
<1>7. ASSUME NEW w \in Writers, NEW p \in Paths, Declare(w, p) PROVE TaskLast'
  <2>1. Begin(w, TaskOf(p, 0, FALSE), Ensured(p))
    BY <1>7 DEF Declare
  <2>2. QED
    BY <2>1, TaskBegins
<1>8. ASSUME NEW w \in Writers, NEW p \in Paths, PublishBound(w, p) PROVE TaskLast'
  <2>1. Begin(w, TaskOf(p, made[p] + 1, bind[p].on), Ensured(p)) /\ made' = [made EXCEPT ![p] = made[p] + 1]
       /\ rows' = rows
    BY <1>8 DEF PublishBound, Sample, pending
  <2>2. made'[p] = made[p] + 1 /\ made[p] + 1 \in Nat /\ bind[p].on \in BOOLEAN
    BY <2>1 DEF TypeOK, RowsOK, KnownOK, Signals
  <2>3. rows[p] = {}
    BY <1>8 DEF PublishBound, MustWait, Sample, Writing, TypeOK, RowsOK
  <2>4. QED
    BY <2>1, <2>2, <2>3, TaskBegins
<1>9. ASSUME NEW w \in Writers, NEW p \in Paths, PublishBuffered(w, p) PROVE TaskLast'
  <2>1. Begin(w, TaskOf(p, made[p] + 1, FALSE), Ensured(p)) /\ made[p] + 1 \in Nat
    BY <1>9 DEF PublishBuffered, TypeOK, RowsOK
  <2>2. QED
    BY <2>1, TaskBegins
<1>10. ASSUME NEW w \in Writers, SendCatalogue(w) PROVE TaskLast'
  <2>1. task' = task /\ UNCHANGED <<rows, made>> /\ wpc[w] \in {"sendcat", "cat", "sendmetric"}
        /\ \A v \in Writers : v # w => wpc'[v] = wpc[v]
    BY <1>10 DEF SendCatalogue, WritersOK, pending, history
  <2>2. QED
    BY <2>1 DEF TaskLast
<1>11. ASSUME NEW w \in Writers, CataloguePublished(w) PROVE TaskLast'
  <2>1. task' = task /\ UNCHANGED <<rows, made>> /\ wpc[w] \in {"sendcat", "cat", "sendmetric"}
        /\ \A v \in Writers : v # w => wpc'[v] = wpc[v]
    BY <1>11 DEF CataloguePublished, WritersOK, pending, history
  <2>2. QED
    BY <2>1 DEF TaskLast
<1>12. ASSUME NEW w \in Writers, SendSample(w) PROVE TaskLast'
  <2>1. task' = task /\ UNCHANGED <<rows, made>> /\ wpc[w] \in {"sendcat", "cat", "sendmetric"}
        /\ \A v \in Writers : v # w => wpc'[v] = wpc[v]
    BY <1>12 DEF SendSample, WritersOK, pending, history
  <2>2. QED
    BY <2>1 DEF TaskLast
<1>13. ASSUME NEW w \in Writers, Published(w) PROVE TaskLast'
  <2>1. wpc'[w] = "idle"
    <3>1. wpc' = [wpc EXCEPT ![w] = "idle"]
      BY <1>13 DEF Published
    <3>2. QED
      BY <3>1 DEF TypeOK, WritersOK
  <2>2. \A v \in Writers : v = w
    BY DEF OneWriter
  <2>3. QED
    BY <2>1, <2>2 DEF TaskLast
<1>14. ASSUME NEW w \in Writers, PublishTimesOut(w) PROVE TaskLast'
  <2>1. wpc'[w] = "idle"
    <3>1. wpc' = [wpc EXCEPT ![w] = "idle"]
      BY <1>14 DEF PublishTimesOut
    <3>2. QED
      BY <3>1 DEF TypeOK, WritersOK
  <2>2. \A v \in Writers : v = w
    BY DEF OneWriter
  <2>3. QED
    BY <2>1, <2>2 DEF TaskLast
<1>15. CASE DrainAcks
  <2>1. UNCHANGED <<wpc, task, made>> /\ rows' = [rows EXCEPT ![dpath] = rows[dpath] \ dpage]
    BY <1>15 DEF DrainAcks, writers, history
  <2>2. \A q \in Paths : rows'[q] \subseteq rows[q]
    BY <2>1 DEF TypeOK, RowsOK
  <2>3. \A v \in Writers : task[v].path \in Paths
    BY DEF TypeOK, WritersOK
  <2>4. QED
    BY <2>1, <2>2, <2>3 DEF TaskLast
<1>16. QED
  BY NextCases, <1>1, <1>2, <1>3, <1>4, <1>5, <1>6, <1>7, <1>8, <1>9, <1>10, <1>11, <1>12, <1>13, <1>14, <1>15

\* A step keeps the order.
LEMMA OrderNext ==
  ASSUME ServiceAssumption, OneWriter, TypeOK, TypeOK', OrderInv, [Next]_vars
  PROVE  OrderInv'
<1>1. StreamStep
  BY WireSteps, StreamNext
<1>2. ASSUME NEW p \in Paths
      PROVE  /\ made'[p] >= made[p] /\ made[p] \in Nat /\ made'[p] \in Nat
             /\ \A r \in rows'[p] : r \in Nat /\ (r \in rows[p] \/ r > made[p])
  <2>1. made'[p] >= made[p] /\ \A r \in rows'[p] : r \in rows[p] \/ r > made[p]
    BY RowsGrow DEF TypeOK
  <2>2. QED
    BY <2>1 DEF TypeOK, RowsOK
<1>3. RowsWait'
  <2>1. SUFFICES ASSUME NEW p \in Paths, NEW r \in rows'[p] PROVE (InStream(p, r) \/ NoneAfter(p, r))'
    BY DEF RowsWait
  <2>2. CASE r \in rows[p]
    BY <1>1, <2>2 DEF StreamStep
  <2>3. CASE r \notin rows[p]
    <3>1. r \in Nat /\ r >= made[p]
      BY <1>2, <2>3
    <3>2. QED
      BY <1>1, <3>1 DEF StreamStep
  <2>4. QED
    BY <2>2, <2>3
<1>4. MadeLast'
  BY <1>1, <1>2 DEF StreamStep, MadeLast, NoneAfter
<1>5. TaskLast'
  BY TaskLastKept DEF OrderInv
<1>6. QED
  BY <1>1, <1>3, <1>4, <1>5 DEF OrderInv, StreamStep

\* Where one thread calls publish(), no accepted sample is lost and none overtakes
\* another on its way to the node: over lost links, writes that time out, pages that
\* are sent again, crashes and restarts (publish, _drain_pending).
THEOREM SamplesCorrect == ASSUME OneWriter PROVE Spec => []SamplesKept
<1>1. Init => OrderInv
  <2>1. SUFFICES ASSUME Init PROVE OrderInv
    OBVIOUS
  <2>2. out = <<>> /\ (\A p \in Paths : node.got[p] = <<>> /\ made[p] = 0 /\ rows[p] = {}) /\ \A w \in Writers : wpc[w] = "idle"
    BY <2>1 DEF Init
  <2>3. \A p \in Paths : Range(node.got[p]) = {} /\ DOMAIN node.got[p] = {}
    BY <2>2 DEF Range
  <2>4. StreamOK
    BY <2>2, <2>3 DEF StreamOK, ReadInOrder, WaitInOrder
  <2>5. RowsWait /\ MadeLast /\ TaskLast
    BY <2>2, <2>3 DEF RowsWait, MadeLast, TaskLast, NoneAfter
  <2>6. QED
    BY <2>4, <2>5 DEF OrderInv
<1>2. TypeOK /\ TypeOK' /\ OrderInv /\ [Next]_vars => OrderInv'
  BY OrderNext, ServiceAssumption
<1>3. AcceptedKept /\ OrderInv => SamplesKept
  BY DEF OrderInv, StreamOK, SamplesKept
<1>4. QED
  BY <1>1, <1>2, <1>3, TypeCorrect, AcceptedCorrect, PTL DEF Spec

=============================================================================
