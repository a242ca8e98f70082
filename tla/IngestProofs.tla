---------------------------- MODULE IngestProofs -----------------------------
(***************************************************************************)
(* Proofs about Ingest, for every stream, filter and set of handlers, any  *)
(* page size and publish window, and any number of upsets.                 *)
(***************************************************************************)
EXTENDS Ingest, SequenceTheorems, TLAPS

-----------------------------------------------------------------------------
(* The invariant *)

State == [st : Seq(Records), off : 0 .. MaxRecords]
Keep  == [first : 0 .. MaxRecords, start : State, base : State, since : Seq(Records)]
Calls == Producers \X Records

NodeTypes ==
    /\ head \in 0 .. MaxRecords /\ low \in 1 .. head + 1 /\ cursor \in 0 .. head
    /\ nodeAhead \in BOOLEAN /\ accepted \in 0 .. low - 1 /\ msg \in BOOLEAN /\ bound \in 0 .. 1

ReaderTypes ==
    /\ rung \in BOOLEAN /\ behind \in BOOLEAN /\ nextFrom \in 0 .. head + 1
    /\ prefetch \in [state : {"none", "asked", "got", "bad"}, ver : 0 .. 1,
                     page : [start : Nat, recs : SUBSET Records, next : Nat, gap : Nat]]
    /\ ackSend \in 0 .. head /\ ackWant \in 0 .. head /\ ackFailed \in BOOLEAN

PageTypes ==
    /\ page \in [recs : SUBSET (1 .. head), gap : 0 .. head, ack : 0 .. head]
    /\ failed \in 0 .. head /\ late \in 0 .. head /\ handled1 \in 0 .. head
    /\ todo \in Seq(Calls) /\ batch \in Seq(Calls)
    /\ done \subseteq Calls

KeeperTypes ==
    /\ live \in [Checkpointed -> State] /\ entry \in [Checkpointed -> Keep] /\ entered \subseteq Checkpointed

StoreTypes ==
    /\ durable \in [points : SUBSET Records, saved : [Checkpointed -> State]]
    /\ txn = [points |-> txn.points, saved |-> txn.saved] /\ txn.points \subseteq Records
    /\ DOMAIN txn.saved \subseteq Checkpointed
    /\ txn.saved = [p \in DOMAIN txn.saved |-> txn.saved[p]]
    /\ \A p \in DOMAIN txn.saved : txn.saved[p] \in State

Control ==
    /\ pc \in {"top", "step", "restart", "fetch", "await", "wait", "gap", "gapwait", "ack", "ackbefore"} \cup InPage
    /\ then \in {"top", "fetch", "gapwait", "ackbefore"}
    /\ pc \notin InPage => handled1 = 0 /\ (txn = Clean \/ owed) /\ (owed => deferring)
    /\ pc \notin InPage \ {"commit"} => late = 0 /\ entered = {}
    /\ pc \notin {"records", "reject", "settle"} => batch = <<>>
    /\ pc \notin {"records", "reject"} => todo = <<>>
    /\ pc \in {"settle", "finish", "commit"} => page.recs = {}
    /\ pc \in {"records", "reject", "commit"} => failed = 0
    /\ pc # "finish" => late = 0
    /\ pc = "reject" => todo # <<>>
    /\ pc = "ackbefore" \/ (pc = "restart" /\ then = "ackbefore") => failed # 0

Types == NodeTypes /\ ReaderTypes /\ PageTypes /\ KeeperTypes /\ StoreTypes /\ Control

-----------------------------------------------------------------------------
(* Records the cursor may pass *)

\* A call that a record of an input has to get.
Needed(p, r) == Always(r) /\ Reads(p, r) /\ accepted < r

\* The call was made, and its write confirmed or its failure raised.
Told(c) == c \in done /\ c \in rejected \cup confirmed \cup blamed

\* The state has the record, or may do without.
Has(p, c, r) == r \in Range(c.st) \/ <<p, r>> \in rejected \/ r \in undone

\* Nothing is lost when the cursor passes the record.
Past(r) ==
    Always(r) /\ accepted < r =>
        /\ r \in Disk.points \cup undone
        /\ \A p \in Producers : Reads(p, r) =>
              Told(<<p, r>>) /\ (p \in Checkpointed => Has(p, Disk.saved[p], r))

Safe(n) == \A r \in 1 .. n : Past(r)

\* Acks name only such records, and a fetch starts behind such.
CursorSafe ==
    /\ Safe(cursor) /\ Safe(ackSend) /\ Safe(ackWant)
    /\ pc = "ack" => Safe(page.ack)
    /\ pc = "ackbefore" \/ (pc = "restart" /\ then = "ackbefore") => Safe(failed - 1)
    /\ nextFrom # 0 /\ pc \in {"top", "step", "fetch", "await", "wait"} => Safe(nextFrom - 1)

\* A page read from an offset holds every record of the filter it moves the cursor past.
Whole(p, from, ver) ==
    /\ from <= p.next /\ p.next <= head + 1 /\ p.gap < p.next /\ (p.gap # 0 => from <= p.gap)
    /\ \A r \in p.recs : from <= r /\ r < p.next
    /\ \A r \in 1 .. p.next - 1 : r < from \/ r <= p.gap \/ r \in p.recs \/ Signal[r] \notin Filter[ver]

Ahead ==
    /\ ~nodeAhead => nextFrom = 0 /\ prefetch.state = "none"
    /\ prefetch.state = "asked" => nextFrom # 0 /\ prefetch.page.next = nextFrom
    /\ prefetch.state = "got" =>
          /\ nextFrom # 0 /\ Whole(prefetch.page, prefetch.page.start, prefetch.ver)
          /\ 1 <= prefetch.page.start /\ prefetch.page.start <= Larger(cursor + 1, nextFrom)
    /\ pc \in {"gapwait", "ackbefore"} => nextFrom = 0
    /\ pc \in {"gap", "ack"} \cup InPage => nextFrom <= page.ack + 1

-----------------------------------------------------------------------------
(* The page in hand *)

Failure == Earlier(failed, late)

\* The page moves the cursor past the record, as far as it got.
Covers(r) == Failure = 0 \/ r < Failure

\* The call returned in this page or before.
Worked(p, r) ==
    /\ <<p, r>> \in done /\ <<p, r>> \in rejected \cup confirmed \cup blamed \cup Range(batch)
    /\ p \in Checkpointed => Has(p, live[p], r)

Under(r) ==
    Always(r) /\ accepted < r =>
        /\ r \in durable.points \cup txn.points \cup undone
        /\ \A p \in Producers : Reads(p, r) => <<p, r>> \in Range(todo) \/ Worked(p, r)

PageCovered ==
    /\ pc = "gap" => \A r \in 1 .. page.ack : r <= page.gap \/ r \in page.recs \/ Past(r)
    /\ pc \in InPage => \A r \in 1 .. page.ack : Covers(r) => r \in page.recs \/ Under(r)
    /\ pc \in {"gap", "records", "reject"} => \A r \in page.recs : r <= page.ack
    /\ pc \in InPage => Failure <= page.ack

TodoOrder ==
    \A c \in Range(todo) :
        /\ Reads(c[1], c[2]) /\ c[2] <= page.ack /\ c[2] = Head(todo)[2]
        /\ handled1 # 0
        /\ \A r \in page.recs : c[2] < r

-----------------------------------------------------------------------------
(* The producers' states *)

\* A state that is exact, and whose calls were told, or are with the page's writes.
Good(p, c, writes) ==
    /\ Exact(p, c)
    /\ \A r \in 1 .. c.off : Needed(p, r) => <<p, r>> \in done /\ <<p, r>> \in rejected \cup confirmed \cup blamed \cup writes

\* What the producer goes back to when the page fails.
StartOf(p) == IF p \in entered THEN entry[p].start ELSE live[p]

StatesGood ==
    \A p \in Checkpointed :
        /\ Good(p, live[p], Range(batch)) /\ Good(p, durable.saved[p], {})
        /\ p \in DOMAIN txn.saved => Good(p, txn.saved[p], {})
        /\ Good(p, StartOf(p), {})

Chain ==
    \A p \in Checkpointed :
        /\ Range(durable.saved[p].st) \subseteq Range(Saved(txn, p).st)
        /\ Range(Saved(txn, p).st) \subseteq Range(StartOf(p).st)
        /\ Range(StartOf(p).st) \subseteq Range(Saved(txn, p).st) \cup undone

Entries ==
    \A p \in entered :
        /\ live[p] = Base(entry[p])
        /\ Range(entry[p].start.st) \subseteq Range(entry[p].base.st)
        /\ entry[p].first = 0 => live[p] = entry[p].start
        /\ entry[p].first # 0 =>
              /\ entry[p].first <= page.ack
              /\ \A r \in 1 .. entry[p].first - 1 : Needed(p, r) => Has(p, entry[p].start, r)

\* The record a producer goes back to is not behind the one in hand.
FirstOrder ==
    \A p \in entered :
        /\ \A c \in Range(todo) : entry[p].first <= c[2]
        /\ \A r \in page.recs : entry[p].first < r

\* Before the first record handled in the page nothing depends on the page.
FirstHandled ==
    /\ handled1 = 0 => batch = <<>> /\ entered = {}
    /\ handled1 <= page.ack \/ handled1 = 0
    /\ \A r \in 1 .. handled1 - 1 : \A p \in Producers : Needed(p, r) =>
          Told(<<p, r>>) /\ (p \in Checkpointed => Has(p, StartOf(p), r))

DoneReads == \A c \in done : Reads(c[1], c[2])

Inv ==
    /\ Types /\ CursorSafe /\ Ahead /\ PageCovered /\ TodoOrder
    /\ StatesGood /\ Chain /\ Entries /\ FirstOrder /\ FirstHandled /\ DoneReads

-----------------------------------------------------------------------------
(* Sequences *)

LEMMA RangeOne == ASSUME NEW x PROVE Range(<<x>>) = {x}
  <1>1. DOMAIN <<x>> = {1} /\ <<x>>[1] = x
    OBVIOUS
  <1> QED BY <1>1 DEF Range

LEMMA RangeAppend ==
  ASSUME NEW S, NEW s \in Seq(S), NEW x \in S
  PROVE  Append(s, x) \in Seq(S) /\ Range(Append(s, x)) = Range(s) \cup {x}
  <1>1. Append(s, x) = s \o <<x>> /\ <<x>> \in Seq(S)
    BY AppendIsConcat
  <1>2. Range(s \o <<x>>) = Range(s) \cup Range(<<x>>)
    BY <1>1, RangeConcatenation
  <1> QED BY <1>1, <1>2, RangeOne

LEMMA RangeTail ==
  ASSUME NEW S, NEW s \in Seq(S), s # <<>>
  PROVE  Tail(s) \in Seq(S) /\ Head(s) \in S /\ Range(s) = {Head(s)} \cup Range(Tail(s))
  <1>1. Tail(s) \in Seq(S) /\ Head(s) \in S /\ s = <<Head(s)>> \o Tail(s) /\ <<Head(s)>> \in Seq(S)
    OBVIOUS
  <1>2. Range(<<Head(s)>> \o Tail(s)) = Range(<<Head(s)>>) \cup Range(Tail(s))
    BY <1>1, RangeConcatenation
  <1> QED BY <1>1, <1>2, RangeOne

LEMMA RangeSplit ==
  ASSUME NEW S, NEW s \in Seq(S), NEW k \in 0 .. Len(s)
  PROVE  /\ SubSeq(s, 1, k) \in Seq(S) /\ SubSeq(s, k + 1, Len(s)) \in Seq(S)
         /\ Range(s) = Range(SubSeq(s, 1, k)) \cup Range(SubSeq(s, k + 1, Len(s)))
  <1>1. Len(s) \in Nat /\ \A i \in 1 .. Len(s) : s[i] \in S
    OBVIOUS
  <1>2. SubSeq(s, 1, k) \in Seq(S) /\ SubSeq(s, k + 1, Len(s)) \in Seq(S)
    BY <1>1, SubSeqProperties
  <1>3. SubSeq(s, 1, k) \o SubSeq(s, k + 1, Len(s)) = s
    <2>1. 1 \in 1 .. Len(s) + 1 /\ k \in 1 - 1 .. Len(s) /\ Len(s) \in k .. Len(s)
      BY <1>1
    <2>2. SubSeq(s, 1, k) \o SubSeq(s, k + 1, Len(s)) = SubSeq(s, 1, Len(s))
      BY <2>1, ConcatAdjacentSubSeq
    <2>3. SubSeq(s, 1, Len(s)) = s
      BY SubSeqFull
    <2> QED BY <2>2, <2>3
  <1>4. \A a, b \in Seq(S) : Range(a \o b) = Range(a) \cup Range(b)
    BY RangeConcatenation
  <1> QED BY ONLY <1>2, <1>3, <1>4

-----------------------------------------------------------------------------
(* The operators of the model *)

LEMMA Sizes == MaxRecords \in Nat /\ Records = 1 .. MaxRecords /\ Signal \in Seq(DOMAIN Handlers)
  BY IngestAssumption DEF MaxRecords, Records

\* A record's handlers read it, and are all that read an input of both filters.
LEMMA BoundReads ==
  ASSUME bound \in 0 .. 1, NEW r \in Records
  PROVE  /\ Bound(r) \in Seq(Producers)
         /\ \A k \in 1 .. Len(Bound(r)) : Reads(Bound(r)[k], r)
         /\ Always(r) => \A p : Reads(p, r) => \E k \in 1 .. Len(Bound(r)) : Bound(r)[k] = p
  <1>1. Signal[r] \in DOMAIN Handlers /\ Handlers[Signal[r]] \in Seq(Producers)
    BY Sizes, IngestAssumption DEF MaxRecords, Records
  <1>2. Bound(r) = Handlers[Signal[r]] \/ (Bound(r) = <<>> /\ Signal[r] \notin Filter[bound])
    BY DEF Bound
  <1>3. <<>> \in Seq(Producers) /\ Len(<<>>) = 0
    OBVIOUS
  <1>4. Always(r) => Signal[r] \in Filter[bound]
    BY DEF Always
  <1>5. CASE Bound(r) = Handlers[Signal[r]]
    BY <1>1, <1>5 DEF Reads
  <1>6. CASE Bound(r) = <<>> /\ Signal[r] \notin Filter[bound]
    BY <1>3, <1>4, <1>6
  <1> QED BY <1>2, <1>5, <1>6

\* A page the node returns.
LEMMA PageReturned ==
  ASSUME NodeTypes, NEW from \in 0 .. head + 1, NEW ver \in 0 .. 1, NEW p \in Pages(from, ver)
  PROVE  /\ p \in [start : Nat, recs : SUBSET (1 .. head), next : Nat, gap : 0 .. head]
         /\ nodeAhead => p.start = Larger(cursor + 1, from) /\ Whole(p, p.start, ver)
         /\ ~nodeAhead => p.start = 0 /\ Whole(p, cursor + 1, ver)
  <1> DEFINE start == IF nodeAhead THEN Larger(cursor + 1, from) ELSE cursor + 1
             at == Larger(start, low)
             recs(n) == {r \in at .. n - 1 : Signal[r] \in Filter[ver]}
  <1>1. /\ start \in 1 .. head + 1 /\ at \in start .. head + 1 /\ at \in Nat
        /\ low \in 1 .. head + 1 /\ head \in Nat
        /\ at = low \/ (at = start /\ low <= start)
        /\ start < low => at = low
    BY DEF NodeTypes, Larger
  <1>2. PICK n \in at .. head + 1 :
          p = [start |-> IF nodeAhead THEN start ELSE 0, recs |-> recs(n), next |-> n,
               gap |-> IF start < low THEN low - 1 ELSE 0]
    BY DEF Pages
  <1>3. start = IF nodeAhead THEN Larger(cursor + 1, from) ELSE cursor + 1
    OBVIOUS
  <1>4. recs(n) \subseteq at .. n - 1 /\ \A r \in at .. n - 1 : r \in recs(n) \/ Signal[r] \notin Filter[ver]
    OBVIOUS
  <1> DEFINE held == recs(n)
  <1> HIDE DEF start, at, held, recs
  <1>5. n \in Nat /\ n <= head + 1 /\ at <= n /\ start <= n /\ start \in Nat /\ start >= 1 /\ at >= 1
    BY <1>1
  <1>6. /\ p.start = (IF nodeAhead THEN start ELSE 0) /\ p.recs = held /\ p.next = n
        /\ p.gap = IF start < low THEN low - 1 ELSE 0
    BY <1>2 DEF held
  <1>7. held \subseteq at .. n - 1 /\ \A r \in at .. n - 1 : r \in held \/ Signal[r] \notin Filter[ver]
    BY <1>4 DEF held
  <1>8. p.gap \in 0 .. head /\ p.gap < n /\ (p.gap # 0 => start <= p.gap) /\ (p.gap = at - 1 \/ (p.gap = 0 /\ at = start))
    <2>1. CASE start < low
      <3>1. p.gap = low - 1 /\ at = low /\ low \in Nat /\ start \in Nat
        BY <1>1, <1>6, <2>1
      <3> QED BY <1>1, <1>5, <2>1, <3>1
    <2>2. CASE ~(start < low)
      <3>1. p.gap = 0 /\ at = start
        BY <1>1, <1>6, <2>2
      <3> QED BY <1>1, <1>5, <3>1
    <2> QED BY <2>1, <2>2
  <1>9. p \in [start : Nat, recs : SUBSET (1 .. head), next : Nat, gap : 0 .. head]
    <2>1. held \subseteq 1 .. head
      <3>1. ASSUME NEW r \in at .. n - 1 PROVE r \in 1 .. head
        BY <1>1, <1>5
      <3> QED BY <1>7, <3>1
    <2>2. p = [start |-> p.start, recs |-> p.recs, next |-> p.next, gap |-> p.gap]
      BY <1>2
    <2> QED BY <1>1, <1>5, <1>6, <1>8, <2>1, <2>2
  <1>10. Whole(p, start, ver)
    <2>1. \A r \in p.recs : start <= r /\ r < p.next
      <3>1. ASSUME NEW r \in at .. n - 1 PROVE start <= r /\ r < n
        BY <1>1, <1>5
      <3> QED BY <1>6, <1>7, <3>1
    <2>2. ASSUME NEW r \in 1 .. p.next - 1 PROVE r < start \/ r <= p.gap \/ r \in p.recs \/ Signal[r] \notin Filter[ver]
      <3>1. r < at \/ r \in at .. n - 1
        BY <1>1, <1>5, <1>6
      <3> QED BY <1>1, <1>6, <1>7, <1>8, <3>1
    <2> QED BY <1>5, <1>6, <1>8, <2>1, <2>2 DEF Whole
  <1> QED BY <1>3, <1>6, <1>9, <1>10

LEMMA AckOf ==
  ASSUME NEW p \in [start : Nat, recs : SUBSET (1 .. head), next : Nat, gap : 0 .. head],
         NEW from \in Nat, NEW ver, Whole(p, from, ver), head \in Nat
  PROVE  /\ AckOffset(p) = IF p.recs # {} \/ (p.start # 0 /\ p.next > p.start) THEN p.next - 1 ELSE p.gap
         /\ AckOffset(p) \in 0 .. head
  <1>1. p.next \in Nat /\ p.gap \in 0 .. head /\ p.gap < p.next /\ p.next <= head + 1
    BY DEF Whole
  <1>2. Larger(p.gap, p.next - 1) = p.next - 1
    BY <1>1 DEF Larger
  <1> QED BY <1>1, <1>2 DEF AckOffset

\* What becomes of the writes in a batch: still in it, confirmed, or raised.
Outcome(o, b) ==
    /\ o = [rest |-> o.rest, ok |-> o.ok, bad |-> o.bad] /\ o.rest \in Seq(Calls)
    /\ Range(b) \subseteq Range(o.rest) \cup o.ok \cup o.bad

LEMMA AddedTells ==
  ASSUME NEW b \in Seq(Calls), NEW calls \in Seq(Calls), NEW o \in Added(b, calls)
  PROVE  Outcome(o, b) /\ Range(calls) \subseteq Range(o.rest) \cup o.ok
  <1> DEFINE all == b \o calls
  <1>1. PICK k \in 0 .. Len(all) :
          o = [rest |-> SubSeq(all, k + 1, Len(all)), ok |-> Range(SubSeq(all, 1, k)), bad |-> {}]
    BY DEF Added
  <1>2. all \in Seq(Calls) /\ Range(all) = Range(b) \cup Range(calls)
    BY ConcatProperties, RangeConcatenation
  <1> HIDE DEF all
  <1>3. SubSeq(all, k + 1, Len(all)) \in Seq(Calls)
        /\ Range(all) = Range(SubSeq(all, 1, k)) \cup Range(SubSeq(all, k + 1, Len(all)))
    BY <1>2, RangeSplit
  <1>4. /\ o.rest = SubSeq(all, k + 1, Len(all)) /\ o.ok = Range(SubSeq(all, 1, k)) /\ o.bad = {}
        /\ o = [rest |-> o.rest, ok |-> o.ok, bad |-> o.bad]
    BY <1>1
  <1> QED BY <1>2, <1>3, <1>4 DEF Outcome

LEMMA RaisedTells ==
  ASSUME NEW b \in Seq(Calls), NEW calls \in Seq(Calls), NEW o \in Raised(b, calls)
  PROVE  Outcome(o, b)
  <1> DEFINE all(j) == b \o SubSeq(calls, 1, j)
  <1>1. PICK j \in 1 .. Len(calls) : \E k \in 0 .. Len(all(j)) - 1 :
          o = [rest |-> SubSeq(all(j), k + 2, Len(all(j))), ok |-> Range(SubSeq(all(j), 1, k)), bad |-> {all(j)[k + 1]}]
    BY DEF Raised
  <1> DEFINE a == all(j)
  <1>2. PICK k \in 0 .. Len(a) - 1 :
          o = [rest |-> SubSeq(a, k + 2, Len(a)), ok |-> Range(SubSeq(a, 1, k)), bad |-> {a[k + 1]}]
    BY <1>1
  <1>3. a \in Seq(Calls) /\ Range(b) \subseteq Range(a)
    <2>1. SubSeq(calls, 1, j) \in Seq(Calls)
      BY RangeSplit
    <2>2. a = b \o SubSeq(calls, 1, j)
      OBVIOUS
    <2>3. \A s, t \in Seq(Calls) : s \o t \in Seq(Calls) /\ Range(s \o t) = Range(s) \cup Range(t)
      BY ConcatProperties, RangeConcatenation
    <2> HIDE DEF a
    <2> QED BY <2>1, <2>2, <2>3
  <1> HIDE DEF a
  <1>4. Len(a) \in Nat /\ k + 1 \in 0 .. Len(a) /\ k \in Nat /\ k + 1 + 1 = k + 2 /\ k < Len(a) /\ \A i \in 1 .. Len(a) : a[i] \in Calls
    BY <1>3
  <1>5. SubSeq(a, k + 2, Len(a)) \in Seq(Calls)
        /\ Range(a) = Range(SubSeq(a, 1, k + 1)) \cup Range(SubSeq(a, k + 2, Len(a)))
    BY <1>3, <1>4, RangeSplit
  <1>6. Range(SubSeq(a, 1, k + 1)) \subseteq Range(SubSeq(a, 1, k)) \cup {a[k + 1]}
    <2>1. /\ SubSeq(a, 1, k + 1) \in Seq(Calls) /\ Len(SubSeq(a, 1, k + 1)) = k + 1
          /\ \A i \in 1 .. k + 1 : SubSeq(a, 1, k + 1)[i] = a[i]
      BY <1>4, SubSeqProperties
    <2>2. /\ SubSeq(a, 1, k) \in Seq(Calls) /\ Len(SubSeq(a, 1, k)) = k
          /\ \A i \in 1 .. k : SubSeq(a, 1, k)[i] = a[i]
      BY <1>4, SubSeqProperties
    <2>3. Range(SubSeq(a, 1, k + 1)) = {SubSeq(a, 1, k + 1)[i] : i \in 1 .. k + 1}
      BY <2>1, RangeEquality
    <2>4. Range(SubSeq(a, 1, k)) = {SubSeq(a, 1, k)[i] : i \in 1 .. k}
      BY <2>2, RangeEquality
    <2> QED BY <1>4, <2>1, <2>2, <2>3, <2>4
  <1>7. /\ o.rest = SubSeq(a, k + 2, Len(a)) /\ o.ok = Range(SubSeq(a, 1, k)) /\ o.bad = {a[k + 1]}
        /\ o = [rest |-> o.rest, ok |-> o.ok, bad |-> o.bad]
    BY <1>2
  <1> QED BY <1>3, <1>5, <1>6, <1>7 DEF Outcome

LEMMA UnsentTells == ASSUME NEW b \in Seq(Calls) PROVE Outcome(Unsent(b), b)
  BY DEF Outcome, Unsent

\* A rewind after the writes of o: nothing in b is forgotten.
LEMMA BothTell ==
  ASSUME NEW b, NEW o, NEW w, Outcome(o, b), Outcome(w, o.rest)
  PROVE  Outcome(Both(o, w), b)
  <1>1. PICK rest, ok, bad : w = [rest |-> rest, ok |-> ok, bad |-> bad]
    BY DEF Outcome
  <1>2. Both(o, w) = [rest |-> rest, ok |-> ok \cup o.ok, bad |-> bad \cup o.bad]
    <2>1. PICK u, v : u = ok \cup o.ok /\ v = bad \cup o.bad
      OBVIOUS
    <2>2. Both(o, w) = [w EXCEPT !.ok = u, !.bad = v]
      <3>1. w.ok = ok /\ w.bad = bad
        BY <1>1
      <3> QED BY <2>1, <3>1 DEF Both
    <2> QED BY ONLY <1>1, <2>1, <2>2
  <1>3. Both(o, w).rest = w.rest /\ Both(o, w).ok = w.ok \cup o.ok /\ Both(o, w).bad = w.bad \cup o.bad
    BY <1>1, <1>2
  <1> QED BY <1>2, <1>3 DEF Outcome

LEMMA RewindTells ==
  ASSUME NEW b \in Seq(Calls), NEW e, e.since \in Seq(Records), Who \in Producers
  PROVE  /\ \A w \in Rewound(e, b) : Outcome(w, b)
         /\ \A w \in RewindBroke(e, b) : Outcome(w, b)
  <1>1. Again(e) \in Seq(Calls)
    BY DEF Again, Calls
  <1>2. \A w \in Added(b, Again(e)) : Outcome(w, b)
    BY <1>1, AddedTells
  <1>3. \A w \in Raised(b, Again(e)) : Outcome(w, b)
    BY <1>1, RaisedTells
  <1> QED BY <1>2, <1>3, UnsentTells DEF Rewound, RewindBroke

-----------------------------------------------------------------------------
(* What a step leaves true *)

\* Nothing that happened is taken back.
Grows ==
    /\ accepted \in Nat /\ accepted' \in Nat /\ accepted <= accepted'
    /\ done \subseteq done' /\ rejected \subseteq rejected' /\ undone \subseteq undone'
    /\ confirmed \subseteq confirmed' /\ blamed \subseteq blamed'

DiskGrows ==
    /\ Disk.points \subseteq Disk'.points \cup undone'
    /\ \A p \in Checkpointed : Range(Disk.saved[p].st) \subseteq Range(Disk'.saved[p].st) \cup undone'

LEMMA PastStays == ASSUME Grows, DiskGrows PROVE \A r \in Nat : Past(r) => Past(r)'
  <1> SUFFICES ASSUME NEW r \in Nat, Past(r), Always(r), accepted' < r
               PROVE  /\ r \in Disk'.points \cup undone'
                      /\ \A p \in Producers : Reads(p, r) =>
                            Told(<<p, r>>)' /\ (p \in Checkpointed => Has(p, Disk.saved[p], r)')
    BY DEF Past
  <1>1. accepted < r
    BY DEF Grows
  <1>2. r \in Disk'.points \cup undone'
    BY <1>1 DEF Past, Grows, DiskGrows
  <1>3. ASSUME NEW p \in Producers, Reads(p, r) PROVE Told(<<p, r>>)'
    BY <1>1, <1>3 DEF Past, Grows, Told
  <1>4. ASSUME NEW p \in Producers, Reads(p, r), p \in Checkpointed PROVE Has(p, Disk.saved[p], r)'
    <2>1. Has(p, Disk.saved[p], r)
      BY <1>1, <1>4 DEF Past
    <2> QED BY <1>4, <2>1 DEF Has, Grows, DiskGrows
  <1> QED BY <1>2, <1>3, <1>4

LEMMA DiskIs ==
  /\ Disk.points = IF owed THEN durable.points \cup txn.points ELSE durable.points
  /\ Disk'.points = IF owed' THEN durable'.points \cup txn'.points ELSE durable'.points
  /\ \A p \in Checkpointed : Disk.saved[p] = IF owed THEN Saved(txn, p) ELSE durable.saved[p]
  /\ \A p \in Checkpointed : Disk'.saved[p] = IF owed' THEN Saved(txn, p)' ELSE durable'.saved[p]
  BY DEF Disk, Committed

\* Statements in the open transaction only add to it.
LEMMA DiskAdds ==
  ASSUME UNCHANGED <<durable, owed>>, txn.points \subseteq txn'.points,
         \A p \in Checkpointed : Range(Saved(txn, p).st) \subseteq Range(Saved(txn, p)'.st) \cup undone'
  PROVE  DiskGrows
  BY DiskIs DEF DiskGrows

LEMMA DiskStays == ASSUME UNCHANGED <<durable, txn, owed>> PROVE DiskGrows
  BY DiskIs DEF DiskGrows, Saved

LEMMA SafeStays == ASSUME Grows, DiskGrows, NEW n \in Int, Safe(n) PROVE Safe(n)'
  BY PastStays DEF Safe

LEMMA SafeBelow == ASSUME NEW n \in Int, NEW m \in Int, m <= n, Safe(n) PROVE Safe(m)
  BY DEF Safe

LEMMA HasStays == ASSUME Grows, NEW p, NEW c, NEW d, NEW r, Has(p, c, r), Range(c.st) \subseteq Range(d.st) PROVE Has(p, d, r)'
  BY DEF Has, Grows

LEMMA GoodStays ==
  ASSUME Grows, NEW p, NEW c, c.off \in Nat, NEW w, NEW v, Good(p, c, w), w \subseteq v \cup confirmed' \cup blamed'
  PROVE  Good(p, c, v)'
  <1>1. ASSUME NEW r \in 1 .. c.off, Needed(p, r)'
        PROVE  /\ Needed(p, r)
               /\ <<p, r>> \in done' /\ <<p, r>> \in rejected' \cup confirmed' \cup blamed' \cup v
    <2>1. Needed(p, r)
      BY <1>1 DEF Needed, Grows
    <2> QED BY <2>1 DEF Good, Grows
  <1>2. Exact(p, c)'
    BY DEF Good, Exact, Grows
  <1> QED BY <1>1, <1>2 DEF Good

LEMMA Frames ==
  ASSUME Types
  PROVE  /\ UNCHANGED <<node, msg, bound>> => NodeTypes'
         /\ UNCHANGED <<head, rung, reader, acks>> => ReaderTypes'
         /\ UNCHANGED <<head, page, failed, late, handled1, todo, batch, done>> => PageTypes'
         /\ UNCHANGED <<live, entry, entered>> => KeeperTypes'
         /\ UNCHANGED store => StoreTypes'
  <1>1. UNCHANGED <<node, msg, bound>> => NodeTypes'
    BY DEF Types, NodeTypes, node
  <1>2. UNCHANGED <<head, rung, reader, acks>> => ReaderTypes'
    BY DEF Types, ReaderTypes, reader, acks
  <1>3. UNCHANGED <<head, page, failed, late, handled1, todo, batch, done>> => PageTypes'
    BY DEF Types, PageTypes
  <1>4. UNCHANGED <<live, entry, entered>> => KeeperTypes'
    BY DEF Types, KeeperTypes
  <1>5. UNCHANGED store => StoreTypes'
    BY DEF Types, StoreTypes, store
  <1> QED BY <1>1, <1>2, <1>3, <1>4, <1>5

\* A step that leaves the work of the page, the producers and the buffer alone.
Outside ==
    /\ UNCHANGED <<todo, handled1, late, keeper, store, past>> /\ accepted' \in Nat /\ accepted <= accepted'
    /\ page' = page \/ (entered = {} /\ todo = <<>> /\ handled1 = 0)

LEMMA OutsideGrows == ASSUME Types, Outside PROVE Grows /\ DiskGrows
  <1>1. accepted \in Nat /\ accepted' \in Nat /\ accepted <= accepted' /\ UNCHANGED <<done, rejected, confirmed, blamed, undone, durable, txn, owed>>
    BY DEF Types, NodeTypes, Outside, past, store
  <1> QED BY <1>1, DiskStays DEF Grows

LEMMA OutsideStays ==
  ASSUME Inv, Outside
  PROVE  /\ TodoOrder' /\ StatesGood' /\ Chain' /\ Entries' /\ FirstOrder' /\ FirstHandled' /\ DoneReads'
         /\ KeeperTypes' /\ StoreTypes'
  <1>1. /\ Types /\ TodoOrder /\ StatesGood /\ Chain /\ Entries /\ FirstOrder /\ FirstHandled /\ DoneReads
        /\ Grows /\ DiskGrows
    BY OutsideGrows DEF Inv
  <1>2. /\ UNCHANGED <<todo, handled1, live, entry, entered, batch, durable, txn, done, rejected, confirmed, blamed, undone>>
        /\ UNCHANGED <<deferring, owed>>
        /\ page' = page \/ (entered = {} /\ todo = <<>> /\ handled1 = 0)
    BY DEF Outside, keeper, store, past
  <1>3. KeeperTypes' /\ StoreTypes'
    BY <1>1, <1>2, Frames DEF store
  <1>4. TodoOrder'
    <2>1. CASE page' = page
      BY <1>1, <1>2, <2>1 DEF TodoOrder
    <2>2. CASE todo = <<>>
      <3>1. Range(todo) = {}
        BY <2>2 DEF Range
      <3> QED BY <1>2, <3>1 DEF TodoOrder
    <2> QED BY <1>2, <2>1, <2>2
  <1>5. StatesGood'
    <2> SUFFICES ASSUME NEW p \in Checkpointed
                 PROVE  /\ Good(p, live[p], Range(batch))' /\ Good(p, durable.saved[p], {})'
                        /\ p \in DOMAIN txn'.saved => Good(p, txn.saved[p], {})'
                        /\ Good(p, StartOf(p), {})'
      BY DEF StatesGood
    <2>1. /\ live[p] \in State /\ durable.saved[p] \in State
          /\ p \in DOMAIN txn.saved => txn.saved[p] \in State
          /\ StartOf(p) \in State
      BY <1>1 DEF Types, KeeperTypes, StoreTypes, Keep, StartOf
    <2>2. \A c \in State : c.off \in Nat
      BY Sizes DEF State
    <2>3. PICK a, b, c, d, w : a = live[p] /\ b = durable.saved[p] /\ c = txn.saved[p] /\ d = StartOf(p) /\ w = Range(batch)
      OBVIOUS
    <2>4. /\ Good(p, a, w) /\ Good(p, b, {}) /\ (p \in DOMAIN txn.saved => Good(p, c, {})) /\ Good(p, d, {})
      BY <1>1, <2>3 DEF StatesGood
    <2>5. /\ Good(p, a, w)' /\ Good(p, b, {})' /\ (p \in DOMAIN txn.saved => Good(p, c, {})') /\ Good(p, d, {})'
      BY <1>1, <2>1, <2>2, <2>3, <2>4, GoodStays
    <2>6. StartOf(p)' = d
      BY <1>2, <2>3 DEF StartOf
    <2> QED BY <1>2, <2>3, <2>5, <2>6 DEF Good, Exact, Needed
  <1>6. Chain'
    BY <1>1, <1>2 DEF Chain, Saved, StartOf
  <1>7. Entries'
    <2>1. \A p, r : r \in Nat /\ Needed(p, r)' => Needed(p, r)
      BY <1>1 DEF Needed, Grows
    <2>2. \A p \in entered : entry[p].first \in Nat
      BY <1>1, Sizes DEF Types, KeeperTypes, Keep
    <2> SUFFICES ASSUME NEW p \in entered
                 PROVE  /\ live'[p] = Base(entry'[p])
                        /\ Range(entry'[p].start.st) \subseteq Range(entry'[p].base.st)
                        /\ entry'[p].first = 0 => live'[p] = entry'[p].start
                        /\ entry'[p].first # 0 =>
                              /\ entry'[p].first <= page'.ack
                              /\ \A r \in 1 .. entry'[p].first - 1 : Needed(p, r)' => Has(p, entry[p].start, r)'
      BY <1>2 DEF Entries, Base
    <2>3. page' = page
      BY <1>2
    <2>4. \A c, r : Has(p, c, r)' <=> Has(p, c, r)
      BY <1>2 DEF Has
    <2>5. ASSUME NEW r \in 1 .. entry[p].first - 1, entry[p].first # 0, Needed(p, r)' PROVE Has(p, entry[p].start, r)'
      <3>1. Needed(p, r)
        BY <2>1, <2>2, <2>5
      <3>2. Has(p, entry[p].start, r)
        BY <1>1, <2>5, <3>1 DEF Entries
      <3> QED BY <1>2, <3>2 DEF Has
    <2> QED BY <1>1, <1>2, <2>3, <2>5 DEF Entries
  <1>8. FirstHandled'
    <2>1. \A p, r : r \in Nat /\ Needed(p, r)' => Needed(p, r)
      BY <1>1 DEF Needed, Grows
    <2>2. handled1 \in Nat /\ (page' = page \/ handled1 = 0)
      BY <1>1, <1>2 DEF Types, PageTypes, NodeTypes
    <2> QED BY <1>1, <1>2, <2>1, <2>2 DEF FirstHandled, Told, Has, StartOf
  <1>9. DoneReads'
    BY <1>1, <1>2 DEF DoneReads
  <1>10. FirstOrder'
    BY <1>1, <1>2 DEF FirstOrder
  <1> QED BY <1>3, <1>4, <1>5, <1>6, <1>7, <1>8, <1>9, <1>10

-----------------------------------------------------------------------------
(* Steps beside the loop *)

\* The loop is where it was, with the same page.
LEMMA PageStays ==
  ASSUME Inv, Outside, head' \in Nat, head <= head', UNCHANGED <<pc, then, page, failed>>
  PROVE  PageCovered' /\ Control' /\ PageTypes'
  <1>1. Types /\ PageCovered /\ Grows /\ DiskGrows
    BY OutsideGrows DEF Inv
  <1>2. /\ UNCHANGED <<todo, handled1, late, live, entry, entered, batch, durable, txn, owed, done, rejected, confirmed, blamed, undone>>
        /\ UNCHANGED <<deferring, owed>>
        /\ accepted' \in Nat /\ accepted <= accepted'
    BY DEF Outside, keeper, store, past
  <1>3. page.ack \in Nat /\ head \in Nat /\ accepted \in Nat
    BY <1>1, Sizes DEF Types, NodeTypes, PageTypes
  <1>4. PageCovered'
    <2>1. \A r \in Nat : Past(r) => Past(r)'
      BY <1>1, PastStays
    <2>2. \A r \in Nat : Under(r) => Under(r)'
      BY <1>2, <1>3 DEF Under, Worked, Has
    <2>3. \A r \in 1 .. page.ack : Covers(r)' <=> Covers(r)
      BY <1>2 DEF Covers, Failure
    <2>4. Failure' = Failure
      BY <1>2 DEF Failure
    <2> QED BY <1>1, <1>2, <1>3, <2>1, <2>2, <2>3, <2>4 DEF PageCovered
  <1>5. Control'
    BY <1>1, <1>2 DEF Types, Control
  <1>6. PageTypes'
    <2>1. 0 .. head \subseteq 0 .. head' /\ 1 .. head \subseteq 1 .. head'
      BY <1>3
    <2> QED BY <1>1, <1>2, <2>1 DEF Types, PageTypes
  <1> QED BY <1>4, <1>5, <1>6

LEMMA CursorStays ==
  ASSUME Inv, Grows, DiskGrows, UNCHANGED <<cursor, ackSend, ackWant, nextFrom, pc, then, page, failed>>
  PROVE  CursorSafe'
  <1>1. CursorSafe
    BY DEF Inv
  <1>2. cursor \in Int /\ ackSend \in Int /\ ackWant \in Int /\ page.ack \in Int /\ failed - 1 \in Int /\ nextFrom - 1 \in Int
    BY Sizes DEF Inv, Types, NodeTypes, ReaderTypes, PageTypes
  <1>3. \A n \in Int : Safe(n) => Safe(n)'
    BY SafeStays
  <1> QED BY <1>1, <1>2, <1>3 DEF CursorSafe, Safe, Past, Told, Has

\* What was read ahead is behind what was read before.
LEMMA AheadStays ==
  ASSUME Inv, head' \in Nat, head <= head', cursor' \in Nat, cursor <= cursor',
         UNCHANGED <<nodeAhead, nextFrom, prefetch, pc, page>>
  PROVE  Ahead'
  <1>1. Ahead
    BY DEF Inv
  <1>2. prefetch.page.next \in Nat /\ prefetch.page.start \in Nat /\ cursor \in Nat /\ nextFrom \in Nat /\ head \in Nat
    BY Sizes DEF Inv, Types, NodeTypes, ReaderTypes
  <1>3. Whole(prefetch.page, prefetch.page.start, prefetch.ver) => Whole(prefetch.page, prefetch.page.start, prefetch.ver)'
    BY <1>2 DEF Whole
  <1>4. \A a, b, c, d \in Nat : a <= b /\ d <= Larger(a + 1, c) => d <= Larger(b + 1, c)
    BY DEF Larger
  <1>5. prefetch.page.start <= Larger(cursor + 1, nextFrom) => prefetch.page.start <= Larger(cursor' + 1, nextFrom)
    BY <1>2, <1>4
  <1> QED BY <1>1, <1>3, <1>5 DEF Ahead, Larger

LEMMA InvParts ==
  ASSUME NodeTypes', ReaderTypes', PageTypes', KeeperTypes', StoreTypes', Control',
         CursorSafe', Ahead', PageCovered', TodoOrder', StatesGood', Chain', Entries', FirstOrder', FirstHandled', DoneReads'
  PROVE  Inv'
  BY DEF Inv, Types

LEMMA BesideStep == ASSUME Inv, Admit \/ Prune \/ WakeOnInput \/ AcceptGap \/ Rebind PROVE Inv'
  <1> USE DEF node, acks, reader, flow
  <1>1. NodeTypes /\ ReaderTypes /\ Types
    BY DEF Inv, Types
  <1>2. ASSUME Outside, head' \in Nat, head <= head', NodeTypes', ReaderTypes',
               UNCHANGED <<cursor, nodeAhead, ackSend, ackWant, ackFailed, pc, then, page, failed, nextFrom, prefetch>>
        PROVE  Inv'
    <2>1. CursorSafe' /\ Ahead'
      BY <1>1, <1>2, OutsideGrows, CursorStays, AheadStays DEF NodeTypes
    <2>2. PageCovered' /\ Control' /\ PageTypes'
      BY <1>2, PageStays
    <2> QED BY <1>2, <2>1, <2>2, OutsideStays, InvParts
  <1>3. CASE Admit
    <2>1. Outside /\ head' \in Nat /\ head <= head'
      BY <1>1, <1>3 DEF Admit, Outside, NodeTypes
    <2>2. NodeTypes'
      BY <1>1, <1>3, Sizes DEF Admit, NodeTypes
    <2>3. ReaderTypes'
      BY <1>1, <1>3, Sizes DEF Admit, ReaderTypes, NodeTypes
    <2> QED BY <1>2, <1>3, <2>1, <2>2, <2>3 DEF Admit
  <1>4. CASE Prune
    <2>1. Outside /\ head' \in Nat /\ head <= head'
      BY <1>1, <1>4 DEF Prune, Outside, NodeTypes
    <2>2. NodeTypes'
      BY <1>1, <1>4 DEF Prune, NodeTypes
    <2>3. ReaderTypes'
      BY <1>1, <1>4, Frames DEF Prune
    <2> QED BY <1>2, <1>4, <2>1, <2>2, <2>3 DEF Prune
  <1>5. CASE WakeOnInput
    <2>1. Outside /\ head' \in Nat /\ head <= head'
      BY <1>1, <1>5 DEF WakeOnInput, Outside, NodeTypes
    <2>2. NodeTypes'
      BY <1>1, <1>5 DEF WakeOnInput, NodeTypes
    <2>3. ReaderTypes'
      BY <1>1, <1>5 DEF WakeOnInput, ReaderTypes
    <2> QED BY <1>2, <1>5, <2>1, <2>2, <2>3 DEF WakeOnInput
  <1>6. CASE AcceptGap
    <2>1. Outside /\ head' \in Nat /\ head <= head'
      BY <1>1, <1>6 DEF AcceptGap, Outside, NodeTypes
    <2>2. NodeTypes'
      BY <1>1, <1>6 DEF AcceptGap, NodeTypes
    <2>3. ReaderTypes'
      BY <1>1, <1>6 DEF AcceptGap, ReaderTypes
    <2> QED BY <1>2, <1>6, <2>1, <2>2, <2>3 DEF AcceptGap
  <1>7. CASE Rebind
    <2>1. Outside /\ head' \in Nat /\ head <= head'
      BY <1>1, <1>7 DEF Rebind, Outside, NodeTypes
    <2>2. NodeTypes'
      BY <1>1, <1>7 DEF Rebind, NodeTypes
    <2>3. ReaderTypes'
      BY <1>1, <1>7 DEF Rebind, ReaderTypes
    <2> QED BY <1>2, <1>7, <2>1, <2>2, <2>3 DEF Rebind
  <1> QED BY <1>3, <1>4, <1>5, <1>6, <1>7

LEMMA PrefetchStep == ASSUME Inv, PrefetchAnswers PROVE Inv'
  <1> USE DEF node, acks, reader, flow
  <1>1. Types /\ NodeTypes /\ ReaderTypes /\ Ahead
    BY DEF Inv, Types
  <1>0. /\ prefetch.state = "asked"
        /\ UNCHANGED <<node, msg, rung, bound, behind, nextFrom, acks, flow, keeper, store, past>>
    BY DEF PrefetchAnswers
  <1>2. /\ Outside /\ head' = head /\ head \in Nat /\ prefetch.state = "asked"
        /\ UNCHANGED <<node, msg, rung, bound, behind, nextFrom, acks, pc, then, page, failed, cursor, nodeAhead>>
    BY <1>0, <1>1, Sizes DEF Outside, NodeTypes
  <1>3. NodeTypes'
    BY <1>1, <1>2, Frames
  <1>4. PageCovered' /\ Control' /\ PageTypes' /\ CursorSafe'
    BY <1>1, <1>2, PageStays, CursorStays, OutsideGrows
  <1>5. ReaderTypes' /\ Ahead'
    <2>1. CASE prefetch' = [prefetch EXCEPT !.state = "bad"]
      <3>1. ReaderTypes'
        BY <1>1, <1>2, <2>1 DEF ReaderTypes
      <3>2. prefetch'.state = "bad"
        BY <1>1, <2>1 DEF ReaderTypes
      <3> QED BY <1>1, <1>2, <3>1, <3>2 DEF Ahead
    <2>2. ASSUME NEW p \in Pages(prefetch.page.next, prefetch.ver), prefetch' = [prefetch EXCEPT !.state = "got", !.page = p]
          PROVE  ReaderTypes' /\ Ahead'
      <3>1. prefetch.page.next = nextFrom /\ nextFrom # 0 /\ nodeAhead
        BY <1>1, <1>2 DEF Ahead, NodeTypes
      <3>2. prefetch.page.next \in 0 .. head + 1 /\ prefetch.ver \in 0 .. 1
        BY <1>1, <3>1 DEF ReaderTypes
      <3>3. /\ p \in [start : Nat, recs : SUBSET (1 .. head), next : Nat, gap : 0 .. head]
            /\ p.start = Larger(cursor + 1, nextFrom) /\ Whole(p, p.start, prefetch.ver)
        BY <1>1, <2>2, <3>1, <3>2, PageReturned
      <3>4. prefetch' = [state |-> "got", ver |-> prefetch.ver, page |-> p]
        BY <1>1, <2>2 DEF ReaderTypes
      <3>5. p \in [start : Nat, recs : SUBSET Records, next : Nat, gap : Nat]
        <4>1. 1 .. head \subseteq Records /\ 0 .. head \subseteq Nat
          BY <1>1, Sizes DEF NodeTypes
        <4> QED BY <3>3, <4>1
      <3>6. ReaderTypes'
        BY <1>1, <1>2, <3>2, <3>4, <3>5 DEF ReaderTypes
      <3>7. 1 <= p.start
        BY <1>1, <3>1, <3>3 DEF Larger, NodeTypes, ReaderTypes
      <3>8. Whole(prefetch.page, prefetch.page.start, prefetch.ver)'
        BY <1>2, <3>3, <3>4 DEF Whole
      <3>9. prefetch'.page.start <= Larger(cursor + 1, nextFrom)
        BY <1>1, <3>3, <3>4 DEF Larger, NodeTypes, ReaderTypes
      <3> QED BY <1>1, <1>2, <3>1, <3>3, <3>4, <3>6, <3>7, <3>8, <3>9 DEF Ahead, Larger
    <2> QED BY <2>1, <2>2 DEF PrefetchAnswers
  <1> QED BY <1>2, <1>3, <1>4, <1>5, OutsideStays, InvParts

\* The ack in flight ends, one way or the other.
LEMMA AckStep == ASSUME Inv, AckSucceeds \/ AckFails PROVE Inv'
  <1> USE DEF node, acks, reader, flow
  <1>1. Types /\ NodeTypes /\ ReaderTypes /\ CursorSafe
    BY DEF Inv, Types
  <1>0. UNCHANGED <<head, low, nodeAhead, accepted, msg, reader, flow, keeper, store, past>>
    BY DEF AckSucceeds, AckFails
  <1>8. accepted \in Nat
    BY <1>1 DEF NodeTypes
  <1>9. Outside /\ UNCHANGED <<head, low, nodeAhead, accepted, msg, bound, behind, nextFrom, prefetch, pc, then, page, failed>>
    BY <1>0, <1>8 DEF Outside
  <1>10. cursor' \in {cursor, Larger(cursor, ackSend)} /\ ackSend' \in {0, ackWant} /\ ackWant' = 0
    BY DEF AckSucceeds, AckFails, NodeAck
  <1>11. ackFailed' \in {TRUE, ackFailed} /\ rung' \in {TRUE, rung}
    BY DEF AckSucceeds, AckFails
  <1>2. /\ Outside /\ UNCHANGED <<head, low, nodeAhead, accepted, msg, bound, behind, nextFrom, prefetch, pc, then, page, failed>>
        /\ cursor' \in {cursor, Larger(cursor, ackSend)} /\ ackSend' \in {0, ackWant} /\ ackWant' = 0
        /\ ackFailed' \in {TRUE, ackFailed} /\ rung' \in {TRUE, rung}
    BY <1>9, <1>10, <1>11
  <1>3. cursor \in 0 .. head /\ ackSend \in 0 .. head /\ ackWant \in 0 .. head /\ head \in Nat
    BY <1>1, Sizes DEF NodeTypes, ReaderTypes
  <1>4. cursor' \in 0 .. head /\ cursor <= cursor' /\ (cursor' = cursor \/ cursor' = ackSend)
    BY <1>2, <1>3 DEF Larger
  <1>5. NodeTypes' /\ ReaderTypes'
    <2>1. NodeTypes'
      BY <1>1, <1>2, <1>4 DEF NodeTypes
    <2>2. rung' \in BOOLEAN /\ ackFailed' \in BOOLEAN
      BY <1>1, <1>2 DEF ReaderTypes
    <2>3. ackSend' \in 0 .. head /\ ackWant' \in 0 .. head
      BY <1>2, <1>3
    <2> QED BY <1>1, <1>2, <2>1, <2>2, <2>3 DEF ReaderTypes
  <1>6. Ahead' /\ PageCovered' /\ Control' /\ PageTypes'
    BY <1>2, <1>3, <1>4, AheadStays, PageStays
  <1>7. CursorSafe'
    <2>1. \A n \in Int : Safe(n) => Safe(n)'
      BY <1>1, <1>2, OutsideGrows, SafeStays
    <2>2. page.ack \in Int /\ failed - 1 \in Int /\ nextFrom - 1 \in Int
      BY <1>1 DEF Types, PageTypes, ReaderTypes
    <2>3. Safe(0)'
      BY DEF Safe
    <2>4. PICK c, s, w : c = cursor' /\ s = ackSend' /\ w = ackWant'
      OBVIOUS
    <2>5. Safe(c)' /\ Safe(s)' /\ Safe(w)'
      BY <1>1, <1>2, <1>3, <1>4, <2>1, <2>3, <2>4 DEF CursorSafe
    <2> QED BY <1>1, <1>2, <2>1, <2>2, <2>4, <2>5 DEF CursorSafe, Safe, Past, Told, Has
  <1> QED BY <1>2, <1>5, <1>6, <1>7, OutsideStays, InvParts

-----------------------------------------------------------------------------
(* The loop, outside of a page *)

Between == {"top", "step", "fetch", "await", "wait"}

\* A step of the loop that takes no page.
LEMMA LoopStays ==
  ASSUME Inv, Outside, UNCHANGED <<head, cursor, nodeAhead, ackSend, ackWant, page, failed>>,
         pc \notin InPage, pc' \in Between \cup {"restart", "gapwait", "ackbefore"},
         then' \in {"top", "fetch", "gapwait", "ackbefore"},
         (nextFrom' = 0 /\ prefetch' = NoFetch) \/ UNCHANGED <<nextFrom, prefetch>>,
         pc' \in Between => pc \in Between \/ nextFrom' = 0,
         pc' \in {"gapwait", "ackbefore"} => nextFrom' = 0,
         pc' = "ackbefore" \/ (pc' = "restart" /\ then' = "ackbefore") => pc = "restart" /\ then = "ackbefore"
  PROVE  CursorSafe' /\ Ahead' /\ PageCovered' /\ Control' /\ PageTypes'
  <1>1. Types /\ CursorSafe /\ Ahead /\ Grows /\ DiskGrows /\ Control
    BY OutsideGrows DEF Inv, Types
  <1>2. UNCHANGED <<todo, handled1, late, entered, batch, txn, deferring, owed, done>>
    BY DEF Outside, keeper, store, past
  <1>3. pc' \notin InPage \cup {"gap", "ack"}
    BY DEF Between, InPage
  <1>4. PageCovered'
    BY <1>3 DEF PageCovered, InPage
  <1>5. Control'
    <2>1. /\ (txn = Clean \/ owed) /\ (owed => deferring) /\ handled1 = 0 /\ late = 0
          /\ entered = {} /\ batch = <<>> /\ todo = <<>>
      BY <1>1 DEF Control, InPage
    <2>2. pc' = "ackbefore" \/ (pc' = "restart" /\ then' = "ackbefore") => failed # 0
      BY <1>1 DEF Control
    <2>3. pc' \in {"top", "step", "restart", "fetch", "await", "wait", "gap", "gapwait", "ack", "ackbefore"} \cup InPage
      BY DEF Between
    <2>4. Clean' = Clean
      BY DEF Clean
    <2> QED BY <1>2, <1>3, <2>1, <2>2, <2>3, <2>4 DEF Control, InPage
  <1>6. PageTypes'
    BY <1>1, <1>2, Frames
  <1>7. CursorSafe'
    <2>1. \A n \in Int : Safe(n) => Safe(n)'
      BY <1>1, SafeStays
    <2>2. cursor \in Int /\ ackSend \in Int /\ ackWant \in Int /\ failed - 1 \in Int /\ nextFrom - 1 \in Int
      BY <1>1, Sizes DEF Types, NodeTypes, ReaderTypes, PageTypes
    <2>3. Safe(cursor)' /\ Safe(ackSend)' /\ Safe(ackWant)'
      BY <1>1, <2>1, <2>2 DEF CursorSafe, Safe, Past, Told, Has
    <2>4. pc' = "ackbefore" \/ (pc' = "restart" /\ then' = "ackbefore") => Safe(failed - 1)'
      BY <1>1, <2>1, <2>2 DEF CursorSafe, Safe, Past, Told, Has
    <2>5. nextFrom' # 0 /\ pc' \in Between => Safe(nextFrom - 1)'
      BY <1>1, <2>1, <2>2 DEF CursorSafe, Between, Safe, Past, Told, Has
    <2> QED BY <1>3, <2>3, <2>4, <2>5 DEF CursorSafe, Between
  <1>8. Ahead'
    <2>1. CASE nextFrom' = 0 /\ prefetch' = NoFetch
      BY <1>3, <2>1 DEF Ahead, NoFetch
    <2>2. CASE UNCHANGED <<nextFrom, prefetch>>
      <3>1. Whole(prefetch.page, prefetch.page.start, prefetch.ver)' <=> Whole(prefetch.page, prefetch.page.start, prefetch.ver)
        BY <2>2 DEF Whole
      <3> QED BY <1>1, <1>3, <2>2, <3>1 DEF Ahead, Larger
    <2> QED BY <2>1, <2>2
  <1> QED BY <1>4, <1>5, <1>6, <1>7, <1>8

\* Nothing read ahead is in its types.
LEMMA NoFetchType == NoFetch \in [state : {"none", "asked", "got", "bad"}, ver : 0 .. 1,
                                  page : [start : Nat, recs : SUBSET Records, next : Nat, gap : Nat]]
  BY DEF NoFetch, NoPage

LEMMA LoopStep ==
  ASSUME Inv, TakeGeneration \/ Step \/ RestartFromCursor \/ FetchFails \/ Wake \/ WakeAtGap \/ ProcessGap
  PROVE  Inv'
  <1> USE DEF node, acks, reader
  <1>1. Types /\ NodeTypes /\ ReaderTypes /\ Control /\ Ahead
    BY DEF Inv, Types
  <1>2. UNCHANGED <<node, msg, bound, behind, ackSend, ackWant, page, todo, handled1, failed, late, keeper, store, past>>
    BY DEF TakeGeneration, Step, RestartFromCursor, FetchFails, Wake, WakeAtGap, ProcessGap
  <1>3. Outside
    BY <1>1, <1>2 DEF Outside, NodeTypes
  <1>4. NodeTypes'
    BY <1>1, <1>2, Frames
  <1>5. rung' \in BOOLEAN /\ ackFailed' \in BOOLEAN
    <2>1. rung' \in {FALSE, rung, behind /\ rung} /\ ackFailed' \in {FALSE, ackFailed}
      BY DEF TakeGeneration, Step, RestartFromCursor, FetchFails, Wake, WakeAtGap, ProcessGap
    <2> QED BY <1>1, <2>1 DEF ReaderTypes
  <1>6. (nextFrom' = 0 /\ prefetch' = NoFetch) \/ UNCHANGED <<nextFrom, prefetch>>
    BY DEF TakeGeneration, Step, RestartFromCursor, FetchFails, Wake, WakeAtGap, ProcessGap
  <1>7. ReaderTypes'
    BY <1>1, <1>2, <1>5, <1>6, NoFetchType DEF ReaderTypes, NodeTypes
  <1>8. pc \notin InPage
    BY DEF TakeGeneration, Step, RestartFromCursor, FetchFails, Wake, WakeAtGap, ProcessGap, InPage
  <1>9. /\ pc' \in Between \cup {"restart", "gapwait", "ackbefore"} /\ then' \in {"top", "fetch", "gapwait", "ackbefore"}
        /\ pc' \in Between => pc \in Between \/ nextFrom' = 0
        /\ pc' \in {"gapwait", "ackbefore"} => nextFrom' = 0
        /\ pc' = "ackbefore" \/ (pc' = "restart" /\ then' = "ackbefore") => pc = "restart" /\ then = "ackbefore"
    <2>1. then \in {"top", "fetch", "gapwait", "ackbefore"}
      BY <1>1 DEF Control
    <2>2. CASE TakeGeneration
      BY <2>1, <2>2 DEF TakeGeneration, Between
    <2>3. CASE Step
      BY <2>1, <2>3 DEF Step, Between, RestartThen
    <2>4. CASE RestartFromCursor
      BY <2>1, <2>4 DEF RestartFromCursor, Between
    <2>5. CASE FetchFails
      BY <2>1, <2>5 DEF FetchFails, Between, RestartThen
    <2>6. CASE Wake
      BY <2>1, <2>6 DEF Wake, Between
    <2>7. CASE WakeAtGap
      BY <1>1, <2>1, <2>7 DEF WakeAtGap, Between, Ahead
    <2>8. CASE ProcessGap
      BY <2>1, <2>8 DEF ProcessGap, Between, RestartThen
    <2> QED BY <2>2, <2>3, <2>4, <2>5, <2>6, <2>7, <2>8
  <1>10. UNCHANGED <<head, cursor, nodeAhead, ackSend, ackWant, page, failed>>
    BY <1>2
  <1>11. CursorSafe' /\ Ahead' /\ PageCovered' /\ Control' /\ PageTypes'
    BY <1>3, <1>6, <1>8, <1>9, <1>10, LoopStays
  <1> QED BY <1>3, <1>4, <1>7, <1>11, OutsideStays, InvParts

-----------------------------------------------------------------------------
(* A page in hand *)

\* What a page moves the cursor past, it holds, lies in its gap, or no filter lets through.
LEMMA PageInHand ==
  ASSUME NodeTypes, NEW p \in [start : Nat, recs : SUBSET (1 .. head), next : Nat, gap : 0 .. head],
         NEW ver \in 0 .. 1, NEW s \in Nat, Whole(p, s, ver), s >= 1, Safe(s - 1), p.start \in {0, s}
  PROVE  /\ \A r \in 1 .. AckOffset(p) : r <= p.gap \/ r \in p.recs \/ Past(r)
         /\ \A r \in p.recs : r <= AckOffset(p)
         /\ p.start # 0 => IF AckOffset(p) = 0 THEN p.next = s ELSE p.next <= AckOffset(p) + 1
  <1>1. /\ p.next \in Nat /\ p.gap \in Nat /\ s <= p.next /\ p.gap < p.next /\ (p.gap # 0 => s <= p.gap)
        /\ \A r \in p.recs : s <= r /\ r < p.next /\ r \in Nat
    BY Sizes DEF Whole, NodeTypes
  <1>2. head \in Nat
    BY Sizes DEF NodeTypes
  <1>3. CASE p.recs # {} \/ (p.start # 0 /\ p.next > p.start)
    <2>1. AckOffset(p) = p.next - 1
      BY <1>2, <1>3, AckOf
    <2>2. ASSUME NEW r \in 1 .. p.next - 1 PROVE r <= p.gap \/ r \in p.recs \/ Past(r)
      <3>1. CASE r < s
        BY <1>1, <3>1 DEF Safe
      <3>2. CASE Signal[r] \notin Filter[ver]
        BY <3>2 DEF Past, Always
      <3> QED BY <3>1, <3>2 DEF Whole
    <2>3. p.next - 1 # 0
      BY <1>1, <1>3
    <2> QED BY <1>1, <2>1, <2>2, <2>3
  <1>4. CASE ~(p.recs # {} \/ (p.start # 0 /\ p.next > p.start))
    <2>1. AckOffset(p) = p.gap /\ p.recs = {}
      BY <1>2, <1>4, AckOf
    <2>2. p.start # 0 => p.next = s /\ p.gap = 0
      BY <1>1, <1>4
    <2> QED BY <1>1, <2>1, <2>2
  <1> QED BY <1>3, <1>4

LEMMA TakeStays ==
  ASSUME Inv, NEW p \in [start : Nat, recs : SUBSET (1 .. head), next : Nat, gap : 0 .. head],
         NEW ver \in 0 .. 1, NEW s \in Nat, Whole(p, s, ver), s >= 1, Safe(s - 1),
         p.start = (IF nodeAhead THEN s ELSE 0), pc \in {"fetch", "await"}, TakePage(p, ver),
         UNCHANGED <<node, msg, rung, bound, acks, then, todo, handled1, failed, late, keeper, store, past>>
  PROVE  Inv'
  <1> USE DEF node, acks
  <1>1. Types /\ NodeTypes /\ ReaderTypes /\ PageTypes /\ Control /\ CursorSafe /\ Ahead
    BY DEF Inv, Types
  <1>2. /\ (txn = Clean \/ owed) /\ (owed => deferring) /\ handled1 = 0 /\ late = 0
        /\ entered = {} /\ batch = <<>> /\ todo = <<>>
    BY <1>1 DEF Control, InPage
  <1>3. /\ AckOffset(p) \in 0 .. head /\ head \in Nat /\ p.next \in Nat /\ s <= p.next /\ p.next <= head + 1
        /\ nodeAhead \in BOOLEAN
    <2>1. head \in Nat /\ nodeAhead \in BOOLEAN
      BY <1>1, Sizes DEF NodeTypes
    <2>2. AckOffset(p) \in 0 .. head
      BY <2>1, AckOf
    <2>3. p.next \in Nat /\ s <= p.next /\ p.next <= head + 1
      BY DEF Whole
    <2> QED BY <2>1, <2>2, <2>3
  <1>4. /\ page' = [recs |-> p.recs, gap |-> p.gap, ack |-> AckOffset(p)]
        /\ nextFrom' = IF p.start # 0 THEN p.next ELSE nextFrom
        /\ AckOffset(p) = 0 => pc' = "wait" /\ behind' = FALSE /\ prefetch' = NoFetch
        /\ AckOffset(p) # 0 =>
              /\ pc' = "gap" /\ behind' = TRUE
              /\ prefetch' = IF p.start # 0
                             THEN [state |-> "asked", ver |-> ver, page |-> [NoPage EXCEPT !.next = p.next]]
                             ELSE NoFetch
    BY DEF TakePage
  <1>5. Outside
    BY <1>1, <1>2 DEF Outside, NodeTypes
  <1>6. Grows /\ DiskGrows
    BY <1>1, <1>5, OutsideGrows
  <1>7. NodeTypes'
    BY <1>1, Frames
  <1>8. ReaderTypes'
    <2>1. [NoPage EXCEPT !.next = p.next] \in [start : Nat, recs : SUBSET Records, next : Nat, gap : Nat]
      BY <1>3 DEF NoPage
    <2>2. [state |-> "asked", ver |-> ver, page |-> [NoPage EXCEPT !.next = p.next]]
            \in [state : {"none", "asked", "got", "bad"}, ver : 0 .. 1,
                 page : [start : Nat, recs : SUBSET Records, next : Nat, gap : Nat]]
      BY <2>1
    <2>3. nextFrom' \in 0 .. head + 1
      BY <1>1, <1>3, <1>4 DEF ReaderTypes
    <2>4. behind' \in BOOLEAN
      BY <1>4
    <2>5. prefetch' \in [state : {"none", "asked", "got", "bad"}, ver : 0 .. 1,
                         page : [start : Nat, recs : SUBSET Records, next : Nat, gap : Nat]]
      BY <1>4, <2>2, NoFetchType
    <2> QED BY <1>1, <2>3, <2>4, <2>5 DEF ReaderTypes
  <1>9. PageTypes'
    <2>1. page' \in [recs : SUBSET (1 .. head), gap : 0 .. head, ack : 0 .. head]
      BY <1>3, <1>4
    <2> QED BY <1>1, <2>1 DEF PageTypes, keeper, past
  <1>10. Control'
    <2>1. pc' \in {"wait", "gap"}
      BY <1>4
    <2> QED BY <1>1, <1>2, <2>1 DEF Control, InPage, Clean, store, keeper
  <1>11. p.start \in {0, s}
    BY <1>3
  <1>12. /\ \A r \in 1 .. AckOffset(p) : r <= p.gap \/ r \in p.recs \/ Past(r)
         /\ \A r \in p.recs : r <= AckOffset(p)
         /\ p.start # 0 => IF AckOffset(p) = 0 THEN p.next = s ELSE p.next <= AckOffset(p) + 1
    BY <1>1, <1>11, PageInHand
  <1>13. PageCovered'
    <2>1. \A r \in Nat : Past(r) => Past(r)'
      BY <1>6, PastStays
    <2>2. CASE pc' = "wait"
      BY <2>2 DEF PageCovered, InPage
    <2>3. CASE pc' = "gap"
      <3>1. page'.ack = AckOffset(p) /\ page'.recs = p.recs /\ page'.gap = p.gap
        BY <1>4
      <3>2. \A r \in 1 .. AckOffset(p) : r \in Nat
        BY <1>3
      <3> QED BY <1>12, <2>1, <2>3, <3>1, <3>2 DEF PageCovered, InPage
    <2> QED BY <1>4, <2>2, <2>3
  <1>14. CursorSafe'
    <2>1. \A n \in Int : Safe(n) => Safe(n)'
      BY <1>6, SafeStays
    <2>2. cursor \in Int /\ ackSend \in Int /\ ackWant \in Int
      BY <1>1, Sizes DEF NodeTypes, ReaderTypes
    <2>3. Safe(cursor)' /\ Safe(ackSend)' /\ Safe(ackWant)'
      BY <1>1, <2>1, <2>2 DEF CursorSafe, Safe, Past, Told, Has
    <2>4. ASSUME pc' = "wait", nextFrom' # 0 PROVE Safe(nextFrom - 1)'
      <3>1. AckOffset(p) = 0 /\ p.start # 0 /\ nextFrom' = s
        <4>1. AckOffset(p) = 0
          BY <1>4, <2>4
        <4>2. p.start # 0
          BY <1>1, <1>3, <1>4, <2>4 DEF Ahead
        <4> QED BY <1>4, <1>12, <4>1, <4>2
      <3>2. Safe(s - 1)'
        BY <2>1
      <3> QED BY <3>1, <3>2 DEF Safe, Past, Told, Has
    <2> QED BY <1>4, <2>3, <2>4 DEF CursorSafe
  <1>15. Ahead'
    <2>1. CASE AckOffset(p) = 0
      <3>1. ~nodeAhead => nextFrom' = 0
        BY <1>1, <1>3, <1>4 DEF Ahead
      <3> QED BY <1>4, <2>1, <3>1 DEF Ahead, NoFetch, InPage
    <2>2. CASE AckOffset(p) # 0 /\ nodeAhead
      <3>1. p.start = s /\ p.next # 0
        BY <1>3, <2>2
      <3>2. nextFrom' = p.next /\ page'.ack = AckOffset(p) /\ prefetch'.state = "asked" /\ prefetch'.page.next = p.next
        BY <1>4, <2>2, <3>1 DEF NoPage
      <3>3. p.next <= AckOffset(p) + 1
        BY <1>12, <2>2, <3>1
      <3> QED BY <1>4, <2>2, <3>1, <3>2, <3>3 DEF Ahead
    <2>3. CASE AckOffset(p) # 0 /\ ~nodeAhead
      <3>1. nextFrom' = 0 /\ prefetch' = NoFetch
        BY <1>1, <1>4, <2>3 DEF Ahead
      <3>2. page'.ack \in Nat
        BY <1>3, <1>4
      <3> QED BY <1>4, <2>3, <3>1, <3>2 DEF Ahead, NoFetch
    <2> QED BY <1>3, <2>1, <2>2, <2>3
  <1> QED BY <1>5, <1>7, <1>8, <1>9, <1>10, <1>13, <1>14, <1>15, OutsideStays, InvParts

LEMMA FetchStep == ASSUME Inv, Fetch \/ TakePrefetched PROVE Inv'
  <1>1. NodeTypes /\ ReaderTypes /\ CursorSafe /\ Ahead
    BY DEF Inv, Types
  <1>2. cursor \in Nat /\ nextFrom \in Nat /\ head \in Nat /\ bound \in 0 .. 1 /\ nodeAhead \in BOOLEAN
    BY <1>1, Sizes DEF NodeTypes, ReaderTypes
  <1>3. Safe(cursor)
    BY <1>1 DEF CursorSafe
  <1>4. pc \in {"fetch", "await"} /\ nextFrom # 0 => Safe(nextFrom - 1)
    BY <1>1 DEF CursorSafe
  <1>5. \A m, n \in Nat : m + 1 <= Larger(cursor + 1, n) /\ (n # 0 => Safe(n - 1)) => Safe(m)
    <2> SUFFICES ASSUME NEW m \in Nat, NEW n \in Nat, m + 1 <= Larger(cursor + 1, n), n # 0 => Safe(n - 1) PROVE Safe(m)
      OBVIOUS
    <2>1. m <= cursor \/ (n # 0 /\ m <= n - 1)
      BY <1>2 DEF Larger
    <2> QED BY <1>2, <1>3, <2>1, SafeBelow
  <1>6. CASE Fetch
    <2>1. PICK p \in Pages(nextFrom, bound) : TakePage(p, bound)
      BY <1>6 DEF Fetch
    <2>2. nextFrom \in 0 .. head + 1
      BY <1>1 DEF ReaderTypes
    <2>3. /\ p \in [start : Nat, recs : SUBSET (1 .. head), next : Nat, gap : 0 .. head]
          /\ nodeAhead => p.start = Larger(cursor + 1, nextFrom) /\ Whole(p, p.start, bound)
          /\ ~nodeAhead => p.start = 0 /\ Whole(p, cursor + 1, bound)
      BY <1>1, <1>2, <2>1, <2>2, PageReturned
    <2> DEFINE s == IF nodeAhead THEN Larger(cursor + 1, nextFrom) ELSE cursor + 1
    <2>4. s \in Nat /\ s >= 1 /\ s - 1 \in Nat /\ s - 1 + 1 = s /\ (~nodeAhead => s - 1 = cursor) /\ (nodeAhead => s <= Larger(cursor + 1, nextFrom))
      BY <1>2 DEF Larger
    <2>5. p.start = (IF nodeAhead THEN s ELSE 0) /\ Whole(p, s, bound)
      BY <1>2, <2>3
    <2> HIDE DEF s
    <2>6. pc = "fetch"
      BY <1>6 DEF Fetch
    <2>7. Safe(s - 1)
      BY <1>2, <1>3, <1>4, <1>5, <2>4, <2>6
    <2>8. UNCHANGED <<node, msg, rung, bound, acks, then, todo, handled1, failed, late, keeper, store, past>>
      BY <1>6 DEF Fetch
    <2> QED BY <1>2, <2>1, <2>3, <2>4, <2>5, <2>6, <2>7, <2>8, TakeStays
  <1>7. CASE TakePrefetched
    <2>1. pc = "await" /\ prefetch.state = "got" /\ TakePage(prefetch.page, prefetch.ver)
      BY <1>7 DEF TakePrefetched
    <2>2. PICK p, v : p = prefetch.page /\ v = prefetch.ver
      OBVIOUS
    <2>3. /\ v \in 0 .. 1 /\ p.start \in Nat /\ p.start >= 1 /\ p.start <= Larger(cursor + 1, nextFrom)
          /\ Whole(p, p.start, v) /\ nextFrom # 0 /\ nodeAhead
      BY <1>1, <1>2, <2>1, <2>2 DEF ReaderTypes, Ahead
    <2>4. p \in [start : Nat, recs : SUBSET (1 .. head), next : Nat, gap : 0 .. head]
      <3>1. p \in [start : Nat, recs : SUBSET Records, next : Nat, gap : Nat]
        BY <1>1, <2>2 DEF ReaderTypes
      <3>2. p.next <= head + 1 /\ p.gap < p.next /\ \A r \in p.recs : p.start <= r /\ r < p.next
        BY <2>3 DEF Whole
      <3>3. p.gap \in 0 .. head
        BY <1>2, <3>1, <3>2
      <3>4. \A r \in p.recs : r \in 1 .. head
        BY <1>2, <2>3, <3>1, <3>2, Sizes
      <3> QED BY <3>1, <3>3, <3>4
    <2>5. p.start - 1 \in Nat /\ p.start - 1 + 1 = p.start
      BY <2>3
    <2>6. Safe(p.start - 1)
      BY <1>2, <1>4, <1>5, <2>1, <2>3, <2>5
    <2>7. TakePage(p, v) /\ UNCHANGED <<node, msg, rung, bound, acks, then, todo, handled1, failed, late, keeper, store, past>>
      BY <1>7, <2>1, <2>2 DEF TakePrefetched
    <2> QED BY <2>1, <2>3, <2>4, <2>6, <2>7, TakeStays
  <1> QED BY <1>6, <1>7


-----------------------------------------------------------------------------
(* After the page *)

LEMMA EndStays ==
  ASSUME Inv, Outside, pc \in {"ack", "ackbefore"}, page' = NoWork, failed' \in {0, failed},
         pc' \in {"top", "restart"}, then' \in {"top", then}, pc' = "restart" => then' = "top",
         UNCHANGED <<head, nodeAhead, nextFrom, prefetch>>,
         NEW c \in 0 .. head, NEW s \in Int, NEW w \in Int, cursor' = c, ackSend' = s, ackWant' = w,
         cursor <= c, Safe(c), Safe(s), Safe(w), nextFrom # 0 => Safe(nextFrom - 1)
  PROVE  CursorSafe' /\ Ahead' /\ PageCovered' /\ Control' /\ PageTypes'
  <1>1. Types /\ PageTypes /\ Control /\ Ahead /\ Grows /\ DiskGrows
    BY OutsideGrows DEF Inv, Types
  <1>2. UNCHANGED <<todo, handled1, late, entered, batch, txn, deferring, owed, done>>
    BY DEF Outside, keeper, store, past
  <1>3. cursor \in Nat /\ head \in Nat /\ nextFrom - 1 \in Int
    BY <1>1, Sizes DEF Types, NodeTypes, ReaderTypes
  <1>4. CursorSafe'
    <2>1. \A n \in Int : Safe(n) => Safe(n)'
      BY <1>1, SafeStays
    <2>2. Safe(cursor)' /\ Safe(ackSend)' /\ Safe(ackWant)'
      BY <2>1 DEF Safe, Past, Told, Has
    <2>3. nextFrom' # 0 => Safe(nextFrom - 1)'
      BY <1>3, <2>1 DEF Safe, Past, Told, Has
    <2> QED BY <2>2, <2>3 DEF CursorSafe
  <1>5. Ahead'
    <2>1. \A a, b, m, d \in Nat : a <= b /\ d <= Larger(a + 1, m) => d <= Larger(b + 1, m)
      BY DEF Larger
    <2>2. prefetch.page.start \in Nat /\ nextFrom \in Nat /\ c \in Nat
      BY <1>1, <1>3 DEF Types, ReaderTypes
    <2>3. prefetch.page.start <= Larger(cursor + 1, nextFrom) => prefetch.page.start <= Larger(c + 1, nextFrom)
      BY <1>3, <2>1, <2>2
    <2>4. Whole(prefetch.page, prefetch.page.start, prefetch.ver)' <=> Whole(prefetch.page, prefetch.page.start, prefetch.ver)
      BY DEF Whole
    <2>5. (prefetch.page.start <= Larger(cursor + 1, nextFrom))' <=> prefetch.page.start <= Larger(c + 1, nextFrom)
      BY DEF Larger
    <2> QED BY <1>1, <2>3, <2>4, <2>5 DEF Ahead, InPage
  <1>6. PageCovered'
    BY DEF PageCovered, InPage
  <1>7. Control'
    <2>1. /\ (txn = Clean \/ owed) /\ (owed => deferring) /\ handled1 = 0 /\ late = 0
          /\ entered = {} /\ batch = <<>> /\ todo = <<>>
      BY <1>1 DEF Control, InPage
    <2>2. then' \in {"top", "fetch", "gapwait", "ackbefore"}
      BY <1>1 DEF Control
    <2>3. Clean' = Clean
      BY DEF Clean
    <2> QED BY <1>2, <2>1, <2>2, <2>3 DEF Control, InPage
  <1>8. PageTypes'
    <2>1. page' \in [recs : SUBSET (1 .. head), gap : 0 .. head, ack : 0 .. head] /\ failed' \in 0 .. head
      BY <1>1, <1>3 DEF PageTypes, NoWork
    <2> QED BY <1>1, <1>2, <2>1 DEF PageTypes
  <1> QED BY <1>4, <1>5, <1>6, <1>7, <1>8

LEMMA EndStep == ASSUME Inv, QueueAck \/ AckInTurn \/ AckBeforeFailed PROVE Inv'
  <1> USE DEF node, acks, reader
  <1>1. Types /\ NodeTypes /\ ReaderTypes /\ PageTypes /\ Control /\ Ahead /\ CursorSafe
    BY DEF Inv, Types
  <1>2. /\ UNCHANGED <<head, low, nodeAhead, accepted, msg, rung, bound, behind, nextFrom, prefetch>>
        /\ UNCHANGED <<ackFailed, todo, handled1, late, keeper, store, past>>
        /\ page' = NoWork /\ pc \in {"ack", "ackbefore"}
    BY DEF QueueAck, AckInTurn, AckBeforeFailed
  <1>3. Outside
    <2>1. todo = <<>> /\ entered = {} /\ handled1 = 0
      BY <1>1, <1>2 DEF Control, InPage
    <2> QED BY <1>1, <1>2, <2>1 DEF Outside, NodeTypes
  <1>4. /\ head \in Nat /\ cursor \in 0 .. head /\ ackSend \in 0 .. head /\ ackWant \in 0 .. head
        /\ page.ack \in 0 .. head /\ nextFrom \in 0 .. head + 1 /\ failed \in 0 .. head
    BY <1>1, Sizes DEF NodeTypes, ReaderTypes, PageTypes
  <1>5. Safe(cursor) /\ Safe(ackSend) /\ Safe(ackWant)
    BY <1>1 DEF CursorSafe
  <1>6. ASSUME NEW c \in 0 .. head, NEW s \in 0 .. head, NEW w \in 0 .. head, cursor' = c, ackSend' = s, ackWant' = w,
               cursor <= c, Safe(c), Safe(s), Safe(w), nextFrom # 0 => Safe(nextFrom - 1), failed' \in {0, failed},
               pc' \in {"top", "restart"}, then' \in {"top", then}, pc' = "restart" => then' = "top"
        PROVE  Inv'
    <2>1. NodeTypes'
      BY <1>1, <1>2, <1>6 DEF NodeTypes
    <2>2. ReaderTypes'
      BY <1>1, <1>2, <1>6 DEF ReaderTypes
    <2>3. s \in Int /\ w \in Int
      OBVIOUS
    <2>4. CursorSafe' /\ Ahead' /\ PageCovered' /\ Control' /\ PageTypes'
      BY <1>2, <1>3, <1>6, <2>3, EndStays
    <2> QED BY <1>3, <2>1, <2>2, <2>4, OutsideStays, InvParts
  <1>7. CASE QueueAck
    <2>1. Safe(page.ack)
      BY <1>1, <1>7 DEF QueueAck, CursorSafe
    <2>2. nextFrom - 1 <= page.ack
      BY <1>1, <1>4, <1>7 DEF QueueAck, Ahead
    <2>3. Safe(nextFrom - 1)
      BY <1>4, <2>1, <2>2, SafeBelow
    <2>4. cursor' = cursor /\ ackSend' \in {ackSend, page.ack} /\ ackWant' \in {ackWant, page.ack} /\ pc' = "top" /\ then' = then /\ failed' = failed
      BY <1>7 DEF QueueAck
    <2>5. PICK s, w : s = ackSend' /\ w = ackWant'
      OBVIOUS
    <2>6. s \in 0 .. head /\ w \in 0 .. head /\ Safe(s) /\ Safe(w)
      BY <1>4, <1>5, <2>1, <2>4, <2>5
    <2> QED BY <1>4, <1>5, <1>6, <2>3, <2>4, <2>5, <2>6
  <1>8. CASE AckInTurn
    <2>1. Safe(page.ack) /\ nextFrom = 0
      BY <1>1, <1>8 DEF AckInTurn, CursorSafe, Ahead
    <2>2. /\ cursor' \in {cursor, Larger(cursor, page.ack)} /\ ackSend' = ackSend /\ ackWant' = ackWant /\ failed' = failed
          /\ pc' \in {"top", "restart"} /\ then' \in {"top", then} /\ (pc' = "restart" => then' = "top")
      BY <1>8 DEF AckInTurn, NodeAck, RestartThen
    <2>3. PICK c : c = cursor'
      OBVIOUS
    <2>4. c \in 0 .. head /\ cursor <= c /\ c \in {cursor, page.ack}
      BY <1>4, <2>2, <2>3 DEF Larger
    <2>5. Safe(c)
      BY <1>5, <2>1, <2>4
    <2> QED BY <1>4, <1>5, <1>6, <2>1, <2>2, <2>3, <2>4, <2>5
  <1>9. CASE AckBeforeFailed
    <2>1. Safe(failed - 1) /\ nextFrom = 0 /\ failed # 0
      BY <1>1, <1>9 DEF AckBeforeFailed, CursorSafe, Ahead, Control
    <2>2. /\ cursor' \in {cursor, Larger(cursor, failed - 1)} /\ ackSend' = ackSend /\ ackWant' = ackWant /\ failed' = 0
          /\ pc' = "top" /\ then' = then
      BY <1>9 DEF AckBeforeFailed, NodeAck, BeforeFailed
    <2>3. PICK c : c = cursor'
      OBVIOUS
    <2>4. c \in 0 .. head /\ cursor <= c /\ c \in {cursor, failed - 1}
      BY <1>4, <2>1, <2>2, <2>3 DEF Larger
    <2>5. Safe(c)
      BY <1>5, <2>1, <2>4
    <2> QED BY <1>4, <1>5, <1>6, <2>1, <2>2, <2>3, <2>4, <2>5
  <1> QED BY <1>7, <1>8, <1>9

-----------------------------------------------------------------------------
(* The records of a page *)

\* Within a page the node, the fetches and the acks are left alone.
LEMMA PageFrame ==
  ASSUME Inv, Grows, DiskGrows, UNCHANGED <<node, msg, rung, reader, acks>>,
         pc \in {"gap"} \cup InPage, pc' \in InPage, page'.ack = page.ack
  PROVE  NodeTypes' /\ ReaderTypes' /\ CursorSafe' /\ Ahead'
  <1>1. Types /\ Ahead /\ CursorSafe
    BY DEF Inv
  <1>2. NodeTypes' /\ ReaderTypes'
    BY <1>1, Frames DEF node, reader
  <1>3. UNCHANGED <<head, cursor, nodeAhead, ackSend, ackWant, nextFrom, prefetch>>
    BY DEF node, reader, acks
  <1>4. CursorSafe'
    <2>1. \A n \in Int : Safe(n) => Safe(n)'
      BY SafeStays
    <2>2. cursor \in Int /\ ackSend \in Int /\ ackWant \in Int
      BY <1>1, Sizes DEF Types, NodeTypes, ReaderTypes
    <2>3. Safe(cursor)' /\ Safe(ackSend)' /\ Safe(ackWant)'
      BY <1>1, <1>3, <2>1, <2>2 DEF CursorSafe, Safe, Past, Told, Has
    <2> QED BY <2>3 DEF CursorSafe, InPage
  <1>5. Ahead'
    <2>1. Whole(prefetch.page, prefetch.page.start, prefetch.ver)' <=> Whole(prefetch.page, prefetch.page.start, prefetch.ver)
      BY <1>3 DEF Whole
    <2>2. nextFrom <= page.ack + 1
      BY <1>1 DEF Ahead
    <2> QED BY <1>1, <1>3, <2>1, <2>2 DEF Ahead, Larger, InPage
  <1> QED BY <1>2, <1>4, <1>5

\* A step that appends records and leaves the producers alone.
LEMMA KeepStays ==
  ASSUME Inv, UNCHANGED <<accepted, keeper, durable, owed, past>>, txn'.saved = txn.saved, page'.ack = page.ack,
         txn.points \subseteq txn'.points
  PROVE  /\ StatesGood' /\ Chain' /\ Entries' /\ DoneReads' /\ KeeperTypes' /\ Grows /\ DiskGrows
         /\ handled1' = handled1 => FirstHandled'
  <1>1. Types /\ StatesGood /\ Chain /\ Entries /\ DoneReads /\ FirstHandled
    BY DEF Inv
  <1>2. UNCHANGED <<live, entry, entered, batch, durable, done, rejected, confirmed, blamed, undone, accepted>>
    BY DEF keeper, past
  <1>3. Grows /\ DiskGrows
    <2>1. Grows
      BY <1>1, <1>2 DEF Grows, Types, NodeTypes
    <2>2. \A p \in Checkpointed : Saved(txn, p)' = Saved(txn, p)
      BY DEF Saved
    <2> QED BY <2>1, <2>2, DiskAdds
  <1>4. StatesGood'
    <2>1. \A p, c, w : Good(p, c, w)' <=> Good(p, c, w)
      BY <1>2 DEF Good, Exact, Needed
    <2>2. \A p : StartOf(p)' = StartOf(p)
      BY <1>2 DEF StartOf
    <2> SUFFICES ASSUME NEW p \in Checkpointed
                 PROVE  /\ Good(p, live[p], Range(batch))' /\ Good(p, durable.saved[p], {})'
                        /\ (p \in DOMAIN txn'.saved => Good(p, txn.saved[p], {})') /\ Good(p, StartOf(p), {})'
      BY DEF StatesGood
    <2>3. PICK a, b, c, d, w : a = live[p] /\ b = durable.saved[p] /\ c = txn.saved[p] /\ d = StartOf(p) /\ w = Range(batch)
      OBVIOUS
    <2>4. Good(p, a, w) /\ Good(p, b, {}) /\ (p \in DOMAIN txn.saved => Good(p, c, {})) /\ Good(p, d, {})
      BY <1>1, <2>3 DEF StatesGood
    <2>5. Good(p, a, w)' /\ Good(p, b, {})' /\ (p \in DOMAIN txn.saved => Good(p, c, {})') /\ Good(p, d, {})'
      BY <2>1, <2>4
    <2> QED BY <1>2, <2>2, <2>3, <2>5 DEF Good, Exact, Needed
  <1>5. Chain'
    BY <1>1, <1>2 DEF Chain, Saved, StartOf
  <1>6. Entries'
    BY <1>1, <1>2 DEF Entries, Base, Needed, Has
  <1>7. handled1' = handled1 => FirstHandled'
    BY <1>1, <1>2 DEF FirstHandled, Needed, Told, Has, StartOf
  <1> QED BY <1>1, <1>2, <1>3, <1>4, <1>5, <1>6, <1>7, Frames DEF DoneReads

LEMMA AppendStays ==
  ASSUME StoreTypes, NEW X \in SUBSET Records, txn' = [txn EXCEPT !.points = @ \cup X], durable' = durable
  PROVE  StoreTypes' /\ txn'.points = txn.points \cup X /\ txn'.saved = txn.saved
  <1>1. PICK a, b : txn = [points |-> a, saved |-> b]
    BY DEF StoreTypes
  <1>2. txn.points = a /\ txn.saved = b
    BY <1>1
  <1>3. txn' = [points |-> a \cup X, saved |-> b]
    BY <1>1, <1>2
  <1>4. txn'.points = a \cup X /\ txn'.saved = b
    BY <1>3
  <1>5. StoreTypes'
    BY <1>2, <1>3, <1>4 DEF StoreTypes
  <1> QED BY <1>2, <1>4, <1>5

LEMMA RangeEmpty == Range(<<>>) = {}
  BY DEF Range

\* The cursor may pass the record: the page has nothing left to do for it.
LEMMA PastIsUnder == ASSUME Inv, entered = {}, NEW r, Past(r) PROVE Under(r)
  <1>1. Chain /\ Types
    BY DEF Inv
  <1> SUFFICES ASSUME Always(r), accepted < r
               PROVE  r \in durable.points \cup txn.points \cup undone
                      /\ \A p \in Producers : Reads(p, r) => Worked(p, r)
    BY DEF Under
  <1>2. ASSUME NEW p \in Producers, Reads(p, r) PROVE Worked(p, r)
    <2>1. Told(<<p, r>>) /\ (p \in Checkpointed => Has(p, Disk.saved[p], r))
      BY <1>2 DEF Past
    <2>2. p \in Checkpointed => Range(Disk.saved[p].st) \subseteq Range(live[p].st)
      BY <1>1, DiskIs DEF Chain, StartOf
    <2> QED BY <2>1, <2>2 DEF Worked, Told, Has
  <1> QED BY <1>2, DiskIs DEF Past

LEMMA ProcessStep == ASSUME Inv, Process PROVE Inv'
  <1>1. Types /\ StoreTypes /\ PageTypes /\ Control /\ PageCovered /\ TodoOrder /\ FirstHandled
    BY DEF Inv, Types
  <1>2. /\ pc = "gap" /\ page.gap <= accepted /\ failed' = 0
        /\ UNCHANGED <<node, msg, rung, reader, acks, then, todo, handled1, late, keeper, durable, deferring, owed, past>>
    BY DEF Process
  <1>3. late = 0 /\ entered = {} /\ batch = <<>> /\ todo = <<>> /\ handled1 = 0
    BY <1>1, <1>2 DEF Control, InPage
  <1>4. UNCHANGED <<accepted, bound, live, entry, entered, batch, done, rejected, confirmed, blamed, undone>>
    BY <1>2 DEF node, keeper, past, reader
  <1>5. head \in Nat /\ page.ack \in Nat /\ page.gap \in Nat /\ accepted \in Nat /\ page.recs \subseteq 1 .. head
        /\ 1 .. head \subseteq Records
    BY <1>1, Sizes DEF Types, NodeTypes, PageTypes
  <1>6. ASSUME NEW X \in SUBSET Records, NEW Y \in SUBSET (1 .. head), page' = [page EXCEPT !.recs = Y],
               Y \subseteq page.recs, page.recs \subseteq X \cup Y,
               \A r \in X : ~(Always(r) /\ \E p : Reads(p, r)),
               txn' = [txn EXCEPT !.points = @ \cup X], pc' \in {"records", "commit"}, pc' = "commit" => Y = {}
        PROVE  Inv'
    <2>1. /\ page'.ack = page.ack /\ page'.recs = Y /\ page' \in [recs : SUBSET (1 .. head), gap : 0 .. head, ack : 0 .. head]
      BY <1>1, <1>6 DEF PageTypes
    <2>2. StoreTypes' /\ txn'.points = txn.points \cup X /\ txn'.saved = txn.saved
      BY <1>1, <1>2, <1>6, AppendStays
    <2>3. /\ StatesGood' /\ Chain' /\ Entries' /\ DoneReads' /\ KeeperTypes' /\ Grows /\ DiskGrows /\ FirstHandled'
      BY <1>2, <1>4, <2>1, <2>2, KeepStays
    <2>4. NodeTypes' /\ ReaderTypes' /\ CursorSafe' /\ Ahead'
      BY <1>2, <1>6, <2>1, <2>3, PageFrame DEF InPage
    <2>5. PageTypes'
      <3>1. failed' \in 0 .. head /\ head' = head
        BY <1>2, <1>5 DEF node
      <3> QED BY <1>1, <1>2, <1>4, <2>1, <3>1 DEF PageTypes
    <2>6. Control'
      BY <1>1, <1>2, <1>3, <1>4, <1>6, <2>1 DEF Control, InPage
    <2>7. TodoOrder'
      BY <1>2, <1>3, RangeEmpty DEF TodoOrder
    <2>8. PageCovered'
      <3>1. ASSUME NEW r \in 1 .. page.ack PROVE r \in Y \/ Under(r)'
        <4>1. CASE r \in X
          BY <1>3, <1>6, <2>2, <4>1 DEF Under
        <4>2. CASE r \in page.recs
          BY <1>6, <4>1, <4>2
        <4>3. CASE r <= page.gap
          BY <1>2, <1>4, <1>5, <4>3 DEF Under
        <4>4. CASE Past(r)
          <5>1. Under(r)
            BY <1>3, <4>4, PastIsUnder
          <5> QED BY <1>2, <1>4, <2>2, <5>1 DEF Under, Worked, Has
        <4> QED BY <1>1, <1>2, <4>1, <4>2, <4>3, <4>4 DEF PageCovered
      <3>2. Failure' = 0
        BY <1>2, <1>3 DEF Failure, Earlier
      <3>3. \A r \in Y : r <= page.ack
        BY <1>1, <1>2, <1>6 DEF PageCovered
      <3> QED BY <1>5, <1>6, <2>1, <3>1, <3>2, <3>3 DEF PageCovered
    <2>9. FirstOrder'
      BY <1>3, <1>4 DEF FirstOrder
    <2> QED BY <2>2, <2>3, <2>4, <2>5, <2>6, <2>7, <2>8, <2>9, InvParts
  <1>7. CASE \E r \in page.recs : Bound(r) # <<>>
    <2>1. pc' = "records" /\ page' = page /\ txn' = txn
      BY <1>7 DEF Process
    <2>2. page = [page EXCEPT !.recs = page.recs]
      BY <1>1 DEF PageTypes
    <2>3. txn = [txn EXCEPT !.points = @ \cup {}]
      <3>1. PICK a, b : txn = [points |-> a, saved |-> b]
        BY <1>1 DEF StoreTypes
      <3> QED BY <3>1
    <2>4. {} \in SUBSET Records /\ page.recs \in SUBSET (1 .. head)
      BY <1>5
    <2> QED BY <1>6, <2>1, <2>2, <2>3, <2>4
  <1>8. CASE ~\E r \in page.recs : Bound(r) # <<>>
    <2>1. pc' = "commit" /\ page' = [page EXCEPT !.recs = {}] /\ txn' = [txn EXCEPT !.points = @ \cup page.recs]
      BY <1>8 DEF Process
    <2>2. \A r \in page.recs : ~(Always(r) /\ \E p : Reads(p, r))
      <3> SUFFICES ASSUME NEW r \in page.recs, Always(r), NEW p, Reads(p, r) PROVE FALSE
        OBVIOUS
      <3>1. r \in Records /\ bound \in 0 .. 1 /\ Bound(r) = <<>>
        BY <1>1, <1>5, <1>8 DEF Types, NodeTypes
      <3>2. \E k \in 1 .. Len(Bound(r)) : Bound(r)[k] = p
        BY <3>1, BoundReads
      <3> QED BY <3>1, <3>2
    <2>3. page.recs \in SUBSET Records /\ {} \in SUBSET (1 .. head)
      BY <1>5
    <2>4. page.recs \subseteq page.recs \cup {} /\ {} \subseteq page.recs
      OBVIOUS
    <2> QED BY ONLY <1>6, <2>1, <2>2, <2>3, <2>4
  <1> QED BY <1>7, <1>8

\* The calls of a record.
LEMMA RecordCalls ==
  ASSUME NEW b \in Seq(Producers), NEW r \in Records, Len(b) >= 1,
         NEW t \in [1 .. Len(b) -> Calls], \A k \in 1 .. Len(b) : t[k] = <<b[k], r>>
  PROVE  /\ t \in Seq(Calls) /\ DOMAIN t = 1 .. Len(b) /\ Head(t) = <<b[1], r>>
         /\ \A c \in Range(t) : \E k \in 1 .. Len(b) : c = <<b[k], r>>
         /\ \A k \in 1 .. Len(b) : <<b[k], r>> \in Range(t)
  <1>1. Len(b) \in Nat /\ \A k \in 1 .. Len(b) : b[k] \in Producers
    OBVIOUS
  <1>3. DOMAIN t = 1 .. Len(b)
    OBVIOUS
  <1>5. t \in Seq(Calls)
    BY <1>1, SeqDef
  <1>6. Head(t) = t[1]
    <2>1. Len(t) = Len(b) /\ t # <<>>
      BY <1>1, <1>3, <1>5, LenProperties
    <2> QED BY <1>5, <2>1
  <1>7. 1 \in 1 .. Len(b)
    BY <1>1
  <1>8. Range(t) = {t[k] : k \in DOMAIN t}
    BY DEF Range
  <1> QED BY <1>3, <1>5, <1>6, <1>7, <1>8

LEMMA TakeRecordStep == ASSUME Inv, TakeRecord PROVE Inv'
  <1>1. Types /\ NodeTypes /\ StoreTypes /\ PageTypes /\ Control /\ PageCovered /\ TodoOrder /\ FirstHandled /\ FirstOrder
    BY DEF Inv, Types
  <1>2. PICK r \in page.recs :
          /\ ~Quiet(r) /\ \A q \in page.recs : q < r => Quiet(q)
          /\ todo' = [i \in 1 .. Len(Bound(r)) |-> <<Bound(r)[i], r>>]
          /\ handled1' = IF handled1 = 0 THEN r ELSE handled1
          /\ txn' = [txn EXCEPT !.points = @ \cup {q \in page.recs : q <= r}]
          /\ page' = [page EXCEPT !.recs = {q \in @ : q > r}]
    BY DEF TakeRecord
  <1>3. /\ pc = "records" /\ todo = <<>>
        /\ UNCHANGED <<node, msg, rung, reader, acks, pc, then, failed, late, keeper, durable, deferring, owed, past>>
    BY DEF TakeRecord
  <1>4. late = 0 /\ entered \subseteq Checkpointed /\ failed = 0
    BY <1>1, <1>3 DEF Control, InPage, Types, KeeperTypes
  <1>5. UNCHANGED <<accepted, bound, head, live, entry, entered, batch, done, rejected, confirmed, blamed, undone>>
    BY <1>3 DEF node, keeper, past, reader
  <1>6. head \in Nat /\ page.ack \in 0 .. head /\ page.recs \subseteq 1 .. head /\ 1 .. head \subseteq Records
        /\ bound \in 0 .. 1 /\ handled1 \in 0 .. head
    BY <1>1, Sizes DEF NodeTypes, PageTypes
  <1> DEFINE X == {q \in page.recs : q <= r}
             Y == {q \in page.recs : q > r}
  <1>7. X \in SUBSET Records /\ X \subseteq page.recs /\ Y \subseteq page.recs /\ page.recs \subseteq X \cup Y
    BY <1>6
  <1>8. /\ page'.ack = page.ack /\ page'.recs = Y /\ page' \in [recs : SUBSET (1 .. head), gap : 0 .. head, ack : 0 .. head]
    BY <1>1, <1>2, <1>6 DEF PageTypes
  <1>9. txn' = [txn EXCEPT !.points = @ \cup X]
    BY <1>2
  <1>10. \A q \in X : q = r \/ Quiet(q)
    BY <1>2, <1>6
  <1>11. r \in 1 .. head /\ r <= page.ack /\ r # 0
    BY <1>1, <1>3, <1>6 DEF PageCovered
  <1>12. \A q \in Y : r < q
    BY <1>6
  <1> HIDE DEF X, Y
  <1>13. StoreTypes' /\ txn'.points = txn.points \cup X /\ txn'.saved = txn.saved
    BY <1>1, <1>3, <1>7, <1>9, AppendStays
  <1>14. /\ StatesGood' /\ Chain' /\ Entries' /\ DoneReads' /\ KeeperTypes' /\ Grows /\ DiskGrows
         /\ (handled1' = handled1 => FirstHandled')
    BY <1>3, <1>5, <1>8, <1>13, KeepStays
  <1>15. NodeTypes' /\ ReaderTypes' /\ CursorSafe' /\ Ahead'
    BY <1>3, <1>8, <1>14, PageFrame DEF InPage
  <1>16. /\ Bound(r) \in Seq(Producers) /\ Bound(r) # <<>> /\ r \in Records
         /\ \A k \in 1 .. Len(Bound(r)) : Reads(Bound(r)[k], r)
         /\ Always(r) => \A p : Reads(p, r) => \E k \in 1 .. Len(Bound(r)) : Bound(r)[k] = p
    BY <1>2, <1>6, <1>11, BoundReads DEF Quiet
  <1>17. PICK b \in Seq(Producers) : b = Bound(r)
    BY <1>16
  <1>18. /\ Len(b) \in Nat /\ Len(b) >= 1 /\ \A k \in 1 .. Len(b) : b[k] \in Producers
    BY <1>16, <1>17
  <1>19. todo' = [i \in 1 .. Len(b) |-> <<b[i], r>>]
    BY <1>2, <1>17
  <1>20. /\ todo' \in Seq(Calls) /\ DOMAIN todo' = 1 .. Len(b) /\ Head(todo') = <<b[1], r>>
         /\ \A c \in Range(todo') : \E k \in 1 .. Len(b) : c = <<b[k], r>>
         /\ \A k \in 1 .. Len(b) : <<b[k], r>> \in Range(todo')
    <2>1. PICK t : t = todo'
      OBVIOUS
    <2>2. t \in [1 .. Len(b) -> Calls] /\ \A k \in 1 .. Len(b) : t[k] = <<b[k], r>>
      <3>1. \A k \in 1 .. Len(b) : <<b[k], r>> \in Calls
        BY <1>16, <1>18 DEF Calls
      <3> QED BY <1>19, <2>1, <3>1
    <2>3. /\ t \in Seq(Calls) /\ DOMAIN t = 1 .. Len(b) /\ Head(t) = <<b[1], r>>
          /\ \A c \in Range(t) : \E k \in 1 .. Len(b) : c = <<b[k], r>>
          /\ \A k \in 1 .. Len(b) : <<b[k], r>> \in Range(t)
      BY <1>16, <1>18, <2>2, RecordCalls
    <2> QED BY <2>1, <2>3
  <1>21. handled1' # 0 /\ handled1' \in 0 .. head /\ handled1' <= page.ack
    BY <1>1, <1>2, <1>6, <1>11 DEF FirstHandled
  <1>22. PageTypes'
    BY <1>1, <1>3, <1>5, <1>8, <1>20, <1>21 DEF PageTypes
  <1>23. Control'
    BY <1>1, <1>3, <1>5 DEF Control, InPage
  <1>24. TodoOrder'
    <2>1. ASSUME NEW c \in Range(todo')
          PROVE  /\ Reads(c[1], c[2]) /\ c[2] <= page'.ack /\ c[2] = Head(todo')[2] /\ handled1' # 0
                 /\ \A q \in page'.recs : c[2] < q
      <3>1. PICK k \in 1 .. Len(b) : c = <<b[k], r>>
        BY <1>20, <2>1
      <3>2. c[1] = b[k] /\ c[2] = r /\ Head(todo')[2] = r
        BY <1>20, <3>1
      <3> QED BY <1>8, <1>11, <1>12, <1>16, <1>17, <1>21, <3>2
    <2> QED BY <2>1 DEF TodoOrder
  <1>25. ASSUME NEW q \in 1 .. page.ack, q \notin page.recs, Always(q), accepted < q
         PROVE  /\ q \in durable.points \cup txn.points \cup undone
                /\ \A p \in Producers : Reads(p, q) => Worked(p, q)
    <2>1. Covers(q)
      BY <1>4 DEF Covers, Failure, Earlier
    <2>2. Under(q)
      BY <1>1, <1>3, <1>25, <2>1 DEF PageCovered, InPage
    <2> QED BY <1>3, <1>25, <2>2, RangeEmpty DEF Under
  <1>26. ASSUME NEW q \in X, q # r, Always(q), NEW p PROVE ~Reads(p, q)
    <2>1. q \in Records /\ Bound(q) = <<>>
      BY <1>7, <1>10, <1>26 DEF Quiet
    <2>2. Reads(p, q) => \E k \in 1 .. Len(Bound(q)) : Bound(q)[k] = p
      BY <1>6, <1>26, <2>1, BoundReads
    <2> QED BY <2>1, <2>2
  <1>27. PageCovered'
    <2>1. ASSUME NEW q \in 1 .. page.ack PROVE q \in Y \/ Under(q)'
      <3> SUFFICES ASSUME q \notin Y, Always(q), accepted < q
                   PROVE  /\ q \in durable.points \cup txn'.points \cup undone
                          /\ \A p \in Producers : Reads(p, q) => <<p, q>> \in Range(todo') \/ Worked(p, q)'
        BY <1>3, <1>5 DEF Under
      <3>1. CASE q \notin page.recs
        <4>1. \A p \in Producers : Worked(p, q) => Worked(p, q)'
          BY <1>5 DEF Worked, Has
        <4> QED BY <1>13, <1>25, <3>1, <4>1
      <3>2. CASE q = r
        <4>1. q \in X
          BY <1>7, <1>12, <3>2
        <4>2. \A p : Reads(p, q) => <<p, q>> \in Range(todo')
          BY <1>16, <1>17, <1>20, <3>2
        <4> QED BY <1>13, <4>1, <4>2
      <3>3. CASE q \in X /\ q # r
        BY <1>13, <1>26, <3>3
      <3> QED BY <1>7, <3>1, <3>2, <3>3
    <2>2. Failure' = 0
      BY <1>3, <1>4 DEF Failure, Earlier
    <2>3. \A q \in Y : q <= page.ack
      BY <1>1, <1>3, <1>7 DEF PageCovered
    <2> QED BY <1>3, <1>6, <1>8, <2>1, <2>2, <2>3 DEF PageCovered, InPage
  <1>28. FirstHandled'
    <2>1. CASE handled1 # 0
      BY <1>2, <1>14, <2>1
    <2>2. CASE handled1 = 0
      <3>1. handled1' = r /\ batch = <<>> /\ entered = {}
        BY <1>1, <1>2, <2>2 DEF FirstHandled
      <3>2. ASSUME NEW q \in 1 .. r - 1, NEW p \in Producers, Needed(p, q)
            PROVE  Told(<<p, q>>) /\ (p \in Checkpointed => Has(p, live[p], q))
        <4>1. q \in 1 .. page.ack /\ q < r
          BY <1>6, <1>11
        <4>2. CASE q \in page.recs
          <5>1. q \in X /\ q # r
            BY <1>7, <1>12, <4>1, <4>2, <1>6
          <5> QED BY <1>26, <3>2, <5>1 DEF Needed
        <4>3. CASE q \notin page.recs
          <5>1. Worked(p, q)
            BY <1>25, <3>2, <4>1, <4>3 DEF Needed
          <5> QED BY <3>1, <5>1, RangeEmpty DEF Worked, Told
        <4> QED BY <4>2, <4>3
      <3> QED BY <1>5, <1>8, <1>11, <1>21, <3>1, <3>2 DEF FirstHandled, Needed, Told, Has, StartOf
    <2> QED BY <2>1, <2>2
  <1>29. FirstOrder'
    <2>1. ASSUME NEW p \in entered
          PROVE  (\A c \in Range(todo') : entry[p].first <= c[2]) /\ \A q \in Y : entry[p].first < q
      <3>1. entry[p].first < r /\ \A q \in Y : entry[p].first < q
        BY <1>1, <1>7 DEF FirstOrder
      <3>2. entry[p].first \in Nat /\ r \in Nat
        BY <1>1, <1>4, <1>11, Sizes DEF Types, KeeperTypes, Keep
      <3>3. \A c \in Range(todo') : c[2] = r
        BY <1>20
      <3> QED BY <3>1, <3>2, <3>3
    <2> QED BY <1>5, <1>8, <2>1 DEF FirstOrder
  <1> QED BY <1>13, <1>14, <1>15, <1>22, <1>23, <1>24, <1>27, <1>28, <1>29, InvParts

LEMMA LastRecordsStep == ASSUME Inv, LastRecords PROVE Inv'
  <1>1. Types /\ NodeTypes /\ StoreTypes /\ PageTypes /\ Control /\ PageCovered /\ TodoOrder /\ FirstHandled /\ FirstOrder
    BY DEF Inv, Types
  <1>2. /\ pc = "records" /\ todo = <<>> /\ \A r \in page.recs : Quiet(r)
        /\ txn' = [txn EXCEPT !.points = @ \cup page.recs] /\ page' = [page EXCEPT !.recs = {}] /\ pc' = "settle"
        /\ UNCHANGED <<node, msg, rung, reader, acks, then, todo, handled1, failed, late, keeper, durable, deferring, owed, past>>
    BY DEF LastRecords
  <1>4. late = 0 /\ failed = 0
    BY <1>1, <1>2 DEF Control, InPage
  <1>5. UNCHANGED <<accepted, bound, head, live, entry, entered, batch, done, rejected, confirmed, blamed, undone>>
    BY <1>2 DEF node, keeper, past, reader
  <1>6. head \in Nat /\ page.ack \in 0 .. head /\ page.recs \subseteq Records /\ bound \in 0 .. 1
    BY <1>1, Sizes DEF NodeTypes, PageTypes
  <1>8. /\ page'.ack = page.ack /\ page'.recs = {} /\ page' \in [recs : SUBSET (1 .. head), gap : 0 .. head, ack : 0 .. head]
    BY <1>1, <1>2, <1>6 DEF PageTypes
  <1>13. StoreTypes' /\ txn'.points = txn.points \cup page.recs /\ txn'.saved = txn.saved
    BY <1>1, <1>2, <1>6, AppendStays
  <1>14. /\ StatesGood' /\ Chain' /\ Entries' /\ DoneReads' /\ KeeperTypes' /\ Grows /\ DiskGrows /\ FirstHandled'
    BY <1>2, <1>5, <1>8, <1>13, KeepStays
  <1>15. NodeTypes' /\ ReaderTypes' /\ CursorSafe' /\ Ahead'
    BY <1>2, <1>8, <1>14, PageFrame DEF InPage
  <1>16. PageTypes'
    BY <1>1, <1>2, <1>5, <1>8 DEF PageTypes
  <1>17. Control'
    BY <1>1, <1>2, <1>4, <1>5, <1>8 DEF Control, InPage
  <1>18. TodoOrder'
    BY <1>2, RangeEmpty DEF TodoOrder
  <1>19. PageCovered'
    <2>1. ASSUME NEW q \in 1 .. page.ack PROVE Under(q)'
      <3>1. CASE q \in page.recs
        <4>1. q \in Records /\ Bound(q) = <<>>
          BY <1>2, <1>6, <3>1 DEF Quiet
        <4>2. Always(q) => \A p : ~Reads(p, q)
          <5>1. Always(q) => \A p : Reads(p, q) => \E k \in 1 .. Len(Bound(q)) : Bound(q)[k] = p
            BY <1>6, <4>1, BoundReads
          <5> QED BY <4>1, <5>1
        <4> QED BY <1>13, <3>1, <4>2 DEF Under
      <3>2. CASE q \notin page.recs
        <4>1. Covers(q)
          BY <1>4 DEF Covers, Failure, Earlier
        <4>2. Under(q)
          BY <1>1, <1>2, <3>2, <4>1 DEF PageCovered, InPage
        <4> QED BY <1>2, <1>5, <1>13, <4>2 DEF Under, Worked, Has
      <3> QED BY <3>1, <3>2
    <2>2. Failure' = 0
      BY <1>2, <1>4 DEF Failure, Earlier
    <2> QED BY <1>2, <1>6, <1>8, <2>1, <2>2 DEF PageCovered, InPage
  <1>20. FirstOrder'
    BY <1>2, <1>8, RangeEmpty DEF FirstOrder
  <1> QED BY <1>13, <1>14, <1>15, <1>16, <1>17, <1>18, <1>19, <1>20, InvParts

-----------------------------------------------------------------------------
(* The calls of a record *)

LEMMA CallFacts ==
  ASSUME Inv, todo # <<>>
  PROVE  /\ Call \in Calls /\ Call = <<Who, Rec>> /\ Who \in Producers /\ Reads(Who, Rec)
         /\ Rec \in 1 .. page.ack /\ page.ack \in 0 .. head /\ Rec \in Records /\ handled1 # 0
         /\ \A r \in page.recs : Rec < r
         /\ Tail(todo) \in Seq(Calls) /\ Range(todo) = {Call} \cup Range(Tail(todo))
         /\ \A c \in Range(todo) : c[2] = Rec
         /\ \A c \in Range(Tail(todo)) : c[2] = Head(Tail(todo))[2]
  <1>1. PageTypes /\ NodeTypes /\ TodoOrder /\ todo \in Seq(Calls)
    BY DEF Inv, Types, PageTypes
  <1>2. /\ Tail(todo) \in Seq(Calls) /\ Call \in Calls /\ Range(todo) = {Call} \cup Range(Tail(todo))
    BY <1>1, RangeTail DEF Call
  <1>3. Call = <<Who, Rec>> /\ Who \in Producers /\ Rec \in Records
    BY <1>2 DEF Calls, Who, Rec
  <1>4. /\ Reads(Call[1], Call[2]) /\ Call[2] <= page.ack /\ handled1 # 0 /\ \A r \in page.recs : Call[2] < r
    BY <1>1, <1>2 DEF TodoOrder
  <1>5. \A c \in Range(todo) : c[2] = Rec
    BY <1>1 DEF TodoOrder, Rec, Call
  <1>6. ASSUME NEW c \in Range(Tail(todo)) PROVE c[2] = Head(Tail(todo))[2]
    <2>1. Tail(todo) # <<>>
      BY <1>6, RangeEmpty
    <2>2. PICK t \in Seq(Calls) : t = Tail(todo)
      BY <1>2
    <2>3. Head(t) \in Range(t)
      BY <2>1, <2>2, RangeTail
    <2>4. Range(t) \subseteq Range(todo)
      BY <1>2, <2>2
    <2>5. PICK h : h = Head(t)
      OBVIOUS
    <2>6. h[2] = Rec /\ c[2] = Rec
      BY <1>5, <1>6, <2>2, <2>3, <2>4, <2>5
    <2> QED BY ONLY <2>2, <2>5, <2>6
  <1>7. page.ack \in 0 .. head /\ head \in Nat /\ Rec \in 1 .. page.ack
    BY <1>1, <1>3, <1>4, Sizes DEF PageTypes, NodeTypes, Who, Rec
  <1> QED BY <1>2, <1>3, <1>4, <1>5, <1>6, <1>7 DEF Who, Rec

\* The records before the one in hand have what they need.
LEMMA EarlierWorked ==
  ASSUME Inv, pc \in {"records", "reject"}, todo # <<>>, NEW q \in 1 .. Rec - 1
  PROVE  /\ q \in 1 .. page.ack /\ q \notin page.recs /\ Under(q)
         /\ Always(q) /\ accepted < q => \A p \in Producers : Reads(p, q) => Worked(p, q)
  <1>1. PageCovered /\ Control
    BY DEF Inv, Types
  <1>2. /\ Rec \in 1 .. page.ack /\ page.ack \in Nat /\ \A r \in page.recs : Rec < r
        /\ \A c \in Range(todo) : c[2] = Rec
    BY CallFacts
  <1>3. q \in 1 .. page.ack /\ q < Rec
    BY <1>2
  <1>4. q \notin page.recs
    BY <1>2, <1>3
  <1>5. Covers(q)
    BY <1>1 DEF Control, InPage, Covers, Failure, Earlier
  <1>6. Under(q)
    BY <1>1, <1>3, <1>4, <1>5 DEF PageCovered, InPage
  <1>7. \A p : <<p, q>> \notin Range(todo)
    BY <1>2, <1>3
  <1> QED BY <1>3, <1>4, <1>6, <1>7 DEF Under

\* What is left of the calls is in order.
LEMMA CallsLeft ==
  ASSUME Inv, todo # <<>>, UNCHANGED handled1, page'.ack = page.ack,
         \/ todo' = <<>>
         \/ todo' = Tail(todo) /\ page' = page
         \/ todo' = todo /\ page' = page
  PROVE  TodoOrder' /\ todo' \in Seq(Calls) /\ Range(todo') \subseteq Range(todo)
  <1>1. TodoOrder /\ todo \in Seq(Calls)
    BY DEF Inv, Types, PageTypes
  <1>2. CASE todo' = <<>>
    BY <1>2, RangeEmpty DEF TodoOrder
  <1>3. CASE todo' = Tail(todo) /\ page' = page
    <2>1. PICK t : t = Tail(todo)
      OBVIOUS
    <2>2. t \in Seq(Calls) /\ Range(t) \subseteq Range(todo) /\ \A c \in Range(t) : c[2] = Head(t)[2]
      BY <2>1, CallFacts
    <2>3. todo' = t
      BY <1>3, <2>1
    <2>4. \A c \in Range(t) : Reads(c[1], c[2]) /\ c[2] <= page.ack /\ handled1 # 0 /\ \A r \in page.recs : c[2] < r
      BY <1>1, <2>2 DEF TodoOrder
    <2>5. TodoOrder'
      <3>1. \A c \in Range(t) :
              /\ Reads(c[1], c[2]) /\ c[2] <= page'.ack /\ c[2] = Head(t)[2] /\ handled1' # 0
              /\ \A r \in page'.recs : c[2] < r
        BY <1>3, <2>2, <2>4
      <3> QED BY <2>3, <3>1 DEF TodoOrder
    <2> QED BY <2>2, <2>3, <2>5
  <1>4. CASE todo' = todo /\ page' = page
    BY <1>1, <1>4 DEF TodoOrder
  <1> QED BY <1>2, <1>3, <1>4

\* The producers' states, when what they go back to stays.
LEMMA StartsStay ==
  ASSUME Inv, Grows, KeeperTypes', UNCHANGED <<durable, txn, owed, handled1>>, handled1 # 0, page'.ack = page.ack,
         \A p \in Checkpointed : StartOf(p)' = StartOf(p),
         \A p \in Checkpointed : Good(p, live[p], Range(batch))'
  PROVE  StatesGood' /\ Chain' /\ FirstHandled' /\ DiskGrows
  <1>1. Types /\ StatesGood /\ Chain /\ FirstHandled
    BY DEF Inv
  <1>2. \A c \in State : c.off \in Nat
    BY Sizes DEF State
  <1>3. StatesGood'
    <2> SUFFICES ASSUME NEW p \in Checkpointed
                 PROVE  /\ Good(p, durable.saved[p], {})'
                        /\ (p \in DOMAIN txn'.saved => Good(p, txn.saved[p], {})') /\ Good(p, StartOf(p), {})'
      BY DEF StatesGood
    <2>1. PICK b, c, d : b = durable.saved[p] /\ c = txn.saved[p] /\ d = StartOf(p)
      OBVIOUS
    <2>2. b \in State /\ (p \in DOMAIN txn.saved => c \in State) /\ d \in State
      BY <1>1, <2>1 DEF Types, KeeperTypes, StoreTypes, Keep, StartOf
    <2>3. Good(p, b, {}) /\ (p \in DOMAIN txn.saved => Good(p, c, {})) /\ Good(p, d, {})
      BY <1>1, <2>1 DEF StatesGood
    <2>4. Good(p, b, {})' /\ (p \in DOMAIN txn.saved => Good(p, c, {})') /\ Good(p, d, {})'
      BY <1>2, <2>2, <2>3, GoodStays
    <2>5. StartOf(p)' = d
      BY <2>1
    <2> QED BY <2>1, <2>4, <2>5 DEF Good, Exact, Needed
  <1>4. Chain'
    <2> SUFFICES ASSUME NEW p \in Checkpointed
                 PROVE  /\ Range(durable'.saved[p].st) \subseteq Range(Saved(txn, p).st)'
                        /\ Range(Saved(txn, p).st)' \subseteq Range(StartOf(p).st)'
                        /\ Range(StartOf(p).st)' \subseteq Range(Saved(txn, p).st)' \cup undone'
      BY DEF Chain
    <2>1. Saved(txn, p)' = Saved(txn, p) /\ StartOf(p)' = StartOf(p)
      BY DEF Saved
    <2> QED BY <1>1, <2>1 DEF Chain, Grows
  <1>5. FirstHandled'
    <2> SUFFICES ASSUME NEW r \in 1 .. handled1 - 1, NEW p \in Producers, Needed(p, r)'
                 PROVE  Told(<<p, r>>)' /\ (p \in Checkpointed => Has(p, StartOf(p), r)')
      BY <1>1 DEF FirstHandled
    <2>1. r \in Nat
      BY <1>1 DEF Types, PageTypes
    <2>2. Needed(p, r)
      BY <2>1 DEF Needed, Grows
    <2>3. Told(<<p, r>>) /\ (p \in Checkpointed => Has(p, StartOf(p), r))
      BY <1>1, <2>2 DEF FirstHandled
    <2>4. Told(<<p, r>>)'
      BY <2>3 DEF Told, Grows
    <2>5. p \in Checkpointed => Has(p, StartOf(p), r)'
      BY <2>3 DEF Has, Grows
    <2> QED BY <2>4, <2>5
  <1> QED BY <1>3, <1>4, <1>5, DiskStays

\* No producer's state moves.
LEMMA SameStays ==
  ASSUME Inv, Grows, UNCHANGED <<durable, txn, owed, handled1, live, entry, entered>>, todo # <<>>, page'.ack = page.ack,
         Range(batch) \subseteq Range(batch') \cup confirmed' \cup blamed',
         page'.recs \subseteq page.recs, Range(todo') \subseteq Range(todo)
  PROVE  /\ StatesGood' /\ Chain' /\ FirstHandled' /\ DiskGrows /\ Entries' /\ FirstOrder' /\ KeeperTypes'
         /\ \A p, q : Worked(p, q) => Worked(p, q)'
  <1>1. Types /\ StatesGood /\ Entries /\ FirstOrder /\ handled1 # 0
    BY CallFacts DEF Inv
  <1>2. KeeperTypes'
    BY <1>1, Frames
  <1>3. \A p \in Checkpointed : StartOf(p)' = StartOf(p)
    BY DEF StartOf
  <1>4. ASSUME NEW p \in Checkpointed PROVE Good(p, live[p], Range(batch))'
    <2>1. PICK a, w, v : a = live[p] /\ w = Range(batch) /\ v = Range(batch')
      OBVIOUS
    <2>2. a.off \in Nat /\ Good(p, a, w)
      BY <1>1, <2>1, Sizes DEF Types, KeeperTypes, State, StatesGood
    <2>3. Good(p, a, v)'
      BY <2>1, <2>2, GoodStays
    <2> QED BY <2>1, <2>3 DEF Good, Exact, Needed
  <1>5. StatesGood' /\ Chain' /\ FirstHandled' /\ DiskGrows
    BY <1>1, <1>2, <1>3, <1>4, StartsStay
  <1>6. Entries'
    <2> SUFFICES ASSUME NEW p \in entered, entry[p].first # 0, NEW r \in 1 .. entry[p].first - 1, Needed(p, r)'
                 PROVE  Has(p, entry[p].start, r)'
      BY <1>1 DEF Entries, Base
    <2>1. r \in Nat
      BY <1>1, Sizes DEF Types, KeeperTypes, Keep
    <2>2. Has(p, entry[p].start, r)
      BY <1>1, <2>1 DEF Entries, Needed, Grows
    <2> QED BY <2>2 DEF Has, Grows
  <1>7. FirstOrder'
    BY <1>1 DEF FirstOrder
  <1>8. \A p, q : Worked(p, q) => Worked(p, q)'
    BY DEF Worked, Has, Grows
  <1> QED BY <1>2, <1>5, <1>6, <1>7, <1>8

\* The producer of the call in hand is entered, with the entry e and the state l.
LEMMA MovedStays ==
  ASSUME Inv, Grows, UNCHANGED <<durable, txn, owed, handled1>>, todo # <<>>, page'.ack = page.ack,
         Range(batch) \subseteq Range(batch') \cup confirmed' \cup blamed',
         page'.recs \subseteq page.recs, Range(todo') \subseteq Range(todo),
         NEW w \in Checkpointed, NEW l \in State, NEW e \in Keep,
         live' = [live EXCEPT ![w] = l], entry' = [entry EXCEPT ![w] = e], entered' = entered \cup {w},
         e.start = StartOf(w), l = Base(e), Range(e.start.st) \subseteq Range(e.base.st),
         e.first = 0 => l = e.start, e.first <= Rec,
         \A r \in 1 .. e.first - 1 : Needed(w, r) => Has(w, e.start, r),
         NEW v, v = Range(batch'), Good(w, l, v)'
  PROVE  /\ StatesGood' /\ Chain' /\ FirstHandled' /\ DiskGrows /\ Entries' /\ FirstOrder' /\ KeeperTypes'
         /\ \A p, q : p # w /\ Worked(p, q) => Worked(p, q)'
         /\ \A p, q : Worked(p, q) /\ Range(live[w].st) \subseteq Range(l.st) => Worked(p, q)'
  <1>1. /\ Types /\ KeeperTypes /\ StatesGood /\ Entries /\ FirstOrder /\ handled1 # 0
        /\ Rec \in 1 .. page.ack /\ page.ack \in Nat /\ (\A c \in Range(todo) : c[2] = Rec) /\ \A r \in page.recs : Rec < r
    BY CallFacts DEF Inv, Types
  <1>2. KeeperTypes'
    BY <1>1 DEF KeeperTypes
  <1>3. /\ live'[w] = l /\ entry'[w] = e /\ w \in entered'
        /\ \A p \in Checkpointed : p # w => live'[p] = live[p] /\ entry'[p] = entry[p] /\ (p \in entered' <=> p \in entered)
    BY <1>1 DEF KeeperTypes
  <1>4. \A p \in Checkpointed : StartOf(p)' = StartOf(p)
    BY <1>3 DEF StartOf
  <1>5. ASSUME NEW p \in Checkpointed PROVE Good(p, live[p], Range(batch))'
    <2>1. CASE p = w
      BY <1>3, <2>1 DEF Good, Exact, Needed
    <2>2. CASE p # w
      <3>1. PICK a, b : a = live[p] /\ b = Range(batch)
        OBVIOUS
      <3>2. a.off \in Nat /\ Good(p, a, b)
        BY <1>1, <3>1, Sizes DEF KeeperTypes, State, StatesGood
      <3>3. Good(p, a, v)'
        BY <3>1, <3>2, GoodStays
      <3>4. live'[p] = a
        BY <1>3, <2>2, <3>1
      <3> QED BY <3>3, <3>4 DEF Good, Exact, Needed
    <2> QED BY <2>1, <2>2
  <1>6. StatesGood' /\ Chain' /\ FirstHandled' /\ DiskGrows
    BY <1>1, <1>2, <1>4, <1>5, StartsStay
  <1>7. Entries'
    <2> SUFFICES ASSUME NEW p \in entered'
                 PROVE  /\ live'[p] = Base(entry'[p])
                        /\ Range(entry'[p].start.st) \subseteq Range(entry'[p].base.st)
                        /\ entry'[p].first = 0 => live'[p] = entry'[p].start
                        /\ entry'[p].first # 0 =>
                              /\ entry'[p].first <= page'.ack
                              /\ \A r \in 1 .. entry'[p].first - 1 : Needed(p, r)' => Has(p, entry[p].start, r)'
      BY DEF Entries, Base
    <2>0. \A r \in Nat : Needed(p, r)' => Needed(p, r)
      BY DEF Needed, Grows
    <2>1. CASE p = w
      <3>1. e.first \in Nat
        BY Sizes DEF Keep
      <3>2. ASSUME NEW r \in 1 .. e.first - 1, Needed(p, r)' PROVE Has(p, e.start, r)'
        <4>1. Has(p, e.start, r)
          BY <2>0, <2>1, <3>1, <3>2
        <4> QED BY <4>1 DEF Has, Grows
      <3>3. e.first <= page.ack
        BY <1>1, <3>1
      <3>4. \A r : Has(p, e.start, r)' => Has(p, entry[p].start, r)'
        BY <1>3, <2>1 DEF Has
      <3> QED BY <1>3, <2>1, <3>2, <3>3, <3>4
    <2>2. CASE p # w
      <3>1. p \in entered /\ p \in Checkpointed
        BY <1>1, <1>3, <2>2 DEF KeeperTypes
      <3>2. live'[p] = live[p] /\ entry'[p] = entry[p] /\ entry[p].first \in Nat
        BY <1>1, <1>3, <2>2, <3>1, Sizes DEF KeeperTypes, Keep
      <3>3. ASSUME NEW r \in 1 .. entry[p].first - 1, entry[p].first # 0, Needed(p, r)' PROVE Has(p, entry[p].start, r)'
        <4>1. Has(p, entry[p].start, r)
          BY <1>1, <2>0, <3>1, <3>2, <3>3 DEF Entries
        <4> QED BY <3>2, <4>1 DEF Has, Grows
      <3> QED BY <1>1, <3>1, <3>2, <3>3 DEF Entries
    <2> QED BY <2>1, <2>2
  <1>8. FirstOrder'
    <2> SUFFICES ASSUME NEW p \in entered'
                 PROVE  (\A c \in Range(todo) : entry'[p].first <= c[2]) /\ \A r \in page.recs : entry'[p].first < r
      BY DEF FirstOrder
    <2>1. CASE p = w
      <3>1. e.first \in Nat /\ Rec \in Nat /\ \A r \in page.recs : r \in Nat
        BY <1>1, Sizes DEF Keep, Types, PageTypes
      <3> QED BY <1>1, <1>3, <2>1, <3>1
    <2>2. CASE p # w
      <3>1. p \in entered /\ entry'[p] = entry[p]
        BY <1>1, <1>3, <2>2 DEF KeeperTypes
      <3> QED BY <1>1, <3>1 DEF FirstOrder
    <2> QED BY <2>1, <2>2
  <1>9. \A p, q : p # w /\ Worked(p, q) => Worked(p, q)'
    BY <1>3 DEF Worked, Has, Grows
  <1>10. \A p, q : Worked(p, q) /\ Range(live[w].st) \subseteq Range(l.st) => Worked(p, q)'
    BY <1>3 DEF Worked, Has, Grows
  <1> QED BY <1>2, <1>6, <1>7, <1>8, <1>9, <1>10

\* A call is over, and the page goes on.
LEMMA GoesOn ==
  ASSUME Inv, Grows, pc \in {"records", "reject"}, pc' \in {"records", "reject"}, todo # <<>>,
         UNCHANGED <<node, msg, rung, reader, acks, then, page, handled1, failed, late, store>>,
         (todo' = Tail(todo) /\ pc' = "records") \/ todo' = todo,
         batch' \in Seq(Calls), done' \subseteq done \cup {Call},
         StatesGood' /\ Chain' /\ FirstHandled' /\ DiskGrows /\ Entries' /\ FirstOrder' /\ KeeperTypes',
         \A p, q : Worked(p, q) => Worked(p, q)',
         NEW w, NEW k, Call = <<w, k>>, todo' = Tail(todo) /\ Needed(w, k) => Worked(w, k)'
  PROVE  Inv'
  <1>1. Types /\ PageTypes /\ PageCovered /\ Control /\ DoneReads
    BY DEF Inv, Types
  <1>2. /\ Call \in Calls /\ Call = <<Who, Rec>> /\ Reads(Who, Rec) /\ Range(todo) = {Call} \cup Range(Tail(todo))
    BY CallFacts
  <1>3. UNCHANGED <<head, accepted, durable, txn, owed>>
    BY DEF node, store
  <1>4. NodeTypes' /\ ReaderTypes' /\ CursorSafe' /\ Ahead'
    BY PageFrame DEF InPage
  <1>5. TodoOrder' /\ todo' \in Seq(Calls) /\ Range(todo') \subseteq Range(todo)
    BY CallsLeft
  <1>6. done' \subseteq Calls /\ DoneReads'
    <2>1. done' \subseteq Calls
      BY <1>1, <1>2 DEF PageTypes
    <2>2. ASSUME NEW c \in done' PROVE Reads(c[1], c[2])
      BY <1>1, <1>2, <2>2 DEF DoneReads
    <2> QED BY <2>1, <2>2 DEF DoneReads
  <1>7. PageTypes'
    BY <1>1, <1>3, <1>5, <1>6 DEF PageTypes
  <1>8. StoreTypes'
    BY <1>1, Frames
  <1>9. Control'
    BY <1>1 DEF Control, InPage
  <1>10. PageCovered'
    <2>1. ASSUME NEW r \in 1 .. page.ack, Under(r), Always(r), accepted < r
          PROVE  /\ r \in durable.points \cup txn.points \cup undone'
                 /\ \A p \in Producers : Reads(p, r) => <<p, r>> \in Range(todo') \/ Worked(p, r)'
      <3>1. r \in durable.points \cup txn.points \cup undone'
        BY <2>1 DEF Under, Grows
      <3>2. ASSUME NEW p \in Producers, Reads(p, r), <<p, r>> \notin Range(todo') PROVE Worked(p, r)'
        <4>1. <<p, r>> \in Range(todo) \/ Worked(p, r)
          BY <2>1, <3>2 DEF Under
        <4>2. CASE <<p, r>> \in Range(todo)
          <5>1. todo' = Tail(todo) /\ <<p, r>> = Call
            BY <1>2, <3>2, <4>2
          <5>2. p = w /\ r = k
            BY <5>1
          <5>3. Needed(w, k)
            BY <2>1, <3>2, <5>2 DEF Needed
          <5> QED BY <5>1, <5>2, <5>3
        <4> QED BY <4>1, <4>2
      <3> QED BY <3>1, <3>2
    <2>2. \A r \in 1 .. page.ack : Under(r) => Under(r)'
      BY <1>3, <2>1 DEF Under
    <2>3. \A r : Covers(r)' <=> Covers(r)
      BY DEF Covers, Failure
    <2>4. Failure' = Failure
      BY DEF Failure
    <2> QED BY <1>1, <2>2, <2>3, <2>4 DEF PageCovered, InPage
  <1> QED BY <1>4, <1>5, <1>6, <1>7, <1>8, <1>9, <1>10, InvParts

\* The page ends at a failed record.
LEMMA PageFails ==
  ASSUME Inv, Grows, pc \in {"records", "reject"}, todo # <<>>, NEW r \in 1 .. Rec, FailAt(r),
         UNCHANGED <<node, msg, rung, reader, acks, then, handled1, late, durable, done>>,
         batch' \in Seq(Calls), StoreTypes',
         StatesGood' /\ Chain' /\ FirstHandled' /\ DiskGrows /\ Entries' /\ FirstOrder' /\ KeeperTypes',
         durable.points \cup txn.points \cup undone \subseteq durable.points \cup txn'.points \cup undone',
         \A p, q : q \in 1 .. r - 1 /\ Needed(p, q) /\ Worked(p, q) => Worked(p, q)'
  PROVE  Inv'
  <1>1. Types /\ PageTypes /\ PageCovered /\ Control /\ DoneReads
    BY DEF Inv, Types
  <1>2. Rec \in 1 .. page.ack /\ page.ack \in 0 .. head /\ head \in Nat /\ accepted' = accepted /\ head' = head
    BY <1>1, CallFacts, Sizes DEF Types, NodeTypes, node
  <1>3. /\ failed' = r /\ pc' = "settle" /\ todo' = <<>> /\ page' = [page EXCEPT !.recs = {}]
        /\ r \in 1 .. head /\ r <= page.ack
    BY <1>2 DEF FailAt
  <1>4. page' \in [recs : SUBSET (1 .. head), gap : 0 .. head, ack : 0 .. head] /\ page'.ack = page.ack /\ page'.recs = {}
    BY <1>1, <1>2, <1>3 DEF PageTypes
  <1>5. NodeTypes' /\ ReaderTypes' /\ CursorSafe' /\ Ahead'
    BY <1>3, <1>4, PageFrame DEF InPage
  <1>6. TodoOrder'
    BY <1>3, RangeEmpty DEF TodoOrder
  <1>7. PageTypes'
    <2>1. failed' \in 0 .. head /\ todo' \in Seq(Calls)
      BY <1>2, <1>3
    <2> QED BY <1>1, <1>2, <1>4, <2>1 DEF PageTypes
  <1>8. late = 0 /\ late' = 0
    BY <1>1 DEF Control
  <1>9. Control'
    BY <1>1, <1>3, <1>4, <1>8 DEF Control, InPage
  <1>10. PageCovered'
    <2>1. Failure' = r
      BY <1>3, <1>8 DEF Failure, Earlier
    <2>2. ASSUME NEW q \in 1 .. page.ack, q < r PROVE Under(q)'
      <3>1. q \in 1 .. Rec - 1 /\ q \in 1 .. r - 1
        BY <1>2, <2>2
      <3>2. Under(q) /\ (Always(q) /\ accepted < q => \A p \in Producers : Reads(p, q) => Worked(p, q))
        BY <3>1, EarlierWorked
      <3> SUFFICES ASSUME Always(q), accepted < q
                   PROVE  /\ q \in durable'.points \cup txn'.points \cup undone'
                          /\ \A p \in Producers : Reads(p, q) => Worked(p, q)'
        BY <1>2 DEF Under
      <3>3. q \in durable'.points \cup txn'.points \cup undone'
        BY <3>2 DEF Under
      <3>4. ASSUME NEW p \in Producers, Reads(p, q) PROVE Worked(p, q)'
        BY <3>1, <3>2, <3>4 DEF Needed
      <3> QED BY <3>3, <3>4
    <2>3. \A q : Covers(q)' => q < r
      BY <1>3, <2>1 DEF Covers
    <2> QED BY <1>3, <1>4, <2>1, <2>2, <2>3 DEF PageCovered, InPage
  <1>11. DoneReads'
    BY <1>1 DEF DoneReads
  <1> QED BY <1>5, <1>6, <1>7, <1>9, <1>10, <1>11, InvParts

\* What a producer goes back to, and the calls since then.
LEMMA BaseEmpty == ASSUME NEW c \in State, NEW e, e.base = c, e.since = <<>> PROVE Base(e) = c
  <1>1. c = [st |-> c.st, off |-> c.off] /\ c.st \in Seq(Records)
    BY DEF State
  <1>2. c.st \o <<>> = c.st
    BY <1>1, ConcatEmptySeq
  <1> QED BY <1>1, <1>2 DEF Base

LEMMA BaseMore ==
  ASSUME NEW e \in Keep, NEW r \in Records, NEW f, f.base = e.base, f.since = Append(e.since, r)
  PROVE  Base(f) = [st |-> Append(Base(e).st, r), off |-> r]
  <1>1. e.base.st \in Seq(Records) /\ e.since \in Seq(Records) /\ <<r>> \in Seq(Records)
    BY DEF Keep, State
  <1>2. PICK a, b : a = e.base.st /\ b = e.since
    OBVIOUS
  <1>3. a \o b \in Seq(Records)
    BY <1>1, <1>2, ConcatProperties
  <1>4. Append(b, r) = b \o <<r>> /\ Append(a \o b, r) = (a \o b) \o <<r>>
    BY <1>1, <1>2, <1>3, AppendIsConcat
  <1>5. a \o Append(b, r) = Append(a \o b, r)
    <2>1. a \in Seq(Records) /\ b \in Seq(Records) /\ <<r>> \in Seq(Records)
      BY <1>1, <1>2
    <2>2. (a \o b) \o <<r>> = a \o (b \o <<r>>)
      BY <2>1, ConcatAssociative
    <2> QED BY ONLY <1>4, <2>2
  <1>6. Append(b, r) # <<>> /\ Last(Append(b, r)) = r
    <2>1. Len(Append(b, r)) = Len(b) + 1 /\ Len(b) \in Nat /\ Append(b, r)[Len(b) + 1] = r
      BY <1>1, <1>2
    <2>2. Append(b, r) \in Seq(Records)
      BY <1>1, <1>2
    <2>3. Append(b, r) # <<>>
      BY <2>1, EmptySeq
    <2> QED BY <2>1, <2>3 DEF Last
  <1>7. Base(e).st = a \o b
    BY <1>2 DEF Base
  <1>8. Base(f) = [st |-> a \o Append(b, r), off |-> Last(Append(b, r))]
    BY <1>2, <1>6 DEF Base
  <1> QED BY <1>5, <1>6, <1>7, <1>8

LEMMA EntryFacts ==
  ASSUME Inv, NEW p \in Checkpointed
  PROVE  /\ Entry(p) \in Keep /\ live[p] \in State /\ StartOf(p) \in State
         /\ Entry(p).start = StartOf(p) /\ Base(Entry(p)) = live[p]
         /\ Range(Entry(p).start.st) \subseteq Range(Entry(p).base.st)
         /\ Entry(p).first = 0 => live[p] = Entry(p).start
         /\ \A r \in 1 .. Entry(p).first - 1 : Needed(p, r) => Has(p, Entry(p).start, r)
         /\ p \in entered \/ Entry(p).first = 0
  <1>1. KeeperTypes /\ Entries
    BY DEF Inv, Types
  <1>2. live[p] \in State /\ entry[p] \in Keep /\ StartOf(p) \in State
    BY <1>1 DEF KeeperTypes, StartOf, Keep
  <1>3. CASE p \in entered
    <2>1. Entry(p) = entry[p]
      BY <1>3 DEF Entry
    <2>2. \A r : ~(r \in 1 .. 0 - 1)
      OBVIOUS
    <2>3. entry[p].first = 0 \/ \A r \in 1 .. entry[p].first - 1 : Needed(p, r) => Has(p, entry[p].start, r)
      BY <1>1, <1>3 DEF Entries
    <2> QED BY <1>1, <1>2, <1>3, <2>1, <2>2, <2>3 DEF Entries, StartOf
  <1>4. CASE p \notin entered
    <2>1. Entry(p) = [first |-> 0, start |-> live[p], base |-> live[p], since |-> <<>>]
      BY <1>4 DEF Entry, NoEntry
    <2>2. PICK e : e = Entry(p)
      OBVIOUS
    <2>3. e.base = live[p] /\ e.since = <<>> /\ e.start = live[p] /\ e.first = 0
      BY <2>1, <2>2
    <2>4. Base(e) = live[p]
      BY <1>2, <2>3, BaseEmpty
    <2>5. e \in Keep
      BY <1>2, <2>1, <2>2, Sizes DEF Keep
    <2>6. \A r : ~(r \in 1 .. 0 - 1)
      OBVIOUS
    <2> QED BY <1>2, <1>4, <2>2, <2>3, <2>4, <2>5, <2>6 DEF StartOf
  <1> QED BY <1>3, <1>4

\* The entry of the producer called: its first record of the page is not behind the one in hand.
LEMMA CalledFacts ==
  ASSUME Inv, pc = "records", todo # <<>>, Who \in Checkpointed
  PROVE  /\ Called \in Keep /\ Called.start = StartOf(Who) /\ Base(Called) = live[Who]
         /\ Called.base = Entry(Who).base /\ Called.since = Entry(Who).since
         /\ Range(Called.start.st) \subseteq Range(Called.base.st)
         /\ Called.first \in 1 .. Rec
         /\ \A r \in 1 .. Called.first - 1 : Needed(Who, r) => Has(Who, Called.start, r)
  <1>1. PICK w, e : w = Who /\ e = Entry(w)
    OBVIOUS
  <1>2. /\ e \in Keep /\ e.start = StartOf(w) /\ Base(e) = live[w] /\ Range(e.start.st) \subseteq Range(e.base.st)
        /\ (e.first = 0 => live[w] = e.start) /\ (w \in entered \/ e.first = 0)
        /\ \A r \in 1 .. e.first - 1 : Needed(w, r) => Has(w, e.start, r)
    BY <1>1, EntryFacts
  <1>3. /\ Rec \in 1 .. page.ack /\ page.ack \in Nat /\ Rec \in Records /\ Call = <<w, Rec>> /\ Call \in Range(todo)
        /\ w \in Producers
    BY <1>1, CallFacts
  <1>4. Called = [first |-> IF e.first = 0 THEN Rec ELSE e.first, start |-> e.start, base |-> e.base, since |-> e.since]
    BY <1>1, <1>2 DEF Called, Keep
  <1>5. e.first \in 0 .. Rec
    <2>1. CASE w \in entered
      <3>1. e = entry[w]
        BY <1>1, <2>1 DEF Entry
      <3>2. entry[w].first <= Call[2]
        BY <1>3, <2>1 DEF Inv, FirstOrder
      <3>3. Call[2] = Rec /\ e.first \in Nat
        BY <1>2, <1>3, Sizes DEF Keep
      <3> QED BY <1>3, <3>1, <3>2, <3>3
    <2>2. CASE e.first = 0
      BY <1>3, <2>2
    <2> QED BY <1>2, <2>1, <2>2
  <1>6. PICK c : c = Called
    OBVIOUS
  <1>7. /\ c.first = (IF e.first = 0 THEN Rec ELSE e.first) /\ c.start = e.start /\ c.base = e.base /\ c.since = e.since
        /\ c \in Keep
    BY <1>2, <1>3, <1>4, <1>6, Sizes DEF Keep, Records
  <1>8. Base(c) = Base(e)
    BY <1>7 DEF Base
  <1>9. c.first \in 1 .. Rec
    BY <1>3, <1>5, <1>7
  <1>10. ASSUME NEW r \in 1 .. c.first - 1, Needed(w, r) PROVE Has(w, c.start, r)
    <2>1. CASE e.first # 0
      BY <1>2, <1>7, <1>10, <2>1
    <2>2. CASE e.first = 0
      <3>1. r \in 1 .. Rec - 1
        BY <1>7, <2>2
      <3>2. Worked(w, r)
        BY <1>3, <1>10, <3>1, EarlierWorked DEF Needed
      <3> QED BY <1>1, <1>2, <1>7, <2>2, <3>2 DEF Worked
    <2> QED BY <2>1, <2>2
  <1> QED BY <1>1, <1>2, <1>6, <1>7, <1>8, <1>9, <1>10

LEMMA SettledKeeps ==
  ASSUME NEW o, Outcome(o, batch), Settled(o), done \subseteq done', rejected \subseteq rejected', UNCHANGED undone,
         accepted \in Nat, accepted' = accepted
  PROVE  /\ Grows /\ batch' \in Seq(Calls) /\ Range(batch) \subseteq Range(batch') \cup confirmed' \cup blamed'
         /\ o.ok \subseteq confirmed' /\ batch' = o.rest
  BY DEF Outcome, Settled, Grows

LEMMA SkipStep == ASSUME Inv, SkipHandled PROVE Inv'
  <1>1. /\ pc = "records" /\ todo # <<>> /\ Who \in Checkpointed /\ Rec <= live[Who].off
        /\ entered' = entered \cup {Who} /\ entry' = [entry EXCEPT ![Who] = Entry(Who)] /\ todo' = Tail(todo)
        /\ UNCHANGED <<node, msg, rung, reader, acks, pc, then, page, handled1, failed, late, live, batch, store, past>>
    BY DEF SkipHandled, Before, Kept
  <1>2. UNCHANGED <<accepted, durable, txn, owed, done, rejected, confirmed, blamed, undone>>
    BY <1>1 DEF node, store, past
  <1>3. Types /\ KeeperTypes /\ StatesGood /\ FirstOrder /\ batch \in Seq(Calls) /\ accepted \in Nat
    BY DEF Inv, Types, PageTypes, NodeTypes
  <1>4. Grows
    BY <1>2, <1>3 DEF Grows
  <1>5. PICK w, k, e : w = Who /\ k = Rec /\ e = Entry(w)
    OBVIOUS
  <1>6. PICK l : l = live[w]
    OBVIOUS
  <1>7. /\ e \in Keep /\ l \in State /\ e.start = StartOf(w) /\ Base(e) = l
        /\ Range(e.start.st) \subseteq Range(e.base.st) /\ (e.first = 0 => l = e.start)
        /\ (\A r \in 1 .. e.first - 1 : Needed(w, r) => Has(w, e.start, r)) /\ (w \in entered \/ e.first = 0)
    BY <1>1, <1>5, <1>6, EntryFacts
  <1>8. /\ Call = <<w, k>> /\ k \in 1 .. page.ack /\ page.ack \in Nat /\ Call \in Range(todo)
        /\ Range(Tail(todo)) \subseteq Range(todo)
    BY <1>1, <1>5, CallFacts
  <1>9. e.first <= Rec
    <2>1. CASE w \in entered
      <3>1. e = entry[w]
        BY <1>5, <2>1 DEF Entry
      <3>2. entry[w].first <= Call[2]
        BY <1>3, <1>8, <2>1 DEF FirstOrder
      <3> QED BY <1>5, <1>8, <3>1, <3>2
    <2>2. CASE e.first = 0
      BY <1>5, <1>8, <2>2
    <2> QED BY <1>7, <2>1, <2>2
  <1>10. live' = [live EXCEPT ![w] = l]
    BY <1>1, <1>3, <1>6 DEF KeeperTypes
  <1>11. PICK v : v = Range(batch)
    OBVIOUS
  <1>12. Good(w, l, v) /\ l.off \in Nat
    BY <1>1, <1>3, <1>5, <1>6, <1>7, <1>11, Sizes DEF StatesGood, State
  <1>13. Good(w, l, v)'
    BY <1>4, <1>12, GoodStays
  <1>14. /\ StatesGood' /\ Chain' /\ FirstHandled' /\ DiskGrows /\ Entries' /\ FirstOrder' /\ KeeperTypes'
         /\ \A p, q : Worked(p, q) /\ Range(live[w].st) \subseteq Range(l.st) => Worked(p, q)'
    BY <1>1, <1>2, <1>4, <1>5, <1>7, <1>8, <1>9, <1>10, <1>11, <1>13, MovedStays
  <1>15. \A p, q : Worked(p, q) => Worked(p, q)'
    BY <1>6, <1>14
  <1>16. Needed(w, k) => Worked(w, k)
    <2> SUFFICES ASSUME Needed(w, k) PROVE Worked(w, k)
      OBVIOUS
    <2>1. k \in 1 .. l.off
      BY <1>1, <1>5, <1>6, <1>8, <1>12
    <2>2. <<w, k>> \in done /\ <<w, k>> \in rejected \cup confirmed \cup blamed \cup v
      BY <1>12, <2>1 DEF Good
    <2>3. k \in Range(l.st) \/ <<w, k>> \in rejected \/ k \in undone
      BY <1>12, <2>1 DEF Good, Exact, Needed
    <2> QED BY <1>6, <1>11, <2>2, <2>3 DEF Worked, Has
  <1>17. batch' \in Seq(Calls) /\ done' \subseteq done \cup {Call}
    BY <1>1, <1>2, <1>3
  <1>18. UNCHANGED <<node, msg, rung, reader, acks, then, page, handled1, failed, late, store>>
    BY <1>1
  <1>19. todo' = Tail(todo) /\ Needed(w, k) => Worked(w, k)'
    BY <1>15, <1>16
  <1>20. pc \in {"records", "reject"} /\ pc' \in {"records", "reject"} /\ todo' = Tail(todo) /\ pc' = "records"
    BY <1>1
  <1> QED BY <1>1, <1>4, <1>8, <1>14, <1>15, <1>17, <1>18, <1>19, <1>20, GoesOn

\* A record more than the state has.
LEMMA ExactMore ==
  ASSUME NEW p, NEW c \in State, NEW k \in Records, c.off < k, Exact(p, c),
         \A r \in 1 .. k - 1 : Needed(p, r) => Has(p, c, r)
  PROVE  /\ [st |-> Append(c.st, k), off |-> k] \in State
         /\ Exact(p, [st |-> Append(c.st, k), off |-> k])
         /\ Range(Append(c.st, k)) = Range(c.st) \cup {k}
  <1>1. c.st \in Seq(Records) /\ c.off \in Nat /\ k \in Nat
    BY Sizes DEF State
  <1>2. PICK s, t : s = c.st /\ t = Append(s, k)
    OBVIOUS
  <1>3. t \in Seq(Records) /\ Range(t) = Range(s) \cup {k}
    BY <1>1, <1>2, RangeAppend
  <1>4. /\ Len(s) \in Nat /\ Len(t) = Len(s) + 1 /\ (\A i \in 1 .. Len(s) : s[i] \in Records /\ t[i] = s[i]) /\ t[Len(s) + 1] = k
    BY <1>1, <1>2
  <1>5. PICK d : d = [st |-> t, off |-> k]
    OBVIOUS
  <1>6. d.st = t /\ d.off = k /\ d \in State
    BY <1>1, <1>3, <1>5, Sizes DEF State, Records
  <1>7. /\ \A i, j \in 1 .. Len(s) : i < j => s[i] < s[j]
        /\ \A i \in 1 .. Len(s) : s[i] <= c.off
    BY <1>2 DEF Exact
  <1>8. \A i \in 1 .. Len(s) : s[i] < k /\ s[i] \in Nat
    BY <1>1, <1>4, <1>7, Sizes
  <1>9. ASSUME NEW i \in 1 .. Len(t), NEW j \in 1 .. Len(t), i < j PROVE t[i] < t[j]
    <2>1. i \in 1 .. Len(s)
      BY <1>4, <1>9
    <2>2. j \in 1 .. Len(s) \/ j = Len(s) + 1
      BY <1>4
    <2>3. CASE j \in 1 .. Len(s)
      BY <1>4, <1>7, <1>9, <2>1, <2>3
    <2>4. CASE j = Len(s) + 1
      BY <1>4, <1>8, <2>1, <2>4
    <2> QED BY <2>2, <2>3, <2>4
  <1>10. ASSUME NEW i \in 1 .. Len(t) PROVE t[i] <= k
    <2>1. i \in 1 .. Len(s) \/ i = Len(s) + 1
      BY <1>4
    <2> QED BY <1>1, <1>4, <1>8, <2>1
  <1>11. ASSUME NEW r \in 1 .. k, Needed(p, r) PROVE r \in Range(t) \/ <<p, r>> \in rejected \/ r \in undone
    <2>1. CASE r = k
      BY <1>3, <2>1
    <2>2. CASE r # k
      <3>1. r \in 1 .. k - 1
        BY <1>1, <2>2
      <3> QED BY <1>2, <1>3, <1>11, <3>1 DEF Has
    <2> QED BY <2>1, <2>2
  <1>12. Exact(p, d)
    BY <1>6, <1>9, <1>10, <1>11 DEF Exact, Needed
  <1> QED BY <1>2, <1>3, <1>5, <1>6, <1>12

LEMMA ReturnStep == ASSUME Inv, HandlerReturns PROVE Inv'
  <1>1. /\ pc = "records" /\ todo # <<>> /\ ~Before /\ done' = done \cup {Call} /\ todo' = Tail(todo)
        /\ UNCHANGED <<node, msg, rung, reader, acks, pc, then, page, handled1, failed, late, store, rejected, undone>>
    BY DEF HandlerReturns, Calling
  <1>2. UNCHANGED <<accepted, durable, txn, owed>>
    BY <1>1 DEF node, store
  <1>3. Types /\ KeeperTypes /\ StatesGood /\ batch \in Seq(Calls) /\ accepted \in Nat
    BY DEF Inv, Types, PageTypes, NodeTypes
  <1>4. PICK o \in Added(batch, <<Call>>) : Settled(o)
    BY DEF HandlerReturns
  <1>5. PICK w, k : w = Who /\ k = Rec
    OBVIOUS
  <1>6. /\ Call = <<w, k>> /\ Call \in Calls /\ w \in Producers /\ k \in 1 .. page.ack /\ page.ack \in Nat /\ k \in Records
        /\ Range(Tail(todo)) \subseteq Range(todo)
    BY <1>1, <1>5, CallFacts
  <1>7. Outcome(o, batch) /\ Call \in Range(o.rest) \cup o.ok
    <2>1. PICK s : s = <<Call>>
      OBVIOUS
    <2>2. s \in Seq(Calls) /\ Range(s) = {Call}
      BY <1>6, <2>1, RangeOne
    <2> QED BY <1>3, <1>4, <2>1, <2>2, AddedTells
  <1>8. /\ Grows /\ batch' \in Seq(Calls) /\ Range(batch) \subseteq Range(batch') \cup confirmed' \cup blamed'
        /\ Call \in Range(batch') \cup confirmed'
    <2>1. done \subseteq done' /\ rejected \subseteq rejected'
      BY <1>1
    <2>2. /\ Grows /\ batch' \in Seq(Calls) /\ Range(batch) \subseteq Range(batch') \cup confirmed' \cup blamed'
          /\ o.ok \subseteq confirmed' /\ batch' = o.rest
      BY <1>1, <1>2, <1>3, <1>4, <1>7, <2>1, SettledKeeps
    <2> QED BY <1>7, <2>2
  <1>9. <<w, k>> \in done' /\ <<w, k>> \in rejected' \cup confirmed' \cup blamed' \cup Range(batch')
    BY <1>1, <1>6, <1>8
  <1>10. ASSUME StatesGood' /\ Chain' /\ FirstHandled' /\ DiskGrows /\ Entries' /\ FirstOrder' /\ KeeperTypes',
                \A p, q : Worked(p, q) => Worked(p, q)',
                Worked(w, k)'
         PROVE  Inv'
    <2>1. done' \subseteq done \cup {Call}
      BY <1>1
    <2>2. UNCHANGED <<node, msg, rung, reader, acks, then, page, handled1, failed, late, store>>
      BY <1>1
    <2>3. pc \in {"records", "reject"} /\ pc' \in {"records", "reject"} /\ todo' = Tail(todo) /\ pc' = "records"
      BY <1>1
    <2> QED BY <1>1, <1>6, <1>8, <1>10, <2>1, <2>2, <2>3, GoesOn
  <1>11. CASE ~Kept
    <2>1. UNCHANGED <<entered, entry, live>>
      BY <1>11 DEF HandlerReturns
    <2>2. /\ StatesGood' /\ Chain' /\ FirstHandled' /\ DiskGrows /\ Entries' /\ FirstOrder' /\ KeeperTypes'
          /\ \A p, q : Worked(p, q) => Worked(p, q)'
      BY <1>1, <1>2, <1>6, <1>8, <2>1, SameStays
    <2>3. w \notin Checkpointed
      BY <1>5, <1>11 DEF Kept
    <2>4. Worked(w, k)'
      BY <1>9, <2>3 DEF Worked
    <2> QED BY <1>10, <2>2, <2>4
  <1>12. CASE Kept
    <2>1. w \in Checkpointed /\ live[w] \in State
      BY <1>3, <1>5, <1>12 DEF Kept, KeeperTypes
    <2>2. PICK c, e, l, a : c = Called /\ e = [Called EXCEPT !.since = Append(@, k)] /\ a = live[w]
                         /\ l = [st |-> Append(a.st, k), off |-> k]
      OBVIOUS
    <2>3. /\ c \in Keep /\ c.start = StartOf(w) /\ Base(c) = a /\ Range(c.start.st) \subseteq Range(c.base.st)
          /\ c.first \in 1 .. k /\ \A r \in 1 .. c.first - 1 : Needed(w, r) => Has(w, c.start, r)
      BY <1>1, <1>5, <2>1, <2>2, CalledFacts
    <2>4. e = [first |-> c.first, start |-> c.start, base |-> c.base, since |-> Append(c.since, k)]
      BY <2>2, <2>3 DEF Keep
    <2>5. e.first = c.first /\ e.start = c.start /\ e.base = c.base /\ e.since = Append(c.since, k) /\ e \in Keep
      BY <1>6, <2>3, <2>4 DEF Keep
    <2>6. Base(e) = l
      BY <1>6, <2>2, <2>3, <2>5, BaseMore
    <2>7. /\ live' = [live EXCEPT ![w] = l] /\ entry' = [entry EXCEPT ![w] = e] /\ entered' = entered \cup {w}
      <3>1. Enter([Called EXCEPT !.since = Append(@, Rec)], [st |-> Append(live[Who].st, Rec), off |-> Rec])
        BY <1>12 DEF HandlerReturns
      <3>2. Enter(e, l)
        BY <1>5, <2>2, <3>1
      <3> QED BY <1>5, <1>12, <3>2 DEF Enter
    <2>8. /\ a.off < k /\ a \in State /\ Exact(w, a) /\ \A r \in 1 .. k - 1 : Needed(w, r) => Worked(w, r)
      <3>1. a.off < k
        <4>1. a.off \in Nat /\ k \in Nat /\ ~(k <= a.off)
          BY <1>1, <1>5, <1>6, <1>12, <2>1, <2>2, Sizes DEF Before, State
        <4> QED BY <4>1
      <3>2. \A r \in 1 .. k - 1 : Needed(w, r) => Worked(w, r)
        BY <1>1, <1>5, <1>6, EarlierWorked DEF Needed
      <3> QED BY <1>3, <2>1, <2>2, <3>1, <3>2 DEF StatesGood, Good
    <2>9. \A r \in 1 .. k - 1 : Needed(w, r) => Has(w, a, r)
      BY <2>1, <2>2, <2>8 DEF Worked
    <2>10. l \in State /\ Exact(w, l) /\ Range(l.st) = Range(a.st) \cup {k} /\ l.off = k
      <3>1. /\ [st |-> Append(a.st, k), off |-> k] \in State
            /\ Exact(w, [st |-> Append(a.st, k), off |-> k])
            /\ Range(Append(a.st, k)) = Range(a.st) \cup {k}
        BY <1>6, <2>8, <2>9, ExactMore
      <3>2. l.st = Append(a.st, k) /\ l.off = k
        BY <2>2
      <3> QED BY <2>2, <3>1, <3>2
    <2>11. PICK v : v = Range(batch')
      OBVIOUS
    <2>12. Good(w, l, v)'
      <3>1. Exact(w, l)'
        BY <1>8, <2>10 DEF Exact, Grows
      <3>2. ASSUME NEW r \in 1 .. k, Needed(w, r)'
            PROVE  <<w, r>> \in done' /\ <<w, r>> \in rejected' \cup confirmed' \cup blamed' \cup v
        <4>1. CASE r = k
          BY <1>9, <2>11, <4>1
        <4>2. CASE r # k
          <5>1. r \in 1 .. k - 1 /\ Needed(w, r)
            BY <1>6, <1>8, <3>2, <4>2, Sizes DEF Needed, Grows
          <5>2. Worked(w, r)
            BY <2>8, <5>1
          <5> QED BY <1>8, <2>11, <5>2 DEF Worked, Grows
        <4> QED BY <4>1, <4>2
      <3> QED BY <2>10, <3>1, <3>2 DEF Good
    <2>13. e.first # 0 /\ e.first <= Rec
      BY <1>5, <1>6, <2>3, <2>5
    <2>14. \A r \in 1 .. e.first - 1 : Needed(w, r) => Has(w, e.start, r)
      BY <2>3, <2>5
    <2>15. UNCHANGED <<durable, txn, owed, handled1>> /\ page'.ack = page.ack /\ page'.recs \subseteq page.recs
           /\ Range(todo') \subseteq Range(todo)
      BY <1>1, <1>2, <1>6
    <2>16. /\ StatesGood' /\ Chain' /\ FirstHandled' /\ DiskGrows /\ Entries' /\ FirstOrder' /\ KeeperTypes'
           /\ \A p, q : Worked(p, q) /\ Range(live[w].st) \subseteq Range(l.st) => Worked(p, q)'
      BY <1>1, <1>8, <2>1, <2>3, <2>5, <2>6, <2>7, <2>10, <2>11, <2>12, <2>13, <2>14, <2>15, MovedStays
    <2>17. \A p, q : Worked(p, q) => Worked(p, q)'
      BY <2>2, <2>10, <2>16
    <2>18. Worked(w, k)'
      <3>1. live'[w] = l
        BY <1>3, <2>1, <2>7 DEF KeeperTypes
      <3> QED BY <1>9, <2>10, <3>1 DEF Worked, Has
    <2> QED BY <1>10, <2>16, <2>17, <2>18
  <1> QED BY <1>11, <1>12

\* A producer put back: to the calls it had, to the page's start, or to a new point.
LEMMA RewindStays ==
  ASSUME Inv, Grows, pc = "records", todo # <<>>, NEW w \in Checkpointed, w = Who,
         UNCHANGED <<durable, txn, owed, handled1>>, page'.ack = page.ack, page'.recs \subseteq page.recs,
         Range(todo') \subseteq Range(todo), Range(batch) \subseteq Range(batch') \cup confirmed' \cup blamed',
         NEW c, c = Called, NEW e, NEW l,
         live' = [live EXCEPT ![w] = l], entry' = [entry EXCEPT ![w] = e], entered' = entered \cup {w},
         \/ e = c /\ l = live[w]
         \/ e = ToStart(c) /\ l = c.start
         \/ e = [c EXCEPT !.base = live[w], !.since = <<>>] /\ l = live[w]
  PROVE  /\ StatesGood' /\ Chain' /\ FirstHandled' /\ DiskGrows /\ Entries' /\ FirstOrder' /\ KeeperTypes'
         /\ l = live[w] => \A p, q : Worked(p, q) => Worked(p, q)'
         /\ \A p, q : q \in 1 .. c.first - 1 /\ Needed(p, q) /\ Worked(p, q) => Worked(p, q)'
  <1>1. /\ c \in Keep /\ c.start = StartOf(w) /\ Base(c) = live[w] /\ Range(c.start.st) \subseteq Range(c.base.st)
        /\ c.first \in 1 .. Rec /\ \A r \in 1 .. c.first - 1 : Needed(w, r) => Has(w, c.start, r)
    BY CalledFacts
  <1>2. KeeperTypes /\ StatesGood /\ live[w] \in State /\ StartOf(w) \in State /\ Rec \in Nat
    BY EntryFacts, CallFacts DEF Inv, Types
  <1>3. c = [first |-> c.first, start |-> c.start, base |-> c.base, since |-> c.since]
    BY <1>1 DEF Keep
  <1>4. Range(c.base.st) \subseteq Range(live[w].st)
    <2>1. c.base.st \in Seq(Records) /\ c.since \in Seq(Records)
      BY <1>1 DEF Keep, State
    <2>2. PICK a, b : a = c.base.st /\ b = c.since
      OBVIOUS
    <2>3. Range(a \o b) = Range(a) \cup Range(b)
      BY <2>1, <2>2, RangeConcatenation
    <2>4. live[w].st = a \o b
      <3>1. Base(c).st = a \o b
        BY <2>2 DEF Base
      <3> QED BY <1>1, <3>1
    <2> QED BY <2>2, <2>3, <2>4
  <1>5. /\ e \in Keep /\ l \in State /\ e.first = c.first /\ e.start = c.start /\ l = Base(e)
        /\ Range(e.start.st) \subseteq Range(e.base.st)
    <2>1. CASE e = c /\ l = live[w]
      BY <1>1, <1>2, <2>1
    <2>2. CASE e = ToStart(c) /\ l = c.start
      <3>1. e = [first |-> c.first, start |-> c.start, base |-> c.start, since |-> <<>>]
        BY <1>3, <2>2 DEF ToStart
      <3>2. e.first = c.first /\ e.start = c.start /\ e.base = c.start /\ e.since = <<>>
        BY <3>1
      <3>3. e \in Keep /\ c.start \in State
        BY <1>1, <3>1 DEF Keep
      <3>4. Base(e) = c.start
        BY <3>2, <3>3, BaseEmpty
      <3> QED BY <2>2, <3>2, <3>3, <3>4
    <2>3. CASE e = [c EXCEPT !.base = live[w], !.since = <<>>] /\ l = live[w]
      <3>1. e = [first |-> c.first, start |-> c.start, base |-> live[w], since |-> <<>>]
        BY <1>3, <2>3
      <3>2. e.first = c.first /\ e.start = c.start /\ e.base = live[w] /\ e.since = <<>>
        BY <3>1
      <3>3. e \in Keep
        BY <1>1, <1>2, <3>1 DEF Keep
      <3>4. Base(e) = live[w]
        BY <1>2, <3>2, BaseEmpty
      <3> QED BY <1>1, <1>2, <1>4, <2>3, <3>2, <3>3, <3>4
    <2> QED BY <2>1, <2>2, <2>3
  <1>6. PICK v, u : v = Range(batch') /\ u = Range(batch)
    OBVIOUS
  <1>7. Good(w, l, v)'
    <2>1. \A a \in State : a.off \in Nat
      BY Sizes DEF State
    <2>2. CASE l = live[w]
      <3>1. Good(w, l, u)
        BY <1>2, <1>6, <2>2 DEF StatesGood
      <3> QED BY <1>5, <1>6, <2>1, <3>1, GoodStays
    <2>3. CASE l = c.start
      <3>1. Good(w, l, {})
        BY <1>1, <1>2, <2>3 DEF StatesGood
      <3> QED BY <1>5, <2>1, <3>1, GoodStays
    <2> QED BY <2>2, <2>3
  <1>8. e.first # 0 /\ e.first <= Rec /\ \A r \in 1 .. e.first - 1 : Needed(w, r) => Has(w, e.start, r)
    BY <1>1, <1>2, <1>5
  <1>9. /\ StatesGood' /\ Chain' /\ FirstHandled' /\ DiskGrows /\ Entries' /\ FirstOrder' /\ KeeperTypes'
        /\ \A p, q : p # w /\ Worked(p, q) => Worked(p, q)'
        /\ \A p, q : Worked(p, q) /\ Range(live[w].st) \subseteq Range(l.st) => Worked(p, q)'
    BY <1>1, <1>5, <1>6, <1>7, <1>8, MovedStays
  <1>10. ASSUME NEW q \in 1 .. c.first - 1, Needed(w, q), Worked(w, q) PROVE Worked(w, q)'
    <2>1. live'[w] = l
      BY <1>2 DEF KeeperTypes
    <2>2. Has(w, c.start, q) /\ (l = live[w] \/ l = c.start)
      BY <1>1, <1>10
    <2>3. Has(w, l, q)
      BY <1>10, <2>2 DEF Worked
    <2> QED BY <1>10, <2>1, <2>3 DEF Worked, Has, Grows
  <1> QED BY <1>9, <1>10

LEMMA RaiseStep == ASSUME Inv, HandlerRaises PROVE Inv'
  <1>1. /\ pc = "records" /\ todo # <<>>
        /\ UNCHANGED <<node, msg, rung, reader, acks, then, handled1, late, store, done, rejected, undone>>
    BY DEF HandlerRaises, Calling
  <1>2. UNCHANGED <<accepted, durable, txn, owed>>
    BY <1>1 DEF node, store
  <1>3. Types /\ StoreTypes /\ PageTypes /\ batch \in Seq(Calls) /\ accepted \in Nat
    BY DEF Inv, Types, PageTypes, NodeTypes
  <1>4. /\ Call \in Calls /\ Rec \in 1 .. page.ack /\ page.ack \in Nat /\ Who \in Producers
    BY <1>1, CallFacts
  <1>5. PICK o \in {Unsent(batch)} \cup Raised(batch, <<Call>>) :
          IF ~Kept THEN Settled(o) /\ FailAt(Rec) /\ UNCHANGED <<entered, entry, live>>
          ELSE \/ \E w \in Rewound(Called, o.rest) :
                     Settled(Both(o, w)) /\ FailAt(Rec) /\ Enter(Called, Base(Called))
               \/ \E w \in RewindBroke(Called, o.rest) :
                     Settled(Both(o, w)) /\ FailAt(Called.first) /\ Enter(ToStart(Called), Called.start)
    BY DEF HandlerRaises
  <1>6. Outcome(o, batch)
    <2>1. PICK s : s = <<Call>>
      OBVIOUS
    <2>2. s \in Seq(Calls)
      BY <1>4, <2>1
    <2>3. \A x \in Raised(batch, s) : Outcome(x, batch)
      BY <1>3, <2>2, RaisedTells
    <2> QED BY <1>3, <1>5, <2>1, <2>3, UnsentTells
  <1>7. ASSUME NEW x, Outcome(x, batch), Settled(x)
        PROVE  Grows /\ batch' \in Seq(Calls) /\ Range(batch) \subseteq Range(batch') \cup confirmed' \cup blamed'
    BY <1>1, <1>2, <1>3, <1>7, SettledKeeps
  <1>8. StoreTypes'
    BY <1>1, <1>3, Frames
  <1>9. ASSUME NEW r \in 1 .. Rec, FailAt(r), Grows, batch' \in Seq(Calls),
               StatesGood' /\ Chain' /\ FirstHandled' /\ DiskGrows /\ Entries' /\ FirstOrder' /\ KeeperTypes',
               \A p, q : q \in 1 .. r - 1 /\ Needed(p, q) /\ Worked(p, q) => Worked(p, q)'
        PROVE  Inv'
    <2>1. durable.points \cup txn.points \cup undone \subseteq durable.points \cup txn'.points \cup undone'
      BY <1>1, <1>2
    <2>2. UNCHANGED <<node, msg, rung, reader, acks, then, handled1, late, durable, done>>
      BY <1>1, <1>2
    <2> QED BY <1>1, <1>8, <1>9, <2>1, <2>2, PageFails
  <1>10. ASSUME NEW r, FailAt(r)
         PROVE  page'.ack = page.ack /\ page'.recs \subseteq page.recs /\ Range(todo') \subseteq Range(todo)
    <2>1. page' = [page EXCEPT !.recs = {}] /\ todo' = <<>>
      BY <1>10 DEF FailAt
    <2> QED BY <1>3, <2>1, RangeEmpty DEF PageTypes
  <1>11. UNCHANGED <<durable, txn, owed, handled1>>
    BY <1>1, <1>2
  <1>12. Rec \in 1 .. Rec
    BY <1>4
  <1>13. CASE ~Kept
    <2>1. Settled(o) /\ FailAt(Rec) /\ UNCHANGED <<entered, entry, live>>
      BY <1>5, <1>13
    <2>2. Grows /\ batch' \in Seq(Calls) /\ Range(batch) \subseteq Range(batch') \cup confirmed' \cup blamed'
      BY <1>6, <1>7, <2>1
    <2>3. page'.ack = page.ack /\ page'.recs \subseteq page.recs /\ Range(todo') \subseteq Range(todo)
      BY <1>10, <2>1
    <2>4. /\ StatesGood' /\ Chain' /\ FirstHandled' /\ DiskGrows /\ Entries' /\ FirstOrder' /\ KeeperTypes'
          /\ \A p, q : Worked(p, q) => Worked(p, q)'
      BY <1>1, <1>11, <2>1, <2>2, <2>3, SameStays
    <2> QED BY <1>9, <1>12, <2>1, <2>2, <2>4
  <1>14. CASE Kept
    <2>1. PICK w, c : w = Who /\ c = Called
      OBVIOUS
    <2>2. w \in Checkpointed
      BY <1>14, <2>1 DEF Kept
    <2>3. Called \in Keep /\ Base(c) = live[w] /\ c.first \in 1 .. Rec
      BY <1>1, <2>1, <2>2, CalledFacts
    <2>4. Called.since \in Seq(Records)
      BY <2>3 DEF Keep
    <2>5. o.rest \in Seq(Calls)
      BY <1>6 DEF Outcome
    <2>6. CASE \E x \in Rewound(Called, o.rest) : Settled(Both(o, x)) /\ FailAt(Rec) /\ Enter(Called, Base(Called))
      <3>1. PICK x \in Rewound(Called, o.rest) : Settled(Both(o, x)) /\ FailAt(Rec) /\ Enter(Called, Base(Called))
        BY <2>6
      <3>2. Outcome(x, o.rest)
        BY <1>4, <2>4, <2>5, <3>1, RewindTells
      <3>3. Outcome(Both(o, x), batch)
        BY <1>6, <3>2, BothTell
      <3>4. Grows /\ batch' \in Seq(Calls) /\ Range(batch) \subseteq Range(batch') \cup confirmed' \cup blamed'
        BY <1>7, <3>1, <3>3
      <3>5. page'.ack = page.ack /\ page'.recs \subseteq page.recs /\ Range(todo') \subseteq Range(todo)
        BY <1>10, <3>1
      <3>6. PICK l : l = live[w]
        OBVIOUS
      <3>7. live' = [live EXCEPT ![w] = l] /\ entry' = [entry EXCEPT ![w] = c] /\ entered' = entered \cup {w}
        BY <1>14, <2>1, <2>3, <3>1, <3>6 DEF Enter
      <3>8. /\ StatesGood' /\ Chain' /\ FirstHandled' /\ DiskGrows /\ Entries' /\ FirstOrder' /\ KeeperTypes'
            /\ \A p, q : Worked(p, q) => Worked(p, q)'
        BY <1>1, <1>11, <2>1, <2>2, <3>4, <3>5, <3>6, <3>7, RewindStays
      <3> QED BY <1>9, <1>12, <3>1, <3>4, <3>8
    <2>7. CASE \E x \in RewindBroke(Called, o.rest) :
                 Settled(Both(o, x)) /\ FailAt(Called.first) /\ Enter(ToStart(Called), Called.start)
      <3>1. PICK x \in RewindBroke(Called, o.rest) :
              Settled(Both(o, x)) /\ FailAt(Called.first) /\ Enter(ToStart(Called), Called.start)
        BY <2>7
      <3>2. Outcome(x, o.rest)
        BY <1>4, <2>4, <2>5, <3>1, RewindTells
      <3>3. Outcome(Both(o, x), batch)
        BY <1>6, <3>2, BothTell
      <3>4. Grows /\ batch' \in Seq(Calls) /\ Range(batch) \subseteq Range(batch') \cup confirmed' \cup blamed'
        BY <1>7, <3>1, <3>3
      <3>5. FailAt(c.first)
        BY <2>1, <3>1
      <3>6. page'.ack = page.ack /\ page'.recs \subseteq page.recs /\ Range(todo') \subseteq Range(todo)
        BY <1>10, <3>5
      <3>7. PICK e, l : e = ToStart(c) /\ l = c.start
        OBVIOUS
      <3>8. live' = [live EXCEPT ![w] = l] /\ entry' = [entry EXCEPT ![w] = e] /\ entered' = entered \cup {w}
        BY <1>14, <2>1, <3>1, <3>7 DEF Enter
      <3>9. /\ StatesGood' /\ Chain' /\ FirstHandled' /\ DiskGrows /\ Entries' /\ FirstOrder' /\ KeeperTypes'
            /\ \A p, q : q \in 1 .. c.first - 1 /\ Needed(p, q) /\ Worked(p, q) => Worked(p, q)'
        BY <1>1, <1>11, <2>1, <2>2, <3>4, <3>6, <3>7, <3>8, RewindStays
      <3> QED BY <1>9, <2>3, <3>4, <3>5, <3>9
    <2> QED BY <1>5, <1>14, <2>6, <2>7
  <1> QED BY <1>13, <1>14

LEMMA RejectStep == ASSUME Inv, HandlerRejects PROVE Inv'
  <1>1. /\ pc = "records" /\ todo # <<>>
        /\ UNCHANGED <<node, msg, rung, reader, acks, then, handled1, late, store, done, rejected, undone>>
    BY DEF HandlerRejects, Calling
  <1>2. UNCHANGED <<accepted, durable, txn, owed>>
    BY <1>1 DEF node, store
  <1>3. Types /\ StoreTypes /\ PageTypes /\ Control /\ batch \in Seq(Calls) /\ accepted \in Nat
    BY DEF Inv, Types, PageTypes, NodeTypes
  <1>4. /\ Call \in Calls /\ Rec \in 1 .. page.ack /\ page.ack \in Nat /\ Who \in Producers
    BY <1>1, CallFacts
  <1>5. ASSUME NEW x, Outcome(x, batch), Settled(x)
        PROVE  Grows /\ batch' \in Seq(Calls) /\ Range(batch) \subseteq Range(batch') \cup confirmed' \cup blamed'
    BY <1>1, <1>2, <1>3, <1>5, SettledKeeps
  <1>6. UNCHANGED <<durable, txn, owed, handled1>>
    BY <1>1, <1>2
  \* The rejection is still to be recorded.
  <1>7. ASSUME pc' = "reject", UNCHANGED <<page, todo, failed>>, Grows, batch' \in Seq(Calls),
               StatesGood' /\ Chain' /\ FirstHandled' /\ DiskGrows /\ Entries' /\ FirstOrder' /\ KeeperTypes',
               \A p, q : Worked(p, q) => Worked(p, q)'
        PROVE  Inv'
    <2>1. UNCHANGED <<node, msg, rung, reader, acks, then, page, handled1, failed, late, store>>
      BY <1>1, <1>7
    <2>2. pc \in {"records", "reject"} /\ pc' \in {"records", "reject"} /\ todo' = todo /\ done' \subseteq done \cup {Call}
      BY <1>1, <1>7
    <2>3. PICK w, k : Call = <<w, k>>
      BY <1>4 DEF Calls
    <2>4. todo' = Tail(todo) /\ Needed(w, k) => Worked(w, k)'
      <3>1. todo # Tail(todo)
        <4>1. Len(Tail(todo)) = Len(todo) - 1 /\ Len(todo) \in Nat
          BY <1>1, <1>3 DEF PageTypes
        <4> QED BY <4>1
      <3> QED BY <2>2, <3>1
    <2> QED BY <1>1, <1>7, <2>1, <2>2, <2>3, <2>4, GoesOn
  <1>8. CASE ~Kept
    <2>1. pc' = "reject" /\ UNCHANGED <<batch, confirmed, blamed, entered, entry, live, failed, page, todo>>
      BY <1>8 DEF HandlerRejects
    <2>2. Grows
      BY <1>1, <1>2, <1>3, <2>1 DEF Grows
    <2>3. /\ StatesGood' /\ Chain' /\ FirstHandled' /\ DiskGrows /\ Entries' /\ FirstOrder' /\ KeeperTypes'
          /\ \A p, q : Worked(p, q) => Worked(p, q)'
      BY <1>1, <1>6, <2>1, <2>2, SameStays
    <2> QED BY <1>3, <1>7, <2>1, <2>2, <2>3
  <1>9. CASE Kept
    <2>1. PICK w, c : w = Who /\ c = Called
      OBVIOUS
    <2>2. w \in Checkpointed
      BY <1>9, <2>1 DEF Kept
    <2>3. Called \in Keep /\ Base(c) = live[w] /\ c.first \in 1 .. Rec
      BY <1>1, <2>1, <2>2, CalledFacts
    <2>4. Called.since \in Seq(Records)
      BY <2>3 DEF Keep
    <2>5. CASE \E x \in Rewound(Called, batch) :
                  /\ Settled(x) /\ pc' = "reject"
                  /\ Enter([Called EXCEPT !.base = Base(Called), !.since = <<>>], Base(Called))
                  /\ UNCHANGED <<failed, page, todo>>
      <3>1. PICK x \in Rewound(Called, batch) :
                  /\ Settled(x) /\ pc' = "reject"
                  /\ Enter([Called EXCEPT !.base = Base(Called), !.since = <<>>], Base(Called))
                  /\ UNCHANGED <<failed, page, todo>>
        BY <2>5
      <3>2. Outcome(x, batch)
        BY <1>3, <1>4, <2>4, <3>1, RewindTells
      <3>3. Grows /\ batch' \in Seq(Calls) /\ Range(batch) \subseteq Range(batch') \cup confirmed' \cup blamed'
        BY <1>5, <3>1, <3>2
      <3>4. PICK e, l : e = [c EXCEPT !.base = live[w], !.since = <<>>] /\ l = live[w]
        OBVIOUS
      <3>5. live' = [live EXCEPT ![w] = l] /\ entry' = [entry EXCEPT ![w] = e] /\ entered' = entered \cup {w}
        <4>1. Enter(e, l)
          BY <2>1, <2>3, <3>1, <3>4
        <4> QED BY <1>9, <2>1, <4>1 DEF Enter
      <3>6. page'.ack = page.ack /\ page'.recs \subseteq page.recs /\ Range(todo') \subseteq Range(todo)
        BY <3>1
      <3>7. /\ StatesGood' /\ Chain' /\ FirstHandled' /\ DiskGrows /\ Entries' /\ FirstOrder' /\ KeeperTypes'
            /\ \A p, q : Worked(p, q) => Worked(p, q)'
        BY <1>1, <1>6, <2>1, <2>2, <3>3, <3>4, <3>5, <3>6, RewindStays
      <3> QED BY <1>7, <3>1, <3>3, <3>7
    <2>6. CASE \E x \in RewindBroke(Called, batch) :
                  Settled(x) /\ FailAt(Called.first) /\ Enter(ToStart(Called), Called.start)
      <3>1. PICK x \in RewindBroke(Called, batch) :
                  Settled(x) /\ FailAt(Called.first) /\ Enter(ToStart(Called), Called.start)
        BY <2>6
      <3>2. Outcome(x, batch)
        BY <1>3, <1>4, <2>4, <3>1, RewindTells
      <3>3. Grows /\ batch' \in Seq(Calls) /\ Range(batch) \subseteq Range(batch') \cup confirmed' \cup blamed'
        BY <1>5, <3>1, <3>2
      <3>4. FailAt(c.first)
        BY <2>1, <3>1
      <3>5. page'.ack = page.ack /\ page'.recs \subseteq page.recs /\ Range(todo') \subseteq Range(todo)
        <4>1. page' = [page EXCEPT !.recs = {}] /\ todo' = <<>>
          BY <3>4 DEF FailAt
        <4> QED BY <1>3, <4>1, RangeEmpty DEF PageTypes
      <3>6. PICK e, l : e = ToStart(c) /\ l = c.start
        OBVIOUS
      <3>7. live' = [live EXCEPT ![w] = l] /\ entry' = [entry EXCEPT ![w] = e] /\ entered' = entered \cup {w}
        BY <1>9, <2>1, <3>1, <3>6 DEF Enter
      <3>8. /\ StatesGood' /\ Chain' /\ FirstHandled' /\ DiskGrows /\ Entries' /\ FirstOrder' /\ KeeperTypes'
            /\ \A p, q : q \in 1 .. c.first - 1 /\ Needed(p, q) /\ Worked(p, q) => Worked(p, q)'
        BY <1>1, <1>6, <2>1, <2>2, <3>3, <3>5, <3>6, <3>7, RewindStays
      <3>9. StoreTypes' /\ durable.points \cup txn.points \cup undone \subseteq durable.points \cup txn'.points \cup undone'
        BY <1>1, <1>2, <1>3, Frames
      <3>10. UNCHANGED <<node, msg, rung, reader, acks, then, handled1, late, durable, done>>
        BY <1>1, <1>2
      <3> QED BY <1>1, <2>3, <3>3, <3>4, <3>8, <3>9, <3>10, PageFails
    <2> QED BY <1>9, <2>5, <2>6 DEF HandlerRejects
  <1> QED BY <1>8, <1>9

LEMMA RecordedStep == ASSUME Inv, RejectRecorded PROVE Inv'
  <1>1. /\ pc = "reject" /\ pc' = "records" /\ todo' = Tail(todo)
        /\ rejected' = rejected \cup {Call} /\ done' = done \cup {Call}
        /\ UNCHANGED <<node, msg, rung, reader, acks, then, page, handled1, failed, late, keeper, store, confirmed, blamed, undone>>
    BY DEF RejectRecorded
  <1>2. UNCHANGED <<accepted, durable, txn, owed, live, entry, entered, batch>>
    BY <1>1 DEF node, store, keeper
  <1>3. Types /\ batch \in Seq(Calls) /\ accepted \in Nat /\ todo # <<>>
    BY <1>1 DEF Inv, Types, PageTypes, NodeTypes, Control
  <1>4. Grows
    BY <1>1, <1>2, <1>3 DEF Grows
  <1>5. PICK w, k : w = Who /\ k = Rec
    OBVIOUS
  <1>6. Call = <<w, k>> /\ Range(Tail(todo)) \subseteq Range(todo)
    BY <1>3, <1>5, CallFacts
  <1>7. page'.ack = page.ack /\ page'.recs \subseteq page.recs /\ Range(todo') \subseteq Range(todo)
    BY <1>1, <1>6
  <1>8. /\ StatesGood' /\ Chain' /\ FirstHandled' /\ DiskGrows /\ Entries' /\ FirstOrder' /\ KeeperTypes'
        /\ \A p, q : Worked(p, q) => Worked(p, q)'
    BY <1>1, <1>2, <1>3, <1>4, <1>7, SameStays
  <1>9. Worked(w, k)'
    BY <1>1, <1>6 DEF Worked, Has
  <1>10. pc \in {"records", "reject"} /\ pc' \in {"records", "reject"} /\ todo' = Tail(todo) /\ pc' = "records"
    BY <1>1
  <1>11. batch' \in Seq(Calls) /\ done' \subseteq done \cup {Call}
    BY <1>1, <1>2, <1>3
  <1>12. UNCHANGED <<node, msg, rung, reader, acks, then, page, handled1, failed, late, store>>
    BY <1>1
  <1> QED BY <1>3, <1>4, <1>6, <1>8, <1>9, <1>10, <1>11, <1>12, GoesOn

LEMMA RejectFailsStep == ASSUME Inv, RejectFails PROVE Inv'
  <1>1. /\ pc = "reject" /\ FailAt(Rec)
        /\ UNCHANGED <<node, msg, rung, reader, acks, then, handled1, late, keeper, store, past>>
    BY DEF RejectFails
  <1>2. UNCHANGED <<accepted, durable, txn, owed, live, entry, entered, batch, done, rejected, confirmed, blamed, undone>>
    BY <1>1 DEF node, store, keeper, past
  <1>3. Types /\ PageTypes /\ batch \in Seq(Calls) /\ accepted \in Nat /\ todo # <<>>
    BY <1>1 DEF Inv, Types, PageTypes, NodeTypes, Control
  <1>4. Grows
    BY <1>2, <1>3 DEF Grows
  <1>5. PICK k : k = Rec
    OBVIOUS
  <1>6. k \in 1 .. Rec /\ FailAt(k)
    BY <1>1, <1>3, <1>5, CallFacts
  <1>7. page'.ack = page.ack /\ page'.recs \subseteq page.recs /\ Range(todo') \subseteq Range(todo)
    <2>1. page' = [page EXCEPT !.recs = {}] /\ todo' = <<>>
      BY <1>6 DEF FailAt
    <2> QED BY <1>3, <2>1, RangeEmpty DEF PageTypes
  <1>8. /\ StatesGood' /\ Chain' /\ FirstHandled' /\ DiskGrows /\ Entries' /\ FirstOrder' /\ KeeperTypes'
        /\ \A p, q : Worked(p, q) => Worked(p, q)'
    BY <1>1, <1>2, <1>3, <1>4, <1>7, SameStays
  <1>9. StoreTypes' /\ durable.points \cup txn.points \cup undone \subseteq durable.points \cup txn'.points \cup undone'
    BY <1>1, <1>2, <1>3, Frames
  <1>10. UNCHANGED <<node, msg, rung, reader, acks, then, handled1, late, durable, done>> /\ batch' \in Seq(Calls)
    BY <1>1, <1>2, <1>3
  <1> QED BY <1>1, <1>3, <1>4, <1>6, <1>8, <1>9, <1>10, PageFails

-----------------------------------------------------------------------------
(* The buffer's transaction *)

LEMMA CleanIs ==
  /\ Clean.points = {} /\ DOMAIN Clean.saved = {} /\ \A p : Saved(Clean, p) = durable.saved[p]
  /\ durable' \in [points : SUBSET Records, saved : [Checkpointed -> State]] /\ txn' = Clean => StoreTypes'
  <1>1. Clean = [points |-> {}, saved |-> [p \in {} |-> Fresh]]
    BY DEF Clean
  <1>2. Clean.points = {} /\ Clean.saved = [p \in {} |-> Fresh] /\ Clean = [points |-> Clean.points, saved |-> Clean.saved]
    BY <1>1
  <1>3. DOMAIN Clean.saved = {}
    BY <1>2
  <1>4. Clean.saved = [p \in DOMAIN Clean.saved |-> Clean.saved[p]]
    BY <1>2
  <1>5. ASSUME durable' \in [points : SUBSET Records, saved : [Checkpointed -> State]], txn' = Clean PROVE StoreTypes'
    BY <1>2, <1>3, <1>4, <1>5 DEF StoreTypes
  <1> QED BY <1>2, <1>3, <1>5 DEF Saved

\* The producers' part of the invariant depends on these alone.
LEMMA PartsStay ==
  ASSUME Inv, UNCHANGED <<accepted, keeper, done, rejected, confirmed, blamed>>, undone \subseteq undone',
         page'.ack = page.ack
  PROVE  /\ Entries' /\ DoneReads' /\ KeeperTypes' /\ Grows
         /\ handled1' = handled1 => FirstHandled'
         /\ \A p, c, w : Good(p, c, w) => Good(p, c, w)'
         /\ \A p : StartOf(p)' = StartOf(p)
         /\ \A p, r : Worked(p, r) => Worked(p, r)'
  <1>1. Types /\ Entries /\ FirstHandled /\ DoneReads
    BY DEF Inv
  <1>2. UNCHANGED <<live, entry, entered, batch>>
    BY DEF keeper
  <1>3. Grows
    BY <1>1 DEF Grows, Types, NodeTypes
  <1>4. KeeperTypes' /\ DoneReads'
    BY <1>1, <1>2, Frames DEF DoneReads
  <1>5. \A p, c, r : Has(p, c, r) => Has(p, c, r)'
    BY DEF Has
  <1>6. \A p, r : (Needed(p, r)' <=> Needed(p, r)) /\ (Told(<<p, r>>)' <=> Told(<<p, r>>))
    BY DEF Needed, Told
  <1>7. \A p : StartOf(p)' = StartOf(p)
    BY <1>2 DEF StartOf
  <1>8. Entries'
    <2> SUFFICES ASSUME NEW p \in entered, entry[p].first # 0, NEW r \in 1 .. entry[p].first - 1, Needed(p, r)
                 PROVE  Has(p, entry[p].start, r)'
      BY <1>1, <1>2, <1>6 DEF Entries, Base
    <2>1. Has(p, entry[p].start, r)
      BY <1>1 DEF Entries
    <2> QED BY <1>2, <2>1 DEF Has
  <1>9. handled1' = handled1 => FirstHandled'
    <2> SUFFICES ASSUME handled1' = handled1, NEW r \in 1 .. handled1 - 1, NEW p \in Producers, Needed(p, r)
                 PROVE  Told(<<p, r>>)' /\ (p \in Checkpointed => Has(p, StartOf(p), r)')
      BY <1>1, <1>2, <1>6 DEF FirstHandled
    <2>1. Told(<<p, r>>) /\ (p \in Checkpointed => Has(p, StartOf(p), r))
      BY <1>1 DEF FirstHandled
    <2>2. p \in Checkpointed => Has(p, StartOf(p), r)'
      BY <1>7, <2>1 DEF Has
    <2> QED BY <1>6, <2>1, <2>2
  <1>10. \A p, c, w : Good(p, c, w) => Good(p, c, w)'
    BY DEF Good, Exact, Needed
  <1>11. \A p, r : Worked(p, r) => Worked(p, r)'
    BY <1>2 DEF Worked, Has
  <1> QED BY <1>3, <1>4, <1>7, <1>8, <1>9, <1>10, <1>11

\* A rollback: what it takes is known.
LEMMA RollStays ==
  ASSUME Inv, RollBack, UNCHANGED <<accepted, keeper, durable, done, rejected, confirmed, blamed>>, page'.ack = page.ack
  PROVE  /\ StatesGood' /\ Chain' /\ StoreTypes' /\ DiskGrows /\ undone \subseteq undone'
         /\ durable.points \cup txn.points \cup undone \subseteq durable.points \cup txn'.points \cup undone'
  <1>1. Types /\ StoreTypes /\ StatesGood /\ Chain
    BY DEF Inv, Types
  <1>2. /\ undone' = undone \cup Open /\ txn' = Clean /\ owed' = FALSE /\ undone \subseteq undone'
        /\ txn.points \subseteq durable.points \cup undone'
        /\ \A p \in DOMAIN txn.saved : Range(txn.saved[p].st) \subseteq Range(durable.saved[p].st) \cup undone'
    BY DEF RollBack, Open
  <1>3. StoreTypes' /\ DOMAIN txn'.saved = {} /\ txn'.points = {}
    BY <1>1, <1>2, CleanIs DEF StoreTypes
  <1>4. /\ \A p, c, w : Good(p, c, w) => Good(p, c, w)'
        /\ \A p : StartOf(p)' = StartOf(p)
    BY <1>2, PartsStay
  <1>5. StatesGood'
    <2> SUFFICES ASSUME NEW p \in Checkpointed
                 PROVE  Good(p, live[p], Range(batch))' /\ Good(p, durable.saved[p], {})' /\ Good(p, StartOf(p), {})'
      BY <1>3 DEF StatesGood
    <2>1. PICK a, b, d, w : a = live[p] /\ b = durable.saved[p] /\ d = StartOf(p) /\ w = Range(batch)
      OBVIOUS
    <2>2. Good(p, a, w) /\ Good(p, b, {}) /\ Good(p, d, {})
      BY <1>1, <2>1 DEF StatesGood
    <2>3. Good(p, a, w)' /\ Good(p, b, {})' /\ Good(p, d, {})'
      BY <1>4, <2>2
    <2>4. live'[p] = a /\ durable'.saved[p] = b /\ Range(batch') = w /\ StartOf(p)' = d
      BY <1>4, <2>1 DEF keeper
    <2> QED BY <2>3, <2>4 DEF Good, Exact, Needed
  <1>6. Chain'
    <2> SUFFICES ASSUME NEW p \in Checkpointed
                 PROVE  /\ Range(durable.saved[p].st) \subseteq Range(StartOf(p).st)
                        /\ Range(StartOf(p).st) \subseteq Range(durable.saved[p].st) \cup undone'
      <3>1. \A p : Saved(txn, p)' = durable.saved[p]
        BY <1>2, <1>3 DEF Saved
      <3> QED BY <1>4, <3>1 DEF Chain
    <2>1. Range(durable.saved[p].st) \subseteq Range(StartOf(p).st)
      BY <1>1 DEF Chain
    <2>2. ASSUME NEW x \in Range(StartOf(p).st) PROVE x \in Range(durable.saved[p].st) \cup undone'
      <3>1. x \in Range(Saved(txn, p).st) \/ x \in undone
        BY <1>1, <2>2 DEF Chain
      <3>2. CASE p \in DOMAIN txn.saved /\ x \in Range(Saved(txn, p).st)
        <4>1. x \in Range(txn.saved[p].st)
          BY <3>2 DEF Saved
        <4> QED BY <1>2, <3>2, <4>1
      <3>3. CASE p \notin DOMAIN txn.saved /\ x \in Range(Saved(txn, p).st)
        BY <3>3 DEF Saved
      <3> QED BY <1>2, <3>1, <3>2, <3>3
    <2> QED BY <2>1, <2>2
  <1>7. DiskGrows
    <2>1. /\ Disk'.points = durable.points /\ \A p \in Checkpointed : Disk'.saved[p] = durable.saved[p]
          /\ Disk.points \subseteq durable.points \cup txn.points
      BY <1>2, DiskIs
    <2>2. ASSUME NEW p \in Checkpointed PROVE Range(Disk.saved[p].st) \subseteq Range(durable.saved[p].st) \cup undone'
      BY <1>2, DiskIs DEF Saved
    <2> QED BY <1>2, <2>1, <2>2 DEF DiskGrows
  <1>8. durable.points \cup txn.points \cup undone \subseteq durable.points \cup txn'.points \cup undone'
    BY <1>2
  <1> QED BY <1>2, <1>3, <1>5, <1>6, <1>7, <1>8

\* A commit: what the transaction holds is on disk.
LEMMA CommitStays ==
  ASSUME Inv, Commit, UNCHANGED <<accepted, keeper, past>>, page'.ack = page.ack
  PROVE  /\ StatesGood' /\ Chain' /\ StoreTypes' /\ DiskGrows
         /\ Disk'.points = durable.points \cup txn.points
         /\ \A p \in Checkpointed : Disk'.saved[p] = Saved(txn, p)
         /\ durable'.points = durable.points \cup txn.points
  <1>0. durable' = Committed(txn) /\ txn' = Clean /\ owed' = FALSE
    BY DEF Commit
  <1>1. Types /\ StoreTypes /\ StatesGood /\ Chain
    BY DEF Inv, Types
  <1>2. UNCHANGED <<live, entry, entered, batch, done, rejected, confirmed, blamed, undone>>
    BY DEF keeper, past
  <1>3. durable'.points = durable.points \cup txn.points /\ \A p \in Checkpointed : durable'.saved[p] = Saved(txn, p)
    BY <1>0 DEF Committed
  <1>4. \A p \in Checkpointed : Saved(txn, p) \in State /\ Good(p, Saved(txn, p), {})
    BY <1>1 DEF StoreTypes, StatesGood, Saved
  <1>5. durable' \in [points : SUBSET Records, saved : [Checkpointed -> State]]
    <2>1. [p \in Checkpointed |-> Saved(txn, p)] \in [Checkpointed -> State]
      BY <1>4
    <2> QED BY <1>0, <1>1, <2>1 DEF Committed, StoreTypes
  <1>6. StoreTypes' /\ DOMAIN txn'.saved = {}
    BY <1>0, <1>5, CleanIs
  <1>7. /\ \A p, c, w : Good(p, c, w) => Good(p, c, w)'
        /\ \A p : StartOf(p)' = StartOf(p)
    BY <1>2, PartsStay
  <1>8. StatesGood'
    <2> SUFFICES ASSUME NEW p \in Checkpointed
                 PROVE  Good(p, live[p], Range(batch))' /\ Good(p, durable.saved[p], {})' /\ Good(p, StartOf(p), {})'
      BY <1>6 DEF StatesGood
    <2>1. PICK a, b, d, w : a = live[p] /\ b = Saved(txn, p) /\ d = StartOf(p) /\ w = Range(batch)
      OBVIOUS
    <2>2. Good(p, a, w) /\ Good(p, b, {}) /\ Good(p, d, {})
      BY <1>1, <1>4, <2>1 DEF StatesGood
    <2>3. Good(p, a, w)' /\ Good(p, b, {})' /\ Good(p, d, {})'
      BY <1>7, <2>2
    <2>4. live'[p] = a /\ durable'.saved[p] = b /\ Range(batch') = w /\ StartOf(p)' = d
      BY <1>2, <1>3, <1>7, <2>1
    <2> QED BY <2>3, <2>4 DEF Good, Exact, Needed
  <1>9. Chain'
    <2>1. \A p \in Checkpointed : Saved(txn, p)' = durable'.saved[p]
      BY <1>6 DEF Saved
    <2> QED BY <1>1, <1>2, <1>3, <1>7, <2>1 DEF Chain
  <1>10. /\ Disk'.points = durable.points \cup txn.points
         /\ \A p \in Checkpointed : Disk'.saved[p] = Saved(txn, p)
    BY <1>0, <1>3, DiskIs
  <1>11. DiskGrows
    BY <1>1, <1>10, DiskIs DEF DiskGrows, Chain
  <1> QED BY <1>3, <1>6, <1>8, <1>9, <1>10, <1>11

\* A page that leaves its commit to another thread.
LEMMA OweStays ==
  ASSUME Inv, owed' = TRUE, UNCHANGED <<durable, txn, accepted, keeper, past>>, page'.ack = page.ack
  PROVE  /\ StatesGood' /\ Chain' /\ StoreTypes' /\ DiskGrows
         /\ Disk'.points = durable.points \cup txn.points
         /\ \A p \in Checkpointed : Disk'.saved[p] = Saved(txn, p)
  <1>1. Types /\ StoreTypes /\ StatesGood /\ Chain
    BY DEF Inv, Types
  <1>2. UNCHANGED <<live, entry, entered, batch, done, rejected, confirmed, blamed, undone>>
    BY DEF keeper, past
  <1>3. /\ \A p, c, w : Good(p, c, w)' <=> Good(p, c, w)
        /\ \A p : StartOf(p)' = StartOf(p) /\ Saved(txn, p)' = Saved(txn, p)
    BY <1>2 DEF Good, Exact, Needed, StartOf, Saved
  <1>4. StatesGood'
    <2> SUFFICES ASSUME NEW p \in Checkpointed
                 PROVE  /\ Good(p, live[p], Range(batch))' /\ Good(p, durable.saved[p], {})'
                        /\ (p \in DOMAIN txn'.saved => Good(p, txn.saved[p], {})') /\ Good(p, StartOf(p), {})'
      BY DEF StatesGood
    <2>1. PICK a, b, c, d, w : a = live[p] /\ b = durable.saved[p] /\ c = txn.saved[p] /\ d = StartOf(p) /\ w = Range(batch)
      OBVIOUS
    <2>2. Good(p, a, w) /\ Good(p, b, {}) /\ (p \in DOMAIN txn.saved => Good(p, c, {})) /\ Good(p, d, {})
      BY <1>1, <2>1 DEF StatesGood
    <2>3. Good(p, a, w)' /\ Good(p, b, {})' /\ (p \in DOMAIN txn.saved => Good(p, c, {})') /\ Good(p, d, {})'
      BY <1>3, <2>2
    <2>4. StartOf(p)' = d
      BY <1>3, <2>1
    <2> QED BY <1>2, <2>1, <2>3, <2>4 DEF Good, Exact, Needed
  <1>5. Chain'
    BY <1>1, <1>2, <1>3 DEF Chain
  <1>6. StoreTypes'
    BY <1>1 DEF StoreTypes
  <1>7. Disk'.points = durable.points \cup txn.points /\ \A p \in Checkpointed : Disk'.saved[p] = Saved(txn, p)
    BY <1>3, DiskIs
  <1>8. DiskGrows
    BY <1>1, <1>7, DiskIs DEF DiskGrows, Chain
  <1> QED BY <1>4, <1>5, <1>6, <1>7, <1>8

LEMMA QueueFullStep == ASSUME Inv, QueueFull PROVE Inv'
  <1>1. /\ pc = "records" /\ todo # <<>> /\ RollBack /\ FailAt(Rec)
        /\ UNCHANGED <<node, msg, rung, reader, acks, then, handled1, late, keeper, durable, done, rejected, confirmed, blamed>>
    BY DEF QueueFull, Calling
  <1>2. UNCHANGED <<accepted, live, entry, entered, batch>>
    BY <1>1 DEF node, keeper
  <1>3. Types /\ PageTypes /\ batch \in Seq(Calls)
    BY DEF Inv, Types, PageTypes
  <1>4. PICK k : k = Rec
    OBVIOUS
  <1>5. k \in 1 .. Rec /\ FailAt(k)
    BY <1>1, <1>4, CallFacts
  <1>6. page' = [page EXCEPT !.recs = {}] /\ todo' = <<>>
    BY <1>5 DEF FailAt
  <1>7. page'.ack = page.ack /\ page'.recs = {}
    BY <1>3, <1>6 DEF PageTypes
  <1>8. /\ StatesGood' /\ Chain' /\ StoreTypes' /\ DiskGrows /\ undone \subseteq undone'
        /\ durable.points \cup txn.points \cup undone \subseteq durable.points \cup txn'.points \cup undone'
    BY <1>1, <1>2, <1>7, RollStays
  <1>9. /\ Entries' /\ KeeperTypes' /\ Grows /\ FirstHandled' /\ \A p, r : Worked(p, r) => Worked(p, r)'
    BY <1>1, <1>2, <1>7, <1>8, PartsStay
  <1>10. FirstOrder'
    BY <1>6, <1>7, RangeEmpty DEF FirstOrder
  <1>11. batch' \in Seq(Calls) /\ UNCHANGED <<node, msg, rung, reader, acks, then, handled1, late, durable, done>>
    BY <1>1, <1>2, <1>3
  <1> QED BY <1>1, <1>5, <1>8, <1>9, <1>10, <1>11, PageFails

\* Another thread moves the loop's transaction, and nothing else.
LEMMA StoreMoves ==
  ASSUME Inv, UNCHANGED <<node, msg, rung, reader, acks, flow, keeper, done, rejected, confirmed, blamed>>,
         StatesGood', Chain', StoreTypes', DiskGrows, undone \subseteq undone',
         durable.points \cup txn.points \cup undone \subseteq durable'.points \cup txn'.points \cup undone',
         pc \notin InPage => (txn' = Clean \/ owed') /\ (owed' => deferring')
  PROVE  Inv'
  <1>2. /\ UNCHANGED <<head, accepted, cursor, ackSend, ackWant, nodeAhead, nextFrom, prefetch, live, entry, entered, batch>>
        /\ UNCHANGED <<pc, then, page, todo, handled1, failed, late>>
    BY DEF node, keeper, flow, acks, reader
  <1>3. Types /\ NodeTypes /\ PageTypes /\ Control /\ PageCovered /\ TodoOrder /\ FirstOrder
    BY DEF Inv, Types
  <1>6. /\ Entries' /\ DoneReads' /\ KeeperTypes' /\ Grows /\ FirstHandled' /\ \A p, r : Worked(p, r) => Worked(p, r)'
    BY <1>2, PartsStay
  <1>7. CursorSafe' /\ Ahead'
    <2>1. CursorSafe'
      BY <1>2, <1>6, CursorStays
    <2>2. head' \in Nat /\ head <= head' /\ cursor' \in Nat /\ cursor <= cursor'
      BY <1>2, <1>3, Sizes DEF NodeTypes
    <2> QED BY <1>2, <2>1, <2>2, AheadStays
  <1>8. PageTypes' /\ NodeTypes' /\ ReaderTypes'
    BY <1>2, <1>3, Frames DEF reader
  <1>9. Control'
    <2>1. Clean' = Clean
      BY DEF Clean
    <2> QED BY <1>2, <1>3, <2>1 DEF Control
  <1>10. TodoOrder' /\ FirstOrder'
    BY <1>2, <1>3 DEF TodoOrder, FirstOrder
  <1>11. PageCovered'
    <2>1. \A r : Under(r) => Under(r)'
      BY <1>2, <1>6 DEF Under
    <2>2. \A r : Covers(r)' <=> Covers(r)
      BY <1>2 DEF Covers, Failure
    <2>3. Failure' = Failure
      BY <1>2 DEF Failure
    <2>4. \A r \in 1 .. page.ack : Past(r) => Past(r)'
      BY <1>3, <1>6, PastStays DEF PageTypes
    <2> QED BY <1>2, <1>3, <2>1, <2>2, <2>3, <2>4 DEF PageCovered
  <1> QED BY <1>6, <1>7, <1>8, <1>9, <1>10, <1>11, InvParts

LEMMA OtherStep == ASSUME Inv, OtherCommits \/ OtherRollsBack \/ OtherDefers \/ OtherEnds PROVE Inv'
  <1>1. /\ UNCHANGED <<node, msg, rung, reader, acks, flow, keeper, done, rejected, confirmed, blamed>>
        /\ UNCHANGED <<accepted, pc>> /\ page'.ack = page.ack
    BY DEF OtherCommits, OtherRollsBack, OtherDefers, OtherEnds, past, node, flow
  <1>2. Control /\ StoreTypes /\ StatesGood /\ Chain
    BY DEF Inv, Types
  <1>3. ASSUME Commit, UNCHANGED past PROVE Inv'
    <2>1. undone' = undone /\ txn' = Clean /\ owed' = FALSE
      BY <1>3 DEF past, Commit
    <2>2. StatesGood' /\ Chain' /\ StoreTypes' /\ DiskGrows /\ durable'.points = durable.points \cup txn.points
      BY <1>1, <1>3, CommitStays
    <2> QED BY <1>1, <2>1, <2>2, StoreMoves
  <1>4. CASE OtherCommits
    BY <1>3, <1>4 DEF OtherCommits
  <1>5. CASE OtherRollsBack
    <2>1. RollBack /\ UNCHANGED durable /\ txn' = Clean /\ owed' = FALSE
      BY <1>5 DEF OtherRollsBack, RollBack
    <2>2. /\ StatesGood' /\ Chain' /\ StoreTypes' /\ DiskGrows /\ undone \subseteq undone'
          /\ durable.points \cup txn.points \cup undone \subseteq durable.points \cup txn'.points \cup undone'
      BY <1>1, <2>1, RollStays
    <2> QED BY <1>1, <2>1, <2>2, StoreMoves
  <1>6. ASSUME UNCHANGED <<durable, txn, owed, past>>, pc \notin InPage => (owed' => deferring') PROVE Inv'
    <2>1. undone' = undone /\ (pc \notin InPage => txn' = Clean \/ owed')
      BY <1>2, <1>6 DEF past, Control
    <2>2. StatesGood' /\ Chain' /\ StoreTypes' /\ DiskGrows
      <3>1. UNCHANGED <<live, entry, entered, batch, undone, accepted, done, rejected, confirmed, blamed>>
        BY <1>1, <1>6 DEF keeper, past
      <3>2. StoreTypes' /\ DiskGrows
        BY <1>2, <1>6, DiskStays DEF StoreTypes
      <3>3. StatesGood' /\ Chain'
        BY <1>2, <1>6, <3>1, KeepStays, <1>1
      <3> QED BY <3>2, <3>3
    <2> QED BY <1>1, <1>6, <2>1, <2>2, StoreMoves
  <1>7. CASE OtherDefers
    <2>1. UNCHANGED <<durable, txn, owed, past>> /\ deferring' = TRUE
      BY <1>7 DEF OtherDefers
    <2> QED BY <1>6, <2>1
  <1>8. CASE OtherEnds
    <2>1. CASE pc \in InPage
      BY <1>6, <1>8, <2>1 DEF OtherEnds
    <2>2. CASE pc \notin InPage
      BY <1>3, <1>8, <2>2 DEF OtherEnds
    <2> QED BY <2>1, <2>2
  <1> QED BY <1>4, <1>5, <1>7, <1>8

-----------------------------------------------------------------------------
(* The page's end *)

LEMMA CommitStep == ASSUME Inv, CommitPage PROVE Inv'
  <1>1. /\ pc = "commit" \/ (pc = "finish" /\ entered = {})
        /\ IF deferring THEN owed' = TRUE /\ UNCHANGED <<durable, txn>> ELSE Commit
        /\ failed' = Failure /\ late' = 0 /\ handled1' = 0 /\ deferring' = deferring
        /\ IF failed' # 0 THEN RestartThen("ackbefore") ELSE pc' = "ack" /\ UNCHANGED then
        /\ UNCHANGED <<node, msg, rung, reader, acks, page, todo, keeper, past>>
    BY DEF CommitPage, Failure
  <1>2. /\ UNCHANGED <<head, cursor, nodeAhead, accepted, ackSend, ackWant, nextFrom, prefetch, live, entry, entered, batch>>
        /\ UNCHANGED <<done, rejected, confirmed, blamed, undone>>
    BY <1>1 DEF node, keeper, past, acks, reader
  <1>3. Types /\ PageTypes /\ Control /\ PageCovered /\ TodoOrder /\ FirstOrder /\ CursorSafe /\ Ahead /\ Chain
    BY DEF Inv, Types
  <1>4. entered = {} /\ batch = <<>> /\ todo = <<>> /\ page.recs = {} /\ pc \in InPage
    BY <1>1, <1>3 DEF Control, InPage
  <1>5. /\ StatesGood' /\ Chain' /\ StoreTypes' /\ DiskGrows
        /\ Disk'.points = durable.points \cup txn.points
        /\ \A p \in Checkpointed : Disk'.saved[p] = Saved(txn, p)
        /\ (txn' = Clean \/ owed') /\ (owed' => deferring')
    <2>1. CASE deferring
      BY <1>1, <1>2, <2>1, OweStays
    <2>2. CASE ~deferring
      BY <1>1, <1>2, <2>2, CommitStays DEF Commit
    <2> QED BY <2>1, <2>2
  <1>6. Entries' /\ DoneReads' /\ KeeperTypes' /\ Grows
    BY <1>1, <1>2, PartsStay
  <1>7. page.ack \in 0 .. head /\ head \in Nat /\ failed \in 0 .. head /\ late \in 0 .. head /\ Failure <= page.ack
    BY <1>3, <1>4, Sizes DEF Types, NodeTypes, PageTypes, PageCovered
  <1>8. Failure \in 0 .. head
    BY <1>7 DEF Failure, Earlier
  <1>9. ASSUME NEW r \in 1 .. page.ack, Covers(r) PROVE Past(r)'
    <2>1. Under(r)
      BY <1>3, <1>4, <1>9 DEF PageCovered
    <2> SUFFICES ASSUME Always(r), accepted < r
                 PROVE  /\ r \in Disk'.points \cup undone'
                        /\ \A p \in Producers : Reads(p, r) =>
                              Told(<<p, r>>)' /\ (p \in Checkpointed => Has(p, Disk.saved[p], r)')
      BY <1>2 DEF Past
    <2>2. r \in Disk'.points \cup undone'
      BY <1>2, <1>5, <2>1 DEF Under
    <2>3. ASSUME NEW p \in Producers, Reads(p, r)
          PROVE  Told(<<p, r>>)' /\ (p \in Checkpointed => Has(p, Disk.saved[p], r)')
      <3>1. Worked(p, r)
        BY <1>4, <2>1, <2>3, RangeEmpty DEF Under
      <3>2. Told(<<p, r>>)'
        BY <1>2, <1>4, <3>1, RangeEmpty DEF Worked, Told
      <3>3. ASSUME p \in Checkpointed PROVE Has(p, Disk.saved[p], r)'
        <4>1. Has(p, live[p], r)
          BY <3>1, <3>3 DEF Worked
        <4>2. Range(live[p].st) \subseteq Range(Saved(txn, p).st) \cup undone
          BY <1>3, <1>4, <3>3 DEF Chain, StartOf
        <4> QED BY <1>2, <1>5, <3>3, <4>1, <4>2 DEF Has
      <3> QED BY <3>2, <3>3
    <2> QED BY <2>2, <2>3
  <1>10. \A n \in Int : Safe(n) => Safe(n)'
    BY <1>5, <1>6, SafeStays
  <1>11. CursorSafe' /\ pc' \in {"ack", "restart"} /\ (pc' = "restart" => then' = "ackbefore" /\ failed' # 0)
         /\ then' \in {"top", "fetch", "gapwait", "ackbefore"}
    <2>1. Safe(cursor)' /\ Safe(ackSend)' /\ Safe(ackWant)'
      <3>1. cursor \in Int /\ ackSend \in Int /\ ackWant \in Int
        BY <1>3, Sizes DEF Types, NodeTypes, ReaderTypes
      <3> QED BY <1>2, <1>3, <1>10, <3>1 DEF CursorSafe, Safe, Past, Told, Has
    <2>2. then \in {"top", "fetch", "gapwait", "ackbefore"}
      BY <1>3 DEF Control
    <2>3. CASE Failure = 0
      <3>1. pc' = "ack" /\ then' = then
        BY <1>1, <2>3
      <3>2. Safe(page.ack)'
        <4>1. \A r \in 1 .. page.ack : Past(r)'
          BY <1>9, <2>3 DEF Covers
        <4> QED BY <1>1, <4>1 DEF Safe
      <3> QED BY <2>1, <2>2, <3>1, <3>2 DEF CursorSafe
    <2>4. CASE Failure # 0
      <3>1. pc' = "restart" /\ then' = "ackbefore" /\ failed' # 0
        BY <1>1, <2>4 DEF RestartThen
      <3>2. Safe(failed - 1)'
        <4>1. PICK n \in Nat : n = failed'
          BY <1>1, <1>8
        <4>2. \A r \in 1 .. n - 1 : r \in 1 .. page.ack /\ Covers(r)
          BY <1>1, <1>7, <4>1 DEF Covers
        <4>3. \A r \in 1 .. n - 1 : Past(r)'
          BY <1>9, <4>2
        <4> QED BY <4>1, <4>3 DEF Safe
      <3> QED BY <2>1, <3>1, <3>2 DEF CursorSafe
    <2> QED BY <2>3, <2>4
  <1>12. Ahead'
    <2>1. Whole(prefetch.page, prefetch.page.start, prefetch.ver)' <=> Whole(prefetch.page, prefetch.page.start, prefetch.ver)
      BY <1>2 DEF Whole
    <2>2. nextFrom <= page.ack + 1
      BY <1>3, <1>4 DEF Ahead
    <2> QED BY <1>1, <1>2, <1>3, <1>11, <2>1, <2>2 DEF Ahead, Larger, InPage
  <1>13. NodeTypes' /\ ReaderTypes'
    BY <1>1, <1>3, Frames DEF node, reader
  <1>14. PageTypes'
    <2>1. failed' \in 0 .. head /\ late' \in 0 .. head /\ handled1' \in 0 .. head
      BY <1>1, <1>7, <1>8
    <2> QED BY <1>1, <1>2, <1>3, <2>1 DEF PageTypes
  <1>15. Control'
    BY <1>1, <1>2, <1>4, <1>5, <1>11 DEF Control, InPage, Clean
  <1>16. PageCovered'
    BY <1>11 DEF PageCovered, InPage
  <1>17. TodoOrder' /\ FirstOrder'
    BY <1>1, <1>2, <1>4, RangeEmpty DEF TodoOrder, FirstOrder
  <1>18. FirstHandled'
    BY <1>1, <1>2, <1>4 DEF FirstHandled
  <1> QED BY <1>5, <1>6, <1>11, <1>12, <1>13, <1>14, <1>15, <1>16, <1>17, <1>18, InvParts

\* The page's writes are confirmed, or not: the producers go back to its start.
LEMMA SettledStep == ASSUME Inv, SettleSucceeds PROVE Inv'
  <1>1. /\ pc = "settle" /\ pc' = "finish" /\ confirmed' = confirmed \cup Range(batch) /\ batch' = <<>>
        /\ UNCHANGED <<node, msg, rung, reader, acks, then, page, todo, handled1, failed, late, live, entry, entered, store>>
        /\ UNCHANGED <<done, rejected, blamed, undone>>
    BY DEF SettleSucceeds
  <1>2. UNCHANGED <<head, accepted, durable, txn, owed>>
    BY <1>1 DEF node, store
  <1>3. Types /\ PageTypes /\ Control /\ PageCovered /\ TodoOrder /\ FirstOrder /\ StatesGood /\ Entries /\ DoneReads
        /\ FirstHandled /\ Chain
    BY DEF Inv, Types
  <1>4. Grows /\ DiskGrows
    BY <1>1, <1>2, <1>3, DiskStays DEF Grows, Types, NodeTypes
  <1>5. Range(batch') = {} /\ Range(batch) \subseteq confirmed'
    BY <1>1, RangeEmpty
  <1>6. StatesGood'
    <2> SUFFICES ASSUME NEW p \in Checkpointed
                 PROVE  /\ Good(p, live[p], Range(batch))' /\ Good(p, durable.saved[p], {})'
                        /\ (p \in DOMAIN txn'.saved => Good(p, txn.saved[p], {})') /\ Good(p, StartOf(p), {})'
      BY DEF StatesGood
    <2>1. PICK a, b, c, d, w : a = live[p] /\ b = durable.saved[p] /\ c = txn.saved[p] /\ d = StartOf(p) /\ w = Range(batch)
      OBVIOUS
    <2>2. Good(p, a, w) /\ Good(p, b, {}) /\ (p \in DOMAIN txn.saved => Good(p, c, {})) /\ Good(p, d, {})
      BY <1>3, <2>1 DEF StatesGood
    <2>3. a.off \in Nat /\ b.off \in Nat /\ (p \in DOMAIN txn.saved => c.off \in Nat) /\ d.off \in Nat
      <3>1. \A s \in State : s.off \in Nat
        BY Sizes DEF State
      <3> QED BY <1>3, <2>1, <3>1 DEF Types, KeeperTypes, StoreTypes, Keep, StartOf
    <2>4. Good(p, a, {})' /\ Good(p, b, {})' /\ (p \in DOMAIN txn.saved => Good(p, c, {})') /\ Good(p, d, {})'
      BY <1>4, <1>5, <2>1, <2>2, <2>3, GoodStays
    <2>5. live'[p] = a /\ durable'.saved[p] = b /\ txn' = txn /\ txn'.saved[p] = c /\ StartOf(p)' = d /\ Range(batch') = {}
      BY <1>1, <1>2, <1>5, <2>1 DEF StartOf
    <2> QED BY <2>4, <2>5 DEF Good, Exact, Needed
  <1>7. Chain'
    BY <1>1, <1>2, <1>3 DEF Chain, Saved, StartOf
  <1>8. Entries'
    BY <1>1, <1>2, <1>3 DEF Entries, Base, Needed, Has
  <1>9. FirstHandled'
    BY <1>1, <1>2, <1>3 DEF FirstHandled, Needed, Told, Has, StartOf
  <1>10. KeeperTypes' /\ StoreTypes' /\ DoneReads' /\ TodoOrder' /\ FirstOrder'
    BY <1>1, <1>2, <1>3, Frames DEF DoneReads, TodoOrder, FirstOrder
  <1>11. NodeTypes' /\ ReaderTypes' /\ CursorSafe' /\ Ahead'
    BY <1>1, <1>4, PageFrame DEF InPage
  <1>12. PageTypes'
    BY <1>1, <1>2, <1>3 DEF PageTypes
  <1>13. Control'
    BY <1>1, <1>2, <1>3 DEF Control, InPage
  <1>14. PageCovered'
    <2>1. \A p, r : Worked(p, r) => Worked(p, r)'
      BY <1>1, <1>5 DEF Worked, Has
    <2>2. \A r : Under(r) => Under(r)'
      BY <1>1, <1>2, <2>1 DEF Under
    <2>3. \A r : Covers(r)' <=> Covers(r)
      BY <1>1 DEF Covers, Failure
    <2>4. Failure' = Failure
      BY <1>1 DEF Failure
    <2> QED BY <1>1, <1>3, <2>2, <2>3, <2>4 DEF PageCovered, InPage
  <1> QED BY <1>6, <1>7, <1>8, <1>9, <1>10, <1>11, <1>12, <1>13, <1>14, InvParts

LEMMA FailureBefore ==
  ASSUME NEW f \in Nat, NEW a \in Nat, NEW b \in Nat, b # 0
  PROVE  /\ Earlier(a, b) \in {a, b} /\ Earlier(a, b) # 0
         /\ \A r \in Nat : Earlier(f, Earlier(a, b)) = 0 \/ r < Earlier(f, Earlier(a, b)) =>
               r < b /\ (Earlier(f, a) = 0 \/ r < Earlier(f, a))
         /\ Earlier(f, Earlier(a, b)) \in {Earlier(f, a), b}
  BY DEF Earlier

LEMMA UnsettledStep == ASSUME Inv, SettleFails PROVE Inv'
  <1>1. PICK ok \in SUBSET Range(batch) : ok # Range(batch) /\ confirmed' = confirmed \cup ok
    BY DEF SettleFails
  <1>2. /\ pc = "settle" /\ pc' = "finish" /\ batch' = <<>> /\ late' = Earlier(late, handled1)
        /\ live' = [p \in Checkpointed |-> IF p \in entered THEN entry[p].start ELSE live[p]]
        /\ entry' = [p \in Checkpointed |-> IF p \in entered THEN [ToStart(entry[p]) EXCEPT !.first = 0] ELSE entry[p]]
        /\ UNCHANGED <<node, msg, rung, reader, acks, then, page, todo, handled1, failed, entered, store>>
        /\ UNCHANGED <<done, rejected, blamed, undone>>
    BY DEF SettleFails
  <1>3. UNCHANGED <<head, accepted, durable, txn, owed>>
    BY <1>2 DEF node, store
  <1>4. Types /\ PageTypes /\ KeeperTypes /\ Control /\ PageCovered /\ TodoOrder /\ FirstOrder /\ StatesGood /\ Entries
        /\ DoneReads /\ FirstHandled /\ Chain
    BY DEF Inv, Types
  <1>5. Grows /\ DiskGrows
    BY <1>1, <1>2, <1>3, <1>4, DiskStays DEF Grows, Types, NodeTypes
  <1>6. /\ head \in Nat /\ page.ack \in 0 .. head /\ failed \in 0 .. head /\ late \in 0 .. head /\ handled1 \in 1 .. head
        /\ handled1 <= page.ack
    <2>1. batch # <<>>
      BY <1>1, RangeEmpty
    <2> QED BY <1>4, <2>1, Sizes DEF Types, NodeTypes, PageTypes, FirstHandled
  <1>7. ASSUME NEW p \in Checkpointed
        PROVE  /\ live'[p] = StartOf(p) /\ StartOf(p)' = StartOf(p) /\ entry'[p] \in Keep /\ StartOf(p) \in State
               /\ p \in entered => /\ entry'[p].first = 0 /\ entry'[p].start = StartOf(p)
                                   /\ entry'[p].base = StartOf(p) /\ entry'[p].since = <<>>
    <2>1. CASE p \in entered
      <3>1. PICK e \in Keep : e = entry[p]
        BY <1>4 DEF KeeperTypes
      <3>2. ToStart(e) = [first |-> e.first, start |-> e.start, base |-> e.start, since |-> <<>>]
        <4>1. PICK f, s, b, c : e = [first |-> f, start |-> s, base |-> b, since |-> c]
          BY DEF Keep
        <4>2. e.start = s /\ e.first = f
          BY <4>1
        <4>3. ToStart(e) = [[first |-> f, start |-> s, base |-> b, since |-> c] EXCEPT !.base = s, !.since = <<>>]
          BY ONLY <4>1, <4>2, Zenon DEF ToStart
        <4> QED BY <4>2, <4>3
      <3>3. [ToStart(e) EXCEPT !.first = 0] = [first |-> 0, start |-> e.start, base |-> e.start, since |-> <<>>]
        BY <3>2
      <3>4. entry'[p] = [first |-> 0, start |-> e.start, base |-> e.start, since |-> <<>>]
        BY <1>2, <2>1, <3>1, <3>3
      <3>5. entry'[p] \in Keep
        BY <3>4, Sizes DEF Keep
      <3>6. p \in entered' /\ live'[p] = e.start /\ StartOf(p) = e.start
        BY <1>2, <2>1, <3>1 DEF StartOf
      <3> QED BY <1>2, <2>1, <3>4, <3>5, <3>6 DEF StartOf, Keep
    <2>2. CASE p \notin entered
      BY <1>2, <1>4, <2>2 DEF StartOf, KeeperTypes
    <2> QED BY <2>1, <2>2
  <1>8. KeeperTypes'
    <2>1. live' \in [Checkpointed -> State]
      <3>1. \A p \in Checkpointed : live'[p] \in State
        BY <1>7
      <3> QED BY <1>2, <3>1
    <2>2. entry' \in [Checkpointed -> Keep]
      <3>1. \A p \in Checkpointed : entry'[p] \in Keep
        BY <1>7
      <3> QED BY <1>2, <3>1
    <2> QED BY <1>2, <1>4, <2>1, <2>2 DEF KeeperTypes
  <1>9. Range(batch') = {}
    BY <1>2, RangeEmpty
  <1>10. StatesGood'
    <2> SUFFICES ASSUME NEW p \in Checkpointed
                 PROVE  /\ Good(p, live[p], Range(batch))' /\ Good(p, durable.saved[p], {})'
                        /\ (p \in DOMAIN txn'.saved => Good(p, txn.saved[p], {})') /\ Good(p, StartOf(p), {})'
      BY DEF StatesGood
    <2>1. PICK b, c, d : b = durable.saved[p] /\ c = txn.saved[p] /\ d = StartOf(p)
      OBVIOUS
    <2>2. Good(p, b, {}) /\ (p \in DOMAIN txn.saved => Good(p, c, {})) /\ Good(p, d, {})
      BY <1>4, <2>1 DEF StatesGood
    <2>3. b.off \in Nat /\ (p \in DOMAIN txn.saved => c.off \in Nat) /\ d.off \in Nat
      <3>1. \A s \in State : s.off \in Nat
        BY Sizes DEF State
      <3> QED BY <1>4, <1>7, <2>1, <3>1 DEF Types, StoreTypes
    <2>4. Good(p, b, {})' /\ (p \in DOMAIN txn.saved => Good(p, c, {})') /\ Good(p, d, {})'
      BY <1>5, <2>2, <2>3, GoodStays
    <2>5. live'[p] = d /\ durable'.saved[p] = b /\ txn' = txn /\ txn'.saved[p] = c /\ StartOf(p)' = d
      BY <1>3, <1>7, <2>1
    <2> QED BY <1>9, <2>4, <2>5 DEF Good, Exact, Needed
  <1>11. Chain'
    <2>1. \A p : Saved(txn, p)' = Saved(txn, p)
      BY <1>3 DEF Saved
    <2> QED BY <1>2, <1>3, <1>4, <1>7, <2>1 DEF Chain
  <1>12. Entries'
    <2> SUFFICES ASSUME NEW p \in entered
                 PROVE  /\ live'[p] = Base(entry'[p]) /\ Range(entry'[p].start.st) \subseteq Range(entry'[p].base.st)
                        /\ entry'[p].first = 0 /\ live'[p] = entry'[p].start
      BY <1>2 DEF Entries, Base
    <2>1. p \in Checkpointed
      BY <1>4 DEF KeeperTypes
    <2>2. PICK e : e = entry'[p]
      OBVIOUS
    <2>3. StartOf(p) \in State /\ e.base = StartOf(p) /\ e.since = <<>>
      BY <1>7, <2>1, <2>2
    <2>4. Base(e) = StartOf(p)
      BY <2>3, BaseEmpty
    <2> QED BY <1>7, <2>1, <2>2, <2>4
  <1>13. FirstOrder'
    <2>1. todo = <<>> /\ page.recs = {}
      BY <1>2, <1>4 DEF Control
    <2> QED BY <1>2, <2>1, RangeEmpty DEF FirstOrder
  <1>14. \A r : r \in Nat /\ Covers(r)' => r < handled1 /\ Covers(r)
    BY <1>2, <1>6, FailureBefore DEF Covers, Failure
  <1>15. Failure' \in {Failure, handled1}
    BY <1>2, <1>6, FailureBefore DEF Failure
  <1>16. FirstHandled'
    <2> SUFFICES ASSUME NEW r \in 1 .. handled1 - 1, NEW p \in Producers, Needed(p, r)
                 PROVE  Told(<<p, r>>)' /\ (p \in Checkpointed => Has(p, StartOf(p), r)')
      BY <1>2, <1>3, <1>4, <1>6 DEF FirstHandled, Needed
    <2>1. Told(<<p, r>>) /\ (p \in Checkpointed => Has(p, StartOf(p), r))
      BY <1>4 DEF FirstHandled
    <2>2. Told(<<p, r>>)'
      BY <1>5, <2>1 DEF Told, Grows
    <2>3. p \in Checkpointed => Has(p, StartOf(p), r)'
      BY <1>5, <1>7, <2>1 DEF Has, Grows
    <2> QED BY <2>2, <2>3
  <1>17. StoreTypes' /\ DoneReads' /\ TodoOrder'
    BY <1>2, <1>3, <1>4, Frames DEF DoneReads, TodoOrder
  <1>18. NodeTypes' /\ ReaderTypes' /\ CursorSafe' /\ Ahead'
    BY <1>2, <1>5, PageFrame DEF InPage
  <1>19. PageTypes'
    <2>1. late' \in 0 .. head
      BY <1>2, <1>6 DEF Earlier
    <2>2. batch' \in Seq(Calls)
      BY <1>2
    <2> QED BY <1>2, <1>3, <1>4, <2>1, <2>2 DEF PageTypes
  <1>20. Control'
    BY <1>2, <1>3, <1>4 DEF Control, InPage
  <1>21. PageCovered'
    <2>1. ASSUME NEW r \in 1 .. page.ack, Covers(r)' PROVE Under(r)'
      <3>1. r < handled1 /\ Covers(r) /\ r \in 1 .. handled1 - 1
        BY <1>6, <1>14, <2>1
      <3>2. page.recs = {} /\ Under(r)
        BY <1>2, <1>4, <2>1, <3>1 DEF PageCovered, InPage, Control
      <3> SUFFICES ASSUME Always(r), accepted < r
                   PROVE  /\ r \in durable.points \cup txn.points \cup undone
                          /\ \A p \in Producers : Reads(p, r) => Worked(p, r)'
        BY <1>2, <1>3 DEF Under
      <3>3. ASSUME NEW p \in Producers, Reads(p, r) PROVE Worked(p, r)'
        <4>1. Told(<<p, r>>) /\ (p \in Checkpointed => Has(p, StartOf(p), r))
          BY <1>4, <3>1, <3>3 DEF FirstHandled, Needed
        <4>2. p \in Checkpointed => Has(p, live[p], r)'
          BY <1>5, <1>7, <4>1 DEF Has, Grows
        <4> QED BY <1>5, <4>1, <4>2 DEF Worked, Told, Grows
      <3> QED BY <3>2, <3>3 DEF Under
    <2>2. Failure' <= page.ack
      BY <1>2, <1>4, <1>6, <1>15 DEF PageCovered, InPage
    <2> QED BY <1>2, <2>1, <2>2 DEF PageCovered, InPage
  <1> QED BY <1>8, <1>10, <1>11, <1>12, <1>13, <1>16, <1>17, <1>18, <1>19, <1>20, <1>21, InvParts

\* A producer's checkpoint at the page's end: saved, put back, or without a call.
LEMMA SaveStep == ASSUME Inv, NEW w \in Checkpointed, SaveCheckpoint(w) PROVE Inv'
  <1>1. PICK e, a, l : e = entry[w] /\ a = live[w] /\ l = live'[w]
    OBVIOUS
  <1>2. /\ pc = "finish" /\ w \in entered /\ entered' = entered \ {w}
        /\ entry' = [entry EXCEPT ![w] = NoEntry]
        /\ UNCHANGED <<node, msg, rung, reader, acks, pc, then, page, todo, handled1, failed, batch, durable, owed, past>>
        /\ \/ /\ e.first # 0 /\ UNCHANGED <<live, late>>
              /\ txn' = [txn EXCEPT !.saved = [q \in DOMAIN @ \cup {w} |-> IF q = w THEN a ELSE @[q]]]
           \/ /\ e.first # 0 /\ UNCHANGED txn
              /\ live' = [live EXCEPT ![w] = e.start] /\ late' = Earlier(late, e.first)
           \/ e.first = 0 /\ UNCHANGED <<live, late, txn>>
    BY <1>1 DEF SaveCheckpoint
  <1>3. UNCHANGED <<head, accepted, done, rejected, confirmed, blamed, undone>>
    BY <1>2 DEF node, past
  <1>4. Types /\ PageTypes /\ KeeperTypes /\ StoreTypes /\ Control /\ PageCovered /\ TodoOrder /\ FirstOrder
        /\ StatesGood /\ Chain /\ Entries /\ FirstHandled /\ DoneReads
    BY DEF Inv, Types
  <1>5. Grows
    BY <1>2, <1>3, <1>4 DEF Grows, Types, NodeTypes
  <1>6. /\ e \in Keep /\ a \in State /\ e.start \in State /\ e.start = StartOf(w)
        /\ a = Base(e) /\ Range(e.start.st) \subseteq Range(e.base.st)
        /\ e.first = 0 => a = e.start
        /\ e.first # 0 => e.first <= page.ack /\ \A r \in 1 .. e.first - 1 : Needed(w, r) => Has(w, e.start, r)
    BY <1>1, <1>2, <1>4 DEF KeeperTypes, Keep, Entries, StartOf
  <1>7. batch = <<>> /\ Range(batch) = {} /\ todo = <<>> /\ page.recs = {}
    BY <1>2, <1>4, RangeEmpty DEF Control
  <1>8. Range(e.start.st) \subseteq Range(a.st)
    <2>1. e.base.st \in Seq(Records) /\ e.since \in Seq(Records)
      BY <1>6 DEF Keep, State
    <2>2. PICK b, s : b = e.base.st /\ s = e.since
      OBVIOUS
    <2>3. Range(b \o s) = Range(b) \cup Range(s)
      BY <2>1, <2>2, RangeConcatenation
    <2>4. a.st = b \o s
      <3>1. Base(e).st = b \o s
        BY <2>2 DEF Base
      <3> QED BY <1>6, <3>1
    <2> QED BY <1>6, <2>2, <2>3, <2>4
  <1>9. /\ live' = [live EXCEPT ![w] = l] /\ (l = a \/ l = e.start) /\ l \in State
        /\ (e.first = 0 => l = e.start)
        /\ Range(e.start.st) \subseteq Range(l.st)
    BY <1>1, <1>2, <1>4, <1>6, <1>8 DEF KeeperTypes
  <1>10. /\ StartOf(w)' = l
         /\ \A p \in Checkpointed : p # w => StartOf(p)' = StartOf(p) /\ live'[p] = live[p] /\ entry'[p] = entry[p]
    BY <1>1, <1>2, <1>4, <1>9 DEF StartOf, KeeperTypes
  <1>11. KeeperTypes'
    <2>1. NoEntry \in Keep
      BY Sizes DEF NoEntry, Keep, State, Fresh
    <2> QED BY <1>2, <1>4, <1>9, <2>1 DEF KeeperTypes
  <1>12. \/ txn' = txn /\ l = e.start
         \/ /\ l = a /\ txn'.points = txn.points /\ txn' = [points |-> txn'.points, saved |-> txn'.saved]
            /\ txn'.saved = [q \in DOMAIN txn.saved \cup {w} |-> IF q = w THEN a ELSE txn.saved[q]]
    <2>1. CASE txn' = txn /\ l = e.start
      BY <2>1
    <2>2. CASE ~(txn' = txn /\ l = e.start)
      <3>1. /\ txn' = [txn EXCEPT !.saved = [q \in DOMAIN @ \cup {w} |-> IF q = w THEN a ELSE @[q]]]
            /\ live' = live
        BY <1>1, <1>2, <1>4, <1>6, <2>2 DEF KeeperTypes
      <3>2. PICK u, v : u = txn.points /\ v = txn.saved
        OBVIOUS
      <3>3. txn = [points |-> u, saved |-> v]
        BY <1>4, <3>2 DEF StoreTypes
      <3>4. PICK x : x = [q \in DOMAIN v \cup {w} |-> IF q = w THEN a ELSE v[q]]
        OBVIOUS
      <3>5. txn' = [txn EXCEPT !.saved = x]
        BY <3>1, <3>2, <3>4
      <3>6. txn' = [points |-> u, saved |-> x]
        BY ONLY <3>3, <3>5
      <3> QED BY <1>1, <3>1, <3>2, <3>4, <3>6
    <2> QED BY <2>1, <2>2
  <1>13. StoreTypes' /\ txn'.points = txn.points
    <2>1. CASE txn' = txn
      BY <1>2, <1>4, <2>1 DEF StoreTypes
    <2>2. CASE /\ txn'.points = txn.points /\ txn' = [points |-> txn'.points, saved |-> txn'.saved]
               /\ txn'.saved = [q \in DOMAIN txn.saved \cup {w} |-> IF q = w THEN a ELSE txn.saved[q]]
      <3>1. DOMAIN txn'.saved = DOMAIN txn.saved \cup {w}
        BY <2>2
      <3>2. \A q \in DOMAIN txn'.saved : txn'.saved[q] = IF q = w THEN a ELSE txn.saved[q]
        BY <2>2, <3>1
      <3>3. txn'.saved = [q \in DOMAIN txn'.saved |-> txn'.saved[q]]
        BY <2>2
      <3> QED BY <1>2, <1>4, <1>6, <2>2, <3>1, <3>2, <3>3 DEF StoreTypes
    <2> QED BY <1>12, <2>1, <2>2
  <1>14. /\ \A p : p # w => (p \in DOMAIN txn'.saved <=> p \in DOMAIN txn.saved)
                            /\ (p \in DOMAIN txn.saved => txn'.saved[p] = txn.saved[p])
         /\ \/ l = e.start /\ txn' = txn
            \/ l = a /\ w \in DOMAIN txn'.saved /\ txn'.saved[w] = a
    BY <1>12
  <1>24. DiskGrows
    <2>1. ASSUME NEW p \in Checkpointed PROVE Range(Saved(txn, p).st) \subseteq Range(Saved(txn, p)'.st)
      <3>1. CASE p # w \/ txn' = txn
        BY <1>2, <1>14, <3>1 DEF Saved
      <3>2. CASE p = w /\ l = a /\ w \in DOMAIN txn'.saved /\ txn'.saved[w] = a
        <4>1. Range(Saved(txn, w).st) \subseteq Range(e.start.st) /\ Range(e.start.st) \subseteq Range(a.st)
          BY <1>4, <1>6, <1>9, <3>2 DEF Chain
        <4>2. Saved(txn, p)' = a
          BY <3>2 DEF Saved
        <4> QED BY <3>2, <4>1, <4>2
      <3> QED BY <1>14, <3>1, <3>2
    <2> QED BY <1>2, <1>13, <2>1, DiskAdds
  <1>15. StatesGood'
    <2> SUFFICES ASSUME NEW p \in Checkpointed
                 PROVE  /\ Good(p, live[p], Range(batch))' /\ Good(p, durable.saved[p], {})'
                        /\ (p \in DOMAIN txn'.saved => Good(p, txn.saved[p], {})') /\ Good(p, StartOf(p), {})'
      BY DEF StatesGood
    <2>1. PICK b, c, d, f : b = durable.saved[p] /\ c = txn.saved[p] /\ d = StartOf(p) /\ f = live[p]
      OBVIOUS
    <2>2. Good(p, f, {}) /\ Good(p, b, {}) /\ (p \in DOMAIN txn.saved => Good(p, c, {})) /\ Good(p, d, {})
      BY <1>4, <1>7, <2>1 DEF StatesGood
    <2>3. b.off \in Nat /\ (p \in DOMAIN txn.saved => c.off \in Nat) /\ d.off \in Nat /\ f.off \in Nat
      <3>1. \A s \in State : s.off \in Nat
        BY Sizes DEF State
      <3>2. StartOf(p) \in State
        BY <1>4 DEF StartOf, KeeperTypes, Keep
      <3> QED BY <1>4, <2>1, <3>1, <3>2 DEF KeeperTypes, StoreTypes
    <2>4. Good(p, f, {})' /\ Good(p, b, {})' /\ (p \in DOMAIN txn.saved => Good(p, c, {})') /\ Good(p, d, {})'
      BY <1>5, <2>2, <2>3, GoodStays
    <2>5. durable'.saved[p] = b /\ Range(batch') = {}
      BY <1>2, <1>7, <2>1
    <2>6. CASE p # w
      <3>1. live'[p] = f /\ StartOf(p)' = d /\ (p \in DOMAIN txn'.saved => p \in DOMAIN txn.saved /\ txn'.saved[p] = c)
        BY <1>10, <1>14, <2>1, <2>6
      <3> QED BY <2>4, <2>5, <3>1 DEF Good, Exact, Needed
    <2>7. CASE p = w
      <3>1. f = a /\ d = e.start /\ live'[p] = l /\ StartOf(p)' = l
        BY <1>1, <1>6, <1>10, <2>1, <2>7
      <3>2. l = f \/ l = d
        BY <1>9, <3>1
      <3>3. Good(p, live[p], Range(batch))' /\ Good(p, StartOf(p), {})'
        BY <2>4, <2>5, <3>1, <3>2 DEF Good, Exact, Needed
      <3>4. CASE txn' = txn
        <4>1. txn'.saved = txn.saved /\ txn'.saved[p] = c
          BY <2>1, <3>4
        <4> QED BY <2>4, <2>5, <3>3, <4>1 DEF Good, Exact, Needed
      <3>5. CASE txn'.saved[w] = a
        <4>1. txn'.saved[p] = f
          BY <2>7, <3>1, <3>5
        <4> QED BY <2>4, <2>5, <3>3, <4>1 DEF Good, Exact, Needed
      <3> QED BY <1>14, <3>4, <3>5
    <2> QED BY <2>6, <2>7
  <1>16. Chain'
    <2> SUFFICES ASSUME NEW p \in Checkpointed
                 PROVE  /\ Range(durable'.saved[p].st) \subseteq Range(Saved(txn, p)'.st)
                        /\ Range(Saved(txn, p)'.st) \subseteq Range(StartOf(p)'.st)
                        /\ Range(StartOf(p)'.st) \subseteq Range(Saved(txn, p)'.st) \cup undone'
      BY DEF Chain
    <2>1. durable' = durable /\ undone' = undone
      BY <1>2, <1>3
    <2>2. CASE p # w
      <3>1. Saved(txn, p)' = Saved(txn, p) /\ StartOf(p)' = StartOf(p)
        BY <1>10, <1>14, <2>1, <2>2 DEF Saved
      <3> QED BY <1>4, <2>1, <3>1 DEF Chain
    <2>3. CASE p = w /\ l = e.start /\ txn' = txn
      <3>1. Saved(txn, p)' = Saved(txn, p) /\ StartOf(p)' = StartOf(p)
        BY <1>6, <1>10, <2>1, <2>3 DEF Saved
      <3> QED BY <1>4, <2>1, <3>1 DEF Chain
    <2>4. CASE p = w /\ l = a /\ w \in DOMAIN txn'.saved /\ txn'.saved[w] = a
      <3>1. Saved(txn, p)' = a /\ StartOf(p)' = a
        BY <1>10, <2>4 DEF Saved
      <3>2. Range(durable.saved[p].st) \subseteq Range(StartOf(p).st)
        BY <1>4 DEF Chain
      <3> QED BY <1>6, <1>8, <2>1, <2>4, <3>1, <3>2
    <2> QED BY <1>14, <2>2, <2>3, <2>4
  <1>17. Entries'
    <2>1. \A p : Base(entry[p])' = Base(entry'[p])
      BY DEF Base
    <2> SUFFICES ASSUME NEW p \in entered, p # w
                 PROVE  /\ live'[p] = Base(entry'[p])
                        /\ Range(entry'[p].start.st) \subseteq Range(entry'[p].base.st)
                        /\ entry'[p].first = 0 => live'[p] = entry'[p].start
                        /\ entry'[p].first # 0 =>
                              /\ entry'[p].first <= page'.ack
                              /\ \A r \in 1 .. entry'[p].first - 1 : Needed(p, r)' => Has(p, entry[p].start, r)'
      BY <1>2, <2>1 DEF Entries
    <2>2. p \in Checkpointed
      BY <1>4 DEF KeeperTypes
    <2>3. live'[p] = live[p] /\ entry'[p] = entry[p]
      BY <1>10, <2>2
    <2>4. \A r : (Needed(p, r)' <=> Needed(p, r)) /\ (Has(p, entry[p].start, r)' <=> Has(p, entry[p].start, r))
      BY <1>3, <2>3 DEF Needed, Has
    <2> QED BY <1>2, <1>4, <2>3, <2>4 DEF Entries
  <1>18. FirstOrder' /\ TodoOrder' /\ DoneReads'
    <2>1. todo' = <<>> /\ page'.recs = {} /\ done' = done
      BY <1>2, <1>3, <1>7
    <2> QED BY <1>4, <2>1, RangeEmpty DEF FirstOrder, TodoOrder, DoneReads
  <1>19. FirstHandled'
    <2>1. /\ handled1' = 0 => batch' = <<>> /\ entered' = {}
          /\ handled1' <= page'.ack \/ handled1' = 0
      BY <1>2, <1>4 DEF FirstHandled
    <2> SUFFICES ASSUME NEW r \in 1 .. handled1 - 1, NEW p \in Producers, Needed(p, r)
                 PROVE  Told(<<p, r>>)' /\ (p \in Checkpointed => Has(p, StartOf(p), r)')
      BY <1>2, <1>3, <2>1 DEF FirstHandled, Needed
    <2>2. Told(<<p, r>>) /\ (p \in Checkpointed => Has(p, StartOf(p), r))
      BY <1>4 DEF FirstHandled
    <2>3. Told(<<p, r>>)'
      BY <1>3, <2>2 DEF Told
    <2>4. p \in Checkpointed => Range(StartOf(p).st) \subseteq Range(StartOf(p)'.st)
      BY <1>6, <1>9, <1>10
    <2> QED BY <1>3, <2>2, <2>3, <2>4 DEF Has
  <1>20. NodeTypes' /\ ReaderTypes' /\ CursorSafe' /\ Ahead'
    BY <1>2, <1>5, <1>24, PageFrame DEF InPage
  <1>21. /\ head \in Nat /\ page.ack \in 0 .. head /\ failed \in 0 .. head /\ late \in 0 .. head
         /\ e.first \in Nat /\ (e.first # 0 => e.first <= head)
    <2>1. e.first \in Nat
      BY <1>6, Sizes DEF Keep
    <2> QED BY <1>4, <1>6, <2>1, Sizes DEF Types, NodeTypes, PageTypes
  <1>22. CASE late' = late /\ l = a
    <2>1. live' = live
      BY <1>1, <1>4, <1>9, <1>22 DEF KeeperTypes
    <2>2. PageTypes' /\ Control'
      BY <1>2, <1>3, <1>4, <1>22 DEF PageTypes, Control, InPage
    <2>3. \A r : Covers(r)' <=> Covers(r)
      BY <1>2, <1>22 DEF Covers, Failure
    <2>4. Failure' = Failure
      BY <1>2, <1>22 DEF Failure
    <2>5. \A r : Under(r) => Under(r)'
      BY <1>2, <1>3, <1>13, <2>1 DEF Under, Worked, Has
    <2>6. PageCovered'
      BY <1>2, <1>4, <2>3, <2>4, <2>5 DEF PageCovered, InPage
    <2> QED BY <1>11, <1>13, <1>15, <1>16, <1>17, <1>18, <1>19, <1>20, <2>2, <2>6, InvParts
  <1>23. CASE e.first # 0 /\ l = e.start /\ late' = Earlier(late, e.first)
    <2>1. \A r : r \in Nat /\ Covers(r)' => r < e.first /\ Covers(r)
      BY <1>2, <1>21, <1>23, FailureBefore DEF Covers, Failure
    <2>2. Failure' \in {Failure, e.first}
      BY <1>2, <1>21, <1>23, FailureBefore DEF Failure
    <2>3. late' \in 0 .. head
      BY <1>21, <1>23 DEF Earlier
    <2>4. PageTypes'
      BY <1>2, <1>3, <1>4, <2>3 DEF PageTypes
    <2>5. Control'
      BY <1>2, <1>3, <1>4 DEF Control, InPage
    <2>6. ASSUME NEW r \in 1 .. page.ack, Covers(r)' PROVE Under(r)'
      <3>1. r \in 1 .. e.first - 1 /\ Covers(r)
        BY <1>21, <2>1, <2>6
      <3>2. Under(r)
        BY <1>2, <1>4, <1>7, <3>1 DEF PageCovered, InPage
      <3> SUFFICES ASSUME Always(r), accepted < r
                   PROVE  /\ r \in durable.points \cup txn.points \cup undone
                          /\ \A p \in Producers : Reads(p, r) => Worked(p, r)'
        BY <1>2, <1>3, <1>13 DEF Under
      <3>3. ASSUME NEW p \in Producers, Reads(p, r) PROVE Worked(p, r)'
        <4>1. Worked(p, r)
          BY <1>7, <3>2, <3>3 DEF Under
        <4>2. CASE p = w
          <5>1. Has(w, e.start, r)
            BY <1>6, <1>23, <3>1, <3>3, <4>2 DEF Needed
          <5>2. live'[p] = l
            BY <1>1, <4>2
          <5> QED BY <1>2, <1>3, <1>23, <4>1, <4>2, <5>1, <5>2 DEF Worked, Has
        <4>3. CASE p # w
          <5>1. p \in Checkpointed => live'[p] = live[p]
            BY <1>10, <4>3
          <5> QED BY <1>2, <1>3, <4>1, <5>1 DEF Worked, Has
        <4> QED BY <4>2, <4>3
      <3> QED BY <3>2, <3>3 DEF Under
    <2>7. PageCovered'
      <3>1. Failure' <= page.ack
        BY <1>2, <1>4, <1>6, <1>23, <2>2 DEF PageCovered, InPage
      <3> QED BY <1>2, <2>6, <3>1 DEF PageCovered, InPage
    <2> QED BY <1>11, <1>13, <1>15, <1>16, <1>17, <1>18, <1>19, <1>20, <2>4, <2>5, <2>7, InvParts
  <1> QED BY <1>1, <1>2, <1>4, <1>6, <1>9, <1>22, <1>23 DEF KeeperTypes

\* The process starts again from the buffer on disk and the acknowledged cursor.
LEMMA RestartStep == ASSUME Inv, Restart PROVE Inv'
  <1>1. /\ rung' = FALSE /\ behind' = FALSE /\ nextFrom' = 0 /\ prefetch' = NoFetch
        /\ ackSend' = 0 /\ ackWant' = 0 /\ ackFailed' = FALSE
        /\ pc' = "top" /\ then' = "top" /\ page' = NoWork /\ todo' = <<>>
        /\ handled1' = 0 /\ failed' = 0 /\ late' = 0 /\ batch' = <<>>
        /\ txn' = Clean /\ owed' = FALSE /\ undone' = undone \cup (IF owed THEN Open \cap 1 .. cursor ELSE {})
        /\ live' = durable.saved /\ entry' = [p \in Checkpointed |-> NoEntry] /\ entered' = {}
        /\ UNCHANGED <<node, msg, bound, durable, done, rejected, confirmed, blamed>>
    BY DEF Restart
  <1>2. UNCHANGED <<head, low, cursor, nodeAhead, accepted, done, rejected, confirmed, blamed>>
    BY <1>1 DEF node
  <1>3. Types /\ NodeTypes /\ StoreTypes /\ PageTypes /\ CursorSafe /\ StatesGood /\ DoneReads
    BY DEF Inv, Types
  <1>4. Grows
    BY <1>1, <1>2, <1>3 DEF Grows, NodeTypes
  <1>5. NodeTypes'
    BY <1>1, <1>3, Frames
  <1>6. ReaderTypes'
    <2>1. head \in Nat /\ head' = head
      BY <1>2, <1>3, Sizes DEF NodeTypes
    <2>2. 0 \in 0 .. head /\ 0 \in 0 .. head + 1
      BY <2>1
    <2>3. rung' \in BOOLEAN /\ behind' \in BOOLEAN /\ ackFailed' \in BOOLEAN
      BY <1>1
    <2> QED BY <1>1, <2>1, <2>2, <2>3, NoFetchType DEF ReaderTypes
  <1>7. PageTypes'
    <2>1. head \in Nat
      BY <1>3, Sizes DEF NodeTypes
    <2>2. page' \in [recs : SUBSET (1 .. head), gap : 0 .. head, ack : 0 .. head]
      BY <1>1, <2>1 DEF NoWork
    <2>3. done' \subseteq Calls
      BY <1>2, <1>3 DEF PageTypes
    <2> QED BY <1>1, <1>2, <2>1, <2>2, <2>3 DEF PageTypes
  <1>8. KeeperTypes'
    <2>1. NoEntry \in Keep
      BY Sizes DEF NoEntry, Keep, State, Fresh
    <2> QED BY <1>1, <1>3, <2>1 DEF KeeperTypes, StoreTypes
  <1>9. StoreTypes' /\ DOMAIN txn'.saved = {}
    BY <1>1, <1>3, CleanIs DEF StoreTypes
  <1>10. Control'
    BY <1>1 DEF Control, InPage
  <1>11. CursorSafe'
    <2>1. Safe(cursor)'
      <3>1. cursor \in Int /\ Safe(cursor)
        BY <1>3, Sizes DEF CursorSafe, NodeTypes
      <3>2. ASSUME NEW r \in 1 .. cursor PROVE Past(r)'
        <4> SUFFICES ASSUME Always(r), accepted < r
                     PROVE  /\ r \in Disk'.points \cup undone'
                            /\ \A p \in Producers : Reads(p, r) =>
                                  Told(<<p, r>>)' /\ (p \in Checkpointed => Has(p, Disk.saved[p], r)')
          BY <1>2 DEF Past
        <4>1. Past(r)
          BY <3>1, <3>2 DEF Safe
        <4>2. r \in Open => r \in undone' \/ ~owed
          BY <1>1, <3>2
        <4>3. Disk'.points = durable.points /\ \A p \in Checkpointed : Disk'.saved[p] = durable.saved[p]
          BY <1>1, DiskIs
        <4>4. r \in Disk'.points \cup undone'
          <5>1. r \in Disk.points \cup undone
            BY <4>1 DEF Past
          <5>2. r \in durable.points \/ r \in undone \/ (owed /\ r \in Open)
            BY <5>1, DiskIs DEF Open
          <5> QED BY <1>4, <4>2, <4>3, <5>2 DEF Grows
        <4>5. ASSUME NEW p \in Producers, Reads(p, r) PROVE Told(<<p, r>>)'
          BY <1>4, <4>1, <4>5 DEF Past, Told, Grows
        <4>6. ASSUME NEW p \in Producers, Reads(p, r), p \in Checkpointed PROVE Has(p, Disk.saved[p], r)'
          <5>1. Has(p, Disk.saved[p], r)
            BY <4>1, <4>6 DEF Past
          <5>2. r \in Range(Disk.saved[p].st) => r \in Range(durable.saved[p].st) \/ (owed /\ r \in Open)
            BY <4>6, DiskIs DEF Saved, Open
          <5> QED BY <1>4, <4>2, <4>3, <4>6, <5>1, <5>2 DEF Has, Grows
        <4> QED BY <4>4, <4>5, <4>6
      <3> QED BY <1>2, <3>2 DEF Safe
    <2>2. Safe(0)'
      BY DEF Safe
    <2>3. Safe(ackSend)' /\ Safe(ackWant)'
      BY <1>1, <2>2 DEF Safe, Past, Told, Has
    <2> QED BY <1>1, <2>1, <2>3 DEF CursorSafe
  <1>12. Ahead'
    <2>1. prefetch'.state = "none" /\ nextFrom' = 0 /\ pc' = "top"
      BY <1>1 DEF NoFetch
    <2> QED BY <2>1 DEF Ahead, InPage
  <1>13. PageCovered'
    BY <1>1 DEF PageCovered, InPage
  <1>14. page'.recs = {} /\ Range(todo') = {} /\ Range(batch') = {}
    BY <1>1, RangeEmpty DEF NoWork
  <1>15. TodoOrder' /\ FirstOrder' /\ DoneReads'
    BY <1>1, <1>2, <1>3, <1>14 DEF TodoOrder, FirstOrder, DoneReads
  <1>16. \A p \in Checkpointed : StartOf(p)' = durable.saved[p] /\ live'[p] = durable.saved[p]
    BY <1>1 DEF StartOf
  <1>17. StatesGood'
    <2> SUFFICES ASSUME NEW p \in Checkpointed
                 PROVE  /\ Good(p, live[p], Range(batch))' /\ Good(p, durable.saved[p], {})'
                        /\ (p \in DOMAIN txn'.saved => Good(p, txn.saved[p], {})') /\ Good(p, StartOf(p), {})'
      BY DEF StatesGood
    <2>1. PICK b : b = durable.saved[p]
      OBVIOUS
    <2>2. Good(p, b, {}) /\ b.off \in Nat
      BY <1>3, <2>1, Sizes DEF StatesGood, StoreTypes, State
    <2>3. Good(p, b, {})'
      BY <1>4, <2>2, GoodStays
    <2>4. live'[p] = b /\ durable'.saved[p] = b /\ Range(batch') = {} /\ StartOf(p)' = b
      BY <1>1, <1>14, <1>16, <2>1
    <2> QED BY <1>9, <2>3, <2>4 DEF Good, Exact, Needed
  <1>18. Chain'
    <2>1. \A p : Saved(txn, p)' = durable.saved[p]
      BY <1>1, <1>9 DEF Saved
    <2> QED BY <1>1, <1>16, <2>1 DEF Chain
  <1>19. Entries' /\ FirstHandled'
    BY <1>1 DEF Entries, FirstHandled
  <1> QED BY <1>5, <1>6, <1>7, <1>8, <1>9, <1>10, <1>11, <1>12, <1>13, <1>15, <1>17, <1>18, <1>19, InvParts

-----------------------------------------------------------------------------
(* Init and Next *)

LEMMA InitInv == ASSUME Init PROVE Inv
  <1> USE DEF Init
  <1>1. head = 0 /\ low = 1 /\ cursor = 0 /\ accepted = 0 /\ MaxRecords \in Nat /\ 0 .. 0 = {0}
    BY Sizes
  <1>2. Fresh \in State /\ Fresh.st = <<>> /\ Fresh.off = 0 /\ NoEntry \in Keep
    BY <1>1 DEF Fresh, State, NoEntry, Keep
  <1>3. NodeTypes
    <2>1. head \in 0 .. MaxRecords /\ low \in 1 .. head + 1 /\ cursor \in 0 .. head /\ accepted \in 0 .. low - 1 /\ bound \in 0 .. 1
      BY <1>1
    <2> QED BY <2>1, Zenon DEF NodeTypes
  <1>4. ReaderTypes
    <2>1. nextFrom \in 0 .. head + 1 /\ ackSend \in 0 .. head /\ ackWant \in 0 .. head
      BY <1>1
    <2> QED BY <2>1, NoFetchType, Zenon DEF ReaderTypes
  <1>5. PageTypes
    <2>1. page \in [recs : SUBSET (1 .. head), gap : 0 .. head, ack : 0 .. head]
      BY <1>1 DEF NoWork
    <2> QED BY <1>1, <2>1 DEF PageTypes
  <1>6. KeeperTypes
    BY <1>2 DEF KeeperTypes
  <1>7. StoreTypes /\ DOMAIN txn.saved = {} /\ \A p : Saved(txn, p) = durable.saved[p]
    <2>1. Clean.saved = [p \in {} |-> Fresh] /\ Clean = [points |-> {}, saved |-> [p \in {} |-> Fresh]]
      BY DEF Clean
    <2>2. Clean = [points |-> Clean.points, saved |-> Clean.saved] /\ Clean.saved = [p \in DOMAIN Clean.saved |-> Clean.saved[p]]
          /\ DOMAIN Clean.saved = {} /\ Clean.points = {}
      BY <2>1
    <2>3. durable \in [points : SUBSET Records, saved : [Checkpointed -> State]]
      BY <1>2
    <2> QED BY <2>2, <2>3, CleanIs DEF StoreTypes, Saved
  <1>8. Control
    BY DEF Control, InPage
  <1>9. CursorSafe
    <2>1. Safe(0)
      BY DEF Safe
    <2> QED BY <1>1, <2>1 DEF CursorSafe
  <1>10. Ahead
    BY DEF Ahead, InPage, NoFetch
  <1>11. PageCovered
    BY DEF PageCovered, InPage
  <1>12. TodoOrder /\ Range(batch) = {}
    BY RangeEmpty DEF TodoOrder
  <1>13. /\ \A p \in Checkpointed : live[p] = Fresh /\ durable.saved[p] = Fresh /\ StartOf(p) = Fresh
    BY DEF StartOf
  <1>14. StatesGood
    <2>1. \A p, v : Good(p, Fresh, v)
      <3>1. DOMAIN Fresh.st = {} /\ Len(Fresh.st) = 0
        BY <1>2
      <3> QED BY <1>2, <3>1 DEF Good, Exact
    <2> QED BY <1>7, <1>13, <2>1 DEF StatesGood
  <1>15. Chain
    BY <1>7, <1>13 DEF Chain
  <1>16. Entries /\ FirstOrder /\ FirstHandled /\ DoneReads
    BY DEF Entries, FirstOrder, FirstHandled, DoneReads
  <1> QED BY <1>3, <1>4, <1>5, <1>6, <1>7, <1>8, <1>9, <1>10, <1>11, <1>12, <1>14, <1>15, <1>16 DEF Inv, Types

LEMMA StutterStep == ASSUME Inv, UNCHANGED vars PROVE Inv'
  <1>1. /\ UNCHANGED <<node, msg, rung, reader, acks, flow, keeper, store, past>>
    BY DEF vars
  <1>2. /\ UNCHANGED <<head, cursor, nodeAhead, accepted, bound, pc, then, page, todo, handled1, failed, late>>
        /\ UNCHANGED <<nextFrom, prefetch, ackSend, ackWant, ackFailed>>
    BY <1>1 DEF node, reader, flow, acks
  <1>3. Types /\ head \in Nat /\ cursor \in Nat /\ accepted \in Nat
    BY Sizes DEF Inv, Types, NodeTypes
  <1>4. Outside
    BY <1>1, <1>2, <1>3 DEF Outside
  <1>5. CursorSafe' /\ Ahead'
    BY <1>2, <1>3, <1>4, OutsideGrows, CursorStays, AheadStays
  <1>6. PageCovered' /\ Control' /\ PageTypes'
    BY <1>2, <1>3, <1>4, PageStays
  <1>7. NodeTypes' /\ ReaderTypes'
    BY <1>1, <1>2, <1>3, Frames
  <1> QED BY <1>4, <1>5, <1>6, <1>7, OutsideStays, InvParts

LEMMA StepInv == ASSUME Inv, [Next]_vars PROVE Inv'
  <1>1. CASE Beside
    BY <1>1, BesideStep, OtherStep, RestartStep DEF Beside
  <1>2. CASE Reading
    BY <1>2, LoopStep, FetchStep, PrefetchStep DEF Reading
  <1>3. CASE Handling
    <2>1. CASE ProcessGap \/ Process \/ TakeRecord \/ LastRecords
      BY <2>1, LoopStep, ProcessStep, TakeRecordStep, LastRecordsStep
    <2>2. CASE SkipHandled \/ HandlerReturns \/ HandlerRaises
      BY <2>2, SkipStep, ReturnStep, RaiseStep
    <2>3. CASE HandlerRejects \/ QueueFull \/ RejectRecorded \/ RejectFails
      BY <2>3, RejectStep, QueueFullStep, RecordedStep, RejectFailsStep
    <2> QED BY <1>3, <2>1, <2>2, <2>3 DEF Handling
  <1>4. CASE Ending
    <2>1. CASE SettleSucceeds \/ SettleFails \/ CommitPage
      BY <2>1, SettledStep, UnsettledStep, CommitStep
    <2>2. CASE \E p \in Checkpointed : SaveCheckpoint(p)
      BY <2>2, SaveStep
    <2>3. CASE QueueAck \/ AckInTurn \/ AckBeforeFailed \/ AckSucceeds \/ AckFails
      BY <2>3, EndStep, AckStep
    <2> QED BY <1>4, <2>1, <2>2, <2>3 DEF Ending
  <1> QED BY <1>1, <1>2, <1>3, <1>4, StutterStep DEF Next

Flags == deferring \in BOOLEAN /\ owed \in BOOLEAN

LEMMA FlagsStay == ASSUME Flags, [Next]_vars PROVE Flags'
  <1> USE DEF Flags
  <1>1. CASE Beside
    BY <1>1 DEF Beside, Admit, Prune, WakeOnInput, AcceptGap, Rebind, Restart, OtherCommits, OtherDefers, OtherEnds,
                OtherRollsBack, Commit, RollBack, store
  <1>2. CASE Reading
    BY <1>2 DEF Reading, TakeGeneration, Step, RestartFromCursor, Fetch, PrefetchAnswers, TakePrefetched, FetchFails,
                Wake, WakeAtGap, store
  <1>3. CASE Handling
    BY <1>3 DEF Handling, ProcessGap, Process, TakeRecord, LastRecords, SkipHandled, HandlerReturns, HandlerRaises,
                HandlerRejects, QueueFull, RollBack, RejectRecorded, RejectFails, store
  <1>4. CASE Ending
    BY <1>4 DEF Ending, SettleSucceeds, SettleFails, SaveCheckpoint, CommitPage, Commit, QueueAck, AckInTurn,
                AckBeforeFailed, AckSucceeds, AckFails, store
  <1>5. CASE UNCHANGED vars
    BY <1>5 DEF vars, store
  <1> QED BY <1>1, <1>2, <1>3, <1>4, <1>5 DEF Next

\* The inductive invariant holds in every state of the ingest loop.
THEOREM InvHolds == Spec => []Inv
  BY InitInv, StepInv, PTL DEF Spec

-----------------------------------------------------------------------------
(* What it means *)

\* Every variable of the loop keeps its type: what is in flight lies before the
\* node's head, a page under way has the parts its step needs, and between pages
\* nothing of a page is left (Ingest._run, _step).
THEOREM TypeCorrect == Spec => []TypeOK
  <1>1. ASSUME Inv, Flags PROVE TypeOK
    <2>1. NodeTypes /\ ReaderTypes /\ PageTypes /\ KeeperTypes /\ StoreTypes /\ Control
      BY <1>1 DEF Inv, Types
    <2>2. head \in 0 .. MaxRecords /\ 1 .. head \subseteq Records /\ page.recs \subseteq Records
      BY <2>1, Sizes DEF NodeTypes, PageTypes
    <2>3. /\ head \in 0 .. MaxRecords /\ low \in 1 .. head + 1 /\ cursor \in 0 .. head
          /\ nodeAhead \in BOOLEAN /\ accepted \in 0 .. low - 1 /\ msg \in BOOLEAN /\ bound \in 0 .. 1
      BY <2>1 DEF NodeTypes
    <2>4. /\ rung \in BOOLEAN /\ behind \in BOOLEAN /\ nextFrom \in 0 .. head + 1
          /\ prefetch.state \in {"none", "asked", "got", "bad"}
          /\ ackSend \in 0 .. head /\ ackWant \in 0 .. head /\ ackFailed \in BOOLEAN
      BY <2>1 DEF ReaderTypes
    <2>5. /\ page.ack \in 0 .. head /\ failed \in 0 .. head
          /\ todo \in Seq(Producers \X Records) /\ batch \in Seq(Producers \X Records)
          /\ entered \subseteq Checkpointed /\ done \subseteq Producers \X Records
      BY <2>1 DEF PageTypes, KeeperTypes, Calls
    <2>6. durable.points \subseteq Records /\ txn.points \subseteq Records
      BY <2>1 DEF StoreTypes
    <2>7. /\ pc = "ackbefore" => failed # 0
          /\ pc = "reject" => todo # <<>>
          /\ pc \in {"top", "step", "fetch", "await", "wait"} => entered = {} /\ batch = <<>> /\ (txn = Clean \/ owed)
          /\ owed => deferring \/ pc \in InPage
      BY <2>1 DEF Control, InPage
    <2> QED BY <1>1, <2>2, <2>3, <2>4, <2>5, <2>6, <2>7 DEF TypeOK, Flags
  <1>2. Init => Flags
    BY DEF Init, Flags
  <1>3. Flags /\ [Next]_vars => Flags'
    BY FlagsStay
  <1> QED BY <1>1, <1>2, <1>3, InvHolds, PTL DEF Spec

\* Crash safety (ingest.py, first lines): whatever failed and wherever the process
\* stopped, what the cursor passed is in the buffer, and the work on it is done
\* and in the saved state, but for what a rollback by the buffer's queue took and for a
\* page that ended inside another thread's one_commit before a stop.
THEOREM PassedCorrect == Spec => []PassedIsDurable
  <1>1. ASSUME Inv PROVE PassedIsDurable
    <2>1. NodeTypes /\ Safe(cursor)
      BY <1>1 DEF Inv, Types, CursorSafe
    <2>2. cursor \in Nat /\ accepted \in Nat /\ \A r \in 1 .. cursor : Past(r)
      BY <2>1, Sizes DEF NodeTypes, Safe
    <2>3. PointsDurable
      BY <2>2 DEF PointsDurable, Past
    <2>4. WorkDurable
      BY <2>2 DEF WorkDurable, Past, Told, Has
    <2> QED BY <2>3, <2>4 DEF PassedIsDurable
  <1> QED BY <1>1, InvHolds, PTL

\* A checkpointed producer's state took each record in exactly once and in order,
\* live and saved, through pages handled again, rewinds, failed saves, rollbacks
\* and stops (PageCheckpoints, dataops/base.py).
THEOREM ExactlyOnceCorrect == Spec => []ExactlyOnceState
  <1>1. ASSUME Inv PROVE ExactlyOnceState
    BY <1>1 DEF Inv, StatesGood, Good, ExactlyOnceState
  <1> QED BY <1>1, InvHolds, PTL

\* The cursor passes no record of an input whose write failed unnoticed: the node
\* confirmed the write, or a later call of the page raised its failure
\* (PublishBatch, publishing.py).
THEOREM NoSilentLossCorrect == Spec => []NoSilentLoss
  <1>1. ASSUME Inv PROVE NoSilentLoss
    <2>1. NodeTypes /\ Safe(cursor) /\ DoneReads /\ done \subseteq Calls
      BY <1>1 DEF Inv, Types, CursorSafe, PageTypes
    <2> SUFFICES ASSUME NEW c \in done \ rejected, Always(c[2]), accepted < c[2], c[2] <= cursor
                 PROVE  c \in confirmed \cup blamed
      BY DEF NoSilentLoss
    <2>2. c[1] \in Producers /\ c[2] \in Records /\ c = <<c[1], c[2]>> /\ Reads(c[1], c[2])
      BY <2>1 DEF Calls, DoneReads
    <2>3. c[2] \in 1 .. cursor
      BY <2>1, <2>2, Sizes DEF NodeTypes
    <2>4. Past(c[2])
      BY <2>1, <2>3 DEF Safe
    <2> QED BY <2>2, <2>4 DEF Past, Told
  <1> QED BY <1>1, InvHolds, PTL

-----------------------------------------------------------------------------
(* The contract of a named cursor *)

\* The stream of the contract, up to the record n.
Offsets(n) == [r \in 1 .. n |-> r]

LEMMA OffsetsGrow ==
  ASSUME NEW n \in Nat
  PROVE  /\ Offsets(n) \in Seq(Nat) /\ Len(Offsets(n)) = n /\ \A r \in 1 .. n : Offsets(n)[r] = r
         /\ Offsets(n + 1) = Append(Offsets(n), n + 1)
  <1>1. Offsets(n) \in Seq(Nat) /\ Len(Offsets(n)) = n /\ \A r \in 1 .. n : Offsets(n)[r] = r
    BY DEF Offsets
  <1>2. Offsets(n + 1) \in Seq(Nat) /\ Len(Offsets(n + 1)) = n + 1 /\ \A r \in 1 .. n + 1 : Offsets(n + 1)[r] = r
    BY DEF Offsets
  <1>3. /\ Append(Offsets(n), n + 1) \in Seq(Nat) /\ Len(Append(Offsets(n), n + 1)) = n + 1
        /\ \A r \in 1 .. n : Append(Offsets(n), n + 1)[r] = r
        /\ Append(Offsets(n), n + 1)[n + 1] = n + 1
    BY <1>1, AppendProperties
  <1>4. \A r \in 1 .. n + 1 : Offsets(n + 1)[r] = Append(Offsets(n), n + 1)[r]
    BY <1>2, <1>3
  <1>5. Offsets(n + 1) = Append(Offsets(n), n + 1)
    BY <1>2, <1>3, <1>4, SeqEqual
  <1> QED BY <1>1, <1>5

\* An input has a reader.
LEMMA InputsRead == ASSUME NEW r \in Inputs PROVE \E p \in Producers : Reads(p, r)
  <1>1. r \in Records /\ Handlers[Signal[r]] # <<>>
    BY DEF Inputs
  <1>2. Signal[r] \in DOMAIN Handlers
    <2>1. r \in 1 .. Len(Signal) /\ Signal \in Seq(DOMAIN Handlers)
      BY <1>1, Sizes DEF MaxRecords
    <2> QED BY <2>1, ElementOfSeq
  <1>3. Handlers[Signal[r]] \in Seq(Producers)
    BY <1>2, IngestAssumption
  <1>4. 1 \in 1 .. Len(Handlers[Signal[r]])
    BY <1>1, <1>3
  <1>5. Handlers[Signal[r]][1] \in Producers
    BY <1>3, <1>4
  <1> QED BY <1>4, <1>5 DEF Reads

\* Whether a record's calls were made.
LEMMA CallsMade ==
  ASSUME NEW r \in Inputs, NEW S
  PROVE  CallsFor[r] \subseteq S <=> \A p \in Producers : Reads(p, r) => <<p, r>> \in S
  BY DEF CallsFor

\* What may be passed is handled.
LEMMA PastIsHandled ==
  ASSUME Inv, NEW r \in Inputs, Past(r)
  PROVE  r \in Handled
  <1>1. low \in Nat /\ accepted \in 0 .. low - 1 /\ r \in Nat /\ Always(r)
    BY Sizes DEF Inv, Types, NodeTypes, Inputs
  <1>2. CASE accepted < r
    BY <1>1, <1>2, CallsMade DEF Past, Told, Handled
  <1>3. CASE r <= accepted
    BY <1>1, <1>3 DEF Handled
  <1> QED BY <1>1, <1>2, <1>3

\* The contract's records before an offset, in the terms of the ingest.
LEMMA ThroughIs ==
  ASSUME Inv, NEW n \in 0 .. head, \A r \in 1 .. n : r \in Inputs => r \in Handled
  PROVE  Delivery!Through(n)
  <1>1. head \in Nat
    BY Sizes DEF Inv, Types, NodeTypes
  <1>2. \A r \in 1 .. n : [q \in 1 .. head |-> q][r] = r
    BY <1>1
  <1> QED BY <1>2 DEF Delivery!Through

\* An ack that passes only what may be passed.
LEMMA AckDelivers ==
  ASSUME Inv, NEW n \in 0 .. head, Safe(n), NodeAck(n), UNCHANGED <<head, low, done>>
  PROVE  [Delivery!Next]_Delivery!vars
  <1>1. head \in Nat /\ cursor \in 0 .. head
    BY Sizes DEF Inv, Types, NodeTypes
  <1>2. Handled' = Handled
    BY DEF Handled
  <1>3. CASE cursor' = cursor
    BY <1>2, <1>3 DEF Delivery!vars
  <1>4. CASE cursor' # cursor
    <2>1. n \in cursor + 1 .. head /\ cursor' = n
      BY <1>1, <1>4 DEF NodeAck, Larger
    <2>2. \A r \in 1 .. n : r \in Inputs => r \in Handled
      BY PastIsHandled DEF Safe
    <2>3. Delivery!Through(n)
      BY <2>2, ThroughIs
    <2>4. Len([r \in 1 .. head |-> r]) = head
      BY <1>1
    <2>5. Delivery!Pass
      BY <1>2, <2>1, <2>3, <2>4 DEF Delivery!Pass
    <2> QED BY <2>5 DEF Delivery!Next
  <1> QED BY <1>3, <1>4

\* One more record is handled, and those before it were.
LEMMA HandleDelivers ==
  ASSUME Inv, UNCHANGED <<head, cursor>>, NEW i \in 1 .. head,
         Handled' = Handled \/ (i \in Inputs /\ Handled' = Handled \cup {i}),
         \A r \in 1 .. i - 1 : r \in Inputs => r \in Handled
  PROVE  [Delivery!Next]_Delivery!vars
  <1>1. head \in Nat /\ i - 1 \in 0 .. head
    BY Sizes DEF Inv, Types, NodeTypes
  <1>2. CASE Handled' = Handled
    BY <1>2 DEF Delivery!vars
  <1>3. CASE i \in Inputs /\ Handled' = Handled \cup {i}
    <2>1. Delivery!Through(i - 1)
      BY <1>1, ThroughIs
    <2>2. Len([r \in 1 .. head |-> r]) = head /\ [r \in 1 .. head |-> r][i] = i
      BY <1>1
    <2>3. Delivery!Handle
      BY <1>3, <2>1, <2>2 DEF Delivery!Handle
    <2> QED BY <2>3 DEF Delivery!Next
  <1> QED BY <1>2, <1>3

\* Retention takes the oldest record, which is behind no other.
LEMMA PruneDelivers == ASSUME Inv, Prune PROVE [Delivery!Next]_Delivery!vars
  <1>1. low \in 1 .. head /\ head \in Nat /\ low' = low + 1 /\ UNCHANGED <<head, cursor, done>>
    BY Sizes DEF Inv, Types, NodeTypes, Prune, past
  <1>2. Handled' = Handled \/ (low \in Inputs /\ Handled' = Handled \cup {low})
    <2>1. \A r \in Inputs : r < low + 1 <=> r < low \/ r = low
      BY <1>1, Sizes DEF Inputs
    <2>2. Handled' = {r \in Inputs : r < low + 1 \/ CallsFor[r] \subseteq done}
      BY <1>1 DEF Handled
    <2>3. CASE low \in Inputs
      BY <2>1, <2>2, <2>3 DEF Handled
    <2>4. CASE low \notin Inputs
      BY <2>1, <2>2, <2>4 DEF Handled
    <2> QED BY <2>3, <2>4
  <1>3. \A r \in 1 .. low - 1 : r \in Inputs => r \in Handled
    BY <1>1 DEF Handled
  <1> QED BY <1>1, <1>2, <1>3, HandleDelivers

\* A call that returned may be the last one of its record.
LEMMA CallDelivers ==
  ASSUME Inv, pc \in {"records", "reject"}, todo # <<>>, done' = done \cup {Call}, UNCHANGED <<head, low, cursor>>
  PROVE  [Delivery!Next]_Delivery!vars
  <1>1. /\ Call = <<Who, Rec>> /\ Who \in Producers /\ Rec \in 1 .. head
        /\ head \in Nat /\ low \in Nat /\ accepted \in 0 .. low - 1
    BY CallFacts, Sizes DEF Inv, Types, NodeTypes
  <1>2. Handled' = Handled \/ (Rec \in Inputs /\ Handled' = Handled \cup {Rec})
    <2>1. Handled' = {r \in Inputs : r < low \/ CallsFor[r] \subseteq done \cup {Call}}
      BY DEF Handled
    <2>2. \A r \in Inputs : r # Rec => (CallsFor[r] \subseteq done \cup {Call} <=> CallsFor[r] \subseteq done)
      <3>1. \A r \in Inputs, p \in Producers : r # Rec => (<<p, r>> \in done \cup {Call} <=> <<p, r>> \in done)
        BY <1>1
      <3> QED BY <3>1, CallsMade
    <2>3. \A r \in Inputs : r # Rec => (r \in Handled' <=> r \in Handled)
      BY <2>1, <2>2 DEF Handled
    <2>4. Handled \subseteq Handled' /\ Handled' \subseteq Inputs
      BY <2>1 DEF Handled
    <2> QED BY <2>3, <2>4
  <1>3. ASSUME NEW r \in 1 .. Rec - 1, r \in Inputs PROVE r \in Handled
    <2>1. Always(r) /\ (accepted < r => \A p \in Producers : Reads(p, r) => Worked(p, r))
      BY <1>3, EarlierWorked DEF Inputs
    <2>2. CASE accepted < r
      BY <1>3, <2>1, <2>2, CallsMade DEF Worked, Handled
    <2>3. CASE ~(accepted < r)
      BY <1>1, <1>3, <2>3 DEF Handled
    <2> QED BY <2>2, <2>3
  <1> QED BY <1>1, <1>2, <1>3, HandleDelivers

LEMMA AdmitDelivers == ASSUME Inv, Admit PROVE [Delivery!Next]_Delivery!vars
  <1>1. head \in Nat /\ head + 1 \in Records /\ head' = head + 1 /\ UNCHANGED <<low, cursor, done>>
    BY Sizes DEF Inv, Types, NodeTypes, Admit, past
  <1>2. Handled' = Handled
    BY <1>1 DEF Handled
  <1>3. [r \in 1 .. head + 1 |-> r] = Append([r \in 1 .. head |-> r], head + 1)
    BY <1>1, OffsetsGrow DEF Offsets
  <1>4. Delivery!Admit
    BY <1>1, <1>2, <1>3 DEF Delivery!Admit
  <1> QED BY <1>4 DEF Delivery!Next

\* What the contract does not see.
LEMMA SameDelivers ==
  ASSUME UNCHANGED <<head, low, cursor, done>>
  PROVE  [Delivery!Next]_Delivery!vars
  <1>1. Handled' = Handled
    BY DEF Handled
  <1> QED BY <1>1 DEF Delivery!vars

LEMMA EndDelivers ==
  ASSUME Inv, AckSucceeds \/ AckFails \/ AckInTurn \/ AckBeforeFailed
  PROVE  [Delivery!Next]_Delivery!vars
  <1>1. CursorSafe /\ head \in Nat /\ ackSend \in 0 .. head /\ page.ack \in 0 .. head /\ failed \in 0 .. head
    BY Sizes DEF Inv, Types, NodeTypes, ReaderTypes, PageTypes
  <1>2. UNCHANGED <<head, low, done>>
    BY DEF AckSucceeds, AckFails, AckInTurn, AckBeforeFailed, past
  <1>3. CASE cursor' = cursor
    BY <1>2, <1>3, SameDelivers
  <1>4. CASE NodeAck(ackSend)
    BY <1>1, <1>2, <1>4, AckDelivers DEF CursorSafe
  <1>5. CASE AckInTurn /\ NodeAck(page.ack)
    BY <1>1, <1>2, <1>5, AckDelivers DEF CursorSafe, AckInTurn
  <1>6. CASE AckBeforeFailed /\ failed > 1 /\ NodeAck(BeforeFailed)
    <2>1. failed - 1 \in 0 .. head /\ Safe(failed - 1) /\ NodeAck(failed - 1)
      BY <1>1, <1>6 DEF CursorSafe, AckBeforeFailed, BeforeFailed
    <2> QED BY <1>2, <2>1, AckDelivers
  <1> QED BY <1>3, <1>4, <1>5, <1>6 DEF AckSucceeds, AckFails, AckInTurn, AckBeforeFailed

\* The steps that make no call, and move neither the node nor its cursor.
Unseen ==
    \/ WakeOnInput \/ AcceptGap \/ Rebind \/ OtherCommits \/ OtherDefers \/ OtherEnds \/ OtherRollsBack \/ Restart
    \/ Reading
    \/ ProcessGap \/ Process \/ TakeRecord \/ LastRecords \/ SkipHandled
    \/ HandlerRaises \/ HandlerRejects \/ QueueFull \/ RejectFails
    \/ SettleSucceeds \/ SettleFails \/ (\E p \in Checkpointed : SaveCheckpoint(p)) \/ CommitPage \/ QueueAck
    \/ UNCHANGED vars

LEMMA UnseenSame == ASSUME Unseen PROVE UNCHANGED <<head, low, cursor, done>>
  <1>1. CASE WakeOnInput \/ AcceptGap \/ Rebind
    BY <1>1 DEF WakeOnInput, AcceptGap, Rebind, node, past
  <1>2. CASE OtherCommits \/ OtherDefers \/ OtherEnds \/ OtherRollsBack
    BY <1>2 DEF OtherCommits, OtherDefers, OtherEnds, OtherRollsBack, node, past
  <1>3. CASE Restart \/ UNCHANGED vars
    BY <1>3 DEF Restart, vars, node, past
  <1>4. CASE Reading
    <2>1. CASE TakeGeneration \/ Step \/ RestartFromCursor
      BY <2>1 DEF TakeGeneration, Step, RestartFromCursor, node, past
    <2>2. CASE Fetch \/ TakePrefetched \/ FetchFails \/ Wake \/ WakeAtGap
      BY <2>2 DEF Fetch, TakePrefetched, FetchFails, Wake, WakeAtGap, node, past
    <2>3. CASE PrefetchAnswers
      <3>1. UNCHANGED node /\ UNCHANGED past
        BY <2>3, Zenon DEF PrefetchAnswers
      <3> QED BY <3>1 DEF node, past
    <2> QED BY <1>4, <2>1, <2>2, <2>3 DEF Reading
  <1>5. CASE ProcessGap \/ Process \/ TakeRecord \/ LastRecords \/ SkipHandled
    BY <1>5 DEF ProcessGap, Process, TakeRecord, LastRecords, SkipHandled, node, past
  <1>6. CASE HandlerRaises \/ HandlerRejects \/ QueueFull \/ RejectFails
    BY <1>6 DEF HandlerRaises, HandlerRejects, QueueFull, RejectFails, node, past
  <1>7. CASE SettleSucceeds \/ SettleFails \/ (\E p \in Checkpointed : SaveCheckpoint(p)) \/ CommitPage \/ QueueAck
    BY <1>7 DEF SettleSucceeds, SettleFails, SaveCheckpoint, CommitPage, QueueAck, node, past
  <1> QED BY <1>1, <1>2, <1>3, <1>4, <1>5, <1>6, <1>7 DEF Unseen

\* Every step is one of the contract, or none it sees.
LEMMA StepDelivers == ASSUME Inv, [Next]_vars PROVE [Delivery!Next]_Delivery!vars
  <1>1. CASE Unseen
    BY <1>1, UnseenSame, SameDelivers
  <1>2. CASE HandlerReturns \/ RejectRecorded
    <2>1. pc \in {"records", "reject"} /\ todo # <<>>
      BY <1>2 DEF HandlerReturns, RejectRecorded, Calling, Inv, Types, Control
    <2>2. done' = done \cup {Call} /\ UNCHANGED <<head, low, cursor>>
      BY <1>2 DEF HandlerReturns, RejectRecorded, node
    <2> QED BY <2>1, <2>2, CallDelivers
  <1>3. CASE AckSucceeds \/ AckFails \/ AckInTurn \/ AckBeforeFailed
    BY <1>3, EndDelivers
  <1>4. Unseen \/ Admit \/ Prune \/ HandlerReturns \/ RejectRecorded \/ AckSucceeds \/ AckFails \/ AckInTurn \/ AckBeforeFailed
    BY DEF Next, Beside, Handling, Ending, Unseen
  <1> QED BY <1>1, <1>2, <1>3, <1>4, AdmitDelivers, PruneDelivers

\* The ingest implements the contract of a named cursor (ingest.py, _run): it handles
\* the records of its inputs in stream order, each before the cursor passes it, over
\* failures, pages read ahead and again, rebinds, lost acks, rollbacks and stops.
THEOREM ImplementsDelivery == Spec => DeliverySpec
  <1>1. ASSUME Init PROVE Delivery!Init
    <2>1. head = 0 /\ low = 1 /\ cursor = 0 /\ done = {}
      BY <1>1 DEF Init
    <2>2. [r \in 1 .. head |-> r] = <<>>
      <3>1. Offsets(0) \in Seq(Nat) /\ Len(Offsets(0)) = 0
        BY OffsetsGrow
      <3>2. Offsets(0) = <<>>
        BY <3>1, EmptySeq
      <3> QED BY <2>1, <3>2 DEF Offsets
    <2>3. Handled = {}
      <3>1. \A r \in Inputs : ~(r < 1)
        BY Sizes DEF Inputs
      <3>2. \A r \in Inputs : ~(CallsFor[r] \subseteq {})
        BY InputsRead, CallsMade
      <3> QED BY <2>1, <3>1, <3>2 DEF Handled
    <2> QED BY <2>1, <2>2, <2>3 DEF Delivery!Init
  <1> QED BY <1>1, StepDelivers, InvHolds, PTL DEF Spec, DeliverySpec, Delivery!Spec

=============================================================================
