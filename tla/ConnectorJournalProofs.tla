------------------------ MODULE ConnectorJournalProofs ------------------------
(***************************************************************************)
(* Proofs about ConnectorJournal, for every set of signals and values,     *)
(* every size of the journal and of a page, and any number of reads, beats *)
(* and upsets.                                                             *)
(*                                                                         *)
(* The types need two facts that are not types: what is journaled or about *)
(* to be fits and is made of rows (RowsOK), and a page belongs to the call *)
(* that holds the lock (CallOK).  That no sample is lost needs what the    *)
(* in-memory spells stand for, a spell of refusals that was recorded is a  *)
(* finding of the node, and what a page leaves behind when the node took   *)
(* some of it (SampleInv).  That report-by-exception compares with what    *)
(* was journaled needs the rows a poll is about to journal: the latest     *)
(* value is that of the newest row of its signal, journaled or in the      *)
(* batch (LatestInv).                                                      *)
(*                                                                         *)
(* What Without keeps is shown by a least counterexample over the prefixes *)
(* of a sequence.                                                          *)
(***************************************************************************)
EXTENDS ConnectorJournal, SequenceTheorems, FiniteSetTheorems, WellFoundedInduction, TLAPS

-----------------------------------------------------------------------------
(* Sequences of rows *)

LEMMA LeastOf ==
    ASSUME NEW S \in SUBSET Nat, S # {}
    PROVE  \E x \in S : \A y \in S : x <= y
<1>1. PICK x \in S : \A y \in S : <<y, x>> \notin OpToRel(<, Nat)
  BY NatLessThanWellFounded, WFMin, Zenon
<1>2. \A y \in S : ~(y < x)
  BY <1>1, Zenon DEF OpToRel
<1>3. \A y \in S : x <= y
  BY <1>2
<1>. QED  BY <1>3

\* The equation of kept in Without, on a prefix of s.
KeptOf(g, s, gone, n) ==
    [i \in 0 .. n |-> IF i = 0 THEN <<>> ELSE IF s[i] \in gone THEN g[i - 1] ELSE Append(g[i - 1], s[i])]

\* The recursion of Without has a solution on every prefix: a longest prefix would
\* give a solution on the next.
LEMMA KeptExists ==
    ASSUME NEW s, NEW gone, NEW n \in Nat
    PROVE  \E g : g = KeptOf(g, s, gone, n)
<1>. DEFINE F(g, m) == [i \in 0 .. m |-> IF i = 0 THEN <<>> ELSE IF s[i] \in gone THEN g[i - 1] ELSE Append(g[i - 1], s[i])]
            Bad == {m \in Nat : ~ \E g : g = F(g, m)}
<1>1. SUFFICES ASSUME Bad # {} PROVE FALSE
  BY DEF KeptOf
<1>2. PICK m \in Bad : \A y \in Bad : m <= y
  <2>1. Bad \in SUBSET Nat
    OBVIOUS
  <2>. HIDE DEF Bad
  <2>. QED  BY <1>1, <2>1, LeastOf
<1>3. m # 0
  <2>. DEFINE g == [i \in 0 .. 0 |-> <<>>]
  <2>1. g = F(g, 0)
    OBVIOUS
  <2>. QED  BY <2>1
<1>4. m - 1 \in Nat /\ m - 1 \notin Bad
  <2>1. m \in Nat
    BY <1>2
  <2>2. m - 1 \in Nat /\ ~(m <= m - 1)
    BY <1>3, <2>1
  <2>. HIDE DEF Bad
  <2>. QED  BY <1>2, <2>2
<1>5. PICK g : g = F(g, m - 1)
  BY <1>4
<1>. DEFINE h == [i \in 0 .. m |-> IF i = m THEN IF s[m] \in gone THEN g[m - 1] ELSE Append(g[m - 1], s[m]) ELSE g[i]]
<1>6. \A i \in 0 .. m : h[i] = F(h, m)[i]
  <2>. SUFFICES ASSUME NEW i \in 0 .. m PROVE h[i] = F(h, m)[i]
    OBVIOUS
  <2>1. m \in Nat \ {0}
    BY <1>2, <1>3
  <2>2. CASE i = 0
    BY <1>5, <2>1, <2>2
  <2>3. CASE i = m
    <3>1. h[m - 1] = g[m - 1] /\ m - 1 \in 0 .. m
      BY <2>1
    <3>. QED  BY <2>1, <2>3, <3>1
  <2>4. CASE i # 0 /\ i # m
    <3>1. i \in 0 .. m - 1 /\ i - 1 \in 0 .. m /\ i - 1 # m
      BY <2>1, <2>4
    <3>2. h[i] = g[i] /\ h[i - 1] = g[i - 1]
      BY <2>4, <3>1
    <3>. QED  BY <1>5, <2>4, <3>1, <3>2
  <2>. QED  BY <2>2, <2>3, <2>4
<1>7. h = F(h, m)
  <2>1. DOMAIN h = 0 .. m /\ h = [i \in 0 .. m |-> h[i]]
    OBVIOUS
  <2>2. F(h, m) = [i \in 0 .. m |-> F(h, m)[i]]
    OBVIOUS
  <2>. HIDE DEF h, F
  <2>. QED  BY <1>6, <2>1, <2>2
<1>. QED  BY <1>2, <1>7

LEMMA AppendRange ==
    ASSUME NEW S, NEW q \in Seq(S), NEW r \in S
    PROVE  Range(Append(q, r)) = Range(q) \cup {r}
<1>1. DOMAIN q = 1 .. Len(q) /\ DOMAIN Append(q, r) = 1 .. Len(q) + 1 /\ Len(q) \in Nat
  OBVIOUS
<1>2. Append(q, r)[Len(q) + 1] = r /\ \A i \in 1 .. Len(q) : Append(q, r)[i] = q[i]
  OBVIOUS
<1>3. 1 .. Len(q) + 1 = (1 .. Len(q)) \cup {Len(q) + 1}
  BY <1>1
<1>. QED  BY <1>1, <1>2, <1>3 DEF Range

\* Without removes the rows that are gone, and nothing else.
LEMMA WithoutRows ==
    ASSUME NEW S, NEW s \in Seq(S), NEW gone
    PROVE  /\ Without(s, gone) \in Seq(S) /\ Len(Without(s, gone)) <= Len(s)
           /\ Range(Without(s, gone)) = Range(s) \ gone
<1>. DEFINE kept == CHOOSE g : g = KeptOf(g, s, gone, Len(s))
            P(i) == /\ kept[i] \in Seq(S) /\ Len(kept[i]) <= i
                    /\ Range(kept[i]) = {s[k] : k \in 1 .. i} \ gone
            Bad == {i \in 0 .. Len(s) : ~P(i)}
<1>1. Without(s, gone) = kept[Len(s)]
  BY DEF Without, KeptOf
<1>2. kept = KeptOf(kept, s, gone, Len(s))
  <2>1. Len(s) \in Nat
    OBVIOUS
  <2>. QED  BY <2>1, KeptExists
<1>3. Len(s) \in Nat /\ DOMAIN s = 1 .. Len(s) /\ \A i \in 1 .. Len(s) : s[i] \in S
  OBVIOUS
<1>4. kept[0] = <<>> /\ \A i \in 1 .. Len(s) : kept[i] = IF s[i] \in gone THEN kept[i - 1] ELSE Append(kept[i - 1], s[i])
  <2>. HIDE DEF kept
  <2>1. 0 \in 0 .. Len(s) /\ \A i \in 1 .. Len(s) : i \in 0 .. Len(s) /\ i # 0
    BY <1>3
  <2>. QED  BY <1>2, <2>1 DEF KeptOf
<1>. HIDE DEF kept
<1>5. P(0)
  <2>1. kept[0] \in Seq(S) /\ Len(kept[0]) <= 0 /\ DOMAIN kept[0] = {}
    BY <1>4
  <2>2. Range(kept[0]) = {} /\ 1 .. 0 = {}
    BY <2>1 DEF Range
  <2>. QED  BY <2>1, <2>2
<1>6. ASSUME NEW i \in 1 .. Len(s), P(i - 1) PROVE P(i)
  <2>1. {s[k] : k \in 1 .. i} = {s[k] : k \in 1 .. i - 1} \cup {s[i]}
    <3>1. 1 .. i = (1 .. i - 1) \cup {i}
      BY <1>3
    <3>. QED  BY <3>1
  <2>2. CASE s[i] \in gone
    <3>1. kept[i] = kept[i - 1] /\ i - 1 <= i /\ Len(kept[i - 1]) \in Int /\ i \in Int
      BY <1>3, <1>4, <1>6, <2>2
    <3>2. Len(kept[i]) <= i
      BY <1>6, <3>1
    <3>3. Range(kept[i]) = {s[k] : k \in 1 .. i} \ gone
      BY <1>6, <2>1, <2>2, <3>1
    <3>. QED  BY <1>6, <3>1, <3>2, <3>3
  <2>3. CASE s[i] \notin gone
    <3>1. PICK q \in Seq(S) : q = kept[i - 1]
      BY <1>6
    <3>2. PICK r \in S : r = s[i]
      BY <1>3
    <3>3. kept[i] = Append(q, r) /\ Len(q) <= i - 1 /\ i \in Int
      <4>1. kept[i] = Append(q, r)
        BY <1>4, <2>3, <3>1, <3>2
      <4>. QED  BY <1>3, <1>6, <3>1, <4>1
    <3>4. Append(q, r) \in Seq(S) /\ Len(Append(q, r)) = Len(q) + 1 /\ Len(q) \in Nat
      OBVIOUS
    <3>5. Range(Append(q, r)) = Range(q) \cup {r}
      BY AppendRange
    <3>6. Len(kept[i]) <= i
      BY <3>3, <3>4
    <3>7. Range(kept[i]) = {s[k] : k \in 1 .. i} \ gone
      BY <1>6, <2>1, <2>3, <3>1, <3>2, <3>3, <3>5
    <3>. QED  BY <3>3, <3>4, <3>6, <3>7
  <2>. QED  BY <2>2, <2>3
<1>7. Bad = {}
  <2>1. SUFFICES ASSUME Bad # {} PROVE FALSE
    OBVIOUS
  <2>2. Bad \in SUBSET Nat
    BY <1>3
  <2>3. PICK m \in Bad : \A y \in Bad : m <= y
    <3>. HIDE DEF Bad
    <3>. QED  BY <2>1, <2>2, LeastOf
  <2>. HIDE DEF P
  <2>4. m \in 1 .. Len(s)
    BY <1>3, <1>5, <2>3
  <2>5. m - 1 \notin Bad
    <3>. HIDE DEF Bad
    <3>. QED  BY <1>3, <2>3, <2>4
  <2>6. P(m - 1)
    BY <1>3, <2>4, <2>5
  <2>. QED  BY <1>6, <2>3, <2>4, <2>6
<1>8. P(Len(s))
  <2>. HIDE DEF P
  <2>. QED  BY <1>3, <1>7
<1>9. {s[k] : k \in 1 .. Len(s)} = Range(s)
  BY <1>3 DEF Range
<1>. QED  BY <1>1, <1>8, <1>9

\* What SetToSeq makes of a finite set has its elements and no other.
LEMMA SetToSeqRange ==
    ASSUME NEW S, IsFiniteSet(S)
    PROVE  SetToSeq(S) \in Seq(S) /\ Range(SetToSeq(S)) = S /\ Len(SetToSeq(S)) = Cardinality(S)
<1>. DEFINE n == Cardinality(S)
            f == SetToSeq(S)
<1>1. n \in Nat /\ ExistsBijection(1 .. n, S)
  BY FS_CardinalityType
<1>2. PICK g : g \in Bijection(1 .. n, S)
  BY <1>1 DEF ExistsBijection
<1>3. g \in [1 .. n -> S] /\ IsInjective(g)
  BY <1>2 DEF Bijection, Injection, IsInjective, Surjection
<1>4. f \in [1 .. n -> S] /\ IsInjective(f)
  BY <1>3 DEF SetToSeq
<1>5. f \in Injection(1 .. n, S)
  BY <1>4 DEF Injection, IsInjective
<1>6. IsFiniteSet(1 .. n) /\ Cardinality(1 .. n) = n
  BY <1>1, FS_Interval
<1>. HIDE DEF f
<1>7. f \in Surjection(1 .. n, S)
  BY <1>5, <1>6, FS_Injection
<1>8. f \in Seq(S) /\ Len(f) = n
  BY <1>1, <1>4
<1>9. Range(f) = S
  BY <1>4, <1>7 DEF Range, Surjection
<1>. QED  BY <1>8, <1>9 DEF f

-----------------------------------------------------------------------------
(* The invariants *)

\* The rows: what is journaled or about to be is a row, and the journal's bound holds.
RowsOK ==
    /\ journal \in Seq(Row) /\ Len(journal) <= MaxPending
    /\ Range(journal) \subseteq taken /\ taken \subseteq Row
    /\ batch \in Seq(Row) /\ (pc = "append" \/ batch = <<>>)
    /\ targets \subseteq Signals /\ bad \subseteq Signals
    /\ reads \in 0 .. MaxReads /\ beats \in 0 .. MaxBeats

\* The lock: who holds it is at a step that does, and a page belongs to a call.
CallOK ==
    /\ who \in {None, "poll", Beat} /\ (who = None => page = {} /\ left = 0)
    /\ left \in 0 .. Pages /\ (page # {} => left > 0)
    /\ pc \in {"drain", "send"} <=> who = "poll"
    /\ bpc = "send" <=> who = Beat

TypeInv == RowsOK /\ CallOK

\* A step outside the calls: the journal, the lock and what the node has of the
\* samples stay, and no spell of refusals begins.
Outside ==
    /\ UNCHANGED <<journal, call, taken, got, named, bad>>
    /\ pc' = pc \/ {pc, pc'} \cap {"drain", "send"} = {}
    /\ bpc' = bpc \/ "send" \notin {bpc, bpc'}
    /\ found \subseteq found'
    /\ \A s \in Signals : spell'[s] = "refused" => spell[s] = "refused"

\* And what a poll read is the same.
Idle ==
    /\ Outside
    /\ UNCHANGED <<latest, batch, reads>> /\ (pc' = "append" \/ pc # "append")

\* The steps that are neither a poll's read, nor of a call.
Elsewhere ==
    \/ Serve \/ Rediscover \/ PublishCatalogue \/ PollStarts \/ PollLoses \/ Reconnect
    \/ HeartBeats \/ BeatSkips \/ BeatDies \/ Writes
    \/ LinkDrops \/ LinkReturns \/ DoorDrops \/ DoorReturns \/ SourceDrops \/ SourceReturns \/ Binds \/ Retires

\* The steps that end the process.
Stops == PollDies \/ Crash

LEMMA NextCases ==
    ASSUME Next
    PROVE  Elsewhere \/ PollReads \/ PollDrains \/ PollAppends \/ BeatAppends \/ Stops \/ Publishing
  BY DEF Next, Polling, Beating, World, Elsewhere, Stops

LEMMA ElsewhereIdle ==
    ASSUME Elsewhere
    PROVE  Idle
<1>1. CASE Serve \/ Rediscover \/ PublishCatalogue
  BY <1>1 DEF Serve, Rediscover, PublishCatalogue, Idle, Outside, world, wired, poll, beating, call, node, bounds
<1>2. CASE PollStarts \/ PollLoses \/ Reconnect
  BY <1>2 DEF PollStarts, PollLoses, Reconnect, Idle, Outside, world, wired, poll, beating, call, node, bounds
<1>3. CASE HeartBeats \/ BeatSkips \/ BeatDies
  BY <1>3 DEF HeartBeats, BeatSkips, BeatDies, Idle, Outside, world, wired, poll, beating, call, node, bounds
<1>4. CASE Writes
  BY <1>4 DEF Writes, WriteStarts, WriteLoses, WriteAnswered, Idle, Outside, world, wired, poll, beating, call, node, bounds
<1>5. CASE Binds \/ Retires
  BY <1>5 DEF Binds, Retires, Idle, Outside, world, wired, poll, beating, call, node, bounds
<1>6. CASE LinkDrops \/ LinkReturns \/ DoorDrops \/ DoorReturns \/ SourceDrops \/ SourceReturns
  BY <1>6 DEF LinkDrops, LinkReturns, DoorDrops, DoorReturns, SourceDrops, SourceReturns, Others,
              Idle, Outside, world, wired, poll, beating, call, node, bounds
<1>. QED  BY <1>1, <1>2, <1>3, <1>4, <1>5, <1>6 DEF Elsewhere

\* What a call leaves when it ends: the poll or the thread goes on.
LEMMA AfterMoves ==
    ASSUME NEW kind, After(kind), who \in {"poll", Beat}
    PROVE  /\ UNCHANGED <<latest, batch, wired>>
           /\ \/ who = Beat /\ bpc' = "idle" /\ pc' = pc
              \/ who = "poll" /\ pc' \in {"top", "read", "reconnect"} /\ bpc' = bpc
<1>1. CASE who = Beat
  BY <1>1 DEF After, poll
<1>2. CASE who # Beat
  <2>1. UNCHANGED <<latest, batch, wired, beating>> /\ pc' \in {"top", "read", "reconnect"}
    BY <1>2 DEF After
  <2>. QED  BY <1>2, <2>1 DEF beating
<1>. QED  BY <1>1, <1>2

\* A step of the call: it removes rows or none, and takes none.
LEMMA CallSteps ==
    ASSUME CallOK, Publishing
    PROVE  /\ who \in {"poll", Beat} /\ UNCHANGED <<taken, reads, beats, named, bad, latest, batch, wired>>
           /\ journal' = journal \/ \E gone : journal' = Without(journal, gone)
           /\ found \subseteq found'
<1>0. who \in {"poll", Beat}
  BY DEF CallOK, Publishing, Post, Decide, DecideFails, Return, PostFails, ReplyLost
<1>1. CASE Post
  BY <1>0, <1>1 DEF Post, bounds, world, poll
<1>2. CASE Decide
  <2>1. UNCHANGED <<latest, batch, wired>>
    <3>1. CASE After("refused")
      BY <1>0, <3>1, AfterMoves
    <3>2. CASE UNCHANGED <<wired, poll>>
      BY <3>2 DEF poll
    <3>. QED  BY <1>2, <3>1, <3>2 DEF Decide
  <2>2. journal' = Without(journal, Finals) /\ found' = found \cup Unrecorded
    BY <1>2 DEF Decide, SetAside
  <2>3. UNCHANGED <<taken, reads, beats, named, bad>>
    BY <1>2 DEF Decide, bounds, world
  <2>. QED  BY <1>0, <2>1, <2>2, <2>3
<1>3. CASE DecideFails \/ Return \/ PostFails \/ ReplyLost
  <2>1. UNCHANGED <<latest, batch, wired>>
    BY <1>0, <1>3, AfterMoves DEF DecideFails, Return, PostFails, ReplyLost
  <2>2. UNCHANGED <<journal, taken, reads, beats, named, bad, found>>
    BY <1>3 DEF DecideFails, Return, PostFails, ReplyLost, bounds, world, node
  <2>. QED  BY <1>0, <2>1, <2>2
<1>. QED  BY <1>1, <1>2, <1>3 DEF Publishing

-----------------------------------------------------------------------------
(* Every variable keeps its type *)

\* A step that adds no row.
LEMMA RowsKept ==
    ASSUME RowsOK, journal' = journal \/ \E gone : journal' = Without(journal, gone),
           UNCHANGED <<taken, bad>>, batch' \in Seq(Row), pc' = "append" \/ batch' = <<>>,
           targets' \subseteq Signals, reads' \in 0 .. MaxReads, beats' \in 0 .. MaxBeats
    PROVE  RowsOK'
<1>1. journal' \in Seq(Row) /\ Len(journal') <= Len(journal) /\ Range(journal') \subseteq Range(journal)
  <2>1. journal \in Seq(Row)
    BY DEF RowsOK
  <2>2. CASE journal' = journal
    BY <2>1, <2>2
  <2>3. ASSUME NEW gone, journal' = Without(journal, gone)
        PROVE  journal' \in Seq(Row) /\ Len(journal') <= Len(journal) /\ Range(journal') \subseteq Range(journal)
    BY <2>1, <2>3, WithoutRows
  <2>. QED  BY <2>2, <2>3
<1>2. Len(journal') <= MaxPending
  BY <1>1, ConnectorAssumption DEF RowsOK
<1>. QED  BY <1>1, <1>2 DEF RowsOK, Row

\* A call that entered with some rows.
LEMMA EnterRows ==
    ASSUME RowsOK, CallOK, NEW t \in {"poll", Beat}, NEW rows \in Seq(Row), Enter(t, rows)
    PROVE  /\ journal' \in Seq(Row) /\ Len(journal') <= MaxPending
           /\ Range(journal') = Range(journal) \cup Range(rows) /\ Range(journal') \subseteq taken'
           /\ taken' = taken \cup Range(rows) /\ taken' \subseteq Row
           /\ who = None /\ who' = t /\ left' = Pages /\ page' = {} /\ UNCHANGED some
<1>1. journal \in Seq(Row) /\ journal' = journal \o rows /\ taken' = taken \cup Range(rows)
  BY DEF RowsOK, Enter
<1>2. journal' \in Seq(Row) /\ Len(journal') = Len(journal) + Len(rows)
  BY <1>1, ConcatProperties
<1>3. Range(journal') = Range(journal) \cup Range(rows)
  BY <1>1, RangeConcatenation
<1>4. Range(rows) \subseteq Row
  BY DEF Range
<1>5. Len(journal') <= MaxPending
  BY <1>2 DEF Enter, Room
<1>6. who = None /\ who' = t /\ left' = Pages /\ page' = {} /\ UNCHANGED some
  BY DEF Enter, CallOK
<1>. QED  BY <1>1, <1>2, <1>3, <1>4, <1>5, <1>6 DEF RowsOK

LEMMA EmptyRows == <<>> \in Seq(Row) /\ Range(<<>>) = {}
  BY DEF Range

\* A beat's row.
LEMMA BeatRow ==
    ASSUME RowsOK
    PROVE  /\ <<[sig |-> Beat, val |-> beats % 2, at |-> beats]>> \in Seq(Row)
           /\ Range(<<[sig |-> Beat, val |-> beats % 2, at |-> beats]>>) = {[sig |-> Beat, val |-> beats % 2, at |-> beats]}
<1>. DEFINE row == [sig |-> Beat, val |-> beats % 2, at |-> beats]
<1>1. beats \in Nat /\ beats <= MaxBeats /\ MaxReads \in Nat /\ MaxBeats \in Nat
  BY ConnectorAssumption DEF RowsOK
<1>2. beats % 2 \in {0, 1} /\ beats \in 0 .. MaxReads + MaxBeats
  BY <1>1
<1>3. row \in Row
  BY <1>2 DEF Row
<1>. HIDE DEF row
<1>4. <<row>> \in Seq(Row) /\ DOMAIN <<row>> = {1} /\ <<row>>[1] = row
  BY <1>3
<1>5. Range(<<row>>) = {row}
  BY <1>4 DEF Range
<1>. QED  BY <1>4, <1>5 DEF row

\* What a poll read and has to send: one row of each signal it sends, with the
\* reading that becomes the latest.
ReadOf(r, sent) == {[sig |-> s, val |-> r[s], at |-> reads'] : s \in sent}

LEMMA PollBatch ==
    ASSUME RowsOK, PollReads
    PROVE  \E r \in [targets -> Values \cup {NaN, None}] : \E sent \in SUBSET targets :
              /\ \A s \in sent : r[s] \in Values
              /\ reads' \in 0 .. MaxReads /\ reads' >= reads /\ (sent # {} => reads' > reads)
              /\ latest' = [s \in Signals |-> IF s \in sent THEN r[s] ELSE latest[s]]
              /\ batch' \in Seq(Row) /\ Range(batch') = ReadOf(r, sent)
<1>1. PICK r \in [targets -> Values \cup {NaN, None}] :
          LET fine == {s \in targets : r[s] \in Values}
          IN  \E sent \in SUBSET fine :
                /\ \A s \in fine \ sent : MayOmit(s, r[s])
                /\ sent # {} => reads < MaxReads
                /\ reads' = IF sent = {} THEN reads ELSE reads + 1
                /\ SetsAside({s \in targets : r[s] = NaN})
                /\ latest' = [s \in Signals |-> IF s \in sent THEN r[s] ELSE latest[s]]
                /\ LET order == SetToSeq(sent)
                   IN  batch' = [i \in DOMAIN order |-> [sig |-> order[i], val |-> r[order[i]], at |-> reads']]
  BY DEF PollReads
<1>2. PICK sent \in SUBSET {s \in targets : r[s] \in Values} :
                /\ sent # {} => reads < MaxReads
                /\ reads' = IF sent = {} THEN reads ELSE reads + 1
                /\ latest' = [s \in Signals |-> IF s \in sent THEN r[s] ELSE latest[s]]
                /\ batch' = [i \in DOMAIN SetToSeq(sent) |->
                                [sig |-> SetToSeq(sent)[i], val |-> r[SetToSeq(sent)[i]], at |-> reads']]
  BY <1>1
<1>3. reads' \in 0 .. MaxReads /\ reads' >= reads /\ (sent # {} => reads' > reads)
  BY <1>2, ConnectorAssumption DEF RowsOK
<1>4. sent \subseteq Signals /\ IsFiniteSet(sent)
  BY <1>2, ConnectorAssumption, FS_Subset DEF RowsOK
<1>5. PICK q \in Seq(sent) : q = SetToSeq(sent) /\ Range(q) = sent
  BY <1>4, SetToSeqRange
<1>6. PICK m \in 0 .. MaxReads : m = reads'
  BY <1>3
<1>. DEFINE row(s) == [sig |-> s, val |-> r[s], at |-> m]
<1>7. batch' = [i \in DOMAIN q |-> row(q[i])]
  BY <1>2, <1>5, <1>6
<1>8. \A s \in sent : row(s) \in Row
  <2>1. m \in 0 .. MaxReads + MaxBeats
    BY <1>6, ConnectorAssumption
  <2>. QED  BY <1>2, <1>4, <2>1 DEF Row
<1>9. ReadOf(r, sent) = {row(s) : s \in sent}
  BY <1>6 DEF ReadOf
<1>. HIDE DEF row
<1>10. batch' \in Seq(Row) /\ DOMAIN batch' = DOMAIN q /\ \A i \in DOMAIN q : batch'[i] = row(q[i])
  <2>1. \A i \in DOMAIN q : q[i] \in sent
    OBVIOUS
  <2>2. DOMAIN q = 1 .. Len(q) /\ Len(q) \in Nat
    OBVIOUS
  <2>. QED  BY <1>7, <1>8, <2>1, <2>2
<1>11. Range(batch') = {row(s) : s \in sent}
  <2>1. Range(batch') = {row(q[i]) : i \in DOMAIN q}
    BY <1>10 DEF Range
  <2>2. sent = {q[i] : i \in DOMAIN q}
    BY <1>5 DEF Range
  <2>. QED  BY <2>1, <2>2
<1>. QED  BY <1>2, <1>3, <1>9, <1>10, <1>11

LEMMA RowsNext ==
    ASSUME TypeInv, Next
    PROVE  RowsOK'
<1>. RowsOK /\ CallOK
  BY DEF TypeInv
<1>1. CASE Elsewhere
  <2>1. Idle
    BY <1>1, ElsewhereIdle
  <2>2. targets' \subseteq Signals /\ beats' \in 0 .. MaxBeats
    <3>1. CASE PollStarts
      BY <3>1 DEF PollStarts, Targets, RowsOK, bounds
    <3>2. CASE Binds \/ Retires
      BY <3>2 DEF Binds, Retires, RowsOK, bounds
    <3>3. CASE HeartBeats
      BY <3>3, ConnectorAssumption DEF HeartBeats, RowsOK, wired
    <3>4. CASE UNCHANGED <<targets, bound, beats>>
      BY <3>4 DEF RowsOK
    <3>5. Elsewhere => PollStarts \/ Binds \/ Retires \/ HeartBeats \/ UNCHANGED <<targets, bound, beats>>
      BY DEF Elsewhere, Serve, Rediscover, PublishCatalogue, PollLoses, Reconnect, BeatSkips, BeatDies,
             Writes, WriteStarts, WriteLoses, WriteAnswered, LinkDrops, LinkReturns, DoorDrops, DoorReturns,
             SourceDrops, SourceReturns, Others, wired, bounds
    <3>. QED  BY <1>1, <3>1, <3>2, <3>3, <3>4, <3>5
  <2>3. batch' \in Seq(Row) /\ (pc' = "append" \/ batch' = <<>>) /\ reads' \in 0 .. MaxReads
    BY <2>1 DEF Idle, RowsOK
  <2>4. UNCHANGED <<journal, taken, bad>>
    BY <2>1 DEF Idle, Outside
  <2>. QED  BY <2>2, <2>3, <2>4, RowsKept
<1>2. CASE PollReads
  <2>1. batch' \in Seq(Row) /\ reads' \in 0 .. MaxReads
    BY <1>2, PollBatch
  <2>2. pc' = "append" /\ UNCHANGED <<journal, taken, bad, targets, bound, beats>>
    BY <1>2 DEF PollReads, wired, world
  <2>3. targets' \subseteq Signals /\ beats' \in 0 .. MaxBeats
    BY <2>2 DEF RowsOK
  <2>. QED  BY <2>1, <2>2, <2>3, RowsKept
<1>3. CASE PollDrains
  <2>1. Enter("poll", <<>>) /\ pc' = "drain" /\ UNCHANGED <<batch, targets, bound, bad, reads, beats>> /\ pc = "await"
    BY <1>3 DEF PollDrains, wired, world
  <2>. QED  BY <2>1, EnterRows, EmptyRows DEF RowsOK, Row
<1>4. CASE PollAppends
  <2>1. Enter("poll", batch) /\ batch' = <<>> /\ UNCHANGED <<targets, bound, bad, reads, beats>>
    BY <1>4 DEF PollAppends, wired, world
  <2>2. PICK rows \in Seq(Row) : Enter("poll", rows)
    BY <2>1 DEF RowsOK
  <2>. QED  BY <2>1, <2>2, EnterRows, EmptyRows DEF RowsOK
<1>5. CASE BeatAppends
  <2>1. /\ Enter(Beat, <<[sig |-> Beat, val |-> beats % 2, at |-> beats]>>)
        /\ UNCHANGED <<pc, batch, targets, bound, bad, reads, beats>>
    BY <1>5 DEF BeatAppends, wired, world, poll
  <2>2. PICK rows \in Seq(Row) : Enter(Beat, rows)
    BY <2>1, BeatRow
  <2>. QED  BY <2>1, <2>2, EnterRows DEF RowsOK, Row
<1>6. CASE Stops
  <2>1. Ends
    BY <1>6 DEF Stops, PollDies, Crash
  <2>2. targets' = {} /\ batch' = <<>> /\ UNCHANGED <<bound, journal, taken, bad, reads, beats>>
    BY <2>1 DEF Ends, world, bounds
  <2>. QED  BY <2>2, RowsKept DEF RowsOK
<1>7. CASE Publishing
  <2>1. /\ UNCHANGED <<taken, reads, beats, bad, batch, targets, bound>>
        /\ journal' = journal \/ \E gone : journal' = Without(journal, gone)
        /\ who \in {"poll", Beat}
    BY <1>7, CallSteps DEF wired
  <2>2. batch = <<>> \/ pc' = pc
    <3>1. CASE who = "poll"
      BY <3>1 DEF CallOK, RowsOK
    <3>2. CASE who = Beat
      <4>1. pc' = pc
        BY <1>7, <3>2, AfterMoves, ConnectorAssumption
           DEF Publishing, Post, Decide, DecideFails, Return, PostFails, ReplyLost, poll
      <4>. QED  BY <4>1
    <3>. QED  BY <2>1, <3>1, <3>2
  <2>. QED  BY <2>1, <2>2, RowsKept DEF RowsOK
<1>. QED  BY <1>1, <1>2, <1>3, <1>4, <1>5, <1>6, <1>7, NextCases

LEMMA CallNext ==
    ASSUME TypeInv, Next
    PROVE  CallOK'
<1>. RowsOK /\ CallOK
  BY DEF TypeInv
<1>0. Beat # "poll" /\ None \notin {Beat, "poll"} /\ Pages \in Nat \ {0}
  BY ConnectorAssumption
<1>1. CASE Outside
  BY <1>1 DEF Outside, CallOK, call
<1>2. CASE PollReads
  <2>1. Outside
    BY <1>2 DEF PollReads, SetsAside, Outside, world, wired, poll, beating, call, node, bounds
  <2>. QED  BY <1>1, <2>1
<1>3. CASE PollDrains
  <2>1. Enter("poll", <<>>) /\ pc' = "drain" /\ bpc' = bpc
    BY <1>3 DEF PollDrains, beating
  <2>. QED  BY <1>0, <2>1 DEF Enter, CallOK
<1>4. CASE PollAppends
  <2>1. Enter("poll", batch) /\ pc' = "send" /\ bpc' = bpc
    BY <1>4 DEF PollAppends, beating
  <2>. QED  BY <1>0, <2>1 DEF Enter, CallOK
<1>5. CASE BeatAppends
  <2>1. bpc' = "send" /\ pc' = pc /\ who = None /\ who' = Beat /\ left' = Pages /\ page' = page
    BY <1>5 DEF BeatAppends, Enter, poll
  <2>. QED  BY <1>0, <2>1 DEF CallOK
<1>6. CASE Stops
  <2>1. Ends
    BY <1>6 DEF Stops, PollDies, Crash
  <2>. QED  BY <1>0, <2>1 DEF Ends, CallOK
<1>7. CASE Publishing
  <2>0. who \in {"poll", Beat}
    BY <1>7, CallSteps
  <2>1. ASSUME NEW kind, After(kind), Leaves PROVE CallOK'
    <3>1. \/ who = Beat /\ bpc' = "idle" /\ pc' = pc
          \/ who = "poll" /\ pc' \in {"top", "read", "reconnect"} /\ bpc' = bpc
      BY <2>0, <2>1, AfterMoves
    <3>. QED  BY <1>0, <2>1, <3>1 DEF Leaves, CallOK
  <2>2. CASE Post
    BY <2>2 DEF Post, CallOK, poll, beating
  <2>3. CASE Decide
    <3>1. CASE Leaves /\ After("refused")
      BY <2>1, <3>1
    <3>2. CASE page' = {} /\ left' = left - 1 /\ UNCHANGED <<who, poll, beating>>
      <4>1. left \in 1 .. Pages
        BY <1>0, <2>3 DEF Decide, CallOK
      <4>. QED  BY <1>0, <3>2, <4>1 DEF CallOK, poll, beating
    <3>. QED  BY <2>3, <3>1, <3>2 DEF Decide
  <2>4. CASE DecideFails \/ Return \/ PostFails \/ ReplyLost
    BY <2>1, <2>4 DEF DecideFails, Return, PostFails, ReplyLost
  <2>. QED  BY <1>7, <2>2, <2>3, <2>4 DEF Publishing
<1>. QED  BY <1>1, <1>2, <1>3, <1>4, <1>5, <1>6, <1>7, NextCases, ElsewhereIdle DEF Idle

LEMMA TypeInit == Init => TypeInv
<1>. SUFFICES ASSUME Init PROVE TypeInv
  OBVIOUS
<1>1. RowsOK
  <2>1. journal = <<>> /\ Len(journal) = 0 /\ Range(journal) = {} /\ journal \in Seq(Row)
    BY EmptyRows DEF Init
  <2>. QED  BY <2>1, EmptyRows, ConnectorAssumption DEF Init, Fresh, RowsOK
<1>2. CallOK
  BY ConnectorAssumption DEF Init, Fresh, CallOK
<1>. QED  BY <1>1, <1>2 DEF TypeInv

LEMMA TypeStutter == TypeInv /\ UNCHANGED vars => TypeInv'
  BY DEF TypeInv, RowsOK, CallOK, Row, vars, world, wired, poll, beating, call, bounds

LEMMA TypeAlways == Spec => []TypeInv
<1>1. TypeInv /\ [Next]_vars => TypeInv'
  BY RowsNext, CallNext, TypeStutter DEF TypeInv
<1>. QED  BY <1>1, TypeInit, PTL DEF Spec

\* The journal keeps within its limit, what is in it was acquired, and the thread
\* that holds the lock of the journal is at a step of its own that does.
THEOREM TypeCorrect == Spec => []TypeOK
<1>1. TypeInv => TypeOK
  BY DEF TypeInv, RowsOK, CallOK, TypeOK
<1>. QED  BY <1>1, TypeAlways, PTL

-----------------------------------------------------------------------------
(* No sample is lost *)

\* A spell of refusals that was recorded is in the findings, and what a node that
\* admits some of a page leaves of it was refused for good.
SpellsFound == \A s \in Signals : spell[s] = "refused" => s \in found
SomeLeaveBad == page # {} /\ some => \A r \in Refused : r.sig \in bad

SampleInv == SampleKept /\ SpellsFound /\ SomeLeaveBad

\* A step that forgets nothing, and leaves the page alone.
LEMMA SampleOutside ==
    ASSUME SampleInv, taken' = taken, Range(journal) \subseteq Range(journal'), got \subseteq got', found \subseteq found', bad' = bad,
           \A s \in Signals : spell'[s] = "refused" => spell[s] = "refused",
           page' = {} \/ UNCHANGED <<page, some, journal>>
    PROVE  SampleInv'
<1>1. SampleKept'
  BY DEF SampleInv, SampleKept
<1>2. SpellsFound'
  BY DEF SampleInv, SpellsFound
<1>3. SomeLeaveBad'
  BY DEF SampleInv, SomeLeaveBad, Refused
<1>. QED  BY <1>1, <1>2, <1>3 DEF SampleInv

\* A call that enters journals what it takes.
LEMMA SampleEnters ==
    ASSUME TypeInv, SampleInv, NEW t \in {"poll", Beat}, NEW rows \in Seq(Row), Enter(t, rows), UNCHANGED <<got, found, bad, spell>>
    PROVE  SampleInv'
<1>1. Range(journal') = Range(journal) \cup Range(rows) /\ taken' = taken \cup Range(rows) /\ page' = {}
  BY EnterRows DEF TypeInv
<1>2. SampleKept'
  BY <1>1 DEF SampleInv, SampleKept
<1>3. SpellsFound' /\ SomeLeaveBad'
  BY <1>1 DEF SampleInv, SpellsFound, SomeLeaveBad
<1>. QED  BY <1>2, <1>3 DEF SampleInv

\* The node keeps what it admits, and what it does not is refused for good.
LEMMA SamplePosted ==
    ASSUME TypeInv, SampleInv, Post
    PROVE  SampleInv'
<1>1. page' = Page /\ UNCHANGED <<taken, found, bad>> /\ page = {}
  BY DEF Post, bounds, world
<1>2. journal \in Seq(Row)
  BY DEF TypeInv, RowsOK
<1>3. CASE /\ some' = (Admitted # {}) /\ got' = got \cup Admitted
           /\ journal' = Without(journal, Admitted)
           /\ spell' = [s \in Signals |-> IF s \in {r.sig : r \in Admitted} THEN None ELSE spell[s]]
  <2>1. Range(journal') = Range(journal) \ Admitted
    BY <1>2, <1>3, WithoutRows
  <2>2. SampleKept'
    BY <1>1, <1>3, <2>1 DEF SampleInv, SampleKept
  <2>3. SpellsFound'
    <3>1. None # "refused"
      BY ConnectorAssumption
    <3>. QED  BY <1>1, <1>3, <3>1 DEF SampleInv, SpellsFound
  <2>4. SomeLeaveBad'
    BY <1>1, <2>1 DEF SomeLeaveBad, Refused, Admitted
  <2>. QED  BY <2>2, <2>3, <2>4 DEF SampleInv
<1>4. CASE some' = FALSE /\ UNCHANGED <<got, journal, spell>>
  BY <1>1, <1>4 DEF SampleInv, SampleKept, SpellsFound, SomeLeaveBad
<1>. QED  BY <1>3, <1>4 DEF Post

\* A row that is set aside was refused for good, and the finding of its signal is there.
LEMMA SampleDecided ==
    ASSUME TypeInv, SampleInv, Decide
    PROVE  SampleInv'
<1>1. page # {} /\ page' = {} /\ UNCHANGED <<taken, got, bad>>
  BY DEF Decide, Leaves, bounds, world
<1>2. /\ journal' = Without(journal, Finals) /\ found' = found \cup Unrecorded
      /\ spell' = [s \in Signals |-> IF s \in {r.sig : r \in Finals} THEN "refused" ELSE spell[s]]
  BY DEF Decide, SetAside
<1>3. Range(journal') = Range(journal) \ Finals
  BY <1>2, WithoutRows DEF TypeInv, RowsOK
<1>4. ASSUME NEW r \in Finals PROVE r.sig \in bad /\ r.sig \in found' /\ r.sig \in Signals
  <2>1. r.sig \in bad
    BY <1>1, <1>4 DEF Finals, Final, SampleInv, SomeLeaveBad
  <2>2. r.sig \in Signals
    BY <2>1 DEF TypeInv, RowsOK
  <2>3. CASE spell[r.sig] = "refused"
    BY <1>2, <2>1, <2>2, <2>3 DEF SampleInv, SpellsFound
  <2>4. CASE spell[r.sig] # "refused"
    BY <1>2, <1>4, <2>1, <2>2, <2>4 DEF Unrecorded
  <2>. QED  BY <2>1, <2>2, <2>3, <2>4
<1>5. SampleKept'
  BY <1>1, <1>2, <1>3, <1>4 DEF SampleInv, SampleKept
<1>6. SpellsFound'
  BY <1>2, <1>4 DEF SampleInv, SpellsFound
<1>7. SomeLeaveBad'
  BY <1>1 DEF SomeLeaveBad
<1>. QED  BY <1>5, <1>6, <1>7 DEF SampleInv

LEMMA SampleNext ==
    ASSUME TypeInv, SampleInv, Next
    PROVE  SampleInv'
<1>. RowsOK /\ CallOK
  BY DEF TypeInv
<1>1. CASE Elsewhere \/ PollReads
  <2>1. Outside
    <3>1. CASE PollReads
      BY <3>1 DEF PollReads, SetsAside, Outside, world, wired, poll, beating, call, node, bounds
    <3>. QED  BY <1>1, <3>1, ElsewhereIdle DEF Idle
  <2>. QED  BY <2>1, SampleOutside DEF Outside, call
<1>2. CASE PollDrains
  BY <1>2, SampleEnters, EmptyRows DEF PollDrains, world, node
<1>3. CASE PollAppends
  <2>1. PICK rows \in Seq(Row) : Enter("poll", rows)
    BY <1>3 DEF PollAppends, RowsOK
  <2>. QED  BY <1>3, <2>1, SampleEnters DEF PollAppends, world, node
<1>4. CASE BeatAppends
  <2>1. PICK rows \in Seq(Row) : Enter(Beat, rows)
    BY <1>4, BeatRow DEF BeatAppends
  <2>. QED  BY <1>4, <2>1, SampleEnters DEF BeatAppends, world, node
<1>5. CASE Stops
  <2>1. Ends
    BY <1>5 DEF Stops, PollDies, Crash
  <2>2. /\ UNCHANGED <<taken, journal, got, found, bad>> /\ page' = {}
        /\ \A s \in Signals : spell'[s] # "refused"
    BY <2>1, ConnectorAssumption DEF Ends, world, bounds, node
  <2>. QED  BY <2>2, SampleOutside
<1>6. CASE DecideFails \/ Return \/ PostFails \/ ReplyLost
  <2>1. UNCHANGED <<taken, journal, found, bad, spell>> /\ page' = {} /\ got \subseteq got'
    BY <1>6 DEF DecideFails, Return, PostFails, ReplyLost, Leaves, world, bounds, node
  <2>. QED  BY <2>1, SampleOutside
<1>. QED
  BY <1>1, <1>2, <1>3, <1>4, <1>5, <1>6, SamplePosted, SampleDecided, NextCases DEF Publishing

\* A sample that was journaled is there until the node has it, or refused it for good
\* and the finding says so: whatever reply is lost, and whenever the process ends.
THEOREM SampleKeptCorrect == Spec => []SampleKept
<1>1. Init => SampleInv
  BY EmptyRows, ConnectorAssumption DEF Init, Fresh, SampleInv, SampleKept, SpellsFound, SomeLeaveBad
<1>2. SampleInv /\ UNCHANGED vars => SampleInv'
  BY DEF SampleInv, SampleKept, SpellsFound, SomeLeaveBad, Refused, vars, world, call, node, bounds
<1>3. TypeInv /\ SampleInv /\ [Next]_vars => SampleInv'
  BY <1>2, SampleNext
<1>4. SampleInv => SampleKept
  BY DEF SampleInv
<1>. QED  BY <1>1, <1>3, <1>4, TypeAlways, PTL DEF Spec

-----------------------------------------------------------------------------
(* The value compared with is one that was journaled *)

\* What was journaled, or is about to be.
Rows == taken \cup Range(batch)

\* The latest value of a signal is that of its newest row.
Newest == \A s \in Signals : latest[s] # None =>
             \E r \in Rows : r.sig = s /\ r.val = latest[s] /\ \A x \in Rows : x.sig = s => x.at <= r.at

\* Rows of the source carry the number of their read.
Numbered == \A r \in Rows : r.sig \in Signals => r.at <= reads

LatestInv == Newest /\ Numbered

\* A step that adds no row of the source.
LEMMA LatestSame ==
    ASSUME LatestInv, UNCHANGED <<latest, reads>>, Rows \subseteq Rows', \A x \in Rows' : x \in Rows \/ x.sig \notin Signals
    PROVE  LatestInv'
<1>1. Newest'
  BY DEF LatestInv, Newest
<1>2. Numbered'
  BY DEF LatestInv, Numbered
<1>. QED  BY <1>1, <1>2 DEF LatestInv

\* A read makes one new row of each signal whose latest value it sets.
LEMMA LatestRead ==
    ASSUME TypeInv, LatestInv, PollReads
    PROVE  LatestInv'
<1>0. batch = <<>> /\ taken' = taken /\ Rows = taken /\ RowsOK
  BY EmptyRows DEF PollReads, bounds, TypeInv, RowsOK, Rows
<1>1. PICK r \in [targets -> Values \cup {NaN, None}] : \E sent \in SUBSET targets :
              /\ \A s \in sent : r[s] \in Values
              /\ reads' \in 0 .. MaxReads /\ reads' >= reads /\ (sent # {} => reads' > reads)
              /\ latest' = [s \in Signals |-> IF s \in sent THEN r[s] ELSE latest[s]]
              /\ batch' \in Seq(Row) /\ Range(batch') = ReadOf(r, sent)
  BY <1>0, PollBatch
<1>2. PICK sent \in SUBSET targets :
              /\ reads' \in 0 .. MaxReads /\ reads' >= reads
              /\ latest' = [s \in Signals |-> IF s \in sent THEN r[s] ELSE latest[s]]
              /\ Range(batch') = ReadOf(r, sent)
  BY <1>1
<1>3. PICK n \in Nat, m \in Nat : n = reads /\ m = reads' /\ n <= m
  BY <1>0, <1>2, ConnectorAssumption DEF RowsOK
<1>. DEFINE row(s) == [sig |-> s, val |-> r[s], at |-> m]
<1>4. Rows' = taken \cup {row(s) : s \in sent}
  BY <1>0, <1>2, <1>3 DEF Rows, ReadOf
<1>5. \A s \in sent : row(s).sig = s /\ row(s).val = r[s] /\ row(s).at = m
  OBVIOUS
<1>. HIDE DEF row
<1>6. ASSUME NEW x \in Rows', x.sig \in Signals PROVE x.at <= m
  <2>1. CASE x \in taken
    <3>1. x.at \in Nat
      BY <1>0, <2>1, ConnectorAssumption DEF RowsOK, Row
    <3>2. x.at <= n
      BY <1>0, <1>3, <1>6, <2>1 DEF LatestInv, Numbered
    <3>. QED  BY <1>3, <3>1, <3>2
  <2>2. CASE x \in {row(s) : s \in sent}
    BY <1>3, <1>5, <2>2
  <2>. QED  BY <1>4, <1>6, <2>1, <2>2
<1>7. Numbered'
  BY <1>3, <1>6 DEF Numbered
<1>8. ASSUME NEW s \in Signals, latest'[s] # None
      PROVE  \E y \in Rows' : y.sig = s /\ y.val = latest'[s] /\ \A x \in Rows' : x.sig = s => x.at <= y.at
  <2>1. CASE s \in sent
    <3>1. row(s) \in Rows' /\ row(s).sig = s /\ row(s).val = latest'[s] /\ row(s).at = m
      BY <1>2, <1>4, <1>5, <2>1
    <3>. QED  BY <1>6, <3>1
  <2>2. CASE s \notin sent
    <3>1. latest'[s] = latest[s]
      BY <1>2, <2>2
    <3>2. PICK y \in taken : y.sig = s /\ y.val = latest[s] /\ \A x \in taken : x.sig = s => x.at <= y.at
      BY <1>0, <1>8, <3>1 DEF LatestInv, Newest
    <3>3. \A x \in Rows' : x.sig = s => x \in taken
      BY <1>4, <1>5, <2>2
    <3>. QED  BY <1>4, <3>1, <3>2, <3>3
  <2>. QED  BY <2>1, <2>2
<1>9. Newest'
  BY <1>8 DEF Newest
<1>. QED  BY <1>7, <1>9 DEF LatestInv

LEMMA LatestNext ==
    ASSUME TypeInv, LatestInv, Next
    PROVE  LatestInv'
<1>. RowsOK /\ CallOK
  BY DEF TypeInv
<1>1. CASE Elsewhere
  BY <1>1, ElsewhereIdle, LatestSame DEF Idle, Outside, Rows
<1>2. CASE PollDrains
  <2>1. taken' = taken /\ UNCHANGED <<latest, batch, reads>>
    BY <1>2, EmptyRows DEF PollDrains, Enter
  <2>. QED  BY <2>1, LatestSame DEF Rows
<1>3. CASE PollAppends
  <2>1. Rows' = Rows /\ UNCHANGED <<latest, reads>>
    BY <1>3, EmptyRows DEF PollAppends, Enter, Rows
  <2>. QED  BY <2>1, LatestSame
<1>4. CASE BeatAppends
  <2>1. /\ UNCHANGED <<latest, batch, reads>>
        /\ taken' = taken \cup {[sig |-> Beat, val |-> beats % 2, at |-> beats]}
    BY <1>4, BeatRow DEF BeatAppends, Enter, poll
  <2>2. \A x \in Rows' : x \in Rows \/ x.sig \notin Signals
    BY <2>1, ConnectorAssumption DEF Rows
  <2>3. Rows \subseteq Rows'
    BY <2>1 DEF Rows
  <2>. QED  BY <2>1, <2>2, <2>3, LatestSame
<1>5. CASE Stops
  <2>1. Ends
    BY <1>5 DEF Stops, PollDies, Crash
  <2>2. UNCHANGED <<taken, reads>> /\ Rows' \subseteq Rows /\ \A s \in Signals : latest'[s] = None
    BY <2>1, EmptyRows DEF Ends, bounds, Rows
  <2>. QED  BY <2>2 DEF LatestInv, Newest, Numbered
<1>6. CASE Publishing
  BY <1>6, CallSteps, LatestSame DEF Rows
<1>. QED  BY <1>1, <1>2, <1>3, <1>4, <1>5, <1>6, LatestRead, NextCases

\* What report-by-exception compares with is a value that was journaled, the newest of
\* its signal, unless the poll is about to journal it: no change goes unreported.
THEOREM LatestJournaledCorrect == Spec => []LatestJournaled
<1>1. Init => LatestInv
  BY EmptyRows DEF Init, Fresh, LatestInv, Newest, Numbered, Rows
<1>2. LatestInv /\ UNCHANGED vars => LatestInv'
  BY DEF LatestInv, Newest, Numbered, Rows, vars, poll, bounds
<1>3. TypeInv /\ LatestInv /\ [Next]_vars => LatestInv'
  BY <1>2, LatestNext
<1>4. TypeInv /\ LatestInv => LatestJournaled
  <2>. SUFFICES ASSUME TypeInv, LatestInv, pc # "append", NEW s \in Signals, latest[s] # None
                PROVE  LET of == {r \in taken : r.sig = s}
                       IN  \E r \in of : r.val = latest[s] /\ \A x \in of : x.at <= r.at
    BY DEF LatestJournaled
  <2>1. Rows = taken
    BY EmptyRows DEF TypeInv, RowsOK, Rows
  <2>. QED  BY <2>1 DEF LatestInv, Newest
<1>. QED  BY <1>1, <1>3, <1>4, TypeAlways, PTL DEF Spec

=============================================================================
