------------------------ MODULE RetainedViewProofs ------------------------
(***************************************************************************)
(* Proofs about RetainedView, for every set of streams and topics, every   *)
(* page size, with and without pruning, and any number of records and of   *)
(* troubles.                                                               *)
(***************************************************************************)
EXTENDS RetainedView, WellFoundedInduction, TLAPS

-----------------------------------------------------------------------------
(* The operators *)

\* A bounded, non-empty set of naturals has a greatest element.
LEMMA Greatest ==
    ASSUME NEW S \in SUBSET Nat, NEW hi \in Nat, \A i \in S : i <= hi, S # {}
    PROVE  \E i \in S : \A j \in S : j <= i
  <1> DEFINE T == {m \in Nat : hi - m \in S}
  <1>1. T # {}
    <2>1. PICK i \in S : TRUE
      OBVIOUS
    <2>2. hi - i \in Nat /\ hi - (hi - i) = i
      BY <2>1
    <2> QED BY <2>1, <2>2
  <1>2. PICK m \in T : \A k \in T : ~(<<k, m>> \in OpToRel(<, Nat))
    <2>1. T \in SUBSET Nat
      OBVIOUS
    <2> QED BY <1>1, <2>1, NatLessThanWellFounded, WFMin
  <1>3. \A k \in T : ~(k < m)
    BY <1>2 DEF OpToRel
  <1>4. \A j \in S : j <= hi - m
    <2> SUFFICES ASSUME NEW j \in S PROVE j <= hi - m
      OBVIOUS
    <2>1. hi - j \in T
      <3>1. hi - j \in Nat /\ hi - (hi - j) = j
        OBVIOUS
      <3> QED BY <3>1
    <2> QED BY <1>3, <2>1
  <1> QED BY <1>4

\* Stream s has no record of topic t in lo .. hi.
Without(s, lo, hi, t) == \A j \in lo .. hi : log[s][j].topic # t

\* The record at offset l is the last one of topic t in lo .. hi.
IsLast(s, lo, hi, t, l) == l \in lo .. hi /\ log[s][l].topic = t /\ Without(s, l + 1, hi, t)

\* LastOf finds the last record of a topic, if there is one.
LEMMA LastOfFinds ==
    ASSUME NEW s, NEW lo \in Nat \ {0}, NEW hi \in Nat, NEW t
    PROVE  \/ LastOf(s, lo, hi, t) = 0 /\ Without(s, lo, hi, t)
           \/ IsLast(s, lo, hi, t, LastOf(s, lo, hi, t))
  <1> DEFINE found == {i \in lo .. hi : log[s][i].topic = t}
             l == LastOf(s, lo, hi, t)
  <1>1. CASE found = {}
    BY <1>1 DEF LastOf, Without
  <1>2. CASE found # {}
    <2>1. found \in SUBSET Nat /\ \A i \in found : i <= hi
      OBVIOUS
    <2>2. \E i \in found : \A j \in found : j <= i
      BY <1>2, <2>1, Greatest
    <2>3. l = CHOOSE i \in found : \A j \in found : i >= j
      BY <1>2 DEF LastOf, Max
    <2>4. l \in found /\ \A j \in found : j <= l
      <3>1. \E i \in found : \A j \in found : i >= j
        BY <2>1, <2>2
      <3>2. l \in found /\ \A j \in found : l >= j
        BY <2>3, <3>1
      <3> QED BY <2>1, <3>2
    <2>5. ASSUME NEW j \in l + 1 .. hi PROVE log[s][j].topic # t
      <3>1. j \in lo .. hi /\ ~(j <= l)
        BY <2>1, <2>4
      <3> QED BY <2>4, <3>1
    <2> QED BY <2>4, <2>5 DEF IsLast, Without
  <1> QED BY <1>1, <1>2

LEMMA LastOfType ==
    ASSUME NEW s, NEW lo \in Nat \ {0}, NEW hi \in Nat, NEW t
    PROVE  LastOf(s, lo, hi, t) \in Nat
  <1> DEFINE l == LastOf(s, lo, hi, t)
  <1>1. l = 0 \/ l \in lo .. hi
    BY LastOfFinds DEF IsLast
  <1> QED BY <1>1

\* There is only one last record.
LEMMA LastOfIs ==
    ASSUME NEW s, NEW lo \in Nat \ {0}, NEW hi \in Nat, NEW t, NEW l, IsLast(s, lo, hi, t, l)
    PROVE  LastOf(s, lo, hi, t) = l
  <1> DEFINE m == LastOf(s, lo, hi, t)
  <1>1. l \in lo .. hi /\ log[s][l].topic = t /\ Without(s, l + 1, hi, t)
    BY DEF IsLast
  <1>2. m \in lo .. hi /\ log[s][m].topic = t /\ Without(s, m + 1, hi, t)
    BY <1>1, LastOfFinds DEF IsLast, Without
  <1>3. ~(m \in l + 1 .. hi) /\ ~(l \in m + 1 .. hi)
    BY <1>1, <1>2 DEF Without
  <1> QED BY <1>1, <1>2, <1>3

\* The node's state of a topic is the same at two ends of its stream between
\* which the topic has no record.
LEMMA LastOfSkips ==
    ASSUME NEW s, NEW m \in Nat, NEW n \in Nat, m <= n, NEW t, Without(s, m + 1, n, t)
    PROVE  LastOf(s, 1, n, t) = LastOf(s, 1, m, t)
  <1> DEFINE l == LastOf(s, 1, m, t)
  <1>0. 1 \in Nat \ {0}
    OBVIOUS
  <1>1. CASE l = 0 /\ Without(s, 1, m, t)
    <2>1. Without(s, 1, n, t)
      BY <1>1 DEF Without
    <2>2. \A k \in 1 .. n : ~IsLast(s, 1, n, t, k)
      BY <2>1 DEF Without, IsLast
    <2> QED BY <1>0, <1>1, <2>2, LastOfFinds DEF IsLast
  <1>2. CASE IsLast(s, 1, m, t, l)
    <2>1. IsLast(s, 1, n, t, l)
      BY <1>2 DEF IsLast, Without
    <2> QED BY <1>0, <2>1, LastOfIs
  <1> QED BY <1>0, <1>1, <1>2, LastOfFinds


\* What the node's retained state shows is the number of a record.
LEMMA KvType ==
    ASSUME NodeOK, NEW t \in Topics, NEW n \in 0 .. Len(log[StreamOf[t]])
    PROVE  KvAt(n, t) \in 0 .. MaxRecords /\ Kv(t) \in 0 .. MaxRecords
  <1>0. /\ StreamOf[t] \in Streams /\ log[StreamOf[t]] \in Seq(Records) /\ 1 \in Nat \ {0}
        /\ Len(log[StreamOf[t]]) \in Nat /\ MaxRecords \in Nat
    BY ViewAssumption DEF NodeOK
  <1>1. ASSUME NEW m \in 0 .. Len(log[StreamOf[t]]) PROVE KvAt(m, t) \in 0 .. MaxRecords
    <2> DEFINE l == LastOf(StreamOf[t], 1, m, t)
    <2>1. m \in Nat
      BY <1>0
    <2>2. l = 0 \/ l \in 1 .. m
      BY <1>0, <2>1, LastOfFinds DEF IsLast
    <2>3. l # 0 => log[StreamOf[t]][l] \in Records
      BY <1>0, <2>2
    <2>4. l # 0 => log[StreamOf[t]][l].id \in 0 .. MaxRecords
      BY <1>0, <2>3 DEF Records
    <2> QED BY <1>0, <2>4 DEF KvAt, Shows
  <1>2. Len(log[StreamOf[t]]) \in 0 .. Len(log[StreamOf[t]])
    BY <1>0
  <1> QED BY <1>1, <1>2 DEF Kv

LEMMA NoDrainType ==
    /\ NoDrain \in Locals /\ NoChange \in Change
    /\ NoDrain.todo = {} /\ NoDrain.tries = 0 /\ NoDrain.hinted = FALSE
  <1>1. NoChange \in Change
    BY DEF NoChange, Change
  <1> QED BY <1>1 DEF NoDrain, Locals

-----------------------------------------------------------------------------
(* Type correctness *)

LEMMA InitType == Init => TypeOK
  <1> SUFFICES ASSUME Init PROVE TypeOK
    OBVIOUS
  <1>1. NodeOK
    <2>1. <<>> \in Seq(Records) /\ Len(<<>>) = 0 /\ MaxRecords \in Nat
      BY ViewAssumption
    <2>2. log \in [Streams -> Seq(Records)] /\ cursor \in [Streams -> Nat] /\ low \in [Streams -> Nat \ {0}]
      BY <2>1 DEF Init
    <2>3. \A s \in Streams : Len(log[s]) = 0 /\ cursor[s] = 0 /\ low[s] = 1
      BY <2>1 DEF Init
    <2>4. -1 \in -1 .. MaxRecords /\ 0 \in 0 .. MaxRecords
      BY <2>1
    <2>5. told \in [Streams -> -1 .. MaxRecords] /\ latest \in [Streams -> Change]
      BY <2>4, NoDrainType DEF Init, Untold
    <2>6. changed \in [Streams -> BOOLEAN] /\ captured \in [Streams -> BOOLEAN]
      BY DEF Init
    <2>7. /\ admitted \in 0 .. MaxRecords /\ sub \in Nat /\ rung \in BOOLEAN
          /\ conn \in {"down", "up", "dropping"}
      BY <2>4 DEF Init
    <2> QED BY <2>2, <2>3, <2>5, <2>6, <2>7 DEF NodeOK
  <1>2. ViewOK
    <2>1. 0 \in 0 .. MaxRecords /\ 0 \in 0 .. MaxTroubles
      BY ViewAssumption
    <2>2. entries \in [Topics -> 0 .. MaxRecords] /\ published \in [Topics -> 0 .. MaxRecords]
      BY <2>1 DEF Init
    <2> QED BY <2>1, <2>2 DEF Init, ViewOK
  <1>3. DrainOK
    BY NoDrainType DEF Init, DrainOK
  <1> QED BY <1>1, <1>2, <1>3 DEF TypeOK

LEMMA AppendKeeps ==
    ASSUME NodeOK, NEW s \in Streams, NEW r \in Records, log' = [log EXCEPT ![s] = Append(@, r)]
    PROVE  /\ log' \in [Streams -> Seq(Records)]
           /\ \A u \in Streams : /\ Len(log'[u]) \in Nat /\ Len(log'[u]) >= Len(log[u])
                                 /\ Len(log[u]) \in Nat
                                 /\ \A i \in 1 .. Len(log[u]) : log'[u][i] = log[u][i]
  <1>1. log[s] \in Seq(Records) /\ log'[s] = Append(log[s], r)
    BY DEF NodeOK
  <1>2. /\ log'[s] \in Seq(Records) /\ Len(log'[s]) = Len(log[s]) + 1
        /\ \A i \in 1 .. Len(log[s]) : log'[s][i] = log[s][i]
    BY <1>1
  <1>3. \A u \in Streams : u # s => log'[u] = log[u]
    BY DEF NodeOK
  <1>4. \A u \in Streams : log[u] \in Seq(Records) /\ Len(log[u]) \in Nat
    BY DEF NodeOK
  <1> QED BY <1>1, <1>2, <1>3, <1>4 DEF NodeOK

\* Admit and Prune.
LEMMA GrowType ==
    ASSUME TypeOK, NEW s \in Streams, Admit(s) \/ Prune(s)
    PROVE  TypeOK'
  <1> USE DEF TypeOK
  <1>1. CASE Admit(s)
    <2>1. PICK r \in Records : log' = [log EXCEPT ![s] = Append(@, r)]
      <3>1. PICK t \in {u \in Topics : StreamOf[u] = s} \cup {Other}, live \in BOOLEAN :
               log' = [log EXCEPT ![s] = Append(@, [topic |-> t, live |-> live, id |-> admitted + 1])]
        BY <1>1 DEF Admit
      <3>2. admitted + 1 \in 1 .. MaxRecords
        BY <1>1, ViewAssumption DEF Admit, NodeOK
      <3> QED BY <3>1, <3>2 DEF Records
    <2>2. admitted' \in 0 .. MaxRecords
      BY <1>1, ViewAssumption DEF Admit, NodeOK
    <2>3. UNCHANGED <<cursor, low, watch, signals, loop, locked, state, reading, refusing, troubles>>
      BY <1>1 DEF Admit
    <2>4. NodeOK'
      <3>1. NodeOK
        OBVIOUS
      <3>2. /\ log' \in [Streams -> Seq(Records)]
            /\ \A u \in Streams : Len(log'[u]) \in Nat /\ Len(log'[u]) >= Len(log[u]) /\ Len(log[u]) \in Nat
        BY <2>1, <3>1, AppendKeeps
      <3>3. \A u \in Streams : cursor[u] \in Nat /\ low[u] \in Nat /\ cursor[u] <= Len(log[u]) /\ low[u] <= Len(log[u]) + 1
        BY <3>1 DEF NodeOK
      <3>4. \A u \in Streams : cursor[u] <= Len(log'[u]) /\ low[u] <= Len(log'[u]) + 1
        BY <3>2, <3>3
      <3>5. cursor' = cursor /\ low' = low /\ UNCHANGED <<watch, signals>>
        BY <2>3
      <3> QED BY <2>2, <3>1, <3>2, <3>4, <3>5 DEF NodeOK, watch, signals
    <2>5. ViewOK'
      BY <2>3 DEF ViewOK, loop, state, reading
    <2>6. DrainOK'
      <3>1. pc = "ack" => drain.stream \in Streams
        BY DEF DrainOK, Locals
      <3>2. UNCHANGED <<holder, pc, drain, run, cursor>>
        BY <2>3 DEF locked, loop
      <3>3. \A u \in Streams : Len(log'[u]) >= Len(log[u]) /\ Len(log'[u]) \in Nat /\ Len(log[u]) \in Nat
                               /\ cursor[u] \in Nat
        BY <2>1, AppendKeeps DEF NodeOK
      <3>4. pc = "ack" => drain.next \in cursor[drain.stream] + 2 .. Len(log'[drain.stream]) + 1
        BY <3>1, <3>3 DEF DrainOK
      <3>5. pc \in {"bootKv", "bootAck"} => \A u \in Streams : drain.heads[u] \in cursor[u] .. Len(log'[u])
        BY <3>3 DEF DrainOK, Locals
      <3> QED BY <3>2, <3>4, <3>5 DEF DrainOK
    <2> QED BY <2>4, <2>5, <2>6
  <1>2. CASE Prune(s)
    <2>1. NodeOK'
      <3>1. Len(log[s]) \in Nat
        BY DEF NodeOK
      <3> QED BY <1>2, <3>1 DEF Prune, NodeOK, watch, signals
    <2> QED BY <1>2, <2>1 DEF Prune, ViewOK, DrainOK, loop, locked, state, reading
  <1> QED BY <1>1, <1>2

LEMMA UntoldType == Untold \in [Streams -> -1 .. MaxRecords]
  <1>1. -1 \in -1 .. MaxRecords
    BY ViewAssumption
  <1> QED BY <1>1 DEF Untold

LEMMA TroubleType ==
    ASSUME TypeOK, NEW kind, Trouble(kind)
    PROVE  troubles' \in 0 .. MaxTroubles
  BY ViewAssumption DEF TypeOK, ViewOK, Trouble

\* What a failed drain leaves.
LEMMA FailParts ==
    ASSUME TypeOK, NEW expected, Fail(expected)
    PROVE  /\ holder' = "none" /\ pc' = "none" /\ drain' = NoDrain
           /\ run' \in {"top", "refresh", "wait", "backoff"} /\ rung' \in BOOLEAN
           /\ captured' \in [Streams -> BOOLEAN] /\ UNCHANGED <<changed, silent, published>>
           /\ available' \in BOOLEAN /\ failing' \in {"no", "yes", "expired"}
  <1>1. /\ rung' = (rung \/ holder = "sync") /\ holder' = "none" /\ pc' = "none" /\ drain' = NoDrain
        /\ run' = IF holder = "bg" THEN "backoff" ELSE run
        /\ captured' = [s \in Streams |-> FALSE] /\ UNCHANGED <<changed, silent>>
        /\ available' \in BOOLEAN /\ failing' \in {"no", "yes", "expired"} /\ UNCHANGED published
    BY DEF Fail, Unavailable, TypeOK, ViewOK
  <1>2. run' \in {"top", "refresh", "wait", "backoff"}
    BY <1>1 DEF TypeOK, ViewOK, DrainOK
  <1> QED BY <1>1, <1>2 DEF TypeOK, NodeOK

\* A reset cuts every stream short at some offset, and its cursor with it.
CutAt(to) ==
    /\ log' = [s \in Streams |-> SubSeq(log[s], 1, to[s])]
    /\ hidden' = hidden \cup
          {t \in Topics : LET s == StreamOf[t] IN
              positions[s] <= cursor'[s] /\ \A n \in positions[s] .. to[s] : ~Matches(t, n)}
    /\ \/ Engaged /\ Fail(TRUE)
       \/ /\ ~Engaged
          /\ drain' = [drain EXCEPT !.asked = [s \in Streams |-> MinOf(@[s], to[s])]]
          /\ UNCHANGED <<holder, pc, signals, loop, reading>>

LEMMA ResetCuts ==
    ASSUME TypeOK, Reset
    PROVE  \E to \in [Streams -> Nat] :
              /\ CutAt(to)
              /\ cursor' \in [Streams -> Nat] /\ low' \in [Streams -> Nat \ {0}]
              /\ \A s \in Streams :
                    /\ to[s] <= Len(log[s]) /\ cursor'[s] <= to[s] /\ cursor'[s] <= cursor[s]
                    /\ low'[s] <= to[s] + 1 /\ log'[s] \in Seq(Records) /\ Len(log'[s]) = to[s]
                    /\ \A i \in 1 .. to[s] : log'[s][i] = log[s][i]
  <1>0. MaxRecords \in Nat
    BY ViewAssumption
  <1>1. PICK to \in [Streams -> 0 .. MaxRecords] :
          /\ \A s \in Streams : to[s] <= Len(log[s])
          /\ CutAt(to)
          /\ cursor' \in {c \in [Streams -> 0 .. MaxRecords] :
                            \A s \in Streams : c[s] <= MinOf(cursor[s], to[s])}
          /\ low' \in {l \in [Streams -> 1 .. MaxRecords + 1] : \A s \in Streams : l[s] \in {1, to[s] + 1}}
    BY DEF Reset, CutAt
  <1>2. to \in [Streams -> Nat] /\ cursor' \in [Streams -> Nat] /\ low' \in [Streams -> Nat \ {0}]
    BY <1>0, <1>1
  <1>3. ASSUME NEW s \in Streams
        PROVE  /\ to[s] <= Len(log[s]) /\ cursor'[s] <= to[s] /\ cursor'[s] <= cursor[s]
               /\ low'[s] <= to[s] + 1 /\ log'[s] \in Seq(Records) /\ Len(log'[s]) = to[s]
               /\ \A i \in 1 .. to[s] : log'[s][i] = log[s][i]
    <2>1. log[s] \in Seq(Records) /\ to[s] \in 0 .. Len(log[s]) /\ cursor[s] \in Nat /\ cursor'[s] \in Nat
      BY <1>1, <1>2 DEF TypeOK, NodeOK
    <2>2. /\ SubSeq(log[s], 1, to[s]) \in Seq(Records) /\ Len(SubSeq(log[s], 1, to[s])) = to[s]
          /\ \A i \in 1 .. to[s] : SubSeq(log[s], 1, to[s])[i] = log[s][i]
      BY <2>1
    <2>3. log'[s] = SubSeq(log[s], 1, to[s])
      BY <1>1 DEF CutAt
    <2>4. cursor'[s] <= MinOf(cursor[s], to[s]) /\ low'[s] \in {1, to[s] + 1}
      BY <1>1
    <2>5. cursor'[s] <= to[s] /\ cursor'[s] <= cursor[s] /\ low'[s] <= to[s] + 1
      BY <2>1, <2>4 DEF MinOf
    <2> QED BY <2>1, <2>2, <2>3, <2>5
  <1> QED BY <1>1, <1>2, <1>3

LEMMA ResetType == TypeOK /\ Reset => TypeOK'
  <1> SUFFICES ASSUME TypeOK, Reset PROVE TypeOK'
    OBVIOUS
  <1> USE DEF TypeOK
  <1>1. PICK to \in [Streams -> Nat] :
          /\ CutAt(to)
          /\ cursor' \in [Streams -> Nat] /\ low' \in [Streams -> Nat \ {0}]
          /\ \A s \in Streams :
                /\ cursor'[s] <= to[s] /\ low'[s] <= to[s] + 1
                /\ log'[s] \in Seq(Records) /\ Len(log'[s]) = to[s]
    BY ResetCuts
  <1>2. /\ UNCHANGED <<admitted, sub, latest, entries, offsets, positions, drainedOn, initialized, refusing>>
        /\ conn' \in {"dropping", conn} /\ told' = Untold /\ troubles' \in 0 .. MaxTroubles
    <2>1. Trouble("reset")
      BY DEF Reset
    <2>2. troubles' \in 0 .. MaxTroubles
      BY <2>1, TroubleType
    <2> QED BY <2>2 DEF Reset
  <1>3. told' \in [Streams -> -1 .. MaxRecords]
    BY <1>2, UntoldType
  <1>4. hidden' \subseteq Topics
    BY <1>1 DEF CutAt, ViewOK
  <1>5. log' \in [Streams -> Seq(Records)]
    BY <1>1 DEF CutAt
  <1>6. CASE Engaged /\ Fail(TRUE)
    <2>1. /\ holder' = "none" /\ pc' = "none" /\ drain' = NoDrain
          /\ run' \in {"top", "refresh", "wait", "backoff"} /\ rung' \in BOOLEAN
          /\ captured' \in [Streams -> BOOLEAN] /\ UNCHANGED <<changed, silent, published>>
          /\ available' \in BOOLEAN /\ failing' \in {"no", "yes", "expired"}
      BY <1>6, FailParts
    <2>2. NodeOK'
      BY <1>1, <1>2, <1>3, <1>5, <2>1 DEF NodeOK
    <2>3. ViewOK'
      BY <1>2, <1>4, <2>1 DEF ViewOK
    <2>4. DrainOK'
      BY <2>1, NoDrainType DEF DrainOK
    <2> QED BY <2>2, <2>3, <2>4
  <1>7. CASE ~Engaged /\ UNCHANGED <<holder, pc, signals, loop, reading>>
               /\ drain' = [drain EXCEPT !.asked = [s \in Streams |-> MinOf(@[s], to[s])]]
    <2>1. NodeOK'
      BY <1>1, <1>2, <1>3, <1>5, <1>7 DEF NodeOK, signals
    <2>2. ViewOK'
      BY <1>2, <1>4, <1>7 DEF ViewOK, loop, reading
    <2>3. drain' \in Locals /\ drain'.stream = drain.stream /\ drain'.todo = drain.todo
      <3>1. [s \in Streams |-> MinOf(drain.asked[s], to[s])] \in [Streams -> Nat]
        BY <1>1 DEF DrainOK, Locals, MinOf
      <3> QED BY <1>7, <3>1 DEF DrainOK, Locals
    <2>4. pc \notin {"bootKv", "bootAck", "ack"}
      BY <1>7 DEF Engaged
    <2>5. DrainOK'
      BY <1>7, <2>3, <2>4 DEF DrainOK, loop
    <2> QED BY <2>1, <2>2, <2>5
  <1> QED BY <1>1, <1>6, <1>7 DEF CutAt


LEMMA HintType ==
    ASSUME TypeOK, Connect \/ Hint \/ Disconnect \/ Disconnected
    PROVE  TypeOK'
  <1> USE DEF TypeOK
  <1>1. CASE Connect
    BY <1>1 DEF Connect, NodeOK, ViewOK, DrainOK, node, signals, loop, locked, state, reading
  <1>2. CASE Hint
    <2> DEFINE grown == {s \in Streams : told[s] < Len(log[s])}
    <2>1. /\ sub' \in {sub, sub + 1}
          /\ told' \in [Streams -> -1 .. MaxRecords]
          /\ \A s \in Streams : s \in grown => told'[s] \in told[s] + 1 .. Len(log[s])
          /\ latest' = [s \in Streams |-> IF s \in grown THEN [head |-> told'[s], sub |-> sub'] ELSE latest[s]]
          /\ changed' = [s \in Streams |-> s \in grown \/ changed[s]]
          /\ captured' = [s \in Streams |-> s \notin grown /\ captured[s]]
          /\ rung' = TRUE
          /\ UNCHANGED <<node, conn, loop, locked, state, reading, refusing, troubles>>
      BY <1>2 DEF Hint
    <2>2. sub' \in Nat
      BY <2>1 DEF NodeOK
    <2>3. ASSUME NEW s \in Streams, s \in grown PROVE told'[s] \in Nat
      <3>1. told[s] \in -1 .. MaxRecords
        BY DEF NodeOK
      <3>2. told'[s] \in told[s] + 1 .. Len(log[s])
        BY <2>1, <2>3
      <3>3. MaxRecords \in Nat /\ Len(log[s]) \in Nat
        BY ViewAssumption DEF NodeOK
      <3> QED BY <3>1, <3>2, <3>3
    <2>4. latest' \in [Streams -> Change]
      <3>1. ASSUME NEW s \in Streams
            PROVE  (IF s \in grown THEN [head |-> told'[s], sub |-> sub'] ELSE latest[s]) \in Change
        <4>1. latest[s] \in Change
          BY DEF NodeOK
        <4> QED BY <2>2, <2>3, <4>1 DEF Change
      <3> QED BY <2>1, <3>1
    <2>5. changed' \in [Streams -> BOOLEAN] /\ captured' \in [Streams -> BOOLEAN]
      <3>1. \A s \in Streams : changed[s] \in BOOLEAN /\ captured[s] \in BOOLEAN
        BY DEF NodeOK
      <3> QED BY <2>1, <3>1
    <2>6. NodeOK'
      BY <2>1, <2>2, <2>4, <2>5 DEF NodeOK, node
    <2>7. ViewOK' /\ DrainOK'
      BY <2>1 DEF ViewOK, DrainOK, node, loop, locked, state, reading
    <2> QED BY <2>6, <2>7
  <1>3. CASE Disconnect
    <2>1. Trouble("drop")
      BY <1>3 DEF Disconnect
    <2>2. troubles' \in 0 .. MaxTroubles
      BY <2>1, TroubleType
    <2> QED BY <1>3, <2>2, UntoldType DEF Disconnect, NodeOK, ViewOK, DrainOK, node, signals, loop, locked, state, reading
  <1>4. CASE Disconnected
    BY <1>4 DEF Disconnected, Unavailable, NodeOK, ViewOK, DrainOK, node, signals, loop, locked, state
  <1> QED BY <1>1, <1>2, <1>3, <1>4

LEMMA StartType ==
    ASSUME TypeOK, NEW who \in {"bg", "sync"}, NEW selected \in SUBSET Streams, NEW hinted \in BOOLEAN,
           Start(who, selected, hinted)
    PROVE  /\ holder' = who /\ pc' = "pass" /\ drain' \in Locals
           /\ captured' \in [Streams -> BOOLEAN]
  <1>1. [s \in Streams |-> IF who = "sync" THEN Len(log[s]) ELSE 0] \in [Streams -> Nat]
    BY DEF TypeOK, NodeOK
  <1>2. drain' \in Locals
    BY <1>1, NoDrainType DEF Start, Locals
  <1> QED BY <1>2 DEF Start

LEMMA LoopType ==
    ASSUME TypeOK,
           TakeVersion \/ Refresh \/ Synchronize \/ Wake \/ IdleDrain \/ Retry \/ GraceEnds
             \/ ReaderFinds \/ ReaderRefuses
    PROVE  TypeOK'
  <1> USE DEF TypeOK
  <1>1. CASE TakeVersion \/ Wake \/ IdleDrain \/ Retry
    <2>1. NodeOK'
      BY <1>1 DEF TakeVersion, Wake, IdleDrain, Retry, NodeOK, node, watch, signals
    <2>2. ViewOK'
      BY <1>1 DEF TakeVersion, Wake, IdleDrain, Retry, ViewOK, state, reading
    <2>3. DrainOK'
      BY <1>1 DEF TakeVersion, Wake, IdleDrain, Retry, DrainOK, node, locked
    <2> QED BY <2>1, <2>2, <2>3
  <1>2. CASE GraceEnds \/ ReaderFinds \/ ReaderRefuses
    <2>1. UNCHANGED <<node, watch, signals, loop, locked, state, troubles>>
      BY <1>2 DEF GraceEnds, ReaderFinds, ReaderRefuses
    <2>2. /\ available' \in {FALSE, available} /\ failing' \in {"no", "expired", failing}
          /\ UNCHANGED published /\ refusing' \in BOOLEAN
      BY <1>2 DEF GraceEnds, ReaderFinds, ReaderRefuses, Unavailable, reading, ViewOK
    <2>3. NodeOK' /\ DrainOK'
      BY <2>1 DEF NodeOK, DrainOK, node, watch, signals, loop, locked
    <2>4. ViewOK'
      BY <2>1, <2>2 DEF ViewOK, loop, state
    <2> QED BY <2>3, <2>4
  <1>3. CASE Refresh
    <2> DEFINE selected == IF silent THEN Streams ELSE {s \in Streams : ~available \/ changed[s]}
    <2>1. /\ run = "refresh" /\ holder = "none"
          /\ silent' = FALSE /\ UNCHANGED <<node, watch, changed, rung, state, reading, refusing, troubles>>
          /\ \/ run' = "wait" /\ UNCHANGED <<locked, captured>>
             \/ run' = "draining" /\ Start("bg", selected, ~silent)
      BY <1>3 DEF Refresh
    <2>2. CASE run' = "wait" /\ UNCHANGED <<locked, captured>>
      BY <2>1, <2>2 DEF NodeOK, ViewOK, DrainOK, node, watch, locked, state, reading
    <2>3. CASE run' = "draining" /\ Start("bg", selected, ~silent)
      <3>1. selected \in SUBSET Streams /\ (~silent) \in BOOLEAN
        OBVIOUS
      <3>2. /\ holder' = "bg" /\ pc' = "pass" /\ drain' \in Locals
            /\ captured' \in [Streams -> BOOLEAN]
        BY <2>3, <3>1, StartType
      <3> QED BY <2>1, <2>3, <3>2 DEF NodeOK, ViewOK, DrainOK, node, watch, state, reading
    <2> QED BY <2>1, <2>2, <2>3
  <1>4. CASE Synchronize
    <2>1. /\ holder' = "sync" /\ pc' = "pass" /\ drain' \in Locals
          /\ captured' \in [Streams -> BOOLEAN]
      BY <1>4, StartType DEF Synchronize, CausalIsHinted
    <2>2. Trouble("sync")
      BY <1>4 DEF Synchronize
    <2>3. troubles' \in 0 .. MaxTroubles
      BY <2>2, TroubleType
    <2> QED BY <1>4, <2>1, <2>3 DEF Synchronize, NodeOK, ViewOK, DrainOK, node, watch, loop, state, reading
  <1> QED BY <1>1, <1>2, <1>3, <1>4

\* The end of a drain, whether it failed or not.
LEMMA FailType ==
    ASSUME TypeOK, NEW expected, pc # "none", Fail(expected), UNCHANGED <<node, watch, state, refusing>>,
           troubles' \in 0 .. MaxTroubles
    PROVE  TypeOK'
  <1> USE DEF TypeOK
  <1>1. /\ holder' = "none" /\ pc' = "none" /\ drain' = NoDrain
        /\ run' \in {"top", "refresh", "wait", "backoff"} /\ rung' \in BOOLEAN
        /\ captured' \in [Streams -> BOOLEAN] /\ UNCHANGED <<changed, silent, published>>
        /\ available' \in BOOLEAN /\ failing' \in {"no", "yes", "expired"}
    BY FailParts
  <1>2. NodeOK'
    BY <1>1 DEF NodeOK, node, watch
  <1>3. ViewOK'
    BY <1>1 DEF ViewOK, state
  <1>4. DrainOK'
    BY <1>1, NoDrainType DEF DrainOK
  <1> QED BY <1>2, <1>3, <1>4

LEMMA EndType ==
    ASSUME TypeOK, Finish \/ GiveUp \/ FetchShort \/ HttpFails
    PROVE  TypeOK'
  <1>1. CASE Finish
    <2> USE DEF TypeOK
    <2>1. /\ available' = TRUE /\ failing' = "no" /\ published' = entries
          /\ run' = IF holder = "bg" THEN "wait" ELSE run
          /\ holder' = "none" /\ pc' = "none" /\ drain' = NoDrain
          /\ changed' = [s \in Streams |-> IF s \in drain.took THEN ~captured[s] ELSE changed[s]]
          /\ captured' = [s \in Streams |-> FALSE] /\ UNCHANGED rung
          /\ UNCHANGED <<node, watch, silent, state, refusing, troubles>>
      BY <1>1 DEF Finish, Release
    <2>2. NodeOK'
      <3>1. changed' \in [Streams -> BOOLEAN] /\ captured' \in [Streams -> BOOLEAN]
        BY <2>1 DEF NodeOK
      <3> QED BY <2>1, <3>1 DEF NodeOK, node, watch
    <2>3. ViewOK'
      BY <2>1 DEF ViewOK, state
    <2>4. DrainOK'
      BY <2>1, NoDrainType DEF DrainOK
    <2> QED BY <2>2, <2>3, <2>4
  <1>2. CASE GiveUp \/ FetchShort
    <2>1. pc # "none" /\ Fail(TRUE) /\ UNCHANGED <<node, watch, state, refusing, troubles>>
      BY <1>2 DEF GiveUp, FetchShort
    <2> QED BY <2>1, FailType DEF TypeOK, ViewOK
  <1>3. CASE HttpFails
    <2>1. /\ pc # "none" /\ UNCHANGED <<node, watch, state, refusing>> /\ Trouble("fail")
          /\ \E expected \in BOOLEAN : Fail(expected)
      BY <1>3 DEF HttpFails
    <2>2. troubles' \in 0 .. MaxTroubles
      BY <2>1, TroubleType
    <2> QED BY <2>1, <2>2, FailType
  <1> QED BY <1>1, <1>2, <1>3

LEMMA HeldType ==
    ASSUME TypeOK
    PROVE  \A s \in Streams : \A c : Held(s, c) \in Nat \ {0} /\ Held(s, c) <= Len(log[s]) + 1
  <1>1. \A s \in Streams : low[s] \in Nat \ {0} /\ low[s] <= Len(log[s]) + 1 /\ Len(log[s]) \in Nat
    BY DEF TypeOK, NodeOK
  <1> QED BY <1>1 DEF Held

LEMMA PassType ==
    ASSUME TypeOK, Pass \/ BootHeads \/ BootKv \/ BootAck
    PROVE  TypeOK'
  <1> USE DEF TypeOK
  <1>0. /\ drain \in Locals /\ drain.tries \in 0 .. 3
        /\ drain.heads \in [Streams -> Nat] /\ drain.took \in SUBSET Streams
    BY DEF DrainOK, Locals
  <1>1. CASE Pass
    <2>1. drain' \in Locals
      <3>1. drain.tries + 1 \in 0 .. 3
        BY <1>0, <1>1 DEF Pass
      <3>2. drain' = [drain EXCEPT !.tries = drain.tries + 1, !.todo = drain.took]
        BY <1>1 DEF Pass
      <3> QED BY <1>0, <3>1, <3>2 DEF Locals
    <2> QED BY <1>1, <2>1 DEF Pass, NodeOK, ViewOK, DrainOK, node, watch, signals, loop, state, reading
  <1>2. CASE BootHeads
    <2>1. [s \in Streams |-> Len(log[s])] \in [Streams -> Nat]
      BY DEF NodeOK
    <2>2. drain' \in Locals /\ drain'.heads = [s \in Streams |-> Len(log[s])]
      <3>1. drain.tries + 1 \in 0 .. 3
        BY <1>0, <1>2 DEF BootHeads
      <3>2. drain' = [drain EXCEPT !.tries = drain.tries + 1, !.took = Streams, !.todo = Streams,
                              !.heads = [s \in Streams |-> Len(log[s])]]
        BY <1>2 DEF BootHeads
      <3> QED BY <1>0, <2>1, <3>1, <3>2 DEF Locals
    <2>3. captured' \in [Streams -> BOOLEAN]
      BY <1>2 DEF BootHeads
    <2>4. NodeOK' /\ ViewOK'
      BY <1>2, <2>3 DEF BootHeads, NodeOK, ViewOK, node, watch, loop, state, reading
    <2>5. \A s \in Streams : drain'.heads[s] \in cursor[s] .. Len(log[s])
      BY <2>2 DEF NodeOK
    <2>6. pc = "pass" /\ pc' = "bootKv" /\ UNCHANGED <<node, run, holder>>
      BY <1>2 DEF BootHeads, loop
    <2> QED BY <2>2, <2>4, <2>5, <2>6 DEF DrainOK, node
  <1>3. CASE BootKv
    <2>1. \A t \in Topics : Kv(t) \in 0 .. MaxRecords
      <3> SUFFICES ASSUME NEW t \in Topics PROVE Kv(t) \in 0 .. MaxRecords
        OBVIOUS
      <3>1. 0 \in 0 .. Len(log[StreamOf[t]])
        BY ViewAssumption DEF NodeOK
      <3> QED BY <3>1, KvType
    <2>2. \A t \in Topics : LastOf(StreamOf[t], 1, Len(log[StreamOf[t]]), t) \in Nat
      <3> SUFFICES ASSUME NEW t \in Topics
                   PROVE  LastOf(StreamOf[t], 1, Len(log[StreamOf[t]]), t) \in Nat
        OBVIOUS
      <3>1. Len(log[StreamOf[t]]) \in Nat /\ 1 \in Nat \ {0}
        BY ViewAssumption DEF NodeOK
      <3> QED BY <3>1, LastOfType
    <2>3. entries' \in [Topics -> 0 .. MaxRecords] /\ offsets' \in [Topics -> Nat]
      BY <1>3, <2>1, <2>2 DEF BootKv
    <2>4. hidden' = {}
      BY <1>3 DEF BootKv
    <2>5. pc = "bootKv" /\ pc' = "bootAck"
          /\ UNCHANGED <<node, watch, signals, loop, holder, drain, positions, drainedOn, initialized,
                         reading, refusing, troubles>>
      BY <1>3 DEF BootKv
    <2>6. NodeOK'
      BY <2>5 DEF NodeOK, node, watch, signals
    <2>7. ViewOK'
      BY <2>3, <2>4, <2>5 DEF ViewOK, loop, reading
    <2>8. DrainOK'
      BY <2>5 DEF DrainOK, node, loop
    <2> QED BY <2>6, <2>7, <2>8
  <1>4. CASE BootAck
    <2>1. pc = "bootAck" /\ pc' = "pick" /\ positions' = drain.heads /\ drainedOn' = [s \in Streams |-> 0]
          /\ cursor' = [s \in Streams |-> MaxOf(cursor[s], drain.heads[s])]
          /\ initialized' = TRUE /\ drain' = [drain EXCEPT !.heads = NoDrain.heads]
          /\ UNCHANGED <<log, admitted, watch, signals, loop, holder, entries, offsets, hidden, reading, refusing, troubles>>
          /\ low' = [s \in Streams |-> Held(s, cursor'[s])]
      BY <1>4 DEF BootAck
    <2>2. ASSUME NEW s \in Streams
          PROVE  cursor'[s] \in Nat /\ cursor'[s] <= Len(log[s]) /\ drain.heads[s] \in Nat
      <3>1. drain.heads[s] \in cursor[s] .. Len(log[s]) /\ Len(log[s]) \in Nat /\ cursor[s] \in Nat
        BY <2>1 DEF DrainOK, NodeOK
      <3>2. cursor'[s] = MaxOf(cursor[s], drain.heads[s])
        BY <2>1
      <3> QED BY <3>1, <3>2 DEF MaxOf
    <2>3. cursor' \in [Streams -> Nat]
      BY <2>1, <2>2
    <2>8. low' \in [Streams -> Nat \ {0}] /\ \A s \in Streams : low'[s] <= Len(log[s]) + 1
      BY <2>1, HeldType
    <2>4. NodeOK'
      BY <2>1, <2>2, <2>3, <2>8 DEF NodeOK, watch, signals
    <2>5. positions' \in [Streams -> Nat] /\ drainedOn' \in [Streams -> Nat]
      BY <1>0, <2>1
    <2>6. ViewOK'
      BY <2>1, <2>5 DEF ViewOK, loop, reading
    <2>7. drain' \in Locals
      <3>1. NoDrain.heads \in [Streams -> Nat]
        BY NoDrainType DEF Locals
      <3> QED BY <1>0, <2>1, <3>1 DEF Locals
    <2> QED BY <2>1, <2>4, <2>6, <2>7 DEF DrainOK, loop
  <1> QED BY <1>1, <1>2, <1>3, <1>4


\* What a page shows of a topic is the number of a record.
LEMMA FoundType ==
    ASSUME NodeOK, NEW s \in Streams, NEW lo \in Nat \ {0}, NEW hi \in Nat, hi <= Len(log[s]), NEW t
    PROVE  LastOf(s, lo, hi, t) \in Nat /\ Shows(s, LastOf(s, lo, hi, t)) \in 0 .. MaxRecords
  <1> DEFINE l == LastOf(s, lo, hi, t)
  <1>0. log[s] \in Seq(Records) /\ Len(log[s]) \in Nat /\ MaxRecords \in Nat
    BY ViewAssumption DEF NodeOK
  <1>1. l = 0 \/ l \in lo .. hi
    BY LastOfFinds DEF IsLast
  <1>2. l # 0 => log[s][l] \in Records
    BY <1>0, <1>1
  <1>3. l # 0 => log[s][l].id \in 0 .. MaxRecords
    BY <1>0, <1>2 DEF Records
  <1> QED BY <1>0, <1>1, <1>3 DEF Shows

\* The stream a drain works on.
LEMMA StreamType ==
    ASSUME TypeOK, pc \in {"head", "fetch", "ack"}
    PROVE  /\ drain.stream \in Streams /\ drain.stream \in drain.todo
           /\ cursor[drain.stream] \in Nat /\ Len(log[drain.stream]) \in Nat
           /\ cursor[drain.stream] <= Len(log[drain.stream])
  BY DEF TypeOK, NodeOK, DrainOK, Locals

LEMMA DoneType ==
    ASSUME drain \in Locals, drainedOn \in [Streams -> Nat], StreamDone
    PROVE  drain' \in Locals /\ drainedOn' \in [Streams -> Nat] /\ pc' = "pick"
  <1>1. drain.todo \ {drain.stream} \in SUBSET Streams /\ drain.change \in Change
    BY DEF Locals
  <1>2. drain.change.sub \in Nat
    BY <1>1 DEF Change
  <1>3. drain' \in Locals
    <2>1. drain' = [drain EXCEPT !.todo = drain.todo \ {drain.stream}, !.change = NoChange, !.head = 0,
                              !.first = TRUE, !.next = 1]
      BY DEF StreamDone
    <2>2. 0 \in Nat /\ 1 \in Nat \ {0} /\ TRUE \in BOOLEAN
      OBVIOUS
    <2> QED BY <1>1, <2>1, <2>2, NoDrainType DEF Locals
  <1> QED BY <1>2, <1>3 DEF StreamDone

LEMMA PickType ==
    ASSUME TypeOK, SkipStream \/ PickStream \/ ReadHead \/ FetchRebuild
    PROVE  TypeOK'
  <1>0. /\ drain \in Locals /\ drain.todo \in SUBSET Streams
        /\ \A s \in Streams : latest[s] \in Change /\ Len(log[s]) \in Nat
    BY DEF TypeOK, NodeOK, DrainOK, Locals
  <1>1. CASE SkipStream
    <2>1. drain' \in Locals
      BY <1>0, <1>1 DEF SkipStream, Locals
    <2> QED BY <1>1, <2>1
            DEF SkipStream, TypeOK, NodeOK, ViewOK, DrainOK, node, watch, signals, loop, state, reading
  <1>2. CASE PickStream
    <2>1. PICK s \in drain.todo :
             LET change == IF drain.hinted THEN latest[s] ELSE NoChange
             IN  /\ drain' = [drain EXCEPT !.stream = s, !.change = change, !.head = change.head,
                                           !.first = TRUE]
                 /\ pc' = IF change = NoChange THEN "head" ELSE "fetch"
      BY <1>2 DEF PickStream
    <2> DEFINE change == IF drain.hinted THEN latest[s] ELSE NoChange
    <2>2. change \in Change /\ change.head \in Nat
      BY <1>0, NoDrainType DEF Change
    <2>3. drain' = [drain EXCEPT !.stream = s, !.change = change, !.head = change.head, !.first = TRUE]
          /\ pc' \in {"head", "fetch"}
      BY <2>1
    <2> HIDE DEF change
    <2>4. drain' \in Locals /\ drain'.stream \in drain'.todo
      BY <1>0, <2>2, <2>3 DEF Locals
    <2>5. UNCHANGED <<node, watch, signals, loop, holder, state, reading, refusing, troubles>> /\ pc = "pick"
      BY <1>2 DEF PickStream
    <2>6. NodeOK'
      BY <2>5 DEF TypeOK, NodeOK, node, watch, signals
    <2>7. ViewOK'
      BY <2>5 DEF TypeOK, ViewOK, loop, state, reading
    <2>8. DrainOK'
      BY <2>3, <2>4, <2>5 DEF TypeOK, DrainOK, loop
    <2> QED BY <2>6, <2>7, <2>8 DEF TypeOK
  <1>3. CASE ReadHead
    <2>1. drain' = [drain EXCEPT !.head = Len(log[drain.stream])] /\ pc = "head" /\ pc' = "fetch"
          /\ UNCHANGED <<node, watch, signals, loop, holder, state, reading, refusing, troubles>>
      BY <1>3 DEF ReadHead
    <2>2. drain' \in Locals /\ drain'.stream \in drain'.todo
      <3>1. PICK h \in Nat : h = Len(log[drain.stream])
        BY <1>0, <2>1, StreamType
      <3>2. drain' = [drain EXCEPT !.head = h] /\ drain.stream \in drain.todo /\ drain \in Locals
        BY <1>0, <2>1, <3>1, StreamType
      <3> QED BY <3>2 DEF Locals
    <2>3. NodeOK'
      BY <2>1 DEF TypeOK, NodeOK, node, watch, signals
    <2>4. ViewOK'
      BY <2>1 DEF TypeOK, ViewOK, loop, state, reading
    <2>5. DrainOK'
      BY <2>1, <2>2 DEF TypeOK, DrainOK, loop
    <2> QED BY <2>3, <2>4, <2>5 DEF TypeOK
  <1>4. CASE FetchRebuild
    <2>1. drain' = [drain EXCEPT !.change = NoChange, !.head = 0, !.first = TRUE] /\ pc = "fetch" /\ pc' = "pass"
          /\ initialized' = FALSE
          /\ UNCHANGED <<node, watch, signals, loop, holder, entries, offsets, positions, drainedOn, hidden, reading, refusing, troubles>>
      BY <1>4 DEF FetchRebuild
    <2>2. drain' \in Locals
      BY <1>0, <2>1, NoDrainType DEF Locals
    <2>3. NodeOK'
      BY <2>1 DEF TypeOK, NodeOK, node, watch, signals
    <2>4. ViewOK'
      BY <2>1 DEF TypeOK, ViewOK, loop, reading
    <2>5. DrainOK'
      BY <2>1, <2>2 DEF TypeOK, DrainOK, node, loop
    <2> QED BY <2>3, <2>4, <2>5 DEF TypeOK
  <1> QED BY <1>1, <1>2, <1>3, <1>4

LEMMA FetchType ==
    ASSUME TypeOK, FetchPage \/ FetchNothing \/ AckPage
    PROVE  TypeOK'
  <1> DEFINE s == drain.stream
  <1>0. /\ pc \in {"fetch", "ack"} /\ s \in Streams /\ drain \in Locals
        /\ cursor[s] \in Nat /\ Len(log[s]) \in Nat /\ cursor[s] <= Len(log[s]) /\ positions[s] \in Nat
        /\ drainedOn \in [Streams -> Nat] /\ drain.head \in Nat
    <2>1. pc \in {"fetch", "ack"}
      BY DEF FetchPage, FetchNothing, AckPage
    <2> QED BY <2>1, StreamType DEF TypeOK, DrainOK, ViewOK, Locals
  <1>1. CASE FetchPage
    <2>1. PICK next \in cursor[s] + 2 .. Len(log[s]) + 1 :
              LET found(t) == IF StreamOf[t] = s THEN LastOf(s, cursor[s] + 1, next - 1, t) ELSE 0
              IN  /\ offsets' = [t \in Topics |-> IF Newer(t, found(t)) THEN found(t) ELSE offsets[t]]
                  /\ entries' = [t \in Topics |-> IF Newer(t, found(t)) THEN Shows(s, found(t)) ELSE entries[t]]
                  /\ drain' = [drain EXCEPT !.next = next, !.first = FALSE]
      BY <1>1 DEF FetchPage
    <2>2. /\ pc' = "ack"
          /\ UNCHANGED <<node, watch, signals, loop, holder, positions, drainedOn, initialized, hidden, reading, refusing, troubles>>
      BY <1>1 DEF FetchPage
    <2> DEFINE found(t) == IF StreamOf[t] = s THEN LastOf(s, cursor[s] + 1, next - 1, t) ELSE 0
    <2>3. ASSUME NEW t \in Topics PROVE found(t) \in Nat /\ Shows(s, found(t)) \in 0 .. MaxRecords
      <3>0. next \in cursor[s] + 2 .. Len(log[s]) + 1
        BY <2>1
      <3>1. /\ cursor[s] + 1 \in Nat \ {0} /\ next - 1 \in Nat /\ next - 1 <= Len(log[s])
            /\ MaxRecords \in Nat
        <4>1. PICK c \in Nat, l \in Nat : c = cursor[s] /\ l = Len(log[s])
          BY <1>0
        <4>2. next \in c + 2 .. l + 1
          BY <3>0, <4>1
        <4>3. c + 1 \in Nat \ {0} /\ next - 1 \in Nat /\ next - 1 <= l
          BY <4>2
        <4>4. MaxRecords \in Nat
          BY ViewAssumption
        <4> QED BY <4>1, <4>3, <4>4
      <3>2. LastOf(s, cursor[s] + 1, next - 1, t) \in Nat
            /\ Shows(s, LastOf(s, cursor[s] + 1, next - 1, t)) \in 0 .. MaxRecords
        BY <1>0, <3>1, FoundType DEF TypeOK
      <3> QED BY <3>1, <3>2 DEF Shows
    <2>4. /\ offsets' = [t \in Topics |-> IF Newer(t, found(t)) THEN found(t) ELSE offsets[t]]
          /\ entries' = [t \in Topics |-> IF Newer(t, found(t)) THEN Shows(s, found(t)) ELSE entries[t]]
          /\ drain' = [drain EXCEPT !.next = next, !.first = FALSE]
      BY <2>1
    <2> HIDE DEF found
    <2>5. offsets' \in [Topics -> Nat] /\ entries' \in [Topics -> 0 .. MaxRecords]
      BY <2>3, <2>4 DEF TypeOK, ViewOK
    <2>6. /\ drain' \in Locals /\ drain'.stream = s /\ drain'.todo = drain.todo
          /\ drain'.next = next /\ next \in cursor[s] + 2 .. Len(log[s]) + 1
      <3>1. next \in Nat \ {0}
        BY <1>0, <2>1
      <3> QED BY <1>0, <2>1, <2>4, <3>1 DEF Locals
    <2>7. ViewOK'
      BY <2>2, <2>5 DEF TypeOK, ViewOK, loop, reading
    <2>8. NodeOK'
      BY <2>2 DEF TypeOK, NodeOK, node, watch, signals
    <2>9. DrainOK'
      <3>1. pc # "none" /\ s \in drain.todo
        BY <1>0, StreamType
      <3> QED BY <2>2, <2>6, <3>1 DEF TypeOK, DrainOK, node, loop
    <2> QED BY <2>7, <2>8, <2>9 DEF TypeOK
  <1>2. CASE FetchNothing
    <2>1. /\ positions' = [positions EXCEPT ![s] = MaxOf(@, cursor[s])] /\ StreamDone
          /\ UNCHANGED <<node, watch, signals, loop, holder, entries, offsets, initialized, hidden, reading, refusing, troubles>>
      BY <1>2 DEF FetchNothing
    <2>2. drain' \in Locals /\ drainedOn' \in [Streams -> Nat] /\ pc' = "pick"
      BY <1>0, <2>1, DoneType
    <2>3. positions' \in [Streams -> Nat]
      BY <1>0, <2>1 DEF TypeOK, ViewOK, MaxOf
    <2>4. NodeOK'
      BY <2>1 DEF TypeOK, NodeOK, node, watch, signals
    <2>6. ViewOK'
      BY <2>1, <2>2, <2>3 DEF TypeOK, ViewOK, loop, reading
    <2>5. DrainOK'
      BY <1>0, <2>1, <2>2 DEF TypeOK, DrainOK, node, loop
    <2> QED BY <2>4, <2>5, <2>6 DEF TypeOK
  <1>3. CASE AckPage
    <2>1. /\ pc = "ack" /\ cursor' = [cursor EXCEPT ![s] = MaxOf(@, AckOffset)]
          /\ positions' = [positions EXCEPT ![s] = AckOffset]
          /\ low' = [low EXCEPT ![s] = Held(s, cursor'[s])]
          /\ UNCHANGED <<log, admitted, watch, signals, loop, holder, entries, offsets, initialized,
                       hidden, reading, refusing, troubles>>
          /\ \/ StreamDone
             \/ pc' = "fetch" /\ drain' = [drain EXCEPT !.next = 1] /\ UNCHANGED drainedOn
      BY <1>3 DEF AckPage
    <2>2. AckOffset \in cursor[s] + 1 .. Len(log[s]) /\ AckOffset \in Nat
      <3>1. drain.next \in cursor[s] + 2 .. Len(log[s]) + 1
        BY <2>1 DEF TypeOK, DrainOK
      <3>2. PICK c \in Nat, l \in Nat, n \in Nat : c = cursor[s] /\ l = Len(log[s]) /\ n = drain.next
        BY <1>0, <3>1
      <3>3. n - 1 \in c + 1 .. l /\ n - 1 \in Nat
        BY <3>1, <3>2
      <3> QED BY <3>2, <3>3 DEF AckOffset
    <2>3. MaxOf(cursor[s], AckOffset) = AckOffset
      BY <1>0, <2>2 DEF MaxOf
    <2>4. /\ cursor' \in [Streams -> Nat] /\ positions' \in [Streams -> Nat]
          /\ \A u \in Streams : cursor'[u] <= Len(log[u])
      <3>1. PICK a \in Nat : a = AckOffset
        BY <2>2
      <3>2. cursor' = [cursor EXCEPT ![s] = a] /\ positions' = [positions EXCEPT ![s] = a]
        BY <2>1, <2>3, <3>1
      <3>3. a <= Len(log[s]) /\ s \in Streams
        BY <1>0, <2>2, <3>1
      <3>4. /\ cursor \in [Streams -> Nat] /\ positions \in [Streams -> Nat]
            /\ \A u \in Streams : cursor[u] <= Len(log[u])
        BY DEF TypeOK, NodeOK, ViewOK
      <3> QED BY <3>2, <3>3, <3>4
    <2>5. /\ drain' \in Locals /\ drainedOn' \in [Streams -> Nat]
          /\ pc' = "pick" \/ (pc' = "fetch" /\ drain'.stream \in drain'.todo)
      <3>1. CASE StreamDone
        BY <1>0, <3>1, DoneType
      <3>2. CASE pc' = "fetch" /\ drain' = [drain EXCEPT !.next = 1] /\ UNCHANGED drainedOn
        <4>1. 1 \in Nat \ {0} /\ s \in drain.todo
          BY <1>0, StreamType
        <4>2. drain' \in Locals
          BY <1>0, <3>2, <4>1 DEF Locals
        <4>3. drain'.stream = s /\ drain'.todo = drain.todo
          BY <1>0, <3>2 DEF Locals
        <4> QED BY <1>0, <3>2, <4>1, <4>2, <4>3
      <3> QED BY <2>1, <3>1, <3>2
    <2>9. low' \in [Streams -> Nat \ {0}] /\ \A u \in Streams : low'[u] <= Len(log[u]) + 1
      BY <1>0, <2>1, HeldType DEF TypeOK, NodeOK
    <2>6. NodeOK'
      BY <2>1, <2>4, <2>9 DEF TypeOK, NodeOK, watch, signals
    <2>7. ViewOK'
      BY <2>1, <2>4, <2>5 DEF TypeOK, ViewOK, loop, reading
    <2>8. DrainOK'
      BY <2>1, <2>5 DEF TypeOK, DrainOK, loop
    <2> QED BY <2>6, <2>7, <2>8 DEF TypeOK
  <1> QED BY <1>1, <1>2, <1>3

LEMMA NextType == TypeOK /\ [Next]_vars => TypeOK'
  <1> SUFFICES ASSUME TypeOK, [Next]_vars PROVE TypeOK'
    OBVIOUS
  <1>1. CASE UNCHANGED vars
    BY <1>1 DEF vars, node, watch, signals, loop, locked, state, reading, TypeOK, NodeOK, ViewOK, DrainOK
  <1> QED BY <1>1, GrowType, ResetType, HintType, LoopType, EndType, PassType, PickType, FetchType
          DEF Next, Drain

\* Every variable keeps its type, the lock is held exactly while a drain runs,
\* and no offset is acknowledged past the head or below the cursor.
THEOREM TypeCorrect == Spec => []TypeOK
  BY InitType, NextType, PTL DEF Spec


-----------------------------------------------------------------------------
(* The cursors and the positions *)

Reading == pc \in {"pick", "head", "fetch", "ack"}

\* No cursor is past its position, and a drain reads on only where the two agree:
\* at its first page it looks for a restart, and one between that page and the
\* last fails it.
PositionInv ==
    /\ initialized => \A s \in Streams : cursor[s] <= positions[s]
    /\ Reading => initialized
    /\ pc \in {"bootKv", "bootAck"} => ~initialized
    /\ pc = "head" => drain.first
    /\ pc = "ack" \/ (pc = "fetch" /\ ~drain.first) => cursor[drain.stream] = positions[drain.stream]

\* The steps of the drain that move neither, and the steps of everybody else.
LEMMA PositionQuiet ==
    ASSUME PositionInv, UNCHANGED <<cursor, positions, initialized>>,
           \/ UNCHANGED <<pc, drain>>
           \/ pc' \in {"none", "pass"}
           \/ pc' = "bootKv" /\ ~initialized
           \/ pc' = "bootAck" /\ pc = "bootKv"
           \/ pc' = "pick" /\ (Reading \/ initialized)
           \/ pc' \in {"head", "fetch"} /\ drain'.first /\ Reading
    PROVE  PositionInv'
  BY DEF PositionInv, Reading

\* Who else may step: no cursor, position or state of the view moves.
Aside == UNCHANGED <<node, locked, state>>

LEMMA OthersAside ==
    ASSUME Connect \/ Hint \/ Disconnect \/ Disconnected \/ TakeVersion \/ Wake \/ IdleDrain \/ Retry
             \/ GraceEnds \/ ReaderFinds \/ ReaderRefuses \/ (Refresh /\ run' = "wait")
    PROVE  Aside
  <1>1. CASE Connect \/ Hint \/ Disconnect \/ Disconnected
    BY <1>1 DEF Connect, Hint, Disconnect, Disconnected, Aside
  <1>2. CASE TakeVersion \/ Wake \/ IdleDrain \/ Retry
    BY <1>2 DEF TakeVersion, Wake, IdleDrain, Retry, Aside
  <1>3. CASE GraceEnds \/ ReaderFinds \/ ReaderRefuses
    BY <1>3 DEF GraceEnds, ReaderFinds, ReaderRefuses, Aside
  <1>4. CASE Refresh /\ run' = "wait"
    BY <1>4 DEF Refresh, Aside
  <1> QED BY <1>1, <1>2, <1>3, <1>4

\* A drain starts or ends: the lock changes hands, the view's state stays.
Handover == UNCHANGED <<node, state>> /\ pc' \in {"none", "pass"}

LEMMA HandoverSteps ==
    ASSUME (Refresh /\ run' # "wait") \/ Synchronize \/ Finish \/ GiveUp \/ FetchShort \/ HttpFails
    PROVE  Handover
  <1>1. CASE (Refresh /\ run' # "wait") \/ Synchronize
    BY <1>1 DEF Refresh, Synchronize, Start, Handover
  <1>2. CASE Finish
    BY <1>2 DEF Finish, Handover
  <1>3. CASE GiveUp \/ FetchShort
    BY <1>3 DEF GiveUp, FetchShort, Fail, Handover
  <1>4. CASE HttpFails
    BY <1>4 DEF HttpFails, Fail, Handover
  <1> QED BY <1>1, <1>2, <1>3, <1>4

\* Where a drain reads, cursor and position agree, unless it is about to find out
\* that the node restarted.
LEMMA ReadAgrees ==
    ASSUME TypeOK, PositionInv,
           pc = "ack" \/ (pc = "fetch" /\ ~Restarted(drain.stream))
    PROVE  initialized /\ cursor[drain.stream] = positions[drain.stream]
  <1>1. initialized /\ cursor[drain.stream] <= positions[drain.stream] /\ drain.stream \in Streams
    BY StreamType DEF PositionInv, Reading
  <1>2. cursor[drain.stream] \in Nat /\ positions[drain.stream] \in Nat
    BY <1>1 DEF TypeOK, NodeOK, ViewOK
  <1>3. ~Behind(drain.stream)
    <2>1. CASE pc = "ack" \/ (pc = "fetch" /\ ~drain.first)
      BY <1>2, <2>1 DEF PositionInv, Behind
    <2>2. CASE pc = "fetch" /\ drain.first
      BY <2>2 DEF Restarted, Behind
    <2> QED BY <2>1, <2>2 DEF TypeOK, DrainOK, Locals
  <1> QED BY <1>1, <1>2, <1>3 DEF Behind

\* What acknowledging a page does to the two.
LEMMA AckMoves ==
    ASSUME TypeOK, PositionInv, AckPage
    PROVE  /\ drain.next - 1 \in cursor[drain.stream] + 1 .. Len(log[drain.stream])
           /\ drain.next - 1 \in Nat
           /\ cursor' = [cursor EXCEPT ![drain.stream] = drain.next - 1]
           /\ positions' = [positions EXCEPT ![drain.stream] = drain.next - 1]
           /\ cursor[drain.stream] = positions[drain.stream]
           /\ initialized' /\ initialized
  <1> DEFINE s == drain.stream
  <1>1. pc = "ack" /\ s \in Streams /\ cursor[s] \in Nat /\ Len(log[s]) \in Nat
    BY StreamType DEF AckPage
  <1>2. drain.next \in cursor[s] + 2 .. Len(log[s]) + 1
    BY <1>1 DEF TypeOK, DrainOK
  <1>3. drain.next - 1 \in cursor[s] + 1 .. Len(log[s]) /\ drain.next - 1 \in Nat
    BY <1>1, <1>2
  <1>4. /\ cursor' = [cursor EXCEPT ![s] = MaxOf(cursor[s], drain.next - 1)]
        /\ positions' = [positions EXCEPT ![s] = drain.next - 1]
        /\ initialized' = initialized
    BY DEF AckPage, AckOffset
  <1>5. MaxOf(cursor[s], drain.next - 1) = drain.next - 1
    BY <1>1, <1>3 DEF MaxOf
  <1>6. initialized /\ cursor[s] = positions[s]
    BY <1>1, ReadAgrees
  <1> QED BY <1>1, <1>3, <1>4, <1>5, <1>6

\* A read that finds nothing leaves both where they are.
LEMMA NothingMoves ==
    ASSUME TypeOK, PositionInv, FetchNothing
    PROVE  initialized /\ UNCHANGED <<cursor, positions>> /\ cursor[drain.stream] = positions[drain.stream]
  <1> DEFINE s == drain.stream
  <1>1. pc = "fetch" /\ s \in Streams
    BY StreamType DEF FetchNothing
  <1>2. initialized /\ cursor[s] = positions[s]
    BY <1>1, ReadAgrees DEF FetchNothing
  <1>3. positions' = [positions EXCEPT ![s] = MaxOf(@, cursor[s])] /\ UNCHANGED cursor
    BY DEF FetchNothing, node
  <1>4. MaxOf(positions[s], cursor[s]) = positions[s]
    BY <1>2 DEF MaxOf
  <1>5. positions' = positions
    BY <1>1, <1>3, <1>4 DEF TypeOK, ViewOK
  <1> QED BY <1>2, <1>3, <1>5

\* Taking the snapshot's positions.
LEMMA BootMoves ==
    ASSUME TypeOK, BootAck
    PROVE  cursor' = positions' /\ positions' = drain.heads /\ initialized'
  <1>1. /\ \A s \in Streams : drain.heads[s] \in cursor[s] .. Len(log[s])
        /\ drain.heads \in [Streams -> Nat]
    BY DEF BootAck, TypeOK, DrainOK, Locals
  <1>2. \A s \in Streams : MaxOf(cursor[s], drain.heads[s]) = drain.heads[s]
    BY <1>1 DEF TypeOK, NodeOK, MaxOf
  <1>3. cursor' = drain.heads
    BY <1>1, <1>2 DEF BootAck
  <1> QED BY <1>3 DEF BootAck

LEMMA PositionNext == TypeOK /\ PositionInv /\ [Next]_vars => PositionInv'
  <1> SUFFICES ASSUME TypeOK, PositionInv, [Next]_vars PROVE PositionInv'
    OBVIOUS
  <1>1. ASSUME Aside \/ UNCHANGED vars PROVE PositionInv'
    BY <1>1, PositionQuiet DEF Aside, vars, node, locked, state
  <1>2. ASSUME Handover PROVE PositionInv'
    BY <1>2, PositionQuiet DEF Handover, node, state
  <1>3. ASSUME NEW s \in Streams, Admit(s) \/ Prune(s) PROVE PositionInv'
    <2>1. UNCHANGED <<cursor, positions, initialized, pc, drain>>
      BY <1>3 DEF Admit, Prune, locked, state
    <2> QED BY <2>1, PositionQuiet
  <1>4. CASE Reset
    <2>1. PICK to \in [Streams -> Nat] :
            /\ CutAt(to) /\ cursor' \in [Streams -> Nat]
            /\ \A s \in Streams : cursor'[s] <= cursor[s]
      BY <1>4, ResetCuts
    <2>2. UNCHANGED <<positions, initialized>>
      BY <1>4 DEF Reset
    <2>3. initialized => \A s \in Streams : cursor'[s] <= positions'[s]
      <3>1. \A s \in Streams : cursor[s] \in Nat /\ cursor'[s] \in Nat /\ positions[s] \in Nat
        BY <2>1 DEF TypeOK, NodeOK, ViewOK
      <3> QED BY <2>1, <2>2, <3>1 DEF PositionInv
    <2>4. CASE Engaged /\ Fail(TRUE)
      BY <2>2, <2>3, <2>4, FailParts DEF PositionInv, Reading
    <2>5. CASE ~Engaged /\ UNCHANGED pc
               /\ drain' = [drain EXCEPT !.asked = [s \in Streams |-> MinOf(@[s], to[s])]]
      <3>1. drain'.first = drain.first
        BY <2>5 DEF TypeOK, DrainOK, Locals
      <3>2. pc \notin {"ack", "bootKv", "bootAck"} /\ ~(pc = "fetch" /\ ~drain.first)
        BY <2>5 DEF Engaged
      <3> QED BY <2>2, <2>3, <2>5, <3>1, <3>2 DEF PositionInv, Reading
    <2> QED BY <2>1, <2>4, <2>5 DEF CutAt
  <1>5. CASE Pass
    BY <1>5, PositionQuiet DEF Pass, node, state
  <1>6. CASE BootHeads \/ BootKv
    BY <1>6, PositionQuiet DEF BootHeads, BootKv, node, state
  <1>7. CASE BootAck
    <2>1. \A s \in Streams : cursor'[s] <= positions'[s]
      <3>1. drain.heads \in [Streams -> Nat]
        BY DEF TypeOK, DrainOK, Locals
      <3> QED BY <1>7, <3>1, BootMoves
    <2> QED BY <1>7, <2>1, BootMoves DEF BootAck, PositionInv, Reading
  <1>8. CASE SkipStream \/ ReadHead
    <2>1. UNCHANGED <<cursor, positions, initialized>> /\ Reading
      BY <1>8 DEF SkipStream, ReadHead, node, state, Reading
    <2>2. CASE SkipStream
      BY <2>1, <2>2, PositionQuiet DEF SkipStream
    <2>3. CASE ReadHead
      <3>1. pc = "head" /\ pc' = "fetch" /\ drain'.first = drain.first
        BY <2>3 DEF ReadHead, TypeOK, DrainOK, Locals
      <3> QED BY <2>1, <3>1, PositionQuiet DEF PositionInv
    <2> QED BY <1>8, <2>2, <2>3
  <1>9. CASE PickStream
    <2>1. drain'.first /\ pc' \in {"head", "fetch"} /\ Reading
      BY <1>9 DEF PickStream, TypeOK, DrainOK, Locals, Reading
    <2> QED BY <1>9, <2>1, PositionQuiet DEF PickStream, node, state
  <1>10. CASE FetchRebuild
    BY <1>10 DEF FetchRebuild, PositionInv, Reading, node
  <1>11. CASE FetchPage
    <2>1. pc = "fetch" /\ pc' = "ack" /\ UNCHANGED <<cursor, positions, initialized>> /\ drain'.stream = drain.stream
      BY <1>11 DEF FetchPage, TypeOK, DrainOK, Locals, node
    <2>2. initialized /\ cursor[drain.stream] = positions[drain.stream]
      BY <1>11, <2>1, ReadAgrees DEF FetchPage
    <2> QED BY <2>1, <2>2 DEF PositionInv, Reading
  <1>12. CASE FetchNothing
    <2>1. initialized /\ UNCHANGED <<cursor, positions>>
      BY <1>12, NothingMoves
    <2>2. pc' = "pick" /\ UNCHANGED initialized
      BY <1>12 DEF FetchNothing, StreamDone
    <2> QED BY <2>1, <2>2, PositionQuiet
  <1>13. CASE AckPage
    <2>1. pc' = "pick" \/ (pc' = "fetch" /\ drain'.stream = drain.stream)
      BY <1>13 DEF AckPage, StreamDone, TypeOK, DrainOK, Locals
    <2>2. drain.stream \in Streams
      BY <1>13, StreamType DEF AckPage
    <2>3. /\ cursor' = [cursor EXCEPT ![drain.stream] = drain.next - 1]
          /\ positions' = [positions EXCEPT ![drain.stream] = drain.next - 1]
          /\ initialized' /\ initialized /\ drain.next - 1 \in Nat
      BY <1>13, AckMoves
    <2>4. cursor'[drain.stream] = positions'[drain.stream]
      BY <2>2, <2>3 DEF TypeOK, NodeOK, ViewOK
    <2>5. \A s \in Streams : cursor'[s] <= positions'[s]
      <3>1. \A s \in Streams \ {drain.stream} : cursor'[s] = cursor[s] /\ positions'[s] = positions[s]
        BY <2>3 DEF TypeOK, NodeOK, ViewOK
      <3>2. cursor'[drain.stream] \in Nat
        BY <2>2, <2>3 DEF TypeOK, NodeOK
      <3> QED BY <2>3, <2>4, <3>1, <3>2 DEF PositionInv
    <2> QED BY <2>1, <2>3, <2>4, <2>5 DEF PositionInv, Reading
  <1> QED BY <1>1, <1>2, <1>3, <1>4, <1>5, <1>6, <1>7, <1>8, <1>9, <1>10, <1>11, <1>12, <1>13,
             OthersAside, HandoverSteps DEF Next, Drain


-----------------------------------------------------------------------------
(* What the view shows *)

MatchesFrom(t, lo) == \E n \in lo .. Len(log[StreamOf[t]]) : Matches(t, n)

\* Up to where the records of stream s were applied.
Since(s) == IF pc = "ack" /\ drain.stream = s THEN drain.next - 1 ELSE positions[s]

\* What is asked of a topic: no reset took what the view shows of it.
Counts(t) == t \notin hidden /\ ~Behind(StreamOf[t])

AppliedInv ==
    /\ initialized => \A t \in Topics : Counts(t) => MatchesFrom(t, Since(StreamOf[t]))
    /\ pc = "bootAck" => \A t \in Topics : MatchesFrom(t, drain.heads[StreamOf[t]])

\* Records applied and not yet acknowledged are after the position.
LEMMA SinceType ==
    ASSUME TypeOK, PositionInv, NEW s \in Streams
    PROVE  Since(s) \in Nat /\ positions[s] \in Nat /\ positions[s] <= Since(s)
  <1>1. positions[s] \in Nat /\ cursor[s] \in Nat /\ Len(log[s]) \in Nat
    BY DEF TypeOK, NodeOK, ViewOK
  <1>2. CASE pc = "ack" /\ drain.stream = s
    <2>1. drain.next \in cursor[s] + 2 .. Len(log[s]) + 1 /\ cursor[s] = positions[s]
      BY <1>2 DEF TypeOK, DrainOK, PositionInv
    <2> QED BY <1>1, <1>2, <2>1 DEF Since
  <1> QED BY <1>1, <1>2 DEF Since

\* The last records below an offset do not depend on what is appended.
LEMMA LastOfKept ==
    ASSUME NEW s, NEW lo \in Nat \ {0}, NEW n \in Nat, NEW t,
           \A i \in 1 .. n : log'[s][i] = log[s][i]
    PROVE  LastOf(s, lo, n, t)' = LastOf(s, lo, n, t)
  <1>1. {i \in lo .. n : log'[s][i].topic = t} = {i \in lo .. n : log[s][i].topic = t}
    OBVIOUS
  <1> QED BY <1>1 DEF LastOf

LEMMA MatchesKept ==
    ASSUME NEW t \in Topics, NEW n \in Nat, Matches(t, n), UNCHANGED <<entries, offsets>>,
           \A i \in 1 .. n : log'[StreamOf[t]][i] = log[StreamOf[t]][i]
    PROVE  Matches(t, n)'
  <1> DEFINE l == LastOf(StreamOf[t], 1, n, t)
  <1>1. 1 \in Nat \ {0}
    OBVIOUS
  <1>2. l' = l
    BY <1>1, LastOfKept
  <1>3. l = 0 \/ l \in 1 .. n
    BY <1>1, LastOfFinds DEF IsLast
  <1>4. KvAt(n, t)' = KvAt(n, t)
    BY <1>2, <1>3 DEF KvAt, Shows
  <1> QED BY <1>2, <1>4 DEF Matches

LEMMA MatchesFromKept ==
    ASSUME NodeOK, NEW t \in Topics, NEW lo \in Nat, MatchesFrom(t, lo), UNCHANGED <<entries, offsets>>,
           Len(log'[StreamOf[t]]) \in Nat, Len(log'[StreamOf[t]]) >= Len(log[StreamOf[t]]),
           \A i \in 1 .. Len(log[StreamOf[t]]) : log'[StreamOf[t]][i] = log[StreamOf[t]][i]
    PROVE  \A to \in 0 .. lo : MatchesFrom(t, to)'
  <1>0. Len(log[StreamOf[t]]) \in Nat
    BY ViewAssumption DEF NodeOK
  <1>1. PICK n \in lo .. Len(log[StreamOf[t]]) : Matches(t, n)
    BY DEF MatchesFrom
  <1>2. n \in Nat /\ \A i \in 1 .. n : log'[StreamOf[t]][i] = log[StreamOf[t]][i]
    BY <1>0, <1>1
  <1>3. Matches(t, n)'
    BY <1>1, <1>2, MatchesKept
  <1>4. \A to \in 0 .. lo : n \in to .. Len(log'[StreamOf[t]])
    BY <1>0, <1>1
  <1> QED BY <1>3, <1>4 DEF MatchesFrom

\* The steps that apply nothing and move no position.
LEMMA AppliedQuiet ==
    ASSUME TypeOK, PositionInv, AppliedInv, UNCHANGED <<log, cursor, positions, entries, offsets, hidden>>,
           initialized' => initialized,
           UNCHANGED <<pc, drain>> \/ pc' \notin {"ack", "bootAck"}
    PROVE  AppliedInv'
  <1>1. ASSUME NEW t \in Topics, NEW lo \in Nat, MatchesFrom(t, lo)
        PROVE  \A to \in 0 .. lo : MatchesFrom(t, to)'
    <2>1. Len(log[StreamOf[t]]) \in Nat
      BY ViewAssumption DEF TypeOK, NodeOK
    <2> QED BY <1>1, <2>1, MatchesFromKept DEF TypeOK
  <1>2. ASSUME initialized, NEW t \in Topics, Counts(t)
        PROVE  MatchesFrom(t, Since(StreamOf[t]))'
    <2> DEFINE s == StreamOf[t]
    <2>1. s \in Streams /\ MatchesFrom(t, Since(s))
      BY <1>2, ViewAssumption DEF AppliedInv
    <2>2. Since(s) \in Nat /\ Since(s)' \in 0 .. Since(s)
      <3>1. Since(s)' = Since(s) \/ Since(s)' = positions[s]
        BY DEF Since
      <3> QED BY <2>1, <3>1, SinceType
    <2>3. \A to \in 0 .. Since(s) : MatchesFrom(t, to)'
      BY <1>1, <2>1, <2>2
    <2> QED BY <2>2, <2>3 DEF MatchesFrom
  <1>3. ASSUME pc' = "bootAck", NEW t \in Topics PROVE MatchesFrom(t, drain.heads[StreamOf[t]])'
    <2>1. UNCHANGED <<pc, drain>>
      BY <1>3
    <2>2. drain.heads[StreamOf[t]] \in Nat /\ MatchesFrom(t, drain.heads[StreamOf[t]])
      BY <1>3, <2>1, ViewAssumption DEF AppliedInv, TypeOK, DrainOK, Locals
    <2>3. drain.heads[StreamOf[t]] \in 0 .. drain.heads[StreamOf[t]]
      BY <2>2
    <2> QED BY <1>1, <2>1, <2>2, <2>3 DEF MatchesFrom
  <1>4. \A t \in Topics : Counts(t)' => Counts(t)
    BY DEF Counts, Behind
  <1> QED BY <1>2, <1>3, <1>4, ViewAssumption DEF AppliedInv


\* A page that shows no record of a topic newer than what the view shows of it
\* leaves the node's state of the topic, at its end, what it was at n.
LEMMA PageOldNews ==
    ASSUME NEW s, NEW t, NEW lo \in Nat \ {0}, NEW n \in Nat, NEW m \in Nat, lo - 1 <= n, n < m,
           LastOf(s, lo, m, t) = 0 \/ LastOf(s, lo, m, t) <= LastOf(s, 1, n, t)
    PROVE  LastOf(s, 1, m, t) = LastOf(s, 1, n, t)
  <1> DEFINE f == LastOf(s, lo, m, t)
             l == LastOf(s, 1, n, t)
  <1>0. 1 \in Nat \ {0}
    OBVIOUS
  <1>1. CASE f = 0
    <2>1. ~IsLast(s, lo, m, t, f)
      BY <1>1 DEF IsLast
    <2>2. Without(s, lo, m, t)
      BY <2>1, LastOfFinds
    <2>3. Without(s, n + 1, m, t)
      BY <2>2 DEF Without
    <2> QED BY <2>3, LastOfSkips
  <1>2. CASE f # 0
    <2>1. IsLast(s, lo, m, t, f)
      BY <1>2, LastOfFinds
    <2>2. f \in lo .. m /\ log[s][f].topic = t /\ Without(s, f + 1, m, t)
      BY <2>1 DEF IsLast
    <2>3. l # 0 /\ f <= l
      BY <1>2, <2>2
    <2>4. l \in 1 .. n /\ log[s][l].topic = t
      BY <1>0, <2>3, LastOfFinds DEF IsLast
    <2>5. l = f
      <3>1. l \in Nat /\ f \in Nat /\ ~(l \in f + 1 .. m)
        BY <2>2, <2>4 DEF Without
      <3> QED BY <2>3, <2>4, <3>1
    <2>6. IsLast(s, 1, m, t, f)
      <3>1. f \in 1 .. m
        BY <2>2
      <3> QED BY <2>2, <3>1 DEF IsLast
    <2> QED BY <1>0, <2>5, <2>6, LastOfIs
  <1> QED BY <1>1, <1>2

\* A page applied through m takes a topic that matched at n, at or after the
\* page's start, to one that matches at or after its end.
LEMMA PageMatches ==
    ASSUME TypeOK, NEW t \in Topics, NEW lo \in Nat \ {0}, NEW m \in Nat, lo <= m,
           m <= Len(log[StreamOf[t]]),
           NEW n \in lo - 1 .. Len(log[StreamOf[t]]), Matches(t, n), UNCHANGED log,
           offsets'[t] = IF Newer(t, LastOf(StreamOf[t], lo, m, t))
                         THEN LastOf(StreamOf[t], lo, m, t) ELSE offsets[t],
           entries'[t] = IF Newer(t, LastOf(StreamOf[t], lo, m, t))
                         THEN Shows(StreamOf[t], LastOf(StreamOf[t], lo, m, t)) ELSE entries[t]
    PROVE  MatchesFrom(t, m)'
  <1> DEFINE s == StreamOf[t]
             f == LastOf(s, lo, m, t)
  <1>0. /\ 1 \in Nat \ {0} /\ n \in Nat /\ Len(log[s]) \in Nat /\ offsets[t] \in Nat /\ f \in Nat
        /\ LastOf(s, 1, n, t) \in Nat
    <2>1. Len(log[s]) \in Nat /\ offsets[t] \in Nat
      BY ViewAssumption DEF TypeOK, NodeOK, ViewOK
    <2>2. n \in Nat /\ 1 \in Nat \ {0}
      BY <2>1
    <2> QED BY <2>1, <2>2, LastOfType
  <1>1. \A k \in Nat : LastOf(s, 1, k, t)' = LastOf(s, 1, k, t) /\ KvAt(k, t)' = KvAt(k, t)
    <2>1. \A k \in Nat : LastOf(s, 1, k, t)' = LastOf(s, 1, k, t)
      BY <1>0, LastOfKept
    <2> QED BY <2>1 DEF KvAt, Shows
  <1>2. m \in m .. Len(log'[s])
    BY <1>0
  <1>3. CASE Newer(t, f)
    <2>1. f # 0
      BY <1>0, <1>3 DEF Newer
    <2>2. IsLast(s, lo, m, t, f)
      BY <2>1, LastOfFinds
    <2>3. IsLast(s, 1, m, t, f)
      BY <2>2 DEF IsLast
    <2>4. LastOf(s, 1, m, t) = f
      BY <1>0, <2>3, LastOfIs
    <2>5. entries'[t] = KvAt(m, t) /\ offsets'[t] = LastOf(s, 1, m, t)
      BY <1>3, <2>4 DEF KvAt
    <2>6. Matches(t, m)'
      BY <1>1, <2>5 DEF Matches
    <2> QED BY <1>2, <2>6 DEF MatchesFrom
  <1>4. CASE ~Newer(t, f)
    <2>1. offsets'[t] = offsets[t] /\ entries'[t] = entries[t] /\ f <= offsets[t]
      BY <1>0, <1>4 DEF Newer
    <2>2. Matches(t, n)'
      BY <1>0, <1>1, <2>1 DEF Matches
    <2>3. CASE n >= m
      BY <1>0, <2>2, <2>3 DEF MatchesFrom
    <2>4. CASE n < m
      <3>1. f = 0 \/ f <= LastOf(s, 1, n, t)
        BY <1>0, <2>1 DEF Matches
      <3>2. lo - 1 <= n
        BY <1>0
      <3>3. LastOf(s, 1, m, t) = LastOf(s, 1, n, t)
        BY <1>0, <2>4, <3>1, <3>2, PageOldNews
      <3>4. KvAt(m, t) = KvAt(n, t)
        BY <3>3 DEF KvAt
      <3>5. Matches(t, m)'
        BY <1>0, <1>1, <2>2, <3>3, <3>4 DEF Matches
      <3> QED BY <1>2, <3>5 DEF MatchesFrom
    <2> QED BY <1>0, <2>3, <2>4
  <1> QED BY <1>3, <1>4


LEMMA PageApplied == TypeOK /\ PositionInv /\ AppliedInv /\ FetchPage => AppliedInv'
  <1> SUFFICES ASSUME TypeOK, PositionInv, AppliedInv, FetchPage PROVE AppliedInv'
    OBVIOUS
  <1> DEFINE s == drain.stream
             lo == cursor[s] + 1
             found(t, m) == IF StreamOf[t] = s THEN LastOf(s, lo, m, t) ELSE 0
  <1>1. /\ pc = "fetch" /\ pc' = "ack" /\ s \in Streams /\ drain \in Locals /\ ~Restarted(s)
        /\ UNCHANGED <<log, cursor, positions, initialized, hidden>>
    BY StreamType DEF FetchPage, TypeOK, DrainOK, node
  <1>2. initialized /\ cursor[s] = positions[s] /\ \A u \in Streams : cursor[u] \in Nat /\ positions[u] \in Nat
    BY <1>1, ReadAgrees DEF TypeOK, NodeOK, ViewOK
  <1>3. PICK next \in lo + 1 .. Len(log[s]) + 1 :
          /\ offsets' = [t \in Topics |-> IF Newer(t, found(t, next - 1)) THEN found(t, next - 1)
                                          ELSE offsets[t]]
          /\ entries' = [t \in Topics |-> IF Newer(t, found(t, next - 1)) THEN Shows(s, found(t, next - 1))
                                          ELSE entries[t]]
          /\ drain' = [drain EXCEPT !.next = next, !.first = FALSE]
    <2>1. \E next \in cursor[s] + 2 .. Len(log[s]) + 1 :
            /\ offsets' = [t \in Topics |-> IF Newer(t, found(t, next - 1)) THEN found(t, next - 1)
                                            ELSE offsets[t]]
            /\ entries' = [t \in Topics |-> IF Newer(t, found(t, next - 1)) THEN Shows(s, found(t, next - 1))
                                            ELSE entries[t]]
            /\ drain' = [drain EXCEPT !.next = next, !.first = FALSE]
      BY DEF FetchPage
    <2>2. cursor[s] + 2 = lo + 1
      BY <1>1, <1>2
    <2> QED BY <2>1, <2>2
  <1>4. /\ next \in lo + 1 .. Len(log[s]) + 1 /\ lo \in Nat \ {0} /\ next - 1 \in Nat
        /\ lo <= next - 1 /\ next - 1 <= Len(log[s])
    <2>1. next \in lo + 1 .. Len(log[s]) + 1
      BY <1>3
    <2>2. Len(log[s]) \in Nat /\ lo \in Nat \ {0}
      BY <1>1, <1>2 DEF TypeOK, NodeOK
    <2> QED BY <2>1, <2>2
  <1>5. drain'.next = next /\ drain'.stream = s
    BY <1>1, <1>3 DEF Locals
  <1>6. \A u \in Streams : Since(u) = positions[u] /\ Since(u)' = IF u = s THEN next - 1 ELSE positions[u]
    BY <1>1, <1>5 DEF Since
  <1>7. \A t \in Topics : Counts(t)' => Counts(t)
    BY <1>1 DEF Counts, Behind
  <1>8. ASSUME NEW t \in Topics, Counts(t), StreamOf[t] # s PROVE MatchesFrom(t, Since(StreamOf[t]))'
    <2>1. StreamOf[t] \in Streams /\ offsets[t] \in Nat
      BY ViewAssumption DEF TypeOK, ViewOK
    <2>2. PICK n \in positions[StreamOf[t]] .. Len(log[StreamOf[t]]) : Matches(t, n)
      BY <1>2, <1>6, <1>8, <2>1 DEF AppliedInv, MatchesFrom
    <2>3. offsets'[t] = offsets[t] /\ entries'[t] = entries[t]
      BY <1>3, <1>8, <2>1 DEF Newer
    <2>4. n \in Nat
      <3>1. positions[StreamOf[t]] \in Nat
        BY <1>2, <2>1
      <3> QED BY <2>2, <3>1
    <2>5. 1 \in Nat \ {0}
      OBVIOUS
    <2>6. LastOf(StreamOf[t], 1, n, t)' = LastOf(StreamOf[t], 1, n, t)
      BY <1>1, <2>4, <2>5, LastOfKept
    <2>7. Matches(t, n)'
      BY <1>1, <2>2, <2>3, <2>6 DEF Matches, KvAt, Shows
    <2> QED BY <1>1, <1>6, <1>8, <2>1, <2>2, <2>7 DEF MatchesFrom
  <1>9. ASSUME NEW t \in Topics, Counts(t), StreamOf[t] = s PROVE MatchesFrom(t, Since(StreamOf[t]))'
    <2>1. PICK n \in positions[s] .. Len(log[s]) : Matches(t, n)
      BY <1>1, <1>2, <1>6, <1>9 DEF AppliedInv, MatchesFrom
    <2>2. n \in lo - 1 .. Len(log[s])
      <3>1. n \in positions[s] .. Len(log[s])
        BY <2>1
      <3> QED BY <1>1, <1>2, <3>1
    <2>3. /\ offsets'[t] = IF Newer(t, LastOf(s, lo, next - 1, t)) THEN LastOf(s, lo, next - 1, t)
                           ELSE offsets[t]
          /\ entries'[t] = IF Newer(t, LastOf(s, lo, next - 1, t))
                           THEN Shows(s, LastOf(s, lo, next - 1, t)) ELSE entries[t]
      BY <1>3, <1>9
    <2>4. MatchesFrom(t, next - 1)'
      BY <1>1, <1>4, <1>9, <2>1, <2>2, <2>3, PageMatches
    <2>5. Since(StreamOf[t])' = next - 1
      BY <1>1, <1>6, <1>9
    <2> QED BY <2>4, <2>5 DEF MatchesFrom
  <1> QED BY <1>1, <1>7, <1>8, <1>9 DEF AppliedInv

\* After a reset a topic counts only if what the view shows of it is still held.
LEMMA ResetApplied == TypeOK /\ Reset => AppliedInv'
  <1> SUFFICES ASSUME TypeOK, Reset PROVE AppliedInv'
    OBVIOUS
  <1>1. PICK to \in [Streams -> Nat] :
          /\ CutAt(to) /\ cursor' \in [Streams -> Nat]
          /\ \A s \in Streams : Len(log'[s]) = to[s] /\ \A i \in 1 .. to[s] : log'[s][i] = log[s][i]
    BY ResetCuts
  <1>2. UNCHANGED <<positions, entries, offsets>>
    BY DEF Reset
  <1>3. pc' \notin {"ack", "bootAck"}
    BY <1>1, FailParts DEF CutAt, Engaged
  <1>4. ASSUME NEW t \in Topics, Counts(t)' PROVE MatchesFrom(t, positions[StreamOf[t]])'
    <2> DEFINE s == StreamOf[t]
    <2>1. s \in Streams /\ positions[s] \in Nat /\ cursor'[s] \in Nat /\ to[s] \in Nat
      BY <1>1, ViewAssumption DEF TypeOK, ViewOK
    <2>2. positions[s] <= cursor'[s]
      BY <1>2, <1>4, <2>1 DEF Counts, Behind
    <2>3. PICK n \in positions[s] .. to[s] : Matches(t, n)
      <3>1. t \notin hidden'
        BY <1>4 DEF Counts
      <3> QED BY <1>1, <2>2, <3>1 DEF CutAt
    <2>4. n \in Nat /\ \A i \in 1 .. n : log'[s][i] = log[s][i]
      <3>1. n \in Nat /\ n <= to[s]
        BY <2>1, <2>3
      <3>2. \A i \in 1 .. to[s] : log'[s][i] = log[s][i]
        BY <1>1, <2>1
      <3> QED BY <2>1, <3>1, <3>2
    <2>5. Matches(t, n)'
      BY <1>2, <2>3, <2>4, MatchesKept
    <2> QED BY <1>1, <1>2, <2>1, <2>5 DEF MatchesFrom
  <1>5. \A s \in Streams : Since(s)' = positions[s]
    BY <1>2, <1>3 DEF Since
  <1> QED BY <1>2, <1>3, <1>4, <1>5, ViewAssumption DEF AppliedInv, MatchesFrom

LEMMA AppliedNext == TypeOK /\ TypeOK' /\ PositionInv /\ AppliedInv /\ [Next]_vars => AppliedInv'
  <1> SUFFICES ASSUME TypeOK, TypeOK', PositionInv, AppliedInv, [Next]_vars PROVE AppliedInv'
    OBVIOUS
  <1>1. ASSUME Aside \/ UNCHANGED vars PROVE AppliedInv'
    BY <1>1, AppliedQuiet DEF Aside, vars, node, locked, state
  <1>2. ASSUME Handover PROVE AppliedInv'
    BY <1>2, AppliedQuiet DEF Handover, node, state
  <1>3. CASE \E s \in Streams : Prune(s)
    <2>1. UNCHANGED <<log, cursor, locked, state>>
      BY <1>3 DEF Prune, locked, state
    <2> QED BY <2>1, AppliedQuiet DEF locked, state
  <1>4. ASSUME NEW s \in Streams, Admit(s) PROVE AppliedInv'
    <2>1. PICK r : log' = [log EXCEPT ![s] = Append(@, r)]
      BY <1>4 DEF Admit
    <2>2. UNCHANGED <<cursor, positions, entries, offsets, hidden, initialized, pc, drain>>
      BY <1>4 DEF Admit, locked, state
    <2>3. ASSUME NEW u \in Streams
          PROVE  /\ Len(log'[u]) \in Nat /\ Len(log'[u]) >= Len(log[u])
                 /\ \A i \in 1 .. Len(log[u]) : log'[u][i] = log[u][i]
      <3>1. log[u] \in Seq(Records) /\ log'[u] \in Seq(Records)
        BY DEF TypeOK, NodeOK
      <3>2. log'[u] = log[u] \/ log'[u] = Append(log[u], r)
        BY <2>1 DEF TypeOK, NodeOK
      <3>3. Append(log[u], r) = Append(log[u], r) /\ Len(log[u]) \in Nat
        BY <3>1
      <3> QED BY <3>1, <3>2, <3>3
    <2>4. ASSUME NEW t \in Topics, NEW lo \in Nat, MatchesFrom(t, lo) PROVE MatchesFrom(t, lo)'
      <3>1. StreamOf[t] \in Streams /\ lo \in 0 .. lo
        BY ViewAssumption
      <3> QED BY <2>2, <2>3, <2>4, <3>1, MatchesFromKept DEF TypeOK
    <2>5. (\A u \in Streams : Since(u)' = Since(u)) /\ \A t \in Topics : Counts(t)' => Counts(t)
      BY <2>2 DEF Since, Counts, Behind
    <2>6. ASSUME NEW t \in Topics, initialized, Counts(t)
          PROVE  MatchesFrom(t, Since(StreamOf[t]))'
      <3>1. MatchesFrom(t, Since(StreamOf[t])) /\ StreamOf[t] \in Streams
        BY <2>6, ViewAssumption DEF AppliedInv
      <3> QED BY <2>4, <2>5, <3>1, SinceType DEF MatchesFrom
    <2>7. ASSUME NEW t \in Topics, pc = "bootAck" PROVE MatchesFrom(t, drain.heads[StreamOf[t]])'
      <3>1. MatchesFrom(t, drain.heads[StreamOf[t]]) /\ drain.heads[StreamOf[t]] \in Nat
        BY <2>7, ViewAssumption DEF AppliedInv, TypeOK, DrainOK, Locals
      <3> QED BY <2>2, <2>4, <3>1 DEF MatchesFrom
    <2> QED BY <2>2, <2>5, <2>6, <2>7, ViewAssumption DEF AppliedInv
  <1>5. CASE Reset
    BY <1>5, ResetApplied
  <1>6. CASE Pass \/ BootHeads
    <2>1. UNCHANGED <<node, state>> /\ pc' \notin {"ack", "bootAck"}
      BY <1>6 DEF Pass, BootHeads
    <2> QED BY <2>1, AppliedQuiet DEF node, state
  <1>7. CASE BootKv
    <2>1. ~initialized' /\ UNCHANGED <<node, drain>>
      BY <1>7 DEF BootKv, PositionInv
    <2>2. ASSUME NEW t \in Topics PROVE MatchesFrom(t, drain.heads[StreamOf[t]])'
      <3> DEFINE s == StreamOf[t]
                 n == Len(log[s])
      <3>1. s \in Streams /\ n \in Nat /\ drain.heads[s] \in cursor[s] .. n /\ drain.heads[s] \in Nat
        <4>1. pc = "bootKv" /\ s \in Streams
          BY <1>7, ViewAssumption DEF BootKv
        <4>2. n \in Nat
          BY <4>1 DEF TypeOK, NodeOK
        <4>3. drain.heads[s] \in cursor[s] .. n
          BY <4>1 DEF TypeOK, DrainOK
        <4>4. drain.heads \in [Streams -> Nat]
          BY DEF TypeOK, DrainOK, Locals
        <4> QED BY <4>1, <4>2, <4>3, <4>4
      <3>2. /\ entries'[t] = Kv(t)
            /\ offsets'[t] = IF Kv(t) = 0 THEN 0 ELSE LastOf(s, 1, n, t)
        BY <1>7 DEF BootKv
      <3>3. LastOf(s, 1, n, t)' = LastOf(s, 1, n, t) /\ KvAt(n, t)' = KvAt(n, t)
        BY <2>1 DEF node, LastOf, KvAt, Shows
      <3>4. Matches(t, n)'
        BY <2>1, <3>2, <3>3 DEF Matches, Kv, node
      <3>5. n \in drain.heads[s] .. n
        BY <3>1
      <3> QED BY <2>1, <3>4, <3>5 DEF MatchesFrom, node
    <2> QED BY <2>1, <2>2 DEF AppliedInv
  <1>8. CASE BootAck
    <2>1. \A s \in Streams : Since(s)' = drain.heads[s] /\ drain.heads[s] \in Nat
      <3>1. cursor' = drain.heads /\ positions' = drain.heads
        BY <1>8, BootMoves
      <3>2. drain.heads \in [Streams -> Nat]
        BY DEF TypeOK, DrainOK, Locals
      <3>3. pc' = "pick"
        BY <1>8 DEF BootAck
      <3> QED BY <3>1, <3>2, <3>3 DEF Since
    <2>2. ASSUME NEW t \in Topics PROVE MatchesFrom(t, Since(StreamOf[t]))'
      <3>1. MatchesFrom(t, drain.heads[StreamOf[t]]) /\ StreamOf[t] \in Streams
        BY <1>8, ViewAssumption DEF AppliedInv, BootAck
      <3>2. UNCHANGED <<log, entries, offsets>>
        BY <1>8 DEF BootAck
      <3>3. Len(log[StreamOf[t]]) \in Nat
        BY <3>1 DEF TypeOK, NodeOK
      <3>4. drain.heads[StreamOf[t]] \in 0 .. drain.heads[StreamOf[t]]
        BY <2>1, <3>1
      <3>5. \A to \in 0 .. drain.heads[StreamOf[t]] : MatchesFrom(t, to)'
        BY <2>1, <3>1, <3>2, <3>3, MatchesFromKept DEF TypeOK
      <3> QED BY <2>1, <3>1, <3>4, <3>5 DEF MatchesFrom
    <2>3. pc' # "bootAck"
      BY <1>8 DEF BootAck
    <2> QED BY <2>2, <2>3 DEF AppliedInv
  <1>9. CASE SkipStream \/ PickStream \/ ReadHead
    <2>1. UNCHANGED <<node, state>> /\ pc' \notin {"ack", "bootAck"}
      BY <1>9 DEF SkipStream, PickStream, ReadHead
    <2> QED BY <2>1, AppliedQuiet DEF node, state
  <1>10. CASE FetchRebuild
    BY <1>10 DEF FetchRebuild, AppliedInv
  <1>11. CASE FetchPage
    BY <1>11, PageApplied
  <1>12. CASE FetchNothing
    <2>1. UNCHANGED <<cursor, positions>>
      BY <1>12, NothingMoves
    <2>2. UNCHANGED <<log, entries, offsets, hidden, initialized>> /\ pc' = "pick"
      BY <1>12 DEF FetchNothing, StreamDone, node
    <2> QED BY <2>1, <2>2, AppliedQuiet
  <1>13. CASE AckPage
    <2> DEFINE s == drain.stream
    <2>1. pc = "ack" /\ pc' \in {"pick", "fetch"} /\ s \in Streams /\ UNCHANGED <<log, entries, offsets, hidden>>
      BY <1>13, StreamType DEF AckPage, StreamDone
    <2>2. /\ positions' = [positions EXCEPT ![s] = drain.next - 1]
          /\ cursor' = [cursor EXCEPT ![s] = drain.next - 1]
          /\ initialized /\ cursor[s] = positions[s]
      BY <1>13, AckMoves
    <2>3. \A t \in Topics : Counts(t)' => Counts(t)
      <3>1. \A u \in Streams : Behind(u) => Behind(u)'
        <4>1. ~Behind(s)
          BY <2>1, <2>2 DEF Behind, TypeOK, NodeOK
        <4>2. \A u \in Streams \ {s} : cursor'[u] = cursor[u] /\ positions'[u] = positions[u]
          BY <2>2 DEF TypeOK, NodeOK, ViewOK
        <4> QED BY <4>1, <4>2 DEF Behind
      <3> QED BY <2>1, <3>1, ViewAssumption DEF Counts
    <2>4. \A u \in Streams : Since(u)' = Since(u) /\ Since(u) \in Nat
      BY <2>1, <2>2, SinceType DEF Since, TypeOK, ViewOK
    <2>5. ASSUME NEW t \in Topics, Counts(t) PROVE MatchesFrom(t, Since(StreamOf[t]))'
      <3>1. StreamOf[t] \in Streams /\ MatchesFrom(t, Since(StreamOf[t]))
        BY <2>2, <2>5, ViewAssumption DEF AppliedInv
      <3>2. Len(log[StreamOf[t]]) \in Nat
        BY <3>1 DEF TypeOK, NodeOK
      <3>4. Since(StreamOf[t]) \in 0 .. Since(StreamOf[t])
        BY <2>4, <3>1
      <3>3. \A to \in 0 .. Since(StreamOf[t]) : MatchesFrom(t, to)'
        BY <2>1, <2>4, <3>1, <3>2, MatchesFromKept DEF TypeOK
      <3> QED BY <2>4, <3>1, <3>3, <3>4 DEF MatchesFrom
    <2> QED BY <2>1, <2>3, <2>5 DEF AppliedInv
  <1> QED BY <1>1, <1>2, <1>3, <1>4, <1>5, <1>6, <1>7, <1>8, <1>9, <1>10, <1>11, <1>12, <1>13,
             OthersAside, HandoverSteps DEF Next, Drain

LEMMA PositionInvariant == Spec => [](TypeOK /\ PositionInv)
  <1>1. Init => TypeOK /\ PositionInv
    BY InitType DEF Init, PositionInv, Reading
  <1>2. TypeOK /\ PositionInv /\ [Next]_vars => (TypeOK /\ PositionInv)'
    BY NextType, PositionNext
  <1> QED BY <1>1, <1>2, PTL DEF Spec

LEMMA AppliedInvariant == Spec => [](TypeOK /\ PositionInv /\ AppliedInv)
  <1>1. Init => AppliedInv
    BY DEF Init, AppliedInv
  <1>2. TypeOK /\ TypeOK' /\ PositionInv /\ AppliedInv /\ [Next]_vars => AppliedInv'
    BY AppliedNext
  <1> QED BY <1>1, <1>2, PositionInvariant, PTL DEF Spec

\* A view that took its snapshot shows, for every topic, the node's state at some
\* offset at or after its position, for any interleaving of its drains with hints,
\* pages, pruning, failures and resets of the node, but for a stream whose reset the
\* next first page finds, and for the topics whose newest record a reset took
\* before the position told of it.
THEOREM AppliedCorrect == Spec => []AppliedState
  <1>1. TypeOK /\ PositionInv /\ AppliedInv => AppliedState
    <2> SUFFICES ASSUME TypeOK, PositionInv, AppliedInv, initialized,
                        NEW t \in Topics \ hidden, ~Behind(StreamOf[t])
                 PROVE  \E n \in positions[StreamOf[t]] .. Len(log[StreamOf[t]]) : entries[t] = KvAt(n, t)
      BY DEF AppliedState
    <2> DEFINE s == StreamOf[t]
    <2>1. s \in Streams /\ Len(log[s]) \in Nat /\ cursor[s] \in Nat
      BY ViewAssumption DEF TypeOK, NodeOK
    <2>2. Since(s) \in Nat /\ positions[s] \in Nat /\ positions[s] <= Since(s)
      BY <2>1, SinceType
    <2>3. Counts(t)
      BY DEF Counts
    <2>4. PICK n \in Since(s) .. Len(log[s]) : Matches(t, n)
      BY <2>3 DEF AppliedInv, MatchesFrom
    <2>5. n \in positions[s] .. Len(log[s])
      BY <2>1, <2>2, <2>4
    <2> QED BY <2>4, <2>5 DEF Matches
  <1> QED BY <1>1, AppliedInvariant, PTL


-----------------------------------------------------------------------------
(* synchronize() *)

\* The position of stream s is at or after where it ended at the call.
Reached(s) == Behind(s) \/ positions[s] >= drain.asked[s]

\* A drain of a caller trusts no hint, so it reads the head of every stream, and
\* it is done with a stream only when it has read up to there.
SyncInv ==
    holder = "sync" =>
        /\ ~drain.hinted /\ drain.took = Streams
        /\ \A s \in Streams : drain.asked[s] <= Len(log[s])
        /\ pc \in {"bootKv", "bootAck"} => drain.todo = Streams
        /\ Reading => \A s \in Streams \ drain.todo : Reached(s)
        /\ pc \in {"fetch", "ack"} => drain.head >= drain.asked[drain.stream]

\* A stream the drain is done with was read through its head.
LEMMA SyncDone ==
    ASSUME TypeOK, PositionInv, SyncInv, holder = "sync", Reading,
           drain.stream \in Streams, UNCHANGED <<log, holder>>,
           \A s \in Streams \ {drain.stream} : cursor'[s] = cursor[s] /\ positions'[s] = positions[s],
           positions'[drain.stream] >= drain.asked[drain.stream],
           pc' = "pick", drain'.todo = drain.todo \ {drain.stream}, drain'.asked = drain.asked,
           drain'.hinted = drain.hinted, drain'.took = drain.took
    PROVE  SyncInv'
  <1>1. \A s \in Streams \ drain'.todo : Reached(s)'
    BY DEF SyncInv, Reached, Behind
  <1> QED BY <1>1 DEF SyncInv

LEMMA SyncNext == TypeOK /\ TypeOK' /\ PositionInv /\ SyncInv /\ [Next]_vars => SyncInv'
  <1> SUFFICES ASSUME TypeOK, TypeOK', PositionInv, SyncInv, [Next]_vars, holder' = "sync" PROVE SyncInv'
    BY DEF SyncInv
  <1> DEFINE s == drain.stream
  <1>1. drain \in Locals /\ drain' \in Locals
    BY DEF TypeOK, DrainOK
  <1>2. ASSUME Aside \/ UNCHANGED vars PROVE SyncInv'
    BY <1>2 DEF Aside, vars, node, locked, state, SyncInv, Reached, Reading, Behind
  <1>3. CASE \E u \in Streams : Admit(u) \/ Prune(u)
    <2>1. UNCHANGED <<cursor, positions, locked>>
      BY <1>3 DEF Admit, Prune, state
    <2>2. \A u \in Streams : Len(log[u]) \in Nat /\ Len(log'[u]) \in Nat /\ Len(log'[u]) >= Len(log[u])
      <3>1. \A u \in Streams : log[u] \in Seq(Records) /\ log'[u] \in Seq(Records)
        BY DEF TypeOK, NodeOK
      <3>2. ASSUME NEW u \in Streams, Admit(u), NEW v \in Streams
            PROVE  Len(log'[v]) >= Len(log[v])
        <4>1. PICK r : log' = [log EXCEPT ![u] = Append(@, r)]
          BY <3>2 DEF Admit
        <4>2. log'[v] = log[v] \/ log'[v] = Append(log[v], r)
          BY <4>1 DEF TypeOK, NodeOK
        <4> QED BY <3>1, <4>2
      <3>3. CASE \E u \in Streams : Prune(u)
        BY <3>1, <3>3 DEF Prune
      <3> QED BY <1>3, <3>1, <3>2, <3>3
    <2>3. \A u \in Streams : drain.asked[u] \in Nat
      BY <1>1 DEF Locals
    <2> QED BY <2>1, <2>2, <2>3 DEF SyncInv, Reached, Reading, Behind, locked
  <1>4. CASE Reset
    <2>1. PICK to \in [Streams -> Nat] :
            /\ CutAt(to) /\ cursor' \in [Streams -> Nat]
            /\ \A u \in Streams : cursor'[u] <= cursor[u] /\ Len(log'[u]) = to[u]
      BY <1>4, ResetCuts
    <2>2. ~Engaged /\ UNCHANGED <<pc, holder>>
          /\ drain' = [drain EXCEPT !.asked = [u \in Streams |-> MinOf(@[u], to[u])]]
      BY <2>1, FailParts DEF CutAt
    <2>3. UNCHANGED positions /\ holder = "sync" /\ pc \notin {"bootKv", "bootAck", "ack"}
      BY <1>4, <2>2 DEF Reset, Engaged
    <2>4. ASSUME NEW u \in Streams
          PROVE  drain'.asked[u] <= Len(log'[u]) /\ drain'.asked[u] <= drain.asked[u]
                 /\ drain'.asked[u] \in Nat /\ drain.asked[u] \in Nat
      <3>1. drain.asked[u] \in Nat /\ drain'.asked[u] = MinOf(drain.asked[u], to[u])
        BY <1>1, <2>2 DEF Locals
      <3> QED BY <2>1, <3>1 DEF MinOf
    <2>5. ASSUME NEW u \in Streams, Reached(u) PROVE Reached(u)'
      <3>1. cursor[u] \in Nat /\ cursor'[u] \in Nat /\ positions[u] \in Nat
        BY <2>1 DEF TypeOK, NodeOK, ViewOK
      <3> QED BY <2>1, <2>3, <2>4, <2>5, <3>1 DEF Reached, Behind
    <2>6. /\ drain'.stream = s /\ drain'.head = drain.head /\ drain.head \in Nat
          /\ drain'.todo = drain.todo /\ drain'.hinted = drain.hinted /\ drain'.took = drain.took
      BY <1>1, <2>2 DEF Locals
    <2>7. pc = "fetch" => drain'.head >= drain'.asked[s]
      <3>1. pc = "fetch" => drain.head >= drain.asked[s] /\ s \in Streams
        BY <2>3, StreamType DEF SyncInv
      <3> QED BY <2>4, <2>6, <3>1
    <2> QED BY <2>2, <2>3, <2>4, <2>5, <2>6, <2>7 DEF SyncInv, Reading
  <1>5. CASE Refresh /\ run' # "wait"
    BY <1>5 DEF Refresh, Start
  <1>6. CASE Synchronize
    <2>1. drain' = [NoDrain EXCEPT !.took = Streams, !.hinted = FALSE, !.asked = [u \in Streams |-> Len(log[u])]]
      BY <1>6 DEF Synchronize, Start, CausalIsHinted
    <2>2. ~drain'.hinted /\ drain'.took = Streams /\ drain'.asked = [u \in Streams |-> Len(log[u])]
      BY <2>1, NoDrainType DEF NoDrain
    <2>3. pc' = "pass" /\ UNCHANGED log
      BY <1>6 DEF Synchronize, Start, node
    <2>4. \A u \in Streams : drain'.asked[u] <= Len(log'[u])
      BY <2>2, <2>3 DEF TypeOK, NodeOK
    <2> QED BY <2>2, <2>3, <2>4 DEF SyncInv, Reading
  <1>7. CASE Finish \/ GiveUp \/ FetchShort \/ HttpFails
    BY <1>7 DEF Finish, GiveUp, FetchShort, HttpFails, Fail
  <1>8. CASE Pass \/ BootHeads
    <2>1. holder = "sync" /\ UNCHANGED log
      BY <1>8 DEF Pass, BootHeads, node
    <2>2. /\ drain'.hinted = drain.hinted /\ drain'.took = Streams /\ drain'.asked = drain.asked
          /\ drain'.todo = Streams /\ pc' \in {"pick", "bootKv"}
      <3>1. drain.took = Streams
        BY <2>1 DEF SyncInv
      <3>2. CASE Pass
        BY <1>1, <3>1, <3>2 DEF Pass, Locals
      <3>3. CASE BootHeads
        <4>1. /\ pc' = "bootKv"
              /\ drain' = [drain EXCEPT !.tries = @ + 1, !.took = Streams, !.todo = Streams,
                                        !.heads = [u \in Streams |-> Len(log[u])]]
          BY <3>3 DEF BootHeads
        <4> QED BY <1>1, <4>1 DEF Locals
      <3> QED BY <1>8, <3>2, <3>3
    <2> QED BY <2>1, <2>2 DEF SyncInv
  <1>9. CASE BootKv
    BY <1>9 DEF BootKv, SyncInv, Reading, node
  <1>10. CASE BootAck
    <2>1. holder = "sync" /\ UNCHANGED log /\ pc = "bootAck" /\ pc' = "pick"
      BY <1>10 DEF BootAck
    <2>2. /\ drain'.hinted = drain.hinted /\ drain'.took = drain.took /\ drain'.asked = drain.asked
          /\ drain'.todo = drain.todo
      BY <1>1, <1>10 DEF BootAck, Locals
    <2> QED BY <2>1, <2>2 DEF SyncInv
  <1>11. CASE SkipStream
    BY <1>11 DEF SkipStream, Covered, SyncInv
  <1>12. CASE PickStream
    <2>1. holder = "sync" /\ pc = "pick" /\ UNCHANGED <<node, state>>
      BY <1>12 DEF PickStream
    <2>2. pc' = "head"
      BY <1>12, <2>1 DEF PickStream, SyncInv
    <2>3. /\ drain'.hinted = drain.hinted /\ drain'.took = drain.took /\ drain'.asked = drain.asked
          /\ drain'.todo = drain.todo
      BY <1>1, <1>12 DEF PickStream, Locals
    <2> QED BY <2>1, <2>2, <2>3 DEF SyncInv, Reached, Reading, Behind, node, state
  <1>13. CASE ReadHead
    <2>1. holder = "sync" /\ pc = "head" /\ pc' = "fetch" /\ UNCHANGED <<node, state>> /\ s \in Streams
      BY <1>13, StreamType DEF ReadHead
    <2>2. /\ drain'.hinted = drain.hinted /\ drain'.took = drain.took /\ drain'.asked = drain.asked
          /\ drain'.todo = drain.todo /\ drain'.stream = s /\ drain'.head = Len(log[s])
      BY <1>1, <1>13 DEF ReadHead, Locals
    <2>3. drain'.head >= drain'.asked[s]
      BY <2>1, <2>2, <1>1 DEF SyncInv, Locals, TypeOK, NodeOK
    <2> QED BY <2>1, <2>2, <2>3 DEF SyncInv, Reached, Reading, Behind, node, state
  <1>14. CASE FetchRebuild
    <2>1. holder = "sync" /\ pc' = "pass" /\ UNCHANGED node
      BY <1>14 DEF FetchRebuild
    <2>2. drain'.hinted = drain.hinted /\ drain'.took = drain.took /\ drain'.asked = drain.asked
      BY <1>1, <1>14 DEF FetchRebuild, Locals
    <2> QED BY <2>1, <2>2 DEF SyncInv, Reading, node
  <1>15. CASE FetchPage
    <2>1. /\ holder = "sync" /\ pc = "fetch" /\ pc' = "ack" /\ s \in Streams
          /\ UNCHANGED <<log, cursor, positions>>
      BY <1>15, StreamType DEF FetchPage, node
    <2>2. PICK next : drain' = [drain EXCEPT !.next = next, !.first = FALSE]
      BY <1>15 DEF FetchPage
    <2>3. /\ drain'.hinted = drain.hinted /\ drain'.took = drain.took /\ drain'.asked = drain.asked
          /\ drain'.todo = drain.todo /\ drain'.stream = s /\ drain'.head = drain.head
      BY <1>1, <2>2 DEF Locals
    <2> QED BY <2>1, <2>3 DEF SyncInv, Reached, Reading, Behind
  <1>16. CASE FetchNothing
    <2>1. /\ holder = "sync" /\ pc = "fetch" /\ s \in Streams /\ UNCHANGED <<log, holder>>
          /\ cursor[s] >= drain.head /\ StreamDone
      BY <1>16, StreamType DEF FetchNothing, node
    <2>2. UNCHANGED <<cursor, positions>> /\ cursor[s] = positions[s] /\ positions[s] \in Nat
      BY <1>16, <2>1, NothingMoves DEF TypeOK, ViewOK
    <2>4. /\ pc' = "pick" /\ drain'.hinted = drain.hinted /\ drain'.took = drain.took
          /\ drain'.asked = drain.asked /\ drain'.todo = drain.todo \ {s}
      BY <1>1, <2>1 DEF StreamDone, Locals
    <2>5. positions'[s] >= drain.asked[s]
      <3>1. drain.head >= drain.asked[s] /\ drain.head \in Nat /\ drain.asked[s] \in Nat
        BY <1>1, <2>1 DEF SyncInv, Locals
      <3> QED BY <2>1, <2>2, <3>1
    <2> QED BY <2>1, <2>2, <2>4, <2>5, SyncDone DEF Reading
  <1>17. CASE AckPage
    <2>1. /\ holder = "sync" /\ pc = "ack" /\ s \in Streams /\ UNCHANGED <<log, holder>>
      BY <1>17, StreamType DEF AckPage
    <2>2. /\ drain.next - 1 \in Nat /\ cursor[s] = positions[s]
          /\ positions' = [positions EXCEPT ![s] = drain.next - 1]
          /\ cursor' = [cursor EXCEPT ![s] = drain.next - 1]
      BY <1>17, AckMoves
    <2>3. \A u \in Streams : cursor[u] \in Nat /\ positions[u] \in Nat
      BY DEF TypeOK, NodeOK, ViewOK
    <2>4. drain.head >= drain.asked[s] /\ drain.head \in Nat /\ drain.asked[s] \in Nat /\ s \in drain.todo
      BY <1>1, <2>1 DEF SyncInv, Locals, TypeOK, DrainOK
    <2>5. positions'[s] = drain.next - 1
          /\ \A u \in Streams \ {s} : positions'[u] = positions[u] /\ cursor'[u] = cursor[u]
      BY <2>1, <2>2 DEF TypeOK, NodeOK, ViewOK
    <2>6. CASE drain.next - 1 >= drain.head /\ StreamDone
      <3>1. /\ pc' = "pick" /\ drain'.hinted = drain.hinted /\ drain'.took = drain.took
            /\ drain'.asked = drain.asked /\ drain'.todo = drain.todo \ {s}
        BY <1>1, <2>6 DEF StreamDone, Locals
      <3>2. positions'[s] >= drain.asked[s]
        BY <2>2, <2>4, <2>5, <2>6
      <3> QED BY <2>1, <2>5, <3>1, <3>2, SyncDone DEF Reading
    <2>7. CASE pc' = "fetch" /\ drain' = [drain EXCEPT !.next = 1]
      <3>1. /\ drain'.hinted = drain.hinted /\ drain'.took = drain.took /\ drain'.asked = drain.asked
            /\ drain'.todo = drain.todo /\ drain'.stream = s /\ drain'.head = drain.head
        BY <1>1, <2>7 DEF Locals
      <3>2. \A u \in Streams \ drain.todo : Reached(u)
        BY <2>1 DEF SyncInv, Reading
      <3>3. \A u \in Streams \ drain'.todo : Reached(u)'
        BY <2>4, <2>5, <3>1, <3>2 DEF Reached, Behind
      <3> QED BY <2>1, <2>4, <2>7, <3>1, <3>3 DEF SyncInv
    <2> QED BY <1>17, <2>6, <2>7 DEF AckPage, AckOffset
  <1> QED BY <1>2, <1>3, <1>4, <1>5, <1>6, <1>7, <1>8, <1>9, <1>10, <1>11, <1>12, <1>13, <1>14,
             <1>15, <1>16, <1>17, OthersAside DEF Next, Drain

LEMMA SyncInvariant == Spec => [](TypeOK /\ PositionInv /\ AppliedInv /\ SyncInv)
  <1>1. Init => SyncInv
    BY DEF Init, SyncInv
  <1>2. TypeOK /\ TypeOK' /\ PositionInv /\ SyncInv /\ [Next]_vars => SyncInv'
    BY SyncNext
  <1> QED BY <1>1, <1>2, AppliedInvariant, PTL DEF Spec

\* A caller's drain that ends without an error gives up the lock in Finish.
LEMMA SyncEnds ==
    ASSUME TypeOK, [Next]_vars, holder = "sync", pc = "pick", holder' = "none"
    PROVE  Finish
  <1>1. CASE Aside \/ UNCHANGED vars
    BY <1>1 DEF Aside, vars, locked
  <1>2. CASE (\E s \in Streams : Admit(s) \/ Prune(s)) \/ Reset
    BY <1>2 DEF Admit, Prune, Reset, Engaged, locked
  <1>3. CASE Refresh \/ Synchronize
    BY <1>3 DEF Refresh, Synchronize
  <1>4. CASE Pass \/ BootHeads \/ BootKv \/ BootAck \/ GiveUp
    BY <1>4 DEF Pass, BootHeads, BootKv, BootAck, GiveUp
  <1>5. CASE SkipStream \/ PickStream \/ ReadHead
    BY <1>5 DEF SkipStream, PickStream, ReadHead
  <1>6. CASE FetchRebuild \/ FetchPage \/ FetchNothing \/ FetchShort \/ AckPage \/ HttpFails
    BY <1>6 DEF FetchRebuild, FetchPage, FetchNothing, FetchShort, AckPage, HttpFails
  <1> QED BY <1>1, <1>2, <1>3, <1>4, <1>5, <1>6, OthersAside DEF Next, Drain

\* When synchronize() returns, readers get, for every topic, the node's state at
\* some offset at or after where its stream ended when it was called, whatever
\* hints arrived, were late or were lost.  A stream whose reset is still to be found
\* and a topic a reset hid are left out, as in AppliedCorrect.
THEOREM CausalCorrect == Spec => CausalRead
  <1> DEFINE Fresh(t) == \E n \in drain.asked[StreamOf[t]] .. Len(log[StreamOf[t]]) : published'[t] = KvAt(n, t)
  <1>1. ASSUME TypeOK, PositionInv, AppliedInv, SyncInv, [Next]_vars,
               holder = "sync", pc = "pick", holder' = "none",
               NEW t \in Topics \ hidden, ~Behind(StreamOf[t])
        PROVE  Fresh(t)
    <2> DEFINE s == StreamOf[t]
    <2>1. drain.todo = {} /\ published' = entries
      BY <1>1, SyncEnds DEF Finish
    <2>2. s \in Streams /\ Len(log[s]) \in Nat /\ drain.asked[s] \in Nat /\ positions[s] \in Nat
      BY <1>1, ViewAssumption DEF TypeOK, NodeOK, ViewOK, DrainOK, Locals
    <2>3. initialized /\ Since(s) = positions[s]
      BY <1>1 DEF PositionInv, Reading, Since
    <2>4. Reached(s)
      BY <1>1, <2>1, <2>2 DEF SyncInv, Reading
    <2>5. PICK n \in positions[s] .. Len(log[s]) : Matches(t, n)
      BY <1>1, <2>3 DEF AppliedInv, MatchesFrom, Counts
    <2>6. n \in drain.asked[s] .. Len(log[s])
      BY <1>1, <2>2, <2>4, <2>5 DEF Reached
    <2> QED BY <2>1, <2>5, <2>6 DEF Matches
  <1>2. TypeOK /\ PositionInv /\ AppliedInv /\ SyncInv /\ [Next]_vars =>
          [holder = "sync" /\ pc = "pick" /\ holder' = "none" =>
             \A t \in Topics \ hidden : LET s == StreamOf[t] IN
                \/ Behind(s)
                \/ \E n \in drain.asked[s] .. Len(log[s]) : published'[t] = KvAt(n, t)]_vars
    BY <1>1
  <1> QED BY <1>2, SyncInvariant, PTL DEF Spec, CausalRead

=============================================================================
