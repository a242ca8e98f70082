---------------------------- MODULE BackfillProofs ---------------------------
(***************************************************************************)
(* Proofs about Backfill, for every horizon and window, any number of      *)
(* samples and of upsets, and every pair of declarations but those Proviso *)
(* excludes.                                                               *)
(*                                                                         *)
(* The invariant has three layers.  Typed and Base say what the buffer is: *)
(* its kinds, that the commit and the connection differ by the page under  *)
(* way or the runner's open commit only, and that a stretch of the stream  *)
(* that was read is buffered whole after the last sample a stop took from  *)
(* it (L).  Control says which job may run: that a replay is not beside a  *)
(* held first backfill, that a job which goes on has a state to go on      *)
(* from, and that the code's mark stands for a finished hand-over.  Taken  *)
(* says what a state has in it: of what is or may still be buffered,       *)
(* everything before its newest sample (StateOK) and, for the job that     *)
(* holds it, everything before the job's position (CoveredTo).             *)
(***************************************************************************)
EXTENDS Backfill, SequenceTheorems, FiniteSetTheorems, WellFoundedInduction, TLAPS

-----------------------------------------------------------------------------
(* Least and greatest *)

LEMMA LeastIs ==
    ASSUME NEW S \in SUBSET Nat, S # {}
    PROVE  Min(S) \in S /\ \A y \in S : Min(S) <= y
<1>1. PICK x \in S : \A y \in S : <<y, x>> \notin OpToRel(<, Nat)
  BY NatLessThanWellFounded, WFMin, Zenon
<1>2. \A y \in S : ~(y < x)
  BY <1>1, Zenon DEF OpToRel
<1>3. \A y \in S : x <= y
  BY <1>2
<1>. QED  BY <1>3 DEF Min

LEMMA GreatestIs ==
    ASSUME NEW k \in Nat, NEW S \in SUBSET (0 .. k), S # {}
    PROVE  Max(S) \in S /\ \A y \in S : y <= Max(S)
<1>. DEFINE T == {i \in 0 .. k : k - i \in S}
<1>1. T \in SUBSET Nat /\ T # {}
  <2>1. PICK y \in S : TRUE
    OBVIOUS
  <2>2. k - y \in T
    <3>1. y \in 0 .. k /\ k - (k - y) = y /\ k - y \in 0 .. k
      OBVIOUS
    <3>2. k - (k - y) \in S
      BY <3>1, Zenon
    <3>. QED  BY <3>1, <3>2, Zenon
  <2>3. T \in SUBSET Nat
    OBVIOUS
  <2>. QED  BY <2>2, <2>3
<1>. HIDE DEF T
<1>2. Min(T) \in T /\ \A i \in T : Min(T) <= i
  BY <1>1, LeastIs
<1>3. k - Min(T) \in S /\ Min(T) \in 0 .. k
  BY <1>2 DEF T
<1>4. \A y \in S : k - y \in T
  BY DEF T
<1>5. \A y \in S : y <= k - Min(T)
  BY <1>2, <1>3, <1>4
<1>. QED  BY <1>3, <1>5 DEF Max

-----------------------------------------------------------------------------
(* Sequences of samples *)

LEMMA RangeOfConcat ==
    ASSUME NEW S, NEW s \in Seq(S), NEW w \in Seq(S)
    PROVE  /\ s \o w \in Seq(S) /\ Range(s \o w) = Range(s) \cup Range(w)
           /\ Len(s \o w) = Len(s) + Len(w)
           /\ \A i \in 1 .. Len(s) : (s \o w)[i] = s[i]
           /\ \A i \in Len(s) + 1 .. Len(s) + Len(w) : (s \o w)[i] = w[i - Len(s)]
<1>1. /\ s \o w \in Seq(S) /\ Len(s \o w) = Len(s) + Len(w)
      /\ \A i \in 1 .. Len(s) : (s \o w)[i] = s[i]
      /\ \A i \in Len(s) + 1 .. Len(s) + Len(w) : (s \o w)[i] = w[i - Len(s)]
  OBVIOUS
<1>2. DOMAIN s = 1 .. Len(s) /\ DOMAIN w = 1 .. Len(w) /\ DOMAIN (s \o w) = 1 .. Len(s) + Len(w)
      /\ Len(s) \in Nat /\ Len(w) \in Nat
  BY <1>1
<1>3. Range(s \o w) \subseteq Range(s) \cup Range(w)
  <2> SUFFICES ASSUME NEW i \in 1 .. Len(s) + Len(w)
               PROVE  (s \o w)[i] \in Range(s) \cup Range(w)
    BY <1>2 DEF Range
  <2>1. CASE i <= Len(s)
    BY <2>1, <1>1, <1>2 DEF Range
  <2>2. CASE i > Len(s)
    <3>1. i \in Len(s) + 1 .. Len(s) + Len(w) /\ i - Len(s) \in 1 .. Len(w)
      BY <2>2, <1>2
    <3>. QED  BY <3>1, <1>1, <1>2 DEF Range
  <2>. QED  BY <2>1, <2>2, <1>2
<1>4. Range(s) \subseteq Range(s \o w)
  <2>1. \A i \in 1 .. Len(s) : i \in 1 .. Len(s) + Len(w)
    BY <1>2
  <2>. QED  BY <2>1, <1>1, <1>2 DEF Range
<1>5. Range(w) \subseteq Range(s \o w)
  <2>1. \A i \in 1 .. Len(w) : /\ i + Len(s) \in Len(s) + 1 .. Len(s) + Len(w)
                               /\ i + Len(s) \in 1 .. Len(s) + Len(w) /\ (i + Len(s)) - Len(s) = i
    BY <1>2
  <2>2. \A i \in 1 .. Len(w) : (s \o w)[i + Len(s)] = w[i]
    BY <2>1, <1>1
  <2>3. \A i \in DOMAIN w : \E n \in DOMAIN (s \o w) : (s \o w)[n] = w[i]
    BY <2>1, <2>2, <1>2
  <2>. QED  BY <2>3, Zenon DEF Range
<1>. QED  BY <1>1, <1>3, <1>4, <1>5

LEMMA RangeOfOne ==
    ASSUME NEW f, DOMAIN f = {1}
    PROVE  Range(f) = {f[1]}
BY Zenon DEF Range

LEMMA RangeOfAppend ==
    ASSUME NEW S, NEW s \in Seq(S), NEW x \in S
    PROVE  /\ Append(s, x) = s \o <<x>> /\ <<x>> \in Seq(S) /\ Range(<<x>>) = {x}
           /\ Append(s, x) \in Seq(S) /\ Range(Append(s, x)) = Range(s) \cup {x}
<1>1. Append(s, x) = s \o <<x>> /\ <<x>> \in Seq(S)
  OBVIOUS
<1>2. Range(<<x>>) = {x}
  <2>1. DOMAIN <<x>> = {1} /\ <<x>>[1] = x
    OBVIOUS
  <2>2. Range(<<x>>) = {<<x>>[1]}
    BY <2>1, RangeOfOne, Zenon
  <2>. QED  BY <2>1, <2>2, Zenon
<1>3. PICK w \in Seq(S) : w = <<x>>
  BY <1>1
<1>4. s \o w \in Seq(S) /\ Range(s \o w) = Range(s) \cup Range(w)
  BY RangeOfConcat
<1>. QED  BY <1>1, <1>2, <1>3, <1>4, Zenon

LEMMA InOrderIs ==
    ASSUME NEW S \in SUBSET Samples, NEW w \in InOrder(S)
    PROVE  /\ w \in Seq(Samples) /\ Range(w) = S
           /\ \A i, j \in 1 .. Len(w) : i < j => w[i] < w[j]
<1>1. IsFiniteSet(S)
  <2>1. IsFiniteSet(1 .. MaxTime)
    <3>1. MaxTime \in Int /\ 1 \in Int
      BY BackfillAssumption
    <3>. QED  BY <3>1, FS_Interval
  <2>. QED  BY <2>1, FS_Subset DEF Samples
<1>2. Cardinality(S) \in Nat
  BY <1>1, FS_CardinalityType
<1>3. w \in [1 .. Cardinality(S) -> S] /\ Range(w) = S /\ \A i, j \in DOMAIN w : i < j => w[i] < w[j]
  BY DEF InOrder
<1>4. w \in Seq(Samples) /\ DOMAIN w = 1 .. Len(w)
  BY <1>2, <1>3
<1>. QED  BY <1>3, <1>4

\* What a state must have taken in: nothing later before something earlier.
Timely(s, z) ==
    \A i, j \in 1 .. Len(s) : i < j /\ s[i] > s[j] => s[j] < z \/ \E k \in 1 .. i - 1 : s[k] = s[j]

LEMMA TimelyConcat ==
    ASSUME NEW s \in Seq(Samples), NEW w \in Seq(Samples), NEW z \in Nat, Timely(s, z),
           \A i, j \in 1 .. Len(w) : i < j => w[i] < w[j],
           \A r \in Range(w), x \in Range(s) : x > r => r < z \/ r \in Range(s)
    PROVE  Timely(s \o w, z)
<1>. DEFINE t == s \o w
<1>1. /\ Len(t) = Len(s) + Len(w) /\ Len(s) \in Nat /\ Len(w) \in Nat /\ t \in Seq(Samples)
      /\ \A i \in 1 .. Len(s) : t[i] = s[i]
      /\ \A i \in Len(s) + 1 .. Len(s) + Len(w) : t[i] = w[i - Len(s)]
  BY RangeOfConcat
<1>2. \A i \in 1 .. Len(s) : s[i] \in Nat
  BY BackfillAssumption DEF Samples
<1>3. \A i \in 1 .. Len(w) : w[i] \in Nat
  BY BackfillAssumption DEF Samples
<1>. HIDE DEF t
<1> SUFFICES ASSUME NEW i \in 1 .. Len(t), NEW j \in 1 .. Len(t), i < j, t[i] > t[j]
             PROVE  t[j] < z \/ \E k \in 1 .. i - 1 : t[k] = t[j]
  BY DEF Timely, t
<1>4. CASE j <= Len(s)
  <2>1. i \in 1 .. Len(s) /\ j \in 1 .. Len(s) /\ t[i] = s[i] /\ t[j] = s[j]
    BY <1>1, <1>4
  <2>2. s[j] < z \/ \E k \in 1 .. i - 1 : s[k] = s[j]
    BY <2>1 DEF Timely
  <2>3. \A k \in 1 .. i - 1 : t[k] = s[k]
    BY <1>1, <2>1
  <2>. QED  BY <2>1, <2>2, <2>3
<1>5. CASE j > Len(s) /\ i > Len(s)
  <2>1. /\ i - Len(s) \in 1 .. Len(w) /\ j - Len(s) \in 1 .. Len(w) /\ i - Len(s) < j - Len(s)
        /\ t[i] = w[i - Len(s)] /\ t[j] = w[j - Len(s)]
    BY <1>1, <1>5
  <2>2. w[i - Len(s)] < w[j - Len(s)]
    BY <2>1
  <2>3. w[i - Len(s)] \in Nat /\ w[j - Len(s)] \in Nat
    BY <2>1, <1>3
  <2>4. ~(t[i] > t[j])
    <3>. DEFINE a == w[i - Len(s)]  b == w[j - Len(s)]
    <3>1. a \in Nat /\ b \in Nat /\ a < b /\ t[i] = a /\ t[j] = b
      BY <2>1, <2>2, <2>3
    <3>. HIDE DEF a, b
    <3>. QED  BY <3>1
  <2>. QED  BY <2>4
<1>6. CASE j > Len(s) /\ i <= Len(s)
  <2>1. /\ i \in 1 .. Len(s) /\ j - Len(s) \in 1 .. Len(w) /\ t[i] = s[i] /\ t[j] = w[j - Len(s)]
    BY <1>1, <1>6
  <2>2. t[j] \in Range(w) /\ t[i] \in Range(s)
    BY <2>1 DEF Range
  <2>3. t[j] < z \/ t[j] \in Range(s)
    BY <2>2
  <2>4. ASSUME t[j] \in Range(s), ~(t[j] < z)  PROVE \E k \in 1 .. i - 1 : t[k] = t[j]
    <3>1. PICK m \in 1 .. Len(s) : s[m] = t[j]
      BY <2>4 DEF Range
    <3>2. m # i
      <4>1. t[i] # t[j]
        <5>1. t[i] \in Nat /\ t[j] \in Nat
          BY <3>1, <2>1, <1>2
        <5>. QED  BY <5>1
      <4>2. m = i => t[i] = t[j]
        BY <3>1, <2>1, Zenon
      <4>. QED  BY <4>1, <4>2
    <3>3. CASE m < i
      BY <3>1, <3>3, <1>1
    <3>4. CASE m > i
      <4>1. s[i] > s[m] /\ ~(s[m] < z)
        BY <3>1, <2>1, <2>4
      <4>2. PICK k \in 1 .. i - 1 : s[k] = s[m]
        BY <4>1, <3>4, <2>1 DEF Timely
      <4>3. k \in 1 .. Len(s)
        BY <2>1, <1>1
      <4>4. t[k] = s[k]
        BY <4>3, <1>1
      <4>5. t[k] = t[j]
        BY <4>2, <4>4, <3>1, Zenon
      <4>. QED  BY <4>5
    <3>. QED  BY <3>2, <3>3, <3>4, <1>1
  <2>. QED  BY <2>3, <2>4
<1>. QED  BY <1>1, <1>4, <1>5, <1>6

-----------------------------------------------------------------------------
(* Types, and how an action writes the buffer *)

JobRow == [start : Nat, end : Nat, pos : Nat, windows : Nat, hash : 0 .. NoHash, done : BOOLEAN, made : BOOLEAN]
State  == [st : Seq(Samples), off : Nat]
Kept   == [st : Seq(Samples), off : Nat, hash : 0 .. NoHash]
Store  == [points : SUBSET Samples, saved : Kept, jobs : [Names -> JobRow], mark : 0 .. NoHash]

\* The steps of a job, and those that read or commit a window.
InJob == {"loop", "window", "commit", "handover", "handwindow", "handcommit"}
InWindow == {"window", "commit", "handwindow", "handcommit"}

Placed(c) == \A n \in Names : c.jobs[n].made => c.jobs[n].start >= 1 /\ c.jobs[n].pos >= 1
Unmade(c) == \A n \in Names : c.jobs[n].made \/ c.jobs[n] = NoJob

Typed ==
    /\ now \in 0 .. MaxTime /\ low \in 1 .. now + 1 /\ cursor \in 0 .. now
    /\ historian \in BOOLEAN /\ code \in 0 .. 1 /\ up \in BOOLEAN
    /\ next \in 1 .. now + 1 /\ page \in 0 .. now /\ toAck \in 0 .. now /\ caught \in BOOLEAN
    /\ held \in BOOLEAN /\ live \in State
    /\ conn \in Store /\ disk \in Store
    /\ Placed(conn) /\ Placed(disk) /\ Unmade(conn) /\ Unmade(disk)
    /\ rpc \in InJob \cup {"look", "handmark", "release"} /\ job \in Names
    /\ rpos \in Nat /\ rwin \in Nat /\ rend \in Nat
    /\ rpc \in InJob => rpos >= 1 /\ Row.made
    /\ rpc \in InWindow => rpos <= rend
    /\ conn.points \subseteq 1 .. now /\ disk.points \subseteq 1 .. now
    /\ gapped \subseteq Nat /\ lost \subseteq 1 .. now

LEMMA DeclaresIs == code \in 0 .. 1 => Declares \in {"hold", "independent", "none"}
BY BackfillAssumption DEF Declares

LEMMA StoreParts ==
    ASSUME NEW c \in Store
    PROVE  /\ c.points \in SUBSET Samples /\ c.saved \in Kept /\ c.jobs \in [Names -> JobRow] /\ c.mark \in 0 .. NoHash
           /\ c.saved.st \in Seq(Samples) /\ c.saved.off \in Nat /\ c.saved.hash \in 0 .. NoHash
           /\ \A n \in Names : /\ c.jobs[n] \in JobRow
                               /\ c.jobs[n].start \in Nat /\ c.jobs[n].end \in Nat /\ c.jobs[n].pos \in Nat
                               /\ c.jobs[n].windows \in Nat /\ c.jobs[n].hash \in 0 .. NoHash
                               /\ c.jobs[n].done \in BOOLEAN /\ c.jobs[n].made \in BOOLEAN
BY DEF Store, Kept, JobRow

LEMMA EmptyIs ==
    /\ Empty \in Store /\ Empty.points = {} /\ Empty.saved = NoSaved /\ Empty.mark = NoHash
    /\ \A n \in Names : Empty.jobs[n] = NoJob
    /\ NoJob \in JobRow /\ ~NoJob.made /\ NoJob.done /\ NoJob.windows = 0 /\ NoJob.end = 0
    /\ NoJob.pos = 0 /\ NoJob.start = 0 /\ NoJob.hash = 0
    /\ NoSaved.st = <<>> /\ NoSaved.off = 0 /\ NoSaved.hash = NoHash /\ NoSaved \in Kept
<1>1. /\ NoJob \in JobRow /\ ~NoJob.made /\ NoJob.done /\ NoJob.windows = 0 /\ NoJob.end = 0
      /\ NoJob.pos = 0 /\ NoJob.start = 0 /\ NoJob.hash = 0
  BY DEF NoJob, JobRow, NoHash
<1>2. NoSaved.st = <<>> /\ NoSaved.off = 0 /\ NoSaved.hash = NoHash /\ NoSaved \in Kept
  BY DEF NoSaved, Kept, NoHash
<1>. QED  BY <1>1, <1>2 DEF Empty, Store, NoHash

LEMMA WithJobIs ==
    ASSUME conn \in Store, NEW n \in Names, NEW j \in JobRow
    PROVE  /\ WithJob(n, j) \in Store
           /\ WithJob(n, j).points = conn.points /\ WithJob(n, j).saved = conn.saved
           /\ WithJob(n, j).mark = conn.mark /\ WithJob(n, j).jobs[n] = j
           /\ \A m \in Names : m # n => WithJob(n, j).jobs[m] = conn.jobs[m]
<1>1. PICK c \in Store : c = conn
  OBVIOUS
<1>2. c.jobs \in [Names -> JobRow]
  BY <1>1 DEF Store
<1>3. PICK f \in [Names -> JobRow] : f = [c.jobs EXCEPT ![n] = j]
  BY <1>2
<1>4. f[n] = j /\ \A m \in Names : m # n => f[m] = c.jobs[m]
  BY <1>2, <1>3
<1>5. WithJob(n, j) = [c EXCEPT !.jobs = f]
  BY <1>1, <1>3, Zenon DEF WithJob
<1>6. /\ [c EXCEPT !.jobs = f] \in Store /\ [c EXCEPT !.jobs = f].jobs = f
      /\ [c EXCEPT !.jobs = f].points = c.points /\ [c EXCEPT !.jobs = f].saved = c.saved
      /\ [c EXCEPT !.jobs = f].mark = c.mark
  BY DEF Store
<1>. QED  BY <1>1, <1>4, <1>5, <1>6

LEMMA WithSavedIs ==
    ASSUME NEW c \in Store, NEW s \in Kept
    PROVE  /\ [c EXCEPT !.saved = s] \in Store /\ [c EXCEPT !.saved = s].saved = s
           /\ [c EXCEPT !.saved = s].points = c.points /\ [c EXCEPT !.saved = s].jobs = c.jobs
           /\ [c EXCEPT !.saved = s].mark = c.mark
BY DEF Store

LEMMA SavedIs ==
    ASSUME live \in State, code \in 0 .. 1
    PROVE  Saved \in Kept /\ Saved.st = live.st /\ Saved.off = live.off /\ Saved.hash = code
<1>1. live.st \in Seq(Samples) /\ live.off \in Nat /\ code \in 0 .. NoHash
  BY DEF State, NoHash
<1>. QED  BY <1>1 DEF Saved, Kept

\* The row of a job after one of its windows.
After(pos, over) == [Row EXCEPT !.pos = pos, !.windows = rwin + 1, !.hash = code, !.done = over]

LEMMA AfterIs ==
    ASSUME Typed, NEW pos \in Nat, NEW over \in BOOLEAN
    PROVE  /\ After(pos, over) \in JobRow
           /\ After(pos, over).start = Row.start /\ After(pos, over).end = Row.end
           /\ After(pos, over).made = Row.made /\ After(pos, over).pos = pos
           /\ After(pos, over).windows = rwin + 1 /\ After(pos, over).hash = code
           /\ After(pos, over).done = over
<1>1. PICK j \in JobRow : j = Row
  BY StoreParts DEF Typed, Row
<1>2. PICK w \in Nat : w = rwin + 1
  BY DEF Typed
<1>3. PICK v \in 0 .. NoHash : v = code
  BY DEF Typed, NoHash
<1>4. After(pos, over) = [j EXCEPT !.pos = pos, !.windows = w, !.hash = v, !.done = over]
  BY <1>1, <1>2, <1>3, Zenon DEF After
<1>. QED  BY <1>1, <1>2, <1>3, <1>4 DEF JobRow

LEMMA CommittedIs ==
    ASSUME Typed, NEW pos \in Nat, NEW over \in BOOLEAN
    PROVE  LET c == Committed(pos, over) IN
           /\ c \in Store
           /\ c.points = conn.points /\ c.mark = conn.mark
           /\ c.saved = IF Holding(job) THEN Saved ELSE conn.saved
           /\ c.jobs[job] = After(pos, over)
           /\ \A m \in Names : m # job => c.jobs[m] = conn.jobs[m]
<1>1. After(pos, over) \in JobRow /\ conn \in Store /\ job \in Names
  BY AfterIs DEF Typed
<1>2. PICK w \in Store : w = WithJob(job, After(pos, over))
  BY <1>1, WithJobIs
<1>3. w.points = conn.points /\ w.saved = conn.saved /\ w.mark = conn.mark /\ w.jobs[job] = After(pos, over)
      /\ \A m \in Names : m # job => w.jobs[m] = conn.jobs[m]
  BY <1>1, <1>2, WithJobIs
<1>4. PICK s \in Kept : s = IF Holding(job) THEN Saved ELSE conn.saved
  <2>1. Saved \in Kept /\ conn.saved \in Kept
    BY <1>1, SavedIs, StoreParts DEF Typed
  <2>. QED  BY <2>1
<1>5. Committed(pos, over) = [w EXCEPT !.saved = s]
  <2>1. Committed(pos, over) = [w EXCEPT !.saved = IF Holding(job) THEN Saved ELSE w.saved]
    BY <1>2, Zenon DEF Committed, After
  <2>2. (IF Holding(job) THEN Saved ELSE w.saved) = s
    BY <1>3, <1>4
  <2>. QED  BY <2>1, <2>2, Zenon
<1>. QED  BY <1>3, <1>4, <1>5, WithSavedIs

-----------------------------------------------------------------------------
(* What each action does to the buffer *)

LEMMA FirstIs ==
    ASSUME Typed
    PROVE  LET old == conn.jobs["initial"] IN
           /\ First \in JobRow
           /\ Declares = "none" => First = old
           /\ Declares # "none" /\ ~old.made =>
                /\ First.made /\ ~First.done /\ First.start = Larger(1, Here - Horizon) /\ First.pos = First.start
                /\ First.windows = 0 /\ First.hash = code
                /\ First.end = IF Declares = "hold" THEN 0 ELSE Here
           /\ Declares = "independent" /\ old.made /\ ~old.done /\ old.end = 0 =>
                /\ First.end = Here /\ First.made /\ ~First.done /\ First.start = old.start
                /\ First.pos = old.pos /\ First.windows = old.windows /\ First.hash = old.hash
           /\ old.made /\ ~(Declares = "independent" /\ ~old.done /\ old.end = 0) => First = old
<1>. DEFINE old == conn.jobs["initial"]
<1>1. PICK j \in JobRow : j = old
  BY StoreParts DEF Typed, Names
<1>2. /\ Here \in Nat /\ Larger(1, Here - Horizon) \in Nat /\ code \in 0 .. NoHash
  BY BackfillAssumption DEF Typed, Here, Larger, NoHash
<1>3. PICK h \in Nat, l \in Nat, v \in 0 .. NoHash : h = Here /\ l = Larger(1, Here - Horizon) /\ v = code
  BY <1>2
<1>4. PICK e \in Nat : e = IF Declares = "hold" THEN 0 ELSE Here
  BY <1>2
<1>5. PICK new \in JobRow : new = [start |-> l, end |-> e, pos |-> l, windows |-> 0, hash |-> v,
                                   done |-> FALSE, made |-> TRUE]
  BY <1>3, <1>4 DEF JobRow
<1>6. PICK cut \in JobRow : cut = [j EXCEPT !.end = h]
  BY <1>3 DEF JobRow
<1>7. First = IF Declares = "none" THEN j
              ELSE IF ~j.made THEN new
              ELSE IF ~j.done /\ j.end = 0 /\ Declares = "independent" THEN cut
              ELSE j
  BY <1>1, <1>3, <1>4, <1>5, <1>6, Zenon DEF First
<1>8. /\ new.made /\ ~new.done /\ new.start = l /\ new.pos = l /\ new.windows = 0 /\ new.hash = v /\ new.end = e
  BY <1>5
<1>9. /\ cut.end = h /\ cut.made = j.made /\ cut.done = j.done /\ cut.start = j.start /\ cut.pos = j.pos
      /\ cut.windows = j.windows /\ cut.hash = j.hash
  BY <1>6 DEF JobRow
<1>. QED  BY <1>1, <1>3, <1>4, <1>7, <1>8, <1>9

LEMMA ReplayIs ==
    ASSUME Typed
    PROVE  /\ Replay \in JobRow
           /\ ~(Replays /\ ~Resuming) => Replay = conn.jobs["replay"]
           /\ Replays /\ ~Resuming =>
                /\ Replay.made /\ ~Replay.done /\ Replay.end = 0 /\ Replay.windows = 0 /\ Replay.hash = code
                /\ Replay.pos = Replay.start /\ Replay.start >= 1 /\ Replay.start <= now + 1
<1>1. PICK j \in JobRow : j = conn.jobs["replay"]
  BY StoreParts DEF Typed, Names
<1>2. PICK v \in 0 .. NoHash : v = code
  BY DEF Typed, NoHash
<1>3. (IF conn.points = {} THEN Here ELSE Earliest) \in 1 .. now + 1
  <2>1. Here \in 1 .. now + 1
    BY BackfillAssumption DEF Here, Typed
  <2>2. CASE conn.points # {}
    <3>1. conn.points \in SUBSET Nat
      BY StoreParts DEF Typed, Samples
    <3>2. Earliest \in conn.points
      BY <2>2, <3>1, LeastIs DEF Earliest
    <3>. QED  BY <2>2, <3>2, BackfillAssumption DEF Typed
  <2>. QED  BY <2>1, <2>2
<1>4. PICK l \in Nat : l = IF conn.points = {} THEN Here ELSE Earliest
  BY <1>3, BackfillAssumption
<1>5. PICK new \in JobRow : new = [start |-> l, end |-> 0, pos |-> l, windows |-> 0, hash |-> v,
                                   done |-> FALSE, made |-> TRUE]
  BY <1>2, <1>4 DEF JobRow
<1>6. Replay = IF Replays /\ ~Resuming THEN new ELSE j
  BY <1>1, <1>2, <1>4, <1>5, Zenon DEF Replay
<1>7. /\ new.made /\ ~new.done /\ new.start = l /\ new.pos = l /\ new.windows = 0 /\ new.hash = v /\ new.end = 0
  BY <1>5
<1>. QED  BY <1>1, <1>2, <1>3, <1>4, <1>6, <1>7

LEMMA StartDoes ==
    ASSUME Typed, Start
    PROVE  /\ conn' \in Store /\ disk' = conn'
           /\ conn'.points = conn.points /\ conn'.saved = conn.saved /\ conn'.mark = conn.mark
           /\ conn'.jobs["initial"] = First /\ conn'.jobs["replay"] = Replay
           /\ conn'.jobs["gap"] = conn.jobs["gap"]
<1>1. PICK c \in Store : c = conn
  BY DEF Typed
<1>2. PICK i \in JobRow, r \in JobRow : i = First /\ r = Replay
  BY FirstIs, ReplayIs
<1>3. c.jobs \in [Names -> JobRow]
  BY StoreParts
<1>4. PICK f \in [Names -> JobRow] : f = [c.jobs EXCEPT !["initial"] = i, !["replay"] = r]
  BY <1>3
<1>5. f["initial"] = i /\ f["replay"] = r /\ f["gap"] = c.jobs["gap"]
  BY <1>3, <1>4 DEF Names
<1>6. conn' = [c EXCEPT !.jobs = f] /\ disk' = conn'
  BY <1>1, <1>2, <1>4, Zenon DEF Start, Write
<1>. QED  BY <1>1, <1>2, <1>5, <1>6 DEF Store

LEMMA ReadPageDoes ==
    ASSUME Typed, ReadPage
    PROVE  /\ conn' \in Store /\ disk' = disk
           /\ conn'.points = conn.points \cup {next} /\ conn'.saved = conn.saved /\ conn'.mark = conn.mark
           /\ conn'.jobs = conn.jobs
           /\ live' \in State
           /\ held \/ next <= live.off => live' = live
           /\ ~(held \/ next <= live.off) => live'.st = Append(live.st, next) /\ live'.off = next
<1>1. PICK c \in Store : c = conn
  BY DEF Typed
<1>2. next \in Samples /\ c.points \in SUBSET Samples
  <2>1. now \in 0 .. MaxTime /\ low >= 1 /\ next \in low .. now /\ low \in Int
    BY DEF Typed, ReadPage
  <2>2. MaxTime \in Nat
    BY BackfillAssumption
  <2>3. next \in Samples
    BY <2>1, <2>2 DEF Samples
  <2>. QED  BY <2>3, StoreParts
<1>3. conn' = [c EXCEPT !.points = c.points \cup {next}] /\ disk' = disk
  BY <1>1 DEF ReadPage
<1>4. PICK p \in SUBSET Samples : p = c.points \cup {next}
  BY <1>2
<1>5. PICK l \in State : l = live
  BY DEF Typed
<1>6. l.st \in Seq(Samples) /\ l.off \in Nat /\ Append(l.st, next) \in Seq(Samples) /\ next \in Nat
  BY <1>2, <1>5 DEF State, Typed
<1>7. PICK k \in State : k.st = Append(l.st, next) /\ k.off = next /\ k = [st |-> Append(l.st, next), off |-> next]
  BY <1>6 DEF State
<1>8. live' = IF held \/ next <= live.off THEN l ELSE k
  BY <1>5, <1>7 DEF ReadPage
<1>. QED  BY <1>1, <1>3, <1>4, <1>5, <1>7, <1>8 DEF Store

LEMMA EndPageDoes ==
    ASSUME Typed, EndPage
    PROVE  /\ conn' \in Store /\ (disk' = conn' \/ (rpc = "commit" /\ disk' = disk))
           /\ conn'.points = conn.points /\ conn'.mark = conn.mark /\ conn'.jobs = conn.jobs
           /\ held => conn'.saved = conn.saved
           /\ ~held => conn'.saved = Saved
<1>1. PICK c \in Store : c = conn
  BY DEF Typed
<1>2. PICK s \in Kept : s = Saved
  BY SavedIs DEF Typed
<1>3. /\ disk' = conn' \/ (rpc = "commit" /\ disk' = disk)
      /\ conn' = IF held THEN c ELSE [c EXCEPT !.saved = s]
  BY <1>1, <1>2, Zenon DEF EndPage
<1>. QED  BY <1>1, <1>2, <1>3, WithSavedIs

LEMMA PassGapDoes ==
    ASSUME Typed, PassGap
    PROVE  /\ conn' \in Store
           /\ conn'.points = conn.points /\ conn'.saved = conn.saved /\ conn'.mark = conn.mark
           /\ \A n \in Names : n # "gap" => conn'.jobs[n] = conn.jobs[n]
           /\ \/ conn' = conn /\ disk' = disk
              \/ /\ disk' = conn' /\ ~conn.jobs["gap"].made
                 /\ conn'.jobs["gap"] = [start |-> next, end |-> low, pos |-> next, windows |-> 0, hash |-> NoHash,
                                         done |-> FALSE, made |-> TRUE]
<1>1. CASE historian /\ ~conn.jobs["gap"].made
  <2>1. PICK j \in JobRow : j = [start |-> next, end |-> low, pos |-> next, windows |-> 0, hash |-> NoHash,
                                 done |-> FALSE, made |-> TRUE]
    <3>1. PICK a \in Nat, l \in Nat, v \in 0 .. NoHash : a = next /\ l = low /\ v = NoHash
      BY DEF Typed, NoHash
    <3>2. [start |-> a, end |-> l, pos |-> a, windows |-> 0, hash |-> v, done |-> FALSE, made |-> TRUE] \in JobRow
      BY <3>1 DEF JobRow
    <3>. QED  BY <3>1, <3>2
  <2>2. conn' = WithJob("gap", j) /\ disk' = conn'
    BY <1>1, <2>1 DEF PassGap, Write
  <2>3. conn \in Store /\ "gap" \in Names
    BY DEF Typed, Names
  <2>4. PICK w \in Store : w = WithJob("gap", j)
    BY <2>3, WithJobIs
  <2>5. /\ w.points = conn.points /\ w.saved = conn.saved /\ w.mark = conn.mark /\ w.jobs["gap"] = j
        /\ \A m \in Names : m # "gap" => w.jobs[m] = conn.jobs[m]
    BY <2>3, <2>4, WithJobIs
  <2>. QED  BY <1>1, <2>1, <2>2, <2>4, <2>5, Zenon
<1>2. CASE ~(historian /\ ~conn.jobs["gap"].made)
  <2>1. conn' = conn /\ disk' = disk
    BY <1>2 DEF PassGap, buffer
  <2>. QED  BY <2>1 DEF Typed
<1>. QED  BY <1>1, <1>2

\* Whether changed code starts a job over, and its row then.
Over(n) == conn.jobs[n].windows > 0 /\ conn.jobs[n].hash # code

LEMMA TakeJobDoes ==
    ASSUME Typed, TakeJob
    PROVE  \E n \in Names :
              /\ Runs(n) /\ (Holding(n) \/ \A o \in Names : Runs(o) => ~Holding(o))
              /\ job' = n /\ rpc' = "loop"
              /\ rpos' = (IF Over(n) THEN conn.jobs[n].start ELSE conn.jobs[n].pos)
              /\ rwin' = (IF Over(n) THEN 0 ELSE conn.jobs[n].windows)
              /\ live' = RestoreFor(n)
              /\ conn' \in Store /\ disk' \in Store
              /\ conn'.points = conn.points /\ conn'.saved = conn.saved /\ conn'.mark = conn.mark
              /\ disk' = IF page = 0 /\ Over(n) THEN conn' ELSE disk
              /\ \A m \in Names : m # n => conn'.jobs[m] = conn.jobs[m]
              /\ ~Over(n) => conn' = conn
              /\ Over(n) => /\ conn'.jobs[n] \in JobRow
                            /\ conn'.jobs[n].start = conn.jobs[n].start /\ conn'.jobs[n].pos = conn.jobs[n].start
                            /\ conn'.jobs[n].end = conn.jobs[n].end /\ conn'.jobs[n].windows = 0
                            /\ conn'.jobs[n].hash = code /\ conn'.jobs[n].done = conn.jobs[n].done
                            /\ conn'.jobs[n].made = conn.jobs[n].made
<1>1. PICK n \in Names :
          /\ Runs(n) /\ (Holding(n) \/ \A o \in Names : Runs(o) => ~Holding(o))
          /\ job' = n /\ rpc' = "loop"
          /\ rpos' = (IF Over(n) THEN conn.jobs[n].start ELSE conn.jobs[n].pos)
          /\ rwin' = (IF Over(n) THEN 0 ELSE conn.jobs[n].windows)
          /\ IF Over(n)
             THEN Defer(WithJob(n, [conn.jobs[n] EXCEPT !.pos = conn.jobs[n].start, !.windows = 0, !.hash = code]))
             ELSE UNCHANGED buffer
          /\ live' = RestoreFor(n)
  BY Zenon DEF TakeJob, Over
<1>2. PICK j \in JobRow : j = conn.jobs[n]
  BY StoreParts DEF Typed
<1>3. PICK v \in 0 .. NoHash : v = code
  BY DEF Typed, NoHash
<1>4. PICK k \in JobRow : k = [j EXCEPT !.pos = j.start, !.windows = 0, !.hash = v]
  BY DEF JobRow
<1>5. /\ k.start = j.start /\ k.pos = j.start /\ k.end = j.end /\ k.windows = 0 /\ k.hash = v
      /\ k.done = j.done /\ k.made = j.made
  BY <1>4 DEF JobRow
<1>6. CASE Over(n)
  <2>1. conn' = WithJob(n, k) /\ disk' = IF page = 0 THEN conn' ELSE disk
    BY <1>1, <1>2, <1>3, <1>4, <1>6, Zenon DEF Defer
  <2>2. conn \in Store /\ disk \in Store
    BY DEF Typed
  <2>. QED  BY <1>1, <1>2, <1>3, <1>5, <1>6, <2>1, <2>2, WithJobIs
<1>7. CASE ~Over(n)
  <2>1. conn' = conn /\ disk' = disk
    BY <1>1, <1>7 DEF buffer
  <2>. QED  BY <1>1, <1>7, <2>1 DEF Typed
<1>. QED  BY <1>6, <1>7

LEMMA FinishDoes ==
    ASSUME Typed, Finish
    PROVE  /\ conn' \in Store /\ disk' \in Store
           /\ conn'.points = conn.points /\ conn'.saved = conn.saved /\ conn'.mark = conn.mark
           /\ disk' = IF page = 0 THEN conn' ELSE disk
           /\ \A m \in Names : m # job => conn'.jobs[m] = conn.jobs[m]
           /\ conn'.jobs[job] \in JobRow
           /\ conn'.jobs[job].start = Row.start /\ conn'.jobs[job].pos = Row.pos
           /\ conn'.jobs[job].end = Row.end /\ conn'.jobs[job].windows = Row.windows
           /\ conn'.jobs[job].hash = Row.hash /\ conn'.jobs[job].done
           /\ conn'.jobs[job].made = Row.made
<1>1. PICK j \in JobRow : j = Row
  BY StoreParts DEF Typed, Row
<1>2. PICK k \in JobRow : k = [j EXCEPT !.done = TRUE]
  BY DEF JobRow
<1>3. /\ k.start = j.start /\ k.pos = j.pos /\ k.end = j.end /\ k.windows = j.windows /\ k.hash = j.hash
      /\ k.done /\ k.made = j.made
  BY <1>2 DEF JobRow
<1>4. conn' = WithJob(job, k) /\ disk' = IF page = 0 THEN conn' ELSE disk
  BY <1>1, <1>2, Zenon DEF Finish, Defer
<1>5. conn \in Store /\ disk \in Store /\ job \in Names
  BY DEF Typed
<1>. QED  BY <1>1, <1>3, <1>4, <1>5, WithJobIs

Commits == CommitWindow \/ HandCommit

LEMMA CommitDoes ==
    ASSUME Typed, Commits
    PROVE  /\ conn' \in Store /\ disk' \in Store
           /\ conn'.points = conn.points /\ conn'.mark = conn.mark
           /\ conn'.saved = IF Holding(job) THEN Saved ELSE conn.saved
           /\ disk' = IF page = 0 THEN conn' ELSE disk
           /\ \A m \in Names : m # job => conn'.jobs[m] = conn.jobs[m]
           /\ conn'.jobs[job] \in JobRow
           /\ conn'.jobs[job].start = Row.start /\ conn'.jobs[job].pos = rend
           /\ conn'.jobs[job].end = Row.end /\ conn'.jobs[job].windows = rwin + 1
           /\ conn'.jobs[job].hash = code
           /\ conn'.jobs[job].done = (rpc = "handcommit")
           /\ conn'.jobs[job].made = Row.made
<1>1. PICK o \in BOOLEAN : o = (rpc = "handcommit") /\ conn' = Committed(rend, o)
                           /\ disk' = IF page = 0 THEN conn' ELSE disk
  <2>1. CASE CommitWindow
    BY <2>1 DEF CommitWindow, Defer
  <2>2. CASE HandCommit
    BY <2>2 DEF HandCommit, Defer
  <2>. QED  BY <2>1, <2>2 DEF Commits
<1>2. rend \in Nat /\ disk \in Store /\ job \in Names
  BY DEF Typed
<1>3. LET c == Committed(rend, o) IN
      /\ c \in Store
      /\ c.points = conn.points /\ c.mark = conn.mark
      /\ c.saved = IF Holding(job) THEN Saved ELSE conn.saved
      /\ c.jobs[job] = After(rend, o)
      /\ \A m \in Names : m # job => c.jobs[m] = conn.jobs[m]
  BY <1>2, CommittedIs
<1>4. /\ After(rend, o) \in JobRow
      /\ After(rend, o).start = Row.start /\ After(rend, o).end = Row.end
      /\ After(rend, o).made = Row.made /\ After(rend, o).pos = rend
      /\ After(rend, o).windows = rwin + 1 /\ After(rend, o).hash = code
      /\ After(rend, o).done = o
  BY <1>2, AfterIs
<1>5. PICK c \in Store : c = conn'
  BY <1>1, <1>3
<1>6. /\ c.points = conn.points /\ c.mark = conn.mark
      /\ c.saved = IF Holding(job) THEN Saved ELSE conn.saved
      /\ c.jobs[job] = After(rend, o)
      /\ \A m \in Names : m # job => c.jobs[m] = conn.jobs[m]
  BY <1>1, <1>3, <1>5
<1>. QED  BY <1>1, <1>2, <1>4, <1>5, <1>6

LEMMA MarkDoes ==
    ASSUME Typed, SetWatermark
    PROVE  /\ conn' \in Store /\ disk' = conn'
           /\ conn'.points = conn.points /\ conn'.saved = conn.saved /\ conn'.jobs = conn.jobs /\ conn'.mark = code
<1>1. PICK c \in Store : c = conn
  BY DEF Typed
<1>2. PICK v \in 0 .. NoHash : v = code
  BY DEF Typed, NoHash
<1>3. conn' = [c EXCEPT !.mark = v] /\ disk' = conn'
  BY <1>1, <1>2, Zenon DEF SetWatermark, Write
<1>. QED  BY <1>1, <1>2, <1>3 DEF Store

-----------------------------------------------------------------------------
(* The edge, the position and the rows *)

LEMMA EdgeIs ==
    ASSUME Typed
    PROVE  /\ Here = now + 1
           /\ conn.points = {} => Edge = now + 1 /\ PastEdge = now + 1
           /\ conn.points # {} => Edge \in conn.points /\ PastEdge = Edge + 1 /\ \A p \in conn.points : p <= Edge
           /\ Edge \in Nat /\ PastEdge \in Nat
<1>1. now \in Nat /\ conn.points \in SUBSET (0 .. now)
  BY DEF Typed
<1>2. CASE conn.points = {}
  BY <1>1, <1>2 DEF Edge, PastEdge, Here
<1>3. CASE conn.points # {}
  <2>1. Max(conn.points) \in conn.points /\ \A p \in conn.points : p <= Max(conn.points)
    BY <1>1, <1>3, GreatestIs
  <2>. QED  BY <1>1, <1>3, <2>1 DEF Edge, PastEdge, Here
<1>. QED  BY <1>2, <1>3

LEMMA EarliestIs ==
    ASSUME Typed, conn.points # {}
    PROVE  Earliest \in conn.points /\ Earliest \in Nat /\ \A p \in conn.points : Earliest <= p
<1>1. conn.points \in SUBSET Nat
  BY DEF Typed
<1>. QED  BY <1>1, LeastIs DEF Earliest

LEMMA SkippedIs ==
    ASSUME Typed, rpos >= 1
    PROVE  /\ Skipped \in Nat /\ Skipped >= 1
           /\ Skipped = rpos \/ (Skipped \in conn.points /\ FromBuffer)
           /\ job # "replay" \/ rwin # 0 => Skipped >= rpos /\ \A p \in conn.points : ~(rpos <= p /\ p < Skipped)
           /\ job = "replay" /\ rwin = 0 => \A p \in conn.points : Skipped <= p
<1>1. CASE ~FromBuffer \/ conn.points = {}
  <2>1. Skipped = rpos
    BY <1>1 DEF Skipped
  <2>. QED  BY <1>1, <2>1 DEF Typed, FromBuffer
<1>2. CASE FromBuffer /\ conn.points # {}
  <2>1. PICK e \in Nat : e = Earliest /\ e \in conn.points /\ \A p \in conn.points : e <= p
    BY <1>2, EarliestIs
  <2>2. PICK at \in Nat : at = IF rpos < e \/ (job = "replay" /\ rwin = 0) THEN e ELSE rpos
    BY DEF Typed
  <2>3. PICK left \in SUBSET Nat : left = {r \in conn.points : r >= at}
    <3>1. conn.points \in SUBSET Nat
      BY DEF Typed
    <3>2. {r \in conn.points : r >= at} \in SUBSET Nat
      BY <3>1
    <3>. QED  BY <3>2
  <2>4. Skipped = IF job = "replay" /\ left # {} THEN Min(left) ELSE at
    BY <1>2, <2>1, <2>2, <2>3 DEF Skipped
  <2>5. conn.points \subseteq 1 .. now /\ rpos \in Nat /\ rwin \in Nat
    BY DEF Typed
  <2>6. CASE job = "replay" /\ left # {}
    <3>1. Skipped \in left /\ \A r \in left : Skipped <= r
      BY <2>4, <2>6, LeastIs
    <3>2. /\ Skipped \in conn.points /\ Skipped >= at /\ \A p \in conn.points : p >= at => Skipped <= p
      BY <2>3, <3>1
    <3>. QED  BY <1>2, <2>1, <2>2, <2>5, <2>6, <3>2
  <2>7. CASE ~(job = "replay" /\ left # {})
    <3>1. Skipped = at
      BY <2>4, <2>7
    <3>2. job = "replay" => \A p \in conn.points : p < at
      BY <2>2, <2>3, <2>5, <2>7
    <3>. QED  BY <1>2, <2>1, <2>2, <2>5, <3>1, <3>2
  <2>. QED  BY <2>6, <2>7
<1>. QED  BY <1>1, <1>2

LEMMA RowsIs ==
    ASSUME Typed, NEW s \in Nat, NEW e \in Nat, NEW n
    PROVE  \A r \in Nat : r \in Rows(s, e, n) <=>
              /\ s <= r /\ r < e
              /\ r \in conn.points \/ (historian /\ n # "replay" /\ r <= now /\ \A p \in conn.points : r < p)
<1>1. \A r \in Nat : r \in s .. e - 1 <=> s <= r /\ r < e
  OBVIOUS
<1>2. ASSUME NEW r \in Nat
      PROVE  (conn.points = {} \/ r < Earliest) <=> \A p \in conn.points : r < p
  <2>1. CASE conn.points = {}
    BY <2>1
  <2>2. CASE conn.points # {}
    BY <2>2, EarliestIs DEF Typed
  <2>. QED  BY <2>1, <2>2
<1>. QED  BY <1>1, <1>2 DEF Rows

LEMMA RowsType ==
    ASSUME Typed, NEW s \in Nat, NEW e \in Nat, NEW n, s >= 1
    PROVE  Rows(s, e, n) \in SUBSET Samples /\ Rows(s, e, n) \in SUBSET Nat
<1>1. Rows(s, e, n) \in SUBSET (s .. e - 1)
  BY DEF Rows
<1>2. \A r \in Rows(s, e, n) : r \in Nat /\ r >= 1
  BY <1>1
<1>3. \A r \in Rows(s, e, n) : r \in conn.points \/ r <= now
  BY <1>2, RowsIs
<1>4. now \in Nat /\ now <= MaxTime /\ MaxTime \in Nat /\ conn.points \subseteq 1 .. now
  BY BackfillAssumption DEF Typed
<1>5. \A r \in Rows(s, e, n) : r \in Nat /\ r \in 1 .. MaxTime
  BY <1>2, <1>3, <1>4
<1>. QED  BY <1>5 DEF Samples

Windows == WindowSucceeds \/ HandWindow

LEMMA WindowDoes ==
    ASSUME Typed, Windows
    PROVE  /\ conn' = conn /\ disk' = disk /\ live' \in State
           /\ Rows(rpos, rend, job) \in SUBSET Samples
           /\ ~Holding(job) => live' = live /\ covered' = covered \cup Rows(rpos, rend, job)
           /\ Holding(job) =>
                /\ covered' = covered /\ live'.off = live.off
                /\ \E w \in Seq(Samples) :
                      /\ Range(w) = Rows(rpos, rend, job)
                      /\ \A i, j \in 1 .. Len(w) : i < j => w[i] < w[j]
                      /\ live'.st = live.st \o w
<1>. DEFINE rows == Rows(rpos, rend, job)
<1>1. /\ rpc \in InJob /\ conn' = conn /\ disk' = disk
      /\ IF Holding(job)
         THEN /\ \E s \in InOrder(rows) : live' = [live EXCEPT !.st = @ \o s]
              /\ UNCHANGED covered
         ELSE covered' = covered \cup rows /\ UNCHANGED live
  BY DEF Windows, WindowSucceeds, HandWindow, RunWindow, InJob, buffer
<1>2. rows \in SUBSET Samples
  BY <1>1, RowsType DEF Typed
<1>. HIDE DEF rows
<1>3. CASE ~Holding(job)
  BY <1>1, <1>2, <1>3 DEF Typed, rows
<1>4. CASE Holding(job)
  <2>1. PICK s \in InOrder(rows) : live' = [live EXCEPT !.st = @ \o s]
    BY <1>1, <1>4
  <2>2. s \in Seq(Samples) /\ Range(s) = rows /\ \A i, j \in 1 .. Len(s) : i < j => s[i] < s[j]
    BY <1>2, InOrderIs
  <2>3. PICK l \in State : l = live
    BY DEF Typed
  <2>4. PICK t \in Seq(Samples) : t = l.st \o s
    BY <2>2, <2>3, RangeOfConcat DEF State
  <2>5. live' = [l EXCEPT !.st = t]
    BY <2>1, <2>3, <2>4, Zenon
  <2>6. live' \in State /\ live'.st = t /\ live'.off = l.off
    BY <2>5 DEF State
  <2>. QED  BY <1>1, <1>2, <1>4, <2>2, <2>3, <2>4, <2>6 DEF rows
<1>. QED  BY <1>3, <1>4

LEMMA CheckpointIs ==
    ASSUME Typed
    PROVE  /\ Checkpoint \in State /\ Checkpoint.st = conn.saved.st /\ Checkpoint.off = conn.saved.off
           /\ Fresh \in State /\ Fresh.st = <<>> /\ Fresh.off = 0
           /\ \A n \in Names : RestoreFor(n) \in State
<1>1. conn.saved.st \in Seq(Samples) /\ conn.saved.off \in Nat
  BY StoreParts DEF Typed
<1>2. Checkpoint \in State /\ Checkpoint.st = conn.saved.st /\ Checkpoint.off = conn.saved.off
  BY <1>1 DEF Checkpoint, State
<1>3. Fresh \in State /\ Fresh.st = <<>> /\ Fresh.off = 0
  BY DEF Fresh, State
<1>. QED  BY <1>2, <1>3 DEF RestoreFor, Typed

-----------------------------------------------------------------------------
(* Every step keeps the types *)

Buffers == conn' = conn /\ disk' = disk

LEMMA TypedKept ==
    ASSUME Typed,
           now' = now, low' = low, code' = code, historian' = historian,
           cursor' \in 0 .. now, up' \in BOOLEAN, next' \in 1 .. now + 1, page' \in 0 .. now, toAck' \in 0 .. now,
           caught' \in BOOLEAN, held' \in BOOLEAN, live' \in State, conn' \in Store, disk' \in Store,
           rpc' \in InJob \cup {"look", "handmark", "release"}, job' \in Names,
           rpos' \in Nat, rwin' \in Nat, rend' \in Nat, gapped' \subseteq Nat, lost' = lost,
           Placed(conn)', Placed(disk)', Unmade(conn)', Unmade(disk)',
           rpc' \in InJob => rpos' >= 1 /\ conn'.jobs[job'].made,
           rpc' \in InWindow => rpos' <= rend',
           conn'.points \subseteq 1 .. now, disk'.points \subseteq 1 .. now
    PROVE  Typed'
BY DEF Typed, Row

LEMMA TypedSame ==
    ASSUME Typed, Buffers, UNCHANGED <<node, gapped, lost>>,
           up' \in BOOLEAN, next' \in 1 .. now + 1, page' \in 0 .. now, toAck' \in 0 .. now,
           caught' \in BOOLEAN, held' \in BOOLEAN, live' \in State,
           rpc' \in InJob \cup {"look", "handmark", "release"}, job' = job,
           rpos' \in Nat, rwin' \in Nat, rend' \in Nat,
           rpc' \in InJob => rpos' >= 1 /\ Row.made,
           rpc' \in InWindow => rpos' <= rend'
    PROVE  Typed'
BY DEF Typed, Row, Buffers, node, Placed, Unmade

LEMMA TypedInit == Init => Typed
<1> SUFFICES ASSUME Init PROVE Typed
  OBVIOUS
<1>1. conn = Empty /\ disk = Empty /\ live = Fresh
  BY DEF Init
<1>2. Empty \in Store /\ Empty.points = {} /\ \A n \in Names : Empty.jobs[n] = NoJob /\ ~NoJob.made
  BY EmptyIs
<1>3. Fresh \in State
  BY DEF Fresh, State
<1>4. Placed(conn) /\ Placed(disk) /\ Unmade(conn) /\ Unmade(disk)
  BY <1>1, <1>2 DEF Placed, Unmade
<1>5. conn \in Store /\ disk \in Store /\ conn.points = {} /\ disk.points = {} /\ live \in State
  BY <1>1, <1>2, <1>3
<1>6. /\ now \in Nat /\ now \in 0 .. MaxTime /\ low \in 1 .. now + 1 /\ cursor \in 0 .. now
      /\ historian \in BOOLEAN /\ code \in 0 .. 1 /\ up \in BOOLEAN
      /\ next \in 1 .. now + 1 /\ page \in 0 .. now /\ toAck \in 0 .. now /\ caught \in BOOLEAN
      /\ held \in BOOLEAN
      /\ rpc = "look" /\ job \in Names
      /\ rpos \in Nat /\ rwin \in Nat /\ rend \in Nat /\ gapped = {} /\ lost = {}
  <2>1. Before \in Nat /\ Before \in 0 .. MaxTime
    BY BackfillAssumption
  <2>2. /\ now = Before /\ low \in 1 .. Before + 1 /\ cursor = 0 /\ next = 1 /\ page = 0 /\ toAck = 0
        /\ rpos = 0 /\ rwin = 0 /\ rend = 0
    BY DEF Init
  <2>3. historian \in BOOLEAN /\ code \in 0 .. 1 /\ up = FALSE /\ caught = FALSE /\ held = FALSE
        /\ rpc = "look" /\ job = "initial" /\ gapped = {} /\ lost = {}
    BY DEF Init
  <2>4. /\ now \in Nat /\ now \in 0 .. MaxTime /\ low \in 1 .. now + 1 /\ cursor \in 0 .. now
        /\ next \in 1 .. now + 1 /\ page \in 0 .. now /\ toAck \in 0 .. now
        /\ rpos \in Nat /\ rwin \in Nat /\ rend \in Nat
    BY <2>1, <2>2
  <2>. QED  BY <2>3, <2>4 DEF Names
<1>7. rpc \notin InJob /\ rpc \notin InWindow
  BY <1>6 DEF InJob, InWindow
<1>. QED  BY <1>4, <1>5, <1>6, <1>7 DEF Typed

LEMMA TypedStart == Typed /\ Start => Typed'
<1> SUFFICES ASSUME Typed, Start PROVE Typed'
  OBVIOUS
<1>1. /\ conn' \in Store /\ disk' = conn'
      /\ conn'.points = conn.points
      /\ conn'.jobs["initial"] = First /\ conn'.jobs["replay"] = Replay
      /\ conn'.jobs["gap"] = conn.jobs["gap"]
  BY StartDoes
<1>2. /\ First.made => First.start >= 1 /\ First.pos >= 1
      /\ First.made \/ First = NoJob
  <2>1. Here \in Nat /\ Here >= 1 /\ Larger(1, Here - Horizon) >= 1
    BY BackfillAssumption DEF Typed, Here, Larger
  <2>2. conn.jobs["initial"].made \in BOOLEAN
    BY StoreParts DEF Typed, Names
  <2>3. Declares \in {"hold", "independent", "none"}
    BY DeclaresIs DEF Typed
  <2>. QED  BY <2>1, <2>2, <2>3, FirstIs DEF Typed, Placed, Unmade, Names
<1>3. /\ Replay.made => Replay.start >= 1 /\ Replay.pos >= 1
      /\ Replay.made \/ Replay = NoJob
  BY ReplayIs DEF Typed, Placed, Unmade, Names
<1>4. /\ conn.jobs["gap"].made => conn.jobs["gap"].start >= 1 /\ conn.jobs["gap"].pos >= 1
      /\ conn.jobs["gap"].made \/ conn.jobs["gap"] = NoJob
  BY DEF Typed, Placed, Unmade, Names
<1>5. Placed(conn)' /\ Placed(disk)' /\ Unmade(conn)' /\ Unmade(disk)'
  BY <1>1, <1>2, <1>3, <1>4 DEF Placed, Unmade, Names
<1>6. live' \in State
  BY CheckpointIs DEF Start
<1>7. /\ node' = node /\ ingest' = ingest /\ up' = TRUE /\ held' \in BOOLEAN /\ rpc' = "look"
      /\ job' = job /\ rpos' = rpos /\ rwin' = rwin /\ rend' = rend /\ gapped' = gapped /\ lost' = lost
  <2>1. (FirstHolds \/ Replays) \in BOOLEAN
    BY DEF FirstHolds, Replays, Resuming, Restored
  <2>. QED  BY <2>1 DEF Start, seen
<1>8. rpc' \notin InJob /\ rpc' \notin InWindow
  BY <1>7 DEF InJob, InWindow
<1>. QED  BY <1>1, <1>5, <1>6, <1>7, <1>8, TypedKept DEF Typed, node, ingest

LEMMA TypedStop == Typed /\ Stop => Typed'
<1> SUFFICES ASSUME Typed, Stop PROVE Typed'
  OBVIOUS
<1>1. /\ now' = now /\ low' = low /\ cursor' = cursor /\ historian' = historian /\ code' \in 0 .. 1
      /\ up' = FALSE /\ held' = FALSE /\ next' = cursor + 1 /\ page' = 0 /\ toAck' = 0 /\ caught' = FALSE
      /\ live' \in State /\ conn' = disk /\ disk' = disk /\ gapped' = gapped
      /\ rpc' = "look" /\ job' \in Names /\ rpos' = 0 /\ rwin' = 0 /\ rend' = 0
  BY CheckpointIs DEF Typed, Stop, seen, Names
<1>2. Placed(conn)' /\ Unmade(conn)' /\ Placed(disk)' /\ Unmade(disk)'
  BY <1>1 DEF Typed, Placed, Unmade
<1>3. rpc' \notin InJob /\ rpc' \notin InWindow
  BY <1>1 DEF InJob, InWindow
<1>4. conn' \in Store /\ disk' \in Store /\ conn'.points \subseteq 1 .. now /\ disk'.points \subseteq 1 .. now
  BY <1>1 DEF Typed
<1>5. cursor + 1 \in 1 .. now + 1 /\ 0 \in 0 .. now /\ 0 \in Nat
  BY DEF Typed
<1>6. lost' \subseteq 1 .. now
  BY DEF Typed, Stop
<1>. QED  BY <1>1, <1>2, <1>3, <1>4, <1>5, <1>6 DEF Typed

LEMMA TypedWorld == Typed /\ (Admit \/ Prune) => Typed'
<1>1. ASSUME Typed, Admit PROVE Typed'
  <2>1. /\ now' = now + 1 /\ now < MaxTime /\ UNCHANGED <<low, cursor, historian, code, up, ingest, held, live, buffer, runner, seen>>
    BY <1>1 DEF Admit
  <2>2. MaxTime \in Nat
    BY BackfillAssumption
  <2>3. Placed(conn)' /\ Placed(disk)' /\ Unmade(conn)' /\ Unmade(disk)'
    BY <1>1, <2>1 DEF Typed, Placed, Unmade, buffer
  <2>. QED  BY <1>1, <2>1, <2>2, <2>3 DEF Typed, ingest, buffer, runner, seen, Row
<1>2. ASSUME Typed, Prune PROVE Typed'
  <2>1. /\ low' \in 1 .. now + 1
        /\ UNCHANGED <<now, cursor, historian, code, up, ingest, held, live, buffer, runner, seen>>
    BY <1>2 DEF Prune, Typed
  <2>2. Placed(conn)' /\ Placed(disk)' /\ Unmade(conn)' /\ Unmade(disk)'
    BY <1>2, <2>1 DEF Typed, Placed, Unmade, buffer
  <2>. QED  BY <1>2, <2>1, <2>2 DEF Typed, ingest, buffer, runner, seen, Row
<1>. QED  BY <1>1, <1>2

LEMMA TypedIngest == Typed /\ (ReadPage \/ EndPage \/ AckSucceeds \/ AckFails \/ CatchUp) => Typed'
<1>1. ASSUME Typed, ReadPage PROVE Typed'
  <2>1. /\ conn' \in Store /\ disk' = disk /\ conn'.points = conn.points \cup {next}
        /\ conn'.jobs = conn.jobs /\ live' \in State
    BY <1>1, ReadPageDoes
  <2>2. /\ UNCHANGED <<node, up, next, toAck, caught, held, runner, seen>> /\ page' = next /\ next \in low .. now
    BY <1>1 DEF ReadPage
  <2>3. Placed(conn)' /\ Placed(disk)' /\ Unmade(conn)' /\ Unmade(disk)'
    BY <1>1, <2>1 DEF Typed, Placed, Unmade
  <2>4. conn'.points \subseteq 1 .. now /\ page' \in 0 .. now
    BY <1>1, <2>1, <2>2 DEF Typed
  <2>. QED  BY <1>1, <2>1, <2>2, <2>3, <2>4, TypedKept DEF Typed, node, runner, seen, Row
<1>2. ASSUME Typed, EndPage PROVE Typed'
  <2>1. conn' \in Store /\ disk' \in {conn', disk} /\ conn'.points = conn.points /\ conn'.jobs = conn.jobs
    BY <1>2, EndPageDoes
  <2>2. /\ UNCHANGED <<node, up, caught, held, live, runner, seen>>
        /\ page' = 0 /\ next' = page + 1 /\ toAck' = page
    BY <1>2 DEF EndPage
  <2>3. Placed(conn)' /\ Placed(disk)' /\ Unmade(conn)' /\ Unmade(disk)'
    BY <1>2, <2>1 DEF Typed, Placed, Unmade
  <2>. QED  BY <1>2, <2>1, <2>2, <2>3, TypedKept DEF Typed, node, runner, seen, Row
<1>3. ASSUME Typed, AckSucceeds PROVE Typed'
  <2>1. /\ cursor' = toAck /\ toAck' = 0
        /\ UNCHANGED <<now, low, historian, code, up, next, page, caught, held, live, buffer, runner, seen>>
    BY <1>3 DEF AckSucceeds
  <2>2. Placed(conn)' /\ Placed(disk)' /\ Unmade(conn)' /\ Unmade(disk)'
    BY <1>3, <2>1 DEF Typed, Placed, Unmade, buffer
  <2>. QED  BY <1>3, <2>1, <2>2, TypedKept DEF Typed, buffer, runner, seen, Row
<1>4. ASSUME Typed, AckFails PROVE Typed'
  BY <1>4, TypedSame DEF Typed, AckFails, Buffers, node, buffer, runner, seen
<1>5. ASSUME Typed, CatchUp PROVE Typed'
  BY <1>5, TypedSame DEF Typed, CatchUp, Buffers, node, buffer, runner, seen
<1>. QED  BY <1>1, <1>2, <1>3, <1>4, <1>5

LEMMA TypedGap == Typed /\ PassGap => Typed'
<1> SUFFICES ASSUME Typed, PassGap PROVE Typed'
  OBVIOUS
<1>1. /\ conn' \in Store
      /\ conn'.points = conn.points
      /\ \A n \in Names : n # "gap" => conn'.jobs[n] = conn.jobs[n]
      /\ \/ conn' = conn /\ disk' = disk
         \/ /\ disk' = conn' /\ ~conn.jobs["gap"].made
            /\ conn'.jobs["gap"] = [start |-> next, end |-> low, pos |-> next, windows |-> 0, hash |-> NoHash,
                                    done |-> FALSE, made |-> TRUE]
  BY PassGapDoes
<1>2. /\ UNCHANGED <<node, up, page, toAck, caught, held, live, runner, lost>>
      /\ next' = low /\ gapped' = gapped \cup ((next .. low - 1) \ conn.points)
  BY DEF PassGap
<1>3. gapped' \subseteq Nat
  <2>1. gapped \subseteq Nat /\ next .. low - 1 \subseteq Nat
    BY DEF Typed
  <2>. QED  BY <1>2, <2>1
<1>4. Placed(conn)' /\ Placed(disk)' /\ Unmade(conn)' /\ Unmade(disk)'
  <2>1. CASE conn' = conn /\ disk' = disk
    BY <2>1 DEF Typed, Placed, Unmade
  <2>2. CASE disk' = conn' /\ conn'.jobs["gap"] = [start |-> next, end |-> low, pos |-> next, windows |-> 0,
                                                   hash |-> NoHash, done |-> FALSE, made |-> TRUE]
    <3>1. conn'.jobs["gap"].made /\ conn'.jobs["gap"].start >= 1 /\ conn'.jobs["gap"].pos >= 1
      BY <2>2 DEF Typed
    <3>. QED  BY <1>1, <2>2, <3>1 DEF Typed, Placed, Unmade
  <2>. QED  BY <1>1, <2>1, <2>2
<1>5. disk' \in Store /\ disk'.points \subseteq 1 .. now
  BY <1>1 DEF Typed
<1>6. conn'.jobs[job].made \/ ~conn.jobs[job].made
  BY <1>1 DEF Typed
<1>. QED  BY <1>1, <1>2, <1>3, <1>4, <1>5, <1>6, TypedKept DEF Typed, node, runner, Row

LEMMA TypedJob == Typed /\ TakeJob => Typed'
<1> SUFFICES ASSUME Typed, TakeJob PROVE Typed'
  OBVIOUS
<1>1. PICK n \in Names :
        /\ Runs(n)
        /\ job' = n /\ rpc' = "loop"
        /\ rpos' = (IF Over(n) THEN conn.jobs[n].start ELSE conn.jobs[n].pos)
        /\ rwin' = (IF Over(n) THEN 0 ELSE conn.jobs[n].windows)
        /\ live' = RestoreFor(n)
        /\ conn' \in Store /\ disk' \in Store
        /\ conn'.points = conn.points
        /\ disk' = IF page = 0 /\ Over(n) THEN conn' ELSE disk
        /\ \A m \in Names : m # n => conn'.jobs[m] = conn.jobs[m]
        /\ ~Over(n) => conn' = conn
        /\ Over(n) => /\ conn'.jobs[n].start = conn.jobs[n].start /\ conn'.jobs[n].pos = conn.jobs[n].start
                      /\ conn'.jobs[n].made = conn.jobs[n].made
  BY TakeJobDoes
<1>2. /\ UNCHANGED <<node, up, ingest, held, rend, seen>>
  BY DEF TakeJob
<1>3. conn.jobs[n].made
  BY <1>1, EmptyIs DEF Typed, Runs, Unmade
<1>4. conn.jobs[n].start >= 1 /\ conn.jobs[n].pos >= 1 /\ conn.jobs[n].start \in Nat /\ conn.jobs[n].pos \in Nat
      /\ conn.jobs[n].windows \in Nat
  BY <1>3, StoreParts DEF Typed, Placed
<1>5. Placed(conn)' /\ Unmade(conn)'
  BY <1>1, <1>3, <1>4 DEF Typed, Placed, Unmade
<1>6. Placed(disk)' /\ Unmade(disk)'
  BY <1>1, <1>5 DEF Typed, Placed, Unmade
<1>7. rpos' \in Nat /\ rpos' >= 1 /\ rwin' \in Nat /\ live' \in State /\ conn'.jobs[n].made
      /\ "loop" \in InJob /\ "loop" \notin InWindow
  BY <1>1, <1>3, <1>4, CheckpointIs DEF InJob, InWindow
<1>8. disk'.points \subseteq 1 .. now
  BY <1>1 DEF Typed
<1>. QED  BY <1>1, <1>2, <1>5, <1>6, <1>7, <1>8, TypedKept DEF Typed, node, ingest, seen

LEMMA TypedRunner ==
    Typed /\ (NextWindow \/ Finish \/ Windows \/ Commits \/ WindowFails
              \/ TakePageLock \/ CheckEdge \/ SetWatermark \/ Release) => Typed'
<1>1. ASSUME Typed, NextWindow \/ TakePageLock PROVE Typed'
  <2>1. /\ UNCHANGED <<node, up, ingest, held, live, buffer, job, rwin, seen>> /\ rpc = "loop"
        /\ rpos' = Skipped /\ rpc' \in {"window", "handover"}
        /\ rend' \in {rend, Skipped + Window, Smaller(Skipped + Window, Row.end)}
        /\ rpc' = "handover" \/ rend' = Skipped + Window \/ (Skipped < Row.end /\ rend' = Smaller(Skipped + Window, Row.end))
    BY <1>1 DEF NextWindow, TakePageLock, Looping
  <2>2. rpos >= 1 /\ Row.made /\ rpc' \in InJob
    BY <1>1, <2>1 DEF Typed, InJob
  <2>3. Skipped \in Nat /\ Skipped >= 1
    BY <1>1, <2>2, SkippedIs
  <2>4. rend' \in Nat
    <3>1. Row.end \in Nat /\ Window \in Nat /\ rend \in Nat
      BY <1>1, StoreParts, BackfillAssumption DEF Typed, Row
    <3>. QED  BY <2>1, <2>3, <3>1 DEF Smaller
  <2>5. rpc' \in InWindow => rpos' <= rend'
    <3>1. Row.end \in Nat /\ Window \in Nat
      BY <1>1, StoreParts, BackfillAssumption DEF Typed, Row
    <3>. QED  BY <2>1, <2>3, <3>1 DEF Smaller, InWindow
  <2>. QED  BY <1>1, <2>1, <2>2, <2>3, <2>4, <2>5, TypedSame DEF Typed, Buffers, ingest, buffer, seen
<1>2. ASSUME Typed, Finish \/ Commits PROVE Typed'
  <2>1. /\ conn' \in Store /\ disk' \in Store /\ conn'.points = conn.points
        /\ disk' = IF page = 0 THEN conn' ELSE disk
        /\ \A m \in Names : m # job => conn'.jobs[m] = conn.jobs[m]
        /\ conn'.jobs[job].start = Row.start /\ conn'.jobs[job].pos \in {Row.pos, rend}
        /\ conn'.jobs[job].made = Row.made
        /\ Commits \/ conn'.jobs[job].pos = Row.pos
    BY <1>2, FinishDoes, CommitDoes
  <2>2. /\ UNCHANGED <<node, up, ingest, held, live, job, seen>>
        /\ rpc' \in {"look", "loop", "handmark"}
        /\ rpos' \in {rpos, rend} /\ rwin' \in {rwin, rwin + 1} /\ rend' = rend /\ rpc \in InJob
        /\ Commits => rpc \in InWindow
        /\ rpos' = rpos \/ Commits
    BY <1>2 DEF Finish, Commits, CommitWindow, HandCommit, Looping, InJob, InWindow
  <2>3. rpos >= 1 /\ Row.made /\ (Commits => rend >= 1) /\ rpos \in Nat /\ rend \in Nat /\ rwin \in Nat /\ job \in Names
    BY <1>2, <2>2 DEF Typed
  <2>4. Row.start >= 1 /\ Row.pos >= 1 /\ Row = conn.jobs[job]
    BY <1>2, <2>3 DEF Typed, Placed, Row
  <2>5. Placed(conn)' /\ Unmade(conn)'
    BY <1>2, <2>1, <2>3, <2>4 DEF Typed, Placed, Unmade
  <2>6. Placed(disk)' /\ Unmade(disk)'
    BY <1>2, <2>1, <2>5 DEF Typed, Placed, Unmade
  <2>7. disk'.points \subseteq 1 .. now /\ conn'.points \subseteq 1 .. now
    BY <1>2, <2>1 DEF Typed
  <2>8. /\ rpos' \in Nat /\ rpos' >= 1 /\ rwin' \in Nat /\ rpc' \notin InWindow /\ conn'.jobs[job].made
        /\ rpc' \in InJob \cup {"look", "handmark", "release"}
    BY <2>1, <2>2, <2>3 DEF InJob, InWindow
  <2>. QED  BY <1>2, <2>1, <2>2, <2>3, <2>5, <2>6, <2>7, <2>8, TypedKept DEF Typed, node, ingest, seen
<1>3. ASSUME Typed, Windows \/ WindowFails \/ CheckEdge \/ Release PROVE Typed'
  <2>1. /\ Buffers /\ live' \in State
        /\ UNCHANGED <<node, up, ingest, job, rpos, rwin, gapped, lost>>
        /\ held' \in {held, FALSE}
        /\ rpc' \in {"look", "loop", "commit", "handwindow", "handcommit"}
        /\ rpc' \in {"look", "loop"} \/ (rpc' \in {"commit", "handcommit"} /\ rend' = rend /\ rpc \in InWindow)
           \/ rend' = Larger(PastEdge, rpos)
        /\ rpc \in InJob \/ rpc' = "look"
        /\ rend' \in {rend, Larger(PastEdge, rpos)}
    <3>1. CASE Windows
      <4>1. live' \in State
        BY <1>3, <3>1, WindowDoes
      <4>. QED  BY <3>1, <4>1 DEF Windows, WindowSucceeds, HandWindow, RunWindow, Buffers, buffer, InJob, InWindow
    <3>2. CASE WindowFails \/ CheckEdge \/ Release
      BY <1>3, <3>2 DEF Typed, WindowFails, CheckEdge, Release, Buffers, buffer, seen, InJob
    <3>. QED  BY <1>3, <3>1, <3>2
  <2>2. Larger(PastEdge, rpos) \in Nat /\ rpos <= Larger(PastEdge, rpos)
    BY <1>3, EdgeIs DEF Typed, Larger
  <2>3. rpc' \in InWindow => rpos' <= rend'
    BY <1>3, <2>1, <2>2 DEF Typed, InWindow
  <2>4. rpc' \in InJob => rpos' >= 1 /\ Row.made
    BY <1>3, <2>1 DEF Typed, InJob
  <2>. QED  BY <1>3, <2>1, <2>2, <2>3, <2>4, TypedSame DEF Typed, ingest, InJob
<1>4. ASSUME Typed, SetWatermark PROVE Typed'
  <2>1. conn' \in Store /\ disk' = conn' /\ conn'.points = conn.points /\ conn'.jobs = conn.jobs
    BY <1>4, MarkDoes
  <2>2. /\ UNCHANGED <<node, up, ingest, held, live, job, rpos, rwin, rend, seen>> /\ rpc' = "release"
    BY <1>4 DEF SetWatermark
  <2>3. Placed(conn)' /\ Placed(disk)' /\ Unmade(conn)' /\ Unmade(disk)'
    BY <1>4, <2>1 DEF Typed, Placed, Unmade
  <2>4. "release" \notin InJob /\ "release" \notin InWindow
    BY DEF InJob, InWindow
  <2>. QED  BY <1>4, <2>1, <2>2, <2>3, <2>4, TypedKept DEF Typed, node, ingest, seen
<1>. QED  BY <1>1, <1>2, <1>3, <1>4

LEMMA TypedNext == Typed /\ [Next]_vars => Typed'
<1>1. ASSUME Typed, UNCHANGED vars PROVE Typed'
  BY <1>1, TypedSame DEF Typed, vars, Buffers, node, ingest, buffer, runner, seen
<1>. QED  BY <1>1, TypedStart, TypedStop, TypedWorld, TypedIngest, TypedGap, TypedJob, TypedRunner
          DEF Next, Reading, Running, Windows, Commits

-----------------------------------------------------------------------------
(* The page of the ingest, and what it went past *)

\* Of a stretch that was read, and below a point, what the stream holds is buffered.
Downward(P, l) == \A p \in P, r \in Nat : l <= r /\ r <= p => r \in P
Closed(P, l, k) == Downward(P, l) /\ \A r \in Nat : l <= r /\ r <= k => r \in P

\* What a stop took of acknowledged pages is behind this sample; before it the stream
\* may have holes, from it on the buffer has all that was read.
HoleEnd(l, S) == IF S = {} THEN l ELSE Larger(l, Max(S) + 1)
L == HoleEnd(low, lost)

LEMMA HoleEndIs ==
    ASSUME NEW t \in Nat, NEW l \in 1 .. t + 1, NEW S \in SUBSET (1 .. t)
    PROVE  /\ HoleEnd(l, S) \in Nat /\ 1 <= HoleEnd(l, S) /\ l <= HoleEnd(l, S) /\ HoleEnd(l, S) <= t + 1
           /\ \A x \in S : x < HoleEnd(l, S)
           /\ \A k \in Nat : l <= k /\ (\A x \in S : x < k) => HoleEnd(l, S) <= k
<1>1. CASE S = {}
  BY <1>1 DEF HoleEnd
<1>2. CASE S # {}
  <2>1. S \in SUBSET (0 .. t)
    OBVIOUS
  <2>2. Max(S) \in S /\ \A x \in S : x <= Max(S)
    BY <1>2, <2>1, GreatestIs
  <2>3. Max(S) \in 1 .. t
    BY <2>2
  <2>. QED  BY <1>2, <2>2, <2>3 DEF HoleEnd, Larger
<1>. QED  BY <1>1, <1>2

LEMMA LIs ==
    ASSUME Typed
    PROVE  /\ L \in Nat /\ 1 <= L /\ low <= L /\ L <= now + 1 /\ \A x \in lost : x < L
           /\ \A k \in Nat : low <= k /\ (\A x \in lost : x < k) => L <= k
BY HoleEndIs DEF Typed, L

\* The stretch with holes only grows.
LEMMA LGrows ==
    ASSUME Typed, now' \in Nat, low' \in 1 .. now' + 1, lost' \subseteq 1 .. now', low <= low', lost \subseteq lost'
    PROVE  L' \in Nat /\ L <= L' /\ \A x \in lost' : x < L'
<1>1. PICK m \in Nat : m = L' /\ low' <= m /\ \A x \in lost' : x < m
  <2>1. L' = HoleEnd(low', lost')
    BY DEF L
  <2>. QED  BY <2>1, HoleEndIs
<1>2. low <= m /\ \A x \in lost : x < m
  BY <1>1 DEF Typed
<1>3. L <= m
  BY <1>2, LIs
<1>. QED  BY <1>1, <1>3

DownInv == ~up => ~held /\ live = Fresh /\ next = cursor + 1 /\ page = 0 /\ toAck = 0 /\ rpc = "look"

SameJobs(c, d) == \A n \in Names : /\ c.jobs[n].start = d.jobs[n].start /\ c.jobs[n].end = d.jobs[n].end
                                   /\ c.jobs[n].made = d.jobs[n].made

PageInv ==
    /\ page = 0 /\ rpc # "commit" => conn = disk
    /\ page # 0 => next = page /\ page \in conn.points
    /\ disk.points \subseteq conn.points
    /\ conn.mark = disk.mark /\ SameJobs(conn, disk)

PassedInv ==
    /\ Closed(conn.points, L, next - 1) /\ Closed(conn.points, L, cursor) /\ Closed(conn.points, L, toAck)
    /\ Downward(disk.points, L)

Within(k, S) == \A r \in Nat : 1 <= r /\ r <= k => r \in S

GapInv ==
    LET past == conn.points \cup gapped \cup lost IN
    Within(next - 1, past) /\ Within(cursor, past) /\ Within(toAck, past)

LostInv == \A x \in lost : x < next /\ x <= cursor /\ (toAck # 0 => x <= toAck)

Base == DownInv /\ PageInv /\ PassedInv /\ GapInv /\ LostInv

LEMMA BaseInit == Init => Base
<1> SUFFICES ASSUME Init PROVE Base
  OBVIOUS
<1>1. conn = disk /\ conn.points = {}
  BY EmptyIs DEF Init
<1>2. up = FALSE /\ held = FALSE /\ live = Fresh /\ next = 1 /\ cursor = 0 /\ page = 0 /\ toAck = 0 /\ rpc = "look"
      /\ low \in 1 .. Before + 1 /\ Before \in Nat /\ lost = {} /\ L = low
  BY BackfillAssumption DEF Init, L, HoleEnd
<1>. QED  BY <1>1, <1>2 DEF Base, DownInv, PageInv, PassedInv, GapInv, LostInv, Closed, Downward, Within, SameJobs

\* Steps that write rows, the state or the mark: the points stay.
Writes == Start \/ TakeJob \/ Finish \/ Commits \/ SetWatermark

LEMMA WritesDo ==
    ASSUME Typed, DownInv, PageInv, Writes, rpc = "handmark" => page = 0
    PROVE  /\ conn'.points = conn.points /\ disk'.points \in {disk.points, conn.points}
           /\ page = 0 => conn' = disk'
           /\ conn'.mark = disk'.mark /\ SameJobs(conn, disk)'
           /\ UNCHANGED <<now, low, cursor, code, historian, ingest, gapped, lost>>
           /\ up' = TRUE
<1>1. CASE Start
  <2>1. page = 0 /\ conn = disk
    BY <1>1 DEF Start, DownInv, PageInv
  <2>2. disk' = conn' /\ conn'.points = conn.points
    BY <1>1, StartDoes
  <2>. QED  BY <1>1, <2>1, <2>2 DEF Start, SameJobs, node, seen
<1>2. CASE TakeJob
  <2>1. /\ conn'.points = conn.points /\ conn'.mark = conn.mark
        /\ \A m \in Names : /\ conn'.jobs[m].start = conn.jobs[m].start /\ conn'.jobs[m].end = conn.jobs[m].end
                            /\ conn'.jobs[m].made = conn.jobs[m].made
        /\ (disk' = disk /\ (page = 0 => conn' = conn)) \/ disk' = IF page = 0 THEN conn' ELSE disk
    <3>1. PICK n \in Names :
              /\ conn'.points = conn.points /\ conn'.mark = conn.mark
              /\ disk' = IF page = 0 /\ Over(n) THEN conn' ELSE disk
              /\ \A m \in Names : m # n => conn'.jobs[m] = conn.jobs[m]
              /\ ~Over(n) => conn' = conn
              /\ Over(n) => /\ conn'.jobs[n].start = conn.jobs[n].start
                            /\ conn'.jobs[n].end = conn.jobs[n].end /\ conn'.jobs[n].made = conn.jobs[n].made
      BY <1>2, TakeJobDoes
    <3>2. CASE Over(n)
      BY <3>1, <3>2
    <3>3. CASE ~Over(n)
      BY <3>1, <3>3
    <3>. QED  BY <3>2, <3>3
  <2>2. UNCHANGED <<node, up, ingest, held, rend, seen>> /\ up /\ rpc = "look"
    BY <1>2 DEF TakeJob
  <2>. QED  BY <2>1, <2>2 DEF PageInv, SameJobs, node, seen, Typed
<1>3. CASE Finish \/ Commits
  <2>1. /\ conn'.points = conn.points /\ conn'.mark = conn.mark
        /\ disk' = IF page = 0 THEN conn' ELSE disk
        /\ \A m \in Names : m # job => conn'.jobs[m] = conn.jobs[m]
        /\ conn'.jobs[job].start = Row.start /\ conn'.jobs[job].end = Row.end /\ conn'.jobs[job].made = Row.made
    BY <1>3, FinishDoes, CommitDoes
  <2>2. \A m \in Names : /\ conn'.jobs[m].start = conn.jobs[m].start /\ conn'.jobs[m].end = conn.jobs[m].end
                         /\ conn'.jobs[m].made = conn.jobs[m].made
    BY <2>1 DEF Row
  <2>3. UNCHANGED <<node, up, ingest, held, live, job, seen>> /\ rpc # "look"
    BY <1>3 DEF Finish, Commits, CommitWindow, HandCommit, Looping
  <2>. QED  BY <2>1, <2>2, <2>3 DEF PageInv, SameJobs, node, seen, Typed, DownInv
<1>4. CASE SetWatermark
  <2>1. disk' = conn' /\ conn'.points = conn.points
    BY <1>4, MarkDoes
  <2>2. UNCHANGED <<node, up, ingest, held, live, job, rpos, rwin, rend, seen>> /\ rpc = "handmark"
    BY <1>4 DEF SetWatermark
  <2>. QED  BY <2>1, <2>2 DEF PageInv, SameJobs, node, seen, Typed, DownInv
<1>. QED  BY <1>1, <1>2, <1>3, <1>4 DEF Writes

LEMMA BaseKept ==
    ASSUME Base, conn'.points = conn.points, disk'.points \in {disk.points, conn.points},
           page = 0 /\ rpc' # "commit" => conn' = disk', conn'.mark = disk'.mark, SameJobs(conn, disk)',
           UNCHANGED <<low, cursor, next, page, toAck, gapped, lost>>, DownInv'
    PROVE  Base'
<1>1. L' = L
  BY DEF L
<1>2. PageInv'
  BY DEF Base, PageInv
<1>3. PassedInv'
  BY <1>1 DEF Base, PassedInv, Closed, Downward
<1>. QED  BY <1>2, <1>3 DEF Base, GapInv, LostInv

\* Steps that leave the buffer, the ingest and the stream's horizon alone.
Quiet == Admit \/ Windows \/ WindowFails \/ NextWindow \/ TakePageLock \/ CheckEdge \/ Release \/ CatchUp

LEMMA QuietDo ==
    ASSUME Typed, Quiet, DownInv
    PROVE  /\ conn' = conn /\ disk' = disk
           /\ UNCHANGED <<low, cursor, code, historian, up, next, page, toAck, gapped, lost>>
           /\ rpc = "commit" => rpc' = "commit"
           /\ DownInv'
<1>1. CASE Windows
  BY <1>1, WindowDoes DEF Windows, WindowSucceeds, HandWindow, RunWindow, node, ingest, DownInv
<1>2. CASE Admit \/ WindowFails \/ NextWindow \/ TakePageLock \/ CheckEdge \/ Release \/ CatchUp
  BY <1>2 DEF Admit, WindowFails, NextWindow, TakePageLock, CheckEdge, Release, CatchUp, Looping,
              node, ingest, buffer, runner, seen, DownInv, Typed
<1>. QED  BY <1>1, <1>2 DEF Quiet

LEMMA BaseReading ==
    ASSUME Typed, Base, ReadPage \/ EndPage \/ AckSucceeds \/ AckFails \/ PassGap \/ Prune \/ Stop
    PROVE  Base'
<1>. USE DEF Base
<1>0. /\ now \in Nat /\ low \in Nat /\ low >= 1 /\ next \in Nat /\ next >= 1 /\ cursor \in Nat /\ toAck \in Nat /\ page \in Nat
      /\ conn.points \in SUBSET Nat /\ disk.points \in SUBSET Nat /\ lost \in SUBSET Nat
      /\ L \in Nat /\ L >= low /\ L >= 1
  BY LIs DEF Typed
<1>l. ASSUME low' = low, lost' = lost  PROVE L' = L
  BY <1>l DEF L
<1>1. CASE ReadPage
  <2>1. /\ conn'.points = conn.points \cup {next} /\ disk' = disk /\ conn'.mark = conn.mark /\ conn'.jobs = conn.jobs
    BY <1>1, ReadPageDoes
  <2>2. /\ UNCHANGED <<low, cursor, up, next, toAck, held, gapped, lost, rpc>> /\ page' = next /\ next >= low /\ up
    BY <1>1 DEF ReadPage, PageComes, node, seen, runner
  <2>3. PassedInv'
    <3>1. L' = L
      BY <1>l, <2>2
    <3>. QED  BY <1>0, <2>1, <2>2, <3>1 DEF PassedInv, Closed, Downward
  <2>4. GapInv' /\ LostInv'
    BY <1>0, <2>1, <2>2 DEF GapInv, Within, LostInv
  <2>5. PageInv'
    BY <1>0, <2>1, <2>2 DEF PageInv, SameJobs
  <2>. QED  BY <2>2, <2>3, <2>4, <2>5 DEF DownInv
<1>2. CASE EndPage
  <2>1. /\ conn'.points = conn.points /\ conn'.mark = conn.mark /\ conn'.jobs = conn.jobs
        /\ disk' = conn' \/ (rpc = "commit" /\ disk' = disk)
    BY <1>2, EndPageDoes
  <2>2. /\ UNCHANGED <<low, cursor, up, held, gapped, lost, rpc>>
        /\ page' = 0 /\ next' = page + 1 /\ toAck' = page /\ page # 0
    BY <1>2 DEF EndPage, node, seen, runner
  <2>3. page = next /\ page \in conn.points /\ up
    BY <2>2 DEF PageInv, DownInv
  <2>4. PassedInv'
    <3>1. L' = L
      BY <1>l, <2>2
    <3>2. Closed(conn.points, L, page)
      BY <1>0, <2>3 DEF PassedInv, Closed, Downward
    <3>3. Closed(conn.points, L, (page + 1) - 1) /\ Downward(conn.points, L)
      BY <1>0, <3>2 DEF Closed
    <3>4. Downward(disk'.points, L)
      BY <2>1, <3>3 DEF PassedInv
    <3>. QED  BY <2>1, <2>2, <3>1, <3>2, <3>3, <3>4 DEF PassedInv
  <2>5. GapInv'
    <3>1. \A r \in Nat : r <= page => r <= next - 1 \/ r = page
      BY <1>0, <2>3
    <3>2. (page + 1) - 1 = page
      BY <1>0
    <3>3. Within(page, conn.points \cup gapped \cup lost)
      BY <1>0, <2>3, <3>1 DEF GapInv, Within
    <3>. QED  BY <2>1, <2>2, <3>2, <3>3 DEF GapInv, Within
  <2>6. PageInv'
    <3>1. disk'.points \subseteq conn'.points
      BY <2>1 DEF PageInv
    <3>2. conn'.mark = disk'.mark /\ SameJobs(conn, disk)'
      BY <2>1 DEF PageInv, SameJobs
    <3>. QED  BY <2>1, <2>2, <3>1, <3>2 DEF PageInv
  <2>7. LostInv'
    BY <1>0, <2>2, <2>3 DEF LostInv
  <2>. QED  BY <2>2, <2>3, <2>4, <2>5, <2>6, <2>7 DEF DownInv
<1>3. CASE AckSucceeds
  <2>1. /\ UNCHANGED <<low, up, next, page, held, live, conn, disk, rpc, gapped, lost>>
        /\ cursor' = toAck /\ toAck' = 0 /\ toAck # 0
    BY <1>3 DEF AckSucceeds, buffer, runner, seen
  <2>2. L' = L
    BY <1>l, <2>1
  <2>3. PassedInv'
    BY <1>0, <2>1, <2>2 DEF PassedInv, Closed, Downward
  <2>4. GapInv' /\ PageInv' /\ DownInv' /\ LostInv'
    BY <1>0, <2>1 DEF GapInv, Within, PageInv, SameJobs, DownInv, LostInv
  <2>. QED  BY <2>3, <2>4
<1>4. CASE AckFails
  <2>1. /\ UNCHANGED <<low, cursor, up, page, held, live, conn, disk, rpc, gapped, lost>>
        /\ next' = cursor + 1 /\ toAck' = 0 /\ toAck # 0 /\ page = 0
    BY <1>4 DEF AckFails, buffer, runner, seen, node
  <2>2. L' = L
    BY <1>l, <2>1
  <2>3. PassedInv'
    BY <1>0, <2>1, <2>2 DEF PassedInv, Closed, Downward
  <2>4. GapInv' /\ PageInv' /\ DownInv' /\ LostInv'
    BY <1>0, <2>1 DEF GapInv, Within, PageInv, SameJobs, DownInv, LostInv
  <2>. QED  BY <2>3, <2>4
<1>5. CASE PassGap
  <2>1. /\ conn'.points = conn.points
        /\ \/ conn' = conn /\ disk' = disk
           \/ disk' = conn'
    BY <1>5, PassGapDoes
  <2>2. /\ UNCHANGED <<low, cursor, up, page, toAck, held, live, rpc, lost>> /\ next' = low /\ next < low /\ page = 0 /\ up
        /\ gapped' = gapped \cup ((next .. low - 1) \ conn.points)
    BY <1>5 DEF PassGap, runner, node
  <2>3. L' = L
    BY <1>l, <2>2
  <2>4. PassedInv'
    <3>1. Closed(conn.points, L, low - 1)
      BY <1>0 DEF PassedInv, Closed
    <3>2. disk'.points \in {disk.points, conn.points}
      BY <2>1
    <3>3. Downward(conn.points, L) /\ Downward(disk.points, L)
      BY DEF PassedInv, Closed
    <3>4. Downward(disk'.points, L)
      BY <3>2, <3>3
    <3>. QED  BY <2>1, <2>2, <2>3, <3>1, <3>4 DEF PassedInv
  <2>5. GapInv'
    <3>1. Within(cursor, conn.points \cup gapped \cup lost)' /\ Within(toAck, conn.points \cup gapped \cup lost)'
      BY <1>0, <2>1, <2>2 DEF GapInv, Within
    <3>2. \A r \in Nat : 1 <= r /\ r <= low - 1 => r <= next - 1 \/ r \in next .. low - 1
      BY <1>0
    <3>3. Within(next - 1, conn.points \cup gapped \cup lost)'
      BY <1>0, <2>1, <2>2, <3>2 DEF GapInv, Within
    <3>. QED  BY <3>1, <3>3 DEF GapInv
  <2>6. PageInv'
    <3>1. \/ conn' = conn /\ disk' = disk
          \/ disk' = conn'
      BY <2>1
    <3>2. page' = 0 /\ rpc' = rpc
      BY <2>2
    <3>3. CASE conn' = conn /\ disk' = disk
      BY <2>2, <3>2, <3>3 DEF PageInv, SameJobs
    <3>4. CASE disk' = conn'
      BY <3>2, <3>4 DEF PageInv, SameJobs
    <3>. QED  BY <3>1, <3>3, <3>4
  <2>7. DownInv' /\ LostInv'
    BY <1>0, <2>2 DEF DownInv, LostInv
  <2>. QED  BY <2>4, <2>5, <2>6, <2>7
<1>6. CASE Prune
  <2>1. /\ UNCHANGED <<now, cursor, up, next, page, toAck, held, live, conn, disk, rpc, gapped, lost>> /\ low' \in low + 1 .. now + 1
    BY <1>6 DEF Prune, buffer, runner, seen, ingest
  <2>2. L' \in Nat /\ L <= L'
    <3>1. now' \in Nat /\ low' \in 1 .. now' + 1 /\ lost' \subseteq 1 .. now' /\ low <= low'
      BY <1>0, <2>1 DEF Typed
    <3>. QED  BY <2>1, <3>1, LGrows
  <2>3. PassedInv'
    BY <1>0, <2>1, <2>2 DEF PassedInv, Closed, Downward
  <2>4. GapInv' /\ PageInv' /\ DownInv' /\ LostInv'
    BY <1>0, <2>1 DEF GapInv, Within, PageInv, SameJobs, DownInv, LostInv
  <2>. QED  BY <2>3, <2>4
<1>7. CASE Stop
  <2>1. /\ UNCHANGED <<now, cursor, low, disk, gapped>> /\ conn' = disk /\ up' = FALSE /\ held' = FALSE /\ live' = Fresh
        /\ next' = cursor + 1 /\ page' = 0 /\ toAck' = 0 /\ rpc' = "look"
        /\ lost' = lost \cup {r \in conn.points \ disk.points : r <= cursor}
    BY <1>7 DEF Stop, seen
  <2>2. L' \in Nat /\ L <= L' /\ \A x \in lost' : x < L'
    <3>1. now' \in Nat /\ low' \in 1 .. now' + 1 /\ lost' \subseteq 1 .. now' /\ low <= low' /\ lost \subseteq lost'
      <4>1. lost' \subseteq 1 .. now
        BY <2>1 DEF Typed
      <4>. QED  BY <2>1, <4>1 DEF Typed
    <3>. QED  BY <3>1, LGrows
  <2>3. \A r \in Nat : r <= cursor /\ r \in conn.points => r \in disk.points \/ r \in lost'
    BY <2>1
  <2>4. PassedInv'
    <3>1. Downward(disk.points, L')
      BY <1>0, <2>2 DEF PassedInv, Downward
    <3>2. \A r \in Nat : L' <= r /\ r <= cursor => r \in conn.points
      BY <1>0, <2>2 DEF PassedInv, Closed
    <3>3. \A r \in Nat : L' <= r /\ r <= cursor => r \in disk.points
      BY <1>0, <2>2, <2>3, <3>2
    <3>4. \A r \in Nat : ~(L' <= r /\ r <= 0)
      <4>1. L' >= 1
        BY <1>0, <2>2
      <4>. QED  BY <2>2, <4>1
    <3>5. (cursor + 1) - 1 = cursor
      BY <1>0
    <3>. QED  BY <2>1, <3>1, <3>3, <3>4, <3>5 DEF PassedInv, Closed
  <2>5. GapInv'
    <3>1. Within(cursor, disk.points \cup gapped \cup lost')
      BY <2>1, <2>3 DEF GapInv, Within
    <3>2. Within(0, disk.points \cup gapped \cup lost') /\ (cursor + 1) - 1 = cursor
      BY <1>0 DEF Within
    <3>. QED  BY <2>1, <3>1, <3>2 DEF GapInv
  <2>6. PageInv' /\ DownInv'
    BY <1>0, <2>1 DEF PageInv, SameJobs, DownInv
  <2>7. LostInv'
    <3>1. \A x \in lost' : x \in Nat /\ x <= cursor
      BY <1>0, <2>1 DEF LostInv, Typed
    <3>. QED  BY <1>0, <2>1, <3>1 DEF LostInv
  <2>. QED  BY <2>4, <2>5, <2>6, <2>7
<1>. QED  BY <1>1, <1>2, <1>3, <1>4, <1>5, <1>6, <1>7

LEMMA BaseNext ==
    ASSUME Typed, Base, rpc = "handmark" => page = 0, [Next]_vars
    PROVE  Base'
<1>1. CASE Writes
  <2>1. DownInv'
    BY <1>1, WritesDo DEF DownInv, Base
  <2>. QED  BY <1>1, <2>1, WritesDo, BaseKept DEF Base, ingest
<1>2. CASE Quiet
  <2>1. SameJobs(conn, disk)'
    BY <1>2, QuietDo DEF Base, PageInv, SameJobs
  <2>2. /\ conn' = conn /\ disk' = disk /\ DownInv' /\ (rpc = "commit" => rpc' = "commit")
        /\ UNCHANGED <<low, cursor, next, page, toAck, gapped, lost>>
    BY <1>2, QuietDo DEF Base
  <2>3. page = 0 /\ rpc' # "commit" => conn' = disk'
    BY <2>2 DEF Base, PageInv
  <2>. QED  BY <2>1, <2>2, <2>3, BaseKept DEF Base, PageInv
<1>3. CASE UNCHANGED vars
  BY <1>3 DEF vars, Base, DownInv, PageInv, PassedInv, GapInv, LostInv, L, SameJobs, node, ingest, buffer, runner, seen
<1>. QED  BY <1>1, <1>2, <1>3, BaseReading DEF Next, Reading, Running, Writes, Quiet, Windows, Commits

-----------------------------------------------------------------------------
(* What the rows of the jobs say *)

Pending(j) == ~j.done /\ j.end = 0

\* A held first backfill is to run, or to go on.
Waits(c, v) == Declared[v] = "hold" /\ (~c.jobs["initial"].made \/ Pending(c.jobs["initial"]))

RowsOK(c, t) ==
    \A n \in Names : /\ c.jobs[n].start <= t + 1 /\ c.jobs[n].pos <= t + 1 /\ c.jobs[n].end <= t + 1
                     /\ c.jobs[n].windows = 0 => c.jobs[n].pos = c.jobs[n].start
                     /\ n # "replay" => c.jobs[n].start <= c.jobs[n].pos

KindsOK(c, v) ==
    /\ c.jobs["initial"].hash <= v /\ c.jobs["replay"].hash <= v
    /\ c.jobs["replay"].end = 0
    /\ c.jobs["gap"].made => c.jobs["gap"].end # 0
    /\ c.saved.hash = v \/ c.saved.hash = 0 \/ c.saved.hash = NoHash

\* A held job of the present code goes on from a state saved by the present code.
ResumeOK(c, v) ==
    \A n \in {"initial", "replay"} :
        Pending(c.jobs[n]) /\ c.jobs[n].windows > 0 /\ c.jobs[n].hash = v => c.saved.hash = v

\* A replay is not beside a held first backfill.
LeftOK(c, v) ==
    ~c.jobs["replay"].done /\ (Declared[v] = "hold" \/ Declared[1] = "hold") =>
        c.jobs["initial"].made /\ ~Pending(c.jobs["initial"])

DeclaredOK(c, v, u) ==
    /\ c.jobs["initial"].made /\ Pending(c.jobs["initial"]) /\ c.jobs["initial"].hash = v => Declared[v] = "hold"
    /\ u /\ Declared[v] # "none" => c.jobs["initial"].made
    /\ u /\ Declared[v] = "independent" => ~Pending(c.jobs["initial"])

StoreOK(c, t, v, u) == RowsOK(c, t) /\ KindsOK(c, v) /\ ResumeOK(c, v) /\ LeftOK(c, v) /\ DeclaredOK(c, v, u)

StoresOK == StoreOK(conn, now, code, up) /\ StoreOK(disk, now, code, up)

\* What the step of the runner says of its job and of the buffer.
RunOK ==
    /\ rpc \in InJob =>
         /\ up /\ Runs(job) /\ rwin = Row.windows /\ (rwin > 0 => Row.hash = code)
         /\ job # "replay" => Row.pos <= rpos
         /\ rpos <= now + 1
         /\ conn.points = {} \/ ~FromBuffer => rpos = Row.pos
         /\ Holding(job) => held
    /\ rpc \in InWindow => rend <= now + 1
    /\ rpc \in {"window", "commit"} /\ ~Holding(job) => rend <= Row.end
    /\ PageLocked => page = 0 /\ held /\ Holding(job) /\ up /\ job # "gap"
    /\ rpc \in {"handmark", "release"} => /\ conn.jobs["replay"].done /\ ~Waits(conn, code)
                                          /\ conn.saved = Saved
    /\ rpc = "release" => conn.mark = code

\* The mark says that the code took over: nothing holds the producer any more.
MarkOK ==
    /\ disk.mark = code \/ disk.mark = 0 \/ disk.mark = NoHash
    /\ disk.mark = code => /\ conn.jobs["replay"].done /\ disk.jobs["replay"].done
                           /\ ~Waits(conn, code) /\ ~Waits(disk, code)
                           /\ conn.saved.hash = code /\ disk.saved.hash = code
    /\ up /\ ~held => conn.mark = code
    /\ up /\ held /\ rpc # "release" => conn.mark # code

Control == StoresOK /\ RunOK /\ MarkOK

\* The first page comes before windows past it, and a first backfill that holds live
\* dispatch was not preceded by code without one, which may have left a replay.  TLC
\* has a counterexample where either is not so.
Proviso == ~Overtakes /\ ~(Declared[0] = "none" /\ Declared[1] = "hold")

LEMMA StoreOKEmpty ==
    ASSUME NEW t \in Nat, NEW v \in 0 .. 1
    PROVE  StoreOK(Empty, t, v, FALSE)
<1>1. \A n \in Names : Empty.jobs[n] = NoJob
  BY EmptyIs
<1>2. Empty.jobs["initial"] = NoJob /\ Empty.jobs["replay"] = NoJob /\ Empty.jobs["gap"] = NoJob
  BY <1>1 DEF Names
<1>3. Empty.saved.hash = NoHash
  BY EmptyIs
<1>. QED  BY <1>1, <1>2, <1>3, EmptyIs DEF StoreOK, RowsOK, KindsOK, ResumeOK, LeftOK, DeclaredOK, Pending

LEMMA ControlInit == Init => Control
<1> SUFFICES ASSUME Init PROVE Control
  OBVIOUS
<1>1. conn = Empty /\ disk = Empty /\ up = FALSE /\ rpc = "look" /\ code \in 0 .. 1 /\ now \in Nat
  BY BackfillAssumption DEF Init
<1>2. StoresOK
  BY <1>1, StoreOKEmpty DEF StoresOK
<1>3. RunOK
  BY <1>1 DEF RunOK, InJob, InWindow, PageLocked
<1>4. MarkOK
  BY <1>1, EmptyIs DEF MarkOK, NoHash
<1>. QED  BY <1>2, <1>3, <1>4 DEF Control

\* A row of a job in a store that was written beside it.
LEMMA StoresKept ==
    ASSUME StoresOK, StoreOK(conn', now', code', up'),
           now' = now, code' = code, up' = up, disk' = disk \/ disk' = conn'
    PROVE  StoresOK'
BY DEF StoresOK

LEMMA StoreOKStart ==
    ASSUME Typed, Base, Control, Proviso, Start
    PROVE  StoreOK(conn', now, code, TRUE)
<1>1. /\ conn'.points = conn.points /\ conn'.saved = conn.saved
      /\ conn'.jobs["initial"] = First /\ conn'.jobs["replay"] = Replay
      /\ conn'.jobs["gap"] = conn.jobs["gap"]
  BY StartDoes
<1>2. PICK i \in JobRow, r \in JobRow, o \in JobRow, p \in JobRow :
        i = First /\ r = Replay /\ o = conn.jobs["initial"] /\ p = conn.jobs["replay"]
  BY FirstIs, ReplayIs, StoreParts DEF Typed, Names
<1>3. Declares \in {"hold", "independent", "none"} /\ Declares = Declared[code] /\ code \in 0 .. 1
  BY DeclaresIs DEF Typed, Declares
<1>4. Here = now + 1 /\ now \in Nat /\ Larger(1, Here - Horizon) <= now + 1 /\ Larger(1, Here - Horizon) >= 1
  BY BackfillAssumption DEF Typed, Here, Larger
<1>5. StoreOK(conn, now, code, up)
  BY DEF Control, StoresOK
<1>f. /\ i.start \in Nat /\ i.end \in Nat /\ i.pos \in Nat /\ i.windows \in Nat /\ i.hash \in 0 .. NoHash /\ i.made \in BOOLEAN /\ i.done \in BOOLEAN
      /\ r.start \in Nat /\ r.end \in Nat /\ r.pos \in Nat /\ r.windows \in Nat /\ r.hash \in 0 .. NoHash /\ r.made \in BOOLEAN /\ r.done \in BOOLEAN
      /\ o.start \in Nat /\ o.end \in Nat /\ o.pos \in Nat /\ o.windows \in Nat /\ o.hash \in 0 .. NoHash /\ o.made \in BOOLEAN /\ o.done \in BOOLEAN
  BY DEF JobRow
<1>g. /\ Declares = "none" => i = o
      /\ Declares # "none" /\ ~o.made =>
           /\ i.made /\ ~i.done /\ i.start = Larger(1, Here - Horizon) /\ i.pos = i.start
           /\ i.windows = 0 /\ i.hash = code
           /\ i.end = IF Declares = "hold" THEN 0 ELSE Here
      /\ Declares = "independent" /\ o.made /\ ~o.done /\ o.end = 0 =>
           /\ i.end = Here /\ i.made /\ ~i.done /\ i.start = o.start
           /\ i.pos = o.pos /\ i.windows = o.windows /\ i.hash = o.hash
      /\ o.made /\ ~(Declares = "independent" /\ ~o.done /\ o.end = 0) => i = o
  BY <1>2, FirstIs
<1>h. /\ ~(Replays /\ ~Resuming) => r = p
      /\ Replays /\ ~Resuming =>
           /\ r.made /\ ~r.done /\ r.end = 0 /\ r.windows = 0 /\ r.hash = code
           /\ r.pos = r.start /\ r.start >= 1 /\ r.start <= now + 1
  BY <1>2, ReplayIs
<1>6. RowsOK(conn', now)
  <2>1. /\ o.start <= now + 1 /\ o.pos <= now + 1 /\ o.end <= now + 1
        /\ (o.windows = 0 => o.pos = o.start) /\ o.start <= o.pos
    BY <1>2, <1>5 DEF StoreOK, RowsOK, Names
  <2>2. /\ p.start <= now + 1 /\ p.pos <= now + 1 /\ p.end <= now + 1
        /\ (p.windows = 0 => p.pos = p.start)
    BY <1>2, <1>5 DEF StoreOK, RowsOK, Names
  <2>3. /\ i.start <= now + 1 /\ i.pos <= now + 1 /\ i.end <= now + 1
        /\ (i.windows = 0 => i.pos = i.start) /\ i.start <= i.pos
    BY <1>3, <1>4, <1>f, <1>g, <2>1
  <2>4. /\ r.start <= now + 1 /\ r.pos <= now + 1 /\ r.end <= now + 1
        /\ (r.windows = 0 => r.pos = r.start)
    BY <1>4, <1>f, <1>h, <2>2
  <2>5. /\ conn.jobs["gap"].start <= now + 1 /\ conn.jobs["gap"].pos <= now + 1 /\ conn.jobs["gap"].end <= now + 1
        /\ (conn.jobs["gap"].windows = 0 => conn.jobs["gap"].pos = conn.jobs["gap"].start)
        /\ conn.jobs["gap"].start <= conn.jobs["gap"].pos
    BY <1>5 DEF StoreOK, RowsOK, Names
  <2>. QED  BY <1>1, <1>2, <2>3, <2>4, <2>5 DEF RowsOK, Names
<1>7. KindsOK(conn', code)
  <2>1. o.hash <= code /\ p.hash <= code /\ p.end = 0 /\ (conn.jobs["gap"].made => conn.jobs["gap"].end # 0)
        /\ (conn.saved.hash = code \/ conn.saved.hash = 0 \/ conn.saved.hash = NoHash)
    BY <1>2, <1>5 DEF StoreOK, KindsOK
  <2>2. i.hash <= code /\ r.hash <= code /\ r.end = 0
    BY <1>3, <1>f, <1>g, <1>h, <2>1
  <2>. QED  BY <1>1, <1>2, <2>1, <2>2 DEF KindsOK
<1>8. ResumeOK(conn', code)
  <2>1. (Pending(o) /\ o.windows > 0 /\ o.hash = code => conn.saved.hash = code)
        /\ (Pending(p) /\ p.windows > 0 /\ p.hash = code => conn.saved.hash = code)
    BY <1>2, <1>5 DEF StoreOK, ResumeOK
  <2>2. Pending(i) /\ i.windows > 0 => i = o
    BY <1>3, <1>4, <1>f, <1>g DEF Pending
  <2>3. Pending(r) /\ r.windows > 0 => r = p
    BY <1>f, <1>h
  <2>. QED  BY <1>1, <1>2, <2>1, <2>2, <2>3 DEF ResumeOK
<1>9. LeftOK(conn', code)
  <2>1. ~p.done /\ (Declared[code] = "hold" \/ Declared[1] = "hold") => o.made /\ ~Pending(o)
    BY <1>2, <1>5 DEF StoreOK, LeftOK
  <2>2. o.made /\ ~Pending(o) => i = o
    BY <1>f, <1>g DEF Pending
  <2>3. ASSUME Replays, ~Resuming, Declared[code] = "hold" \/ Declared[1] = "hold"
        PROVE  i.made /\ ~Pending(i)
    <3>1. Declares # "none"
      BY <1>3, <2>3 DEF Proviso
    <3>2. ~Pending(i)
      BY <1>2, <2>3, <3>1 DEF Replays, FirstHolds, Pending
    <3>3. i.made
      BY <1>3, <1>f, <1>g, <3>1
    <3>. QED  BY <3>2, <3>3
  <2>. QED  BY <1>1, <1>2, <1>h, <2>1, <2>2, <2>3 DEF LeftOK
<1>10. DeclaredOK(conn', code, TRUE)
  <2>1. o.made /\ Pending(o) /\ o.hash = code => Declared[code] = "hold"
    BY <1>2, <1>5 DEF StoreOK, DeclaredOK
  <2>2. i.made /\ Pending(i) /\ i.hash = code => Declared[code] = "hold"
    BY <1>3, <1>4, <1>f, <1>g, <2>1 DEF Pending
  <2>3. Declared[code] # "none" => i.made
    BY <1>3, <1>f, <1>g
  <2>4. Declared[code] = "independent" => ~Pending(i)
    BY <1>3, <1>4, <1>f, <1>g DEF Pending
  <2>. QED  BY <1>1, <1>2, <2>2, <2>3, <2>4 DEF DeclaredOK
<1>. QED  BY <1>6, <1>7, <1>8, <1>9, <1>10 DEF StoreOK

\* A store of the same rows and mark, whose saved state may be the present code's.
LEMMA StoreOKSame ==
    ASSUME NEW c, NEW d, NEW t, NEW v, NEW u, StoreOK(c, t, v, u), d.jobs = c.jobs,
           d.saved.hash = c.saved.hash \/ d.saved.hash = v
    PROVE  StoreOK(d, t, v, u)
BY DEF StoreOK, RowsOK, KindsOK, ResumeOK, LeftOK, DeclaredOK

LEMMA StoreOKStop ==
    ASSUME Typed, Control, Stop
    PROVE  StoresOK'
<1>1. conn' = disk /\ disk' = disk /\ now' = now /\ up' = FALSE /\ code' \in {code, 1} /\ code \in 0 .. 1
  BY DEF Stop, Typed
<1>2. StoreOK(disk, now, code, up)
  BY DEF Control, StoresOK
<1>3. disk.jobs["initial"].hash \in Nat /\ disk.jobs["replay"].hash \in Nat
  <2>1. disk.jobs["initial"].hash \in 0 .. NoHash /\ disk.jobs["replay"].hash \in 0 .. NoHash
    BY StoreParts DEF Typed, Names
  <2>. QED  BY <2>1 DEF NoHash
<1>4. ASSUME NEW v \in {code, 1}
      PROVE  StoreOK(disk, now, v, FALSE)
  <2>1. CASE v = code
    BY <1>2, <2>1 DEF StoreOK, DeclaredOK
  <2>2. CASE v # code
    <3>1. v = 1 /\ code = 0
      BY <1>1, <2>2
    <3>2. disk.jobs["initial"].hash # v /\ disk.jobs["replay"].hash # v
      BY <1>2, <1>3, <3>1 DEF StoreOK, KindsOK
    <3>3. KindsOK(disk, v)
      BY <1>2, <1>3, <3>1 DEF StoreOK, KindsOK
    <3>4. ResumeOK(disk, v)
      BY <3>2 DEF ResumeOK
    <3>5. LeftOK(disk, v)
      BY <1>2, <3>1 DEF StoreOK, LeftOK
    <3>6. DeclaredOK(disk, v, FALSE)
      BY <3>2 DEF DeclaredOK
    <3>. QED  BY <1>2, <3>3, <3>4, <3>5, <3>6 DEF StoreOK
  <2>. QED  BY <2>1, <2>2
<1>. QED  BY <1>1, <1>4 DEF StoresOK

LEMMA StoreOKTakeJob ==
    ASSUME Typed, Control, TakeJob
    PROVE  StoreOK(conn', now, code, up)
<1>1. PICK n \in Names :
              /\ Runs(n)
              /\ conn' \in Store /\ conn'.saved = conn.saved
              /\ \A m \in Names : m # n => conn'.jobs[m] = conn.jobs[m]
              /\ ~Over(n) => conn' = conn
              /\ Over(n) => /\ conn'.jobs[n] \in JobRow
                            /\ conn'.jobs[n].start = conn.jobs[n].start /\ conn'.jobs[n].pos = conn.jobs[n].start
                            /\ conn'.jobs[n].end = conn.jobs[n].end /\ conn'.jobs[n].windows = 0
                            /\ conn'.jobs[n].hash = code /\ conn'.jobs[n].done = conn.jobs[n].done
                            /\ conn'.jobs[n].made = conn.jobs[n].made
  BY TakeJobDoes
<1>2. StoreOK(conn, now, code, up) /\ up /\ code \in 0 .. 1
  BY DEF Control, StoresOK, TakeJob, Typed
<1>3. CASE ~Over(n)
  BY <1>1, <1>2, <1>3
<1>4. CASE Over(n)
  <2>1. \A m \in Names : /\ conn'.jobs[m].start = conn.jobs[m].start /\ conn'.jobs[m].end = conn.jobs[m].end
                         /\ conn'.jobs[m].done = conn.jobs[m].done /\ conn'.jobs[m].made = conn.jobs[m].made
                         /\ m # n => conn'.jobs[m] = conn.jobs[m]
    BY <1>1, <1>4
  <2>0. "initial" \in Names /\ "replay" \in Names /\ "gap" \in Names
    BY DEF Names
  <2>2. RowsOK(conn', now)
    <3>1. \A m \in Names : conn.jobs[m].start \in Nat
      BY StoreParts DEF Typed
    <3>. QED  BY <1>1, <1>2, <1>4, <2>1, <3>1 DEF StoreOK, RowsOK
  <2>3. KindsOK(conn', code)
    <3>1. \A m \in Names : conn'.jobs[m].hash = conn.jobs[m].hash \/ conn'.jobs[m].hash = code
      BY <1>1, <1>4
    <3>2. \A m \in {"initial", "replay"} : conn'.jobs[m].hash <= code
      BY <1>2, <2>0, <3>1 DEF StoreOK, KindsOK
    <3>. QED  BY <1>1, <1>2, <2>0, <2>1, <3>2 DEF StoreOK, KindsOK
  <2>4. ResumeOK(conn', code)
    BY <1>1, <1>2, <1>4, <2>0, <2>1 DEF StoreOK, ResumeOK, Pending
  <2>5. LeftOK(conn', code)
    BY <1>2, <2>0, <2>1 DEF StoreOK, LeftOK, Pending
  <2>6. DeclaredOK(conn', code, up)
    <3>1. Declares \in {"hold", "independent", "none"} /\ Declares = Declared[code]
      BY DeclaresIs DEF Typed, Declares
    <3>2. n = "initial" => Declared[code] # "none"
      BY <1>1, <3>1 DEF Runs
    <3>3. n = "initial" /\ Pending(conn.jobs["initial"]) => Declared[code] = "hold"
      BY <1>2, <3>1, <3>2 DEF StoreOK, DeclaredOK
    <3>4. n # "initial" => conn'.jobs["initial"] = conn.jobs["initial"]
      BY <2>0, <2>1
    <3>. QED  BY <1>2, <2>0, <2>1, <3>3, <3>4 DEF StoreOK, DeclaredOK, Pending
  <2>. QED  BY <2>2, <2>3, <2>4, <2>5, <2>6 DEF StoreOK
<1>. QED  BY <1>3, <1>4

LEMMA StoreOKFinish ==
    ASSUME Typed, Control, Finish
    PROVE  StoreOK(conn', now, code, up)
<1>1. /\ conn'.saved = conn.saved
      /\ \A m \in Names : m # job => conn'.jobs[m] = conn.jobs[m]
      /\ conn'.jobs[job] \in JobRow
      /\ conn'.jobs[job].start = Row.start /\ conn'.jobs[job].pos = Row.pos
      /\ conn'.jobs[job].end = Row.end /\ conn'.jobs[job].windows = Row.windows
      /\ conn'.jobs[job].hash = Row.hash /\ conn'.jobs[job].done
      /\ conn'.jobs[job].made = Row.made
  BY FinishDoes
<1>2. StoreOK(conn, now, code, up) /\ job \in Names /\ Row.end # 0 /\ Row.made
  BY DEF Control, StoresOK, Finish, Typed, Holding, Row, Looping, InJob
<1>3. \A m \in Names : /\ conn'.jobs[m].start = conn.jobs[m].start /\ conn'.jobs[m].end = conn.jobs[m].end
                       /\ conn'.jobs[m].pos = conn.jobs[m].pos /\ conn'.jobs[m].windows = conn.jobs[m].windows
                       /\ conn'.jobs[m].hash = conn.jobs[m].hash /\ conn'.jobs[m].made = conn.jobs[m].made
                       /\ m # job => conn'.jobs[m] = conn.jobs[m]
  BY <1>1 DEF Row
<1>4. \A m \in Names : Pending(conn'.jobs[m]) <=> Pending(conn.jobs[m])
  BY <1>1, <1>2, <1>3 DEF Pending, Row
<1>0. "initial" \in Names /\ "replay" \in Names /\ "gap" \in Names
  BY DEF Names
<1>5. conn.jobs["replay"].done => conn'.jobs["replay"].done
  BY <1>0, <1>1, <1>3
<1>. QED  BY <1>0, <1>1, <1>2, <1>3, <1>4, <1>5 DEF StoreOK, RowsOK, KindsOK, ResumeOK, LeftOK, DeclaredOK

LEMMA StoreOKCommit ==
    ASSUME Typed, Control, Commits
    PROVE  StoreOK(conn', now, code, up)
<1>1. /\ conn'.saved = IF Holding(job) THEN Saved ELSE conn.saved
      /\ \A m \in Names : m # job => conn'.jobs[m] = conn.jobs[m]
      /\ conn'.jobs[job] \in JobRow
      /\ conn'.jobs[job].start = Row.start /\ conn'.jobs[job].pos = rend
      /\ conn'.jobs[job].end = Row.end /\ conn'.jobs[job].windows = rwin + 1
      /\ conn'.jobs[job].hash = code
      /\ conn'.jobs[job].made = Row.made
  BY CommitDoes
<1>2. /\ StoreOK(conn, now, code, up) /\ job \in Names /\ code \in 0 .. 1 /\ rpc \in InJob /\ rpc \in InWindow
      /\ up /\ Runs(job) /\ (job # "replay" => Row.pos <= rpos) /\ rend <= now + 1 /\ rpos <= rend
      /\ rpos \in Nat /\ rend \in Nat /\ rwin \in Nat /\ Row.made
  BY DEF Control, StoresOK, Commits, CommitWindow, HandCommit, Typed, InJob, InWindow, RunOK
<1>0. "initial" \in Names /\ "replay" \in Names /\ "gap" \in Names
  BY DEF Names
<1>3. \A m \in Names : /\ conn'.jobs[m].start = conn.jobs[m].start /\ conn'.jobs[m].end = conn.jobs[m].end
                       /\ conn'.jobs[m].made = conn.jobs[m].made
                       /\ m # job => conn'.jobs[m] = conn.jobs[m]
  BY <1>1 DEF Row
<1>4. \A m \in Names : Pending(conn'.jobs[m]) => Pending(conn.jobs[m])
  BY <1>2, <1>3 DEF Pending, Runs
<1>5. Saved.hash = code
  BY SavedIs DEF Typed
<1>6. RowsOK(conn', now)
  <2>1. \A m \in Names : conn.jobs[m].start \in Nat /\ conn.jobs[m].pos \in Nat
    BY StoreParts DEF Typed
  <2>2. job # "replay" => conn.jobs[job].start <= rend
    BY <1>2, <2>1 DEF StoreOK, RowsOK, Row
  <2>. QED  BY <1>1, <1>2, <1>3, <2>2 DEF StoreOK, RowsOK
<1>7. KindsOK(conn', code)
  <2>1. \A m \in Names : conn'.jobs[m].hash = conn.jobs[m].hash \/ conn'.jobs[m].hash = code
    BY <1>1, <1>3
  <2>2. \A m \in {"initial", "replay"} : conn'.jobs[m].hash <= code
    BY <1>0, <1>2, <2>1 DEF StoreOK, KindsOK
  <2>. QED  BY <1>0, <1>1, <1>2, <1>3, <1>5, <2>2 DEF StoreOK, KindsOK
<1>8. ResumeOK(conn', code)
  <2>1. CASE Holding(job)
    BY <1>1, <1>5, <2>1 DEF ResumeOK
  <2>2. CASE ~Holding(job)
    <3>1. ~Pending(conn'.jobs[job])
      BY <1>2, <1>4, <2>2 DEF Pending, Holding
    <3>. QED  BY <1>0, <1>1, <1>2, <1>3, <2>2, <3>1 DEF StoreOK, ResumeOK
  <2>. QED  BY <2>1, <2>2
<1>9. LeftOK(conn', code)
  <2>1. conn.jobs["replay"].done => conn'.jobs["replay"].done
    BY <1>0, <1>2, <1>3 DEF Runs
  <2>. QED  BY <1>0, <1>2, <1>3, <1>4, <2>1 DEF StoreOK, LeftOK
<1>10. DeclaredOK(conn', code, up)
  <2>1. Declares \in {"hold", "independent", "none"} /\ Declares = Declared[code]
    BY DeclaresIs DEF Typed, Declares
  <2>2. job = "initial" /\ Pending(conn.jobs["initial"]) => Declared[code] = "hold"
    BY <1>2, <2>1 DEF StoreOK, DeclaredOK, Runs
  <2>. QED  BY <1>0, <1>2, <1>3, <1>4, <2>2 DEF StoreOK, DeclaredOK
<1>. QED  BY <1>6, <1>7, <1>8, <1>9, <1>10 DEF StoreOK

LEMMA StoreOKGap ==
    ASSUME Typed, Control, PassGap
    PROVE  StoreOK(conn', now, code, up) /\ (disk' = disk \/ disk' = conn')
<1>1. /\ conn'.saved = conn.saved
      /\ \A n \in Names : n # "gap" => conn'.jobs[n] = conn.jobs[n]
      /\ \/ conn' = conn /\ disk' = disk
         \/ /\ disk' = conn'
            /\ conn'.jobs["gap"] = [start |-> next, end |-> low, pos |-> next, windows |-> 0, hash |-> NoHash,
                                    done |-> FALSE, made |-> TRUE]
  BY PassGapDoes
<1>2. /\ StoreOK(conn, now, code, up)
      /\ next \in Nat /\ low \in Nat /\ now \in Nat /\ next <= now + 1 /\ low <= now + 1 /\ next < low
  BY DEF Control, StoresOK, PassGap, Typed
<1>0. "initial" \in Names /\ "replay" \in Names /\ "gap" \in Names
  BY DEF Names
<1>3. CASE conn' = conn /\ disk' = disk
  BY <1>2, <1>3
<1>4. CASE ~(conn' = conn /\ disk' = disk)
  <2>1. /\ conn'.jobs["gap"].start = next /\ conn'.jobs["gap"].end = low /\ conn'.jobs["gap"].pos = next
        /\ conn'.jobs["gap"].windows = 0
    BY <1>1, <1>4
  <2>2. RowsOK(conn', now)
    BY <1>0, <1>1, <1>2, <2>1 DEF StoreOK, RowsOK
  <2>3. KindsOK(conn', code) /\ ResumeOK(conn', code) /\ LeftOK(conn', code) /\ DeclaredOK(conn', code, up)
    BY <1>0, <1>1, <1>2, <2>1 DEF StoreOK, KindsOK, ResumeOK, LeftOK, DeclaredOK
  <2>. QED  BY <1>1, <1>4, <2>2, <2>3 DEF StoreOK
<1>. QED  BY <1>3, <1>4

LEMMA StoresOKNext ==
    ASSUME Typed, Base, Control, Proviso, [Next]_vars
    PROVE  StoresOK'
<1>1. CASE Start
  <2>1. now' = now /\ code' = code /\ up' = TRUE /\ disk' = conn'
    BY <1>1, StartDoes DEF Start, node
  <2>. QED  BY <1>1, <2>1, StoreOKStart DEF StoresOK
<1>2. CASE Stop
  BY <1>2, StoreOKStop
<1>3. CASE TakeJob \/ Finish \/ Commits
  <2>1. now' = now /\ code' = code /\ up' = up
    BY <1>3 DEF TakeJob, Finish, Commits, CommitWindow, HandCommit, node
  <2>2. disk' = disk \/ disk' = conn'
    BY <1>3, TakeJobDoes, FinishDoes, CommitDoes
  <2>3. StoreOK(conn', now, code, up)
    BY <1>3, StoreOKTakeJob, StoreOKFinish, StoreOKCommit
  <2>. QED  BY <2>1, <2>2, <2>3, StoresKept DEF Control
<1>4. CASE PassGap
  <2>1. now' = now /\ code' = code /\ up' = up
    BY <1>4 DEF PassGap, node
  <2>. QED  BY <1>4, <2>1, StoreOKGap, StoresKept DEF Control
<1>5. CASE ReadPage \/ EndPage \/ SetWatermark
  <2>1. now' = now /\ code' = code /\ up' = up
    BY <1>5 DEF ReadPage, EndPage, SetWatermark, node
  <2>2. /\ disk' = disk \/ disk' = conn'
        /\ conn'.jobs = conn.jobs
        /\ conn'.saved = conn.saved \/ conn'.saved = Saved
    BY <1>5, ReadPageDoes, EndPageDoes, MarkDoes
  <2>3. Saved.hash = code
    BY SavedIs DEF Typed
  <2>4. StoreOK(conn', now, code, up)
    BY <2>2, <2>3, StoreOKSame DEF Control, StoresOK
  <2>. QED  BY <2>1, <2>2, <2>4, StoresKept DEF Control
<1>6. CASE Quiet \/ Prune \/ AckSucceeds \/ AckFails \/ UNCHANGED vars
  <2>1. code' = code /\ up' = up /\ conn' = conn /\ disk' = disk
    BY <1>6, QuietDo DEF Base, Prune, AckSucceeds, AckFails, vars, node, buffer
  <2>2. now \in Nat /\ (now' = now \/ now' = now + 1)
    BY <1>6 DEF Typed, Prune, AckSucceeds, AckFails, vars, node, Quiet, Admit, Windows, WindowSucceeds, HandWindow,
                RunWindow, WindowFails, NextWindow, TakePageLock, CheckEdge, Release, CatchUp
  <2>3. ASSUME NEW c \in Store, RowsOK(c, now)
        PROVE  RowsOK(c, now')
    <3>1. \A n \in Names : c.jobs[n].start \in Nat /\ c.jobs[n].pos \in Nat /\ c.jobs[n].end \in Nat
      BY StoreParts
    <3>. QED  BY <2>2, <2>3, <3>1 DEF RowsOK
  <2>4. RowsOK(conn, now') /\ RowsOK(disk, now')
    BY <2>3 DEF Typed, Control, StoresOK, StoreOK
  <2>. QED  BY <2>1, <2>4 DEF Control, StoresOK, StoreOK
<1>. QED  BY <1>1, <1>2, <1>3, <1>4, <1>5, <1>6 DEF Next, Reading, Running, Quiet, Windows, Commits

\* Only changed code, or a declaration that holds, still waits for a replay or a first backfill.
LEMMA OnlyHeldWait ==
    ASSUME Typed, Base, Control, up, NEW n \in Names, Runs(n), Holding(n)
    PROVE  /\ held /\ n \in {"initial", "replay"}
           /\ n = "initial" => conn.jobs["replay"].done /\ Declared[code] = "hold"
           /\ n = "replay" => ~Waits(conn, code)
<1>1. StoreOK(conn, now, code, up)
  BY DEF Control, StoresOK
<1>2. Declares \in {"hold", "independent", "none"} /\ Declares = Declared[code]
  BY DeclaresIs DEF Typed, Declares
<1>3. ~conn.jobs[n].done /\ conn.jobs[n].end = 0 /\ (n = "initial" => Declares # "none")
  BY DEF Runs, Holding
<1>4. conn.jobs[n].made
  BY <1>3, EmptyIs DEF Typed, Unmade
<1>5. n # "gap"
  BY <1>1, <1>3, <1>4 DEF StoreOK, KindsOK
<1>6. n = "initial" => Declared[code] = "hold"
  BY <1>1, <1>2, <1>3 DEF StoreOK, DeclaredOK, Pending
<1>7. n = "initial" => conn.jobs["replay"].done
  BY <1>1, <1>3, <1>6 DEF StoreOK, LeftOK, Pending
<1>8. n = "replay" => ~Waits(conn, code)
  BY <1>1, <1>3 DEF StoreOK, LeftOK, Waits
<1>9. held
  <2>1. SUFFICES ASSUME ~held PROVE FALSE
    OBVIOUS
  <2>2. conn.mark = code
    BY <2>1 DEF Control, MarkOK
  <2>3. conn.jobs["replay"].done /\ ~Waits(conn, code)
    <3>1. disk.mark = conn.mark
      BY DEF Base, PageInv
    <3>. QED  BY <2>2, <3>1 DEF Control, MarkOK
  <2>4. n = "replay"
    BY <1>3, <1>5, <1>6, <2>3 DEF Waits, Pending, Names
  <2>. QED  BY <1>3, <2>3, <2>4
<1>. QED  BY <1>5, <1>6, <1>7, <1>8, <1>9 DEF Names

\* Nothing before its first sample, and nothing of a job outside one, concerns the runner.
LEMMA RunOKIdle ==
    ASSUME rpc' = "look" PROVE RunOK'
<1>1. rpc' \notin InJob /\ rpc' \notin InWindow
  BY DEF InJob, InWindow
<1>. QED  BY <1>1 DEF RunOK, PageLocked

LEMMA RunOKSame ==
    ASSUME Typed, RunOK, rpc' = rpc, job' = job, rpos' = rpos, rwin' = rwin, rend' = rend,
           now' = now \/ now' = now + 1, code' = code, historian' = historian, up' = up, held' = held,
           rpc \in InJob => conn'.jobs[job] = conn.jobs[job],
           conn.points = {} \/ conn'.points # {},
           PageLocked => /\ page' = page /\ live' = live /\ conn'.jobs[job] = conn.jobs[job] /\ conn'.saved = conn.saved
                         /\ conn'.jobs["replay"] = conn.jobs["replay"] /\ conn'.jobs["initial"] = conn.jobs["initial"]
                         /\ conn'.mark = conn.mark
    PROVE  RunOK'
<1>1. now \in Nat /\ rpos \in Nat /\ rend \in Nat
  BY DEF Typed
<1>2. rpc \in InJob => Row' = Row /\ (Runs(job) <=> Runs(job)') /\ (Holding(job) <=> Holding(job)')
  BY DEF Row, Runs, Holding, Declares
<1>3. FromBuffer' <=> FromBuffer
  BY DEF FromBuffer
<1>4. PageLocked' <=> PageLocked
  BY DEF PageLocked
<1>5. (rpc \in {"handmark", "release"}) => PageLocked /\ Saved' = Saved
  BY DEF PageLocked, Saved
<1>6. PageLocked => (Holding(job) <=> Holding(job)')
  BY DEF Holding
<1>7. rpc' \in InJob =>
         /\ up' /\ Runs(job)' /\ rwin' = Row'.windows /\ (rwin' > 0 => Row'.hash = code')
         /\ job' # "replay" => Row'.pos <= rpos'
         /\ rpos' <= now' + 1
         /\ conn'.points = {} \/ ~FromBuffer' => rpos' = Row'.pos
         /\ Holding(job)' => held'
  BY <1>1, <1>2, <1>3 DEF RunOK
<1>8. rpc' \in InWindow => rend' <= now' + 1
  BY <1>1 DEF RunOK
<1>9. rpc' \in {"window", "commit"} /\ ~Holding(job)' => rend' <= Row'.end
  BY <1>2 DEF RunOK, InJob
<1>10. PageLocked' => page' = 0 /\ held' /\ Holding(job)' /\ up' /\ job' # "gap"
  BY <1>4, <1>6 DEF RunOK
<1>11. rpc' \in {"handmark", "release"} => conn'.jobs["replay"].done /\ ~Waits(conn, code)' /\ conn'.saved = Saved'
  BY <1>5 DEF RunOK, Waits
<1>12. rpc' = "release" => conn'.mark = code'
  BY <1>5 DEF RunOK
<1>. QED  BY <1>7, <1>8, <1>9, <1>10, <1>11, <1>12 DEF RunOK

LEMMA RunOKTakeJob ==
    ASSUME Typed, Base, Control, TakeJob
    PROVE  RunOK'
<1>1. PICK n \in Names :
              /\ Runs(n)
              /\ job' = n /\ rpc' = "loop"
              /\ rpos' = (IF Over(n) THEN conn.jobs[n].start ELSE conn.jobs[n].pos)
              /\ rwin' = (IF Over(n) THEN 0 ELSE conn.jobs[n].windows)
              /\ ~Over(n) => conn' = conn
              /\ Over(n) => /\ conn'.jobs[n] \in JobRow
                            /\ conn'.jobs[n].start = conn.jobs[n].start /\ conn'.jobs[n].pos = conn.jobs[n].start
                            /\ conn'.jobs[n].end = conn.jobs[n].end /\ conn'.jobs[n].windows = 0
                            /\ conn'.jobs[n].hash = code /\ conn'.jobs[n].done = conn.jobs[n].done
                            /\ conn'.jobs[n].made = conn.jobs[n].made
  BY TakeJobDoes
<1>2. up' /\ up /\ held' = held /\ code' = code /\ now' = now
  BY DEF TakeJob, node
<1>3. StoreOK(conn, now, code, up)
  BY DEF Control, StoresOK
<1>4. conn.jobs[n].start \in Nat /\ conn.jobs[n].pos \in Nat /\ conn.jobs[n].windows \in Nat
  BY StoreParts DEF Typed
<1>5. conn'.jobs[n].done = conn.jobs[n].done /\ conn'.jobs[n].end = conn.jobs[n].end
  BY <1>1
<1>6. Runs(job)'
  BY <1>1, <1>2, <1>5 DEF Runs, Declares
<1>7. Row'.windows = rwin' /\ Row'.pos = rpos' /\ (rwin' > 0 => Row'.hash = code)
  <2>1. CASE Over(n)
    BY <1>1, <2>1 DEF Row
  <2>2. CASE ~Over(n)
    BY <1>1, <1>4, <2>2 DEF Row, Over
  <2>. QED  BY <2>1, <2>2
<1>8. rpos' <= now + 1 /\ rpos' \in Nat
  BY <1>1, <1>3, <1>4 DEF StoreOK, RowsOK
<1>9. Holding(job)' => held'
  <2>1. Holding(job)' => Holding(n)
    BY <1>1, <1>5 DEF Holding
  <2>. QED  BY <1>1, <1>2, <2>1, OnlyHeldWait
<1>. QED  BY <1>1, <1>2, <1>6, <1>7, <1>8, <1>9 DEF RunOK, InWindow, PageLocked

LEMMA RunOKLoop ==
    ASSUME Typed, Base, Control, NextWindow \/ TakePageLock \/ CheckEdge \/ Windows
    PROVE  RunOK'
<1>1. /\ conn' = conn /\ up' = up /\ held' = held /\ code' = code /\ now' = now /\ job' = job /\ rwin' = rwin
      /\ historian' = historian /\ page' = page /\ rpc \in InJob
  BY DEF NextWindow, TakePageLock, CheckEdge, Windows, WindowSucceeds, HandWindow, RunWindow, Looping, node, ingest, buffer, InJob
<1>2. /\ up /\ Runs(job) /\ rwin = Row.windows /\ (rwin > 0 => Row.hash = code)
      /\ job # "replay" => Row.pos <= rpos
      /\ rpos <= now + 1 /\ rpos >= 1 /\ rpos \in Nat /\ now \in Nat /\ rend \in Nat /\ rwin \in Nat
      /\ conn.points = {} \/ ~FromBuffer => rpos = Row.pos
      /\ Holding(job) => held
  BY <1>1 DEF Control, RunOK, Typed
<1>3. /\ Skipped \in Nat /\ Skipped >= 1 /\ Skipped <= now + 1 /\ (job # "replay" => Skipped >= rpos)
      /\ conn.points = {} \/ ~FromBuffer => Skipped = rpos
  <2>1. /\ Skipped \in Nat /\ Skipped >= 1
        /\ Skipped = rpos \/ (Skipped \in conn.points /\ FromBuffer)
        /\ job # "replay" => Skipped >= rpos
    BY <1>2, SkippedIs
  <2>. QED  BY <1>2, <2>1 DEF Typed
<1>4. Edge \in Nat /\ Edge <= now + 1 /\ PastEdge \in Nat /\ PastEdge <= now + 1
  BY <1>2, EdgeIs DEF Typed
<1>5. /\ Row' = Row /\ Runs(job)' /\ (Holding(job)' <=> Holding(job)) /\ (FromBuffer' <=> FromBuffer)
  BY <1>1, <1>2 DEF Row, Runs, Holding, FromBuffer, Declares
<1>6. Row.pos \in Nat /\ Row.end \in Nat /\ Row.end <= now + 1
  BY <1>1, StoreParts DEF Typed, Row, Control, StoresOK, StoreOK, RowsOK
<1>7. rpos' = rpos \/ rpos' = Skipped
  BY DEF NextWindow, TakePageLock, CheckEdge, Windows, WindowSucceeds, HandWindow, RunWindow
<1>8. /\ up' /\ Runs(job)' /\ rwin' = Row'.windows /\ (rwin' > 0 => Row'.hash = code')
      /\ job' # "replay" => Row'.pos <= rpos'
      /\ rpos' <= now' + 1
      /\ conn'.points = {} \/ ~FromBuffer' => rpos' = Row'.pos
      /\ Holding(job)' => held'
  BY <1>1, <1>2, <1>3, <1>5, <1>6, <1>7
<1>9. CASE NextWindow
  <2>1. rend' <= now + 1 /\ (~Holding(job) => rend' <= Row.end) /\ rpc' = "window"
    <3>1. Window \in Nat
      BY BackfillAssumption
    <3>2. \/ rend' = Skipped + Window /\ Skipped + Window < Edge /\ Holding(job)
          \/ rend' = Smaller(Skipped + Window, Row.end) /\ ~Holding(job)
      BY <1>9 DEF NextWindow
    <3>3. rpc' = "window"
      BY <1>9 DEF NextWindow
    <3>4. Smaller(Skipped + Window, Row.end) <= Row.end
      BY <1>3, <1>6, <3>1 DEF Smaller
    <3>5. now \in Nat /\ Smaller(Skipped + Window, Row.end) \in Nat
      BY <1>2, <1>3, <1>6, <3>1 DEF Smaller
    <3>. QED  BY <1>3, <1>4, <1>6, <3>1, <3>2, <3>3, <3>4, <3>5
  <2>. QED  BY <1>1, <1>5, <1>8, <2>1 DEF RunOK, PageLocked, InWindow
<1>10. CASE TakePageLock
  <2>1. rpc' = "handover" /\ page = 0 /\ Holding(job) /\ job \in Names
    BY <1>10 DEF TakePageLock, Typed
  <2>2. job # "gap"
    BY <1>2, <2>1, OnlyHeldWait
  <2>. QED  BY <1>1, <1>2, <1>5, <1>8, <2>1, <2>2 DEF RunOK, InWindow
<1>11. CASE CheckEdge
  <2>1. rpc = "handover" /\ (rpc' = "loop" \/ (rpc' = "handwindow" /\ rend' = Larger(PastEdge, rpos)))
    BY <1>11 DEF CheckEdge
  <2>2. page = 0 /\ Holding(job) /\ job # "gap"
    BY <2>1 DEF Control, RunOK, PageLocked
  <2>3. rpc' = "handwindow" => rend' <= now + 1
    BY <1>2, <1>4, <2>1 DEF Larger
  <2>. QED  BY <1>1, <1>2, <1>5, <1>8, <2>1, <2>2, <2>3 DEF RunOK, InWindow, PageLocked
<1>12. CASE Windows
  <2>1. rend' = rend /\ ((rpc = "window" /\ rpc' = "commit") \/ (rpc = "handwindow" /\ rpc' = "handcommit"))
    BY <1>12 DEF Windows, WindowSucceeds, HandWindow, RunWindow
  <2>2. rend <= now + 1 /\ (rpc = "window" /\ ~Holding(job) => rend <= Row.end)
        /\ (rpc = "handwindow" => page = 0 /\ Holding(job) /\ job # "gap")
    BY <2>1 DEF Control, RunOK, InWindow, PageLocked
  <2>. QED  BY <1>1, <1>2, <1>5, <1>8, <2>1, <2>2 DEF RunOK, InWindow, PageLocked
<1>. QED  BY <1>9, <1>10, <1>11, <1>12

LEMMA RunOKCommit ==
    ASSUME Typed, Base, Control, Commits
    PROVE  RunOK'
<1>1. /\ conn'.points = conn.points /\ conn'.mark = conn.mark
      /\ conn'.saved = IF Holding(job) THEN Saved ELSE conn.saved
      /\ \A m \in Names : m # job => conn'.jobs[m] = conn.jobs[m]
      /\ conn'.jobs[job] \in JobRow
      /\ conn'.jobs[job].start = Row.start /\ conn'.jobs[job].pos = rend
      /\ conn'.jobs[job].end = Row.end /\ conn'.jobs[job].windows = rwin + 1
      /\ conn'.jobs[job].hash = code
      /\ conn'.jobs[job].done = (rpc = "handcommit")
      /\ conn'.jobs[job].made = Row.made
  BY CommitDoes
<1>2. /\ up' = up /\ held' = held /\ live' = live /\ code' = code /\ now' = now /\ job' = job /\ page' = page /\ job \in Names
      /\ historian' = historian
  BY DEF Commits, CommitWindow, HandCommit, node, ingest, Typed
<1>3. CASE CommitWindow
  <2>1. rpc = "commit" /\ rpos' = rend /\ rwin' = rwin + 1 /\ rpc' = "loop"
    BY <1>3 DEF CommitWindow
  <2>2. /\ up /\ Runs(job) /\ rend <= now + 1 /\ rend \in Nat /\ (Holding(job) => held)
    BY <2>1 DEF Control, RunOK, InJob, InWindow, Typed
  <2>3. /\ Row'.pos = rend /\ Row'.windows = rwin + 1 /\ Row'.hash = code /\ Runs(job)' /\ (Holding(job)' <=> Holding(job))
    BY <1>1, <1>2, <2>1, <2>2 DEF Row, Runs, Holding, Declares
  <2>. QED  BY <1>2, <2>1, <2>2, <2>3 DEF RunOK, InWindow, PageLocked
<1>4. CASE HandCommit
  <2>1. rpc = "handcommit" /\ rpc' = "handmark"
    BY <1>4 DEF HandCommit
  <2>2. /\ up /\ Runs(job) /\ held /\ Holding(job) /\ page = 0
    BY <2>1 DEF Control, RunOK, InJob, PageLocked
  <2>3. /\ job \in {"initial", "replay"} /\ (job = "initial" => conn.jobs["replay"].done)
        /\ (job = "replay" => ~Waits(conn, code))
    BY <1>2, <2>2, OnlyHeldWait
  <2>4. Holding(job)' /\ conn'.saved = Saved'
    BY <1>1, <1>2, <2>2 DEF Holding, Row, Saved
  <2>5. conn'.jobs[job].done /\ Row.made
    BY <1>1, <2>1 DEF Typed, InJob
  <2>6. conn'.jobs["replay"].done /\ ~Waits(conn, code)'
    BY <1>1, <1>2, <2>3, <2>5 DEF Waits, Pending, Names
  <2>. QED  BY <1>2, <2>1, <2>2, <2>3, <2>4, <2>6 DEF RunOK, InJob, InWindow, PageLocked
<1>. QED  BY <1>3, <1>4 DEF Commits

LEMMA RunOKNext ==
    ASSUME Typed, Base, Control, [Next]_vars
    PROVE  RunOK'
<1>1. CASE Start \/ Stop \/ Finish \/ WindowFails \/ Release
  BY <1>1, RunOKIdle DEF Start, Stop, Finish, WindowFails, Release
<1>2. CASE TakeJob
  BY <1>2, RunOKTakeJob
<1>3. CASE NextWindow \/ TakePageLock \/ CheckEdge \/ Windows
  BY <1>3, RunOKLoop
<1>4. CASE Commits
  BY <1>4, RunOKCommit
<1>5. CASE Admit \/ Prune \/ AckSucceeds \/ AckFails \/ CatchUp \/ UNCHANGED vars
  BY <1>5, RunOKSame DEF Admit, Prune, AckSucceeds, AckFails, CatchUp, vars, node, ingest, buffer, runner, Control
<1>6. CASE ReadPage
  <2>1. conn'.points # {} /\ conn'.jobs = conn.jobs
    BY <1>6, ReadPageDoes
  <2>2. ~PageLocked /\ UNCHANGED <<node, up, held, runner>>
    BY <1>6 DEF ReadPage, PageComes
  <2>. QED  BY <2>1, <2>2, RunOKSame DEF node, runner, Control
<1>7. CASE EndPage
  <2>1. conn'.points = conn.points /\ conn'.jobs = conn.jobs
    BY <1>7, EndPageDoes
  <2>2. page # 0 /\ UNCHANGED <<node, up, held, live, runner>>
    BY <1>7 DEF EndPage
  <2>3. ~PageLocked
    BY <2>2 DEF Control, RunOK
  <2>. QED  BY <2>1, <2>2, <2>3, RunOKSame DEF node, runner, Control
<1>8. CASE PassGap
  <2>1. /\ conn'.points = conn.points /\ conn'.saved = conn.saved /\ conn'.mark = conn.mark
        /\ \A n \in Names : n # "gap" => conn'.jobs[n] = conn.jobs[n]
        /\ conn' = conn \/ ~conn.jobs["gap"].made
    BY <1>8, PassGapDoes
  <2>2. UNCHANGED <<node, up, page, held, live, runner>>
    BY <1>8 DEF PassGap
  <2>3. rpc \in InJob => conn'.jobs[job] = conn.jobs[job]
    BY <2>1 DEF Typed, Row
  <2>4. PageLocked => conn'.jobs[job] = conn.jobs[job]
    BY <2>1 DEF Control, RunOK, Typed
  <2>. QED  BY <2>1, <2>2, <2>3, <2>4, RunOKSame DEF node, runner, Control, Names
<1>9. CASE SetWatermark
  <2>1. conn'.points = conn.points /\ conn'.saved = conn.saved /\ conn'.jobs = conn.jobs /\ conn'.mark = code
    BY <1>9, MarkDoes
  <2>2. UNCHANGED <<node, up, ingest, held, live, job, rpos, rwin, rend, seen>> /\ rpc = "handmark" /\ rpc' = "release"
    BY <1>9 DEF SetWatermark
  <2>3. PageLocked
    BY <2>2 DEF PageLocked
  <2>. QED  BY <2>1, <2>2, <2>3 DEF RunOK, Control, PageLocked, InJob, InWindow, node, ingest, Holding, Saved, Waits
<1>. QED  BY <1>1, <1>2, <1>3, <1>4, <1>5, <1>6, <1>7, <1>8, <1>9 DEF Next, Reading, Running, Windows, Commits

LEMMA MarkOKStart ==
    ASSUME Typed, Base, Control, Start
    PROVE  MarkOK'
<1>1. /\ conn' \in Store /\ disk' = conn'
      /\ conn'.saved = conn.saved /\ conn'.mark = conn.mark
      /\ conn'.jobs["initial"] = First /\ conn'.jobs["replay"] = Replay
  BY StartDoes
<1>2. conn = disk /\ up' = TRUE /\ held' = (FirstHolds \/ Replays) /\ rpc' = "look" /\ code' = code
  BY DEF Start, Base, DownInv, PageInv, node
<1>3. Declares \in {"hold", "independent", "none"} /\ Declares = Declared[code]
  BY DeclaresIs DEF Typed, Declares
<1>4. PICK i \in JobRow, o \in JobRow : i = First /\ o = conn.jobs["initial"]
  BY FirstIs, StoreParts DEF Typed, Names
<1>f. /\ i.end \in Nat /\ i.made \in BOOLEAN /\ i.done \in BOOLEAN
      /\ o.end \in Nat /\ o.made \in BOOLEAN /\ o.done \in BOOLEAN /\ Here \in Nat /\ Here # 0
  BY BackfillAssumption DEF JobRow, Here, Typed
<1>g. /\ Declares = "none" => i = o
      /\ Declares # "none" /\ ~o.made => i.made /\ ~i.done /\ i.end = IF Declares = "hold" THEN 0 ELSE Here
      /\ Declares = "independent" /\ o.made /\ ~o.done /\ o.end = 0 => i.end = Here
      /\ o.made /\ ~(Declares = "independent" /\ ~o.done /\ o.end = 0) => i = o
  BY <1>4, FirstIs
<1>5. FirstHolds => Waits(conn, code)
  BY <1>3, <1>4, <1>f, <1>g DEF FirstHolds, Waits, Pending
<1>6. ~FirstHolds => ~Waits(conn, code)'
  BY <1>1, <1>2, <1>3, <1>4, <1>f, <1>g DEF FirstHolds, Waits, Pending
<1>7. conn.mark = code =>
        /\ conn.jobs["replay"].done /\ ~Waits(conn, code) /\ conn.saved.hash = code
  BY <1>2 DEF Control, MarkOK
<1>8. held' <=> conn.mark # code
  BY <1>2, <1>5, <1>7 DEF Replays, Resuming, Restored, Waits
<1>9. conn.mark = code => Replay = conn.jobs["replay"]
  BY <1>2, <1>8, ReplayIs
<1>10. conn.mark = code \/ conn.mark = 0 \/ conn.mark = NoHash
  BY <1>2 DEF Control, MarkOK
<1>. QED  BY <1>1, <1>2, <1>5, <1>6, <1>7, <1>8, <1>9, <1>10 DEF MarkOK

\* The rows that wait do not begin to, and the mark stays.
LEMMA MarkOKKept ==
    ASSUME Typed, Base, Control, code' = code, up' = up, held' = held, rpc' = "release" <=> rpc = "release",
           conn'.mark = conn.mark, disk'.mark = disk.mark,
           conn.jobs["replay"].done => conn'.jobs["replay"].done,
           disk.jobs["replay"].done /\ conn.jobs["replay"].done => disk'.jobs["replay"].done,
           Waits(conn', code) => Waits(conn, code),
           Waits(disk', code) => Waits(disk, code) \/ Waits(conn, code),
           disk.mark = code => conn'.saved.hash = code /\ disk'.saved.hash = code
    PROVE  MarkOK'
BY DEF Control, MarkOK, Waits

LEMMA MarkOKTakeJob ==
    ASSUME Typed, Base, Control, TakeJob
    PROVE  MarkOK'
<1>1. PICK n \in Names :
              /\ rpc' = "loop"
              /\ conn'.saved = conn.saved /\ conn'.mark = conn.mark
              /\ disk' = IF page = 0 /\ Over(n) THEN conn' ELSE disk
              /\ \A m \in Names : m # n => conn'.jobs[m] = conn.jobs[m]
              /\ ~Over(n) => conn' = conn
              /\ Over(n) => /\ conn'.jobs[n].end = conn.jobs[n].end /\ conn'.jobs[n].done = conn.jobs[n].done
                            /\ conn'.jobs[n].made = conn.jobs[n].made
  BY TakeJobDoes
<1>2. \A m \in Names : /\ conn'.jobs[m].end = conn.jobs[m].end /\ conn'.jobs[m].done = conn.jobs[m].done
                       /\ conn'.jobs[m].made = conn.jobs[m].made
  BY <1>1
<1>3. /\ conn'.jobs["replay"].done = conn.jobs["replay"].done /\ (Waits(conn', code) <=> Waits(conn, code))
  BY <1>2 DEF Waits, Pending, Names
<1>4. /\ code' = code /\ up' = up /\ held' = held /\ rpc # "release" /\ rpc' # "release"
  BY <1>1 DEF TakeJob, node
<1>5. page = 0 => conn = disk
  BY DEF Base, PageInv, TakeJob
<1>6. /\ conn.mark = disk.mark /\ disk'.mark = disk.mark
      /\ disk.jobs["replay"].done /\ conn.jobs["replay"].done => disk'.jobs["replay"].done
      /\ Waits(disk', code) => Waits(disk, code) \/ Waits(conn, code)
      /\ disk'.saved = disk.saved /\ conn'.saved = conn.saved
  BY <1>1, <1>3, <1>5 DEF Base, PageInv
<1>7. disk.mark = code => conn'.saved.hash = code /\ disk'.saved.hash = code
  BY <1>6 DEF Control, MarkOK
<1>. QED  BY <1>1, <1>3, <1>4, <1>6, <1>7, MarkOKKept

LEMMA MarkOKWork ==
    ASSUME Typed, Base, Control, Finish \/ Commits
    PROVE  MarkOK'
<1>1. /\ conn'.mark = conn.mark /\ (conn'.saved = conn.saved \/ conn'.saved = Saved)
      /\ disk' = IF page = 0 THEN conn' ELSE disk
      /\ \A m \in Names : m # job => conn'.jobs[m] = conn.jobs[m]
      /\ conn'.jobs[job].end = Row.end /\ conn'.jobs[job].made = Row.made
  BY FinishDoes, CommitDoes
<1>0. "initial" \in Names /\ "replay" \in Names /\ job \in Names
  BY DEF Names, Typed
<1>2. ~Row.done
  BY DEF Finish, Commits, CommitWindow, HandCommit, Looping, Control, RunOK, InJob, Runs, Row
<1>3. /\ conn.jobs["replay"].done => conn'.jobs["replay"].done
      /\ Waits(conn', code) => Waits(conn, code)
  BY <1>0, <1>1, <1>2 DEF Waits, Pending, Row
<1>4. /\ code' = code /\ up' = up /\ held' = held /\ rpc # "release" /\ rpc' # "release"
  BY DEF Finish, Commits, CommitWindow, HandCommit, Looping, node
<1>6. /\ conn.mark = disk.mark /\ disk'.mark = disk.mark
      /\ disk.jobs["replay"].done /\ conn.jobs["replay"].done => disk'.jobs["replay"].done
      /\ Waits(disk', code) => Waits(disk, code) \/ Waits(conn, code)
  BY <1>1, <1>3 DEF Base, PageInv
<1>7. disk.mark = code => conn'.saved.hash = code /\ disk'.saved.hash = code
  <2>1. Saved.hash = code
    BY SavedIs DEF Typed
  <2>. QED  BY <1>1, <2>1 DEF Control, MarkOK
<1>. QED  BY <1>1, <1>3, <1>4, <1>6, <1>7, MarkOKKept

LEMMA MarkOKNext ==
    ASSUME Typed, Base, Control, [Next]_vars
    PROVE  MarkOK'
<1>0. conn.mark = disk.mark
  BY DEF Base, PageInv
<1>1. CASE Start
  BY <1>1, MarkOKStart
<1>2. CASE Stop
  <2>1. conn' = disk /\ disk' = disk /\ up' = FALSE /\ code' \in {code, 1} /\ code \in 0 .. 1
    BY <1>2 DEF Stop, Typed
  <2>. QED  BY <2>1 DEF Control, MarkOK, Waits, NoHash
<1>3. CASE TakeJob
  BY <1>3, MarkOKTakeJob
<1>4. CASE Finish \/ Commits
  BY <1>4, MarkOKWork
<1>5. CASE SetWatermark
  <2>1. /\ disk' = conn' /\ conn'.saved = conn.saved /\ conn'.jobs = conn.jobs /\ conn'.mark = code
    BY <1>5, MarkDoes
  <2>2. code' = code /\ up' = up /\ held' = held /\ rpc = "handmark" /\ rpc' = "release"
    BY <1>5 DEF SetWatermark, node
  <2>3. conn.jobs["replay"].done /\ ~Waits(conn, code) /\ conn.saved = Saved /\ held
    BY <2>2 DEF Control, RunOK, PageLocked
  <2>4. Saved.hash = code
    BY SavedIs DEF Typed
  <2>. QED  BY <2>1, <2>2, <2>3, <2>4 DEF MarkOK, Waits
<1>6. CASE Release
  <2>1. /\ conn' = conn /\ disk' = disk /\ code' = code /\ up' = up /\ held' = FALSE /\ rpc = "release" /\ rpc' = "look"
    BY <1>6 DEF Release, node, buffer
  <2>2. conn.mark = code
    BY <2>1 DEF Control, RunOK
  <2>. QED  BY <2>1, <2>2 DEF Control, MarkOK, Waits
<1>7. CASE EndPage
  <2>1. /\ disk' \in {conn', disk} /\ conn'.mark = conn.mark /\ conn'.jobs = conn.jobs
        /\ held => conn'.saved = conn.saved
        /\ ~held => conn'.saved = Saved
    BY <1>7, EndPageDoes
  <2>2. page # 0 /\ code' = code /\ up' = up /\ held' = held /\ rpc' = rpc
    BY <1>7 DEF EndPage, node, runner
  <2>3. up /\ rpc # "release"
    BY <2>2 DEF Control, RunOK, PageLocked, Base, DownInv
  <2>4. Saved.hash = code
    BY SavedIs DEF Typed
  <2>5. disk.mark = code => conn'.saved.hash = code /\ disk'.saved.hash = code
    BY <1>0, <2>1, <2>3, <2>4 DEF Control, MarkOK
  <2>6. (Waits(conn', code) <=> Waits(conn, code)) /\ (Waits(disk', code) => Waits(disk, code) \/ Waits(conn, code))
    BY <2>1 DEF Waits
  <2>. QED  BY <1>0, <2>1, <2>2, <2>5, <2>6, MarkOKKept
<1>8. CASE ReadPage \/ PassGap
  <2>1. /\ conn'.mark = conn.mark /\ conn'.saved = conn.saved
        /\ \A n \in Names : n # "gap" => conn'.jobs[n] = conn.jobs[n]
        /\ disk' = disk \/ disk' = conn'
    BY <1>8, ReadPageDoes, PassGapDoes
  <2>2. code' = code /\ up' = up /\ held' = held /\ rpc' = rpc
    BY <1>8 DEF ReadPage, PassGap, node, runner
  <2>3. conn'.jobs["replay"] = conn.jobs["replay"] /\ conn'.jobs["initial"] = conn.jobs["initial"]
    BY <2>1 DEF Names
  <2>4. (Waits(conn', code) <=> Waits(conn, code)) /\ (Waits(disk', code) => Waits(disk, code) \/ Waits(conn, code))
    BY <2>1, <2>3 DEF Waits
  <2>5. disk'.mark = disk.mark /\ disk'.saved \in {disk.saved, conn.saved}
        /\ (disk.jobs["replay"].done /\ conn.jobs["replay"].done => disk'.jobs["replay"].done)
    BY <1>0, <2>1, <2>3
  <2>6. disk.mark = code => conn'.saved.hash = code /\ disk'.saved.hash = code
    BY <2>1, <2>5 DEF Control, MarkOK
  <2>. QED  BY <2>1, <2>2, <2>3, <2>4, <2>5, <2>6, MarkOKKept
<1>9. CASE Admit \/ Prune \/ AckSucceeds \/ AckFails \/ CatchUp \/ WindowFails \/ NextWindow \/ TakePageLock \/ CheckEdge
           \/ Windows \/ UNCHANGED vars
  <2>1. /\ conn' = conn /\ disk' = disk /\ code' = code /\ up' = up /\ held' = held
        /\ (rpc' = "release" <=> rpc = "release")
    BY <1>9 DEF Admit, Prune, AckSucceeds, AckFails, CatchUp, WindowFails, NextWindow, TakePageLock, CheckEdge, Looping,
                Windows, WindowSucceeds, HandWindow, RunWindow, vars, node, buffer, runner
  <2>2. disk.mark = code => conn.saved.hash = code /\ disk.saved.hash = code
    BY DEF Control, MarkOK
  <2>. QED  BY <2>1, <2>2, MarkOKKept
<1>. QED  BY <1>1, <1>2, <1>3, <1>4, <1>5, <1>6, <1>7, <1>8, <1>9 DEF Next, Reading, Running, Windows, Commits

LEMMA ControlNext ==
    ASSUME Typed, Base, Control, Proviso, [Next]_vars
    PROVE  Typed' /\ Base' /\ Control'
<1>1. rpc = "handmark" => page = 0
  BY DEF Control, RunOK, PageLocked
<1>. QED  BY <1>1, TypedNext, BaseNext, StoresOKNext, RunOKNext, MarkOKNext DEF Control

-----------------------------------------------------------------------------
(* What a state has taken in *)

\* Nothing that is or may still be buffered is missing before a sample of a state.
Complete(s, P, l, z) ==
    \A x \in Range(s), r \in Nat : z <= r /\ r <= x /\ (r \in P \/ l <= r) => r \in Range(s)

StateOK(s, P, l, z, t) ==
    /\ \A x \in Range(s.st) : x <= t
    /\ Timely(s.st, z) /\ Complete(s.st, P, l, z)
    /\ s.off <= t /\ \A r \in Nat : l <= r /\ r <= s.off => r \in P

\* What is before a position is taken in: all that is buffered, and what may still
\* be, unless the buffer is empty and the job reads nothing else.
CoveredTo(s, P, l, z, b, h) ==
    \A r \in Nat : z <= r /\ r < b /\ (r \in P \/ (l <= r /\ (P # {} \/ h))) => r \in Range(s)

AllIn(s, P, z) == \A r \in P : z <= r => r \in Range(s)

Below(s, b) == \A x \in Range(s) : x < b

\* A held job goes on from a saved state that has all before the job's position.
SavedOK(c, l, z, t, v, h) ==
    /\ StateOK(c.saved, c.points, l, z, t)
    /\ \A n \in {"initial", "replay"} :
          Pending(c.jobs[n]) /\ c.jobs[n].windows > 0 /\ c.jobs[n].hash = v =>
              /\ CoveredTo(c.saved.st, c.points, l, z, c.jobs[n].pos, n = "initial" /\ h)
              /\ n = "initial" => Below(c.saved.st, c.jobs[n].pos)

Since == conn.jobs["initial"].start

SavedInv == SavedOK(conn, L, Since, now, code, historian) /\ SavedOK(disk, L, Since, now, code, historian)

LiveInv == StateOK(live, conn.points, L, Since, now)

AllInv ==
    /\ up /\ ~held => AllIn(live.st, conn.points, Since)
    /\ rpc \in {"handmark", "release"} => AllIn(live.st, conn.points, Since)
    /\ disk.mark = code => AllIn(disk.saved.st, disk.points, Since)
    /\ page = 0 /\ conn.mark = code => AllIn(conn.saved.st, conn.points, Since)

\* A held first backfill begins with an instance that has taken nothing in.
FreshInv ==
    up /\ Declared[code] = "hold" /\ Pending(conn.jobs["initial"])
       /\ (conn.jobs["initial"].windows = 0 \/ conn.jobs["initial"].hash # code) =>
          Range(live.st) = {} \/ (job = "initial" /\ rpc \in {"commit", "handcommit"})

Reach == IF rpc \in {"commit", "handcommit"} THEN rend ELSE rpos

HoldInv ==
    /\ rpc \in InJob /\ Holding(job) =>
         /\ job = "initial" \/ rwin > 0 \/ rpc # "loop" =>
               CoveredTo(live.st, conn.points, L, Since, Reach, job = "initial" /\ historian)
         /\ job = "initial" => Below(live.st, Reach)
    /\ rpc = "window" /\ Holding(job) => rend <= now /\ (conn.points # {} => \E p \in conn.points : rend <= p)
    /\ rpc \in {"handwindow", "handcommit"} => \A p \in conn.points : p < rend
    /\ rpc = "handwindow" /\ conn.points # {} => \A r \in Nat : rpos <= r /\ r < rend => \E p \in conn.points : r <= p

LEMMA CoveredMono ==
    ASSUME NEW s, NEW P, NEW l \in Nat, NEW m \in Nat, NEW z \in Nat, NEW y \in Nat, NEW b \in Nat, NEW h,
           CoveredTo(s, P, l, z, b, h), l <= m, z <= y
    PROVE  CoveredTo(s, P, m, y, b, h)
BY DEF CoveredTo

\* A page that comes is not before the position of a job that reads it from the buffer alone.
LEMMA CoveredPage ==
    ASSUME NEW s, NEW P \in SUBSET Nat, NEW l \in Nat, NEW z \in Nat, NEW b \in Nat, NEW h, NEW k \in Nat,
           CoveredTo(s, P, l, z, b, h), l <= k, \A r \in Nat : l <= r /\ r < k => r \in P,
           P = {} => b <= k \/ b <= z \/ h
    PROVE  CoveredTo(s, P \cup {k}, l, z, b, h)
<1> SUFFICES ASSUME NEW r \in Nat, z <= r, r < b, r \in P \cup {k} \/ l <= r
             PROVE  r \in Range(s)
  BY DEF CoveredTo
<1>1. r \in P \/ l <= r
  OBVIOUS
<1>2. CASE P # {} \/ h
  BY <1>1, <1>2 DEF CoveredTo
<1>3. CASE P = {} /\ ~h
  BY <1>1, <1>3
<1>. QED  BY <1>2, <1>3

LEMMA StateMono ==
    ASSUME NEW s \in State, NEW P \in SUBSET Nat, NEW Q \in SUBSET Nat, NEW l \in Nat, NEW m \in Nat,
           NEW z \in Nat, NEW y \in Nat, NEW t \in Nat, NEW u \in Nat,
           StateOK(s, P, l, z, t), l <= m, z <= y, t <= u, P \subseteq Q, \A r \in Q : r \in P \/ l <= r
    PROVE  StateOK(s, Q, m, y, u)
<1>1. s.st \in Seq(Samples) /\ s.off \in Nat
  BY DEF State
<1>2. \A i \in 1 .. Len(s.st) : s.st[i] \in Nat
  BY <1>1, BackfillAssumption DEF Samples
<1>3. \A x \in Range(s.st) : x \in Nat
  BY <1>1, <1>2 DEF Range
<1>4. Timely(s.st, y)
  BY <1>2 DEF StateOK, Timely
<1>5. Complete(s.st, Q, m, y)
  BY <1>3 DEF StateOK, Complete
<1>6. s.off <= u /\ \A r \in Nat : m <= r /\ r <= s.off => r \in Q
  BY <1>1 DEF StateOK
<1>. QED  BY <1>3, <1>4, <1>5, <1>6 DEF StateOK

\* One more sample of the stream.
LEMMA StateAppend ==
    ASSUME NEW s \in State, NEW P \in SUBSET Nat, NEW l \in Nat, NEW z \in Nat, NEW t \in Nat, NEW k \in Samples,
           NEW q \in State, q.st = Append(s.st, k), q.off = k,
           StateOK(s, P, l, z, t), AllIn(s.st, P, z), l <= k, k <= t, \A r \in Nat : l <= r /\ r < k => r \in P
    PROVE  StateOK(q, P \cup {k}, l, z, t) /\ AllIn(q.st, P \cup {k}, z)
<1>1. s.st \in Seq(Samples) /\ k \in Nat
  BY BackfillAssumption DEF State, Samples
<1>2. /\ q.st = s.st \o <<k>> /\ <<k>> \in Seq(Samples) /\ Range(<<k>>) = {k}
      /\ Range(q.st) = Range(s.st) \cup {k}
  BY <1>1, RangeOfAppend
<1>3. \A x \in Range(s.st) : x \in Nat
  BY <1>1, BackfillAssumption DEF Samples, Range
<1>4. Complete(s.st, P, l, z) /\ Timely(s.st, z) /\ \A x \in Range(s.st) : x <= t
  BY DEF StateOK
<1>5. PICK w \in Seq(Samples) : w = <<k>>
  BY <1>2
<1>6. Len(w) = 1
  BY <1>5
<1>7. Timely(s.st \o w, z)
  <2>1. \A i, j \in 1 .. Len(w) : i < j => w[i] < w[j]
    BY <1>6
  <2>2. \A r \in Range(w), x \in Range(s.st) : x > r => r < z \/ r \in Range(s.st)
    BY <1>1, <1>2, <1>3, <1>4, <1>5 DEF Complete
  <2>. QED  BY <1>1, <1>4, <2>1, <2>2, TimelyConcat
<1>8. Complete(q.st, P \cup {k}, l, z)
  <2> SUFFICES ASSUME NEW x \in Range(q.st), NEW r \in Nat, z <= r, r <= x, r \in P \cup {k} \/ l <= r
               PROVE  r \in Range(q.st)
    BY DEF Complete
  <2>1. CASE x \in Range(s.st)
    BY <1>2, <1>4, <2>1 DEF Complete
  <2>2. CASE x = k
    <3>1. r = k \/ r \in P
      BY <1>1, <2>2
    <3>. QED  BY <1>2, <3>1 DEF AllIn
  <2>. QED  BY <1>2, <2>1, <2>2
<1>9. AllIn(q.st, P \cup {k}, z)
  BY <1>2 DEF AllIn
<1>10. \A r \in Nat : l <= r /\ r <= k => r \in P \cup {k}
  BY <1>1
<1>. QED  BY <1>2, <1>4, <1>5, <1>7, <1>8, <1>9, <1>10 DEF StateOK

\* The rows of a window from a to b: the buffer's, and the historian's where it has some.
WindowRows(W, P, a, b, h, t) ==
    \A r \in Nat : r \in W <=> a <= r /\ r < b /\ (r \in P \/ (h /\ r <= t /\ \A p \in P : r < p))

Ascending(w) == \A i, j \in 1 .. Len(w) : i < j => w[i] < w[j]

\* No sample of the window is after the edge.
Behind(P, a, b) == P # {} => \A r \in Nat : a <= r /\ r < b => \E p \in P : r <= p

\* The rows of a window, after what was taken in before it.
LEMMA StateWindow ==
    ASSUME NEW s \in State, NEW P \in SUBSET Nat, NEW l \in Nat, NEW z \in Nat, NEW t \in Nat,
           NEW w \in Seq(Samples), NEW q \in State, q.st = s.st \o w, q.off = s.off,
           Ascending(w),
           NEW a \in Nat, NEW b \in Nat, NEW h \in BOOLEAN, a <= b, P \subseteq 1 .. t,
           WindowRows(Range(w), P, a, b, h, t), Downward(P, l),
           StateOK(s, P, l, z, t), CoveredTo(s.st, P, l, z, a, h), h => Below(s.st, a)
    PROVE  StateOK(q, P, l, z, t)
<1>. USE DEF WindowRows, Downward, Ascending
<1>1. s.st \in Seq(Samples)
  BY DEF State
<1>2. Range(q.st) = Range(s.st) \cup Range(w)
  BY <1>1, RangeOfConcat
<1>3. (\A x \in Range(s.st) : x \in Nat) /\ (\A x \in Range(w) : x \in Nat)
  <2>1. Samples \subseteq Nat
    BY BackfillAssumption DEF Samples
  <2>2. Range(s.st) \subseteq Samples
    BY <1>1 DEF Range
  <2>3. Range(w) \subseteq Samples
    BY DEF Range
  <2>. QED  BY <2>1, <2>2, <2>3
<1>4. Complete(s.st, P, l, z) /\ Timely(s.st, z) /\ \A x \in Range(s.st) : x <= t
  BY DEF StateOK
<1>5. Timely(q.st, z)
  <2>1. ASSUME NEW r \in Range(w), NEW x \in Range(s.st), x > r
        PROVE  r < z \/ r \in Range(s.st)
    <3>1. CASE r \in P
      BY <1>3, <1>4, <2>1, <3>1 DEF Complete
    <3>2. CASE r \notin P
      <4>1. h /\ a <= r
        BY <1>3, <3>2
      <4>2. x < a
        BY <4>1 DEF Below
      <4>. QED  BY <1>3, <2>1, <4>1, <4>2
    <3>. QED  BY <3>1, <3>2
  <2>. QED  BY <1>1, <1>4, <2>1, TimelyConcat
<1>6. Complete(q.st, P, l, z)
  <2> SUFFICES ASSUME NEW x \in Range(q.st), NEW r \in Nat, z <= r, r <= x, r \in P \/ l <= r
               PROVE  r \in Range(q.st)
    BY DEF Complete
  <2>1. CASE x \in Range(s.st)
    BY <1>2, <1>4, <2>1 DEF Complete
  <2>2. CASE x \in Range(w)
    <3>1. x < b /\ x \in Nat /\ a <= x /\ (x \in P \/ (h /\ x <= t /\ \A p \in P : x < p))
      BY <1>3, <2>2
    <3>2. CASE r < a
      <4>1. P # {} \/ h
        BY <3>1
      <4>. QED  BY <1>2, <3>2, <4>1 DEF CoveredTo
    <3>3. CASE a <= r
      <4>1. CASE r \in P
        BY <1>2, <3>1, <3>3, <4>1
      <4>2. CASE r \notin P
        <5>1. l <= r /\ x \notin P
          BY <3>1, <4>2
        <5>2. h /\ r <= t /\ \A p \in P : r < p
          BY <3>1, <5>1
        <5>. QED  BY <1>2, <3>1, <3>3, <5>2
      <4>. QED  BY <4>1, <4>2
    <3>. QED  BY <3>2, <3>3
  <2>. QED  BY <1>2, <2>1, <2>2
<1>7. \A x \in Range(w) : x <= t
  BY <1>3
<1>. QED  BY <1>2, <1>4, <1>5, <1>6, <1>7 DEF StateOK

LEMMA CoveredWindow ==
    ASSUME NEW s, NEW q, NEW W, NEW P \in SUBSET Nat, NEW l \in Nat, NEW z \in Nat, NEW t \in Nat,
           Range(q) = Range(s) \cup W,
           NEW a \in Nat, NEW b \in Nat, NEW h \in BOOLEAN, a <= b, b <= t + 1,
           WindowRows(W, P, a, b, h, t), Downward(P, l), Behind(P, a, b), CoveredTo(s, P, l, z, a, h)
    PROVE  CoveredTo(q, P, l, z, b, h)
<1>. USE DEF WindowRows, Downward, Behind
<1> SUFFICES ASSUME NEW r \in Nat, z <= r, r < b, r \in P \/ (l <= r /\ (P # {} \/ h))
             PROVE  r \in Range(q)
  BY DEF CoveredTo
<1>1. CASE r < a
  BY <1>1 DEF CoveredTo
<1>2. CASE a <= r /\ r \in P
  BY <1>2
<1>3. CASE a <= r /\ r \notin P
  <2>1. P = {}
    BY <1>3
  <2>. QED  BY <1>3, <2>1
<1>. QED  BY <1>1, <1>2, <1>3

-----------------------------------------------------------------------------
(* What the steps leave as it is *)

LEMMA Numbers ==
    ASSUME Typed
    PROVE  /\ now \in Nat /\ low \in Nat /\ low >= 1 /\ code \in 0 .. 1 /\ historian \in BOOLEAN
           /\ next \in Nat /\ next >= 1 /\ Since \in Nat /\ rpos \in Nat /\ rend \in Nat /\ rwin \in Nat
           /\ conn.points \in SUBSET Nat /\ disk.points \in SUBSET Nat
           /\ live.st \in Seq(Samples) /\ live.off \in Nat
           /\ L \in Nat /\ L >= 1 /\ low <= L
<1>1. Since \in Nat
  BY StoreParts DEF Typed, Since, Names
<1>2. live.st \in Seq(Samples) /\ live.off \in Nat
  BY DEF Typed, State
<1>. QED  BY <1>1, <1>2, LIs DEF Typed

\* The start of the first backfill is recorded once.
LEMMA SinceGrows ==
    ASSUME Typed, Base, Typed', [Next]_vars
    PROVE  Since' \in Nat /\ Since <= Since'
<1>1. Since \in Nat /\ Since' \in Nat
  BY Numbers, StoreParts DEF Typed, Since, Names
<1>2. "initial" \in Names /\ job \in Names
  BY DEF Names, Typed
<1>3. CASE Start
  <2>1. Since' = First.start
    BY <1>3, StartDoes DEF Since
  <2>2. CASE conn.jobs["initial"].made
    <3>1. First.start = conn.jobs["initial"].start
      BY <2>2, FirstIs
    <3>. QED  BY <1>1, <2>1, <3>1 DEF Since
  <2>3. CASE ~conn.jobs["initial"].made
    <3>1. Since = 0
      BY <1>2, <2>3, EmptyIs DEF Typed, Unmade, Since
    <3>. QED  BY <1>1, <3>1
  <2>. QED  BY <2>2, <2>3
<1>4. CASE Stop
  BY <1>1, <1>2, <1>4 DEF Stop, Base, PageInv, SameJobs, Since
<1>5. CASE TakeJob
  BY <1>1, <1>2, <1>5, TakeJobDoes DEF Since
<1>6. CASE Finish \/ Commits
  <2>1. /\ \A m \in Names : m # job => conn'.jobs[m] = conn.jobs[m]
        /\ conn'.jobs[job].start = Row.start
    BY <1>6, FinishDoes, CommitDoes
  <2>. QED  BY <1>1, <1>2, <2>1 DEF Since, Row
<1>7. CASE PassGap
  BY <1>1, <1>2, <1>7, PassGapDoes DEF Since
<1>8. CASE ReadPage \/ EndPage \/ SetWatermark
  BY <1>1, <1>8, ReadPageDoes, EndPageDoes, MarkDoes DEF Since
<1>9. CASE Quiet \/ Prune \/ AckSucceeds \/ AckFails \/ UNCHANGED vars
  BY <1>1, <1>9, QuietDo DEF Base, Prune, AckSucceeds, AckFails, vars, buffer, Since
<1>. QED  BY <1>3, <1>4, <1>5, <1>6, <1>7, <1>8, <1>9 DEF Next, Reading, Running, Quiet, Windows, Commits

LEMMA WorldGrows ==
    ASSUME Typed, Typed', [Next]_vars
    PROVE  /\ now' \in Nat /\ now <= now' /\ low' \in Nat /\ low <= low' /\ historian' = historian
           /\ L' \in Nat /\ L <= L'
           /\ ~Stop => lost' = lost /\ code' = code
<1>1. now \in Nat /\ low \in Nat
  BY DEF Typed
<1>2. \/ now' = now /\ low' = low
      \/ now' = now + 1 /\ low' = low
      \/ now' = now /\ low' \in low + 1 .. now + 1
  BY DEF Next, Reading, Running, vars, node, Start, Stop, Admit, Prune, ReadPage, EndPage, AckSucceeds, AckFails, CatchUp, PassGap,
         TakeJob, NextWindow, Finish, WindowSucceeds, HandWindow, RunWindow, WindowFails, CommitWindow, TakePageLock,
         CheckEdge, HandCommit, SetWatermark, Release
<1>3. historian' = historian
  BY DEF Next, Reading, Running, vars, node, Start, Stop, Admit, Prune, ReadPage, EndPage, AckSucceeds, AckFails, CatchUp, PassGap,
         TakeJob, NextWindow, Finish, WindowSucceeds, HandWindow, RunWindow, WindowFails, CommitWindow, TakePageLock,
         CheckEdge, HandCommit, SetWatermark, Release
<1>4. ~Stop => lost' = lost /\ code' = code
  BY DEF seen, Next, Reading, Running, vars, node, Start, Admit, Prune, ReadPage, EndPage, AckSucceeds, AckFails, CatchUp, PassGap,
         TakeJob, NextWindow, Finish, WindowSucceeds, HandWindow, RunWindow, WindowFails, CommitWindow, TakePageLock,
         CheckEdge, HandCommit, SetWatermark, Release
<1>5. lost \subseteq lost'
  BY <1>4 DEF Stop
<1>6. L' \in Nat /\ L <= L'
  BY <1>1, <1>2, <1>5, LGrows DEF Typed
<1>. QED  BY <1>1, <1>2, <1>3, <1>4, <1>6

\* The saved state and the rows that go on from it, in the world as it grows.
LEMMA SavedMono ==
    ASSUME NEW c \in Store, NEW d \in Store, NEW l \in Nat, NEW m \in Nat, NEW z \in Nat, NEW y \in Nat,
           NEW t \in Nat, NEW u \in Nat, NEW v, NEW w, NEW h,
           SavedOK(c, l, z, t, v, h), l <= m, z <= y, t <= u, c.points \in SUBSET Nat, d.points = c.points,
           d.saved = c.saved,
           \A n \in {"initial", "replay"} :
              Pending(d.jobs[n]) /\ d.jobs[n].windows > 0 /\ d.jobs[n].hash = w =>
                  /\ Pending(c.jobs[n]) /\ c.jobs[n].windows > 0 /\ c.jobs[n].hash = v
                  /\ d.jobs[n].pos = c.jobs[n].pos
    PROVE  SavedOK(d, m, y, u, w, h)
<1>1. PICK s \in State : s.st = c.saved.st /\ s.off = c.saved.off
  <2>1. c.saved.st \in Seq(Samples) /\ c.saved.off \in Nat
    BY StoreParts
  <2>2. [st |-> c.saved.st, off |-> c.saved.off] \in State
    BY <2>1 DEF State
  <2>. QED  BY <2>2
<1>2. StateOK(s, c.points, l, z, t)
  BY <1>1 DEF SavedOK, StateOK
<1>3. StateOK(s, c.points, m, y, u)
  BY <1>2, StateMono
<1>4. StateOK(d.saved, d.points, m, y, u)
  BY <1>1, <1>3 DEF StateOK
<1>5. ASSUME NEW n \in {"initial", "replay"}, Pending(d.jobs[n]), d.jobs[n].windows > 0, d.jobs[n].hash = w
      PROVE  /\ CoveredTo(d.saved.st, d.points, m, y, d.jobs[n].pos, n = "initial" /\ h)
             /\ n = "initial" => Below(d.saved.st, d.jobs[n].pos)
  <2>1. c.jobs[n].pos \in Nat
    BY StoreParts DEF Names
  <2>2. /\ CoveredTo(c.saved.st, c.points, l, z, c.jobs[n].pos, n = "initial" /\ h)
        /\ n = "initial" => Below(c.saved.st, c.jobs[n].pos)
        /\ d.jobs[n].pos = c.jobs[n].pos
    BY <1>5 DEF SavedOK
  <2>3. CoveredTo(c.saved.st, c.points, m, y, c.jobs[n].pos, n = "initial" /\ h)
    BY <2>1, <2>2, CoveredMono
  <2>. QED  BY <2>2, <2>3
<1>. QED  BY <1>4, <1>5 DEF SavedOK

\* The live state is saved, and what no job goes on from says nothing.
LEMMA SavedLive ==
    ASSUME NEW d, NEW l, NEW z, NEW t, NEW v, NEW h, NEW s, d.saved.st = s.st, d.saved.off = s.off,
           StateOK(s, d.points, l, z, t),
           \A n \in {"initial", "replay"} :
              Pending(d.jobs[n]) /\ d.jobs[n].windows > 0 /\ d.jobs[n].hash = v =>
                  /\ CoveredTo(s.st, d.points, l, z, d.jobs[n].pos, n = "initial" /\ h)
                  /\ n = "initial" => Below(s.st, d.jobs[n].pos)
    PROVE  SavedOK(d, l, z, t, v, h)
BY DEF SavedOK, StateOK

Known == Typed /\ Base /\ Control
Taken == SavedInv /\ LiveInv /\ AllInv /\ FreshInv /\ HoldInv

\* The producer that is not held waits for no job of this code.
LEMMA FreeIs ==
    ASSUME Known, up, ~held
    PROVE  /\ conn.mark = code /\ disk.mark = code /\ conn.jobs["replay"].done /\ ~Waits(conn, code)
           /\ ~(Pending(conn.jobs["initial"]) /\ conn.jobs["initial"].windows > 0 /\ conn.jobs["initial"].hash = code)
<1>1. conn.mark = code /\ disk.mark = code
  BY DEF Known, Control, MarkOK, Base, PageInv
<1>2. conn.jobs["replay"].done /\ ~Waits(conn, code)
  BY <1>1 DEF Known, Control, MarkOK
<1>3. conn.jobs["initial"].windows > 0 => conn.jobs["initial"].made
  BY EmptyIs DEF Known, Typed, Unmade, Names
<1>4. StoreOK(conn, now, code, up)
  BY DEF Known, Control, StoresOK
<1>. QED  BY <1>1, <1>2, <1>3, <1>4 DEF StoreOK, DeclaredOK, Waits

-----------------------------------------------------------------------------
(* The saved state *)

LEMMA SavedKept ==
    ASSUME Known, SavedInv, Typed', [Next]_vars, code' = code,
           conn'.points = conn.points, conn'.saved = conn.saved, disk' = disk \/ disk' = conn',
           \A n \in {"initial", "replay"} :
              Pending(conn'.jobs[n]) /\ conn'.jobs[n].windows > 0 /\ conn'.jobs[n].hash = code =>
                  /\ Pending(conn.jobs[n]) /\ conn.jobs[n].windows > 0 /\ conn.jobs[n].hash = code
                  /\ conn'.jobs[n].pos = conn.jobs[n].pos
    PROVE  SavedInv'
<1>1. /\ now \in Nat /\ now' \in Nat /\ now <= now' /\ L \in Nat /\ L' \in Nat /\ L <= L' /\ historian' = historian
      /\ Since \in Nat /\ Since' \in Nat /\ Since <= Since'
  BY Numbers, WorldGrows, SinceGrows DEF Known
<1>2. conn \in Store /\ conn' \in Store /\ disk \in Store /\ conn.points \in SUBSET Nat /\ disk.points \in SUBSET Nat
  BY Numbers DEF Known, Typed
<1>3. SavedOK(conn', L', Since', now', code, historian)
  BY <1>1, <1>2, SavedMono DEF SavedInv
<1>4. SavedOK(disk, L', Since', now', code, historian)
  BY <1>1, <1>2, SavedMono DEF SavedInv
<1>. QED  BY <1>1, <1>3, <1>4 DEF SavedInv

LEMMA SavedStop ==
    ASSUME Known, SavedInv, Typed', Stop
    PROVE  SavedInv'
<1>1. /\ now \in Nat /\ now' \in Nat /\ now <= now' /\ L \in Nat /\ L' \in Nat /\ L <= L' /\ historian' = historian
      /\ Since \in Nat /\ Since' \in Nat /\ Since <= Since'
  BY Numbers, WorldGrows, SinceGrows DEF Known, Next
<1>2. disk \in Store /\ disk.points \in SUBSET Nat
  BY Numbers DEF Known, Typed
<1>3. conn' = disk /\ disk' = disk /\ (code' = code \/ (code' = 1 /\ code = 0))
  BY DEF Stop, Known, Typed
<1>4. code' # code => disk.jobs["initial"].hash # code' /\ disk.jobs["replay"].hash # code'
  <2>1. disk.jobs["initial"].hash \in 0 .. NoHash /\ disk.jobs["replay"].hash \in 0 .. NoHash
    BY <1>2, StoreParts DEF Names
  <2>2. disk.jobs["initial"].hash <= code /\ disk.jobs["replay"].hash <= code
    BY DEF Known, Control, StoresOK, StoreOK, KindsOK
  <2>. QED  BY <1>3, <2>1, <2>2 DEF NoHash
<1>5. SavedOK(disk, L', Since', now', code', historian)
  BY <1>1, <1>2, <1>4, SavedMono DEF SavedInv
<1>. QED  BY <1>1, <1>3, <1>5 DEF SavedInv

LEMMA SavedStart ==
    ASSUME Known, SavedInv, Typed', Start
    PROVE  SavedInv'
<1>1. /\ conn'.points = conn.points /\ conn'.saved = conn.saved /\ disk' = conn'
      /\ conn'.jobs["initial"] = First /\ conn'.jobs["replay"] = Replay /\ code' = code
  BY StartDoes DEF Known, Start, node
<1>2. PICK i \in JobRow, r \in JobRow, o \in JobRow, p \in JobRow :
        i = First /\ r = Replay /\ o = conn.jobs["initial"] /\ p = conn.jobs["replay"]
  BY FirstIs, ReplayIs, StoreParts DEF Known, Typed, Names
<1>3. Declares \in {"hold", "independent", "none"} /\ Here \in Nat /\ Here # 0
  BY DeclaresIs, BackfillAssumption DEF Known, Typed, Here
<1>4. /\ i.end \in Nat /\ i.windows \in Nat /\ i.made \in BOOLEAN /\ i.done \in BOOLEAN
      /\ r.end \in Nat /\ r.windows \in Nat /\ r.made \in BOOLEAN /\ r.done \in BOOLEAN
      /\ o.end \in Nat /\ o.made \in BOOLEAN /\ o.done \in BOOLEAN
  BY DEF JobRow
<1>5. Pending(i) /\ i.windows > 0 => i = o
  <2>1. /\ Declares = "none" => i = o
        /\ Declares # "none" /\ ~o.made => i.windows = 0
        /\ Declares = "independent" /\ o.made /\ ~o.done /\ o.end = 0 => i.end = Here
        /\ o.made /\ ~(Declares = "independent" /\ ~o.done /\ o.end = 0) => i = o
    BY <1>2, FirstIs DEF Known
  <2>. QED  BY <1>3, <1>4, <2>1 DEF Pending
<1>6. Pending(r) /\ r.windows > 0 => r = p
  BY <1>2, <1>4, ReplayIs DEF Known
<1>. QED  BY <1>1, <1>2, <1>5, <1>6, SavedKept DEF Next

LEMMA SavedTakeJob ==
    ASSUME Known, SavedInv, Typed', TakeJob
    PROVE  SavedInv'
<1>1. PICK n \in Names :
              /\ conn'.points = conn.points /\ conn'.saved = conn.saved
              /\ disk' = IF page = 0 /\ Over(n) THEN conn' ELSE disk
              /\ \A m \in Names : m # n => conn'.jobs[m] = conn.jobs[m]
              /\ ~Over(n) => conn' = conn
              /\ Over(n) => conn'.jobs[n].windows = 0
  BY TakeJobDoes DEF Known
<1>2. code' = code /\ (disk' = disk \/ disk' = conn')
  BY <1>1 DEF TakeJob, node
<1>3. ASSUME NEW m \in {"initial", "replay"}, conn'.jobs[m].windows > 0
      PROVE  conn'.jobs[m] = conn.jobs[m]
  BY <1>1, <1>3 DEF Names
<1>. QED  BY <1>1, <1>2, <1>3, SavedKept DEF Next, Running

LEMMA SavedFinish ==
    ASSUME Known, SavedInv, Typed', Finish
    PROVE  SavedInv'
<1>1. /\ conn'.points = conn.points /\ conn'.saved = conn.saved
      /\ disk' = IF page = 0 THEN conn' ELSE disk
      /\ \A m \in Names : m # job => conn'.jobs[m] = conn.jobs[m]
      /\ conn'.jobs[job].done
  BY FinishDoes DEF Known
<1>2. code' = code /\ (disk' = disk \/ disk' = conn')
  BY <1>1 DEF Finish, node
<1>3. ASSUME NEW m \in {"initial", "replay"}, Pending(conn'.jobs[m])
      PROVE  conn'.jobs[m] = conn.jobs[m]
  BY <1>1, <1>3 DEF Names, Pending
<1>. QED  BY <1>1, <1>2, <1>3, SavedKept DEF Next, Running

LEMMA SavedCommit ==
    ASSUME Known, Taken, Typed', Commits
    PROVE  SavedInv'
<1>1. /\ conn' \in Store /\ conn'.points = conn.points
      /\ conn'.saved = IF Holding(job) THEN Saved ELSE conn.saved
      /\ disk' = disk \/ disk' = conn'
      /\ \A m \in Names : m # job => conn'.jobs[m] = conn.jobs[m]
      /\ conn'.jobs[job].pos = rend /\ conn'.jobs[job].end = Row.end
  BY CommitDoes DEF Known
<1>2. /\ code' = code /\ now' = now /\ L' = L /\ historian' = historian /\ job \in Names
      /\ rpc \in {"commit", "handcommit"} /\ rpc \in InJob /\ rpc # "loop" /\ up /\ Runs(job)
  BY DEF Commits, CommitWindow, HandCommit, node, seen, L, Known, Typed, InJob, Control, RunOK
<1>3. [Next]_vars
  BY DEF Commits, Next, Running
<1>4. CASE ~Holding(job)
  <2>1. ASSUME NEW m \in {"initial", "replay"}, Pending(conn'.jobs[m])
        PROVE  conn'.jobs[m] = conn.jobs[m]
    BY <1>1, <1>4, <2>1 DEF Names, Pending, Holding, Row
  <2>. QED  BY <1>1, <1>2, <1>3, <1>4, <2>1, SavedKept DEF Taken
<1>5. CASE Holding(job)
  <2>1. /\ job \in {"initial", "replay"}
        /\ job = "initial" => conn.jobs["replay"].done
        /\ job = "replay" => ~Waits(conn, code)
    BY <1>2, <1>5, OnlyHeldWait DEF Known
  <2>2. /\ CoveredTo(live.st, conn.points, L, Since, rend, job = "initial" /\ historian)
        /\ job = "initial" => Below(live.st, rend)
    BY <1>2, <1>5 DEF Taken, HoldInv, Reach
  <2>3. conn'.saved.st = live.st /\ conn'.saved.off = live.off
    BY <1>1, <1>5, SavedIs DEF Known, Typed
  <2>4. ASSUME NEW m \in {"initial", "replay"}, m # job
        PROVE  ~(Pending(conn.jobs[m]) /\ conn.jobs[m].windows > 0 /\ conn.jobs[m].hash = code)
    <3>1. CASE m = "replay"
      BY <2>1, <2>4, <3>1 DEF Pending
    <3>2. CASE m = "initial"
      <4>1. conn.jobs["initial"].windows > 0 => conn.jobs["initial"].made
        <5>1. conn.jobs["initial"].made \/ conn.jobs["initial"] = NoJob
          BY DEF Known, Typed, Unmade, Names
        <5>2. NoJob.windows = 0
          BY EmptyIs
        <5>. QED  BY <5>1, <5>2
      <4>2. StoreOK(conn, now, code, up)
        BY DEF Known, Control, StoresOK
      <4>. QED  BY <2>1, <2>4, <3>2, <4>1, <4>2 DEF StoreOK, DeclaredOK, Waits
    <3>. QED  BY <3>1, <3>2
  <2>5. Since' = Since
    BY <1>1, CommitDoes DEF Since, Names, Row, Known
  <2>6. ASSUME NEW m \in {"initial", "replay"},
               Pending(conn'.jobs[m]), conn'.jobs[m].windows > 0, conn'.jobs[m].hash = code
        PROVE  /\ CoveredTo(live.st, conn'.points, L, Since, conn'.jobs[m].pos, m = "initial" /\ historian)
               /\ m = "initial" => Below(live.st, conn'.jobs[m].pos)
    <3>1. m = job
      BY <1>1, <2>4, <2>6 DEF Names
    <3>. QED  BY <1>1, <2>2, <3>1
  <2>7. StateOK(live, conn'.points, L, Since, now)
    BY <1>1 DEF Taken, LiveInv
  <2>8. SavedOK(conn', L, Since, now, code, historian)
    BY <2>3, <2>6, <2>7, SavedLive
  <2>9. SavedOK(disk, L, Since, now, code, historian)
    BY DEF Taken, SavedInv
  <2>. QED  BY <1>1, <1>2, <2>5, <2>8, <2>9 DEF SavedInv
<1>. QED  BY <1>4, <1>5

LEMMA SavedEndPage ==
    ASSUME Known, Taken, Typed', EndPage
    PROVE  SavedInv'
<1>1. /\ conn' \in Store /\ (disk' = conn' \/ disk' = disk)
      /\ conn'.points = conn.points /\ conn'.jobs = conn.jobs
      /\ held => conn'.saved = conn.saved
      /\ ~held => conn'.saved = Saved
  BY EndPageDoes DEF Known
<1>2. code' = code /\ now' = now /\ L' = L /\ historian' = historian /\ up /\ [Next]_vars
  BY DEF EndPage, node, seen, L, Next, Reading, Known, Base, DownInv
<1>3. CASE held
  BY <1>1, <1>2, <1>3, SavedKept DEF Taken
<1>4. CASE ~held
  <2>1. conn'.saved.st = live.st /\ conn'.saved.off = live.off
    BY <1>1, <1>4, SavedIs DEF Known, Typed
  <2>2. \A n \in {"initial", "replay"} :
            ~(Pending(conn'.jobs[n]) /\ conn'.jobs[n].windows > 0 /\ conn'.jobs[n].hash = code)
    BY <1>1, <1>2, <1>4, FreeIs DEF Pending
  <2>3. StateOK(live, conn'.points, L, Since, now) /\ Since' = Since
    BY <1>1 DEF Taken, LiveInv, Since
  <2>4. SavedOK(conn', L, Since, now, code, historian)
    BY <2>1, <2>2, <2>3, SavedLive
  <2>5. SavedOK(disk, L, Since, now, code, historian)
    BY DEF Taken, SavedInv
  <2>. QED  BY <1>1, <1>2, <2>3, <2>4, <2>5 DEF SavedInv
<1>. QED  BY <1>3, <1>4

\* What keeps a page from coming while the buffer is empty.
LEMMA PageIs ==
    ASSUME Known, Proviso, ReadPage
    PROVE  /\ next \in Samples /\ L <= next /\ next <= now /\ up /\ ~PageLocked
           /\ \A r \in Nat : L <= r /\ r < next => r \in conn.points
           /\ conn.points = {} =>
                /\ rpc # "window"
                /\ rpc = "commit" /\ (job = "replay" \/ ~historian) => rend <= next
                /\ \A n \in {"initial", "replay"} :
                      ~conn.jobs[n].done /\ conn.jobs[n].windows > 0 /\ (n = "replay" \/ ~historian)
                          => conn.jobs[n].pos <= next
<1>1. /\ next \in Nat /\ rend \in Nat /\ L \in Nat /\ L >= 1 /\ low \in Nat /\ now \in Nat /\ now <= MaxTime
      /\ \A n \in Names : conn.jobs[n].pos \in Nat
  BY Numbers, StoreParts DEF Known, Typed
<1>2. L <= next /\ next <= now /\ up /\ ~PageLocked /\ ~Overtaken
  <2>1. next \in low .. now /\ up /\ ~PageLocked /\ ~Overtaken
    BY DEF ReadPage, PageComes, Proviso
  <2>2. \A x \in lost : x < next
    BY DEF Known, Base, LostInv
  <2>3. L <= next
    BY <1>1, <2>1, <2>2, LIs DEF Known
  <2>. QED  BY <1>1, <2>1, <2>3 DEF Known, Typed
<1>3. next \in Samples
  BY <1>1, <1>2, BackfillAssumption DEF Samples
<1>4. \A r \in Nat : L <= r /\ r < next => r \in conn.points
  BY <1>1 DEF Known, Base, PassedInv, Closed, Downward
<1>5. conn.points = {} =>
                /\ rpc # "window"
                /\ rpc = "commit" /\ (job = "replay" \/ ~historian) => rend <= next
                /\ \A n \in {"initial", "replay"} :
                      ~conn.jobs[n].done /\ conn.jobs[n].windows > 0 /\ (n = "replay" \/ ~historian)
                          => conn.jobs[n].pos <= next
  BY <1>1, <1>2 DEF Overtaken, Names
<1>. QED  BY <1>1, <1>2, <1>3, <1>4, <1>5

LEMMA SavedReadPage ==
    ASSUME Known, Taken, Proviso, Typed', ReadPage
    PROVE  SavedInv'
<1>1. /\ conn'.points = conn.points \cup {next} /\ conn'.saved = conn.saved /\ conn'.jobs = conn.jobs /\ disk' = disk
      /\ conn \in Store
  BY ReadPageDoes DEF Known, Typed
<1>2. code' = code /\ now' = now /\ L' = L /\ historian' = historian /\ Since' = Since
  BY <1>1 DEF ReadPage, node, seen, L, Since
<1>3. /\ next \in Nat /\ L \in Nat /\ now \in Nat /\ Since \in Nat /\ conn.points \in SUBSET Nat /\ L <= next
      /\ \A r \in Nat : L <= r /\ r < next => r \in conn.points
      /\ historian \in BOOLEAN
  BY PageIs, Numbers DEF Known
<1>4. SavedOK(conn, L, Since, now, code, historian) /\ SavedOK(disk, L, Since, now, code, historian)
  BY DEF Taken, SavedInv
<1>5. PICK s \in State : s.st = conn.saved.st /\ s.off = conn.saved.off
  <2>1. conn.saved.st \in Seq(Samples) /\ conn.saved.off \in Nat
    BY <1>1, StoreParts
  <2>2. [st |-> conn.saved.st, off |-> conn.saved.off] \in State
    BY <2>1 DEF State
  <2>. QED  BY <2>2
<1>6. StateOK(conn.saved, conn.points \cup {next}, L, Since, now)
  <2>1. StateOK(s, conn.points, L, Since, now)
    BY <1>4, <1>5 DEF SavedOK, StateOK
  <2>2. StateOK(s, conn.points \cup {next}, L, Since, now)
    BY <1>3, <2>1, StateMono
  <2>. QED  BY <1>5, <2>2 DEF StateOK
<1>7. ASSUME NEW n \in {"initial", "replay"}, Pending(conn.jobs[n]), conn.jobs[n].windows > 0, conn.jobs[n].hash = code
      PROVE  /\ CoveredTo(conn.saved.st, conn.points \cup {next}, L, Since, conn.jobs[n].pos, n = "initial" /\ historian)
             /\ n = "initial" => Below(conn.saved.st, conn.jobs[n].pos)
  <2>1. /\ CoveredTo(conn.saved.st, conn.points, L, Since, conn.jobs[n].pos, n = "initial" /\ historian)
        /\ n = "initial" => Below(conn.saved.st, conn.jobs[n].pos)
    BY <1>4, <1>7 DEF SavedOK
  <2>2. conn.points = {} => conn.jobs[n].pos <= next \/ (n = "initial" /\ historian)
    BY <1>7, PageIs DEF Pending
  <2>3. conn.jobs[n].pos \in Nat
    BY <1>1, StoreParts DEF Names
  <2>. QED  BY <1>3, <2>1, <2>2, <2>3, CoveredPage
<1>8. SavedOK(conn', L, Since, now, code, historian)
  BY <1>1, <1>6, <1>7 DEF SavedOK
<1>. QED  BY <1>1, <1>2, <1>4, <1>8 DEF SavedInv

LEMMA SavedNext ==
    ASSUME Known, Taken, Proviso, Typed', [Next]_vars
    PROVE  SavedInv'
<1>1. CASE PassGap \/ SetWatermark
  <2>1. /\ conn'.points = conn.points /\ conn'.saved = conn.saved /\ (disk' = disk \/ disk' = conn')
        /\ conn'.jobs["initial"] = conn.jobs["initial"] /\ conn'.jobs["replay"] = conn.jobs["replay"]
    BY <1>1, PassGapDoes, MarkDoes DEF Known, Names
  <2>2. code' = code
    BY <1>1 DEF PassGap, SetWatermark, node
  <2>. QED  BY <2>1, <2>2, SavedKept DEF Taken
<1>2. CASE Quiet \/ Prune \/ AckSucceeds \/ AckFails \/ UNCHANGED vars
  <2>1. conn' = conn /\ disk' = disk /\ code' = code
    BY <1>2, QuietDo DEF Known, Base, Prune, AckSucceeds, AckFails, vars, buffer, node
  <2>. QED  BY <2>1, SavedKept DEF Taken
<1>. QED  BY <1>1, <1>2, SavedStop, SavedStart, SavedTakeJob, SavedFinish, SavedCommit, SavedEndPage, SavedReadPage
          DEF Next, Reading, Running, Quiet, Windows, Commits, Taken

-----------------------------------------------------------------------------
(* The live state *)

LEMMA FreshIs ==
    ASSUME NEW P, NEW l \in Nat, l >= 1, NEW z, NEW t \in Nat
    PROVE  StateOK(Fresh, P, l, z, t) /\ Fresh \in State /\ Range(Fresh.st) = {}
<1>1. Fresh.st = <<>> /\ Fresh.off = 0 /\ Fresh \in State
  BY DEF Fresh, State
<1>2. PICK e \in Seq(Samples) : e = <<>>
  <2>1. <<>> \in Seq(Samples)
    OBVIOUS
  <2>. QED  BY <2>1, Zenon
<1>3. Len(e) = 0 /\ DOMAIN e = {}
  BY <1>2
<1>4. Range(e) = {}
  BY <1>3, Zenon DEF Range
<1>5. Timely(e, z) /\ Complete(e, P, l, z)
  BY <1>3, <1>4 DEF Timely, Complete
<1>. QED  BY <1>1, <1>2, <1>4, <1>5 DEF StateOK

LEMMA LiveKept ==
    ASSUME Known, SavedInv, LiveInv, Typed', [Next]_vars, conn'.points = conn.points,
           live' = live \/ live' = Checkpoint \/ live' = Fresh
    PROVE  LiveInv'
<1>1. /\ now \in Nat /\ now' \in Nat /\ now <= now' /\ L \in Nat /\ L' \in Nat /\ L <= L'
      /\ Since \in Nat /\ Since' \in Nat /\ Since <= Since' /\ conn.points \in SUBSET Nat /\ L >= 1
  BY Numbers, WorldGrows, SinceGrows DEF Known
<1>2. PICK s \in State : s = live'
  BY DEF Typed
<1>3. StateOK(s, conn.points, L, Since, now)
  <2>1. CASE live' = live
    BY <1>2, <2>1 DEF LiveInv
  <2>2. CASE live' = Checkpoint
    BY <1>2, <2>2, CheckpointIs DEF Known, SavedInv, SavedOK, StateOK
  <2>3. CASE live' = Fresh
    BY <1>1, <1>2, <2>3, FreshIs
  <2>. QED  BY <2>1, <2>2, <2>3
<1>4. StateOK(s, conn.points, L', Since', now')
  BY <1>1, <1>3, StateMono
<1>. QED  BY <1>2, <1>4 DEF LiveInv

LEMMA LiveStop ==
    ASSUME Typed, Typed', Stop
    PROVE  LiveInv'
<1>1. /\ live' = Fresh /\ L' \in Nat /\ L' >= 1 /\ now' \in Nat
  <2>1. [Next]_vars
    BY DEF Next
  <2>2. L \in Nat /\ L >= 1 /\ L' \in Nat /\ L <= L' /\ now' \in Nat
    BY <2>1, Numbers, WorldGrows
  <2>. QED  BY <2>2 DEF Stop
<1>2. PICK m \in Nat, t \in Nat : m = L' /\ t = now'
  BY <1>1
<1>3. m >= 1
  BY <1>1, <1>2
<1>4. \A P, z : StateOK(Fresh, P, m, z, t)
  BY <1>3, FreshIs
<1>5. StateOK(Fresh, conn'.points, m, Since', t)
  BY <1>4
<1>. QED  BY <1>1, <1>2, <1>5 DEF LiveInv

LEMMA LivePage ==
    ASSUME Known, Taken, Proviso, Typed', ReadPage
    PROVE  LiveInv' /\ (up' /\ ~held' => AllIn(live.st, conn.points, Since)')
<1>1. /\ conn'.points = conn.points \cup {next} /\ conn'.jobs = conn.jobs
      /\ held \/ next <= live.off => live' = live
      /\ ~(held \/ next <= live.off) => live'.st = Append(live.st, next) /\ live'.off = next
  BY ReadPageDoes DEF Known
<1>2. now' = now /\ L' = L /\ historian' = historian /\ Since' = Since /\ up' = up /\ held' = held
  BY <1>1 DEF ReadPage, node, seen, L, Since
<1>3. /\ next \in Nat /\ next \in Samples /\ L \in Nat /\ now \in Nat /\ Since \in Nat /\ conn.points \in SUBSET Nat /\ L <= next
      /\ \A r \in Nat : L <= r /\ r < next => r \in conn.points
      /\ next <= now /\ up
  BY PageIs, Numbers DEF Known
<1>4. PICK l \in State, q \in State : l = live /\ q = live'
  BY DEF Known, Typed
<1>5. StateOK(l, conn.points, L, Since, now)
  BY <1>4 DEF Taken, LiveInv
<1>6. ~held => AllIn(l.st, conn.points, Since)
  BY <1>3, <1>4 DEF Taken, AllInv
<1>7. CASE held \/ next <= live.off
  <2>1. StateOK(l, conn.points \cup {next}, L, Since, now)
    BY <1>3, <1>5, StateMono
  <2>2. ~held => next \in conn.points
    BY <1>3, <1>4, <1>5, <1>7 DEF StateOK
  <2>3. ~held => AllIn(l.st, conn.points \cup {next}, Since)
    BY <1>6, <2>2 DEF AllIn
  <2>. QED  BY <1>1, <1>2, <1>4, <1>7, <2>1, <2>3 DEF LiveInv
<1>8. CASE ~(held \/ next <= live.off)
  <2>1. q.st = Append(l.st, next) /\ q.off = next
    BY <1>1, <1>4, <1>8
  <2>2. StateOK(q, conn.points \cup {next}, L, Since, now) /\ AllIn(q.st, conn.points \cup {next}, Since)
    BY <1>3, <1>5, <1>6, <1>8, <2>1, StateAppend
  <2>. QED  BY <1>1, <1>2, <1>4, <2>2 DEF LiveInv
<1>. QED  BY <1>7, <1>8

\* A window of a held job, on the live instance.
LEMMA LiveWindow ==
    ASSUME Known, Taken, Typed', Windows, Holding(job)
    PROVE  /\ LiveInv'
           /\ CoveredTo(live'.st, conn.points, L, Since, rend, job = "initial" /\ historian)
           /\ job = "initial" => Below(live'.st, rend)
<1>1. /\ conn' = conn /\ now' = now /\ L' = L /\ Since' = Since /\ rpc \in {"window", "handwindow"} /\ job \in Names
  BY WindowDoes DEF Windows, WindowSucceeds, HandWindow, RunWindow, node, seen, L, Since, Known, Typed
<1>2. PICK w \in Seq(Samples) :
         /\ Range(w) = Rows(rpos, rend, job)
         /\ Ascending(w)
         /\ live'.st = live.st \o w /\ live'.off = live.off
  BY WindowDoes DEF Known, Ascending
<1>3. /\ now \in Nat /\ L \in Nat /\ Since \in Nat /\ conn.points \in SUBSET Nat /\ conn.points \subseteq 1 .. now
      /\ rpos \in Nat /\ rend \in Nat /\ historian \in BOOLEAN
      /\ Downward(conn.points, L)
  BY Numbers DEF Known, Typed, Base, PassedInv, Closed, Downward
<1>4. rpc \in InJob /\ rpc \in InWindow /\ rpos <= rend /\ up /\ Runs(job) /\ rend <= now + 1
  BY <1>1 DEF InJob, InWindow, Known, Typed, Control, RunOK
<1>5. job \in {"initial", "replay"}
  BY <1>1, <1>4, OnlyHeldWait DEF Known
<1>6. PICK h \in BOOLEAN : h = (job = "initial" /\ historian)
  OBVIOUS
<1>7. CoveredTo(live.st, conn.points, L, Since, rpos, h) /\ (job = "initial" => Below(live.st, rpos))
  BY <1>1, <1>4, <1>6 DEF Taken, HoldInv, Reach
<1>8. WindowRows(Range(w), conn.points, rpos, rend, h, now)
  <2>1. \A r \in Nat : r \in Rows(rpos, rend, job) <=>
              /\ rpos <= r /\ r < rend
              /\ r \in conn.points \/ (historian /\ job # "replay" /\ r <= now /\ \A p \in conn.points : r < p)
    BY <1>3, RowsIs DEF Known
  <2>2. h <=> historian /\ job # "replay"
    BY <1>5, <1>6
  <2>. QED  BY <1>2, <2>1, <2>2 DEF WindowRows
<1>9. PICK s \in State, q \in State : s = live /\ q = live'
  BY DEF Known, Typed
<1>10. q.st = s.st \o w /\ q.off = s.off /\ s.st \in Seq(Samples)
  BY <1>2, <1>9 DEF State
<1>11. StateOK(s, conn.points, L, Since, now)
  BY <1>9 DEF Taken, LiveInv
<1>12. StateOK(q, conn.points, L, Since, now)
  <2>1. CoveredTo(s.st, conn.points, L, Since, rpos, h) /\ (h => Below(s.st, rpos))
    BY <1>6, <1>7, <1>9
  <2>2. Ascending(w) /\ Downward(conn.points, L) /\ q.st = s.st \o w /\ q.off = s.off
    BY <1>2, <1>3, <1>10
  <2>3. /\ conn.points \in SUBSET Nat /\ L \in Nat /\ Since \in Nat /\ now \in Nat /\ rpos \in Nat /\ rend \in Nat
        /\ rpos <= rend /\ conn.points \subseteq 1 .. now
    BY <1>3, <1>4
  <2>. QED  BY <1>8, <1>11, <2>1, <2>2, <2>3, StateWindow
<1>13. Range(q.st) = Range(s.st) \cup Range(w)
  BY <1>10, RangeOfConcat
<1>14. Behind(conn.points, rpos, rend)
  <2>1. CASE rpc = "handwindow"
    BY <2>1 DEF Taken, HoldInv, Behind
  <2>2. CASE rpc = "window"
    BY <1>3, <2>2 DEF Taken, HoldInv, Behind
  <2>. QED  BY <1>1, <2>1, <2>2
<1>15. CoveredTo(q.st, conn.points, L, Since, rend, h)
  <2>1. CoveredTo(s.st, conn.points, L, Since, rpos, h)
    BY <1>7, <1>9
  <2>. QED  BY <1>3, <1>4, <1>8, <1>13, <1>14, <2>1, CoveredWindow
<1>16. job = "initial" => Below(q.st, rend)
  <2>1. \A x \in Range(s.st) : x \in Nat
    BY <1>10, BackfillAssumption DEF Samples, Range
  <2>2. \A x \in Range(w) : x < rend
    <3>1. \A x \in Range(w) : x \in Nat
      BY BackfillAssumption DEF Samples, Range
    <3>. QED  BY <1>8, <3>1 DEF WindowRows
  <2>. QED  BY <1>3, <1>4, <1>7, <1>9, <1>13, <2>1, <2>2 DEF Below
<1>. QED  BY <1>1, <1>6, <1>9, <1>12, <1>15, <1>16 DEF LiveInv

LEMMA LiveNext ==
    ASSUME Known, Taken, Proviso, Typed', [Next]_vars
    PROVE  LiveInv'
<1>1. CASE Start
  <2>1. conn'.points = conn.points /\ (live' = Checkpoint \/ live' = Fresh)
    BY <1>1, StartDoes DEF Known, Start
  <2>. QED  BY <2>1, LiveKept DEF Taken
<1>2. CASE TakeJob
  <2>1. conn'.points = conn.points /\ (live' = Checkpoint \/ live' = live)
    BY <1>2, TakeJobDoes DEF Known, RestoreFor
  <2>. QED  BY <2>1, LiveKept DEF Taken
<1>3. CASE Windows
  <2>1. ~Holding(job) => conn' = conn /\ live' = live
    BY <1>3, WindowDoes DEF Known
  <2>. QED  BY <1>3, <2>1, LiveWindow, LiveKept DEF Taken
<1>4. CASE Finish \/ Commits \/ SetWatermark \/ PassGap \/ EndPage
  <2>1. conn'.points = conn.points
    BY <1>4, FinishDoes, CommitDoes, MarkDoes, PassGapDoes, EndPageDoes DEF Known
  <2>2. live' = live
    BY <1>4 DEF Finish, Commits, CommitWindow, HandCommit, SetWatermark, PassGap, EndPage
  <2>. QED  BY <2>1, <2>2, LiveKept DEF Taken
<1>5. CASE Admit \/ WindowFails \/ NextWindow \/ TakePageLock \/ CheckEdge \/ Release \/ CatchUp \/ Prune \/ AckSucceeds \/ AckFails
           \/ UNCHANGED vars
  <2>1. conn' = conn /\ live' = live
    BY <1>5 DEF Admit, WindowFails, NextWindow, TakePageLock, CheckEdge, Release, CatchUp, Prune, AckSucceeds, AckFails,
                vars, buffer
  <2>. QED  BY <2>1, LiveKept DEF Taken
<1>. QED  BY <1>1, <1>2, <1>3, <1>4, <1>5, LiveStop, LivePage DEF Next, Reading, Running, Windows, Commits, Known

\* The mark, the checkpoint of it, and what is released.
LEMMA AllNext ==
    ASSUME Known, Taken, Proviso, Typed', Control', [Next]_vars
    PROVE  AllInv'
<1>0. /\ Since \in Nat /\ Since' \in Nat /\ Since <= Since' /\ conn.points \in SUBSET Nat /\ disk.points \in SUBSET Nat
  BY Numbers, SinceGrows DEF Known
<1>m. /\ \A s : AllIn(s, conn.points, Since) => AllIn(s, conn.points, Since')
      /\ \A s : AllIn(s, disk.points, Since) => AllIn(s, disk.points, Since')
  BY <1>0 DEF AllIn
<1>1. CASE Start
  <2>1. /\ conn'.points = conn.points /\ disk' = conn' /\ conn'.saved = conn.saved /\ conn'.mark = conn.mark
    BY <1>1, StartDoes DEF Known
  <2>2. /\ conn = disk /\ held' = (FirstHolds \/ Replays) /\ rpc' = "look" /\ code' = code
        /\ live' = IF ~FirstHolds /\ Restored THEN Checkpoint ELSE Fresh
    BY <1>1 DEF Start, Known, Base, DownInv, PageInv, node
  <2>3. disk'.mark = code' => AllIn(disk'.saved.st, disk'.points, Since')
    BY <1>0, <1>m, <2>1, <2>2 DEF Taken, AllInv
  <2>4. ~held' => conn'.mark = code' /\ live'.st = conn'.saved.st
    BY <2>1, <2>2, CheckpointIs DEF Replays, Known
  <2>. QED  BY <2>1, <2>2, <2>3, <2>4 DEF AllInv
<1>2. CASE Stop
  <2>1. conn' = disk /\ disk' = disk /\ up' = FALSE /\ rpc' = "look" /\ (code' = code \/ (code' = 1 /\ code = 0))
    BY <1>2 DEF Stop, Known, Typed
  <2>2. disk.mark = code' => code' = code
    BY <2>1 DEF Known, Control, MarkOK, NoHash
  <2>. QED  BY <1>0, <1>m, <2>1, <2>2 DEF Taken, AllInv
<1>3. CASE ReadPage
  <2>1. disk' = disk /\ code' = code /\ rpc' = rpc /\ rpc \notin {"handmark", "release"} /\ page' = next
    BY <1>3, ReadPageDoes DEF ReadPage, PageComes, PageLocked, node, runner, Known
  <2>2. next # 0
    BY Numbers DEF Known
  <2>. QED  BY <1>0, <1>3, <1>m, <2>1, <2>2, LivePage DEF Taken, AllInv
<1>4. CASE EndPage
  <2>1. /\ disk' = conn' \/ disk' = disk
        /\ conn'.points = conn.points /\ conn'.mark = conn.mark
        /\ ~held => conn'.saved = Saved
    BY <1>4, EndPageDoes DEF Known
  <2>2. code' = code /\ rpc' = rpc /\ live' = live /\ up' = up /\ held' = held /\ page # 0
    BY <1>4 DEF EndPage, node, runner
  <2>3. rpc \notin {"handmark", "release"} /\ up
    BY <2>2 DEF Known, Control, RunOK, PageLocked, Base, DownInv
  <2>4. held => conn.mark # code
    BY <2>3 DEF Known, Control, MarkOK
  <2>5. ~held => conn'.saved.st = live.st
    BY <2>1, SavedIs DEF Known, Typed
  <2>6. up' /\ ~held' => AllIn(live'.st, conn'.points, Since')
    BY <1>0, <1>m, <2>1, <2>2 DEF Taken, AllInv
  <2>7. conn'.mark = code' => AllIn(conn'.saved.st, conn'.points, Since')
    BY <2>1, <2>2, <2>3, <2>4, <2>5, <2>6
  <2>8. disk.mark = code => AllIn(disk.saved.st, disk.points, Since')
    BY <1>0, <1>m DEF Taken, AllInv
  <2>. QED  BY <2>1, <2>2, <2>3, <2>6, <2>7, <2>8 DEF AllInv
<1>5. CASE SetWatermark
  <2>1. /\ disk' = conn' /\ conn'.points = conn.points /\ conn'.saved = conn.saved
    BY <1>5, MarkDoes DEF Known
  <2>2. code' = code /\ rpc = "handmark" /\ live' = live /\ up' = up /\ held' = held
    BY <1>5 DEF SetWatermark, node
  <2>3. conn.saved.st = live.st
    BY <2>2, SavedIs DEF Known, Typed, Control, RunOK
  <2>4. AllIn(live.st, conn.points, Since')
    BY <1>0, <1>m, <2>2 DEF Taken, AllInv
  <2>. QED  BY <2>1, <2>2, <2>3, <2>4 DEF AllInv
<1>6. CASE Release
  <2>1. /\ conn' = conn /\ disk' = disk /\ code' = code /\ live' = live /\ rpc = "release" /\ rpc' = "look"
        /\ page' = page
    BY <1>6 DEF Release, buffer, node, ingest
  <2>. QED  BY <1>0, <1>m, <2>1 DEF Taken, AllInv
<1>7. CASE Commits
  <2>1. /\ conn'.points = conn.points /\ conn'.mark = conn.mark
        /\ conn'.saved = IF Holding(job) THEN Saved ELSE conn.saved
        /\ disk' = IF page = 0 THEN conn' ELSE disk
    BY <1>7, CommitDoes DEF Known
  <2>2. /\ code' = code /\ live' = live /\ up' = up /\ held' = held /\ rpc \in InJob /\ rpc # "release" /\ rpc' # "release"
        /\ (rpc' = "handmark" <=> rpc = "handcommit") /\ page' = page
    BY <1>7 DEF Commits, CommitWindow, HandCommit, node, ingest, InJob
  <2>3. up /\ (Holding(job) => held) /\ (Holding(job) => conn.mark # code)
    BY <2>2 DEF Known, Control, RunOK, MarkOK
  <2>4. /\ disk'.mark = code' => AllIn(disk'.saved.st, disk'.points, Since')
        /\ page' = 0 /\ conn'.mark = code' => AllIn(conn'.saved.st, conn'.points, Since')
    BY <1>0, <1>m, <2>1, <2>2, <2>3 DEF Taken, AllInv
  <2>5. up' /\ ~held' => AllIn(live'.st, conn'.points, Since')
    BY <1>0, <1>m, <2>1, <2>2 DEF Taken, AllInv
  <2>6. rpc = "handcommit" => AllIn(live.st, conn.points, Since')
    <3>1. rpc = "handcommit" =>
            /\ CoveredTo(live.st, conn.points, L, Since, rend, job = "initial" /\ historian)
            /\ \A p \in conn.points : p < rend
      BY DEF Taken, HoldInv, Reach, InJob, Known, Control, RunOK, PageLocked
    <3>2. rpc = "handcommit" => AllIn(live.st, conn.points, Since)
      BY <1>0, <3>1 DEF CoveredTo, AllIn
    <3>. QED  BY <1>0, <1>m, <3>2
  <2>. QED  BY <2>1, <2>2, <2>4, <2>5, <2>6 DEF AllInv
<1>8. CASE TakeJob \/ Finish \/ PassGap
  <2>1. /\ conn'.points = conn.points /\ conn'.saved = conn.saved /\ conn'.mark = conn.mark
        /\ disk' = disk \/ (disk' = conn' /\ page = 0)
    BY <1>8, TakeJobDoes, FinishDoes, PassGapDoes DEF Known, PassGap
  <2>2. code' = code /\ up' = up /\ held' = held /\ page' = page
    BY <1>8, TakeJobDoes DEF TakeJob, Finish, PassGap, node, ingest, runner, Known
  <2>4. /\ disk'.mark = code' => AllIn(disk'.saved.st, disk'.points, Since')
        /\ page' = 0 /\ conn'.mark = code' => AllIn(conn'.saved.st, conn'.points, Since')
    BY <1>0, <1>m, <2>1, <2>2 DEF Taken, AllInv
  <2>5. up' /\ ~held' => live' = live
    <3>1. CASE TakeJob
      <4>1. PICK n \in Names : Runs(n) /\ live' = RestoreFor(n)
        BY <3>1, TakeJobDoes DEF Known
      <4>2. up
        BY <3>1 DEF TakeJob
      <4>3. Holding(n) => held
        BY <4>1, <4>2, OnlyHeldWait DEF Known
      <4>. QED  BY <2>2, <4>1, <4>3 DEF RestoreFor
    <3>2. CASE Finish \/ PassGap
      BY <3>2 DEF Finish, PassGap
    <3>. QED  BY <1>8, <3>1, <3>2
  <2>6. up' /\ ~held' => AllIn(live'.st, conn'.points, Since')
    BY <1>0, <1>m, <2>1, <2>2, <2>5 DEF Taken, AllInv
  <2>7. rpc' \in {"handmark", "release"} => AllIn(live'.st, conn'.points, Since')
    <3>1. rpc' \in {"handmark", "release"} => live' = live /\ rpc' = rpc
      BY <1>8, TakeJobDoes DEF Known, Finish, PassGap, runner
    <3>. QED  BY <1>0, <1>m, <2>1, <3>1 DEF Taken, AllInv
  <2>. QED  BY <2>4, <2>6, <2>7 DEF AllInv
<1>9. CASE Windows
  <2>1. /\ conn' = conn /\ disk' = disk /\ (~Holding(job) => live' = live)
    BY <1>9, WindowDoes DEF Known
  <2>2. code' = code /\ up' = up /\ held' = held /\ rpc \in InJob /\ rpc' \notin {"handmark", "release"} /\ page' = page
    BY <1>9 DEF Windows, WindowSucceeds, HandWindow, RunWindow, node, ingest, InJob
  <2>3. Holding(job) => held
    BY <2>2 DEF Known, Control, RunOK
  <2>. QED  BY <1>0, <1>m, <2>1, <2>2, <2>3 DEF Taken, AllInv
<1>10. CASE Admit \/ WindowFails \/ NextWindow \/ TakePageLock \/ CheckEdge \/ CatchUp \/ Prune \/ AckSucceeds \/ AckFails
           \/ UNCHANGED vars
  <2>1. conn' = conn /\ disk' = disk /\ live' = live /\ code' = code /\ up' = up /\ held' = held
        /\ (rpc' = rpc \/ rpc' \notin {"handmark", "release"}) /\ page' = page
    BY <1>10 DEF Admit, WindowFails, NextWindow, TakePageLock, CheckEdge, CatchUp, Prune, AckSucceeds, AckFails,
                vars, buffer, node, ingest, runner
  <2>. QED  BY <1>0, <1>m, <2>1 DEF Taken, AllInv
<1>. QED  BY <1>1, <1>2, <1>3, <1>4, <1>5, <1>6, <1>7, <1>8, <1>9, <1>10 DEF Next, Reading, Running, Windows, Commits

\* Where a held first backfill has not handled a window of this code yet.
Begins(c, v, u) ==
    /\ u /\ Declared[v] = "hold" /\ Pending(c.jobs["initial"])
    /\ c.jobs["initial"].windows = 0 \/ c.jobs["initial"].hash # v

LEMMA BeginsIs ==
    ASSUME Known, Begins(conn, code, up)
    PROVE  held /\ conn.jobs["replay"].done
<1>1. Waits(conn, code) /\ up
  BY DEF Begins, Waits
<1>2. held
  BY <1>1, FreeIs
<1>3. StoreOK(conn, now, code, up)
  BY DEF Known, Control, StoresOK
<1>. QED  BY <1>2, <1>3 DEF Begins, StoreOK, LeftOK

LEMMA FreshNext ==
    ASSUME Known, Taken, Proviso, Typed', [Next]_vars
    PROVE  FreshInv'
<1>0. /\ FreshInv <=> (Begins(conn, code, up) => Range(live.st) = {} \/ (job = "initial" /\ rpc \in {"commit", "handcommit"}))
      /\ "initial" \in Names /\ job \in Names
  BY DEF FreshInv, Begins, Known, Typed, Names
<1> SUFFICES ASSUME Begins(conn', code', up')
             PROVE  Range(live'.st) = {} \/ (job' = "initial" /\ rpc' \in {"commit", "handcommit"})
  BY DEF FreshInv, Begins
<1>u. Begins(conn, code, up) => Range(live.st) = {} \/ (job = "initial" /\ rpc \in {"commit", "handcommit"})
  BY <1>0 DEF Taken
<1>1. CASE Start
  <2>1. conn'.jobs["initial"] = First /\ code' = code /\ live' = IF ~FirstHolds /\ Restored THEN Checkpoint ELSE Fresh
    BY <1>1, StartDoes DEF Known, Start, node
  <2>2. FirstHolds
    BY <2>1 DEF Begins, FirstHolds, Declares, Pending
  <2>3. L \in Nat /\ L >= 1 /\ now \in Nat
    BY Numbers DEF Known
  <2>. QED  BY <2>1, <2>2, <2>3, FreshIs
<1>2. CASE Stop
  BY <1>2 DEF Stop, Begins
<1>3. CASE ReadPage
  <2>1. conn'.jobs = conn.jobs /\ (held => live' = live)
    BY <1>3, ReadPageDoes DEF Known
  <2>2. code' = code /\ up' = up /\ rpc' = rpc /\ job' = job
    BY <1>3 DEF ReadPage, node, runner
  <2>3. Begins(conn, code, up)
    BY <2>1, <2>2 DEF Begins
  <2>. QED  BY <1>u, <2>1, <2>2, <2>3, BeginsIs
<1>4. CASE TakeJob
  <2>1. PICK n \in Names :
              /\ Runs(n) /\ live' = RestoreFor(n)
              /\ \A m \in Names : m # n => conn'.jobs[m] = conn.jobs[m]
              /\ ~Over(n) => conn' = conn
              /\ Over(n) => /\ conn'.jobs[n].end = conn.jobs[n].end /\ conn'.jobs[n].done = conn.jobs[n].done
    BY <1>4, TakeJobDoes DEF Known
  <2>2. code' = code /\ up /\ rpc = "look"
    BY <1>4 DEF TakeJob, node
  <2>3. Begins(conn, code, up)
    <3>1. CASE Over(n) /\ n = "initial"
      BY <2>1, <2>2, <3>1 DEF Begins, Over, Pending
    <3>2. CASE ~(Over(n) /\ n = "initial")
      <4>1. conn'.jobs["initial"] = conn.jobs["initial"]
        BY <1>0, <2>1, <3>2
      <4>. QED  BY <2>2, <4>1 DEF Begins
    <3>. QED  BY <3>1, <3>2
  <2>4. Holding(n) => n = "initial"
    <3>1. Holding(n) => n \in {"initial", "replay"}
      BY <2>1, <2>2, OnlyHeldWait DEF Known
    <3>. QED  BY <2>1, <2>3, <3>1, BeginsIs DEF Runs
  <2>5. live' = live
    BY <2>1, <2>3, <2>4 DEF RestoreFor, Begins, Holding
  <2>. QED  BY <1>u, <2>2, <2>3, <2>5
<1>5. CASE Windows
  <2>1. conn' = conn /\ (~Holding(job) => live' = live)
    BY <1>5, WindowDoes DEF Known
  <2>2. /\ code' = code /\ up' = up /\ job' = job /\ rpc \in {"window", "handwindow"} /\ rpc' \in {"commit", "handcommit"}
    BY <1>5 DEF Windows, WindowSucceeds, HandWindow, RunWindow, node
  <2>3. Begins(conn, code, up)
    BY <2>1, <2>2
  <2>4. up /\ Runs(job)
    BY <2>2 DEF Known, Control, RunOK, InJob
  <2>5. Holding(job) => job = "initial"
    <3>1. Holding(job) => job \in {"initial", "replay"}
      BY <1>0, <2>4, OnlyHeldWait DEF Known
    <3>. QED  BY <2>3, <2>4, <3>1, BeginsIs DEF Runs
  <2>. QED  BY <1>u, <2>1, <2>2, <2>3, <2>5
<1>6. CASE Commits
  <2>1. /\ \A m \in Names : m # job => conn'.jobs[m] = conn.jobs[m]
        /\ conn'.jobs[job].windows = rwin + 1 /\ conn'.jobs[job].hash = code
    BY <1>6, CommitDoes DEF Known
  <2>2. code' = code /\ up' = up /\ live' = live /\ rwin \in Nat
    BY <1>6 DEF Commits, CommitWindow, HandCommit, node, Known, Typed
  <2>3. job # "initial"
    BY <2>1, <2>2 DEF Begins
  <2>4. Begins(conn, code, up)
    BY <1>0, <2>1, <2>2, <2>3 DEF Begins
  <2>. QED  BY <1>u, <2>2, <2>3, <2>4
<1>7. CASE Finish
  <2>1. /\ \A m \in Names : m # job => conn'.jobs[m] = conn.jobs[m]
        /\ conn'.jobs[job].done
    BY <1>7, FinishDoes DEF Known
  <2>2. code' = code /\ up' = up /\ live' = live /\ rpc = "loop"
    BY <1>7 DEF Finish, Looping, node
  <2>3. job # "initial"
    BY <2>1 DEF Begins, Pending
  <2>4. Begins(conn, code, up)
    BY <1>0, <2>1, <2>2, <2>3 DEF Begins
  <2>. QED  BY <1>u, <2>2, <2>3, <2>4
<1>8. CASE PassGap \/ SetWatermark \/ EndPage
  <2>1. conn'.jobs["initial"] = conn.jobs["initial"]
    BY <1>0, <1>8, PassGapDoes, MarkDoes, EndPageDoes DEF Known
  <2>2. code' = code /\ up' = up /\ live' = live /\ job' = job /\ (rpc' = rpc \/ rpc = "handmark")
    BY <1>8 DEF PassGap, SetWatermark, EndPage, node, runner
  <2>3. Begins(conn, code, up)
    BY <2>1, <2>2 DEF Begins
  <2>. QED  BY <1>u, <2>2, <2>3
<1>9. CASE Admit \/ WindowFails \/ NextWindow \/ TakePageLock \/ CheckEdge \/ CatchUp \/ Release \/ Prune \/ AckSucceeds \/ AckFails
           \/ UNCHANGED vars
  <2>1. /\ conn' = conn /\ live' = live /\ code' = code /\ up' = up /\ job' = job
        /\ (rpc' = rpc \/ rpc \notin {"commit", "handcommit"})
    BY <1>9 DEF Admit, WindowFails, NextWindow, TakePageLock, CheckEdge, CatchUp, Release, Prune, AckSucceeds, AckFails,
                Looping, vars, buffer, node, runner
  <2>. QED  BY <1>u, <2>1
<1>. QED  BY <1>1, <1>2, <1>3, <1>4, <1>5, <1>6, <1>7, <1>8, <1>9 DEF Next, Reading, Running, Windows, Commits

-----------------------------------------------------------------------------
(* The job that holds live dispatch *)

LEMMA HoldIdle ==
    ASSUME rpc' \in {"look", "handmark", "release"} PROVE HoldInv'
<1>1. rpc' \notin InJob
  BY DEF InJob
<1>. QED  BY <1>1 DEF HoldInv

LEMMA HoldSame ==
    ASSUME Known, HoldInv, Typed', [Next]_vars, conn'.points = conn.points, live' = live, runner' = runner,
           rpc \in InJob => conn'.jobs[job] = conn.jobs[job]
    PROVE  HoldInv'
<1>1. /\ now \in Nat /\ now' \in Nat /\ now <= now' /\ L \in Nat /\ L' \in Nat /\ L <= L' /\ historian' = historian
      /\ Since \in Nat /\ Since' \in Nat /\ Since <= Since' /\ rpos \in Nat /\ rend \in Nat
  BY Numbers, WorldGrows, SinceGrows DEF Known
<1>2. rpc' = rpc /\ job' = job /\ rpos' = rpos /\ rwin' = rwin /\ rend' = rend /\ Reach' = Reach /\ Reach \in Nat
  BY <1>1 DEF runner, Reach
<1>3. rpc \in InJob => (Holding(job)' <=> Holding(job))
  BY <1>2 DEF Holding
<1>4. rpc' \in InJob /\ Holding(job)' =>
         /\ job' = "initial" \/ rwin' > 0 \/ rpc' # "loop" =>
               CoveredTo(live'.st, conn'.points, L', Since', Reach', job' = "initial" /\ historian')
         /\ job' = "initial" => Below(live'.st, Reach')
  <2>1. \A h : CoveredTo(live.st, conn.points, L, Since, Reach, h) => CoveredTo(live.st, conn.points, L', Since', Reach, h)
    BY <1>1, <1>2, CoveredMono
  <2>. QED  BY <1>1, <1>2, <1>3, <2>1 DEF HoldInv
<1>5. rpc' = "window" /\ Holding(job)' => rend' <= now' /\ (conn'.points # {} => \E p \in conn'.points : rend' <= p)
  BY <1>1, <1>2, <1>3 DEF HoldInv, InJob
<1>. QED  BY <1>1, <1>2, <1>4, <1>5 DEF HoldInv

LEMMA HoldTakeJob ==
    ASSUME Known, Taken, Typed', TakeJob
    PROVE  HoldInv'
<1>1. PICK n \in Names :
              /\ Runs(n)
              /\ job' = n /\ rpc' = "loop"
              /\ rpos' = (IF Over(n) THEN conn.jobs[n].start ELSE conn.jobs[n].pos)
              /\ rwin' = (IF Over(n) THEN 0 ELSE conn.jobs[n].windows)
              /\ live' = RestoreFor(n)
              /\ conn'.points = conn.points
              /\ ~Over(n) => conn' = conn
              /\ Over(n) => /\ conn'.jobs[n].end = conn.jobs[n].end
                            /\ conn'.jobs[n].start = conn.jobs[n].start
              /\ \A m \in Names : m # n => conn'.jobs[m] = conn.jobs[m]
  BY TakeJobDoes DEF Known
<1>2. /\ up /\ code' = code /\ L' = L /\ historian' = historian /\ rpc = "look"
      /\ conn.jobs[n].windows \in Nat /\ conn.jobs[n].start \in Nat /\ conn.jobs[n].pos \in Nat
  BY StoreParts DEF TakeJob, node, seen, L, Known, Typed
<1>3. Since' = Since
  BY <1>1 DEF Since, Names
<1>4. StoreOK(conn, now, code, up)
  BY DEF Known, Control, StoresOK
<1> SUFFICES ASSUME Holding(n)
             PROVE  /\ n = "initial" \/ rwin' > 0 =>
                          CoveredTo(live'.st, conn.points, L, Since, rpos', n = "initial" /\ historian)
                    /\ n = "initial" => Below(live'.st, rpos')
  <2>1. Holding(job)' => Holding(n)
    BY <1>1 DEF Holding
  <2>. QED  BY <1>1, <1>2, <1>3, <2>1 DEF HoldInv, Reach, InJob
<1>5. n \in {"initial", "replay"} /\ (n = "initial" => Declared[code] = "hold")
  BY <1>1, <1>2, OnlyHeldWait DEF Known
<1>6. Pending(conn.jobs[n])
  BY <1>1 DEF Runs, Holding, Pending
<1>7. CASE conn.jobs[n].windows > 0 /\ conn.jobs[n].hash = code
  <2>1. ~Over(n) /\ Restored
    BY <1>4, <1>5, <1>6, <1>7 DEF Over, Restored, StoreOK, ResumeOK
  <2>2. live'.st = conn.saved.st /\ rpos' = conn.jobs[n].pos
    BY <1>1, <1>7, <2>1, CheckpointIs DEF RestoreFor, Known
  <2>. QED  BY <1>5, <1>6, <1>7, <2>2 DEF Taken, SavedInv, SavedOK
<1>8. CASE ~(conn.jobs[n].windows > 0 /\ conn.jobs[n].hash = code)
  <2>1. rwin' = 0 /\ live' = live
    BY <1>1, <1>2, <1>8 DEF Over, RestoreFor
  <2>2. ASSUME n = "initial"
        PROVE  rpos' = Since /\ Range(live.st) = {}
    <3>1. rpos' = conn.jobs["initial"].start
      BY <1>1, <1>2, <1>4, <1>8, <2>2 DEF Over, StoreOK, RowsOK
    <3>2. Begins(conn, code, up)
      BY <1>2, <1>5, <1>6, <1>8, <2>2 DEF Begins
    <3>. QED  BY <1>2, <3>1, <3>2 DEF Taken, FreshInv, Begins, Since
  <2>3. Since \in Nat
    BY Numbers DEF Known
  <2>. QED  BY <1>5, <2>1, <2>2, <2>3 DEF CoveredTo, Below
<1>. QED  BY <1>7, <1>8

\* The job steps over a stretch where nothing is buffered.
LEMMA SkipIs ==
    ASSUME Known, Taken, Looping, Holding(job)
    PROVE  /\ Skipped \in Nat
           /\ CoveredTo(live.st, conn.points, L, Since, Skipped, job = "initial" /\ historian)
           /\ job = "initial" => Below(live.st, Skipped)
<1>1. /\ up /\ rpc = "loop" /\ rpc \in InJob /\ job \in Names /\ Runs(job) /\ rpos >= 1
  BY DEF Looping, InJob, Known, Typed, Control, RunOK
<1>2. /\ Skipped \in Nat
      /\ Skipped = rpos \/ (Skipped \in conn.points /\ FromBuffer)
      /\ job # "replay" \/ rwin # 0 => Skipped >= rpos /\ \A p \in conn.points : ~(rpos <= p /\ p < Skipped)
      /\ job = "replay" /\ rwin = 0 => \A p \in conn.points : Skipped <= p
  BY <1>1, SkippedIs DEF Known
<1>3. /\ L \in Nat /\ Since \in Nat /\ rpos \in Nat /\ rwin \in Nat /\ conn.points \in SUBSET Nat
      /\ Downward(conn.points, L)
  BY Numbers DEF Known, Typed, Base, PassedInv, Closed, Downward
<1>4. job \in {"initial", "replay"}
  BY <1>1, OnlyHeldWait DEF Known
<1>5. job = "initial" => Below(live.st, rpos)
  BY <1>1 DEF Taken, HoldInv, Reach
<1>6. job = "initial" => Below(live.st, Skipped)
  <2>1. \A x \in Range(live.st) : x \in Nat
    BY Numbers, BackfillAssumption DEF Known, Samples, Range
  <2>. QED  BY <1>2, <1>3, <1>5, <2>1 DEF Below
<1>7. CASE job = "initial" \/ rwin > 0
  <2>1. CoveredTo(live.st, conn.points, L, Since, rpos, job = "initial" /\ historian)
    BY <1>1, <1>7 DEF Taken, HoldInv, Reach
  <2>2. ASSUME NEW r \in Nat, rpos <= r, r < Skipped
        PROVE  r \notin conn.points /\ ~(L <= r)
    BY <1>2, <1>3, <1>4, <1>7, <2>2 DEF Downward
  <2>. QED  BY <1>2, <1>3, <1>6, <2>1, <2>2 DEF CoveredTo
<1>8. CASE ~(job = "initial" \/ rwin > 0)
  <2>1. job = "replay" /\ rwin = 0
    BY <1>3, <1>4, <1>8
  <2>2. ASSUME NEW r \in Nat, r < Skipped
        PROVE  r \notin conn.points /\ (L <= r => conn.points = {})
    BY <1>2, <1>3, <2>1, <2>2 DEF Downward
  <2>. QED  BY <1>2, <1>4, <2>1, <2>2 DEF CoveredTo
<1>. QED  BY <1>7, <1>8

LEMMA HoldLoop ==
    ASSUME Known, Taken, Typed', NextWindow \/ TakePageLock \/ CheckEdge
    PROVE  HoldInv'
<1>1. /\ conn' = conn /\ live' = live /\ job' = job /\ rwin' = rwin /\ L' = L /\ now' = now /\ historian' = historian
      /\ Since' = Since /\ (Holding(job)' <=> Holding(job)) /\ rpc \in InJob
  BY DEF NextWindow, TakePageLock, CheckEdge, Looping, InJob, node, seen, L, buffer, Since, Holding
<1>2. /\ Edge \in Nat /\ PastEdge \in Nat /\ now \in Nat /\ Window \in Nat /\ rpos \in Nat
      /\ conn.points = {} => Edge = now + 1 /\ PastEdge = now + 1
      /\ conn.points # {} => Edge \in conn.points /\ PastEdge = Edge + 1 /\ \A p \in conn.points : p <= Edge
      /\ conn.points \in SUBSET (1 .. now)
  BY EdgeIs, Numbers, BackfillAssumption DEF Known, Typed
<1>3. CASE NextWindow
  <2>1. rpos' = Skipped /\ rpc' = "window"
    BY <1>3 DEF NextWindow
  <2>2. Holding(job) => rend' = Skipped + Window /\ Skipped + Window < Edge
    BY <1>3 DEF NextWindow
  <2>3. Looping
    BY <1>3 DEF NextWindow
  <2>4. ASSUME Holding(job)
        PROVE  /\ CoveredTo(live.st, conn.points, L, Since, Skipped, job = "initial" /\ historian)
               /\ job = "initial" => Below(live.st, Skipped)
               /\ rend' <= now /\ (conn.points # {} => \E p \in conn.points : rend' <= p)
    <3>1. Skipped \in Nat
      BY <2>3, <2>4, SkipIs
    <3>2. rend' <= now /\ (conn.points # {} => \E p \in conn.points : rend' <= p)
      BY <1>2, <2>2, <2>4, <3>1
    <3>. QED  BY <2>3, <2>4, <3>2, SkipIs
  <2>. QED  BY <1>1, <2>1, <2>4 DEF HoldInv, Reach
<1>4. CASE TakePageLock
  <2>1. rpos' = Skipped /\ rpc' = "handover" /\ Looping
    BY <1>4 DEF TakePageLock
  <2>. QED  BY <1>1, <2>1, SkipIs DEF HoldInv, Reach
<1>5. CASE CheckEdge
  <2>1. rpc = "handover" /\ rpos' = rpos /\ (rpc' = "loop" \/ (rpc' = "handwindow" /\ rend' = Larger(PastEdge, rpos)))
    BY <1>5 DEF CheckEdge
  <2>2. Holding(job) =>
          /\ CoveredTo(live.st, conn.points, L, Since, rpos, job = "initial" /\ historian)
          /\ job = "initial" => Below(live.st, rpos)
    BY <1>1, <2>1 DEF Taken, HoldInv, Reach
  <2>3. rpc' = "handwindow" =>
          /\ \A p \in conn.points : p < rend'
          /\ conn.points # {} => \A r \in Nat : rpos <= r /\ r < rend' => \E p \in conn.points : r <= p
    <3>1. rpc' = "handwindow" => rend' \in Nat /\ rend' >= PastEdge /\ (rend' = PastEdge \/ rend' = rpos)
      BY <1>2, <2>1 DEF Larger
    <3>. QED  BY <1>2, <3>1
  <2>. QED  BY <1>1, <2>1, <2>2, <2>3 DEF HoldInv, Reach
<1>. QED  BY <1>3, <1>4, <1>5

LEMMA HoldWindow ==
    ASSUME Known, Taken, Typed', Windows
    PROVE  HoldInv'
<1>1. /\ conn' = conn /\ job' = job /\ rwin' = rwin /\ rend' = rend /\ L' = L /\ now' = now /\ historian' = historian
      /\ Since' = Since /\ (Holding(job)' <=> Holding(job))
      /\ rpc' \in {"commit", "handcommit"} /\ (rpc' = "handcommit" => rpc = "handwindow")
  BY WindowDoes DEF Windows, WindowSucceeds, HandWindow, RunWindow, node, seen, L, Since, Holding, Known
<1>2. Holding(job) =>
          /\ CoveredTo(live'.st, conn.points, L, Since, rend, job = "initial" /\ historian)
          /\ job = "initial" => Below(live'.st, rend)
  BY LiveWindow
<1>3. rpc' = "handcommit" => \A p \in conn.points : p < rend
  BY <1>1 DEF Taken, HoldInv
<1>. QED  BY <1>1, <1>2, <1>3 DEF HoldInv, Reach

LEMMA HoldCommit ==
    ASSUME Known, Taken, Typed', Commits
    PROVE  HoldInv'
<1>1. CASE HandCommit
  BY <1>1, HoldIdle DEF HandCommit
<1>2. CASE CommitWindow
  <2>1. /\ conn'.points = conn.points /\ conn'.jobs[job].end = Row.end /\ conn'.jobs[job].start = Row.start
        /\ \A m \in Names : m # job => conn'.jobs[m] = conn.jobs[m]
    BY <1>2, CommitDoes DEF Commits, Known
  <2>2. /\ job' = job /\ rpos' = rend /\ rpc' = "loop" /\ rpc = "commit" /\ L' = L /\ historian' = historian /\ live' = live
    BY <1>2 DEF CommitWindow, node, seen, L
  <2>3. Since' = Since /\ (Holding(job)' <=> Holding(job))
    BY <2>1, <2>2 DEF Since, Names, Row, Holding
  <2>4. Holding(job) =>
          /\ CoveredTo(live.st, conn.points, L, Since, rend, job = "initial" /\ historian)
          /\ job = "initial" => Below(live.st, rend)
    BY <2>2 DEF Taken, HoldInv, Reach, InJob
  <2>. QED  BY <2>1, <2>2, <2>3, <2>4 DEF HoldInv, Reach
<1>. QED  BY <1>1, <1>2 DEF Commits

LEMMA HoldReadPage ==
    ASSUME Known, Taken, Proviso, Typed', ReadPage
    PROVE  HoldInv'
<1>1. /\ conn'.points = conn.points \cup {next} /\ conn'.jobs = conn.jobs
      /\ held => live' = live
  BY ReadPageDoes DEF Known
<1>2. now' = now /\ L' = L /\ historian' = historian /\ Since' = Since /\ runner' = runner
  BY <1>1 DEF ReadPage, node, seen, L, Since
<1>3. rpc' = rpc /\ job' = job /\ rpos' = rpos /\ rwin' = rwin /\ rend' = rend /\ Reach' = Reach /\ (Holding(job)' <=> Holding(job))
  BY <1>1, <1>2 DEF runner, Reach, Holding
<1>4. /\ next \in Nat /\ L \in Nat /\ now \in Nat /\ Since \in Nat /\ conn.points \in SUBSET Nat /\ L <= next
      /\ \A r \in Nat : L <= r /\ r < next => r \in conn.points
      /\ historian \in BOOLEAN /\ ~PageLocked /\ rpos \in Nat /\ rend \in Nat /\ rwin \in Nat /\ Reach \in Nat
  BY PageIs, Numbers DEF Known, Reach
<1>5. rpc \notin {"handover", "handwindow", "handcommit"}
  BY <1>4 DEF PageLocked
<1>6. ASSUME rpc \in InJob, Holding(job)
      PROVE  /\ job = "initial" \/ rwin > 0 \/ rpc # "loop" =>
                   CoveredTo(live'.st, conn'.points, L, Since, Reach, job = "initial" /\ historian)
             /\ job = "initial" => Below(live'.st, Reach)
  <2>1. /\ held /\ up /\ Runs(job) /\ rwin = Row.windows /\ (conn.points = {} => rpos = Row.pos) /\ job \in Names
    BY <1>6 DEF Known, Typed, Control, RunOK
  <2>2. job \in {"initial", "replay"}
    BY <1>6, <2>1, OnlyHeldWait DEF Known
  <2>3. live' = live
    BY <1>1, <2>1
  <2>4. ASSUME job = "initial" \/ rwin > 0 \/ rpc # "loop"
        PROVE  CoveredTo(live.st, conn.points \cup {next}, L, Since, Reach, job = "initial" /\ historian)
    <3>1. CoveredTo(live.st, conn.points, L, Since, Reach, job = "initial" /\ historian)
      BY <1>6, <2>4 DEF Taken, HoldInv
    <3>2. conn.points = {} => Reach <= next \/ Reach <= Since \/ (job = "initial" /\ historian)
      <4> SUFFICES ASSUME conn.points = {}, ~(job = "initial" /\ historian)
                   PROVE  Reach <= next \/ Reach <= Since
        OBVIOUS
      <4>1. job = "replay" \/ ~historian
        BY <2>2
      <4>2. /\ rpc # "window" /\ (rpc = "commit" => rend <= next)
            /\ ~conn.jobs[job].done /\ conn.jobs[job].windows > 0 => conn.jobs[job].pos <= next
        BY <2>2, <4>1, PageIs
      <4>3. CASE rpc = "commit"
        BY <4>2, <4>3 DEF Reach
      <4>4. CASE rpc = "loop" /\ rwin > 0
        BY <2>1, <4>2, <4>4 DEF Reach, Runs, Row
      <4>5. CASE rpc = "loop" /\ ~(rwin > 0)
        <5>1. job = "initial" /\ Row.windows = 0
          BY <1>4, <2>1, <2>4, <4>5
        <5>2. conn.jobs["initial"].pos = Since
          BY <5>1 DEF Known, Control, StoresOK, StoreOK, RowsOK, Row, Since, Names
        <5>. QED  BY <1>4, <2>1, <4>5, <5>1, <5>2 DEF Reach, Row
      <4>. QED  BY <1>5, <1>6, <4>2, <4>3, <4>4, <4>5 DEF InJob
    <3>. QED  BY <1>4, <3>1, <3>2, CoveredPage
  <2>5. job = "initial" => Below(live.st, Reach)
    BY <1>6 DEF Taken, HoldInv
  <2>. QED  BY <1>1, <2>3, <2>4, <2>5
<1>7. rpc = "window" /\ Holding(job) => rend <= now /\ (conn'.points # {} => \E p \in conn'.points : rend <= p)
  <2>1. conn.points = {} => rpc # "window"
    BY PageIs
  <2>. QED  BY <1>1, <2>1 DEF Taken, HoldInv
<1>. QED  BY <1>1, <1>2, <1>3, <1>5, <1>6, <1>7 DEF HoldInv

LEMMA HoldNext ==
    ASSUME Known, Taken, Proviso, Typed', [Next]_vars
    PROVE  HoldInv'
<1>1. CASE Start \/ Stop \/ Finish \/ WindowFails \/ Release \/ SetWatermark
  BY <1>1, HoldIdle DEF Start, Stop, Finish, WindowFails, Release, SetWatermark
<1>2. CASE EndPage
  <2>1. conn'.points = conn.points /\ conn'.jobs = conn.jobs /\ live' = live /\ runner' = runner
    BY <1>2, EndPageDoes DEF Known, EndPage
  <2>. QED  BY <2>1, HoldSame DEF Taken
<1>3. CASE PassGap
  <2>1. /\ conn'.points = conn.points
        /\ \A n \in Names : n # "gap" => conn'.jobs[n] = conn.jobs[n]
        /\ conn' = conn \/ ~conn.jobs["gap"].made
    BY <1>3, PassGapDoes DEF Known
  <2>2. live' = live /\ runner' = runner
    BY <1>3 DEF PassGap
  <2>3. rpc \in InJob => conn'.jobs[job] = conn.jobs[job]
    BY <2>1 DEF Known, Typed, Row
  <2>. QED  BY <2>1, <2>2, <2>3, HoldSame DEF Taken
<1>4. CASE Admit \/ CatchUp \/ Prune \/ AckSucceeds \/ AckFails \/ UNCHANGED vars
  <2>1. conn' = conn /\ live' = live /\ runner' = runner
    BY <1>4 DEF Admit, CatchUp, Prune, AckSucceeds, AckFails, vars, buffer
  <2>. QED  BY <2>1, HoldSame DEF Taken
<1>. QED  BY <1>1, <1>2, <1>3, <1>4, HoldTakeJob, HoldLoop, HoldWindow, HoldCommit, HoldReadPage
          DEF Next, Reading, Running, Windows, Commits

-----------------------------------------------------------------------------
(* The first backfill beside live dispatch *)

\* What is before a position was handled, is buffered, or was pruned behind a buffered sample.
UnionTo(P, C, z, b) ==
    \A r \in Nat : z <= r /\ r < b => r \in C \/ r \in P \/ \E p \in P : p < r

UnionOK(c, C, z, v) ==
    LET j == c.jobs["initial"] IN
    j.made /\ j.end # 0 =>
        /\ j.done => UnionTo(c.points, C, z, j.end)
        /\ ~j.done /\ j.windows > 0 /\ j.hash = v => UnionTo(c.points, C, z, j.pos)

UnionInv ==
    historian => /\ UnionOK(conn, covered, Since, code) /\ UnionOK(disk, covered, Since, code)
                 /\ rpc \in InJob /\ job = "initial" /\ ~Holding(job) => UnionTo(conn.points, covered, Since, Reach)

LEMMA UnionMono ==
    ASSUME NEW P, NEW Q, NEW C, NEW D, NEW z \in Nat, NEW y \in Nat, NEW b \in Nat, NEW e \in Nat,
           UnionTo(P, C, z, b), P \subseteq Q, C \subseteq D, z <= y, e <= b
    PROVE  UnionTo(Q, D, y, e)
BY DEF UnionTo

\* The row is as it was, or begins again.
LEMMA UnionRow ==
    ASSUME NEW c \in Store, NEW d \in Store, NEW C, NEW D, NEW z \in Nat, NEW y \in Nat, NEW v, NEW w,
           UnionOK(c, C, z, v), c.points \subseteq d.points, C \subseteq D, z <= y,
           LET i == c.jobs["initial"]
               j == d.jobs["initial"] IN
           \/ j = i /\ (v = w \/ i.hash # w)
           \/ ~j.done /\ (j.windows = 0 \/ j.hash # w)
           \/ j.end = 0
    PROVE  UnionOK(d, D, y, w)
<1>1. c.jobs["initial"].end \in Nat /\ c.jobs["initial"].pos \in Nat
  BY StoreParts DEF Names
<1>2. CASE d.jobs["initial"] = c.jobs["initial"] /\ (v = w \/ c.jobs["initial"].hash # w)
  <2>1. \A b \in Nat : UnionTo(c.points, C, z, b) => UnionTo(d.points, D, y, b)
    BY UnionMono
  <2>. QED  BY <1>1, <1>2, <2>1 DEF UnionOK
<1>3. CASE ~d.jobs["initial"].done /\ (d.jobs["initial"].windows = 0 \/ d.jobs["initial"].hash # w)
  BY <1>3 DEF UnionOK
<1>4. CASE d.jobs["initial"].end = 0
  BY <1>4 DEF UnionOK
<1>. QED  BY <1>2, <1>3, <1>4

LEMMA UnionStores ==
    ASSUME Known, UnionInv, Typed', [Next]_vars, historian, covered \subseteq covered', code' = code,
           conn.points \subseteq conn'.points, disk' = disk \/ disk' = conn',
           LET i == conn.jobs["initial"]
               j == conn'.jobs["initial"] IN
           j = i \/ (~j.done /\ (j.windows = 0 \/ j.hash # code)) \/ j.end = 0
    PROVE  UnionOK(conn', covered', Since', code') /\ UnionOK(disk', covered', Since', code')
<1>1. /\ Since \in Nat /\ Since' \in Nat /\ Since <= Since'
      /\ conn \in Store /\ conn' \in Store /\ disk \in Store
  BY Numbers, SinceGrows DEF Known, Typed
<1>2. UnionOK(conn', covered', Since', code)
  <2>1. UnionOK(conn, covered, Since, code)
    BY DEF UnionInv
  <2>. QED  BY <1>1, <2>1, UnionRow
<1>3. UnionOK(disk, covered', Since', code)
  <2>1. UnionOK(disk, covered, Since, code)
    BY DEF UnionInv
  <2>. QED  BY <1>1, <2>1, UnionRow
<1>. QED  BY <1>2, <1>3

LEMMA UnionStop ==
    ASSUME Known, UnionInv, Typed', Stop
    PROVE  UnionInv'
<1>1. /\ conn' = disk /\ disk' = disk /\ covered' = covered /\ rpc' = "look" /\ historian' = historian
      /\ code' = code \/ (code' = 1 /\ code = 0)
  BY DEF Stop, seen, Known, Typed
<1>2. /\ Since \in Nat /\ Since' \in Nat /\ Since <= Since' /\ disk \in Store
  BY Numbers, SinceGrows DEF Known, Typed, Next
<1>3. code' = code \/ disk.jobs["initial"].hash # code'
  <2>1. disk.jobs["initial"].hash \in 0 .. NoHash
    BY <1>2, StoreParts DEF Names
  <2>2. disk.jobs["initial"].hash <= code
    BY DEF Known, Control, StoresOK, StoreOK, KindsOK
  <2>. QED  BY <1>1, <2>1, <2>2 DEF NoHash
<1>4. historian => UnionOK(disk, covered, Since', code')
  <2>1. historian => UnionOK(disk, covered, Since, code)
    BY DEF UnionInv
  <2>. QED  BY <1>2, <1>3, <2>1, UnionRow
<1>. QED  BY <1>1, <1>4 DEF UnionInv, InJob

LEMMA UnionStart ==
    ASSUME Known, UnionInv, Typed', Start
    PROVE  UnionInv'
<1>1. /\ conn'.points = conn.points /\ disk' = conn' /\ conn'.jobs["initial"] = First /\ covered' = covered
      /\ code' = code /\ historian' = historian /\ rpc' = "look"
  BY StartDoes DEF Start, Known, node, seen
<1>2. PICK i \in JobRow, o \in JobRow : i = First /\ o = conn.jobs["initial"]
  BY FirstIs, StoreParts DEF Known, Typed, Names
<1>3. Declares \in {"hold", "independent", "none"} /\ Declares = Declared[code]
  BY DeclaresIs DEF Known, Typed, Declares
<1>4. i.made \in BOOLEAN /\ i.done \in BOOLEAN /\ o.end \in Nat /\ o.made \in BOOLEAN /\ o.done \in BOOLEAN
  BY DEF JobRow
<1>5. i = o \/ (~i.done /\ (i.windows = 0 \/ i.hash # code))
  <2>1. /\ Declares = "none" => i = o
        /\ Declares # "none" /\ ~o.made => i.windows = 0 /\ ~i.done
        /\ Declares = "independent" /\ o.made /\ ~o.done /\ o.end = 0 => ~i.done /\ i.hash = o.hash
        /\ o.made /\ ~(Declares = "independent" /\ ~o.done /\ o.end = 0) => i = o
    BY <1>2, FirstIs DEF Known
  <2>2. o.made /\ ~o.done /\ o.end = 0 /\ o.hash = code => Declares = "hold"
    BY <1>2, <1>3 DEF Known, Control, StoresOK, StoreOK, DeclaredOK, Pending
  <2>. QED  BY <1>3, <1>4, <2>1, <2>2
<1>6. historian => UnionOK(conn', covered', Since', code') /\ UnionOK(disk', covered', Since', code')
  BY <1>1, <1>2, <1>5, UnionStores DEF Next
<1>. QED  BY <1>1, <1>6 DEF UnionInv, InJob

\* The job reads the historian, and steps over nothing.
LEMMA NoSkip ==
    ASSUME Known, rpc \in InJob, historian, job = "initial"
    PROVE  Skipped = rpos
BY SkippedIs DEF Known, Typed, FromBuffer

LEMMA UnionWork ==
    ASSUME Known, UnionInv, Typed', TakeJob \/ Finish \/ Commits
    PROVE  UnionInv'
<1>1. /\ covered' = covered /\ code' = code /\ historian' = historian /\ live' \in State
  BY DEF TakeJob, Finish, Commits, CommitWindow, HandCommit, node, seen, Typed
<1>0. /\ Since \in Nat /\ Since' \in Nat /\ Since <= Since' /\ rpos \in Nat /\ rend \in Nat /\ rwin \in Nat
      /\ "initial" \in Names /\ job \in Names /\ conn \in Store /\ conn' \in Store /\ disk \in Store /\ [Next]_vars
  BY Numbers, SinceGrows DEF Known, Typed, Names, Next, Running, Commits
<1> SUFFICES ASSUME historian
             PROVE  /\ UnionOK(conn', covered', Since', code') /\ UnionOK(disk', covered', Since', code')
                    /\ rpc' \in InJob /\ job' = "initial" /\ ~Holding(job)' => UnionTo(conn'.points, covered', Since', Reach')
  BY <1>1 DEF UnionInv
<1>u. /\ UnionOK(conn, covered, Since, code) /\ UnionOK(disk, covered, Since, code)
      /\ rpc \in InJob /\ job = "initial" /\ ~Holding(job) => UnionTo(conn.points, covered, Since, Reach)
  BY DEF UnionInv
<1>2. CASE TakeJob
  <2>1. PICK n \in Names :
              /\ Runs(n)
              /\ job' = n /\ rpc' = "loop"
              /\ rpos' = (IF Over(n) THEN conn.jobs[n].start ELSE conn.jobs[n].pos)
              /\ conn'.points = conn.points
              /\ disk' = IF page = 0 /\ Over(n) THEN conn' ELSE disk
              /\ \A m \in Names : m # n => conn'.jobs[m] = conn.jobs[m]
              /\ ~Over(n) => conn' = conn
              /\ Over(n) => /\ conn'.jobs[n].start = conn.jobs[n].start
                            /\ conn'.jobs[n].end = conn.jobs[n].end /\ conn'.jobs[n].windows = 0
                            /\ conn'.jobs[n].done = conn.jobs[n].done
    BY <1>2, TakeJobDoes DEF Known
  <2>2. Since' = Since
    BY <2>1 DEF Since, Names
  <2>3. disk' = disk \/ disk' = conn'
    BY <2>1
  <2>4. conn'.jobs["initial"] = conn.jobs["initial"] \/ (~conn'.jobs["initial"].done /\ conn'.jobs["initial"].windows = 0)
    <3>1. CASE n = "initial" /\ Over(n)
      BY <2>1, <3>1 DEF Runs
    <3>2. CASE ~(n = "initial" /\ Over(n))
      BY <1>0, <2>1, <3>2
    <3>. QED  BY <3>1, <3>2
  <2>5. UnionOK(conn', covered', Since', code') /\ UnionOK(disk', covered', Since', code')
    BY <1>0, <1>1, <2>1, <2>3, <2>4, UnionStores
  <2>6. ASSUME n = "initial", ~Holding(job)'
        PROVE  UnionTo(conn.points, covered, Since, rpos')
    <3>1. ~conn.jobs["initial"].done /\ conn.jobs["initial"].end # 0
      BY <2>1, <2>6 DEF Runs, Holding
    <3>2. conn.jobs["initial"].made
      BY <1>0, <3>1, EmptyIs DEF Known, Typed, Unmade
    <3>3. conn.jobs["initial"].windows \in Nat /\ conn.jobs["initial"].pos \in Nat
      BY <1>0, StoreParts
    <3>4. CASE Over(n) \/ conn.jobs["initial"].windows = 0
      <4>1. rpos' = Since
        BY <1>0, <2>1, <2>6, <3>4 DEF Since, Known, Control, StoresOK, StoreOK, RowsOK, Over
      <4>. QED  BY <1>0, <4>1 DEF UnionTo
    <3>5. CASE ~Over(n) /\ conn.jobs["initial"].windows # 0
      BY <1>u, <2>1, <2>6, <3>1, <3>2, <3>3, <3>5 DEF UnionOK, Over
    <3>. QED  BY <3>4, <3>5
  <2>. QED  BY <1>1, <2>1, <2>2, <2>5, <2>6 DEF Reach
<1>3. CASE Finish
  <2>1. /\ conn'.points = conn.points
        /\ disk' = disk \/ disk' = conn'
        /\ \A m \in Names : m # job => conn'.jobs[m] = conn.jobs[m]
        /\ conn'.jobs[job].end = Row.end /\ conn'.jobs[job].done
    BY <1>3, FinishDoes DEF Known
  <2>2. ~Holding(job) /\ Skipped >= Row.end /\ rpc = "loop" /\ rpc' = "look"
    BY <1>3 DEF Finish, Looping
  <2>3. UnionOK(conn', covered', Since', code')
    <3>1. CASE job = "initial"
      <4>1. Skipped = rpos
        BY <2>2, <3>1, NoSkip DEF InJob
      <4>2. Row.end <= rpos /\ Row.end \in Nat
        BY <1>0, <2>2, <4>1, StoreParts DEF Row
      <4>3. UnionTo(conn.points, covered, Since, rpos)
        BY <1>u, <2>2, <3>1 DEF Reach, InJob
      <4>4. UnionTo(conn.points, covered, Since', Row.end)
        BY <1>0, <4>2, <4>3, UnionMono
      <4>. QED  BY <1>1, <2>1, <3>1, <4>4 DEF UnionOK
    <3>2. CASE job # "initial"
      <4>1. conn'.jobs["initial"] = conn.jobs["initial"]
        BY <1>0, <2>1, <3>2
      <4>. QED  BY <1>0, <1>1, <2>1, <4>1, UnionStores
    <3>. QED  BY <3>1, <3>2
  <2>4. UnionOK(disk, covered', Since', code')
    BY <1>0, <1>1, <1>u, UnionRow
  <2>. QED  BY <2>1, <2>2, <2>3, <2>4 DEF InJob
<1>4. CASE Commits
  <2>1. /\ conn'.points = conn.points
        /\ disk' = IF page = 0 THEN conn' ELSE disk
        /\ \A m \in Names : m # job => conn'.jobs[m] = conn.jobs[m]
        /\ conn'.jobs[job].pos = rend /\ conn'.jobs[job].end = Row.end
        /\ conn'.jobs[job].done = (rpc = "handcommit")
    BY <1>4, CommitDoes DEF Known
  <2>2. /\ rpc \in {"commit", "handcommit"} /\ job' = job /\ (rpc' = "loop" => rpos' = rend) /\ rpc' \in {"loop", "handmark"}
        /\ (rpc = "handcommit" => Holding(job))
    BY <1>4 DEF Commits, CommitWindow, HandCommit, Known, Control, RunOK, PageLocked
  <2>3. Holding(job)' <=> Holding(job)
    BY <2>1, <2>2 DEF Holding, Row
  <2>4. job = "initial" /\ ~Holding(job) => UnionTo(conn.points, covered, Since', rend)
    <3>1. job = "initial" /\ ~Holding(job) => UnionTo(conn.points, covered, Since, rend)
      BY <1>u, <2>2 DEF Reach, InJob
    <3>. QED  BY <1>0, <3>1, UnionMono
  <2>5. UnionOK(conn', covered', Since', code')
    <3>1. CASE job = "initial" /\ ~Holding(job)
      BY <1>1, <2>1, <2>2, <2>4, <3>1 DEF UnionOK
    <3>2. CASE ~(job = "initial" /\ ~Holding(job))
      <4>1. conn'.jobs["initial"] = conn.jobs["initial"] \/ conn'.jobs["initial"].end = 0
        BY <1>0, <2>1, <3>2 DEF Holding, Row
      <4>. QED  BY <1>0, <1>1, <2>1, <4>1, UnionStores
    <3>. QED  BY <3>1, <3>2
  <2>6. UnionOK(disk, covered', Since', code')
    BY <1>0, <1>1, <1>u, UnionRow
  <2>. QED  BY <1>1, <2>1, <2>2, <2>3, <2>4, <2>5, <2>6 DEF Reach, InJob
<1>. QED  BY <1>2, <1>3, <1>4

LEMMA UnionRuns ==
    ASSUME Known, UnionInv, Typed', NextWindow \/ TakePageLock \/ CheckEdge \/ Windows
    PROVE  UnionInv'
<1>1. /\ conn' = conn /\ disk' = disk /\ code' = code /\ historian' = historian /\ job' = job /\ Since' = Since
      /\ (Holding(job)' <=> Holding(job)) /\ rpc \in InJob /\ rpc' \in InJob
  BY WindowDoes DEF NextWindow, TakePageLock, CheckEdge, Windows, WindowSucceeds, HandWindow, RunWindow, Looping, InJob,
     node, buffer, Since, Holding, Known
<1>0. /\ Since \in Nat /\ rpos \in Nat /\ rend \in Nat /\ conn \in Store /\ disk \in Store /\ now \in Nat /\ [Next]_vars
  BY Numbers DEF Known, Typed, Next, Running, Windows
<1> SUFFICES ASSUME historian
             PROVE  /\ UnionOK(conn, covered', Since, code) /\ UnionOK(disk, covered', Since, code)
                    /\ job = "initial" /\ ~Holding(job) => UnionTo(conn.points, covered', Since, Reach')
  BY <1>1 DEF UnionInv
<1>u. /\ UnionOK(conn, covered, Since, code) /\ UnionOK(disk, covered, Since, code)
      /\ job = "initial" /\ ~Holding(job) => UnionTo(conn.points, covered, Since, Reach)
  BY <1>1 DEF UnionInv
<1>2. covered \subseteq covered'
  BY WindowDoes DEF Known, NextWindow, TakePageLock, CheckEdge, Windows, seen
<1>3. UnionOK(conn, covered', Since, code) /\ UnionOK(disk, covered', Since, code)
  BY <1>0, <1>u, <1>2, UnionRow
<1>4. ASSUME job = "initial", ~Holding(job)
      PROVE  UnionTo(conn.points, covered', Since, Reach')
  <2>1. CASE NextWindow \/ TakePageLock \/ CheckEdge
    <3>1. covered' = covered /\ (rpos' = rpos \/ rpos' = Skipped) /\ rpc \notin {"commit", "handcommit"}
          /\ rpc' \notin {"commit", "handcommit"}
      BY <2>1 DEF NextWindow, TakePageLock, CheckEdge, Looping, seen
    <3>2. Reach' = Reach
      BY <1>1, <1>4, <3>1, NoSkip DEF Reach
    <3>. QED  BY <1>4, <1>u, <3>1, <3>2
  <2>2. CASE Windows
    <3>1. /\ covered' = covered \cup Rows(rpos, rend, job) /\ rend' = rend /\ rpos' = rpos
          /\ rpc \in {"window", "handwindow"} /\ rpc' \in {"commit", "handcommit"}
      BY <1>4, <2>2, WindowDoes DEF Windows, WindowSucceeds, HandWindow, RunWindow, Known
    <3>2. rend <= now + 1
      BY <3>1 DEF Known, Control, RunOK, InWindow
    <3>3. UnionTo(conn.points, covered, Since, rpos)
      BY <1>4, <1>u, <3>1 DEF Reach
    <3>4. ASSUME NEW r \in Nat, Since <= r, r < rend
          PROVE  r \in covered' \/ r \in conn.points \/ \E p \in conn.points : p < r
      <4>1. CASE r < rpos
        BY <3>1, <3>3, <3>4, <4>1 DEF UnionTo
      <4>2. CASE rpos <= r
        <5>1. r \in Rows(rpos, rend, job) <=>
              /\ rpos <= r /\ r < rend
              /\ r \in conn.points \/ (historian /\ job # "replay" /\ r <= now /\ \A p \in conn.points : r < p)
          BY <1>0, RowsIs DEF Known
        <5>2. r <= now
          BY <1>0, <3>2, <3>4
        <5>3. conn.points \in SUBSET Nat
          BY Numbers DEF Known
        <5>. QED  BY <1>4, <3>1, <3>4, <4>2, <5>1, <5>2, <5>3
      <4>. QED  BY <1>0, <4>1, <4>2
    <3>. QED  BY <3>1, <3>4 DEF UnionTo, Reach
  <2>. QED  BY <2>1, <2>2
<1>. QED  BY <1>3, <1>4

LEMMA UnionNext ==
    ASSUME Known, UnionInv, Typed', [Next]_vars
    PROVE  UnionInv'
<1>1. CASE Admit \/ WindowFails \/ CatchUp \/ Release \/ Prune \/ AckSucceeds \/ AckFails \/ PassGap \/ SetWatermark
           \/ EndPage \/ ReadPage \/ UNCHANGED vars
  <2>1. /\ conn.points \subseteq conn'.points /\ (disk' = disk \/ disk' = conn')
        /\ conn'.jobs["initial"] = conn.jobs["initial"]
    <3>1. CASE PassGap \/ SetWatermark \/ EndPage \/ ReadPage
      BY <3>1, PassGapDoes, MarkDoes, EndPageDoes, ReadPageDoes DEF Known, Names
    <3>2. CASE Admit \/ WindowFails \/ CatchUp \/ Release \/ Prune \/ AckSucceeds \/ AckFails \/ UNCHANGED vars
      BY <3>2 DEF Admit, WindowFails, CatchUp, Release, Prune, AckSucceeds, AckFails, vars, buffer
    <3>. QED  BY <1>1, <3>1, <3>2
  <2>2. /\ code' = code /\ historian' = historian /\ covered' = covered /\ job' = job /\ rend' = rend /\ rpos' = rpos
        /\ (rpc' = rpc \/ rpc' \notin InJob)
    BY <1>1 DEF Admit, WindowFails, CatchUp, Release, Prune, AckSucceeds, AckFails, PassGap, SetWatermark, EndPage, ReadPage,
       vars, node, runner, seen, InJob
  <2>3. historian => UnionOK(conn', covered', Since', code') /\ UnionOK(disk', covered', Since', code')
    BY <2>1, <2>2, UnionStores
  <2>4. Since' = Since /\ Since \in Nat /\ rend \in Nat /\ rpos \in Nat
    BY <2>1, Numbers DEF Since, Known
  <2>5. job = "initial" => (Holding(job)' <=> Holding(job))
    BY <2>1, <2>2 DEF Holding
  <2>6. UnionTo(conn.points, covered, Since, Reach) => UnionTo(conn'.points, covered, Since, Reach)
    BY <2>1 DEF UnionTo
  <2>7. rpc' = rpc => Reach' = Reach
    BY <2>2 DEF Reach
  <2>. QED  BY <2>2, <2>3, <2>4, <2>5, <2>6, <2>7 DEF UnionInv
<1>. QED  BY <1>1, UnionStop, UnionStart, UnionWork, UnionRuns DEF Next, Reading, Running, Windows, Commits

-----------------------------------------------------------------------------
(* The theorems *)

IInv == Known /\ Taken /\ UnionInv

LEMMA TakenInit == Init => Taken /\ UnionInv
<1> SUFFICES ASSUME Init PROVE Taken /\ UnionInv
  OBVIOUS
<1>1. Typed
  BY TypedInit
<1>2. /\ now \in Nat /\ L \in Nat /\ L >= 1 /\ Since \in Nat /\ conn \in Store
  BY <1>1, Numbers DEF Typed
<1>3. PICK c \in Store : c = Empty
  BY EmptyIs, Zenon
<1>4. /\ conn = c /\ disk = c /\ live = Fresh /\ up = FALSE /\ rpc = "look" /\ code \in 0 .. 1
  BY <1>3 DEF Init
<1>5. /\ c.points = {} /\ c.saved = NoSaved /\ c.mark = NoHash /\ NoSaved.st = <<>> /\ NoSaved.off = 0
      /\ \A n \in Names : c.jobs[n].done /\ ~c.jobs[n].made
  BY <1>3, EmptyIs
<1>6. StateOK(live, conn.points, L, Since, now)
  BY <1>2, <1>4, <1>5, FreshIs
<1>7. c.saved.st = Fresh.st /\ c.saved.off = Fresh.off
  BY <1>5 DEF Fresh
<1>8. StateOK(c.saved, c.points, L, Since, now)
  BY <1>4, <1>6, <1>7 DEF StateOK
<1>9. \A n \in {"initial", "replay"} : ~Pending(c.jobs[n])
  BY <1>5 DEF Pending, Names
<1>10. SavedInv
  BY <1>4, <1>8, <1>9 DEF SavedInv, SavedOK
<1>11. AllInv
  BY <1>4, <1>5 DEF AllInv, NoHash
<1>12. FreshInv /\ HoldInv
  BY <1>4 DEF FreshInv, HoldInv, InJob
<1>13. UnionInv
  BY <1>4, <1>5 DEF UnionInv, UnionOK, InJob, Names
<1>. QED  BY <1>4, <1>6, <1>10, <1>11, <1>12, <1>13 DEF Taken, LiveInv

LEMMA Inductive ==
    ASSUME Proviso
    PROVE  Spec => []IInv
<1>1. Init => IInv
  BY TypedInit, BaseInit, ControlInit, TakenInit DEF IInv, Known
<1>2. IInv /\ [Next]_vars => IInv'
  <2> SUFFICES ASSUME IInv, [Next]_vars PROVE IInv'
    OBVIOUS
  <2>1. Known /\ Taken /\ UnionInv
    BY DEF IInv
  <2>2. Typed' /\ Base' /\ Control'
    BY <2>1, ControlNext DEF Known
  <2>3. SavedInv' /\ LiveInv' /\ AllInv' /\ FreshInv' /\ HoldInv'
    BY <2>1, <2>2, SavedNext, LiveNext, AllNext, FreshNext, HoldNext
  <2>4. UnionInv'
    BY <2>1, <2>2, UnionNext
  <2>. QED  BY <2>2, <2>3, <2>4 DEF IInv, Known, Taken
<1>. QED  BY <1>1, <1>2, PTL DEF Spec

\* The buffer and the runner keep their kinds: the committed buffer is never ahead of
\* the connection's, and with no page open and the runner outside its _commit the two
\* are one (within _commit a page that ended is not committed yet); no page of the ingest is open while the runner has its lock, and
\* only a held producer is handed over.
THEOREM TypeCorrect ==
    ASSUME Proviso
    PROVE  Spec => []TypeOK
<1>1. IInv => TypeOK
  <2> SUFFICES ASSUME IInv PROVE TypeOK
    OBVIOUS
  <2>1. Typed /\ Base /\ Control /\ LiveInv
    BY DEF IInv, Known, Taken
  <2>2. /\ now \in Nat /\ now \in 0 .. MaxTime /\ MaxTime \in Nat
    BY <2>1, BackfillAssumption, Numbers DEF Typed
  <2>3. live.st \in Seq(Samples) /\ live.off \in 0 .. now
    <3>1. live.st \in Seq(Samples) /\ live.off \in Nat
      BY <2>1, Numbers
    <3>2. live.off <= now
      BY <2>1 DEF LiveInv, StateOK
    <3>. QED  BY <2>2, <3>1, <3>2
  <2>4. conn.points \subseteq Samples /\ disk.points \subseteq conn.points
    BY <2>1, StoreParts DEF Typed, Base, PageInv
  <2>5. \A n \in Names : conn.jobs[n].pos \in 0 .. MaxTime + 2 /\ conn.jobs[n].hash \in 0 .. NoHash
    <3>1. \A n \in Names : conn.jobs[n].pos \in Nat /\ conn.jobs[n].hash \in 0 .. NoHash
      BY <2>1, StoreParts DEF Typed
    <3>2. \A n \in Names : conn.jobs[n].pos <= now + 1
      BY <2>1 DEF Control, StoresOK, StoreOK, RowsOK
    <3>. QED  BY <2>2, <3>1, <3>2
  <2>6. page = 0 /\ rpc # "commit" => conn = disk
    BY <2>1 DEF Base, PageInv
  <2>7. PageLocked => page = 0 /\ held /\ Holding(job)
    BY <2>1 DEF Control, RunOK
  <2>. QED  BY <2>1, <2>3, <2>4, <2>5, <2>6, <2>7 DEF TypeOK, Typed
<1>. QED  BY <1>1, Inductive, PTL

\* One instance sees the producer's timeline in order: history before live records,
\* whatever window fails, whatever restart puts an earlier state back, and whatever
\* page of the ingest comes between two windows.
THEOREM OneTimelineCorrect ==
    ASSUME Proviso
    PROVE  Spec => []OneTimeline
<1>1. IInv => OneTimeline
  <2> SUFFICES ASSUME IInv PROVE OneTimeline
    OBVIOUS
  <2>1. Timely(live.st, Since) /\ Timely(conn.saved.st, Since)
    BY DEF IInv, Taken, LiveInv, SavedInv, SavedOK, StateOK
  <2>. QED  BY <2>1 DEF OneTimeline, InTimeOrder, Timely, Since
<1>. QED  BY <1>1, Inductive, PTL

\* While a held first backfill is not done, the producer stays held: the hand-over of
\* no other job releases it.
THEOREM FirstIsHeldCorrect ==
    ASSUME Proviso
    PROVE  Spec => []FirstIsHeld
<1>1. IInv => FirstIsHeld
  <2> SUFFICES ASSUME IInv, up, ~held PROVE ~(Declares = "hold" /\ Pending(conn.jobs["initial"]))
    BY DEF IInv, Known, Typed, FirstIsHeld, Pending
  <2>. QED  BY FreeIs DEF IInv, Waits, Declares
<1>. QED  BY <1>1, Inductive, PTL

\* Whenever live dispatch of the producer is free, its instance has taken in all the
\* buffer holds since the first backfill's start, and all that was acknowledged since
\* then, but for what the stream pruned unread and for what a stop took from a page
\* acknowledged uncommitted: the hand-over leaves no gap, and a restored state is as
\* old as its offset says.
THEOREM NothingMissedCorrect ==
    ASSUME Proviso
    PROVE  Spec => []NothingMissed
<1>1. IInv => NothingMissed
  <2> SUFFICES ASSUME IInv, up, ~held, NEW r \in Samples, r >= Since
               PROVE  /\ r <= cursor => r \in Range(live.st) \cup gapped \cup lost
                      /\ r \in conn.points => r \in Range(live.st)
    BY DEF NothingMissed, Since
  <2>1. Typed /\ Base /\ AllIn(live.st, conn.points, Since)
    BY DEF IInv, Known, Taken, AllInv
  <2>2. r \in conn.points => r \in Range(live.st)
    BY <2>1, Numbers DEF AllIn
  <2>3. r <= cursor => r \in conn.points \cup gapped \cup lost
    BY <2>1, BackfillAssumption DEF Samples, Base, GapInv, Within
  <2>. QED  BY <2>2, <2>3
<1>. QED  BY <1>1, Inductive, PTL

\* A first backfill beside live dispatch and the live triggers leave nothing out
\* between them: what no separate instance handled is buffered, and what is buffered
\* the live instance took in.  Left out are, without a historian, what was pruned
\* unread or lost by a stop after an uncommitted ack, and with one, the same where it
\* lies behind a buffered sample.
THEOREM UnionCoversCorrect ==
    ASSUME Proviso
    PROVE  Spec => []UnionCovers
<1>1. IInv => UnionCovers
  <2> SUFFICES ASSUME IInv, disk.jobs["initial"].done, disk.jobs["initial"].made,
                      disk.jobs["initial"].end # 0, up, ~held,
                      NEW r \in disk.jobs["initial"].start .. Smaller(disk.jobs["initial"].end - 1, cursor)
               PROVE  \/ r \in covered \cup Range(live.st)
                      \/ ~historian /\ (r \in gapped \cup lost \/ r < Earliest)
                      \/ r \in gapped \cup lost /\ conn.points # {} /\ r > Earliest
    BY DEF UnionCovers
  <2>1. Typed /\ Base /\ UnionInv /\ AllInv
    BY DEF IInv, Known, Taken
  <2>2. PICK e \in Nat, z \in Nat : e = disk.jobs["initial"].end /\ z = disk.jobs["initial"].start
    BY <2>1, StoreParts DEF Typed, Names
  <2>3. z = Since /\ cursor \in Nat
    BY <2>1, <2>2 DEF Base, PageInv, SameJobs, Since, Names, Typed
  <2>4. z >= 1
    BY <2>1, <2>2 DEF Typed, Placed, Names
  <2>5. r \in Nat /\ z <= r /\ r < e /\ r <= cursor /\ 1 <= r
    BY <2>2, <2>3, <2>4 DEF Smaller
  <2>6. r \in conn.points \cup gapped \cup lost
    BY <2>1, <2>5 DEF Base, GapInv, Within
  <2>7. disk.points \subseteq conn.points /\ AllIn(live.st, conn.points, Since)
    BY <2>1 DEF Base, PageInv, AllInv
  <2>8. r \in conn.points => r \in Range(live.st)
    BY <2>3, <2>5, <2>7 DEF AllIn
  <2>9. CASE ~historian
    BY <2>6, <2>8, <2>9
  <2>10. CASE historian
    <3>1. UnionTo(disk.points, covered, z, e)
      BY <2>1, <2>2, <2>3, <2>10 DEF UnionInv, UnionOK
    <3>2. r \in covered \/ r \in disk.points \/ \E p \in disk.points : p < r
      BY <2>5, <3>1 DEF UnionTo
    <3>3. ASSUME NEW p \in disk.points, p < r, r \notin conn.points
          PROVE  r \in gapped \cup lost /\ conn.points # {} /\ r > Earliest
      <4>1. conn.points # {} /\ conn.points \in SUBSET Nat /\ p \in conn.points
        BY <2>1, <2>7, Numbers
      <4>2. Earliest <= p /\ Earliest \in Nat
        BY <4>1, LeastIs DEF Earliest
      <4>3. p \in Nat
        BY <4>1
      <4>. QED  BY <2>5, <2>6, <3>3, <4>1, <4>2, <4>3
    <3>. QED  BY <2>7, <2>8, <3>2, <3>3
  <2>11. historian \in BOOLEAN
    BY <2>1 DEF Typed
  <2>. QED  BY <2>9, <2>10, <2>11
<1>. QED  BY <1>1, Inductive, PTL

=============================================================================
