--------------------------- MODULE OrderedDelivery ---------------------------
(***************************************************************************)
(* What a named cursor promises its consumer (class Stream in              *)
(* src/chaski/door.py; consume in src/chaski/consume.py, and the ingest in *)
(* src/chaski/dataops/ingest.py), without pages, hints, local positions or *)
(* acks on their way: the records it wants are handled in stream order,    *)
(* each at least once, and the cursor passes a record only after it was    *)
(* handled.  A node may be restored to an earlier state.                   *)
(***************************************************************************)
EXTENDS Naturals, Sequences

CONSTANTS
    Records,    \* what may be in the stream
    Wanted      \* the records the cursor's filter lets through

VARIABLES
    log,        \* the stream, by offset
    cursor,     \* the last offset acknowledged
    done        \* the records handled, or recorded as rejected

vars == <<log, cursor, done>>

Init == log = <<>> /\ cursor = 0 /\ done = {}

\* Nothing up to offset n is still to be handled.
Through(n) == \A i \in 1 .. n : log[i] \in Wanted => log[i] \in done

Admit ==
    /\ \E r \in Records : log' = Append(log, r)
    /\ UNCHANGED <<cursor, done>>

Restore ==
    /\ \E n \in 0 .. Len(log) : log' = SubSeq(log, 1, n) /\ cursor' \in 0 .. n
    /\ cursor' <= cursor
    /\ UNCHANGED done

Handle ==
    /\ \E i \in 1 .. Len(log) :
          log[i] \in Wanted /\ Through(i - 1) /\ done' = done \cup {log[i]}
    /\ UNCHANGED <<log, cursor>>

Pass ==
    /\ \E n \in cursor + 1 .. Len(log) : Through(n) /\ cursor' = n
    /\ UNCHANGED <<log, done>>

Next == Admit \/ Restore \/ Handle \/ Pass

Spec == Init /\ [][Next]_vars
=============================================================================
