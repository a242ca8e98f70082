--------------------------- MODULE CommandContract ---------------------------
(***************************************************************************)
(* What the executor promises the senders of commands, without the stream, *)
(* the cursor or the ledger (the module docstrings of                      *)
(* src/chaski/executor.py and src/chaski/command.py): an operation has     *)
(* effect once, a command gets one outcome, an outcome of the handler is   *)
(* reported only when a handler ran, and a refused command never ran.      *)
(***************************************************************************)
CONSTANTS Commands, Tracked, Op, NoOp

VARIABLES
    called,     \* the commands whose handler was called
    reply       \* reply[c]: the result codes c was answered with

vars == <<called, reply>>

Ran     == {"ok", "failed"}                   \* codes that report what a handler did
Refused == {"invalid", "conflict", "expired"} \* codes that say it was not executed
Codes   == Ran \cup Refused \cup {"unknown"}

\* The commands that ask for the same operation as c.
Same(c) == {d \in Commands : d = c \/ (Op[c] # NoOp /\ Op[d] = Op[c])}

Once(c) == c \in Tracked \/ Op[c] # NoOp

TypeOK == called \subseteq Commands /\ reply \in [Tracked -> SUBSET Codes]

Init == called = {} /\ reply = [c \in Tracked |-> {}]

Call(c) ==
    /\ Once(c) => Same(c) \cap called = {}
    /\ c \in Tracked => reply[c] = {}
    /\ called' = called \cup {c}
    /\ UNCHANGED reply

Reply(c, x) ==
    /\ reply[c] \subseteq {x}
    /\ x \in Ran => Same(c) \cap called # {}
    /\ x \in Refused => c \notin called
    /\ reply' = [reply EXCEPT ![c] = {x}]
    /\ UNCHANGED called

Next ==
    \/ \E c \in Commands : Call(c)
    \/ \E c \in Tracked, x \in Codes : Reply(c, x)

Spec == Init /\ [][Next]_vars
=============================================================================
