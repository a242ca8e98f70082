-------------------------- MODULE CommandExecutorMC --------------------------
(* Values for the constants of CommandExecutor that a .cfg cannot write. *)
EXTENDS CommandExecutor, TLC

CONSTANTS a, b, x, o, mA

\* Two sends of one operation, and a command without ids and with a bad envelope.
Repeats == {a, b}
Odd == {x}
RepeatsOrOdd == {a, b, x}
RepeatsOp == [c \in {a, b, x} |-> IF c = x THEN NoOp ELSE o]
RepeatsMaterial == [c \in {a, b, x} |-> mA]
Swaps == Permutations({a, b})

\* One command, with a deadline, announced by a progress ack.
Single == {a}
SingleOp == [c \in {a} |-> NoOp]
SingleMaterial == [c \in {a} |-> mA]
=============================================================================
