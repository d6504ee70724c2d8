---------------------------- MODULE AtomicContract ----------------------------
(***************************************************************************)
(* What nested atomic blocks promise, without transactions and savepoints: *)
(* every block that is open has the writes made in it, a block that is     *)
(* left normally hands them to the block around it, one that is left by an *)
(* exception loses them, and the outermost block makes all it has durable  *)
(* in one step, or nothing.  DatabaseWrapper is shown to implement this.   *)
(***************************************************************************)
EXTENDS Sequences, Naturals

CONSTANT Writes

VARIABLES
    stack,          \* the writes of every open block, outermost first
    durable         \* the writes that survive

avars == <<stack, durable>>

AInit ==
    /\ stack = <<>>
    /\ durable = {}

Depth == Len(stack)
Outer == SubSeq(stack, 1, Depth - 1)

Enter ==
    /\ stack' = Append(stack, {})
    /\ UNCHANGED durable

\* A write belongs to the innermost block; outside of blocks it is durable.
Write(w) ==
    IF Depth = 0
    THEN durable' = durable \cup {w} /\ UNCHANGED stack
    ELSE stack' = [stack EXCEPT ![Depth] = @ \cup {w}] /\ UNCHANGED durable

\* An inner block is left normally: its writes are those of the block around it.
Leave ==
    /\ Depth > 1
    /\ stack' = [Outer EXCEPT ![Depth - 1] = @ \cup stack[Depth]]
    /\ UNCHANGED durable

\* A block is left by an exception.
Undo ==
    /\ Depth > 0
    /\ stack' = Outer
    /\ UNCHANGED durable

Finish ==
    /\ Depth = 1
    /\ stack' = <<>>
    /\ durable' = durable \cup stack[1]

ANext ==
    \/ Enter \/ Leave \/ Undo \/ Finish
    \/ \E w \in Writes : Write(w)

ASpec == AInit /\ [][ANext]_avars
==============================================================================
