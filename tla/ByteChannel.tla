----------------------------- MODULE ByteChannel -----------------------------
(***************************************************************************)
(* What pipes.h promises of one pipe, and what the keyboard buffer is to   *)
(* its readers: a bounded first-in first-out queue of bytes.  queue holds  *)
(* the bytes that were written and not yet read; delivered is the last     *)
(* byte that a read returned, with a bit that every read flips, so that    *)
(* reading the same byte twice is not a stutter.  open, which others set,  *)
(* says when the queue may not be emptied, so that no byte is lost.        *)
(***************************************************************************)
EXTENDS Naturals, Sequences

CONSTANTS Bytes, CAPACITY

VARIABLES queue, delivered, open

Init == queue = << >> /\ delivered.flip = FALSE

Write == \E byte \in Bytes :
            /\ Len(queue) < CAPACITY
            /\ queue' = Append(queue, byte)
            /\ UNCHANGED delivered

\* The oldest byte goes to one reader.
Read ==
    /\ queue # << >>
    /\ delivered' = [byte |-> Head(queue), flip |-> ~ delivered.flip]
    /\ queue' = Tail(queue)

\* Nothing is lost while the channel stays open: a pipe is emptied when it is
\* created anew or closed, the keyboard buffer by Ctrl+C.
Clear ==
    /\ ~ (open /\ open')
    /\ queue' = << >>
    /\ UNCHANGED delivered

Next == Write \/ Read \/ Clear

Step == [Next]_<< queue, delivered >>

Spec == Init /\ [][Step]_<< queue, delivered >>

=============================================================================
