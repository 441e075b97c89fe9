---------------------------- MODULE BoundedFifo ----------------------------
(***************************************************************************)
(* What a channel of the m4 `thread` module promises: a first-in first-out *)
(* queue that never holds more than Bound messages.  A send appends when   *)
(* there is room and a receive takes the oldest message when there is one; *)
(* both are atomic here.  `taken` is the last message a receive returned.  *)
(***************************************************************************)
EXTENDS Naturals, Sequences

CONSTANTS Message, \* the values that can be sent
          Bound,   \* how many messages the queue holds when it is full
          NoValue  \* no receive has happened yet

VARIABLES queue, taken

fifoVars == <<queue, taken>>

TypeOK == /\ queue \in Seq(Message)
          /\ Len(queue) <= Bound
          /\ taken \in Message \cup {NoValue}

Init == /\ queue = <<>>
        /\ taken = NoValue

Put(m) == /\ Len(queue) < Bound
          /\ queue' = Append(queue, m)
          /\ UNCHANGED taken

Take == /\ queue # <<>>
        /\ taken' = Head(queue)
        /\ queue' = Tail(queue)

Next == (\E m \in Message : Put(m)) \/ Take

Spec == Init /\ [][Next]_fifoVars
=============================================================================
