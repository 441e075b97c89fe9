------------------------------ MODULE MCChannel ------------------------------
(* Instances of Channel: which threads send and which receive.               *)
EXTENDS Channel

CONSTANTS p, c, \* threads
          a, b  \* messages

OneThread == {p}
OtherThread == {c}
BothThreads == {p, c}

TwoMessages == {a, b}
OneMessage == {a}
=============================================================================
