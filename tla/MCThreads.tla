------------------------------ MODULE MCThreads ------------------------------
(* Instances of Threads: the workers, the kinds of values, what may fail.    *)
(* A plain value is a heap value that needs no memory; the runs about memory *)
(* leave it out.                                                             *)
EXTENDS Threads

CONSTANTS w1, w2

OneWorker == {w1}
TwoWorkers == {w1, w2}

PlainOnly == {"plain"}
HeapOnly == {"heap"}
MemoryKinds == {"heap", "opaque"}

NoFailures == {}
AllFailures == {"memory", "thread", "function"}
=============================================================================
