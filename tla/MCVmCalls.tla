------------------------------ MODULE MCVmCalls ------------------------------
(* Instances of VmCalls.  `other` stands for every value that can neither be *)
(* called nor be finalized: numbers, strings, nil.                           *)
EXTENDS VmCalls

CONSTANTS f, n,    \* a function and a native function
          builder, \* a string builder
          other    \* any other value

OneFunction == {f}
OneNative == {n}

CallValues == {f, n, builder, other}

\* A native is given the string in a string builder.
PlainValues == [v \in CallValues |-> IF v = builder THEN other ELSE v]
=============================================================================
