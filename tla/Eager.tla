------------------------------- MODULE Eager -------------------------------
(***************************************************************************)
(* Loops: sequences walked from left to right with an accumulator, and a   *)
(* step repeated while a condition holds, evaluated one step at a time.    *)
(***************************************************************************)
EXTENDS Integers, Sequences

\* op(v), where v is evaluated once however often op uses it.
With(v, op(_)) == CHOOSE r \in {op(w) : w \in {v}} : TRUE

\* op applied to every element of s from left to right, starting with v.
Each(op(_, _), v, s) ==
    LET upTo[i \in 0 .. Len(s)] == IF i = 0 THEN v
                                   ELSE With(upTo[i - 1], LAMBDA a : op(a, s[i]))
    IN upTo[Len(s)]

\* The elements of s that are in S, in their order.
Kept(s, S) == Each(LAMBDA kept, e : IF e \in S THEN Append(kept, e) ELSE kept, <<>>, s)

\* A loop over the states in S: step applied to s as long as more.
While(S, more(_), step(_), s) ==
    LET run[a \in S] == IF more(a) THEN With(step(a), LAMBDA b : IF b \in S THEN run[b] ELSE a) ELSE a
    IN run[s]
=============================================================================
