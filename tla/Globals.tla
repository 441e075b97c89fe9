------------------------------ MODULE Globals ------------------------------
(***************************************************************************)
(* What the machine promises about global variables: a load yields the     *)
(* value stored last, or stops the program with error r001 when nothing    *)
(* was ever stored.  `seen` is the outcome of the last load.               *)
(***************************************************************************)
CONSTANTS Name, Value, Absent, Undefined

VARIABLES store, seen

globalsVars == <<store, seen>>

TypeOK == /\ store \in [Name -> Value \cup {Absent}]
          /\ seen \in Value \cup {Absent, Undefined}

Init == /\ store = [n \in Name |-> Absent]
        /\ seen = Absent

Load(n) == /\ seen' = IF store[n] = Absent THEN Undefined ELSE store[n]
           /\ UNCHANGED store

Store(n, v) == /\ store' = [store EXCEPT ![n] = v]
               /\ UNCHANGED seen

Next == \E n \in Name : Load(n) \/ \E v \in Value : Store(n, v)

Spec == Init /\ [][Next]_globalsVars
=============================================================================
