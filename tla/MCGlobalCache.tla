---------------------------- MODULE MCGlobalCache ----------------------------
(* Instances of GlobalCache: programs as sets of loading sites.               *)
EXTENDS GlobalCache, TLC

CONSTANTS f, x, y,               \* names: a function and two variables
          f1, f2, f3, x1, y1, x2 \* sites

Names == {f, x, y}

\* f is called at three places, each variable is read at one.
ManyCallsSites == {f1, f2, f3, x1, y1}
\* The condition and the body of a loop both read x.
TwoReadersSites == {x1, x2}

SiteName == [s \in {f1, f2, f3, x1, y1, x2} |->
               IF s \in {f1, f2, f3} THEN f ELSE IF s = y1 THEN y ELSE x]
ManyCallsNameOf == [s \in ManyCallsSites |-> SiteName[s]]
TwoReadersNameOf == [s \in TwoReadersSites |-> SiteName[s]]

Variables == {x, y}

\* The instance is one the cache is correct for.
ASSUME Site = ManyCallsSites => OneReaderPerReassigned
=============================================================================
