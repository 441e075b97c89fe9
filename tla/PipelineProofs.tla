---------------------------- MODULE PipelineProofs ----------------------------
(***************************************************************************)
(* What a pass reads of the analyses is right for the function it reads,   *)
(* for every function of the right shape, either option and every number   *)
(* of functions: the theorems at the end.  The passes that compute an      *)
(* analysis are proved right in AnalysesProofs; the others are taken by    *)
(* contract (PassesKeepContract), which the runs check of every pass.      *)
(*                                                                         *)
(* The inductive invariant, Inv, is a table: Known(opt)[n] names the facts *)
(* known of the function before the n-th pass.  That each pass finds there *)
(* what it wants, and that what it leaves covers the next entry, is proved *)
(* by looking at the 45 (or 61) passes one after the other.                *)
(***************************************************************************)
EXTENDS Pipeline, AnalysesProofs

(* Facts *)

\* What is known of f: K names the facts.
Knows(K, f) ==
    /\ GraphIsShaped(f)
    /\ "code" \in K => CodeIsShaped(f)
    /\ "operands" \in K => OperandsAreShaped(f)
    /\ "rpo" \in K => OrderIsRight(f)
    /\ "pred" \in K => PredsAreRight(f)
    /\ "count" \in K => CountsAreRight(f)
    /\ "use" \in K => UsesAreRight(f)
    /\ "dom" \in K => DominatorsAreRight(f)
    /\ "live" \in K => LivenessIsRight(f)

\* What a pass wants to know, what it does not make wrong, and what it finds out.
Wants(pass) ==
    (Requires(pass) \ {"ssa"})
    \cup (IF pass = "filluse" THEN {"code"} ELSE {})
    \cup (IF pass = "filldom" THEN {"rpo", "pred"} ELSE {})
    \cup (IF pass = "filllive" THEN {"operands"} ELSE {})
    \cup (IF pass = "link" THEN {"rpo"} ELSE {})
Keeps(pass) ==
    IF pass = "fillcfg" THEN {"code", "operands"}
    ELSE IF pass = "filluse" THEN {"code", "rpo", "pred", "dom"}
    ELSE IF pass \in {"filldom", "ssacheck"} THEN {"code", "rpo", "pred", "count", "use"}
    ELSE IF pass \in {"fillloop", "fillcost"} THEN {"rpo", "pred", "live"}
    ELSE IF pass \in KeepingGraph \cup {"filllive", "link"} THEN {"rpo", "pred"}
    ELSE {}
Gives(pass) ==
    IF pass = "fillcfg" THEN {"rpo", "pred"}
    ELSE IF pass = "simplcfg" THEN {"code", "rpo", "pred"}
    ELSE IF pass = "filluse" THEN {"count", "use"}
    ELSE IF pass = "filldom" THEN {"dom"}
    ELSE IF pass = "filllive" THEN {"live"}
    ELSE IF pass = "isel" THEN {"operands"}
    ELSE IF pass \notin Analysing \cup OnMachineCode THEN {"code"}
    ELSE {}

\* What is known behind a pass, pass by pass: fillcfg, filluse, filldom, filllive
\* and the order of the blocks that emission uses.
LEMMA CfgKnows ==
    ASSUME NEW f, NEW K, NEW L, Knows(K, f), L \subseteq (K \cap {"code", "operands"}) \cup {"rpo", "pred"}
    PROVE  Knows(L, FillCfg(f))
<1>1. GraphIsShaped(f) BY DEF Knows
<1>2. GraphIsShaped(FillCfg(f)) /\ OrderIsRight(FillCfg(f)) /\ PredsAreRight(FillCfg(f)) BY <1>1, FillCfgIsRight
<1>3. /\ CodeIsShaped(f) => CodeIsShaped(FillCfg(f))
      /\ OperandsAreShaped(f) => OperandsAreShaped(FillCfg(f))
  BY <1>1, FillCfgKeeps
<1> QED BY <1>2, <1>3 DEF Knows

LEMMA UseKnows ==
    ASSUME NEW f, NEW K, NEW L, Knows(K, f), "code" \in K,
           L \subseteq (K \cap {"code", "rpo", "pred", "dom"}) \cup {"count", "use"}
    PROVE  Knows(L, FillUse(f))
<1> DEFINE g == FillUse(f)
<1>1. GraphIsShaped(f) /\ CodeIsShaped(f) BY DEF Knows
<1>2. CountsAreRight(g) /\ UsesAreRight(g) BY <1>1, FillUseIsRight
<1>3. GraphIsShaped(g) /\ CodeIsShaped(g) /\ SameGraph(f, g) /\ g.idom = f.idom /\ g.dom = f.dom BY <1>1, FillUseKeeps
<1> HIDE DEF g
<1>4. /\ OrderIsRight(f) => OrderIsRight(g)
      /\ PredsAreRight(f) => PredsAreRight(g)
      /\ DominatorsAreRight(f) => DominatorsAreRight(g)
  BY <1>1, <1>3, OrderSame, PredsSame, DominatorsSame
<1>5. Knows(L, g) BY <1>2, <1>3, <1>4 DEF Knows
<1> QED BY <1>5 DEF g

LEMMA DomKnows ==
    ASSUME NEW f, NEW K, NEW L, Knows(K, f), "rpo" \in K, "pred" \in K,
           L \subseteq (K \cap {"code", "rpo", "pred", "count", "use"}) \cup {"dom"}
    PROVE  Knows(L, FillDom(f))
<1> DEFINE g == FillDom(f)
<1>1. GraphIsShaped(f) /\ OrderIsRight(f) /\ PredsAreRight(f) BY DEF Knows
<1>2. DominatorsAreRight(g) BY <1>1, FillDomIsRight
<1>3. GraphIsShaped(g) /\ SameGraph(f, g) /\ SameCode(f, g) /\ g.tmp = f.tmp BY <1>1, FillDomKeeps
<1> HIDE DEF g
<1>4. OrderIsRight(g) /\ PredsAreRight(g) BY <1>1, <1>3, OrderSame, PredsSame
<1>5. /\ CountsAreRight(f) => CountsAreRight(g)
      /\ UsesAreRight(f) => UsesAreRight(g)
  BY <1>3, UsesSame
<1>6. CodeIsShaped(f) => CodeIsShaped(g)
  <2>1. CodeIsShaped(f) => \A t \in TmpSet(f) : {"use", "nuse", "ndef"} \subseteq DOMAIN g.tmp[t]
    BY <1>3 DEF CodeIsShaped
  <2> QED BY <2>1, <1>3, CodeSame
<1>7. Knows(L, g) BY <1>2, <1>3, <1>4, <1>5, <1>6 DEF Knows
<1> QED BY <1>7 DEF g

LEMMA LiveKnows ==
    ASSUME NEW f, NEW K, NEW L, Knows(K, f), "rpo" \in K, "operands" \in K,
           L \subseteq (K \cap {"rpo", "pred"}) \cup {"live"}
    PROVE  Knows(L, FillLive(f))
<1> DEFINE g == FillLive(f)
<1>1. GraphIsShaped(f) /\ OrderIsRight(f) /\ OperandsAreShaped(f) BY DEF Knows
<1>2. f.rpo \in Seq(Blocks(f)) /\ Range(f.rpo) = Blocks(f) BY <1>1 DEF OrderIsRight, IsSeq
<1>3. GraphIsShaped(g) /\ SameGraph(f, g) /\ LivenessIsRight(g) BY <1>1, <1>2, FillLiveIsRight
<1> HIDE DEF g
<1>4. OrderIsRight(g) /\ (PredsAreRight(f) => PredsAreRight(g)) BY <1>1, <1>3, OrderSame, PredsSame
<1>5. Knows(L, g) BY <1>3, <1>4 DEF Knows
<1> QED BY <1>5 DEF g

LEMMA LinkKnows ==
    ASSUME NEW f, NEW K, NEW L, Knows(K, f), "rpo" \in K, L \subseteq K \cap {"rpo", "pred"}
    PROVE  Knows(L, [f EXCEPT !.link = f.rpo])
<1> DEFINE g == [f EXCEPT !.link = f.rpo]
<1>1. GraphIsShaped(f) /\ OrderIsRight(f) BY DEF Knows
<1>2. GraphIsShaped(g) /\ OrderIsRight(g) /\ (PredsAreRight(f) => PredsAreRight(g)) BY <1>1, LinkKeeps
<1> HIDE DEF g
<1>3. Knows(L, g) BY <1>2 DEF Knows
<1> QED BY <1>3 DEF g

\* A pass that changes the function, by its contract.
LEMMA TransformKnows ==
    ASSUME NEW f, NEW g, NEW K, NEW L, NEW pass, Knows(K, f), Contract(pass, f, g), pass \notin Analysing,
           pass # "simplcfg", L \subseteq (K \cap Keeps(pass)) \cup Gives(pass)
    PROVE  Knows(L, g)
<1>1. GraphIsShaped(f) /\ GraphIsShaped(g) BY DEF Knows, Contract
<1>2. /\ pass \in KeepingGraph /\ OrderIsRight(f) => OrderIsRight(g)
      /\ pass \in KeepingGraph /\ PredsAreRight(f) => PredsAreRight(g)
  BY <1>1, OrderSame, PredsSame DEF Contract
<1>3. pass = "ssacheck" => /\ CountsAreRight(f) => CountsAreRight(g)
                           /\ UsesAreRight(f) => UsesAreRight(g)
  BY UsesSame DEF Contract
<1>4. pass \in {"fillloop", "fillcost"} /\ LivenessIsRight(f) => LivenessIsRight(g) BY <1>1, LivenessSame DEF Contract
<1>5. pass \notin OnMachineCode => CodeIsShaped(g) BY DEF Contract
<1>6. pass = "isel" => OperandsAreShaped(g) BY DEF Contract
<1>7. \A k \in L : k \in K \cap Keeps(pass) \/ k \in Gives(pass) OBVIOUS
<1>8. "rpo" \in L => OrderIsRight(g)
  BY <1>2, <1>7 DEF Knows, Keeps, Gives, KeepingGraph, Analysing
<1>9. "pred" \in L => PredsAreRight(g)
  BY <1>2, <1>7 DEF Knows, Keeps, Gives, KeepingGraph, Analysing
<1>10. ("count" \in L => CountsAreRight(g)) /\ ("use" \in L => UsesAreRight(g))
  BY <1>3, <1>7 DEF Knows, Keeps, Gives, Analysing
<1>11. "live" \in L => LivenessIsRight(g)
  BY <1>4, <1>7 DEF Knows, Keeps, Gives, Analysing
<1>12. "code" \in L => CodeIsShaped(g)
  BY <1>5, <1>7 DEF Knows, Keeps, Gives, Analysing, OnMachineCode
<1>13. "operands" \in L => OperandsAreShaped(g)
  BY <1>6, <1>7 DEF Knows, Keeps, Gives, Analysing
<1>14. "dom" \notin L BY <1>7 DEF Keeps, Gives, Analysing
<1> QED BY <1>1, <1>8, <1>9, <1>10, <1>11, <1>12, <1>13, <1>14 DEF Knows

\* One pass, whichever.
LEMMA PassKnows ==
    ASSUME NEW f, NEW K, NEW L, NEW pass, Knows(K, f), Wants(pass) \subseteq K,
           L \subseteq (K \cap Keeps(pass)) \cup Gives(pass),
           pass \notin Analysing => Contract(pass, f, Transform(pass, f))
    PROVE  Knows(L, Apply(pass, f))
<1>1. CASE pass = "fillcfg" BY <1>1, CfgKnows DEF Apply, Keeps, Gives
<1>2. CASE pass = "filluse" BY <1>2, UseKnows DEF Apply, Keeps, Gives, Wants
<1>3. CASE pass = "filldom" BY <1>3, DomKnows DEF Apply, Keeps, Gives, Wants
<1>4. CASE pass = "filllive" BY <1>4, LiveKnows DEF Apply, Keeps, Gives, Wants, Requires, KeepingGraph
<1>5. CASE pass = "link" BY <1>5, LinkKnows DEF Apply, Keeps, Gives, Wants, KeepingGraph, Analysing
<1>6. CASE pass = "simplcfg"
  <2> DEFINE g == Transform(pass, f)
  <2>1. Contract(pass, f, g) BY <1>6 DEF Analysing
  <2>2. Knows({"code"}, g) BY <2>1, <1>6 DEF Contract, Knows, OnMachineCode
  <2>3. Knows({"code", "rpo", "pred"}, FillCfg(g)) BY <2>2, CfgKnows
  <2>4. Apply(pass, f) = FillCfg(g) BY <1>6 DEF Apply, With
  <2>5. L \subseteq {"code", "rpo", "pred"} BY <1>6 DEF Keeps, Gives, KeepingGraph
  <2> QED BY <2>3, <2>4, <2>5 DEF Knows
<1>7. CASE pass \notin Analysing /\ pass # "simplcfg"
  <2>1. Apply(pass, f) = Transform(pass, f) BY <1>7 DEF Apply, Analysing, With
  <2> QED BY <2>1, <1>7, TransformKnows
<1> QED BY <1>1, <1>2, <1>3, <1>4, <1>5, <1>6, <1>7 DEF Analysing

-----------------------------------------------------------------------------
(* What is known before each pass of the pipeline *)

Graph == {"rpo", "pred"}
All == Graph \cup {"count", "use"}
FrontKnown == <<{}, {"code"}, Graph \cup {"code"}, All \cup {"code"}, Graph \cup {"code"}, All, Graph \cup {"code"}, All,
                Graph, Graph, Graph \cup {"code"}, Graph, Graph, Graph \cup {"code"}, All, All>>
RoundKnown == <<All, {"code"}, Graph, Graph \cup {"code"}, All, All \cup {"dom"}, Graph \cup {"code"}, All>>
BackKnown == <<All, {"code"}, Graph \cup {"code"}, All, {"count", "use"}, {}, {}, {"code"}, {"code"},
               {"count"}, {"operands"}, Graph \cup {"operands"}, Graph \cup {"live"}, Graph \cup {"live"},
               Graph \cup {"live"}, {"rpo"}, {}, {"rpo"}, {}, Graph, Graph>>
Known(o) == FrontKnown \o RoundKnown \o (IF o = "small" THEN RoundKnown \o RoundKnown ELSE <<>>) \o BackKnown

Follows(pass, K, L) == Wants(pass) \subseteq K /\ L \subseteq (K \cap Keeps(pass)) \cup Gives(pass)
Names == Analysing \cup KeepingGraph \cup OnMachineCode \cup {"abi0", "gvn", "simplcfg", "ifconvert", "abi1", "simpl"}
FactNames == All \cup {"code", "operands", "dom", "live"}
\* Each pass of P finds what it wants in KS, and what it leaves is the next entry;
\* first is known before P, last behind it.
Fits(P, KS, first, last) ==
    /\ KS[1] = first /\ P \in Seq(Names) /\ KS \in Seq(SUBSET FactNames) /\ Len(P) = Len(KS) /\ Len(P) # 0
    /\ \A n \in 1 .. Len(P) : Follows(P[n], KS[n], IF n = Len(P) THEN last ELSE KS[n + 1])

\* The three parts of the pipeline, each pass with its entry of the table.
LEMMA FrontFits == Fits(FrontEnd, FrontKnown, {}, All)
<1>1. FrontEnd \in Seq(Names) /\ Len(FrontEnd) = 16
  <2>1. \A p \in {"abi0", "fillcfg", "filluse", "promote", "ssa", "ssacheck", "fillalias", "loadopt",
                "coalesce", "filldom"} : p \in Names
    BY DEF Names, KeepingGraph, Analysing, OnMachineCode
  <2> HIDE DEF Names
  <2> QED BY <2>1 DEF FrontEnd
<1>2. FrontKnown \in Seq(SUBSET FactNames) /\ Len(FrontKnown) = 16
  <2>1. /\ Graph \subseteq FactNames /\ All \subseteq FactNames
        /\ FactNames = FactNames \cup {"code", "operands", "count", "use", "rpo", "dom", "live"}
    BY DEF FactNames, All, Graph
  <2> HIDE DEF FactNames, Graph, All
  <2> QED BY <2>1 DEF FrontKnown
<1>4. FrontKnown[1] = {} BY DEF FrontKnown
<1>3. ASSUME NEW n \in 1 .. 16 PROVE Follows(FrontEnd[n], FrontKnown[n], IF n = 16 THEN All ELSE FrontKnown[n + 1])
  <2> USE DEF FrontEnd, FrontKnown, Graph, All, Follows, Wants, Requires, Keeps, Gives,
            KeepingGraph, Analysing, OnMachineCode
  <2>1. CASE n = 1 BY <2>1
  <2>2. CASE n = 2 BY <2>2
  <2>3. CASE n = 3 BY <2>3
  <2>4. CASE n = 4 BY <2>4
  <2>5. CASE n = 5 BY <2>5
  <2>6. CASE n = 6 BY <2>6
  <2>7. CASE n = 7 BY <2>7
  <2>8. CASE n = 8 BY <2>8
  <2>9. CASE n = 9 BY <2>9
  <2>10. CASE n = 10 BY <2>10
  <2>11. CASE n = 11 BY <2>11
  <2>12. CASE n = 12 BY <2>12
  <2>13. CASE n = 13 BY <2>13
  <2>14. CASE n = 14 BY <2>14
  <2>15. CASE n = 15 BY <2>15
  <2>16. CASE n = 16 BY <2>16
  <2> HIDE DEF FrontEnd, FrontKnown, Graph, All, Follows, Wants, Requires, Keeps, Gives,
             KeepingGraph, Analysing, OnMachineCode
  <2> QED BY <2>1, <2>2, <2>3, <2>4, <2>5, <2>6, <2>7, <2>8, <2>9, <2>10, <2>11, <2>12, <2>13, <2>14, <2>15, <2>16
<1> QED BY <1>1, <1>2, <1>3, <1>4 DEF Fits

LEMMA RoundFits == Fits(Round, RoundKnown, All, All)
<1>1. Round \in Seq(Names) /\ Len(Round) = 8
  <2>1. \A p \in {"gvn", "fillcfg", "simplcfg", "filluse", "filldom", "gcm", "ssacheck"} : p \in Names
    BY DEF Names, KeepingGraph, Analysing, OnMachineCode
  <2> HIDE DEF Names
  <2> QED BY <2>1 DEF Round
<1>2. RoundKnown \in Seq(SUBSET FactNames) /\ Len(RoundKnown) = 8
  <2>1. /\ Graph \subseteq FactNames /\ All \subseteq FactNames
        /\ FactNames = FactNames \cup {"code", "operands", "count", "use", "rpo", "dom", "live"}
    BY DEF FactNames, All, Graph
  <2> HIDE DEF FactNames, Graph, All
  <2> QED BY <2>1 DEF RoundKnown
<1>4. RoundKnown[1] = All BY DEF RoundKnown
<1>3. ASSUME NEW n \in 1 .. 8 PROVE Follows(Round[n], RoundKnown[n], IF n = 8 THEN All ELSE RoundKnown[n + 1])
  <2> USE DEF Round, RoundKnown, Graph, All, Follows, Wants, Requires, Keeps, Gives,
            KeepingGraph, Analysing, OnMachineCode
  <2>1. CASE n = 1 BY <2>1
  <2>2. CASE n = 2 BY <2>2
  <2>3. CASE n = 3 BY <2>3
  <2>4. CASE n = 4 BY <2>4
  <2>5. CASE n = 5 BY <2>5
  <2>6. CASE n = 6 BY <2>6
  <2>7. CASE n = 7 BY <2>7
  <2>8. CASE n = 8 BY <2>8
  <2> HIDE DEF Round, RoundKnown, Graph, All, Follows, Wants, Requires, Keeps, Gives,
             KeepingGraph, Analysing, OnMachineCode
  <2> QED BY <2>1, <2>2, <2>3, <2>4, <2>5, <2>6, <2>7, <2>8
<1> QED BY <1>1, <1>2, <1>3, <1>4 DEF Fits

LEMMA BackFits == Fits(BackEnd, BackKnown, All, {})
<1>1. BackEnd \in Seq(Names) /\ Len(BackEnd) = 21
  <2>1. \A p \in {"ifconvert", "fillcfg", "filluse", "filldom", "ssacheck", "abi1", "simpl", "isel",
                "filllive", "fillloop", "fillcost", "spill", "rega", "simpljmp", "link", "emit"} : p \in Names
    BY DEF Names, KeepingGraph, Analysing, OnMachineCode
  <2> HIDE DEF Names
  <2> QED BY <2>1 DEF BackEnd
<1>2. BackKnown \in Seq(SUBSET FactNames) /\ Len(BackKnown) = 21
  <2>1. /\ Graph \subseteq FactNames /\ All \subseteq FactNames
        /\ FactNames = FactNames \cup {"code", "operands", "count", "use", "rpo", "dom", "live"}
    BY DEF FactNames, All, Graph
  <2> HIDE DEF FactNames, Graph, All
  <2> QED BY <2>1 DEF BackKnown
<1>4. BackKnown[1] = All BY DEF BackKnown
<1>3. ASSUME NEW n \in 1 .. 21 PROVE Follows(BackEnd[n], BackKnown[n], IF n = 21 THEN {} ELSE BackKnown[n + 1])
  <2> USE DEF BackEnd, BackKnown, Graph, All, Follows, Wants, Requires, Keeps, Gives,
            KeepingGraph, Analysing, OnMachineCode
  <2>1. CASE n = 1 BY <2>1
  <2>2. CASE n = 2 BY <2>2
  <2>3. CASE n = 3 BY <2>3
  <2>4. CASE n = 4 BY <2>4
  <2>5. CASE n = 5 BY <2>5
  <2>6. CASE n = 6 BY <2>6
  <2>7. CASE n = 7 BY <2>7
  <2>8. CASE n = 8 BY <2>8
  <2>9. CASE n = 9 BY <2>9
  <2>10. CASE n = 10 BY <2>10
  <2>11. CASE n = 11 BY <2>11
  <2>12. CASE n = 12 BY <2>12
  <2>13. CASE n = 13 BY <2>13
  <2>14. CASE n = 14 BY <2>14
  <2>15. CASE n = 15 BY <2>15
  <2>16. CASE n = 16 BY <2>16
  <2>17. CASE n = 17 BY <2>17
  <2>18. CASE n = 18 BY <2>18
  <2>19. CASE n = 19 BY <2>19
  <2>20. CASE n = 20 BY <2>20
  <2>21. CASE n = 21 BY <2>21
  <2> HIDE DEF BackEnd, BackKnown, Graph, All, Follows, Wants, Requires, Keeps, Gives,
             KeepingGraph, Analysing, OnMachineCode
  <2> QED BY <2>1, <2>2, <2>3, <2>4, <2>5, <2>6, <2>7, <2>8, <2>9, <2>10, <2>11, <2>12,
              <2>13, <2>14, <2>15, <2>16, <2>17, <2>18, <2>19, <2>20, <2>21
<1> QED BY <1>1, <1>2, <1>3, <1>4 DEF Fits

\* Two facts about sequences.
LEMMA ConcatIs ==
    ASSUME NEW S, NEW s \in Seq(S), NEW t \in Seq(S)
    PROVE  /\ s \o t \in Seq(S) /\ Len(s \o t) = Len(s) + Len(t)
           /\ \A n \in 1 .. Len(s) : (s \o t)[n] = s[n]
           /\ \A n \in 1 .. Len(t) : (s \o t)[Len(s) + n] = t[n]
OBVIOUS

LEMMA RestIs ==
    ASSUME NEW S, NEW s \in Seq(S), NEW n \in Nat, n < Len(s), NEW t, t = SubSeq(s, n + 1, Len(s))
    PROVE  t # <<>> /\ Head(t) = s[n + 1] /\ Tail(t) = SubSeq(s, n + 2, Len(s))
<1> DEFINE m == Len(s)
<1>1. m \in Nat /\ n + 1 \in 1 .. m /\ m - n # 0 OBVIOUS
<1>2. t \in Seq(S) /\ Len(t) = m - n /\ \A i \in 1 .. m - n : t[i] = s[n + i] BY <1>1
<1>3. t # <<>> /\ Head(t) = s[n + 1]
  <2>0. 1 \in 1 .. m - n BY <1>1
  <2>3. Len(t) # 0
    <3>1. Len(t) = m - n /\ m - n # 0 BY <1>1, <1>2
    <3> QED BY <3>1, Zenon
  <2>4. Len(<<>>) = 0 OBVIOUS
  <2>1. t # <<>> BY <2>3, <2>4, Zenon
  <2>2. t[1] = s[n + 1] BY <1>2, <2>0
  <2> QED BY <2>1, <2>2, <1>2
<1> DEFINE u == SubSeq(s, n + 2, m)
<1>4. u \in Seq(S) /\ Len(u) = m - n - 1 /\ \A i \in 1 .. m - n - 1 : u[i] = s[n + 1 + i] BY <1>1
<1> HIDE DEF u, m
<1>5. Tail(t) \in Seq(S) /\ Len(Tail(t)) = m - n - 1 /\ \A i \in 1 .. m - n - 1 : Tail(t)[i] = s[n + 1 + i]
  <2>1. Tail(t) \in Seq(S) /\ Len(Tail(t)) = m - n - 1 BY <1>1, <1>2, <1>3
  <2>2. ASSUME NEW i \in 1 .. m - n - 1 PROVE Tail(t)[i] = s[n + 1 + i]
    <3>1. i + 1 \in 1 .. m - n /\ n + (i + 1) = n + 1 + i BY <1>1
    <3>2. Tail(t)[i] = t[i + 1] BY <1>1, <1>2, <1>3, <3>1
    <3> QED BY <3>1, <3>2, <1>2
  <2> QED BY <2>1, <2>2
<1>6. Tail(t) = u
  <2> DEFINE v == Tail(t)
  <2>1. v \in Seq(S) /\ u \in Seq(S) /\ Len(u) = Len(v) /\ \A i \in 1 .. Len(u) : u[i] = v[i] BY <1>1, <1>4, <1>5
  <2> HIDE DEF v
  <2>2. v = u BY <2>1
  <2> QED BY <2>2 DEF v
<1> QED BY <1>3, <1>6 DEF u, m

\* Parts whose facts agree where they meet fit together.
LEMMA Joined ==
    ASSUME NEW P, NEW KS, NEW first, NEW last, NEW Q, NEW LS, NEW end, Fits(P, KS, first, last), Fits(Q, LS, last, end)
    PROVE  Fits(P \o Q, KS \o LS, first, end)
<1> DEFINE m == Len(P)
           k == Len(Q)
           R1 == P \o Q
           R2 == KS \o LS
<1>1. /\ P \in Seq(Names) /\ Q \in Seq(Names) /\ KS \in Seq(SUBSET FactNames) /\ LS \in Seq(SUBSET FactNames)
      /\ Len(KS) = m /\ Len(LS) = k /\ m \in Nat /\ k \in Nat /\ m # 0 /\ k # 0
  BY DEF Fits
<1>2. R1 \in Seq(Names) /\ R2 \in Seq(SUBSET FactNames) /\ Len(R1) = m + k /\ Len(R2) = m + k
  <2>1. R1 \in Seq(Names) /\ Len(R1) = m + k BY <1>1, ConcatIs
  <2>2. R2 \in Seq(SUBSET FactNames) /\ Len(R2) = Len(KS) + Len(LS) BY <1>1, ConcatIs
  <2> QED BY <2>1, <2>2, <1>1
<1>3. /\ \A n \in 1 .. m : R1[n] = P[n] /\ R2[n] = KS[n]
      /\ \A n \in 1 .. k : R1[m + n] = Q[n] /\ R2[m + n] = LS[n]
  BY <1>1, ConcatIs
<1>4. /\ \A n \in 1 .. m : Follows(P[n], KS[n], IF n = m THEN last ELSE KS[n + 1])
      /\ \A n \in 1 .. k : Follows(Q[n], LS[n], IF n = k THEN end ELSE LS[n + 1])
  BY <1>1 DEF Fits
<1> HIDE DEF m, k, R1, R2
<1>5. ASSUME NEW n \in 1 .. m + k PROVE Follows(R1[n], R2[n], IF n = m + k THEN end ELSE R2[n + 1])
  <2>1. CASE n < m
    <3>1. n \in 1 .. m /\ n + 1 \in 1 .. m /\ n # m + k BY <2>1, <1>1
    <3> QED BY <3>1, <2>1, <1>3, <1>4
  <2>2. CASE n = m
    <3>1. n \in 1 .. m /\ 1 \in 1 .. k /\ n # m + k BY <2>2, <1>1
    <3>2. R1[n] = P[n] /\ R2[n] = KS[n] /\ R2[n + 1] = LS[1] /\ LS[1] = last BY <3>1, <2>2, <1>3 DEF Fits
    <3>3. Follows(P[n], KS[n], last) BY <3>1, <2>2, <1>4
    <3> QED BY <3>1, <3>2, <3>3
  <2>3. CASE n > m
    <3> DEFINE i == n - m
    <3>1. i \in 1 .. k /\ n = m + i /\ (i # k => i + 1 \in 1 .. k /\ n + 1 = m + (i + 1)) /\ (i = k <=> n = m + k)
      BY <2>3, <1>1
    <3> HIDE DEF i
    <3>2. R1[n] = Q[i] /\ R2[n] = LS[i] /\ (i # k => R2[n + 1] = LS[i + 1]) BY <3>1, <1>3
    <3>3. Follows(Q[i], LS[i], IF i = k THEN end ELSE LS[i + 1]) BY <3>1, <1>4
    <3> QED BY <3>1, <3>2, <3>3
  <2> QED BY <2>1, <2>2, <2>3, <1>1
<1>6. R2[1] = first
  <2>0. KS[1] = first /\ LS[1] = last BY DEF Fits
  <2>1. 1 \in 1 .. m BY <1>1
  <2> QED BY <2>0, <2>1, <1>3
<1> QED BY <1>1, <1>2, <1>5, <1>6 DEF Fits, R1, R2

\* The whole pipeline fits its table, whatever the option.
LEMMA PassesFit ==
    ASSUME NEW o
    PROVE  Fits(Passes(o), Known(o), {}, {})
<1>1. Fits(FrontEnd, FrontKnown, {}, All) /\ Fits(Round, RoundKnown, All, All) /\ Fits(BackEnd, BackKnown, All, {})
  BY FrontFits, RoundFits, BackFits
<1> HIDE DEF All
<1>2. Fits(FrontEnd \o Round, FrontKnown \o RoundKnown, {}, All) BY <1>1, Joined
<1>3. Fits((FrontEnd \o Round) \o BackEnd, (FrontKnown \o RoundKnown) \o BackKnown, {}, {}) BY <1>1, <1>2, Joined
<1>4. Fits(Round \o Round, RoundKnown \o RoundKnown, All, All) BY <1>1, Joined
<1>5. Fits((FrontEnd \o Round) \o (Round \o Round), (FrontKnown \o RoundKnown) \o (RoundKnown \o RoundKnown), {}, All)
  BY <1>2, <1>4, Joined
<1>6. Fits((FrontEnd \o Round) \o (Round \o Round) \o BackEnd,
           (FrontKnown \o RoundKnown) \o (RoundKnown \o RoundKnown) \o BackKnown, {}, {})
  BY <1>1, <1>5, Joined
<1>7. CASE o = "small" BY <1>6, <1>7 DEF Passes, Known
<1>8. CASE o # "small"
  <2>1. /\ FrontEnd \in Seq(Names) /\ Round \in Seq(Names)
        /\ FrontKnown \in Seq(SUBSET FactNames) /\ RoundKnown \in Seq(SUBSET FactNames) BY <1>1 DEF Fits
  <2>2. (FrontEnd \o Round) \o <<>> = FrontEnd \o Round /\ (FrontKnown \o RoundKnown) \o <<>> = FrontKnown \o RoundKnown
    BY <2>1
  <2> QED BY <1>3, <1>8, <2>2 DEF Passes, Known
<1> QED BY <1>7, <1>8

-----------------------------------------------------------------------------
(* The pipeline *)

\* n passes are done, and what the table says is known of the function is true.
InPlace(n) ==
    /\ n \in 0 .. Len(Passes(opt)) /\ todo = SubSeq(Passes(opt), n + 1, Len(Passes(opt)))
    /\ n < Len(Passes(opt)) => Knows(Known(opt)[n + 1], fn)
Inv == \E n \in Nat : InPlace(n)

\* What is left to do, by the number of passes done.
LEMMA TodoIs ==
    ASSUME NEW n, InPlace(n)
    PROVE  /\ todo # <<>> <=> n < Len(Passes(opt))
           /\ n < Len(Passes(opt)) => /\ Head(todo) = Passes(opt)[n + 1]
                                      /\ Tail(todo) = SubSeq(Passes(opt), n + 2, Len(Passes(opt)))
<1> DEFINE P == Passes(opt)
           m == Len(P)
<1>1. P \in Seq(Names) /\ m \in Nat BY PassesFit DEF Fits
<1>2. n \in 0 .. m /\ todo = SubSeq(P, n + 1, m) BY DEF InPlace
<1> HIDE DEF P, m
<1>3. CASE n < m
  <2>1. n \in Nat /\ m = Len(P) BY <1>1, <1>2 DEF m
  <2>2. todo # <<>> /\ Head(todo) = P[n + 1] /\ Tail(todo) = SubSeq(P, n + 2, m) BY <1>1, <1>2, <1>3, <2>1, RestIs
  <2> QED BY <2>2, <1>3 DEF P, m
<1>4. CASE ~ (n < m)
  <2>1. n = m BY <1>1, <1>2, <1>4
  <2>2. todo = <<>> BY <1>1, <1>2, <2>1
  <2> QED BY <2>2, <1>4 DEF P, m
<1> QED BY <1>3, <1>4

\* Inv holds at first and every step keeps it, if the pass of the step keeps its contract.
LEMMA InitInv == Init => Inv
<1> SUFFICES ASSUME Init PROVE Inv OBVIOUS
<1> DEFINE P == Passes(opt)
<1>1. Fits(P, Known(opt), {}, {}) /\ P \in Seq(Names) /\ Len(P) \in Nat /\ Len(P) # 0 BY PassesFit DEF Fits
<1>2. todo = P /\ GraphIsShaped(fn) BY FunctionsAreShaped DEF Init
<1>3. todo = SubSeq(P, 0 + 1, Len(P)) BY <1>1, <1>2
<1>4. Known(opt)[0 + 1] = {} BY <1>1 DEF Fits
<1>5. Knows({}, fn) BY <1>2 DEF Knows
<1> HIDE DEF P
<1>6. InPlace(0) BY <1>1, <1>3, <1>4, <1>5 DEF InPlace, P
<1> QED BY <1>6 DEF Inv

LEMMA NextInv == Inv /\ PassesKeepContract /\ [Next]_vars => Inv'
<1> SUFFICES ASSUME Inv, PassesKeepContract, [Next]_vars PROVE Inv' OBVIOUS
<1> DEFINE P == Passes(opt)
           KS == Known(opt)
<1>1. Fits(P, KS, {}, {}) /\ P \in Seq(Names) /\ Len(P) \in Nat BY PassesFit DEF Fits
<1>2. PICK n \in Nat : InPlace(n) BY DEF Inv
<1>3. CASE Pass
  <2>1. n < Len(P) /\ Head(todo) = P[n + 1] /\ Tail(todo) = SubSeq(P, n + 2, Len(P)) /\ n + 1 \in 1 .. Len(P)
    <3>1. todo # <<>> BY <1>3 DEF Pass
    <3>2. n < Len(P) /\ Head(todo) = P[n + 1] /\ Tail(todo) = SubSeq(P, n + 2, Len(P)) BY <1>2, <3>1, TodoIs
    <3> HIDE DEF P
    <3> QED BY <1>1, <3>2
  <2> DEFINE pass == P[n + 1]
             K == KS[n + 1]
             L == IF n + 1 = Len(P) THEN {} ELSE KS[n + 2]
  <2>2. Knows(K, fn) BY <1>2, <2>1 DEF InPlace
  <2>3. Wants(pass) \subseteq K /\ L \subseteq (K \cap Keeps(pass)) \cup Gives(pass)
    <3>1. n + 1 + 1 = n + 2 BY <2>1
    <3>2. Follows(P[n + 1], KS[n + 1], IF n + 1 = Len(P) THEN {} ELSE KS[n + 1 + 1]) BY <1>1, <2>1 DEF Fits
    <3> QED BY <3>1, <3>2 DEF Follows
  <2>4. pass \notin Analysing => Contract(pass, fn, Transform(pass, fn))
    BY <1>3, <2>1 DEF Pass, PassesKeepContract, With
  <2>5. fn' = Apply(pass, fn) /\ todo' = SubSeq(P, n + 2, Len(P)) /\ opt' = opt BY <1>3, <2>1 DEF Pass
  <2> HIDE DEF pass, K, L
  <2>6. Knows(L, Apply(pass, fn)) BY <2>2, <2>3, <2>4, PassKnows
  <2>7. Passes(opt') = P /\ Known(opt') = KS BY <2>5
  <2> HIDE DEF P, KS
  <2>8. n + 1 \in 0 .. Len(P) /\ n + 1 + 1 = n + 2 BY <2>1
  <2>9. n + 1 < Len(P) => Knows(KS[n + 2], fn') BY <2>5, <2>6 DEF L
  <2>10. InPlace(n + 1)' BY <2>5, <2>7, <2>8, <2>9 DEF InPlace
  <2> QED BY <2>10 DEF Inv
<1>4. CASE UNCHANGED vars BY <1>4 DEF vars, Inv, InPlace
<1> QED BY <1>3, <1>4 DEF Next, Done

\* What the next pass reads is among what is known.
LEMMA InvCurrent == Inv => GraphIsCurrent /\ UsesAreCurrent /\ LivenessIsCurrent /\ DominatorsAreCurrent
<1> SUFFICES ASSUME Inv PROVE GraphIsCurrent /\ UsesAreCurrent /\ LivenessIsCurrent /\ DominatorsAreCurrent OBVIOUS
<1> DEFINE P == Passes(opt)
           KS == Known(opt)
<1>1. Fits(P, KS, {}, {}) /\ P \in Seq(Names) /\ Len(P) \in Nat BY PassesFit DEF Fits
<1>2. PICK n \in Nat : InPlace(n) BY DEF Inv
<1>3. ASSUME NEW fact, fact # "ssa", Needed(fact)
      PROVE  \E K : fact \in K /\ Knows(K, fn)
  <2>1. n < Len(P) /\ Head(todo) = P[n + 1] /\ n + 1 \in 1 .. Len(P) BY <1>1, <1>2, <1>3, TodoIs DEF Needed
  <2>2. Knows(KS[n + 1], fn) BY <1>2, <2>1 DEF InPlace
  <2>3. Wants(P[n + 1]) \subseteq KS[n + 1] BY <1>1, <2>1 DEF Fits, Follows
  <2>4. fact \in Wants(P[n + 1]) BY <1>3, <2>1 DEF Needed, Wants
  <2> QED BY <2>2, <2>3, <2>4
<1>4. Needed("rpo") => OrderIsRight(fn) BY <1>3 DEF Knows
<1>5. Needed("pred") => PredsAreRight(fn) BY <1>3 DEF Knows
<1>6. Needed("count") => CountsAreRight(fn) BY <1>3 DEF Knows
<1>7. Needed("use") => UsesAreRight(fn) BY <1>3 DEF Knows
<1>8. Needed("live") => LivenessIsRight(fn) BY <1>3 DEF Knows
<1>9. Needed("dom") => DominatorsAreRight(fn) BY <1>3 DEF Knows
<1> QED BY <1>4, <1>5, <1>6, <1>7, <1>8, <1>9
    DEF GraphIsCurrent, UsesAreCurrent, LivenessIsCurrent, DominatorsAreCurrent

\* The four properties together.
LEMMA AllAreCurrent ==
    Spec /\ []PassesKeepContract => [](GraphIsCurrent /\ UsesAreCurrent /\ LivenessIsCurrent /\ DominatorsAreCurrent)
BY InitInv, NextInv, InvCurrent, PTL DEF Spec

\* The reverse postorder and the predecessors a pass reads are those of the flow
\* graph of that moment: no pass of qbe_wrap.c runs between a change of the graph
\* and the fillcfg that repairs them.
THEOREM TheGraphIsCurrent == Spec /\ []PassesKeepContract => []GraphIsCurrent
BY AllAreCurrent, PTL

\* The uses of the temporaries a pass reads are exactly the places that read them,
\* and the counts are right: filluse runs again before every reader of fn->tmp[].use
\* that comes behind a change of the code.
THEOREM TheUsesAreCurrent == Spec /\ []PassesKeepContract => []UsesAreCurrent
BY AllAreCurrent, PTL

\* The live sets spilling reads are the least ones that satisfy the equations of
\* the code of that moment: nothing between filllive and spill changes the code.
THEOREM TheLivenessIsCurrent == Spec /\ []PassesKeepContract => []LivenessIsCurrent
BY AllAreCurrent, PTL

\* The immediate dominators a pass reads are those of the graph of that moment,
\* the nearest strict dominators by paths from the start.
THEOREM TheDominatorsAreCurrent == Spec /\ []PassesKeepContract => []DominatorsAreCurrent
BY AllAreCurrent, PTL
===============================================================================
