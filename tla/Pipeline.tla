------------------------------- MODULE Pipeline -------------------------------
(***************************************************************************)
(* The compilation of one function by the vendored QBE as m4c runs it      *)
(* (wrap_func in src/src/runtime/qbe_wrap.c): its passes in order, from    *)
(* the intermediate language to amd64 instructions.  A step is one pass.   *)
(***************************************************************************)
EXTENDS Facts

CONSTANTS
    Functions,          \* the functions to compile, by name
    Transform(_, _)     \* what a pass makes of a function (Passes)

\* What the parser makes of a file, as it stands before the first pass.
ASSUME FunctionsAreShaped == \A i \in DOMAIN Functions : GraphIsShaped(Functions[i])

VARIABLES
    name,           \* which function
    opt,            \* "fast" or "small" (qbe_opt)
    todo,           \* the passes still to run
    fn              \* the function as it is now
vars == <<name, opt, todo, fn>>

\* Faulty variant: what renaming made of the uses is not counted before they are checked.
FrontEndUncounted == <<"abi0", "fillcfg", "filluse", "promote", "filluse", "ssa", "ssacheck",
                       "fillalias", "loadopt", "filluse", "fillalias", "coalesce", "filluse", "filldom", "ssacheck">>
FrontEnd == <<"abi0", "fillcfg", "filluse", "promote", "filluse", "ssa", "filluse", "ssacheck",
              "fillalias", "loadopt", "filluse", "fillalias", "coalesce", "filluse", "filldom", "ssacheck">>
\* Faulty variant: the dominators are those of the graph before simplcfg.
RoundEarlyDominators == <<"gvn", "fillcfg", "filldom", "simplcfg", "filluse", "gcm", "filluse", "ssacheck">>
Round == <<"gvn", "fillcfg", "simplcfg", "filluse", "filldom", "gcm", "filluse", "ssacheck">>
\* Faulty variant: the copies abi1 adds are not counted before isel.
BackEndUncounted == <<"ifconvert", "fillcfg", "filluse", "filldom", "ssacheck", "abi1", "simpl", "fillcfg",
                      "isel", "fillcfg", "filllive", "fillloop", "fillcost", "spill", "rega", "fillcfg", "simpljmp",
                      "fillcfg", "link", "emit">>
BackEnd == <<"ifconvert", "fillcfg", "filluse", "filldom", "ssacheck", "abi1", "simpl", "fillcfg", "filluse",
             "isel", "fillcfg", "filllive", "fillloop", "fillcost", "spill", "rega", "fillcfg", "simpljmp",
             "fillcfg", "link", "emit">>
\* wrap_func: two more rounds make the code smaller.
Passes(o) == FrontEnd \o Round \o (IF o = "small" THEN Round \o Round ELSE <<>>) \o BackEnd

\* The analyses are the ones of Analyses; simplcfg ends with fillcfg.
Apply(pass, f) ==
    CASE pass = "fillcfg" -> FillCfg(f)
      [] pass = "filluse" -> FillUse(f)
      [] pass = "filldom" -> FillDom(f)
      [] pass = "filllive" -> FillLive(f)
      [] pass = "link" -> [f EXCEPT !.link = f.rpo]
      [] OTHER -> With(Transform(pass, f), LAMBDA g : IF pass = "simplcfg" THEN FillCfg(g) ELSE g)

\* A pass that finds the function at fault ends the compilation (err, die).
Pass ==
    /\ todo # <<>> /\ fn.err = ""
    /\ fn' = Apply(Head(todo), fn)
    /\ todo' = Tail(todo)
    /\ UNCHANGED <<name, opt>>
Done == (todo = <<>> \/ fn.err # "") /\ UNCHANGED vars

Init ==
    /\ name \in DOMAIN Functions
    /\ opt \in {"fast", "small"}
    /\ todo = Passes(opt)
    /\ fn = Functions[name]
Next == Pass \/ Done
Spec == Init /\ [][Next]_vars

-----------------------------------------------------------------------------
\* What the comment above a pass requires: rpo, pred, use (the lists), count (only
\* how many), dom, ssa, live (cfg.c:325,473 gcm.c:427 gvn.c:460 ifopt.c:96 live.c:36
\* load.c:428 mem.c:7 spill.c:37,314 ssa.c:314,370 amd64/isel.c:880 rega.c:478).
Requires(pass) ==
    CASE pass = "promote" -> {"use", "count"}
      [] pass = "ssa" -> {"rpo", "use", "count"}
      [] pass = "ssacheck" -> {"use", "count", "ssa"}
      [] pass = "loadopt" -> {"rpo", "ssa"}
      [] pass = "gvn" -> {"rpo", "pred", "ssa", "use", "count"}
      [] pass = "simplcfg" -> {"rpo", "pred"}
      [] pass = "gcm" -> {"rpo", "pred", "dom", "use", "count"}
      [] pass = "ifconvert" -> {"rpo", "pred", "use", "count"}
      [] pass = "isel" -> {"count"}
      [] pass \in {"filllive", "rega"} -> {"rpo"}
      [] pass = "fillcost" -> {"rpo", "pred"}
      [] pass = "spill" -> {"rpo", "live"}
      [] pass = "simpljmp" -> {"rpo"}
      [] pass = "emit" -> {"rpo", "pred"}
      [] OTHER -> {}
Needed(fact) == todo # <<>> /\ fact \in Requires(Head(todo))

\* A pass that reads the order of the blocks or their predecessors finds them as
\* the jumps are, whatever the passes before it did to the jumps.
GraphIsCurrent == (Needed("rpo") => OrderIsRight(fn)) /\ (Needed("pred") => PredsAreRight(fn))
\* A pass that reads uses and definitions finds those of the code as it is, whichever
\* passes moved or removed instructions since filluse.
UsesAreCurrent == (Needed("count") => CountsAreRight(fn)) /\ (Needed("use") => UsesAreRight(fn))
\* The immediate dominators filldom finds by iteration are the nearest blocks on
\* every path, when gcm reads them.
DominatorsAreCurrent == Needed("dom") => DominatorsAreRight(fn)
\* Where a pass requires it, every temporary has one definition, on every path to
\* each use; ssacheck itself looks only at use lists and dominators.
SsaIsCurrent == Needed("ssa") => IsSsa(fn)
\* What filllive's fixed point says is live out of a block is what some path reads.
LivenessIsCurrent == Needed("live") => LivenessIsRight(fn)

-----------------------------------------------------------------------------
(* What a pass that changes the function leaves alone, and leaves in shape *)

Analysing == {"fillcfg", "filluse", "filldom", "filllive", "link"}
\* These do not touch jumps, nor the order of the blocks.
KeepingGraph == {"promote", "ssa", "ssacheck", "fillalias", "loadopt", "coalesce", "gcm", "fillloop", "fillcost", "spill"}
\* From isel on the code is the machine's.
OnMachineCode == {"isel", "fillloop", "fillcost", "spill", "rega", "simpljmp", "emit"}
Contract(pass, f, g) ==
    /\ GraphIsShaped(g)
    /\ pass \notin OnMachineCode => CodeIsShaped(g)
    /\ pass = "isel" => OperandsAreShaped(g)
    /\ pass \in KeepingGraph => SameGraph(f, g)
    /\ pass = "ssacheck" => SameCode(f, g) /\ f.tmp = g.tmp
    /\ pass \in {"fillloop", "fillcost"} => SameCode(f, g) /\ f.out = g.out
\* Every pass that changes the function leaves each block linked once and each jump to
\* a linked block; before isel, each temporary with its entry, which filluse counts in;
\* after isel, nothing but registers and temporaries as operands; and those that only
\* change instructions leave the graph as the analyses saw it.
PassesKeepContract ==
    todo # <<>> /\ fn.err = "" /\ Head(todo) \notin Analysing =>
      With(Transform(Head(todo), fn), LAMBDA g : Contract(Head(todo), fn, g))
=============================================================================
