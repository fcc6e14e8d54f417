----------------------------- MODULE MCPipeline -----------------------------
(* Small instances of PipelineRun, with model values for rows and          *)
(* processes, and of PipelineGraph.  What a graph computes does not depend *)
(* on the other runs, so one of the two is at work in each behaviour.      *)
EXTENDS PipelineRun, PipelineGraph, TLC

CONSTANTS v1, v2, r1, r2, s1, u1, j1, j2, w1, w2,
          Parts   \* which of the modules are at work

VARIABLE part

pipelineVars == <<vars, graphVars, part>>

MCVersion    == {v1, v2}
OneVersion   == {v1}
MCRun        == {r1, r2}
OneRun       == {r1}
MCSchedule   == {s1}
MCRequester  == {u1}
MCScheduler  == {j1, j2}
OneScheduler == {j1}
MCWorker     == {w1, w2}
OneWorker    == {w1}

(* Rows and processes are interchangeable; the nodes of a graph are not.   *)
MCSymmetry == Permutations(MCVersion) \cup Permutations(MCRun)
                  \cup Permutations(MCScheduler) \cup Permutations(MCWorker)

(* Every graph of four nodes and three edges with one input more than      *)
(* joins; and of three nodes, an input among them, every graph with up to  *)
(* two edges, one of which may be drawn twice, be a loop or lead to a node *)
(* that is gone.                                                           *)
Count(k, kind) == Cardinality({n \in DOMAIN k : k[n] = kind})

Pair == {<<a, b>> : a \in 1..4, b \in 1..4}

Once(E) == [e \in E |-> 1]

MCGraphs ==
    [kind  : {k \in [1..4 -> Kind \ {"other"}] : Count(k, "input") = Count(k, "join") + 1},
     edges : {Once(E) : E \in kSubset(3, {e \in Pair : e[1] # e[2]})}]
    \cup
    [kind  : {k \in [1..3 -> Kind] : Count(k, "input") = 1},
     edges : {Once(E) : E \in UNION {kSubset(k, Pair) : k \in 0..2}}
                 \cup {[e \in {d, f} |-> IF e = d THEN 2 ELSE 1] : d \in Pair, f \in Pair}]

(* A graph nobody draws at, while runs are at work.                        *)
Blank == [kind |-> <<"input">>, edges |-> Once({})]

GraphsAndBlank == MCGraphs \cup {Blank}

OnlyBlank == {Blank}

(* An input with one output, and with two.                                 *)
OneAndTwoOutputs ==
    {[kind |-> <<"input", "output">>, edges |-> Once({<<1, 2>>})],
     [kind |-> <<"input", "output", "output">>, edges |-> Once({<<1, 2>>, <<1, 3>>})]}

-----------------------------------------------------------------------------
PipelineInit ==
    /\ Init /\ GraphInit
    /\ part \in Parts
    /\ part = "run" => graph = Blank

(* A fault and an expiry meet in one step, or in different behaviours.     *)
PipelineNext ==
    /\ UNCHANGED part
    /\ \/ /\ part = "run" /\ Next /\ UNCHANGED graphVars
          /\ faults' > faults => expiries = 0
          /\ expiries' > expiries => faults = 0
       \/ part = "graph" /\ GraphNext /\ UNCHANGED vars

PipelineSpec == PipelineInit /\ [][PipelineNext]_pipelineVars

(* Rows, calls and graphs stay in their types: a schedule is never saved   *)
(* without a version, nor has an execution a goal outside its graph.       *)
PipelineTypeOK == TypeOK /\ GraphTypeOK
=============================================================================
