---------------------------- MODULE PipelineGraph ----------------------------
(***************************************************************************)
(* The graph of a pipeline version: which graphs save, preview and publish *)
(* accept, in which order an execution computes the nodes, and how a run   *)
(* of several outputs turns what failed into statuses.  A graph runs as    *)
(* nested queries, or hybrid: every node becomes a table of its own, which *)
(* the execution drops again.  What a step does with rows is left out, and *)
(* so are the names of tables and columns; a configuration that does not   *)
(* compile is a failure of its node's statement.  PipelineRun has the      *)
(* deliveries of one run's event and the races of several runs.  A graph   *)
(* has one execution: a preview, or a run.                                 *)
(***************************************************************************)
EXTENDS Naturals, Sequences, FiniteSets, FiniteSetsExt, Functions

CONSTANTS Graphs,       \* the graphs users draw
          MaxFailures   \* statements that fail

Kind == {"input", "step", "join", "output", "other"}

(* Nodes are numbered in the order of their ids.  An edge is a pair, drawn *)
(* once or more often; the editor may leave one whose node is gone.        *)
ASSUME GraphsAssumption ==
    /\ \A g \in Graphs :
          /\ DOMAIN g = {"kind", "edges"}
          /\ IsFiniteSet(DOMAIN g.kind) /\ DOMAIN g.kind \subseteq Nat \ {0}
          /\ Range(g.kind) \subseteq Kind
          /\ IsFiniteSet(DOMAIN g.edges) /\ DOMAIN g.edges \subseteq Nat \X Nat
          /\ Range(g.edges) \subseteq Nat \ {0}
    /\ MaxFailures \in Nat

VARIABLES
    graph,   \* the graph the user draws, saves and runs
    hybrid,  \* whether the execution makes a table of every node: its graph
             \* has a step, or an input, that SQL alone cannot do
    asked,   \* whether the run names who asked for it
    phase,   \* what happens to it
    sub,     \* the graph of the execution: all of it, or what a preview needs
    goal,    \* the node the execution is to compute, 0 for none
    rel,     \* the nodes it has computed
    made,    \* the tables of nodes in the tenant's database
    result,  \* the nodes that some output's execution has results of
    res,     \* [output -> what executeRun says of it]
    target,  \* [output -> what its table holds]
    outRow, stepRow, runRow,  \* the statuses in the rows
    review,  \* whether the review items are stored
    misfit,  \* history: an execution met a node whose upstreams were not there
    failures

rowVars   == <<outRow, stepRow, runRow, review>>
execVarsG == <<sub, goal, rel, result, res, target>>
graphVars == <<graph, hybrid, asked, phase, sub, goal, rel, made, result, res, target,
               outRow, stepRow, runRow, review, misfit, failures>>

-----------------------------------------------------------------------------
(* Graphs.                                                                 *)
Nodes(g) == DOMAIN g.kind

OfKind(g, k) == {n \in Nodes(g) : g.kind[n] = k}

Outputs(g) == OfKind(g, "output")

(* Edges both of whose nodes exist.                                        *)
Drawn(g) == {e \in DOMAIN g.edges : {e[1], e[2]} \subseteq Nodes(g)}

(* How many edges lead to n.                                               *)
Upstreams(g, n) ==
    MapThenSumSet(LAMBDA e : g.edges[e], {e \in DOMAIN g.edges : e[2] = n})

Sources(g, n) == {e[1] : e \in {d \in DOMAIN g.edges : d[2] = n}}

(* How many edges a node of a kind needs.                                  *)
Arity(k) == IF k = "input" THEN 0 ELSE IF k = "join" THEN 2 ELSE 1

(* Every node that paths of R lead to from S.                              *)
Reachable(S, R, size) ==
    LET reach[k \in 0..size] ==
            IF k = 0 THEN S
            ELSE reach[k - 1] \cup {e[2] : e \in {d \in R : d[1] \in reach[k - 1]}}
    IN  reach[size]

Forward(g, S)  == Reachable(S, Drawn(g), Cardinality(Nodes(g)))
Backward(g, S) == Reachable(S, {<<e[2], e[1]>> : e \in Drawn(g)}, Cardinality(Nodes(g)))

(* dataPipelineTopologicalOrder: of the nodes whose sources are all there, *)
(* the first by id.  It is shorter than the graph if that has a cycle.     *)
Ready_AnySource(g, before) ==
    {n \in Nodes(g) \ before : LET s == Sources(g, n) \cap Nodes(g)
                               IN  s = {} \/ s \cap before # {}}

Ready(g, before) == {n \in Nodes(g) \ before : Sources(g, n) \cap Nodes(g) \subseteq before}

Extend(g, nodes) ==
    IF Ready(g, Range(nodes)) = {} THEN nodes ELSE Append(nodes, Min(Ready(g, Range(nodes))))

Order(g) ==
    LET pick[k \in 0..Cardinality(Nodes(g))] == IF k = 0 THEN <<>> ELSE Extend(g, pick[k - 1])
    IN  pick[Cardinality(Nodes(g))]

(* The first of some nodes in that order.                                  *)
FirstOf(g, S) == Order(g)[Min({i \in DOMAIN Order(g) : Order(g)[i] \in S})]

Acyclic(g) == Len(Order(g)) = Cardinality(Nodes(g))

(* validateDataPipelineGraphForUse; a draft and a preview need no output.  *)
Valid_EndsAnywhere(g, requireOutput) ==
    /\ OfKind(g, "input") # {} /\ OfKind(g, "other") = {}
    /\ requireOutput => Outputs(g) # {}
    /\ \A e \in DOMAIN g.edges : e[1] # e[2] /\ e \in Drawn(g)
    /\ Acyclic(g)
    /\ Nodes(g) \subseteq Forward(g, OfKind(g, "input"))
    /\ \A n \in Nodes(g) : Upstreams(g, n) = Arity(g.kind[n])

Valid(g, requireOutput) ==
    /\ OfKind(g, "input") # {} /\ OfKind(g, "other") = {}
    /\ \A e \in DOMAIN g.edges : e[1] # e[2] /\ e \in Drawn(g)
    /\ Acyclic(g)
    /\ Nodes(g) \subseteq Forward(g, OfKind(g, "input"))
    /\ requireOutput => Outputs(g) # {} /\ Nodes(g) \subseteq Backward(g, Outputs(g))
    /\ \A n \in Nodes(g) : Upstreams(g, n) = Arity(g.kind[n])

(* dataPipelinePreviewSubgraph: what leads to the selected node.           *)
Subgraph(g, n) ==
    LET included == Backward(g, {n})
    IN  [kind  |-> Restrict(g.kind, included),
         edges |-> Restrict(g.edges, DOMAIN g.edges \cap (included \X included))]

-----------------------------------------------------------------------------
GraphTypeOK ==
    /\ hybrid \in BOOLEAN /\ asked \in BOOLEAN
    /\ phase \in {"draft", "saved", "published", "open", "count", "next", "compute",
                  "write", "settle", "review", "finish", "done"}
    /\ goal \in {0} \cup Nodes(sub) /\ rel \subseteq Nodes(sub)
    /\ made \subseteq Nodes(graph)
    /\ result \subseteq Nodes(graph)
    /\ res \in [Outputs(graph) -> {"none", "ok", "error"}]
    /\ target \in [Outputs(graph) -> {"old", "gone", "new"}]
    /\ outRow \in [Outputs(graph) -> {"none", "pending", "completed", "failed"}]
    /\ stepRow \in [Nodes(graph) -> {"none", "processing", "completed", "guessed", "failed"}]
    /\ runRow \in {"none", "processing", "completed", "failed"}
    /\ review \in BOOLEAN /\ misfit \in BOOLEAN
    /\ failures \in 0..MaxFailures

GraphInit ==
    /\ graph \in Graphs /\ hybrid = FALSE /\ asked = TRUE
    /\ phase = "draft" /\ sub = graph /\ goal = 0 /\ rel = {}
    /\ made = {} /\ result = {}
    /\ res = [o \in Outputs(graph) |-> "none"]
    /\ target = [o \in Outputs(graph) |-> "old"]
    /\ outRow = [o \in Outputs(graph) |-> "none"]
    /\ stepRow = [n \in Nodes(graph) |-> "none"]
    /\ runRow = "none" /\ review = FALSE /\ misfit = FALSE
    /\ failures = 0

(* k statements fail.                                                      *)
Fails(k) == failures + k <= MaxFailures /\ failures' = failures + k

Unfailing_G == UNCHANGED <<misfit, failures>>

-----------------------------------------------------------------------------
(* What users do with the graph.                                           *)
SaveDraftGraph ==
    /\ phase = "draft" /\ Valid(graph, FALSE)
    /\ phase' = "saved"
    /\ UNCHANGED <<graph, hybrid, asked, execVarsG, made, rowVars>> /\ Unfailing_G

PublishGraph ==
    /\ phase = "saved" /\ Valid(graph, TRUE)
    /\ phase' = "published"
    /\ UNCHANGED <<graph, hybrid, asked, execVarsG, made, rowVars>> /\ Unfailing_G

Preview(n) ==
    /\ phase = "draft" /\ Valid(Subgraph(graph, n), FALSE)
    /\ sub' = Subgraph(graph, n) /\ goal' = n /\ phase' = "compute"
    /\ hybrid' \in BOOLEAN
    /\ UNCHANGED <<graph, asked, rel, result, res, target, made, rowVars>> /\ Unfailing_G

(* HandleRunRequested makes the rows of the steps and outputs.             *)
StartRun ==
    /\ phase = "published"
    /\ runRow' = "processing"
    /\ stepRow' = [n \in Nodes(graph) |-> "processing"]
    /\ outRow' = [o \in Outputs(graph) |-> "pending"]
    /\ hybrid' \in BOOLEAN
    /\ asked' \in {TRUE} \cup IF hybrid' THEN {FALSE} ELSE {}
    /\ phase' = IF hybrid' THEN "open" ELSE "count"
    /\ UNCHANGED <<graph, execVarsG, made, review>> /\ Unfailing_G

(* The version is not read, or a row not made: the run is failed, and the  *)
(* rows made before are left.                                              *)
StartFails ==
    /\ phase = "published"
    /\ Fails(1)
    /\ runRow' = "failed" /\ phase' = "done"
    /\ \E S \in SUBSET Nodes(graph), O \in SUBSET Outputs(graph) :
          /\ O # {} => S = Nodes(graph)
          /\ stepRow' = [n \in Nodes(graph) |-> IF n \in S THEN "processing" ELSE "none"]
          /\ outRow' = [o \in Outputs(graph) |-> IF o \in O THEN "pending" ELSE "none"]
    /\ UNCHANGED <<graph, hybrid, asked, execVarsG, made, review, misfit>>

-----------------------------------------------------------------------------
(* Executions.                                                             *)

(* The node whose turn it is.                                              *)
Turn == Order(sub)[Cardinality(rel) + 1]

(* compileNode finds as many edges as the node's kind needs, and what they *)
(* come from is computed.                                                  *)
Fits(n) == \/ sub.kind[n] = "input"
           \/ /\ Upstreams(sub, n) = Arity(sub.kind[n])
              /\ Sources(sub, n) \subseteq rel

(* executeRun returns an error: the steps and the run are failed, and the  *)
(* rows of the outputs are left.                                           *)
FailRun == /\ stepRow' = [n \in Nodes(graph) |-> "failed"]
           /\ runRow' = "failed" /\ phase' = "done"
           /\ UNCHANGED <<outRow, review>>

(* A hybrid run needs to know who asked for it, and the tenant's database. *)
OpenHybrid ==
    /\ phase = "open"
    /\ \/ asked /\ phase' = "next" /\ UNCHANGED rowVars /\ Unfailing_G
       \/ ~asked /\ FailRun /\ Unfailing_G
       \/ asked /\ FailRun /\ Fails(1) /\ UNCHANGED misfit
    /\ UNCHANGED <<graph, hybrid, asked, execVarsG, made>>

(* A run of nested queries first counts the rows of every node.            *)
CountNode ==
    /\ phase = "count"
    /\ \/ /\ Fits(Turn)
          /\ rel' = rel \cup {Turn} /\ result' = result \cup {Turn}
          /\ phase' = IF rel' = Nodes(sub) THEN "next" ELSE "count"
          /\ UNCHANGED rowVars /\ Unfailing_G
       \/ /\ ~Fits(Turn) /\ misfit' = TRUE
          /\ FailRun /\ UNCHANGED <<rel, result, failures>>
       \/ Fails(1) /\ FailRun /\ UNCHANGED <<rel, result, misfit>>
    /\ UNCHANGED <<graph, hybrid, asked, sub, goal, res, target, made>>

(* The outputs, in the order of the graph.                                 *)
NextOutput ==
    /\ phase = "next"
    /\ LET left == {o \in Outputs(graph) : res[o] = "none"}
       IN  IF left = {} THEN phase' = "settle" /\ UNCHANGED <<goal, rel>>
           ELSE goal' = FirstOf(graph, left) /\ rel' = {} /\ phase' = "compute"
    /\ UNCHANGED <<graph, hybrid, asked, sub, result, res, target, made, rowVars>> /\ Unfailing_G

(* Which of the tables of an execution stay: they are dropped one by one,  *)
(* and errors are ignored.  If there is no connection or the context is    *)
(* done, every statement fails.                                            *)
Leftovers == IF hybrid THEN SUBSET rel ELSE {{}}

Drop_KeepsAll(S, left) == made

Drop(S, left) == (made \ S) \cup left

(* The execution for one goal is over.                                     *)
EndGoal(verdict) ==
    IF runRow = "none" THEN phase' = "done" /\ UNCHANGED res
    ELSE phase' = "next" /\ res' = [res EXCEPT ![goal] = verdict]

(* The execution goes through the whole graph up to the goal.  Hybrid, the *)
(* node's table, which has the same name for every output of the run, is   *)
(* dropped and made anew.                                                  *)
ComputeNode ==
    /\ phase = "compute" /\ Fits(Turn)
    /\ rel' = rel \cup {Turn}
    /\ made' = IF hybrid THEN made \cup {Turn} ELSE made
    /\ phase' = IF Turn = goal THEN "write" ELSE "compute"
    /\ UNCHANGED <<graph, hybrid, asked, sub, goal, result, res, target, rowVars>> /\ Unfailing_G

(* What was made for the goal is dropped, but not the table of the node    *)
(* that failed, if its statement got so far.                               *)
ComputeError ==
    /\ phase = "compute"
    /\ EndGoal("error")
    /\ \E left \in Leftovers :
          IF Fits(Turn)
          THEN /\ Fails(1 + Cardinality(left)) /\ UNCHANGED misfit
               /\ \E own \in IF hybrid THEN SUBSET {Turn} ELSE {{}} :
                     made' = (Drop(rel, left) \ {Turn}) \cup own
          ELSE /\ misfit' = TRUE /\ Fails(Cardinality(left))
               /\ made' = Drop(rel, left) \ {Turn}
    /\ UNCHANGED <<graph, hybrid, asked, sub, goal, rel, result, target, rowVars>>

(* The rows are staged, the target dropped, the stage renamed and the work *)
(* table registered, or one of these fails; then the nodes' tables go.     *)
WriteOutput ==
    /\ phase = "write" /\ runRow # "none"
    /\ result' = IF hybrid THEN result \cup rel ELSE result
    /\ \E left \in Leftovers :
          /\ made' = Drop(rel, left)
          /\ \/ /\ EndGoal("ok") /\ Fails(Cardinality(left))
                /\ target' = [target EXCEPT ![goal] = "new"]
             \/ /\ EndGoal("error") /\ Fails(1 + Cardinality(left))
                /\ \E t \in {target[goal], "gone", "new"} :
                      target' = [target EXCEPT ![goal] = t]
    /\ UNCHANGED <<graph, hybrid, asked, sub, goal, rel, misfit, rowVars>>

(* A preview reads its rows, or fails to, and drops its tables.            *)
ShowPreview ==
    /\ phase = "write" /\ runRow = "none"
    /\ EndGoal("ok")
    /\ \E left \in Leftovers : Fails(Cardinality(left)) /\ made' = Drop(rel, left)
    /\ UNCHANGED <<graph, hybrid, asked, sub, goal, rel, result, target, misfit, rowVars>>

-----------------------------------------------------------------------------
(* HandleRunRequested after executeRun.  A row whose statement fails stays *)
(* as it is; but the review items are all or an error.                     *)
Refused == {o \in Outputs(graph) : res[o] = "error"}

RecordOutputs ==
    /\ phase = "settle"
    /\ \E left \in SUBSET Outputs(graph) :
          /\ Fails(Cardinality(left))
          /\ outRow' = [o \in Outputs(graph) |->
                           IF o \in left THEN outRow[o]
                           ELSE IF o \in Refused THEN "failed" ELSE "completed"]
    /\ phase' = IF Refused = {} THEN "review" ELSE "finish"
    /\ UNCHANGED <<graph, hybrid, asked, execVarsG, made, stepRow, runRow, review, misfit>>

StoreReviewItems ==
    /\ phase = "review"
    /\ \/ review' = TRUE /\ phase' = "finish" /\ Unfailing_G /\ UNCHANGED runRow
       \/ runRow' = "failed" /\ phase' = "done" /\ Fails(1) /\ UNCHANGED <<misfit, review>>
    /\ UNCHANGED <<graph, hybrid, asked, execVarsG, made, stepRow, outRow>>

(* A step without a result of its own is given the rows of the outputs.    *)
StepStatus(n) == IF Refused # {} THEN "failed"
                 ELSE IF n \in result THEN "completed" ELSE "guessed"

FinishGraph ==
    /\ phase = "finish" /\ phase' = "done"
    /\ \E left \in SUBSET Nodes(graph) :
          /\ stepRow' = [n \in Nodes(graph) |-> IF n \in left THEN stepRow[n] ELSE StepStatus(n)]
          /\ \/ /\ Fails(Cardinality(left))
                /\ runRow' = IF Refused = {} THEN "completed" ELSE "failed"
             \/ Fails(1 + Cardinality(left)) /\ UNCHANGED runRow
    /\ UNCHANGED <<graph, hybrid, asked, execVarsG, made, outRow, review, misfit>>

GraphNext ==
    \/ SaveDraftGraph \/ PublishGraph \/ StartRun \/ StartFails
    \/ \E n \in Nodes(graph) : Preview(n)
    \/ OpenHybrid \/ CountNode \/ NextOutput \/ ComputeNode \/ ComputeError
    \/ WriteOutput \/ ShowPreview
    \/ RecordOutputs \/ StoreReviewItems \/ FinishGraph

-----------------------------------------------------------------------------
(* Properties.                                                             *)

(* A graph that was let through can be executed: no execution, of a whole  *)
(* graph or of what a preview needs, comes to a node with other edges than *)
(* its kind takes, or before what they come from.  A run in which nothing  *)
(* failed completes, if it names who asked for it; a run that completes    *)
(* has written every output, however many, stored its review items and     *)
(* computed every node itself, so that no step falls back on the row count *)
(* of the outputs.  And after an execution the tenant's database holds no  *)
(* more tables of nodes than statements failed.  (That outputs may be many *)
(* and steps have counts of their own is what the code does; the manual    *)
(* says otherwise: RunsAsInManual below.)                                  *)
GraphRuns ==
    /\ ~misfit
    /\ phase = "done" /\ failures = 0 /\ asked => runRow \in {"none", "completed"}
    /\ runRow = "completed" =>
          /\ \A n \in Nodes(graph) : stepRow[n] # "guessed"
          /\ \A o \in Outputs(graph) : target[o] = "new"
          /\ review
    /\ phase = "done" => Cardinality(made) <= failures

(* What the manual says of runs, in part at least: that a run needs exactly *)
(* one output node (data-pipeline-manual.md:1551), or that the row count of *)
(* a step of a completed run is that of the output's work table and not the *)
(* node's own (:1569).                                                      *)
RunsAsInManual ==
    runRow = "completed" =>
        \/ Cardinality(Outputs(graph)) = 1
        \/ \A n \in Nodes(graph) \ Outputs(graph) : stepRow[n] # "completed"
=============================================================================
