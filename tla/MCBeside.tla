------------------------------ MODULE MCBeside ------------------------------
(***************************************************************************)
(* Model checking of what is used beside the graph: the graphs, documents  *)
(* and stop conditions of the searches, and the states to start from.      *)
(***************************************************************************)
EXTENDS Beside

(* Graphs in one piece, whose links go both ways.                          *)
GraphOf(edges) == [e \in Node |-> {f \in Node \ {e} : {e, f} \in edges}]
InOnePiece(g) ==
  \A S \in SUBSET Node : S # {} /\ UNION {g[e] : e \in S} \subseteq S => S = Node
MCGraphs == {g \in {GraphOf(E) : E \in SUBSET {{e, f} : e, f \in Node}} : InOnePiece(g)}

(* Documents are numbered in the order of their closest elements.          *)
MCOwners ==
  {o \in [Node -> Doc] : \A e \in Node : \A d \in 1 .. o[e] - 1 : \E f \in 1 .. e : o[f] = d}

ForDocs(num, ef) == [kind |-> "docs", least |-> num, most |-> ef]
Within(eps, least, most) == [kind |-> "epsilon", epsilon |-> eps, least |-> least, most |-> most]
MCConditions ==
  {ForDocs(0, 0), ForDocs(1, 2), ForDocs(2, 2), ForDocs(2, 4),
   Within(2, 0, 0), Within(2, 1, 2), Within(3, 2, 2), Within(3, 4, 4), Within(0, 1, 1)}

OneSearch ==
  /\ links = [e \in Node |-> Node \ {e}] /\ doc = [e \in Node |-> 1]
  /\ refused = {} /\ ep = 1 /\ condition = ForDocs(1, 2)

(* Documents matter to a search for documents only, and such a search      *)
(* meets at most one refused element here.                                 *)
SearchInit ==
  /\ condition \in MCConditions
  /\ IF condition.kind = "docs"
     THEN refused \in {R \in SUBSET Node : Cardinality(R) <= 1}
     ELSE doc = [e \in Node |-> 1]

(* What a behaviour is not about begins in one state.                      *)
MCInit ==
  /\ part \in {"pool", "stop", "flat"}
  /\ part # "pool" => mass = [x \in List |-> Cleared]
  /\ IF part = "stop" THEN SearchInit ELSE OneSearch
  /\ BesideInit

MCSpec == MCInit /\ [][BesideNext]_<<part, vars, stop_, flat_>>

=============================================================================
