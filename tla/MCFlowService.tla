--------------------------- MODULE MCFlowService ---------------------------
(* Small instances of FlowService for TLC. *)
EXTENDS FlowService, TLC

\* Two steps, the first with a catch policy, and what is left of the flow when
\* the second step is taken out of it.
Long  == [start |-> "a", next |-> ("a" :> {"b"} @@ "b" :> {"end"}),
          caught |-> ("a" :> {"b"} @@ "b" :> {})]
Short == [start |-> "a", next |-> ("a" :> {"end"}), caught |-> ("a" :> {})]

OneDefinition == {Short}
TwoDefinitions == {Long, Short}

\* Executions are interchangeable; used by a run that checks no liveness.
Symmetry == Permutations(Executions)
=============================================================================
