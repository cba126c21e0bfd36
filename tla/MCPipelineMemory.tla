-------------------------- MODULE MCPipelineMemory --------------------------
(* An instance of PipelineMemory for TLC.  Evaluations, conversations and  *)
(* versions are each interchangeable.                                      *)
EXTENDS PipelineMemory, TLC

CONSTANTS e1, e2, e3, e4, c1, c2, c3, v1, v2

Actions == {e1, e2, e3, e4}
Threads == {c1, c2, c3}
Loaded == {v1, v2}
Declared == [pair |-> <<"rename", "destroy">>, chain |-> <<"rename", "rename", "destroy">>]

Symmetric == Permutations(Actions) \cup Permutations(Threads)
               \cup Permutations(Loaded)
=============================================================================
