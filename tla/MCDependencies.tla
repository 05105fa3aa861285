--------------------------- MODULE MCDependencies ---------------------------
(* Model-checking instance of Dependencies. *)
EXTENDS Dependencies

\* ProducerBase.DependsOn as it is written: a depth first search that ends only
\* if it meets no cycle.
RECURSIVE DependsOnSearch(_, _)
DependsOnSearch(prod, dep) ==
  \E stored \in dependencies[prod] : stored = dep \/ DependsOnSearch(stored, dep)

\* The search always ends and finds exactly the direct and indirect
\* dependencies, in every state LinkDependencies calls it in.
SearchFindsDependencies ==
  \A p, q \in Producers : DependsOnSearch(p, q) <=> DependsOn(p, q)
=============================================================================
