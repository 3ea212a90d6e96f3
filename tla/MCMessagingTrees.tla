------------------------- MODULE MCMessagingTrees -------------------------
EXTENDS MessagingTrees, TLC

\* Nodes, tree objects and claims are interchangeable.
Symmetry == Permutations(Nodes) \cup Permutations(TreeObjects) \cup Permutations(Claims)

\* The store is written, never read, until a restart: runs without restarts whose
\* properties do not mention the store need not tell its contents apart.
MemoryView == <<trees, reference, treeVars, slot, intake,
                [command EXCEPT !.snaps = <<>>]>>
=============================================================================
