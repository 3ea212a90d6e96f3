-------------------------- MODULE MCCodeSessions --------------------------
EXTENDS CodeSessions, TLC

\* Runs are interchangeable, and so are prompts.
Symmetry == Permutations(Runs) \cup Permutations(Prompts)
=============================================================================
