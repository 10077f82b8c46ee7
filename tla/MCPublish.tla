------------------------------ MODULE MCPublish -----------------------------
EXTENDS Publish, TLC

\* One or two steps; a failed one is one the operator declined.
SomePlans == UNION {[1..n -> {"pending", "in_progress", "completed"}] : n \in 1..NumSteps}

\* Draft ids are interchangeable.
Symmetry == Permutations(Drafts)
=============================================================================
