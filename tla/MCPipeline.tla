----------------------------- MODULE MCPipeline -----------------------------
(* Small instances of the pipeline for TLC. *)
EXTENDS PipelineProperties, TLC

CONSTANTS a1, a2, a3, a4, s1, s2, s3, w1, w2, i1, i2

\* One server process: every goroutine uses the same queue.
OneInstance == [x \in Submitters \union Workers |-> i1]

\* Two queues over one repository.
TwoInstances == [x \in Submitters \union Workers |-> IF x \in {s2, w2} THEN i2 ELSE i1]

\* The ads of this service are interchangeable even where submitters and
\* workers are not.
AdSymmetry == Permutations(Ads \ Foreign)

Symmetry == Permutations(Ads) \union Permutations(Submitters) \union Permutations(Workers)

\* Aging every tick; boosting and requeueing every second one.
AgingFaster == [t \in Tasks |-> IF t = "aging" THEN 1 ELSE 2]

=============================================================================
