-------------------------- MODULE MCArtifactCache --------------------------
(* Instances of ArtifactCache for TLC. *)
EXTENDS ArtifactCache, TLC

CONSTANTS p1, p2, p3

MCCaller == {p1, p2, p3}

\* Only p1 is scheduled fairly: its deadlines expire and its own compile ends,
\* whatever the others do, stuck lock holders included.
MCLoneSpec == CacheSpec /\ WF_cacheVars(Step(p1))

\* p1's calls end although the others may stop anywhere, inside the lock included.
MCReturns == Returns(p1)
=============================================================================
