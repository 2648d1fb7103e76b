------------------------------ MODULE MCPrewarm ------------------------------
(* Instances of Prewarm for TLC. *)
EXTENDS Prewarm, TLC

CONSTANTS p1, p2, k1, k2

TwoProcs == {p1, p2}
TwoKeys == {k1, k2}
Case(wanted, unshippable, session, faults) ==
  [wanted |-> wanted, unshippable |-> unshippable, sessionPools |-> session, faults |-> faults]

\* Two keys without faults, both shippable or one of them not; one key with
\* every fault, and with those that cannot leave a corrupt object behind.
AllCases ==
  {Case({k1, k2}, u, FALSE, {}) : u \in {{}, {k2}}}
  \cup {Case({k1}, {}, TRUE, f) : f \in {Faults, Faults \ {"lockTimeouts", "unlinkFails"}}}
==============================================================================
