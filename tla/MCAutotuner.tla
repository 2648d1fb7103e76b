----------------------------- MODULE MCAutotuner -----------------------------
(* Instances of Autotuner for TLC. *)
EXTENDS Autotuner, TLC

CONSTANTS p1, p2, k1, k2, a, b, f

TwoProcs == {p1, p2}
TwoKeys == {k1, k2}
OneContract == {f}
TwoConfigs == {a, b}
SameContract == [k \in Key |-> f]
\* k1 may run either configuration, k2 only one of them.
Spaces == [k \in Key |-> IF k = k1 THEN {a, b} ELSE {b}]
Ranking == [k \in Key |-> b]
AllModes == {"legacy", "TUNED", "RUNNING", "STATIC"}
Sound == [prepares |-> FALSE, modes |-> {"TUNED", "RUNNING", "STATIC"}, keys |-> TwoKeys,
          require |-> {}, force |-> FALSE, putFails |-> FALSE]
\* Winner files that are ignored or cannot be written, and measured winners
\* demanded by one of the processes or by none.
Hostile(req) == [prepares |-> FALSE, modes |-> {"legacy", "TUNED", "STATIC"}, keys |-> {k1},
                 require |-> req, force |-> TRUE, putFails |-> TRUE]
AllOperators ==
    {Sound, [Sound EXCEPT !.prepares = TRUE, !.modes = {"TUNED", "RUNNING"}],
     Hostile({}), Hostile({p1}), Hostile({p2})}
Symmetry == Permutations(Proc)
=============================================================================
