---------------------------- MODULE MCReviewRun ----------------------------
(***************************************************************************)
(* TLC instances of ReviewRun: runs with one or two targets out of a file, *)
(* a directory with a stray cdk.out, and CDK projects whose cdk.out is     *)
(* empty or stale.                                                         *)
(***************************************************************************)
EXTENDS ReviewRun

MCTemplates == {"a", "b"}

File(t) == [dir |-> FALSE, cdk |-> FALSE, plain |-> {t}, out |-> {},
            fresh |-> {}]
Directory(p, o) == [dir |-> TRUE, cdk |-> FALSE, plain |-> p, out |-> o,
                    fresh |-> o]
Project(p, o, f) == [dir |-> TRUE, cdk |-> TRUE, plain |-> p, out |-> o,
                     fresh |-> f]

MCTargets == {File("a"), File("b"), Directory({}, {}), Directory({"a"}, {"b"}),
              Project({"a"}, {}, {"b"}), Project({}, {"b"}, {"a", "b"})}

MCTargetLists == {<<x>> : x \in MCTargets}
                   \cup {<<x, y>> : x \in MCTargets, y \in MCTargets}
=============================================================================
