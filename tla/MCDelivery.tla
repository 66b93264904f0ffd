----------------------------- MODULE MCDelivery ----------------------------
(* Instances of Delivery for TLC. *)
EXTENDS DeliveryProperties, TLC

Entry(path, mode) == [path |-> path, names |-> path, mode |-> mode]
Diff(path, file) == [path |-> path, names |-> file, mode |-> "patch"]
NoPath == [path |-> Blank, names |-> "a", mode |-> "write"]

\* A second endpoint after one that cannot be driven, and one without a key.
FewCandidates == << [kind |-> "none", key |-> TRUE], [kind |-> "unknown", key |-> FALSE],
                    [kind |-> "known", key |-> TRUE], [kind |-> "provider", key |-> TRUE] >>
OneCandidate == << [kind |-> "known", key |-> TRUE] >>

ManyOutputs ==
  { << >>,
    << NoPath, Entry("wf", "write") >>,
    << Entry("a", "empty"), Entry("a", "write"), Entry("a", "delete") >>,
    << Diff("b", "b"), Entry("a", "delete") >>,
    << Entry("b", "write") >>,
    << Diff("a", "b") >>,
    << Diff("b", "up"), Entry("a", "write") >>,
    << Entry("up", "write") >> }

FewOutputs == { << Entry("a", "write") >>, << Diff("a", "a") >>, << Entry("b", "write") >> }

\* One file exists, the others do not.
Start == [p \in Paths |-> IF p = "b" THEN {} ELSE Gone]

Symmetry == Permutations(Runs) \cup Permutations(Deliveries)

=============================================================================
