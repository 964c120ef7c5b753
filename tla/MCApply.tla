--------------------------------- MODULE MCApply ---------------------------------
(* Small instances of ApplyAction: two bindings, one of them ours. *)
EXTENDS ApplyProvision, TLC

Target(site, api) ==
    [url |-> [site |-> site, slash |-> FALSE], events |-> {"paid"}, api |-> api,
     desc |-> "billing", meta |-> [binding |-> Binding, resource |-> TRUE]]

Stranger == [CreateBody(Target("app", "v1")) EXCEPT !.meta = [binding |-> "theirs", resource |-> TRUE]]

OneTarget  == {Target("app", "v1")}
TwoSites   == {Target("app", "v1"), Target("api", "v1")}
TwoVersions == {Target("app", "v1"), Target("app", "v2")}
ThreeTargets == TwoSites \cup TwoVersions

NoForeign  == <<>>
OneForeign == <<Stranger>>
OneOwned   == <<CreateBody(Target("app", "v1"))>>

Symmetry == Permutations(Runs) \cup Permutations(Ops)
================================================================================
