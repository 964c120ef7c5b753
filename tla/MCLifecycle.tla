-------------------------------- MODULE MCLifecycle --------------------------------
(* Small instances of Lifecycle. *)
EXTENDS Lifecycle

Wants(mode, site, api) ==
    [secret |-> FALSE, mode |-> mode, url |-> [site |-> site, slash |-> FALSE],
     events |-> {"paid"}, api |-> api, desc |-> "billing", existing |-> 0,
     policy |-> "test", publishable |-> TRUE]

Pinned == {Wants("public", "app", "v1"), Wants("public", "app", "v2")}
Inputs4 == Pinned \cup {Wants("public", "api", "v1"), Wants("local-forwarded", "app", "v1")}

Ours(in) == DesiredFrom(in, Binding)
AllTargets == {Ours(in) : in \in Inputs4}

NoEndpoint == <<>>

Stored(target, binding, switched) ==
    [url |-> target.url, events |-> target.events, api |-> target.api, desc |-> target.desc,
     status |-> switched, meta |-> [binding |-> binding, resource |-> binding = Binding]]

\* Someone else's endpoint at "api", and the binding's own at "app", switched off.
TheirsAndOurs ==
    <<Stored(Ours(Wants("public", "api", "v1")), NoBinding, "enabled"),
      Stored(Ours(Wants("public", "app", "v1")), Binding, "disabled")>>

Ops13 == 1..13

Runs15 == 1..15
================================================================================
