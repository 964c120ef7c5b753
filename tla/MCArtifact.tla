-------------------------------- MODULE MCArtifact ---------------------------------
(* Small instances of Artifact: a manifest, and edits of it. *)
EXTENDS Artifact

Observe(schema) == [method |-> "GET", schema |-> schema, purposes |-> {"management"}]
Create == [method |-> "POST", schema |-> "endpoint", purposes |-> {"management"}]

Shipped == [version |-> 1, namespace |-> "provider.stripe.",
            requests |-> [id \in {"observe", "create"} |->
                             IF id = "create" THEN Create ELSE Observe("account")],
            schemas |-> [id \in {"account", "endpoint"} |->
                             IF id = "endpoint" THEN "capture" ELSE "forward"]]

\* The secret is no longer captured; a request and the version changed; a schema is
\* missing; the diagnostic codes moved.
Edited == {Shipped,
           [Shipped EXCEPT !.schemas["endpoint"] = "drop"],
           [Shipped EXCEPT !.version = 2, !.requests =
                [id \in {"observe"} |-> Observe("endpoint")]],
           [Shipped EXCEPT !.requests["observe"] = Observe("balance")],
           [Shipped EXCEPT !.namespace = "provider.other."]}
================================================================================
