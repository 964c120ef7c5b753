--------------------------------- MODULE Provision ---------------------------------
(***************************************************************************)
(* What the binding's operations promise, whatever the host and the        *)
(* network do to the calls that carry them out:                            *)
(*  - only an operation that is to create an endpoint creates one, and     *)
(*    only when its last one is no longer within the idempotency window:   *)
(*    a retry inside it creates nothing;                                   *)
(*  - the operation that is applied binds an endpoint it created, with a   *)
(*    signing secret it captured, or what it was asked to bind; every      *)
(*    other step leaves the binding as it is, the answers to operations    *)
(*    no longer open included.                                             *)
(* ApplyAction is shown to implement it (ApplyProvision).                  *)
(***************************************************************************)
EXTENDS Naturals

CONSTANTS Ops, Window

VARIABLES clock,     \* in ticks
          last,      \* the last endpoint id given out
          minted,    \* what each operation created, and when
          asked,     \* what each operation is to do, and with which endpoint
          outcome,   \* what became of each operation
          binding    \* the endpoint and the secrets the binding names

vars == <<clock, last, minted, asked, outcome, binding>>
--------------------------------------------------------------------------------
Kinds == {"create", "update", "import", "release", "nothing"}

IdsOf(op) == {m.id : m \in minted[op]}

Bound(endpoint, secrets) == [endpoint |-> endpoint, secrets |-> secrets]
Unbound == Bound(0, {})

Init ==
    /\ clock = 0 /\ last \in Nat
    /\ minted = [op \in Ops |-> {}]
    /\ asked = [op \in Ops |-> [kind |-> "nothing", endpoint |-> 0]]
    /\ outcome = [op \in Ops |-> "new"]
    /\ binding = Unbound

Advance == clock' = clock + 1 /\ UNCHANGED <<last, minted, asked, outcome, binding>>

Become(op, from, to) == outcome[op] = from /\ outcome' = [outcome EXCEPT ![op] = to]

Open(op) ==
    /\ Become(op, "new", "open") /\ \A o \in Ops : outcome[o] # "open"
    /\ \E kind \in Kinds, endpoint \in 0..last :
          asked' = [asked EXCEPT ![op] = [kind |-> kind, endpoint |-> endpoint]]
    /\ UNCHANGED <<clock, last, minted, binding>>

GiveUp(op) ==
    /\ Become(op, "open", "abandoned")
    /\ UNCHANGED <<clock, last, minted, asked, binding>>

\* A request may still be carried out when its operation is settled.
Mint(op) ==
    /\ outcome[op] # "new" /\ asked[op].kind = "create"
    /\ \A m \in minted[op] : clock - m.at > Window
    /\ last' = last + 1
    /\ minted' = [minted EXCEPT ![op] = @ \cup {[id |-> last', at |-> clock]}]
    /\ UNCHANGED <<clock, asked, outcome, binding>>

\* What an operation may bind.  Only a binding that names nothing takes an endpoint over
\* from an operation that does nothing.
Binds(op, kind, endpoint) ==
    \/ kind = "create"  /\ \E id \in IdsOf(op), secret \in IdsOf(op) : binding' = Bound(id, {secret})
    \/ kind = "update"  /\ binding' = Bound(endpoint, binding.secrets)
    \/ kind = "import"  /\ binding' = Bound(endpoint, {})
    \/ kind = "release" /\ binding' = Unbound
    \/ kind = "nothing" /\ UNCHANGED binding
    \/ kind = "nothing" /\ binding = Unbound /\ binding' = Bound(endpoint, {})

Confirm(op) ==
    /\ Become(op, "open", "applied")
    /\ Binds(op, asked[op].kind, asked[op].endpoint)
    /\ UNCHANGED <<clock, last, minted, asked>>

Next == Advance \/ \E op \in Ops : Open(op) \/ GiveUp(op) \/ Mint(op) \/ Confirm(op)

Spec == Init /\ [][Next]_vars
================================================================================
