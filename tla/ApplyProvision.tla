------------------------------ MODULE ApplyProvision ------------------------------
(***************************************************************************)
(* ApplyAction as an implementation of Provision.  Runs, checkpoints,      *)
(* captures and faults are hidden; what is left is when an operation       *)
(* created what, and which endpoint and secret the state the host keeps    *)
(* names.                                                                  *)
(***************************************************************************)
EXTENDS ApplyAction

MintedAt == [op \in Ops |-> {[id |-> e.id, at |-> e.at] : e \in MintedBy(op)}]

KindOf(type) ==
    CASE type \in Creating -> "create"
      [] type = "UPDATE"   -> "update"
      [] type = "IMPORT"   -> "import"
      [] type \in {"DELETE", "PROJECT_OUTPUT"} -> "release"
      [] type = "NO_OP"    -> "nothing"

AskedOf == [op \in Ops |->
               IF status[op] = "new" THEN [kind |-> "nothing", endpoint |-> 0]
               ELSE [kind |-> KindOf(action[op].type), endpoint |-> action[op].remote]]

P == INSTANCE Provision WITH clock <- now, last <- lastId, minted <- MintedAt, asked <- AskedOf,
                             outcome <- status,
                             binding <- [endpoint |-> state.remote, secrets |-> state.refs]

\* Checkpoint, key, guard and secret resolution (apply.go applyCreate and finalize)
\* together keep what Provision promises, through retries, overlapping runs, lost
\* answers and a clock that advances at any moment.
ImplementsProvision == P!Spec
================================================================================
