------------------------------- MODULE ApplyAction -------------------------------
(***************************************************************************)
(* ApplyAction: how one planned action of one binding is carried out, how  *)
(* often the host retries it, and what Stripe and the host keep meanwhile. *)
(*                                                                         *)
(* A call of the handler is a "run".  It is split where it calls the host: *)
(* Begin (the host calls ApplyAction), RecordCheckpoint, one of the        *)
(* outcomes of ExecuteRequest, Complete (secret, state, receipt; the host  *)
(* persists what it gets).  Between two steps other runs of the same       *)
(* operation may act, the run may fail, and the clock may advance.         *)
(*                                                                         *)
(* External, modelled from the way the provider uses them:                 *)
(*  - Stripe: endpoints and an idempotency record per key, honoured for    *)
(*    Window after the request that made it;                               *)
(*  - the host: the latest checkpoint of an operation, whose delivery it   *)
(*    marks in the same step as the send; the captured secret of an        *)
(*    operation; the binding's state, of which it takes the first          *)
(*    successful answer of an operation; one operation open at a time.     *)
(***************************************************************************)
EXTENDS Webhook, FiniteSets

CONSTANTS Ops,          \* operation (and action) identities the host uses
          Runs,         \* attempts the host may make, over all operations
          ActionTypes,  \* the action types the host submits
          Targets,      \* desired webhooks (of Desired)
          Foreign,      \* endpoints on the account before, as a sequence
          Accounts,     \* whether the host attests an account identity
          Window,       \* the idempotency window, in ticks (24 hours)
          MaxClock,     \* bound of the clock
          MaxFaults,    \* bound on failed, lost, declined and overlapping calls
          TickInFlight, \* may the clock advance while a run is in flight?
          None          \* no operation, action, fields or body

ASSUME ApplyAssumption ==
    /\ Window \in Nat /\ MaxClock \in Nat /\ MaxFaults \in Nat
    /\ Foreign \in Seq(Endpoint) /\ Targets \subseteq Desired
    /\ TickInFlight \in BOOLEAN /\ Accounts \subseteq BOOLEAN
    /\ ActionTypes \subseteq {"CREATE", "REPLACE", "UPDATE", "DELETE", "IMPORT",
                              "PROJECT_OUTPUT", "NO_OP"}

VARIABLES now,         \* the clock the host, the provider and Stripe share
          endpoints,   \* Stripe: live endpoints by id
          lastId,      \* Stripe: the last endpoint id given out
          effects,     \* Stripe: every POST it carried out, with its key; history:
                       \* when the attempt that sent it began
          action,      \* the action of each operation
          status,      \* host: what became of each operation
          checkpoint,  \* host: the latest checkpoint of each operation
          captures,    \* host: the endpoint whose secret an operation captured
          state,       \* host: the binding's provider state
          run,         \* the attempts
          stamps,      \* history: checkpoints recorded for each operation
          refused,     \* history: operations a run has refused to re-send
          faults       \* calls that have gone wrong so far

stripe == <<endpoints, lastId, effects>>
vars == <<now, stripe, action, status, checkpoint, captures, state, run,
          stamps, refused, faults>>
--------------------------------------------------------------------------------
Creating == {"CREATE", "REPLACE"}           \* both are applyCreate
Sending  == Creating \cup {"UPDATE", "DELETE", "IMPORT"}

Action == [type : ActionTypes, remote : Nat, own : {"OWNED", "ADOPTED", "OBSERVED"},
           target : Targets \cup {None}, acct : BOOLEAN]

Checkpoint == [delivery : {"UNSPECIFIED", "NOT_SENT", "SENT_OUTCOME_UNKNOWN",
                           "RESPONSE_RECEIVED"},
               at : Nat]
\* A nil checkpoint reads as an unspecified delivery.
NoCheckpoint == [delivery |-> "UNSPECIFIED", at |-> 0]

\* ProviderStateV1; generation 0 is a binding without a state.
State == [gen : Nat, own : {"UNSPECIFIED", "OBSERVED", "OWNED", "ADOPTED"},
          remote : Nat, acct : BOOLEAN, refs : SUBSET Nat,
          fields : Desired \cup {None}, output : BOOLEAN]
NoState == [gen |-> 0, own |-> "UNSPECIFIED", remote |-> 0, acct |-> FALSE,
            refs |-> {}, fields |-> None, output |-> FALSE]

\* What ExecuteRequest returns; ok is a 2xx status.  secret: the body carried
\* the one-time signing secret and the host captured it.
Response == [delivery : {"NOT_SENT", "SENT_OUTCOME_UNKNOWN", "RESPONSE_RECEIVED"},
             ok : BOOLEAN, id : Nat, body : Endpoint \cup {None}, secret : BOOLEAN]
Failure(delivery) == [delivery |-> delivery, ok |-> FALSE, id |-> 0,
                      body |-> None, secret |-> FALSE]

Run == [pc : {"idle", "begin", "send", "answered", "ended"}, op : Ops \cup {None},
        since : Nat, prior : Checkpoint, entry : State, response : Response]
Idle  == [pc |-> "idle", op |-> None, since |-> 0, prior |-> NoCheckpoint,
          entry |-> NoState, response |-> Failure("NOT_SENT")]
Ended == [Idle EXCEPT !.pc = "ended"]

InFlight(r) == run[r].pc \in {"begin", "send", "answered"}
RunsOf(op)  == {r \in Runs : InFlight(r) /\ run[r].op = op}
MintedBy(op) == {e \in effects : e.kind = "create" /\ e.op = op}
OwnedIds == {i \in DOMAIN endpoints : MetadataMatchesBinding(endpoints[i].meta, Binding)}
--------------------------------------------------------------------------------
(* The helpers of the handler. *)

\* Mutant: only an answered attempt counts as one that may have created.
PriorWasAnswered(prior) == prior.delivery = "RESPONSE_RECEIVED"

PriorMayHaveCreated(prior) ==
    prior.delivery \in {"RESPONSE_RECEIVED", "SENT_OUTCOME_UNKNOWN"}

\* Every checkpoint is stamped, so a prior one always carries its time.
ReplayWindowExpired(prior) == now - prior.at > Window

\* The identity the host gives a run, and the key made of it.
Operation(r) == [operation |-> run[r].op, attempt |-> r]

\* Mutants: a key per attempt; a key made of the operation and the attempt.
AttemptKey(operation) == operation.attempt
OperationAttemptKey(operation) == <<operation.operation, operation.attempt>>

IdempotencyKey(operation) == operation.operation

\* Mutant: a teardown that needs an endpoint and no ownership.
NamesForTeardown(a) == a.remote # 0

OwnsForTeardown(a) == a.remote # 0 /\ a.own \in Owning

\* Each action result starts from a fresh state: only the generation carries over.
BaseState(entry, own) == [NoState EXCEPT !.gen = entry.gen + 1, !.own = own]

\* Mutant: the references of the previous state are kept beside the new ones.
OwnedStateKeepingRefs(entry, id, acct, own, fields, refs) ==
    [BaseState(entry, own) EXCEPT !.remote = id, !.acct = acct, !.fields = fields,
                                  !.refs = refs \cup entry.refs]

OwnedState(entry, id, acct, own, fields, refs) ==
    [BaseState(entry, own) EXCEPT !.remote = id, !.acct = acct, !.fields = fields,
                                  !.refs = refs]

UnchangedState(entry) == IF entry.gen # 0 THEN entry ELSE BaseState(entry, "OBSERVED")

InertState(a, entry) ==
    IF entry.gen # 0 THEN entry
    ELSE IF a.own \in Owning
         THEN [BaseState(entry, a.own) EXCEPT !.remote = a.remote, !.acct = a.acct]
         ELSE BaseState(entry, a.own)

\* ValidateVersioned (the state library), as finalize relies on it.
ValidState(s) == s.own \in Owning => s.remote # 0 /\ s.acct

DesiredOf(body) == [url |-> body.url, events |-> body.events, api |-> body.api,
                    desc |-> body.desc, meta |-> body.meta]

\* Mutant: after a lost answer, the references of the state the run entered with.
SigningSecretOfState(r) ==
    IF run[r].prior.delivery = "RESPONSE_RECEIVED"
    THEN run[r].entry.refs
    ELSE IF run[r].response.secret THEN {run[r].response.id} ELSE {}

\* resolveSigningSecret: the secrets it may come back with, none on an error.
SigningSecret(r) ==
    IF run[r].prior.delivery = "RESPONSE_RECEIVED"
    THEN {captures[run[r].op]} \ {0}
    ELSE IF run[r].response.secret THEN {run[r].response.id} ELSE {}

\* The states the handler can return after a 2xx response.
NextStates(r) ==
    LET a == action[run[r].op]
        entry == run[r].entry
        response == run[r].response
    IN  CASE a.type \in Creating ->
                 {OwnedState(entry, response.id, a.acct, "OWNED", a.target, {ref}) :
                     ref \in SigningSecret(r)}
          [] a.type = "UPDATE" ->
                 {OwnedState(entry, a.remote, a.acct, "OWNED", a.target, entry.refs)}
          [] a.type = "DELETE" -> {BaseState(entry, "OBSERVED")}
          [] a.type = "IMPORT" ->
                 {OwnedState(entry, a.remote, a.acct, "ADOPTED",
                             DesiredOf(response.body), {})}
--------------------------------------------------------------------------------
Init ==
    /\ now = 0 /\ faults = 0
    /\ endpoints = Foreign /\ lastId = Len(Foreign) /\ effects = {}
    /\ action = [op \in Ops |-> None]
    /\ status = [op \in Ops |-> "new"]
    /\ checkpoint = [op \in Ops |-> NoCheckpoint]
    /\ captures = [op \in Ops |-> 0]
    /\ state = NoState
    /\ run = [r \in Runs |-> Idle]
    /\ stamps = [op \in Ops |-> 0]
    /\ refused = [op \in Ops |-> FALSE]

(* The host. *)

\* A plan takes the newest endpoint this binding owns for the binding's.
NewestOwned == {i \in OwnedIds : \A j \in OwnedIds : j <= i}

\* The endpoint a plan of the account as it is names for each type of action: none,
\* the newest owned one, or any (a teardown the plan never emits, an import by exact
\* id).  It creates only where the binding owns nothing.
Nameable(type, target) ==
    CASE type = "CREATE"  -> {i \in {0} : OwnedIds = {}}
      [] type = "REPLACE" -> {i \in NewestOwned : endpoints[i].api # target.api}
      [] type = "UPDATE"  -> {i \in NewestOwned : endpoints[i].api = target.api}
      [] type = "PROJECT_OUTPUT" -> {0}
      [] type = "NO_OP"   -> {0} \cup NewestOwned
      [] type \in {"DELETE", "IMPORT"} -> DOMAIN endpoints

OwnershipOf(type, remote) ==
    IF type \in Creating \/ remote \in OwnedIds THEN "OWNED"
    ELSE IF remote # 0 /\ state.remote = remote /\ state.own \in Owning
         THEN state.own ELSE "OBSERVED"

SubmitAction(op, a) ==
    /\ status[op] = "new"
    /\ \A o \in Ops : status[o] # "open"
    /\ action' = [action EXCEPT ![op] = a]
    /\ status' = [status EXCEPT ![op] = "open"]
    /\ UNCHANGED <<now, stripe, checkpoint, captures, state, run, stamps, refused, faults>>

\* The desired webhook in the input of an operation, where its handler reads it.
Inputs(type) == IF type \in Creating \cup {"UPDATE"} THEN Targets ELSE {None}

Submit(op) ==
    \E type \in ActionTypes, acct \in Accounts :
      \E target \in Inputs(type) :
        \E remote \in Nameable(type, target) :
            SubmitAction(op, [type |-> type, remote |-> remote, target |-> target,
                              own |-> OwnershipOf(type, remote), acct |-> acct])

Fault == faults < MaxFaults /\ faults' = faults + 1

\* The host goes on without the attempts of op that still run: it has timed out on them.
TimesOut(op) == IF RunsOf(op) = {} THEN faults' = faults ELSE Fault

\* The host gives an operation up, to observe and plan again.
Abandon(op) ==
    /\ status[op] = "open" /\ TimesOut(op)
    /\ status' = [status EXCEPT ![op] = "abandoned"]
    /\ UNCHANGED <<now, stripe, action, checkpoint, captures, state, run, stamps, refused>>

\* The host calls ApplyAction with the latest checkpoint and the state.
Begin(r, op) ==
    /\ status[op] = "open" /\ run[r].pc = "idle" /\ TimesOut(op)
    /\ run' = [run EXCEPT ![r] = [Idle EXCEPT !.pc = "begin", !.op = op, !.since = now,
                                  !.prior = checkpoint[op], !.entry = state]]
    /\ UNCHANGED <<now, stripe, action, status, checkpoint, captures, state,
                   stamps, refused>>

\* What the host does with an answer: the first success settles the operation.
Answer(r, next, success) ==
    LET op == run[r].op IN
    /\ run' = [run EXCEPT ![r] = Ended]
    /\ state' = IF status[op] = "open" THEN next ELSE state
    /\ status' = IF status[op] = "open" /\ success
                 THEN [status EXCEPT ![op] = "applied"] ELSE status
    /\ UNCHANGED <<now, stripe, action, checkpoint, captures, stamps, faults>>
--------------------------------------------------------------------------------
(* The handler. *)

Act(r) == action[run[r].op]

MustRefuse(r) == /\ Act(r).type \in Creating
                 /\ PriorMayHaveCreated(run[r].prior)
                 /\ ReplayWindowExpired(run[r].prior)

\* The arguments a handler refuses with an error before any callback.
BadArguments(a) == \/ a.type \in {"UPDATE", "IMPORT"} /\ a.remote = 0
                   \/ a.type = "DELETE" /\ ~OwnsForTeardown(a)

\* Mutants: the checkpoint is stamped before the refusal; the refusal is an error
\* that the host never gets to see as uncertain.
RefuseAfterCheckpoint(r) ==
    LET op == run[r].op IN
    /\ run[r].pc = "begin" /\ MustRefuse(r)
    /\ checkpoint' = [checkpoint EXCEPT ![op] = [delivery |-> "NOT_SENT", at |-> now]]
    /\ refused' = [refused EXCEPT ![op] = TRUE]
    /\ run' = [run EXCEPT ![r] = Ended]
    /\ state' = IF status[op] = "open" THEN UnchangedState(run[r].entry) ELSE state
    /\ UNCHANGED <<now, stripe, action, status, captures, stamps, faults>>
RefuseAsError(r) ==
    /\ run[r].pc = "begin" /\ MustRefuse(r)
    /\ run' = [run EXCEPT ![r] = Ended]
    /\ UNCHANGED <<now, stripe, action, status, checkpoint, captures, state,
                   stamps, refused, faults>>

Refuse(r) ==
    /\ run[r].pc = "begin" /\ MustRefuse(r)
    /\ refused' = [refused EXCEPT ![run[r].op] = TRUE]
    /\ Answer(r, UnchangedState(run[r].entry), FALSE)

RecordCheckpoint(r) ==
    LET op == run[r].op IN
    /\ run[r].pc = "begin" /\ Act(r).type \in Sending
    /\ ~MustRefuse(r) /\ ~BadArguments(Act(r))
    /\ checkpoint' = [checkpoint EXCEPT ![op] = [delivery |-> "NOT_SENT", at |-> now]]
    /\ stamps' = [stamps EXCEPT ![op] = @ + 1]
    /\ run' = [run EXCEPT ![r].pc = "send"]
    /\ UNCHANGED <<now, stripe, action, status, captures, state, refused, faults>>

\* An action that never reaches Stripe: a committed projection, or nothing.
Local(r) ==
    /\ run[r].pc = "begin"
    /\ LET entry == run[r].entry IN
       \/ /\ Act(r).type = "PROJECT_OUTPUT"
          /\ Answer(r, [BaseState(entry, "OBSERVED") EXCEPT !.output = TRUE], TRUE)
       \/ /\ Act(r).type = "NO_OP" /\ ValidState(InertState(Act(r), entry))
          /\ Answer(r, InertState(Act(r), entry), TRUE)
    /\ UNCHANGED refused

\* A handler that ends in an error and persists nothing: arguments it refuses,
\* an invalid inert state, a secret it cannot resolve, a state finalize rejects.
Error(r) ==
    /\ \/ run[r].pc = "begin" /\ BadArguments(Act(r))
       \/ /\ run[r].pc = "begin" /\ Act(r).type = "NO_OP"
          /\ ~ValidState(InertState(Act(r), run[r].entry))
       \/ /\ run[r].pc = "answered" /\ run[r].response.ok
          /\ ~ \E s \in NextStates(r) : ValidState(s)
    /\ run' = [run EXCEPT ![r] = Ended]
    /\ UNCHANGED <<now, stripe, action, status, checkpoint, captures, state,
                   stamps, refused, faults>>

\* Mutant: a teardown of unknown outcome counts as done.
CompleteUnknown(r) ==
    /\ run[r].pc = "answered"
    /\ LET done == \/ run[r].response.ok
                   \/ /\ Act(r).type = "DELETE"
                      /\ run[r].response.delivery = "SENT_OUTCOME_UNKNOWN"
       IN  \/ ~done /\ Answer(r, UnchangedState(run[r].entry), FALSE)
           \/ done /\ \E s \in NextStates(r) : ValidState(s) /\ Answer(r, s, TRUE)
    /\ UNCHANGED refused

\* diagnoseResponse, and the rest of the handler when it finds nothing wrong.
Complete(r) ==
    /\ run[r].pc = "answered"
    /\ \/ /\ ~run[r].response.ok
          /\ Answer(r, UnchangedState(run[r].entry), FALSE)
       \/ /\ run[r].response.ok
          /\ \E s \in NextStates(r) : ValidState(s) /\ Answer(r, s, TRUE)
    /\ UNCHANGED refused

\* The run dies: a crash, a cancelled call, a callback that returns an error, a
\* checkpoint or projection the host does not commit.
Fail(r) ==
    /\ InFlight(r) /\ Fault
    /\ run' = [run EXCEPT ![r] = Ended]
    /\ UNCHANGED <<now, stripe, action, status, checkpoint, captures, state,
                   stamps, refused>>
--------------------------------------------------------------------------------
(* ExecuteRequest: Stripe's side, and what the host makes of it. *)

\* The POST a key already stands for, while Stripe honours it.
Recorded(key) == {e \in effects : e.key = key /\ now - e.at <= Window}

Effect(r, kind, id) == [op |-> run[r].op, key |-> IdempotencyKey(Operation(r)),
                        kind |-> kind, id |-> id, at |-> now, began |-> run[r].since]

\* Stripe carries the request of r out; id is the endpoint it concerned.
Perform(r, id) ==
    LET a == Act(r)
        recorded == Recorded(IdempotencyKey(Operation(r)))
    IN  \/ /\ a.type \in Creating /\ recorded = {}
           /\ id = lastId + 1 /\ lastId' = id
           /\ endpoints' = [i \in DOMAIN endpoints \cup {id} |->
                               IF i = id THEN CreateBody(a.target) ELSE endpoints[i]]
           /\ effects' = effects \cup {Effect(r, "create", id)}
        \/ /\ a.type = "UPDATE" /\ recorded = {} /\ id = a.remote
           /\ a.remote \in DOMAIN endpoints /\ lastId' = lastId
           /\ endpoints' = [endpoints EXCEPT ![id] = UpdateBody(@, a.target)]
           /\ effects' = effects \cup {Effect(r, "update", id)}
        \/ /\ a.type \in Creating \cup {"UPDATE"} \* a replay of the first answer
           /\ \E e \in recorded : id = e.id
           /\ UNCHANGED stripe
        \/ /\ a.type = "DELETE" /\ id = a.remote /\ id \in DOMAIN endpoints
           /\ endpoints' = [i \in DOMAIN endpoints \ {id} |-> endpoints[i]]
           /\ UNCHANGED <<lastId, effects>>
        \/ /\ a.type = "IMPORT" /\ id = a.remote /\ id \in DOMAIN endpoints
           /\ UNCHANGED stripe

\* A request on an endpoint that is gone (and no answer to replay) is a 404.
Missing(r) == /\ Act(r).type \notin Creating
              /\ Act(r).remote \notin DOMAIN endpoints
              /\ Recorded(IdempotencyKey(Operation(r))) = {}

Respond(r, response) ==
    run' = [run EXCEPT ![r].pc = "answered", ![r].response = response]

Mark(r, delivery) ==
    checkpoint' = [checkpoint EXCEPT ![run[r].op].delivery = delivery]

\* A 2xx answer.  A create answers with the secret, which the host captures; that
\* an answer lacks it is a fault.
Receive(r) ==
    /\ run[r].pc = "send"
    /\ \E id \in 0..(lastId + 1), secret \in BOOLEAN :
        /\ Perform(r, id)
        /\ secret => Act(r).type \in Creating
        /\ Respond(r, [delivery |-> "RESPONSE_RECEIVED", ok |-> TRUE, id |-> id,
                       body |-> IF Act(r).type = "IMPORT" THEN endpoints[id] ELSE None,
                       secret |-> secret])
        /\ captures' = IF secret THEN [captures EXCEPT ![run[r].op] = id] ELSE captures
        /\ IF ~secret /\ Act(r).type \in Creating THEN Fault ELSE faults' = faults
    /\ Mark(r, "RESPONSE_RECEIVED")
    /\ UNCHANGED <<now, action, status, state, stamps, refused>>

\* Stripe refuses the request: it cannot find the endpoint, or for any reason of
\* its own (a rate limit, a quota, an outage).
Decline(r) ==
    /\ run[r].pc = "send"
    /\ IF Missing(r) THEN faults' = faults ELSE Fault
    /\ Respond(r, Failure("RESPONSE_RECEIVED"))
    /\ Mark(r, "RESPONSE_RECEIVED")
    /\ UNCHANGED <<now, stripe, action, status, captures, state, stamps, refused>>

\* The bytes left and no answer came: the request took effect or it did not.
Lose(r) ==
    /\ run[r].pc = "send" /\ Fault
    /\ \/ UNCHANGED stripe
       \/ \E id \in 0..(lastId + 1) : Perform(r, id)
    /\ Respond(r, Failure("SENT_OUTCOME_UNKNOWN"))
    /\ Mark(r, "SENT_OUTCOME_UNKNOWN")
    /\ UNCHANGED <<now, action, status, captures, state, stamps, refused>>

\* The broker could not send.
NotSend(r) ==
    /\ run[r].pc = "send" /\ Fault
    /\ Respond(r, Failure("NOT_SENT"))
    /\ UNCHANGED <<now, stripe, action, status, checkpoint, captures, state, stamps, refused>>

Tick ==
    /\ now < MaxClock
    /\ TickInFlight \/ \A r \in Runs : ~InFlight(r)
    /\ now' = now + 1
    /\ UNCHANGED <<stripe, action, status, checkpoint, captures, state, run, stamps,
                   refused, faults>>
--------------------------------------------------------------------------------
Execute(r) == Receive(r) \/ Decline(r) \/ Lose(r) \/ NotSend(r)

Handle(r) == Refuse(r) \/ RecordCheckpoint(r) \/ Local(r) \/ Error(r) \/ Complete(r)

Next ==
    \/ \E op \in Ops : Submit(op) \/ Abandon(op)
    \/ \E r \in Runs : \/ \E op \in Ops : Begin(r, op)
                       \/ Handle(r) \/ Execute(r) \/ Fail(r)
    \/ Tick

Spec == Init /\ [][Next]_vars

\* A run goes on as long as nothing stops it, and the host retries an open
\* operation; that it submits, gives up, or that anything fails is not assumed.
Fairness ==
    /\ \A r \in Runs : WF_vars(Handle(r)) /\ WF_vars(Execute(r))
    /\ \A op \in Ops : WF_vars(\E r \in Runs : Begin(r, op))

FairSpec == Spec /\ Fairness
--------------------------------------------------------------------------------
TypeOK ==
    /\ now \in Nat /\ faults \in Nat /\ lastId \in Nat
    /\ DOMAIN endpoints \subseteq 1..lastId
    /\ \A i \in DOMAIN endpoints : endpoints[i] \in Endpoint
    /\ effects \subseteq [op : Ops, key : Ops \cup Runs, kind : {"create", "update"},
                          id : Nat, at : Nat, began : Nat]
    /\ action \in [Ops -> Action \cup {None}]
    /\ status \in [Ops -> {"new", "open", "applied", "abandoned"}]
    /\ checkpoint \in [Ops -> Checkpoint]
    /\ captures \in [Ops -> Nat]
    /\ state \in State
    /\ run \in [Runs -> Run]
    /\ stamps \in [Ops -> Nat]
    /\ refused \in [Ops -> BOOLEAN]

\* Two endpoints created by one operation are more than the idempotency window
\* apart: within it, whatever is retried, lost, failed or run twice at once, the
\* stable key (apply.go idempotencyKey) collapses every create onto the first.
MintsAreAWindowApart ==
    \A op \in Ops : \A e, f \in MintedBy(op) :
        e # f => e.at + Window < f.at \/ f.at + Window < e.at

\* The guard on the prior checkpoint (apply.go applyCreate) closes what the key leaves
\* open: when an attempt that began after the window of an endpoint of its operation
\* creates another, it is a third send at least, whose guard read a time that the
\* second had overwritten.  An attempt that began within the window may still pass the
\* guard in time and send too late, however few there are.
DuplicateNeedsTwoRetries ==
    \A op \in Ops : \A e, f \in MintedBy(op) : e.at + Window < f.began => stamps[op] > 2

\* Once a run has refused to re-send a create, no later run of the operation
\* creates an endpoint or overwrites the checkpoint the refusal rests on, however
\* often the host retries - as long as no attempt runs on from one tick to the next
\* (TickInFlight is FALSE): one that began, or passed the guard, before the window
\* closed may still re-stamp or create when another has been refused.
RefusalIsFinal ==
    [][\A op \in Ops : refused[op] => /\ MintedBy(op)' = MintedBy(op)
                                      /\ checkpoint'[op] = checkpoint[op]]_vars

\* "A replay after a lost response creates no duplicate" (apply.go ApplyAction).
NoDuplicateEndpoint ==
    \A op \in Ops : \A e, f \in MintedBy(op) : e = f

\* "The signing secret was minted once at create time" (apply.go applyUpdate): the secret
\* a state refers to is that of the endpoint it names.
SecretFollowsEndpoint ==
    state.own \in Owning => state.refs \subseteq {state.remote}

\* As long as no operation has created two endpoints, only an update, which copies the
\* references of the state it is given, can leave the binding with the secret of another
\* endpoint than the one it names: however answers are lost and captures resolved
\* later, creates, replaces, imports, projections and teardowns never mix up two
\* endpoints' secrets (apply.go resolveSigningSecret).
SecretStraysOnlyByUpdate ==
    NoDuplicateEndpoint /\ state.own \in Owning /\ ~(state.refs \subseteq {state.remote})
        => \E op \in Ops : /\ status[op] = "applied" /\ action[op].type = "UPDATE"
                          /\ action[op].remote = state.remote

\* "Its capture reference must survive the update untouched" (apply.go
\* applyUpdate): a state that owns an endpoint this binding's own create captured
\* the secret of still refers to that secret.
SecretSurvivesUpdate ==
    \A op \in Ops : \A e \in MintedBy(op) :
        status[op] = "applied" /\ state.own = "OWNED" /\ state.remote = e.id
            => e.id \in state.refs

\* Between operations, when none was given up, an owned or adopted state describes
\* what Stripe holds: the endpoint it names lives and has the fields it records,
\* although runs the host timed out on may still be carried out behind it.
StateDescribesEndpoint ==
    /\ \A op \in Ops : status[op] \in {"new", "applied"}
    /\ state.own \in Owning /\ state.fields # None
    => /\ state.remote \in DOMAIN endpoints
       /\ DesiredOf(endpoints[state.remote]) = state.fields

\* An endpoint without this binding's metadata is never changed, and is deleted
\* only when an import has made it the one the binding's state names.
ForeignKept ==
    \A i \in DOMAIN endpoints \ OwnedIds :
       \/ i \in DOMAIN endpoints' /\ endpoints'[i] = endpoints[i]
       \/ \E op \in Ops : /\ status[op] # "new" /\ action[op].type = "DELETE"
                         /\ action[op].remote = i /\ action[op].own = "ADOPTED"

ForeignUntouched == [][ForeignKept]_vars

\* The state lets go of an endpoint only with a teardown after which the endpoint it
\* named is gone (apply.go applyDelete), a committed projection aside: a teardown that
\* was lost, declined, not sent or found nothing leaves the binding its owner.
LetGoOnlyWhenGone ==
    [][state.own \in Owning /\ state'.own \notin Owning =>
          \E op \in Ops : /\ status[op] = "open" /\ status'[op] = "applied"
                         /\ \/ action[op].type = "PROJECT_OUTPUT"
                            \/ /\ action[op].type = "DELETE"
                               /\ action[op].remote \notin DOMAIN endpoints]_vars

\* With the host retrying and faults that end, an operation that changes the account
\* is settled: applied, given up, or refused for the host to reconcile.  Where the host
\* attests no account, finalize rejects every state that owns an endpoint (apply.go
\* finalize) and the operation is never settled.
OperationsSettle ==
    \A op \in Ops : status[op] = "open" /\ action[op].acct
                       ~> status[op] \in {"applied", "abandoned"} \/ refused[op]
================================================================================
