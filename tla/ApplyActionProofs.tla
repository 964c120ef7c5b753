--------------------------- MODULE ApplyActionProofs ---------------------------
(***************************************************************************)
(* Theorems about ApplyAction, for every value of its constants: type      *)
(* correctness, that the creates of one operation are an idempotency       *)
(* window apart, that an attempt which began after the window duplicates   *)
(* only as a third send and, where no attempt runs on from one tick to the *)
(* next (TickInFlight is FALSE), that a refusal to re-send is final.       *)
(***************************************************************************)
EXTENDS ApplyAction, TLAPS

\* What a run in flight carries: its operation has been submitted with an action (and
\* a target, where the handler reads one), it has passed the dispatch, and an import
\* that succeeded read an endpoint.
RunsAreTyped ==
    /\ \A op \in Ops : status[op] # "new" =>
          /\ action[op] \in Action
          /\ action[op].type \in Creating \cup {"UPDATE"} => action[op].target \in Targets
    /\ \A r \in Runs :
        /\ InFlight(r) => run[r].op \in Ops /\ status[run[r].op] # "new"
        /\ run[r].pc \in {"send", "answered"} => Act(r).type \in Sending
        /\ run[r].pc = "answered" /\ run[r].response.ok /\ Act(r).type = "IMPORT"
               => run[r].response.body \in Endpoint

WellFormed == TypeOK /\ RunsAreTyped
--------------------------------------------------------------------------------
(* The values the operators build have the types of what they are assigned to. *)

LEMMA CreateBodyType ==
    ASSUME NEW t \in Desired PROVE CreateBody(t) \in Endpoint
  BY DEF Desired, Endpoint, CreateBody

LEMMA UpdateBodyType ==
    ASSUME NEW e \in Endpoint, NEW t \in Desired PROVE UpdateBody(e, t) \in Endpoint
  BY DEF Desired, Endpoint, UpdateBody

LEMMA DesiredOfType ==
    ASSUME NEW e \in Endpoint PROVE DesiredOf(e) \in Desired
  BY DEF Desired, Endpoint, DesiredOf

LEMMA BaseStateType ==
    ASSUME NEW s \in State, NEW own \in {"OBSERVED", "OWNED", "ADOPTED"}
    PROVE  BaseState(s, own) \in State
  <1>1. s.gen + 1 \in Nat
    BY DEF State
  <1>2. NoState \in State
    BY DEF State, NoState
  <1> QED BY <1>1, <1>2 DEF State, BaseState

LEMMA OwnedStateType ==
    ASSUME NEW s \in State, NEW own \in {"OBSERVED", "OWNED", "ADOPTED"},
           NEW id \in Nat, NEW acct \in BOOLEAN, NEW fields \in Desired \cup {None},
           NEW refs \in SUBSET Nat
    PROVE  OwnedState(s, id, acct, own, fields, refs) \in State
  <1>1. BaseState(s, own) \in State
    BY BaseStateType
  <1> QED BY <1>1 DEF State, OwnedState

LEMMA UnchangedStateType ==
    ASSUME NEW s \in State PROVE UnchangedState(s) \in State
  BY BaseStateType DEF UnchangedState

LEMMA InertStateType ==
    ASSUME NEW s \in State, NEW a \in Action PROVE InertState(a, s) \in State
  <1>1. a.own \in {"OBSERVED", "OWNED", "ADOPTED"} /\ a.remote \in Nat /\ a.acct \in BOOLEAN
    BY DEF Action
  <1>2. BaseState(s, a.own) \in State
    BY <1>1, BaseStateType
  <1> QED BY <1>1, <1>2 DEF InertState, State

\* The states a handler may return after a success.
LEMMA NextStatesType ==
    ASSUME WellFormed, NEW r \in Runs, run[r].pc = "answered", run[r].response.ok,
           NEW s \in NextStates(r)
    PROVE  s \in State
  <1> DEFINE op == run[r].op
             a == action[op]
             entry == run[r].entry
             response == run[r].response
  <1>1. /\ op \in Ops /\ a \in Action /\ a.type \in Sending
        /\ entry \in State /\ response \in Response
        /\ a.type = "IMPORT" => response.body \in Endpoint
    BY DEF WellFormed, TypeOK, RunsAreTyped, Run, InFlight, Act
  <1>2. a.remote \in Nat /\ a.acct \in BOOLEAN /\ a.target \in Targets \cup {None}
    BY <1>1 DEF Action
  <1>3. a.target \in Desired \cup {None}
    BY <1>2, ApplyAssumption
  <1>4. entry.refs \in SUBSET Nat /\ response.id \in Nat
    BY <1>1 DEF State, Response
  <1>5. SigningSecret(r) \subseteq Nat
    BY <1>1, <1>4 DEF SigningSecret, WellFormed, TypeOK
  <1>6. CASE a.type \in Creating
    <2>1. PICK ref \in SigningSecret(r) :
            s = OwnedState(entry, response.id, a.acct, "OWNED", a.target, {ref})
      BY <1>6 DEF NextStates, Creating
    <2>2. {ref} \in SUBSET Nat
      BY <1>5, <2>1
    <2> QED BY <2>1, <2>2, <1>1, <1>2, <1>3, <1>4, OwnedStateType
  <1>7. CASE a.type = "UPDATE"
    <2>1. s = OwnedState(entry, a.remote, a.acct, "OWNED", a.target, entry.refs)
      BY <1>7 DEF NextStates, Creating
    <2> QED BY <2>1, <1>1, <1>2, <1>3, <1>4, OwnedStateType
  <1>8. CASE a.type = "DELETE"
    <2>1. s = BaseState(entry, "OBSERVED")
      BY <1>8 DEF NextStates, Creating
    <2> QED BY <2>1, <1>1, BaseStateType
  <1>9. CASE a.type = "IMPORT"
    <2>1. s = OwnedState(entry, a.remote, a.acct, "ADOPTED", DesiredOf(response.body), {})
      BY <1>9 DEF NextStates, Creating
    <2>2. DesiredOf(response.body) \in Desired
      BY <1>1, <1>9, DesiredOfType
    <2> QED BY <2>1, <2>2, <1>1, <1>2, OwnedStateType
  <1> QED BY <1>1, <1>6, <1>7, <1>8, <1>9 DEF Sending
--------------------------------------------------------------------------------
(* Type correctness. *)

LEMMA WellFormedInit == Init => WellFormed
  <1> SUFFICES ASSUME Init PROVE WellFormed
    OBVIOUS
  <1> USE ApplyAssumption
  <1>1. /\ Len(Foreign) \in Nat /\ DOMAIN Foreign = 1..Len(Foreign)
        /\ \A i \in DOMAIN Foreign : Foreign[i] \in Endpoint
    OBVIOUS
  <1>2. NoState \in State /\ NoCheckpoint \in Checkpoint
        /\ Failure("NOT_SENT") \in Response
    BY DEF NoState, State, NoCheckpoint, Checkpoint, Failure, Response
  <1>3. Idle \in Run
    BY <1>2 DEF Idle, Run
  <1>4. TypeOK
    BY <1>1, <1>2, <1>3 DEF Init, TypeOK
  <1>5. RunsAreTyped
    BY DEF Init, RunsAreTyped, InFlight, Idle
  <1> QED BY <1>4, <1>5 DEF WellFormed

\* A run that has ended is typed, whatever it was.
LEMMA EndedType == Ended \in Run
  BY DEF Ended, Idle, Run, NoState, State, NoCheckpoint, Checkpoint, Failure, Response

LEMMA SubmitType ==
    ASSUME WellFormed, NEW op \in Ops, Submit(op) PROVE WellFormed'
  <1> USE ApplyAssumption DEF WellFormed
  <1>1. PICK type \in ActionTypes, acct \in Accounts :
          \E target \in Inputs(type) : \E remote \in Nameable(type, target) :
            SubmitAction(op, [type |-> type, remote |-> remote, target |-> target,
                              own |-> OwnershipOf(type, remote), acct |-> acct])
    BY DEF Submit
  <1>2. PICK target \in Inputs(type) : \E remote \in Nameable(type, target) :
            SubmitAction(op, [type |-> type, remote |-> remote, target |-> target,
                              own |-> OwnershipOf(type, remote), acct |-> acct])
    BY <1>1
  <1>12. PICK remote \in Nameable(type, target) :
            SubmitAction(op, [type |-> type, remote |-> remote, target |-> target,
                              own |-> OwnershipOf(type, remote), acct |-> acct])
    BY <1>2
  <1> DEFINE a == [type |-> type, remote |-> remote, target |-> target,
                   own |-> OwnershipOf(type, remote), acct |-> acct]
  <1>3. OwnedIds \subseteq Nat /\ DOMAIN endpoints \subseteq Nat
    BY DEF TypeOK, OwnedIds
  <1>4. remote \in Nat
    BY <1>3 DEF Nameable, NewestOwned
  <1>5. OwnershipOf(type, remote) \in {"OWNED", "ADOPTED", "OBSERVED"}
    BY DEF OwnershipOf, Owning
  <1>6. target \in Targets \cup {None}
    BY DEF Inputs
  <1>7. a \in Action
    BY <1>4, <1>5, <1>6 DEF Action
  <1>8. SubmitAction(op, a)
    BY <1>12
  <1> HIDE DEF a
  <1>9. TypeOK'
    BY <1>7, <1>8 DEF TypeOK, SubmitAction, stripe
  <1>11. a.type \in Creating \cup {"UPDATE"} => a.target \in Targets
    BY DEF a, Inputs, Creating
  <1>10. RunsAreTyped'
    BY <1>7, <1>8, <1>11 DEF RunsAreTyped, TypeOK, SubmitAction, InFlight, Act
  <1> QED BY <1>9, <1>10

LEMMA BeginType ==
    ASSUME WellFormed, NEW r \in Runs, NEW op \in Ops, Begin(r, op) PROVE WellFormed'
  <1> USE DEF WellFormed
  <1> DEFINE started == [Idle EXCEPT !.pc = "begin", !.op = op, !.since = now,
                                     !.prior = checkpoint[op], !.entry = state]
  <1>1. started \in Run
    BY DEF Idle, Run, TypeOK, Failure, Response
  <1>2. started.pc = "begin" /\ started.op = op
    BY DEF Idle
  <1>3. run' = [run EXCEPT ![r] = started] /\ status[op] = "open"
    BY DEF Begin
  <1> HIDE DEF started
  <1>6. faults' \in Nat
    BY DEF TypeOK, Begin, TimesOut, Fault
  <1>7. run' \in [Runs -> Run]
    BY <1>1, <1>3 DEF TypeOK
  <1>4. TypeOK'
    BY <1>6, <1>7 DEF TypeOK, Begin, stripe
  <1>5. RunsAreTyped'
    BY <1>2, <1>3 DEF RunsAreTyped, TypeOK, Begin, InFlight, Act
  <1> QED BY <1>4, <1>5

\* An answer that persists a typed state.
LEMMA AnswerType ==
    ASSUME WellFormed, NEW r \in Runs, NEW next \in State, NEW success \in BOOLEAN,
           InFlight(r), Answer(r, next, success), refused' \in [Ops -> BOOLEAN]
    PROVE  WellFormed'
  <1> USE DEF WellFormed
  <1>1. run' = [run EXCEPT ![r] = Ended] /\ Ended.pc = "ended" /\ Ended \in Run
    BY EndedType DEF Answer, Ended, Idle
  <1>2. run[r].op \in Ops /\ status[run[r].op] # "new"
    BY DEF RunsAreTyped
  <1>3. TypeOK'
    BY <1>1, <1>2 DEF TypeOK, Answer, stripe
  <1>4. \A op \in Ops : status'[op] # "new" => status[op] # "new"
    BY <1>2 DEF Answer, TypeOK
  <1>5. \A op \in Ops : status[op] # "new" => status'[op] # "new"
    BY <1>2 DEF Answer, TypeOK
  <1>6. RunsAreTyped'
    BY <1>1, <1>4, <1>5 DEF RunsAreTyped, TypeOK, Answer, InFlight, Act
  <1> QED BY <1>3, <1>6

LEMMA HandleType ==
    ASSUME WellFormed, NEW r \in Runs, Handle(r) PROVE WellFormed'
  <1> USE DEF WellFormed
  <1> DEFINE op == run[r].op
             entry == run[r].entry
  <1>1. InFlight(r) /\ op \in Ops /\ status[op] # "new" /\ Act(r) \in Action
        /\ entry \in State /\ run[r] \in Run
    BY DEF Handle, Refuse, RecordCheckpoint, Local, Error, Complete, InFlight,
           RunsAreTyped, TypeOK, Run, Act
  <1>2. CASE Refuse(r)
    <2>1. refused' \in [Ops -> BOOLEAN]
      BY <1>1, <1>2 DEF Refuse, TypeOK
    <2>2. Answer(r, UnchangedState(entry), FALSE)
      BY <1>2 DEF Refuse
    <2> QED BY <2>1, <2>2, <1>1, UnchangedStateType, AnswerType
  <1>3. CASE RecordCheckpoint(r)
    <2>1. checkpoint' \in [Ops -> Checkpoint]
      <3>1. [delivery |-> "NOT_SENT", at |-> now] \in Checkpoint
        BY DEF TypeOK, Checkpoint
      <3>2. checkpoint' = [checkpoint EXCEPT ![op] = [delivery |-> "NOT_SENT", at |-> now]]
        BY <1>3 DEF RecordCheckpoint
      <3>3. checkpoint \in [Ops -> Checkpoint]
        BY DEF TypeOK
      <3> QED BY <3>1, <3>2, <3>3, Zenon
    <2>2. stamps' \in [Ops -> Nat]
      BY <1>1, <1>3 DEF RecordCheckpoint, TypeOK
    <2>3. run' \in [Runs -> Run]
      <3>1. run' = [run EXCEPT ![r].pc = "send"] /\ run \in [Runs -> Run]
        BY <1>3 DEF RecordCheckpoint, TypeOK
      <3>2. [run[r] EXCEPT !.pc = "send"] \in Run
        BY <1>1 DEF Run
      <3> QED BY <3>1, <3>2
    <2>4. UNCHANGED <<now, stripe, action, status, captures, state, refused, faults>>
      BY <1>3 DEF RecordCheckpoint
    <2>5. TypeOK'
      BY <2>1, <2>2, <2>3, <2>4 DEF TypeOK, stripe
    <2>6. RunsAreTyped'
      BY <1>1, <1>3 DEF RecordCheckpoint, RunsAreTyped, TypeOK, InFlight, Act, Run
    <2> QED BY <2>5, <2>6
  <1>4. CASE Local(r)
    <2>1. refused' \in [Ops -> BOOLEAN]
      BY <1>4 DEF Local, TypeOK
    <2>2. [BaseState(entry, "OBSERVED") EXCEPT !.output = TRUE] \in State
      BY <1>1, BaseStateType DEF State
    <2>3. InertState(Act(r), entry) \in State
      BY <1>1, InertStateType
    <2>4. \/ Answer(r, [BaseState(entry, "OBSERVED") EXCEPT !.output = TRUE], TRUE)
          \/ Answer(r, InertState(Act(r), entry), TRUE)
      BY <1>4 DEF Local
    <2> QED BY <2>1, <2>2, <2>3, <2>4, <1>1, AnswerType
  <1>5. CASE Error(r)
    <2>1. run' = [run EXCEPT ![r] = Ended] /\ Ended.pc = "ended" /\ Ended \in Run
      BY <1>5, EndedType DEF Error, Ended, Idle
    <2>2. TypeOK'
      BY <1>5, <2>1 DEF Error, TypeOK, stripe
    <2>3. RunsAreTyped'
      BY <1>5, <2>1 DEF Error, RunsAreTyped, TypeOK, InFlight, Act
    <2> QED BY <2>2, <2>3
  <1>6. CASE Complete(r)
    <2>1. refused' \in [Ops -> BOOLEAN]
      BY <1>6 DEF Complete, TypeOK
    <2>2. CASE ~run[r].response.ok
      <3>1. Answer(r, UnchangedState(entry), FALSE)
        BY <1>6, <2>2 DEF Complete
      <3> QED BY <3>1, <2>1, <1>1, UnchangedStateType, AnswerType
    <2>3. CASE run[r].response.ok
      <3>1. PICK s \in NextStates(r) : Answer(r, s, TRUE)
        BY <1>6, <2>3 DEF Complete
      <3>2. s \in State
        BY <1>6, <2>3, NextStatesType DEF Complete
      <3> QED BY <3>1, <3>2, <2>1, <1>1, AnswerType
    <2> QED BY <2>2, <2>3
  <1> QED BY <1>2, <1>3, <1>4, <1>5, <1>6 DEF Handle

\* Stripe's side stays typed whatever request it carries out.
StripeTyped ==
    /\ lastId \in Nat /\ DOMAIN endpoints \subseteq 1..lastId
    /\ \A i \in DOMAIN endpoints : endpoints[i] \in Endpoint
    /\ effects \subseteq [op : Ops, key : Ops \cup Runs, kind : {"create", "update"},
                          id : Nat, at : Nat, began : Nat]

LEMMA EffectType ==
    ASSUME WellFormed, NEW r \in Runs, run[r].pc = "send",
           NEW kind \in {"create", "update"}, NEW id \in Nat
    PROVE  Effect(r, kind, id) \in [op : Ops, key : Ops \cup Runs,
                                    kind : {"create", "update"}, id : Nat, at : Nat, began : Nat]
  <1>1. run[r].op \in Ops /\ run[r].since \in Nat /\ now \in Nat
    BY DEF WellFormed, RunsAreTyped, TypeOK, InFlight, Run
  <1> QED BY <1>1 DEF Effect, IdempotencyKey, Operation

LEMMA PerformType ==
    ASSUME WellFormed, NEW r \in Runs, run[r].pc = "send", NEW id \in Nat, Perform(r, id)
    PROVE  StripeTyped' /\ (Act(r).type = "IMPORT" => endpoints[id] \in Endpoint)
  <1> DEFINE a == Act(r)
             recorded == Recorded(IdempotencyKey(Operation(r)))
  <1>1. StripeTyped /\ a \in Action /\ a.remote \in Nat
    BY DEF WellFormed, TypeOK, RunsAreTyped, InFlight, Act, Action, StripeTyped
  <1>2. a.type \in Creating \cup {"UPDATE"} => a.target \in Desired
    BY ApplyAssumption DEF WellFormed, RunsAreTyped, InFlight, Act
  <1>3. \A kind \in {"create", "update"} :
          Effect(r, kind, id) \in [op : Ops, key : Ops \cup Runs,
                                  kind : {"create", "update"}, id : Nat, at : Nat, began : Nat]
    BY EffectType
  <1> HIDE DEF a, recorded
  <1>4. CASE /\ a.type \in Creating /\ recorded = {}
             /\ id = lastId + 1 /\ lastId' = id
             /\ endpoints' = [i \in DOMAIN endpoints \cup {id} |->
                                IF i = id THEN CreateBody(a.target) ELSE endpoints[i]]
             /\ effects' = effects \cup {Effect(r, "create", id)}
    <2>1. CreateBody(a.target) \in Endpoint
      BY <1>2, <1>4, CreateBodyType
    <2>2. lastId' \in Nat /\ DOMAIN endpoints' \subseteq 1..lastId'
      BY <1>1, <1>4 DEF StripeTyped
    <2>3. \A i \in DOMAIN endpoints' : endpoints'[i] \in Endpoint
      BY <2>1, <1>1, <1>4 DEF StripeTyped
    <2> QED BY <2>2, <2>3, <1>1, <1>3, <1>4 DEF StripeTyped, a, Creating
  <1>5. CASE /\ a.type = "UPDATE" /\ recorded = {} /\ id = a.remote
             /\ a.remote \in DOMAIN endpoints /\ lastId' = lastId
             /\ endpoints' = [endpoints EXCEPT ![id] = UpdateBody(@, a.target)]
             /\ effects' = effects \cup {Effect(r, "update", id)}
    <2>1. UpdateBody(endpoints[id], a.target) \in Endpoint
      BY <1>1, <1>2, <1>5, UpdateBodyType DEF StripeTyped
    <2>2. \A i \in DOMAIN endpoints' : endpoints'[i] \in Endpoint
      BY <2>1, <1>1, <1>5 DEF StripeTyped
    <2> QED BY <2>2, <1>1, <1>3, <1>5 DEF StripeTyped, a
  <1>6. CASE a.type \in Creating \cup {"UPDATE"} /\ UNCHANGED stripe
    BY <1>1, <1>6 DEF StripeTyped, stripe, Creating, a
  <1>7. CASE /\ a.type = "DELETE" /\ id = a.remote /\ id \in DOMAIN endpoints
             /\ endpoints' = [i \in DOMAIN endpoints \ {id} |-> endpoints[i]]
             /\ UNCHANGED <<lastId, effects>>
    BY <1>1, <1>7 DEF StripeTyped, a
  <1>8. CASE /\ a.type = "IMPORT" /\ id = a.remote /\ id \in DOMAIN endpoints
             /\ UNCHANGED stripe
    BY <1>1, <1>8 DEF StripeTyped, stripe
  <1> QED BY <1>4, <1>5, <1>6, <1>7, <1>8 DEF Perform, a, recorded

\* What the answer of the host to a run in flight is: it is typed, and the run is.
LEMMA RespondType ==
    ASSUME WellFormed, NEW r \in Runs, run[r].pc = "send", NEW response \in Response,
           Respond(r, response),
           response.ok /\ Act(r).type = "IMPORT" => response.body \in Endpoint,
           UNCHANGED <<action, status>>
    PROVE  run' \in [Runs -> Run] /\ RunsAreTyped'
  <1> USE DEF WellFormed
  <1>1. run' = [run EXCEPT ![r] = [run[r] EXCEPT !.pc = "answered", !.response = response]]
    BY DEF Respond, TypeOK, Run
  <1>2. run' \in [Runs -> Run]
    BY <1>1 DEF TypeOK, Run
  <1>3. /\ run'[r].pc = "answered" /\ run'[r].op = run[r].op
        /\ run'[r].response = response
        /\ \A q \in Runs : q # r => run'[q] = run[q]
    BY <1>1 DEF TypeOK, Run
  <1>4. RunsAreTyped'
    BY <1>3 DEF RunsAreTyped, InFlight, Act
  <1> QED BY <1>2, <1>4

LEMMA MarkType ==
    ASSUME WellFormed, NEW r \in Runs, run[r].pc = "send", NEW delivery,
           delivery \in {"SENT_OUTCOME_UNKNOWN", "RESPONSE_RECEIVED"}, Mark(r, delivery)
    PROVE  checkpoint' \in [Ops -> Checkpoint]
  BY DEF WellFormed, TypeOK, RunsAreTyped, InFlight, Mark, Checkpoint

LEMMA FailureType ==
    ASSUME NEW delivery \in {"NOT_SENT", "SENT_OUTCOME_UNKNOWN", "RESPONSE_RECEIVED"}
    PROVE  Failure(delivery) \in Response /\ ~Failure(delivery).ok
  BY DEF Failure, Response

LEMMA ExecuteType ==
    ASSUME WellFormed, NEW r \in Runs, Execute(r) PROVE WellFormed'
  <1> USE ApplyAssumption DEF WellFormed, Fault
  <1>1. run[r].pc = "send" /\ run[r].op \in Ops
    BY DEF Execute, Receive, Decline, Lose, NotSend, RunsAreTyped, InFlight
  <1>2. CASE Receive(r)
    <2>1. PICK id \in 0..(lastId + 1), secret \in BOOLEAN :
            /\ Perform(r, id)
            /\ Respond(r, [delivery |-> "RESPONSE_RECEIVED", ok |-> TRUE, id |-> id,
                           body |-> IF Act(r).type = "IMPORT" THEN endpoints[id] ELSE None,
                           secret |-> secret])
            /\ captures' = IF secret THEN [captures EXCEPT ![run[r].op] = id] ELSE captures
            /\ IF ~secret /\ Act(r).type \in Creating THEN Fault ELSE faults' = faults
      BY <1>2 DEF Receive
    <2> DEFINE response ==
                 [delivery |-> "RESPONSE_RECEIVED", ok |-> TRUE, id |-> id,
                  body |-> IF Act(r).type = "IMPORT" THEN endpoints[id] ELSE None,
                  secret |-> secret]
    <2>2. id \in Nat
      BY <2>1 DEF TypeOK
    <2>3. StripeTyped' /\ (Act(r).type = "IMPORT" => endpoints[id] \in Endpoint)
      BY <2>1, <2>2, <1>1, PerformType
    <2>4. response \in Response /\ (Act(r).type = "IMPORT" => response.body \in Endpoint)
      BY <2>2, <2>3 DEF Response
    <2>5. Respond(r, response)
      BY <2>1
    <2> HIDE DEF response
    <2>6. run' \in [Runs -> Run] /\ RunsAreTyped'
      BY <2>4, <2>5, <1>1, <1>2, RespondType DEF Receive
    <2>7. checkpoint' \in [Ops -> Checkpoint]
      BY <1>1, <1>2, MarkType DEF Receive
    <2>8. captures' \in [Ops -> Nat]
      <3>1. CASE secret
        BY <3>1, <2>1, <2>2, <1>1 DEF TypeOK
      <3>2. CASE ~secret
        BY <3>2, <2>1 DEF TypeOK
      <3> QED BY <3>1, <3>2
    <2>9. faults' \in Nat
      BY <2>1 DEF TypeOK
    <2> QED BY <2>3, <2>6, <2>7, <2>8, <2>9, <1>2 DEF TypeOK, StripeTyped, Receive
  <1>3. CASE Decline(r)
    <2>1. run' \in [Runs -> Run] /\ RunsAreTyped'
      BY <1>1, <1>3, FailureType, RespondType DEF Decline
    <2>2. checkpoint' \in [Ops -> Checkpoint]
      BY <1>1, <1>3, MarkType DEF Decline
    <2> QED BY <2>1, <2>2, <1>3 DEF TypeOK, Decline, stripe
  <1>4. CASE Lose(r)
    <2>1. run' \in [Runs -> Run] /\ RunsAreTyped'
      BY <1>1, <1>4, FailureType, RespondType DEF Lose
    <2>2. checkpoint' \in [Ops -> Checkpoint]
      BY <1>1, <1>4, MarkType DEF Lose
    <2>3. StripeTyped'
      <3>1. CASE UNCHANGED stripe
        BY <3>1 DEF StripeTyped, TypeOK, stripe
      <3>2. CASE \E id \in 0..(lastId + 1) : Perform(r, id)
        BY <3>2, <1>1, PerformType DEF TypeOK
      <3> QED BY <3>1, <3>2, <1>4 DEF Lose
    <2> QED BY <2>1, <2>2, <2>3, <1>4 DEF TypeOK, StripeTyped, Lose
  <1>5. CASE NotSend(r)
    <2>1. run' \in [Runs -> Run] /\ RunsAreTyped'
      BY <1>1, <1>5, FailureType, RespondType DEF NotSend
    <2> QED BY <2>1, <1>5 DEF TypeOK, NotSend, stripe
  <1> QED BY <1>2, <1>3, <1>4, <1>5 DEF Execute

LEMMA WellFormedNext == WellFormed /\ [Next]_vars => WellFormed'
  <1> SUFFICES ASSUME WellFormed, [Next]_vars PROVE WellFormed'
    OBVIOUS
  <1> USE DEF WellFormed
  <1>1. ASSUME NEW op \in Ops, Submit(op) PROVE WellFormed'
    BY <1>1, SubmitType
  <1>2. ASSUME NEW op \in Ops, Abandon(op) PROVE WellFormed'
    <2>1. TypeOK'
      BY <1>2 DEF TypeOK, Abandon, TimesOut, Fault, stripe
    <2>2. RunsAreTyped'
      BY <1>2 DEF RunsAreTyped, TypeOK, Abandon, InFlight, Act
    <2> QED BY <2>1, <2>2
  <1>3. ASSUME NEW r \in Runs, NEW op \in Ops, Begin(r, op) PROVE WellFormed'
    BY <1>3, BeginType
  <1>4. ASSUME NEW r \in Runs, Handle(r) PROVE WellFormed'
    BY <1>4, HandleType
  <1>5. ASSUME NEW r \in Runs, Execute(r) PROVE WellFormed'
    BY <1>5, ExecuteType
  <1>6. ASSUME NEW r \in Runs, Fail(r) PROVE WellFormed'
    <2>1. run' = [run EXCEPT ![r] = Ended] /\ Ended.pc = "ended" /\ Ended \in Run
      BY <1>6, EndedType DEF Fail, Ended, Idle
    <2>2. TypeOK'
      BY <1>6, <2>1 DEF Fail, Fault, TypeOK, stripe
    <2>3. RunsAreTyped'
      BY <1>6, <2>1 DEF Fail, RunsAreTyped, TypeOK, InFlight, Act
    <2> QED BY <2>2, <2>3
  <1>7. CASE Tick
    <2>1. TypeOK'
      BY <1>7 DEF TypeOK, Tick, stripe
    <2>2. RunsAreTyped'
      BY <1>7 DEF RunsAreTyped, Tick, InFlight, Act
    <2> QED BY <2>1, <2>2
  <1>8. CASE UNCHANGED vars
    BY <1>8 DEF TypeOK, RunsAreTyped, InFlight, Act, vars, stripe
  <1> QED BY <1>1, <1>2, <1>3, <1>4, <1>5, <1>6, <1>7, <1>8 DEF Next

\* Every value the handler, the host and Stripe keep has its type (ApplyAction).
THEOREM TypeCorrect == Spec => []TypeOK
  <1>1. Spec => []WellFormed
    BY WellFormedInit, WellFormedNext, PTL DEF Spec
  <1> QED BY <1>1, PTL DEF WellFormed
--------------------------------------------------------------------------------
(* What a step does to the effects, the checkpoints and the runs. *)

\* The POST of r is carried out afresh, for Stripe honours no earlier one of its key.
Posted(r) ==
    \E kind \in {"create", "update"}, id \in Nat :
        /\ effects' = effects \cup {Effect(r, kind, id)}
        /\ Recorded(IdempotencyKey(Operation(r))) = {}
        /\ kind = "create" => Act(r).type \in Creating

LEMMA PerformEffects ==
    ASSUME NEW r \in Runs, NEW id \in Nat, Perform(r, id)
    PROVE  UNCHANGED effects \/ Posted(r)
  BY DEF Perform, Posted, stripe

Marked(r) == \E delivery \in {"SENT_OUTCOME_UNKNOWN", "RESPONSE_RECEIVED"} :
    checkpoint' = [checkpoint EXCEPT ![run[r].op].delivery = delivery]

LEMMA ExecuteStep ==
    ASSUME WellFormed, NEW r \in Runs, Execute(r)
    PROVE  /\ run[r].pc = "send" /\ run[r].op \in Ops
           /\ run'[r].pc = "answered"
           /\ run'[r].op = run[r].op /\ run'[r].prior = run[r].prior
           /\ run'[r].since = run[r].since
           /\ \A q \in Runs : q # r => run'[q] = run[q]
           /\ UNCHANGED <<now, action, status, stamps, refused>>
           /\ \/ UNCHANGED <<checkpoint, effects>>
              \/ Marked(r) /\ (UNCHANGED effects \/ Posted(r))
  <1> USE DEF WellFormed
  <1>1. run[r].pc = "send" /\ run[r].op \in Ops
    BY DEF Execute, Receive, Decline, Lose, NotSend, RunsAreTyped, InFlight
  <1>2. \E response : Respond(r, response)
    BY DEF Execute, Receive, Decline, Lose, NotSend
  <1>3. /\ run'[r].pc = "answered"
        /\ run'[r].op = run[r].op /\ run'[r].prior = run[r].prior
        /\ run'[r].since = run[r].since
        /\ \A q \in Runs : q # r => run'[q] = run[q]
    BY <1>2 DEF Respond, TypeOK, Run
  <1>4. UNCHANGED <<now, action, status, stamps, refused>>
    BY DEF Execute, Receive, Decline, Lose, NotSend
  <1>5. \A id \in 0..(lastId + 1) : Perform(r, id) => UNCHANGED effects \/ Posted(r)
    BY PerformEffects DEF TypeOK
  <1>6. \/ UNCHANGED <<checkpoint, effects>>
        \/ Marked(r) /\ (UNCHANGED effects \/ Posted(r))
    BY <1>5 DEF Execute, Receive, Decline, Lose, NotSend, Mark, Marked, stripe
  <1> QED BY <1>1, <1>3, <1>4, <1>6

\* A step that touches neither Stripe's effects nor a checkpoint nor the clock, and at
\* most ends runs.
Quiet ==
    /\ UNCHANGED <<now, effects, checkpoint, stamps>>
    /\ \A r \in Runs : run'[r] = run[r] \/ run'[r].pc = "ended"
    /\ \A op \in Ops : status[op] # "new" => status'[op] # "new" /\ action'[op] = action[op]

LEMMA QuietSteps ==
    ASSUME WellFormed
    PROVE  /\ \A op \in Ops : Submit(op) \/ Abandon(op) => Quiet /\ UNCHANGED refused
           /\ \A r \in Runs : Fail(r) \/ Local(r) \/ Error(r) \/ Complete(r)
                                => Quiet /\ UNCHANGED refused
           /\ \A r \in Runs : Refuse(r) => Quiet
           /\ UNCHANGED vars => Quiet /\ UNCHANGED refused
  <1> USE DEF WellFormed
  <1>1. ASSUME NEW op \in Ops, Submit(op) \/ Abandon(op) PROVE Quiet /\ UNCHANGED refused
    <2>1. CASE Abandon(op)
      BY <2>1 DEF Abandon, Quiet, TypeOK, stripe
    <2>2. CASE Submit(op)
      <3>1. PICK a : SubmitAction(op, a)
        BY <2>2 DEF Submit
      <3> QED BY <3>1 DEF SubmitAction, Quiet, TypeOK, stripe
    <2> QED BY <1>1, <2>1, <2>2
  <1>2. ASSUME NEW r \in Runs, InFlight(r), NEW next, NEW success \in BOOLEAN,
               Answer(r, next, success)
        PROVE  Quiet
    <2>1. run'[r].pc = "ended" /\ \A q \in Runs : q # r => run'[q] = run[q]
      BY <1>2 DEF Answer, Ended, Idle, TypeOK
    <2>2. \A op \in Ops : status[op] # "new" => status'[op] # "new" /\ action'[op] = action[op]
      BY <1>2 DEF Answer, TypeOK
    <2> QED BY <2>1, <2>2, <1>2 DEF Quiet, Answer, stripe
  <1>3. ASSUME NEW r \in Runs, Refuse(r) PROVE Quiet
    BY <1>2, <1>3 DEF Refuse, InFlight
  <1>4. ASSUME NEW r \in Runs, Local(r) \/ Complete(r) PROVE Quiet /\ UNCHANGED refused
    BY <1>2, <1>4 DEF Local, Complete, InFlight
  <1>5. ASSUME NEW r \in Runs, Fail(r) \/ Error(r) PROVE Quiet /\ UNCHANGED refused
    <2>1. run'[r].pc = "ended" /\ \A q \in Runs : q # r => run'[q] = run[q]
      BY <1>5 DEF Fail, Error, Ended, Idle, TypeOK
    <2> QED BY <2>1, <1>5 DEF Quiet, Fail, Error, stripe
  <1>6. UNCHANGED vars => Quiet /\ UNCHANGED refused
    BY DEF vars, Quiet, stripe
  <1> QED BY <1>1, <1>3, <1>4, <1>5, <1>6
--------------------------------------------------------------------------------
(* The creates of one operation are an idempotency window apart. *)

\* An effect carries the key of its operation, and the time it was made.
EffectsAreKeyed ==
    \A e \in effects :
        /\ e.key = e.op /\ e.at <= now
        /\ e.kind = "create" => status[e.op] # "new" /\ action[e.op].type \in Creating

LEMMA EffectsAreKeyedNext ==
    WellFormed /\ EffectsAreKeyed /\ [Next]_vars => EffectsAreKeyed'
  <1> SUFFICES ASSUME WellFormed, EffectsAreKeyed, [Next]_vars PROVE EffectsAreKeyed'
    OBVIOUS
  <1>0. /\ now \in Nat
        /\ \A e \in effects : e.op \in Ops /\ e.at \in Nat
    BY DEF WellFormed, TypeOK
  <1>1. CASE Quiet
    BY <1>0, <1>1 DEF EffectsAreKeyed, Quiet
  <1>2. ASSUME NEW r \in Runs, NEW op \in Ops, Begin(r, op) PROVE EffectsAreKeyed'
    BY <1>2 DEF EffectsAreKeyed, Begin, stripe
  <1>3. ASSUME NEW r \in Runs, RecordCheckpoint(r) PROVE EffectsAreKeyed'
    BY <1>3 DEF EffectsAreKeyed, RecordCheckpoint, stripe
  <1>4. ASSUME NEW r \in Runs, Execute(r) PROVE EffectsAreKeyed'
    <2>1. UNCHANGED <<now, status, action>> /\ run[r].pc = "send" /\ run[r].op \in Ops
      BY <1>4, ExecuteStep
    <2>2. CASE UNCHANGED effects
      BY <2>1, <2>2 DEF EffectsAreKeyed
    <2>3. CASE Posted(r)
      <3>1. PICK kind, id :
              /\ effects' = effects \cup {Effect(r, kind, id)}
              /\ kind = "create" => Act(r).type \in Creating
        BY <2>3 DEF Posted
      <3>2. status[run[r].op] # "new"
        BY <2>1 DEF WellFormed, RunsAreTyped, InFlight
      <3>3. LET e == Effect(r, kind, id) IN
              /\ e.key = e.op /\ e.at <= now
              /\ e.kind = "create" => status[e.op] # "new" /\ action[e.op].type \in Creating
        BY <1>0, <3>1, <3>2 DEF Effect, IdempotencyKey, Operation, Act
      <3> QED BY <2>1, <3>1, <3>3 DEF EffectsAreKeyed
    <2> QED BY <1>4, <2>2, <2>3, ExecuteStep
  <1>5. CASE Tick
    BY <1>0, <1>5 DEF EffectsAreKeyed, Tick, stripe
  <1> QED BY <1>1, <1>2, <1>3, <1>4, <1>5, QuietSteps DEF Next, Handle

LEMMA MintsApartNext ==
    WellFormed /\ EffectsAreKeyed /\ MintsAreAWindowApart /\ [Next]_vars
        => MintsAreAWindowApart'
  <1> SUFFICES ASSUME WellFormed, EffectsAreKeyed, MintsAreAWindowApart, [Next]_vars
               PROVE  MintsAreAWindowApart'
    OBVIOUS
  <1>1. CASE UNCHANGED effects
    BY <1>1 DEF MintsAreAWindowApart, MintedBy
  <1>2. ASSUME NEW r \in Runs, Execute(r), Posted(r) PROVE MintsAreAWindowApart'
    <2>1. PICK kind, id : /\ effects' = effects \cup {Effect(r, kind, id)}
                          /\ Recorded(IdempotencyKey(Operation(r))) = {}
      BY <1>2 DEF Posted
    <2> DEFINE new == Effect(r, kind, id)
    <2>2. new.op = run[r].op /\ new.key = run[r].op /\ new.at = now
      BY DEF Effect, IdempotencyKey, Operation
    <2>3. \A e \in effects : e.op = new.op => e.at + Window < now
      <3> SUFFICES ASSUME NEW e \in effects, e.op = new.op PROVE e.at + Window < now
        OBVIOUS
      <3>1. e.key = IdempotencyKey(Operation(r))
        BY <2>2 DEF EffectsAreKeyed, IdempotencyKey, Operation
      <3>2. ~(now - e.at <= Window)
        BY <2>1, <3>1 DEF Recorded
      <3>3. now \in Nat /\ e.at \in Nat /\ Window \in Nat
        BY ApplyAssumption DEF WellFormed, TypeOK
      <3> QED BY <3>2, <3>3
    <2>4. effects' = effects \cup {new} /\ new.at = now
      BY <2>1, <2>2
    <2> HIDE DEF new
    <2>5. SUFFICES ASSUME NEW op \in Ops, NEW e \in MintedBy(op)', NEW f \in MintedBy(op)',
                          e # f
                   PROVE  e.at + Window < f.at \/ f.at + Window < e.at
      BY DEF MintsAreAWindowApart
    <2>6. CASE e \in effects /\ f \in effects
      BY <2>5, <2>6 DEF MintsAreAWindowApart, MintedBy
    <2>7. CASE e = new
      BY <2>3, <2>4, <2>5, <2>7 DEF MintedBy
    <2>8. CASE f = new
      BY <2>3, <2>4, <2>5, <2>8 DEF MintedBy
    <2> QED BY <2>4, <2>6, <2>7, <2>8 DEF MintedBy
  <1> QED BY <1>1, <1>2, ExecuteStep, QuietSteps
          DEF Next, Handle, Quiet, Begin, RecordCheckpoint, Tick, stripe

\* Two endpoints created by one operation are more than the idempotency window apart,
\* whatever is retried, lost, run twice at once or delayed (apply.go idempotencyKey).
THEOREM MintsApart == Spec => []MintsAreAWindowApart
  <1>1. Init => EffectsAreKeyed /\ MintsAreAWindowApart
    BY DEF Init, EffectsAreKeyed, MintsAreAWindowApart, MintedBy
  <1>2. Spec => [](WellFormed /\ EffectsAreKeyed /\ MintsAreAWindowApart)
    BY <1>1, WellFormedInit, WellFormedNext, EffectsAreKeyedNext, MintsApartNext, PTL DEF Spec
  <1> QED BY <1>2, PTL
--------------------------------------------------------------------------------
(* A host whose attempts are short: the clock stands still while a run is in flight. *)

\* A run in flight knows the latest checkpoint, or another one was stamped just now;
\* one that has sent has stamped it.
CheckpointsAreCurrent ==
    \A r \in Runs : InFlight(r) =>
        /\ run[r].prior = checkpoint[run[r].op] \/ checkpoint[run[r].op].at = now
        /\ run[r].pc # "begin" => checkpoint[run[r].op].at = now /\ stamps[run[r].op] # 0

\* What a refusal rests on: the checkpoint it read is the latest, and stays so.
RefusalsStand ==
    /\ \A r \in Runs : run[r].pc = "begin" /\ MustRefuse(r)
                           => run[r].prior = checkpoint[run[r].op]
    /\ \A op \in Ops : refused[op] =>
          /\ PriorMayHaveCreated(checkpoint[op]) /\ ReplayWindowExpired(checkpoint[op])
          /\ status[op] # "new" /\ action[op].type \in Creating

SendingFor(r, op) == run[r].pc = "send" /\ run[r].op = op

\* Where the endpoint of the first attempts can be when a later one may send.
MintsFollowStamps ==
    \A op \in Ops :
        /\ stamps[op] = 0 => MintedBy(op) = {}
        /\ stamps[op] = 1 =>
              /\ \A m \in MintedBy(op) : /\ m.at = checkpoint[op].at
                                         /\ PriorMayHaveCreated(checkpoint[op])
              /\ \A r \in Runs : SendingFor(r, op) =>
                    /\ MintedBy(op) = {}
                    /\ \A q \in Runs : SendingFor(q, op) => q = r
        /\ stamps[op] = 2 /\ (\E r \in Runs : SendingFor(r, op)) =>
              \A m \in MintedBy(op) : now - m.at <= Window

\* A duplicate takes a third send, as long as no attempt runs on from one tick to the next.
DuplicatesAreThirdSends ==
    \A op \in Ops : \A e, f \in MintedBy(op) : e # f => stamps[op] > 2

LEMMA MarkStep ==
    ASSUME WellFormed, NEW r \in Runs, run[r].op \in Ops, Marked(r)
    PROVE  /\ checkpoint'[run[r].op].at = checkpoint[run[r].op].at
           /\ PriorMayHaveCreated(checkpoint'[run[r].op])
           /\ \A op \in Ops : op # run[r].op => checkpoint'[op] = checkpoint[op]
  BY DEF WellFormed, TypeOK, Checkpoint, Marked, PriorMayHaveCreated

LEMMA RecordStep ==
    ASSUME WellFormed, NEW r \in Runs, RecordCheckpoint(r)
    PROVE  /\ run[r].pc = "begin" /\ run[r].op \in Ops /\ InFlight(r) /\ ~MustRefuse(r)
           /\ run'[r].pc = "send" /\ run'[r].op = run[r].op /\ run'[r].prior = run[r].prior
           /\ run'[r].since = run[r].since
           /\ \A q \in Runs : q # r => run'[q] = run[q]
           /\ checkpoint'[run[r].op].at = now
           /\ stamps'[run[r].op] = stamps[run[r].op] + 1
           /\ \A op \in Ops : op # run[r].op =>
                  checkpoint'[op] = checkpoint[op] /\ stamps'[op] = stamps[op]
           /\ UNCHANGED <<now, effects, action, status, refused>>
  <1>1. run[r].pc = "begin" /\ InFlight(r) /\ run[r].op \in Ops
    BY DEF RecordCheckpoint, WellFormed, RunsAreTyped, InFlight
  <1> QED BY <1>1 DEF RecordCheckpoint, WellFormed, TypeOK, Run, stripe

LEMMA BeginStep ==
    ASSUME WellFormed, NEW r \in Runs, NEW op \in Ops, Begin(r, op)
    PROVE  /\ run'[r].pc = "begin" /\ run'[r].op = op /\ run'[r].prior = checkpoint[op]
           /\ run'[r].since = now
           /\ \A q \in Runs : q # r => run'[q] = run[q]
           /\ UNCHANGED <<now, effects, action, status, checkpoint, stamps, refused>>
  BY DEF Begin, Idle, WellFormed, TypeOK, stripe

\* Operations a run in flight works for have been submitted.
LEMMA FlightType ==
    ASSUME WellFormed, NEW r \in Runs, InFlight(r)
    PROVE  run[r].op \in Ops /\ status[run[r].op] # "new" /\ run[r].pc # "ended"
  BY DEF WellFormed, RunsAreTyped, InFlight

LEMMA CheckpointsAreCurrentNext ==
    ASSUME ~TickInFlight, WellFormed, CheckpointsAreCurrent, [Next]_vars
    PROVE  CheckpointsAreCurrent'
  <1>1. CASE Quiet
    BY <1>1 DEF CheckpointsAreCurrent, Quiet, InFlight
  <1>2. ASSUME NEW r \in Runs, NEW op \in Ops, Begin(r, op) PROVE CheckpointsAreCurrent'
    BY <1>2, BeginStep DEF CheckpointsAreCurrent, InFlight
  <1>3. ASSUME NEW r \in Runs, RecordCheckpoint(r) PROVE CheckpointsAreCurrent'
    <2>1. SUFFICES ASSUME NEW q \in Runs, InFlight(q)'
                   PROVE  /\ \/ run'[q].prior = checkpoint'[run'[q].op]
                             \/ checkpoint'[run'[q].op].at = now'
                          /\ run'[q].pc # "begin" => /\ checkpoint'[run'[q].op].at = now'
                                                     /\ stamps'[run'[q].op] # 0
      BY DEF CheckpointsAreCurrent
    <2>2. InFlight(q) /\ run'[q].op = run[q].op /\ run'[q].prior = run[q].prior /\ run[q].op \in Ops
      BY <1>3, <2>1, RecordStep, FlightType DEF InFlight
    <2>3. stamps[run[q].op] \in Nat
      BY <2>2 DEF WellFormed, TypeOK
    <2>4. CASE run[q].op = run[r].op
      BY <1>3, <2>2, <2>3, <2>4, RecordStep
    <2>5. CASE run[q].op # run[r].op
      BY <1>3, <2>2, <2>5, RecordStep DEF CheckpointsAreCurrent
    <2> QED BY <2>4, <2>5
  <1>4. ASSUME NEW r \in Runs, Execute(r) PROVE CheckpointsAreCurrent'
    <2>1. SUFFICES ASSUME NEW q \in Runs, InFlight(q)'
                   PROVE  /\ \/ run'[q].prior = checkpoint'[run'[q].op]
                             \/ checkpoint'[run'[q].op].at = now'
                          /\ run'[q].pc # "begin" => /\ checkpoint'[run'[q].op].at = now'
                                                     /\ stamps'[run'[q].op] # 0
      BY DEF CheckpointsAreCurrent
    <2>2. /\ InFlight(q) /\ run'[q].op = run[q].op /\ run'[q].prior = run[q].prior
          /\ run'[q].pc # "begin" => run[q].pc # "begin"
          /\ run[q].op \in Ops /\ now' = now /\ stamps' = stamps
      BY <1>4, <2>1, ExecuteStep, FlightType DEF InFlight
    <2>3. checkpoint[run[r].op].at = now
      BY <1>4, ExecuteStep DEF CheckpointsAreCurrent, InFlight
    <2>4. CASE UNCHANGED checkpoint
      BY <2>2, <2>4 DEF CheckpointsAreCurrent
    <2>5. CASE Marked(r)
      BY <1>4, <2>2, <2>3, <2>5, ExecuteStep, MarkStep DEF CheckpointsAreCurrent
    <2> QED BY <1>4, <2>4, <2>5, ExecuteStep
  <1>5. CASE Tick
    BY <1>5 DEF Tick, CheckpointsAreCurrent, InFlight
  <1> QED BY <1>1, <1>2, <1>3, <1>4, <1>5, QuietSteps DEF Next, Handle

LEMMA RefusalsStandNext ==
    ASSUME ~TickInFlight, WellFormed, CheckpointsAreCurrent, RefusalsStand, [Next]_vars
    PROVE  RefusalsStand'
  <1>0. now \in Nat /\ Window \in Nat /\ \A op \in Ops : checkpoint[op].at \in Nat
    BY ApplyAssumption DEF WellFormed, TypeOK, Checkpoint
  <1>1. CASE Quiet
    <2>1. ASSUME NEW r \in Runs, run'[r].pc = "begin", MustRefuse(r)'
          PROVE  run'[r].prior = checkpoint'[run'[r].op]
      <3>1. run'[r] = run[r] /\ run[r].op \in Ops /\ status[run[r].op] # "new"
        BY <1>1, <2>1, FlightType DEF Quiet, InFlight
      <3>2. MustRefuse(r)
        BY <1>1, <2>1, <3>1 DEF MustRefuse, Act, Quiet, ReplayWindowExpired
      <3> QED BY <1>1, <2>1, <3>1, <3>2 DEF RefusalsStand, Quiet
    <2>2. ASSUME UNCHANGED refused, NEW op \in Ops, refused'[op]
          PROVE  /\ PriorMayHaveCreated(checkpoint'[op]) /\ ReplayWindowExpired(checkpoint[op])'
                 /\ status'[op] # "new" /\ action'[op].type \in Creating
      BY <1>1, <2>2 DEF RefusalsStand, Quiet, ReplayWindowExpired
    <2>3. ASSUME NEW r \in Runs, Refuse(r), NEW op \in Ops, refused'[op]
          PROVE  /\ PriorMayHaveCreated(checkpoint'[op]) /\ ReplayWindowExpired(checkpoint[op])'
                 /\ status'[op] # "new" /\ action'[op].type \in Creating
      <3>1. CASE refused[op]
        BY <1>1, <3>1 DEF RefusalsStand, Quiet, ReplayWindowExpired
      <3>2. CASE ~refused[op]
        <4>1. op = run[r].op /\ InFlight(r) /\ MustRefuse(r) /\ run[r].pc = "begin"
          BY <2>3, <3>2 DEF Refuse, InFlight, WellFormed, TypeOK
        <4>2. checkpoint[op] = run[r].prior /\ status[op] # "new"
          BY <4>1, FlightType DEF RefusalsStand
        <4> QED BY <1>1, <4>1, <4>2 DEF MustRefuse, Act, Quiet, ReplayWindowExpired
      <3> QED BY <3>1, <3>2
    <2>4. UNCHANGED refused \/ \E r \in Runs : Refuse(r)
      BY <1>1, QuietSteps, ExecuteStep DEF Next, Handle, Begin, RecordCheckpoint, Tick
    <2> QED BY <2>1, <2>2, <2>3, <2>4 DEF RefusalsStand
  <1>2. ASSUME NEW r \in Runs, NEW op \in Ops, Begin(r, op) PROVE RefusalsStand'
    BY <1>2, BeginStep DEF RefusalsStand, MustRefuse, Act, ReplayWindowExpired
  <1>3. ASSUME NEW r \in Runs, RecordCheckpoint(r) PROVE RefusalsStand'
    <2> DEFINE op == run[r].op
    <2>1. run[r].prior = checkpoint[op] \/ checkpoint[op].at = now
      BY <1>3, RecordStep DEF CheckpointsAreCurrent
    <2>2. ASSUME NEW q \in Runs, run[q].pc = "begin", MustRefuse(q) PROVE run[q].op # op
      <3>1. SUFFICES ASSUME run[q].op = op PROVE FALSE
        OBVIOUS
      <3>2. run[q].prior = checkpoint[op] /\ op \in Ops
        BY <1>3, <2>2, <3>1, RecordStep DEF RefusalsStand
      <3>3. checkpoint[op].at # now
        BY <1>0, <2>2, <3>2 DEF MustRefuse, ReplayWindowExpired
      <3>4. MustRefuse(r)
        BY <2>1, <2>2, <3>1, <3>2, <3>3 DEF MustRefuse, Act
      <3> QED BY <1>3, <3>4, RecordStep
    <2>3. ~refused[op]
      <3>1. SUFFICES ASSUME refused[op] PROVE FALSE
        OBVIOUS
      <3>2. op \in Ops
        BY <1>3, RecordStep
      <3>3. checkpoint[op].at # now
        BY <1>0, <3>1, <3>2 DEF RefusalsStand, ReplayWindowExpired
      <3>4. MustRefuse(r)
        BY <2>1, <3>1, <3>2, <3>3 DEF RefusalsStand, MustRefuse, Act
      <3> QED BY <1>3, <3>4, RecordStep
    <2>4. ASSUME NEW q \in Runs, run'[q].pc = "begin", MustRefuse(q)'
          PROVE  run'[q].prior = checkpoint'[run'[q].op]
      <3>1. q # r /\ run'[q] = run[q] /\ run[q].op \in Ops
        BY <1>3, <2>4, RecordStep, FlightType DEF InFlight
      <3>2. MustRefuse(q)
        BY <1>3, <2>4, <3>1, RecordStep DEF MustRefuse, Act, ReplayWindowExpired
      <3> QED BY <1>3, <2>2, <2>4, <3>1, <3>2, RecordStep DEF RefusalsStand
    <2>5. ASSUME NEW o \in Ops, refused'[o]
          PROVE  /\ PriorMayHaveCreated(checkpoint'[o]) /\ ReplayWindowExpired(checkpoint[o])'
                 /\ status'[o] # "new" /\ action'[o].type \in Creating
      BY <1>3, <2>3, <2>5, RecordStep DEF RefusalsStand, ReplayWindowExpired
    <2> QED BY <2>4, <2>5 DEF RefusalsStand
  <1>4. ASSUME NEW r \in Runs, Execute(r) PROVE RefusalsStand'
    <2> DEFINE op == run[r].op
    <2>1. op \in Ops /\ checkpoint[op].at = now
      BY <1>4, ExecuteStep DEF CheckpointsAreCurrent, InFlight
    <2>2. \A o \in Ops : o # op => checkpoint'[o] = checkpoint[o]
      BY <1>4, ExecuteStep, MarkStep
    <2>3. ~refused[op]
      BY <1>0, <2>1 DEF RefusalsStand, ReplayWindowExpired
    <2>4. ASSUME NEW q \in Runs, run'[q].pc = "begin", MustRefuse(q)'
          PROVE  run'[q].prior = checkpoint'[run'[q].op]
      <3>1. q # r /\ run'[q] = run[q] /\ run[q].op \in Ops
        BY <1>4, <2>4, ExecuteStep, FlightType DEF InFlight
      <3>2. MustRefuse(q)
        BY <1>4, <2>4, <3>1, ExecuteStep DEF MustRefuse, Act, ReplayWindowExpired
      <3>3. run[q].prior = checkpoint[run[q].op]
        BY <2>4, <3>1, <3>2 DEF RefusalsStand
      <3>4. run[q].op # op
        BY <1>0, <2>1, <3>2, <3>3 DEF MustRefuse, ReplayWindowExpired
      <3> QED BY <2>2, <3>1, <3>3, <3>4
    <2>5. ASSUME NEW o \in Ops, refused'[o]
          PROVE  /\ PriorMayHaveCreated(checkpoint'[o]) /\ ReplayWindowExpired(checkpoint[o])'
                 /\ status'[o] # "new" /\ action'[o].type \in Creating
      BY <1>4, <2>2, <2>3, <2>5, ExecuteStep DEF RefusalsStand, ReplayWindowExpired
    <2> QED BY <2>4, <2>5 DEF RefusalsStand
  <1>5. CASE Tick
    BY <1>0, <1>5 DEF Tick, RefusalsStand, InFlight, ReplayWindowExpired
  <1> QED BY <1>1, <1>2, <1>3, <1>4, <1>5, QuietSteps DEF Next, Handle

LEMMA MintsFollowStampsNext ==
    ASSUME ~TickInFlight, WellFormed, EffectsAreKeyed, CheckpointsAreCurrent,
           MintsFollowStamps, DuplicatesAreThirdSends, [Next]_vars
    PROVE  MintsFollowStamps' /\ DuplicatesAreThirdSends'
  <1>0. /\ now \in Nat /\ Window \in Nat
        /\ \A op \in Ops : stamps[op] \in Nat /\ checkpoint[op].at \in Nat
        /\ \A e \in effects : e.op \in Ops /\ e.at \in Nat
    BY ApplyAssumption DEF WellFormed, TypeOK, Checkpoint
  <1>1. CASE Quiet
    <2>1. \A op \in Ops : MintedBy(op)' = MintedBy(op)
      BY <1>1 DEF Quiet, MintedBy
    <2>2. \A r \in Runs, op \in Ops : SendingFor(r, op)' => SendingFor(r, op)
      BY <1>1 DEF Quiet, SendingFor
    <2> QED BY <1>1, <2>1, <2>2 DEF Quiet, MintsFollowStamps, DuplicatesAreThirdSends
  <1>2. ASSUME NEW r \in Runs, NEW op \in Ops, Begin(r, op)
        PROVE  MintsFollowStamps' /\ DuplicatesAreThirdSends'
    <2>1. \A o \in Ops : MintedBy(o)' = MintedBy(o)
      BY <1>2, BeginStep DEF MintedBy
    <2>2. \A q \in Runs, o \in Ops : SendingFor(q, o)' => SendingFor(q, o)
      BY <1>2, BeginStep DEF SendingFor
    <2> QED BY <1>2, <2>1, <2>2, BeginStep DEF MintsFollowStamps, DuplicatesAreThirdSends
  <1>3. ASSUME NEW r \in Runs, RecordCheckpoint(r)
        PROVE  MintsFollowStamps' /\ DuplicatesAreThirdSends'
    <2>0. PICK op \in Ops : op = run[r].op
      BY <1>3, RecordStep
    <2>1. \A o \in Ops : MintedBy(o)' = MintedBy(o)
      BY <1>3, RecordStep DEF MintedBy
    <2>2. \A q \in Runs, o \in Ops : SendingFor(q, o)' => SendingFor(q, o) \/ (q = r /\ o = op)
      BY <1>3, <2>0, RecordStep DEF SendingFor
    <2>3. op \in Ops /\ stamps'[op] = stamps[op] + 1 /\ checkpoint'[op].at = now /\ now' = now
      BY <1>3, <2>0, RecordStep
    <2>4. CASE stamps[op] = 0
      <3>1. MintedBy(op) = {}
        BY <2>3, <2>4 DEF MintsFollowStamps
      <3>2. \A q \in Runs : ~SendingFor(q, op)
        BY <2>0, <2>4 DEF CheckpointsAreCurrent, SendingFor, InFlight
      <3>3. \A q \in Runs : SendingFor(q, op)' => q = r
        BY <2>2, <2>3, <3>2
      <3>4. MintsFollowStamps'
        BY <1>3, <2>0, <2>1, <2>2, <2>3, <2>4, <3>1, <3>3, RecordStep DEF MintsFollowStamps
      <3>5. DuplicatesAreThirdSends'
        BY <1>0, <1>3, <2>0, <2>1, <2>3, <3>1, RecordStep DEF DuplicatesAreThirdSends
      <3> QED BY <3>4, <3>5
    <2>5. CASE stamps[op] = 1
      <3>1. \A m \in MintedBy(op) : now - m.at <= Window
        <4> SUFFICES ASSUME NEW m \in MintedBy(op) PROVE now - m.at <= Window
          OBVIOUS
        <4>1. m.at = checkpoint[op].at /\ PriorMayHaveCreated(checkpoint[op])
          BY <2>3, <2>5 DEF MintsFollowStamps
        <4>2. action[op].type \in Creating
          BY <2>3 DEF EffectsAreKeyed, MintedBy
        <4>3. CASE checkpoint[op].at = now
          BY <1>0, <4>1, <4>3
        <4>4. CASE run[r].prior = checkpoint[op]
          <5>1. ~ReplayWindowExpired(checkpoint[op])
            BY <1>3, <2>0, <4>1, <4>2, <4>4, RecordStep DEF MustRefuse, Act
          <5> QED BY <1>0, <2>3, <4>1, <5>1 DEF ReplayWindowExpired
        <4> QED BY <1>3, <2>0, <4>3, <4>4, RecordStep DEF CheckpointsAreCurrent
      <3>2. MintsFollowStamps'
        BY <1>3, <2>0, <2>1, <2>2, <2>3, <2>5, <3>1, RecordStep DEF MintsFollowStamps
      <3>3. DuplicatesAreThirdSends'
        BY <1>0, <1>3, <2>0, <2>1, <2>3, <2>5, RecordStep DEF DuplicatesAreThirdSends
      <3> QED BY <3>2, <3>3
    <2>6. CASE stamps[op] > 1
      <3>1. MintsFollowStamps'
        BY <1>0, <1>3, <2>0, <2>1, <2>2, <2>3, <2>6, RecordStep DEF MintsFollowStamps
      <3>2. DuplicatesAreThirdSends'
        BY <1>0, <1>3, <2>0, <2>1, <2>3, <2>6, RecordStep DEF DuplicatesAreThirdSends
      <3> QED BY <3>1, <3>2
    <2> QED BY <1>0, <2>3, <2>4, <2>5, <2>6
  <1>4. ASSUME NEW r \in Runs, Execute(r)
        PROVE  MintsFollowStamps' /\ DuplicatesAreThirdSends'
    <2>0. PICK op \in Ops : op = run[r].op
      BY <1>4, ExecuteStep
    <2>1. /\ op \in Ops /\ SendingFor(r, op) /\ InFlight(r) /\ run[r].pc = "send"
          /\ now' = now /\ stamps' = stamps
      BY <1>4, <2>0, ExecuteStep DEF SendingFor, InFlight
    <2>2. checkpoint[op].at = now /\ stamps[op] # 0
      BY <2>0, <2>1 DEF CheckpointsAreCurrent
    <2>3. \A q \in Runs, o \in Ops : SendingFor(q, o)' => SendingFor(q, o) /\ q # r
      BY <1>4, ExecuteStep DEF SendingFor
    <2>4. \A o \in Ops : o # op => checkpoint'[o] = checkpoint[o]
      BY <1>4, <2>0, ExecuteStep, MarkStep
    <2>5. CASE UNCHANGED effects
      <3>1. \A o \in Ops : MintedBy(o)' = MintedBy(o)
        BY <2>5 DEF MintedBy
      <3>2. DuplicatesAreThirdSends'
        BY <2>1, <3>1 DEF DuplicatesAreThirdSends
      <3>3. ASSUME stamps[op] = 1 PROVE MintedBy(op) = {}
        BY <2>1, <3>3 DEF MintsFollowStamps
      <3>4. MintsFollowStamps'
        BY <2>1, <2>3, <2>4, <3>1, <3>3 DEF MintsFollowStamps
      <3> QED BY <3>2, <3>4
    <2>6. CASE Marked(r) /\ Posted(r)
      <3>1. PICK kind, id : /\ effects' = effects \cup {Effect(r, kind, id)}
                            /\ Recorded(IdempotencyKey(Operation(r))) = {}
        BY <2>6 DEF Posted
      <3> DEFINE new == Effect(r, kind, id)
      <3>2. new.op = op /\ new.at = now
        BY <2>0 DEF Effect
      <3>3. \A e \in MintedBy(op) : now - e.at > Window
        <4> SUFFICES ASSUME NEW e \in MintedBy(op) PROVE now - e.at > Window
          OBVIOUS
        <4>1. e \in effects /\ e.key = IdempotencyKey(Operation(r))
          BY <2>0 DEF EffectsAreKeyed, MintedBy, IdempotencyKey, Operation
        <4> QED BY <1>0, <3>1, <4>1 DEF Recorded
      <3>4. effects' = effects \cup {new}
        BY <3>1
      <3> HIDE DEF new
      <3>5. \A o \in Ops : o # op => MintedBy(o)' = MintedBy(o)
        BY <3>2, <3>4 DEF MintedBy
      <3>6. MintedBy(op)' \subseteq MintedBy(op) \cup {new}
        BY <3>4 DEF MintedBy
      <3>7. stamps[op] \in {1, 2} => MintedBy(op) = {}
        <4>1. stamps[op] = 1 => MintedBy(op) = {}
          BY <2>1 DEF MintsFollowStamps
        <4>2. stamps[op] = 2 => \A e \in MintedBy(op) : now - e.at <= Window
          BY <2>1 DEF MintsFollowStamps
        <4>3. \A e \in MintedBy(op) : e.at \in Nat
          BY <1>0 DEF MintedBy
        <4> QED BY <1>0, <3>3, <4>1, <4>2, <4>3
      <3>8. checkpoint'[op].at = now /\ PriorMayHaveCreated(checkpoint'[op])
        BY <2>0, <2>1, <2>2, <2>6, MarkStep
      <3>9. DuplicatesAreThirdSends'
        <4>1. ASSUME NEW e \in MintedBy(op)', NEW f \in MintedBy(op)', e # f
              PROVE  stamps[op] > 2
          BY <1>0, <2>1, <2>2, <3>6, <3>7, <4>1
        <4> QED BY <2>1, <3>5, <4>1 DEF DuplicatesAreThirdSends
      <3>10. stamps[op] = 1 => \A q \in Runs : ~SendingFor(q, op)'
        BY <2>1, <2>3 DEF MintsFollowStamps
      <3>11. stamps[op] \in {1, 2} => \A m \in MintedBy(op)' : m.at = now
        BY <3>2, <3>6, <3>7
      <3>12. MintsFollowStamps'
        <4>1. ASSUME NEW o \in Ops
              PROVE  /\ stamps'[o] = 0 => MintedBy(o)' = {}
                     /\ stamps'[o] = 1 =>
                          /\ \A m \in MintedBy(o)' : /\ m.at = checkpoint'[o].at
                                                     /\ PriorMayHaveCreated(checkpoint'[o])
                          /\ \A q \in Runs : SendingFor(q, o)' =>
                                /\ MintedBy(o)' = {}
                                /\ \A p \in Runs : SendingFor(p, o)' => p = q
                     /\ stamps'[o] = 2 /\ (\E q \in Runs : SendingFor(q, o)') =>
                          \A m \in MintedBy(o)' : now' - m.at <= Window
          <5>1. CASE o # op
            BY <2>1, <2>3, <2>4, <3>5, <5>1 DEF MintsFollowStamps
          <5>2. CASE o = op
            BY <1>0, <2>1, <2>2, <3>8, <3>10, <3>11, <5>2
          <5> QED BY <5>1, <5>2
        <4> QED BY <4>1 DEF MintsFollowStamps
      <3> QED BY <3>9, <3>12
    <2> QED BY <1>4, <2>5, <2>6, ExecuteStep
  <1>5. CASE Tick
    <2>1. \A op \in Ops : MintedBy(op)' = MintedBy(op)
      BY <1>5 DEF Tick, MintedBy, stripe
    <2>2. \A r \in Runs, op \in Ops : ~SendingFor(r, op)'
      BY <1>5 DEF Tick, SendingFor, InFlight
    <2> QED BY <1>5, <2>1, <2>2 DEF Tick, MintsFollowStamps, DuplicatesAreThirdSends
  <1> QED BY <1>1, <1>2, <1>3, <1>4, <1>5, QuietSteps DEF Next, Handle

\* The inductive invariant where no attempt runs on from one tick to the next.
Safe == /\ WellFormed /\ EffectsAreKeyed /\ CheckpointsAreCurrent
        /\ RefusalsStand /\ MintsFollowStamps /\ DuplicatesAreThirdSends

LEMMA SafeInit == Init => Safe
  <1> SUFFICES ASSUME Init PROVE Safe
    OBVIOUS
  <1>1. \A r \in Runs : run[r].pc = "idle"
    BY DEF Init, Idle
  <1>2. \A op \in Ops : MintedBy(op) = {}
    BY DEF Init, MintedBy
  <1>3. CheckpointsAreCurrent /\ RefusalsStand
    BY <1>1 DEF Init, CheckpointsAreCurrent, RefusalsStand, InFlight
  <1>4. MintsFollowStamps /\ DuplicatesAreThirdSends /\ EffectsAreKeyed
    BY <1>1, <1>2 DEF Init, MintsFollowStamps, DuplicatesAreThirdSends, EffectsAreKeyed,
                      SendingFor
  <1> QED BY <1>3, <1>4, WellFormedInit DEF Safe

LEMMA SafeNext == ASSUME ~TickInFlight PROVE Safe /\ [Next]_vars => Safe'
  BY WellFormedNext, EffectsAreKeyedNext, CheckpointsAreCurrentNext, RefusalsStandNext,
     MintsFollowStampsNext DEF Safe

\* Once a create has been refused, no later run of the operation creates or overwrites
\* the checkpoint the refusal rests on (apply.go applyCreate, refuseUnknownCreate).
THEOREM RefusalFinal == ASSUME ~TickInFlight PROVE Spec => RefusalIsFinal
  <1>1. Spec => []Safe
    BY SafeInit, SafeNext, PTL DEF Spec
  <1>2. ASSUME Safe, Safe', [Next]_vars, NEW op \in Ops, refused[op]
        PROVE  MintedBy(op)' = MintedBy(op) /\ checkpoint'[op] = checkpoint[op]
    <2> USE DEF Safe
    <2>0. now \in Nat /\ Window \in Nat /\ checkpoint[op].at \in Nat
      BY <1>2, ApplyAssumption DEF WellFormed, TypeOK, Checkpoint
    <2>1. ASSUME NEW r \in Runs, InFlight(r), run[r].pc # "begin" PROVE run[r].op # op
      BY <1>2, <2>0, <2>1 DEF CheckpointsAreCurrent, RefusalsStand, ReplayWindowExpired
    <2>2. CASE Quiet
      BY <2>2 DEF Quiet, MintedBy
    <2>3. ASSUME NEW r \in Runs, Execute(r)
          PROVE  MintedBy(op)' = MintedBy(op) /\ checkpoint'[op] = checkpoint[op]
      <3>1. run[r].op # op /\ run[r].op \in Ops
        BY <1>2, <2>1, <2>3, ExecuteStep DEF InFlight
      <3>2. Posted(r) => MintedBy(op)' = MintedBy(op)
        BY <3>1 DEF Posted, MintedBy, Effect
      <3>3. UNCHANGED effects => MintedBy(op)' = MintedBy(op)
        BY DEF MintedBy
      <3> QED BY <1>2, <2>3, <3>1, <3>2, <3>3, ExecuteStep, MarkStep
    <2>4. ASSUME NEW r \in Runs, RecordCheckpoint(r)
          PROVE  MintedBy(op)' = MintedBy(op) /\ checkpoint'[op] = checkpoint[op]
      <3>1. run[r].op # op
        BY <1>2, <2>0, <2>4, RecordStep
           DEF CheckpointsAreCurrent, RefusalsStand, ReplayWindowExpired, MustRefuse, Act
      <3> QED BY <1>2, <2>4, <3>1, RecordStep DEF MintedBy
    <2>5. ASSUME NEW r \in Runs, NEW o \in Ops, Begin(r, o)
          PROVE  MintedBy(op)' = MintedBy(op) /\ checkpoint'[op] = checkpoint[op]
      BY <1>2, <2>5, BeginStep DEF MintedBy
    <2>6. CASE Tick
      BY <2>6 DEF Tick, MintedBy, stripe
    <2> QED BY <1>2, <2>2, <2>3, <2>4, <2>5, <2>6, QuietSteps DEF Next, Handle
  <1>3. Safe /\ Safe' /\ [Next]_vars =>
          [\A op \in Ops : refused[op] => /\ MintedBy(op)' = MintedBy(op)
                                          /\ checkpoint'[op] = checkpoint[op]]_vars
    BY <1>2
  <1> QED BY <1>1, <1>3, PTL DEF Spec, RefusalIsFinal
--------------------------------------------------------------------------------
(* A create by an attempt that began after the window is a third send. *)

\* No time lies in the future, and an attempt begins before it sends.
TimesArePast ==
    /\ \A op \in Ops : checkpoint[op].at <= now
    /\ \A r \in Runs : InFlight(r) => run[r].since <= now
    /\ \A e \in effects : e.at <= now /\ e.began <= e.at

\* What has been sent was stamped; after one stamp, it is the one of the endpoint.
StampsAreKept ==
    /\ \A r \in Runs : run[r].pc \in {"send", "answered"} => stamps[run[r].op] > 0
    /\ \A op \in Ops : \A e \in MintedBy(op) :
          /\ stamps[op] > 0
          /\ stamps[op] = 1 => /\ PriorMayHaveCreated(checkpoint[op])
                               /\ checkpoint[op].at <= e.at

\* An attempt that began after the window of an endpoint of its operation has read so,
\* unless a second stamp has overwritten it, and then sends as the third.
LateAttemptsKnow ==
    \A r \in Runs : InFlight(r) => \A e \in MintedBy(run[r].op) :
        e.at + Window < run[r].since =>
            /\ run[r].pc = "begin" => \/ stamps[run[r].op] > 1
                                     \/ /\ PriorMayHaveCreated(run[r].prior)
                                        /\ run[r].prior.at <= e.at
            /\ run[r].pc = "send" => stamps[run[r].op] > 2

Dated == /\ WellFormed /\ EffectsAreKeyed /\ TimesArePast /\ StampsAreKept
         /\ LateAttemptsKnow /\ DuplicateNeedsTwoRetries

LEMMA DatedTypes ==
    ASSUME WellFormed
    PROVE  /\ now \in Nat /\ Window \in Nat
           /\ \A op \in Ops : stamps[op] \in Nat /\ checkpoint[op].at \in Nat
           /\ \A e \in effects : e.op \in Ops /\ e.at \in Nat /\ e.began \in Nat
           /\ \A r \in Runs : run[r].since \in Nat /\ run[r].prior.at \in Nat
  BY ApplyAssumption DEF WellFormed, TypeOK, Checkpoint, Run

\* A step that adds no effect and moves no stamp, checkpoint or time but the clock.
LEMMA DatedQuiet ==
    ASSUME Dated, WellFormed', EffectsAreKeyed', now' \in {now, now + 1},
           UNCHANGED <<effects, checkpoint, stamps>>,
           \A r \in Runs : run'[r] = run[r] \/ run'[r].pc = "ended"
    PROVE  Dated'
  <1> USE DEF Dated
  <1>0. now <= now'
    BY DatedTypes
  <1>1. \A op \in Ops : MintedBy(op)' = MintedBy(op)
    BY DEF MintedBy
  <1>2. \A r \in Runs : InFlight(r)' => run'[r] = run[r] /\ InFlight(r) /\ run[r].op \in Ops
    BY FlightType DEF InFlight
  <1>3. TimesArePast'
    BY <1>0, <1>2, DatedTypes DEF TimesArePast
  <1>4. StampsAreKept'
    BY <1>1 DEF StampsAreKept
  <1>5. LateAttemptsKnow'
    BY <1>1, <1>2 DEF LateAttemptsKnow, InFlight
  <1>6. DuplicateNeedsTwoRetries'
    BY <1>1 DEF DuplicateNeedsTwoRetries
  <1> QED BY <1>3, <1>4, <1>5, <1>6

LEMMA DatedBegin ==
    ASSUME Dated, WellFormed', EffectsAreKeyed', NEW r \in Runs, NEW op \in Ops, Begin(r, op)
    PROVE  Dated'
  <1> USE DEF Dated
  <1>1. \A o \in Ops : MintedBy(o)' = MintedBy(o)
    BY BeginStep DEF MintedBy
  <1>2. TimesArePast'
    BY BeginStep, DatedTypes DEF TimesArePast, InFlight
  <1>3. StampsAreKept'
    BY <1>1, BeginStep DEF StampsAreKept
  <1>4. LateAttemptsKnow'
    <2>1. SUFFICES ASSUME NEW q \in Runs, InFlight(q)', NEW e \in MintedBy(run[q].op)',
                          e.at + Window < run'[q].since
                   PROVE  /\ run'[q].pc = "begin" =>
                                \/ stamps'[run'[q].op] > 1
                                \/ /\ PriorMayHaveCreated(run'[q].prior)
                                   /\ run'[q].prior.at <= e.at
                          /\ run'[q].pc = "send" => stamps'[run'[q].op] > 2
      BY DEF LateAttemptsKnow
    <2>2. CASE q # r
      <3>1. run'[q] = run[q] /\ InFlight(q) /\ run[q].op \in Ops
        BY <2>1, <2>2, BeginStep, FlightType DEF InFlight
      <3> QED BY <1>1, <2>1, <3>1, BeginStep DEF LateAttemptsKnow
    <2>3. CASE q = r
      <3>1. /\ run'[q].pc = "begin" /\ run'[q].op = op /\ run'[q].prior = checkpoint[op]
            /\ stamps' = stamps
        BY <2>3, BeginStep
      <3>2. e \in MintedBy(op)
        BY <1>1, <2>1, <3>1
      <3> QED BY <3>1, <3>2, DatedTypes DEF StampsAreKept
    <2> QED BY <2>2, <2>3
  <1>5. DuplicateNeedsTwoRetries'
    BY <1>1, BeginStep DEF DuplicateNeedsTwoRetries
  <1> QED BY <1>2, <1>3, <1>4, <1>5

LEMMA DatedRecord ==
    ASSUME Dated, WellFormed', EffectsAreKeyed', NEW r \in Runs, RecordCheckpoint(r)
    PROVE  Dated'
  <1> USE DEF Dated
  <1>0. PICK op \in Ops : op = run[r].op
    BY RecordStep
  <1>1. \A o \in Ops : MintedBy(o)' = MintedBy(o)
    BY RecordStep DEF MintedBy
  <1>2. TimesArePast'
    <2>1. \A o \in Ops : checkpoint'[o].at <= now'
      BY <1>0, RecordStep, DatedTypes DEF TimesArePast
    <2>2. \A q \in Runs : InFlight(q)' => run'[q].since <= now'
      BY RecordStep DEF TimesArePast, InFlight
    <2> QED BY <2>1, <2>2, RecordStep DEF TimesArePast
  <1>3. \A o \in Ops : stamps'[o] >= stamps[o] /\ stamps'[o] \in Nat /\ stamps[o] \in Nat
    BY <1>0, RecordStep, DatedTypes
  <1>4. StampsAreKept'
    <2>1. ASSUME NEW q \in Runs, run'[q].pc \in {"send", "answered"} PROVE stamps'[run'[q].op] > 0
      <3>1. CASE q = r
        BY <1>0, <3>1, RecordStep, DatedTypes
      <3>2. CASE q # r
        <4>1. run'[q] = run[q] /\ run[q].op \in Ops /\ stamps[run[q].op] > 0
          BY <2>1, <3>2, RecordStep, FlightType DEF StampsAreKept, InFlight
        <4> QED BY <1>3, <4>1, DatedTypes
      <3> QED BY <3>1, <3>2
    <2>2. ASSUME NEW o \in Ops, NEW e \in MintedBy(o)
          PROVE  /\ stamps'[o] > 0
                 /\ stamps'[o] = 1 => /\ PriorMayHaveCreated(checkpoint'[o])
                                      /\ checkpoint'[o].at <= e.at
      BY <1>0, <2>2, RecordStep, DatedTypes DEF StampsAreKept
    <2> QED BY <1>1, <2>1, <2>2 DEF StampsAreKept
  <1>5. LateAttemptsKnow'
    <2>1. SUFFICES ASSUME NEW q \in Runs, InFlight(q)', NEW e \in MintedBy(run[q].op)',
                          e.at + Window < run'[q].since
                   PROVE  /\ run'[q].pc = "begin" =>
                                \/ stamps'[run'[q].op] > 1
                                \/ /\ PriorMayHaveCreated(run'[q].prior)
                                   /\ run'[q].prior.at <= e.at
                          /\ run'[q].pc = "send" => stamps'[run'[q].op] > 2
      BY DEF LateAttemptsKnow
    <2>2. CASE q # r
      <3>1. run'[q] = run[q] /\ InFlight(q) /\ run[q].op \in Ops
        BY <2>1, <2>2, RecordStep, FlightType DEF InFlight
      <3> QED BY <1>1, <1>3, <2>1, <3>1, DatedTypes DEF LateAttemptsKnow
    <2>3. CASE q = r
      <3>1. /\ run'[q].pc = "send" /\ run'[q].op = op /\ run[q].pc = "begin" /\ InFlight(q)
            /\ run'[q].since = run[q].since /\ stamps'[op] = stamps[op] + 1
            /\ ~MustRefuse(q)
        BY <1>0, <2>3, RecordStep
      <3>2. e \in MintedBy(op) /\ op = run[q].op
        BY <1>0, <1>1, <2>1, <2>3, <3>1
      <3>3. action[op].type \in Creating
        BY <3>2 DEF EffectsAreKeyed, MintedBy
      <3>4. run[q].since <= now
        BY <3>1 DEF TimesArePast
      <3>5. e.at \in Nat
        BY <3>2, DatedTypes DEF MintedBy
      <3>6. stamps[op] > 1
        <4>1. SUFFICES ASSUME PriorMayHaveCreated(run[q].prior), run[q].prior.at <= e.at
                       PROVE  FALSE
          BY <2>1, <3>1, <3>2 DEF LateAttemptsKnow
        <4>2. ReplayWindowExpired(run[q].prior)
          BY <2>1, <3>1, <3>4, <3>5, <4>1, DatedTypes DEF ReplayWindowExpired
        <4> QED BY <3>1, <3>2, <3>3, <4>1, <4>2 DEF MustRefuse, Act
      <3> QED BY <3>1, <3>6, DatedTypes
    <2> QED BY <2>2, <2>3
  <1>6. DuplicateNeedsTwoRetries'
    <2>1. SUFFICES ASSUME NEW o \in Ops, NEW e \in MintedBy(o), NEW f \in MintedBy(o),
                          e.at + Window < f.began
                   PROVE  stamps'[o] > 2
      BY <1>1 DEF DuplicateNeedsTwoRetries
    <2>2. stamps[o] > 2
      BY <2>1 DEF DuplicateNeedsTwoRetries
    <2> QED BY <1>3, <2>2, DatedTypes
  <1> QED BY <1>2, <1>4, <1>5, <1>6

LEMMA DatedExecute ==
    ASSUME Dated, WellFormed', EffectsAreKeyed', NEW r \in Runs, Execute(r)
    PROVE  Dated'
  <1> USE DEF Dated
  <1>0. PICK op \in Ops : op = run[r].op
    BY ExecuteStep
  <1>1. /\ run[r].pc = "send" /\ InFlight(r) /\ stamps[op] > 0 /\ run[r].since <= now
        /\ now' = now /\ stamps' = stamps
    BY <1>0, ExecuteStep DEF StampsAreKept, TimesArePast, InFlight
  <1>2. \A q \in Runs : /\ InFlight(q)' => InFlight(q) /\ run[q].op \in Ops
                        /\ run'[q].op = run[q].op /\ run'[q].since = run[q].since
                        /\ run'[q].prior = run[q].prior
                        /\ run'[q].pc = run[q].pc \/ (q = r /\ run'[q].pc = "answered")
    BY ExecuteStep, FlightType DEF InFlight
  <1>3. /\ \A o \in Ops : checkpoint'[o].at = checkpoint[o].at
        /\ \A o \in Ops : PriorMayHaveCreated(checkpoint[o]) => PriorMayHaveCreated(checkpoint'[o])
    BY <1>0, ExecuteStep, MarkStep
  <1>4. \/ effects' = effects
        \/ /\ PriorMayHaveCreated(checkpoint'[op])
           /\ \E new : /\ effects' = effects \cup {new}
                       /\ new.op = op /\ new.at = now /\ new.began = run[r].since
    <2>1. Posted(r) => \E new : /\ effects' = effects \cup {new} /\ new.op = op
                                /\ new.at = now /\ new.began = run[r].since
      <3>1. SUFFICES ASSUME Posted(r)
                     PROVE  \E new : /\ effects' = effects \cup {new} /\ new.op = op
                                     /\ new.at = now /\ new.began = run[r].since
        OBVIOUS
      <3>2. PICK kind, id : effects' = effects \cup {Effect(r, kind, id)}
        BY <3>1 DEF Posted
      <3>3. LET new == Effect(r, kind, id)
            IN  new.op = op /\ new.at = now /\ new.began = run[r].since
        BY <1>0 DEF Effect
      <3> QED BY <3>2, <3>3
    <2> QED BY <1>0, <2>1, ExecuteStep, MarkStep
  <1>5. \A o \in Ops : \A e \in MintedBy(o)' :
           \/ e \in MintedBy(o)
           \/ /\ o = op /\ e.at = now /\ e.began = run[r].since
              /\ PriorMayHaveCreated(checkpoint'[op])
    BY <1>4 DEF MintedBy
  <1>6. TimesArePast'
    <2>1. \A e \in effects' : e.at <= now' /\ e.began <= e.at
      BY <1>1, <1>4, DatedTypes DEF TimesArePast
    <2> QED BY <1>1, <1>2, <1>3, <2>1 DEF TimesArePast
  <1>7. StampsAreKept'
    <2>1. ASSUME NEW q \in Runs, run'[q].pc \in {"send", "answered"} PROVE stamps'[run'[q].op] > 0
      BY <1>0, <1>1, <1>2, <2>1 DEF StampsAreKept
    <2>2. ASSUME NEW o \in Ops, NEW e \in MintedBy(o)'
          PROVE  /\ stamps'[o] > 0
                 /\ stamps'[o] = 1 => /\ PriorMayHaveCreated(checkpoint'[o])
                                      /\ checkpoint'[o].at <= e.at
      <3>1. CASE e \in MintedBy(o)
        BY <1>1, <1>3, <2>2, <3>1 DEF StampsAreKept
      <3>2. CASE e \notin MintedBy(o)
        BY <1>0, <1>1, <1>3, <1>5, <2>2, <3>2 DEF TimesArePast
      <3> QED BY <3>1, <3>2
    <2> QED BY <2>1, <2>2 DEF StampsAreKept
  <1>8. LateAttemptsKnow'
    <2>1. SUFFICES ASSUME NEW q \in Runs, InFlight(q)', NEW e \in MintedBy(run[q].op)',
                          e.at + Window < run'[q].since
                   PROVE  /\ run'[q].pc = "begin" =>
                                \/ stamps'[run'[q].op] > 1
                                \/ /\ PriorMayHaveCreated(run'[q].prior)
                                   /\ run'[q].prior.at <= e.at
                          /\ run'[q].pc = "send" => stamps'[run'[q].op] > 2
      BY DEF LateAttemptsKnow
    <2>2. run'[q].since = run[q].since /\ InFlight(q) /\ run[q].op \in Ops
          /\ run[q].since <= now
      BY <1>2, <2>1 DEF TimesArePast
    <2>3. e \in MintedBy(run[q].op)
      BY <1>2, <1>5, <2>1, <2>2, DatedTypes
    <2> QED BY <1>1, <1>2, <2>1, <2>2, <2>3 DEF LateAttemptsKnow
  <1>9. DuplicateNeedsTwoRetries'
    <2>1. SUFFICES ASSUME NEW o \in Ops, NEW e \in MintedBy(o)', NEW f \in MintedBy(o)',
                          e.at + Window < f.began
                   PROVE  stamps'[o] > 2
      BY DEF DuplicateNeedsTwoRetries
    <2>2. f.began <= now /\ f.began \in Nat
      BY <1>1, <1>5, <2>1, DatedTypes DEF TimesArePast, MintedBy
    <2>3. e \in MintedBy(o)
      BY <1>5, <2>1, <2>2, DatedTypes
    <2>4. CASE f \in MintedBy(o)
      BY <1>1, <2>1, <2>3, <2>4 DEF DuplicateNeedsTwoRetries
    <2>5. CASE f \notin MintedBy(o)
      BY <1>0, <1>1, <1>5, <2>1, <2>3, <2>5 DEF LateAttemptsKnow
    <2> QED BY <2>4, <2>5
  <1> QED BY <1>6, <1>7, <1>8, <1>9

LEMMA DatedNext == Dated /\ [Next]_vars => Dated'
  <1> SUFFICES ASSUME Dated, [Next]_vars PROVE Dated'
    OBVIOUS
  <1>1. WellFormed' /\ EffectsAreKeyed' /\ now \in Nat
    BY WellFormedNext, EffectsAreKeyedNext, DatedTypes DEF Dated
  <1>2. CASE Quiet
    BY <1>1, <1>2, DatedQuiet DEF Quiet
  <1>3. CASE Tick
    BY <1>1, <1>3, DatedQuiet DEF Tick, stripe
  <1> QED BY <1>1, <1>2, <1>3, QuietSteps, DatedBegin, DatedRecord, DatedExecute
          DEF Next, Handle, Dated

\* An attempt that begins after the window of an endpoint of its operation creates no
\* other, but as a third send: the guard refuses it (apply.go applyCreate).
THEOREM DuplicateTakesTwoRetries == Spec => []DuplicateNeedsTwoRetries
  <1>1. ASSUME Init PROVE Dated
    <2>1. /\ \A r \in Runs : run[r].pc = "idle"
          /\ \A op \in Ops : MintedBy(op) = {}
      BY <1>1 DEF Init, Idle, MintedBy
    <2> QED BY <1>1, <2>1, WellFormedInit
            DEF Init, Dated, EffectsAreKeyed, TimesArePast, StampsAreKept, LateAttemptsKnow,
                DuplicateNeedsTwoRetries, InFlight, NoCheckpoint
  <1>2. Spec => []Dated
    BY <1>1, DatedNext, PTL DEF Spec
  <1> QED BY <1>2, PTL DEF Dated
================================================================================
