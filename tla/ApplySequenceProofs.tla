--------------------------- MODULE ApplySequenceProofs ---------------------------
(***************************************************************************)
(* Theorems about sequences of operations of every type, for every value   *)
(* of the constants: the state lets go of an endpoint only when it is      *)
(* gone; a host whose desired webhooks carry the binding's metadata never  *)
(* changes an endpoint that does not; a secret strays only with an update; *)
(* between operations the state describes the endpoint it names; and the   *)
(* whole implements Provision.                                             *)
(***************************************************************************)
EXTENDS ApplyProvision, ApplyActionProofs

\* desiredFrom stamps the metadata from the binding (webhook.go).
TargetsAreStamped == \A t \in Targets : MetadataMatchesBinding(t.meta, Binding)

Holds(s) == s.own \in Owning

\* While an operation is open, the state owns an endpoint just if the one its runs
\* read when they began did, and a state without a generation owns none.
EntriesOwnAlike ==
    /\ \A o, p \in Ops : status[o] = "open" /\ status[p] = "open" => o = p
    /\ Holds(state) => state.gen # 0
    /\ \A r \in Runs : InFlight(r) =>
          /\ Holds(run[r].entry) => run[r].entry.gen # 0
          /\ status[run[r].op] = "open" => (Holds(run[r].entry) <=> Holds(state))

Succeeded(r) == run[r].pc = "answered" /\ run[r].response.ok

\* The endpoint of a teardown that succeeded is gone for good.
TeardownsAreDone ==
    \A r \in Runs : Succeeded(r) /\ Act(r).type = "DELETE" =>
        Act(r).remote \in 0..lastId /\ Act(r).remote \notin DOMAIN endpoints

\* An id that Stripe gave out for an endpoint of this binding, as long as it lives.
Ours(i) == i \in 0..lastId /\ (i \in DOMAIN endpoints => i \in OwnedIds)

\* What an update, or an action on an owned endpoint, names is this binding's.
ActionsAreOurs ==
    \A op \in Ops : status[op] # "new" =>
        /\ action[op].type = "UPDATE" => Ours(action[op].remote)
        /\ action[op].type \notin Creating /\ action[op].own = "OWNED" => Ours(action[op].remote)

StateIsOurs(s) == s.own = "OWNED" => Ours(s.remote)

\* So is what a state owns, what Stripe's answers are about, and what a run that is
\* to send a teardown names, unless an import has made it the state's.
NamesAreOurs ==
    /\ StateIsOurs(state)
    /\ \A r \in Runs : InFlight(r) => StateIsOurs(run[r].entry)
    /\ \A e \in effects : Ours(e.id)
    /\ \A r \in Runs : Succeeded(r) /\ Act(r).type \in Creating => Ours(run[r].response.id)
    /\ \A r \in Runs : run[r].pc = "send" /\ Act(r).type = "DELETE" => Act(r).own \in Owning

SeqInv == WellFormed /\ EntriesOwnAlike /\ TeardownsAreDone
OursInv == WellFormed /\ ActionsAreOurs /\ NamesAreOurs
--------------------------------------------------------------------------------
(* What the steps do. *)

\* The states a run that succeeds answers with.
Results(r) ==
    IF run[r].pc = "answered" THEN NextStates(r)
    ELSE IF Act(r).type = "PROJECT_OUTPUT"
    THEN {[BaseState(run[r].entry, "OBSERVED") EXCEPT !.output = TRUE]}
    ELSE {InertState(Act(r), run[r].entry)}

\* A run ends: without an answer or with one nobody waits for, with a failure, or with
\* a success.
Ends(r) ==
    /\ InFlight(r) /\ run'[r].pc = "ended"
    /\ \A q \in Runs : q # r => run'[q] = run[q]
    /\ UNCHANGED <<stripe, action>>

Silent == UNCHANGED <<status, state>>

Failed(r) == /\ status[run[r].op] = "open" /\ UNCHANGED status
             /\ state' = UnchangedState(run[r].entry)

Settled(r) == /\ status[run[r].op] = "open"
              /\ status' = [status EXCEPT ![run[r].op] = "applied"]
              /\ state' \in Results(r)
              /\ \/ run[r].pc = "begin" /\ Act(r).type \in {"PROJECT_OUTPUT", "NO_OP"}
                 \/ Succeeded(r) /\ Act(r).type \in Sending

LEMMA EndStep ==
    ASSUME WellFormed, NEW r \in Runs,
           Refuse(r) \/ Local(r) \/ Error(r) \/ Complete(r) \/ Fail(r)
    PROVE  Ends(r) /\ (Silent \/ Failed(r) \/ Settled(r))
  <1>0. InFlight(r)
    BY DEF Refuse, Local, Error, Complete, Fail, InFlight
  <1>1. run \in [Runs -> Run] /\ Ended.pc = "ended"
    BY DEF WellFormed, TypeOK, Ended, Idle
  <1>2. ASSUME NEW next, NEW success \in BOOLEAN, Answer(r, next, success)
        PROVE  Ends(r)
    BY <1>0, <1>1, <1>2 DEF Answer, Ends, stripe
  <1>3. ASSUME Answer(r, UnchangedState(run[r].entry), FALSE)
        PROVE  Ends(r) /\ (Silent \/ Failed(r))
    BY <1>2, <1>3 DEF Answer, Silent, Failed
  <1>4. CASE Error(r) \/ Fail(r)
    BY <1>0, <1>1, <1>4 DEF Error, Fail, Ends, Silent, stripe
  <1>5. CASE Refuse(r)
    BY <1>3, <1>5 DEF Refuse
  <1>6. CASE Local(r)
    <2>1. PICK s \in Results(r) : Answer(r, s, TRUE)
      BY <1>6 DEF Local, Results
    <2> QED BY <1>2, <1>6, <2>1 DEF Answer, Local, Silent, Settled
  <1>7. CASE Complete(r) /\ ~run[r].response.ok
    BY <1>3, <1>7 DEF Complete
  <1>8. CASE Complete(r) /\ run[r].response.ok
    <2>1. PICK s \in NextStates(r) : Answer(r, s, TRUE)
      BY <1>8 DEF Complete
    <2>2. Act(r).type \in Sending
      BY <1>8 DEF Complete, WellFormed, RunsAreTyped
    <2> QED BY <1>2, <1>8, <2>1, <2>2 DEF Answer, Complete, Silent, Settled, Results, Succeeded
  <1> QED BY <1>4, <1>5, <1>6, <1>7, <1>8

\* Stripe carries a request out or leaves everything as it was, and an answer of
\* success is about the endpoint it concerned.
Carried(r) == \E id \in 0..(lastId + 1) :
    Perform(r, id) /\ (run'[r].response.ok => run'[r].response.id = id)

LEMMA CarriedStep ==
    ASSUME WellFormed, NEW r \in Runs, Execute(r)
    PROVE  /\ UNCHANGED state /\ run'[r].entry = run[r].entry
           /\ Carried(r) \/ (UNCHANGED stripe /\ ~run'[r].response.ok)
  <1>1. run \in [Runs -> Run]
    BY DEF WellFormed, TypeOK
  <1>2. CASE Receive(r)
    <2>1. PICK id \in 0..(lastId + 1), secret \in BOOLEAN :
            /\ Perform(r, id)
            /\ Respond(r, [delivery |-> "RESPONSE_RECEIVED", ok |-> TRUE, id |-> id,
                           body |-> IF Act(r).type = "IMPORT" THEN endpoints[id] ELSE None,
                           secret |-> secret])
      BY <1>2 DEF Receive
    <2>2. run'[r].response.id = id /\ run'[r].entry = run[r].entry
      BY <1>1, <2>1 DEF Respond, Run
    <2>3. Carried(r)
      BY <2>1, <2>2 DEF Carried
    <2>4. UNCHANGED state
      BY <1>2 DEF Receive
    <2> QED BY <2>2, <2>3, <2>4
  <1>3. CASE Decline(r) \/ Lose(r) \/ NotSend(r)
    <2>1. PICK delivery : Respond(r, Failure(delivery))
      BY <1>3 DEF Decline, Lose, NotSend
    <2>2. ~run'[r].response.ok /\ run'[r].entry = run[r].entry
      BY <1>1, <2>1 DEF Respond, Failure, Run
    <2>3. UNCHANGED stripe \/ \E id \in 0..(lastId + 1) : Perform(r, id)
      BY <1>3 DEF Decline, Lose, NotSend
    <2>4. UNCHANGED state
      BY <1>3 DEF Decline, Lose, NotSend
    <2>5. Carried(r) \/ UNCHANGED stripe
      BY <2>2, <2>3 DEF Carried
    <2> QED BY <2>2, <2>4, <2>5
  <1> QED BY <1>2, <1>3 DEF Execute

\* An id that was given out and is gone stays so; a teardown takes its endpoint away.
LEMMA PerformRemoves ==
    ASSUME WellFormed, NEW r \in Runs, NEW id, Perform(r, id)
    PROVE  /\ lastId \in Nat /\ lastId' \in Nat /\ lastId <= lastId'
           /\ \A i \in 0..lastId : i \notin DOMAIN endpoints => i \notin DOMAIN endpoints'
           /\ Act(r).type = "DELETE" =>
                  Act(r).remote \in 0..lastId' /\ Act(r).remote \notin DOMAIN endpoints'
  <1>1. lastId \in Nat /\ DOMAIN endpoints \subseteq 1..lastId
    BY DEF WellFormed, TypeOK
  <1> QED BY <1>1 DEF Perform, stripe, Creating
--------------------------------------------------------------------------------
(* The state lets go of an endpoint only when it is gone. *)

LEMMA SeqInvInit == Init => SeqInv
  <1> SUFFICES ASSUME Init PROVE EntriesOwnAlike /\ TeardownsAreDone
    BY WellFormedInit DEF SeqInv
  <1>1. \A r \in Runs : run[r].pc = "idle"
    BY DEF Init, Idle
  <1> QED BY <1>1 DEF Init, EntriesOwnAlike, TeardownsAreDone, InFlight, Succeeded, Holds,
                      Owning, NoState

\* What a state owns is decided by its ownership alone: UnchangedState and InertState of
\* an entry own an endpoint just if it does, but for an inert state of a fresh binding.
LEMMA UnchangedHolds ==
    ASSUME NEW s \in State, Holds(s) => s.gen # 0
    PROVE  /\ Holds(UnchangedState(s)) <=> Holds(s)
           /\ UnchangedState(s).gen # 0
  BY DEF State, NoState, Holds, Owning, UnchangedState, BaseState

LEMMA StateFields ==
    ASSUME NEW s \in State, NEW own
    PROVE  /\ BaseState(s, own).gen = s.gen + 1 /\ BaseState(s, own).own = own
           /\ s.gen + 1 # 0
           /\ [BaseState(s, own) EXCEPT !.output = TRUE].gen = s.gen + 1
           /\ \A id, acct : [BaseState(s, own) EXCEPT !.remote = id, !.acct = acct].gen = s.gen + 1
  <1>1. s.gen \in Nat
    BY DEF State
  <1> QED BY <1>1 DEF BaseState, NoState

LEMMA ResultsHold ==
    ASSUME WellFormed, NEW r \in Runs, InFlight(r), NEW s \in Results(r),
           \/ run[r].pc = "begin" /\ Act(r).type \in {"PROJECT_OUTPUT", "NO_OP"}
           \/ Succeeded(r) /\ Act(r).type \in Sending
    PROVE  /\ s.gen # 0
           /\ Act(r).type = "NO_OP" /\ Holds(run[r].entry) /\ run[r].entry.gen # 0 => Holds(s)
           /\ Act(r).type \in Sending \ {"DELETE"} => Holds(s)
  <1> DEFINE entry == run[r].entry
  <1>1. entry \in State
    BY DEF WellFormed, TypeOK, Run
  <1>0. entry.gen + 1 # 0
    BY <1>1 DEF State
  <1>2. CASE Act(r).type = "PROJECT_OUTPUT" /\ run[r].pc = "begin"
    <2>1. s = [BaseState(entry, "OBSERVED") EXCEPT !.output = TRUE]
      BY <1>2 DEF Results
    <2> QED BY <1>1, <1>2, <2>1, StateFields DEF Sending, Creating
  <1>3. CASE Act(r).type = "NO_OP" /\ run[r].pc = "begin"
    <2>1. s = InertState(Act(r), entry)
      BY <1>3 DEF Results
    <2>2. s.gen # 0 /\ (entry.gen # 0 => s = entry)
      BY <1>1, <2>1, StateFields DEF InertState
    <2> QED BY <1>3, <2>2 DEF Sending, Creating
  <1>4. CASE Succeeded(r) /\ Act(r).type = "DELETE"
    <2>1. s = BaseState(entry, "OBSERVED")
      BY <1>4 DEF Results, Succeeded, NextStates, Act, Creating
    <2> QED BY <1>1, <1>4, <2>1, StateFields
  <1>5. CASE Succeeded(r) /\ Act(r).type \in Sending \ {"DELETE"}
    <2>1. s \in NextStates(r)
      BY <1>5 DEF Results, Succeeded
    <2>2. CASE Act(r).type \in Creating
      <3>1. PICK ref \in SigningSecret(r) :
              s = OwnedState(entry, run[r].response.id, Act(r).acct, "OWNED",
                             Act(r).target, {ref})
        BY <2>1, <2>2 DEF NextStates, Act, Creating
      <3>2. s.gen = entry.gen + 1 /\ s.own = "OWNED"
        BY <3>1 DEF OwnedState, BaseState, NoState
      <3> QED BY <1>0, <2>2, <3>2 DEF Holds, Owning, Creating
    <2>3. CASE Act(r).type = "UPDATE"
      <3>1. s = OwnedState(entry, Act(r).remote, Act(r).acct, "OWNED", Act(r).target, entry.refs)
        BY <2>1, <2>3 DEF NextStates, Act, Creating
      <3>2. s.gen = entry.gen + 1 /\ s.own = "OWNED"
        BY <3>1 DEF OwnedState, BaseState, NoState
      <3> QED BY <1>0, <2>3, <3>2 DEF Holds, Owning
    <2>4. CASE Act(r).type = "IMPORT"
      <3>1. s = OwnedState(entry, Act(r).remote, Act(r).acct, "ADOPTED",
                           DesiredOf(run[r].response.body), {})
        BY <2>1, <2>4 DEF NextStates, Act, Creating
      <3>2. s.gen = entry.gen + 1 /\ s.own = "ADOPTED"
        BY <3>1 DEF OwnedState, BaseState, NoState
      <3> QED BY <1>0, <2>4, <3>2 DEF Holds, Owning
    <2> QED BY <1>5, <2>2, <2>3, <2>4 DEF Sending
  <1> QED BY <1>2, <1>3, <1>4, <1>5

LEMMA EndHolds ==
    ASSUME SeqInv, NEW r \in Runs, Ends(r), Failed(r) \/ Settled(r)
    PROVE  /\ Holds(state') => state'.gen # 0
           /\ Failed(r) => (Holds(state') <=> Holds(state))
           /\ Settled(r) /\ Holds(state) /\ ~Holds(state') =>
                  \/ Act(r).type = "PROJECT_OUTPUT"
                  \/ Act(r).type = "DELETE" /\ Succeeded(r)
  <1> DEFINE entry == run[r].entry
  <1>1. /\ entry \in State /\ (Holds(entry) => entry.gen # 0)
        /\ status[run[r].op] = "open" => (Holds(entry) <=> Holds(state))
    BY DEF Ends, SeqInv, WellFormed, TypeOK, Run, EntriesOwnAlike
  <1>2. CASE Failed(r)
    BY <1>1, <1>2, UnchangedHolds DEF Failed, Settled
  <1>3. CASE Settled(r)
    <2>1. state' \in Results(r) /\ InFlight(r) /\ WellFormed
      BY <1>3 DEF Settled, Ends, SeqInv
    <2>2. \/ run[r].pc = "begin" /\ Act(r).type \in {"PROJECT_OUTPUT", "NO_OP"}
          \/ Succeeded(r) /\ Act(r).type \in Sending
      BY <1>3 DEF Settled
    <2>3. /\ state'.gen # 0
          /\ Act(r).type = "NO_OP" /\ Holds(entry) /\ entry.gen # 0 => Holds(state')
          /\ Act(r).type \in Sending \ {"DELETE"} => Holds(state')
      BY <2>1, <2>2, ResultsHold
    <2>4. ~Failed(r)
      BY <1>3, FlightType DEF Failed, Settled, Ends, SeqInv, WellFormed, TypeOK
    <2> QED BY <1>1, <1>3, <2>2, <2>3, <2>4 DEF Settled
  <1> QED BY <1>2, <1>3

\* A teardown that is done stays done where Stripe removes endpoints or adds new ones.
LEMMA DoneStays ==
    ASSUME SeqInv, lastId \in Nat, lastId' \in Nat, lastId <= lastId',
           \A i \in 0..lastId : i \notin DOMAIN endpoints => i \notin DOMAIN endpoints',
           \A q \in Runs : Succeeded(q)' =>
               \/ Succeeded(q) /\ Act(q)' = Act(q)
               \/ Act(q)'.type = "DELETE" =>
                      Act(q)'.remote \in 0..lastId' /\ Act(q)'.remote \notin DOMAIN endpoints'
    PROVE  TeardownsAreDone'
  BY DEF SeqInv, TeardownsAreDone

LEMMA ExecuteKeepsSeq ==
    ASSUME SeqInv, NEW r \in Runs, Execute(r)
    PROVE  EntriesOwnAlike' /\ TeardownsAreDone'
  <1>1. /\ run[r].pc = "send" /\ run'[r].pc = "answered" /\ run'[r].op = run[r].op
        /\ \A q \in Runs : q # r => run'[q] = run[q]
        /\ UNCHANGED <<action, status>>
    BY ExecuteStep DEF SeqInv
  <1>2. /\ UNCHANGED state /\ run'[r].entry = run[r].entry
        /\ Carried(r) \/ (UNCHANGED stripe /\ ~run'[r].response.ok)
    BY CarriedStep DEF SeqInv
  <1>3. \A q \in Runs : q # r => (Succeeded(q)' <=> Succeeded(q)) /\ Act(q)' = Act(q)
    BY <1>1 DEF Succeeded, Act
  <1>4. Act(r)' = Act(r)
    BY <1>1 DEF Act
  <1>5. EntriesOwnAlike'
    BY <1>1, <1>2 DEF SeqInv, EntriesOwnAlike, InFlight
  <1>6. lastId \in Nat
    BY DEF SeqInv, WellFormed, TypeOK
  <1>7. CASE Carried(r)
    <2>1. PICK id : Perform(r, id)
      BY <1>7 DEF Carried
    <2> QED BY <1>3, <1>4, <1>5, <2>1, PerformRemoves, DoneStays DEF SeqInv
  <1>8. CASE UNCHANGED stripe /\ ~run'[r].response.ok
    BY <1>3, <1>5, <1>6, <1>8, DoneStays DEF stripe, Succeeded
  <1> QED BY <1>2, <1>7, <1>8

\* A step that leaves Stripe alone and ends no run with success.
LEMMA StillDone ==
    ASSUME SeqInv, UNCHANGED stripe,
           \A q \in Runs : Succeeded(q)' => Succeeded(q) /\ Act(q)' = Act(q)
    PROVE  TeardownsAreDone'
  <1>1. lastId \in Nat
    BY DEF SeqInv, WellFormed, TypeOK
  <1> QED BY <1>1, DoneStays DEF stripe

LEMMA EndKeepsSeq ==
    ASSUME SeqInv, NEW r \in Runs, Ends(r), Silent \/ Failed(r) \/ Settled(r)
    PROVE  EntriesOwnAlike' /\ TeardownsAreDone'
  <1>1. /\ run[r].op \in Ops /\ InFlight(r)
        /\ status \in [Ops -> {"new", "open", "applied", "abandoned"}]
    BY FlightType DEF Ends, SeqInv, WellFormed, TypeOK
  <1>2. \A q \in Runs : run'[q].pc # "ended" => run'[q] = run[q]
    BY DEF Ends
  <1>3. TeardownsAreDone'
    BY <1>2, StillDone DEF Ends, Succeeded, Act
  <1>4. \A q \in Runs : InFlight(q)' => InFlight(q) /\ run'[q] = run[q] /\ run[q].op \in Ops
    BY <1>2, FlightType DEF InFlight, SeqInv
  <1>5. CASE Silent
    BY <1>3, <1>4, <1>5 DEF Silent, SeqInv, EntriesOwnAlike
  <1>6. CASE Failed(r)
    <2>1. (Holds(state') <=> Holds(state)) /\ (Holds(state') => state'.gen # 0) /\ UNCHANGED status
      BY <1>6, EndHolds DEF Failed
    <2> QED BY <1>3, <1>4, <2>1 DEF SeqInv, EntriesOwnAlike, Holds
  <1>7. CASE Settled(r)
    <2>1. Holds(state') => state'.gen # 0
      BY <1>7, EndHolds
    <2>2. \A p \in Ops : status'[p] # "open"
      BY <1>1, <1>7 DEF Settled, SeqInv, EntriesOwnAlike
    <2> QED BY <1>3, <1>4, <2>1, <2>2 DEF SeqInv, EntriesOwnAlike, Holds
  <1> QED BY <1>5, <1>6, <1>7

LEMMA SeqInvNext == SeqInv /\ [Next]_vars => SeqInv'
  <1> SUFFICES ASSUME SeqInv, [Next]_vars PROVE EntriesOwnAlike' /\ TeardownsAreDone'
    BY WellFormedNext DEF SeqInv
  <1> USE DEF stripe
  <1>1. ASSUME NEW r \in Runs, Execute(r) PROVE EntriesOwnAlike' /\ TeardownsAreDone'
    BY <1>1, ExecuteKeepsSeq
  <1>2. ASSUME NEW r \in Runs, Refuse(r) \/ Local(r) \/ Error(r) \/ Complete(r) \/ Fail(r)
        PROVE  EntriesOwnAlike' /\ TeardownsAreDone'
    BY <1>2, EndStep, EndKeepsSeq DEF SeqInv
  <1>3. \A q \in Runs : Succeeded(q) => InFlight(q)
    BY DEF Succeeded, InFlight
  <1>4. ASSUME NEW op \in Ops, Submit(op) PROVE EntriesOwnAlike' /\ TeardownsAreDone'
    <2>1. /\ UNCHANGED <<stripe, state, run>> /\ status[op] = "new"
          /\ \A p \in Ops : status[p] # "open" /\ (status'[p] = "open" => p = op)
          /\ \A p \in Ops : p # op => action'[p] = action[p]
      BY <1>4 DEF Submit, SubmitAction, SeqInv, WellFormed, TypeOK
    <2>2. \A q \in Runs : InFlight(q) =>
              status'[run[q].op] # "open" /\ Act(q)' = Act(q)
      BY <2>1, FlightType DEF SeqInv, Act
    <2>3. EntriesOwnAlike'
      BY <2>1, <2>2 DEF SeqInv, EntriesOwnAlike, InFlight, Holds
    <2> QED BY <1>3, <2>1, <2>2, <2>3, StillDone DEF Succeeded
  <1>5. ASSUME NEW op \in Ops, Abandon(op) PROVE EntriesOwnAlike' /\ TeardownsAreDone'
    <2>1. /\ UNCHANGED <<stripe, state, run, action>>
          /\ \A p \in Ops : status'[p] = "open" => status[p] = "open"
      BY <1>5 DEF Abandon, SeqInv, WellFormed, TypeOK
    <2>2. EntriesOwnAlike'
      BY <2>1, FlightType DEF SeqInv, EntriesOwnAlike, InFlight, Holds
    <2> QED BY <2>1, <2>2, StillDone DEF Succeeded, Act
  <1>6. ASSUME NEW r \in Runs, NEW op \in Ops, Begin(r, op)
        PROVE  EntriesOwnAlike' /\ TeardownsAreDone'
    <2>1. /\ run'[r].pc = "begin" /\ run'[r].op = op /\ run'[r].entry = state
          /\ \A q \in Runs : q # r => run'[q] = run[q]
          /\ UNCHANGED <<stripe, state, status, action>>
      BY <1>6 DEF Begin, Idle, SeqInv, WellFormed, TypeOK
    <2>2. EntriesOwnAlike'
      BY <2>1 DEF SeqInv, EntriesOwnAlike, InFlight, Holds
    <2> QED BY <2>1, <2>2, StillDone DEF Succeeded, Act
  <1>7. ASSUME NEW r \in Runs, RecordCheckpoint(r) PROVE EntriesOwnAlike' /\ TeardownsAreDone'
    <2>1. /\ run[r].pc = "begin" /\ run'[r] = [run[r] EXCEPT !.pc = "send"]
          /\ \A q \in Runs : q # r => run'[q] = run[q]
          /\ UNCHANGED <<stripe, state, status, action>>
      BY <1>7 DEF RecordCheckpoint, SeqInv, WellFormed, TypeOK
    <2>2. run'[r].pc = "send" /\ run'[r].op = run[r].op /\ run'[r].entry = run[r].entry
      BY <2>1 DEF SeqInv, WellFormed, TypeOK, Run
    <2>3. \A q \in Runs : /\ InFlight(q)' => InFlight(q)
                          /\ run'[q].op = run[q].op /\ run'[q].entry = run[q].entry
      BY <2>1, <2>2 DEF InFlight
    <2>4. EntriesOwnAlike'
      BY <2>1, <2>3 DEF SeqInv, EntriesOwnAlike, Holds
    <2> QED BY <2>1, <2>2, <2>4, StillDone DEF Succeeded, Act
  <1>8. ASSUME Tick \/ UNCHANGED vars PROVE EntriesOwnAlike' /\ TeardownsAreDone'
    <2>1. UNCHANGED <<stripe, state, status, run, action>>
      BY <1>8 DEF Tick, vars
    <2>2. EntriesOwnAlike'
      BY <2>1 DEF SeqInv, EntriesOwnAlike, InFlight, Holds
    <2> QED BY <2>1, <2>2, StillDone DEF Succeeded, Act
  <1> QED BY <1>1, <1>2, <1>4, <1>5, <1>6, <1>7, <1>8 DEF Next, Handle

LEMMA LetsGoWhenGone ==
    ASSUME SeqInv, [Next]_vars, Holds(state), ~Holds(state')
    PROVE  \E op \in Ops : /\ status[op] = "open" /\ status'[op] = "applied"
                          /\ \/ action[op].type = "PROJECT_OUTPUT"
                             \/ /\ action[op].type = "DELETE"
                                /\ action[op].remote \notin DOMAIN endpoints
  <1>1. ASSUME NEW op \in Ops, Submit(op) \/ Abandon(op) PROVE UNCHANGED state
    BY <1>1 DEF Submit, SubmitAction, Abandon
  <1>2. ASSUME NEW r \in Runs, NEW op \in Ops, Begin(r, op) \/ RecordCheckpoint(r)
        PROVE  UNCHANGED state
    BY <1>2 DEF Begin, RecordCheckpoint
  <1>3. ASSUME NEW r \in Runs, Execute(r) \/ RecordCheckpoint(r) PROVE UNCHANGED state
    BY <1>3, CarriedStep DEF SeqInv, RecordCheckpoint
  <1>4. Tick \/ UNCHANGED vars => UNCHANGED state
    BY DEF Tick, vars
  <1>5. ~UNCHANGED state
    BY DEF Holds
  <1>6. PICK r \in Runs : Refuse(r) \/ Local(r) \/ Error(r) \/ Complete(r) \/ Fail(r)
    BY <1>1, <1>2, <1>3, <1>4, <1>5 DEF Next, Handle
  <1>7. Ends(r) /\ Settled(r)
    <2>1. Ends(r) /\ (Silent \/ Failed(r) \/ Settled(r))
      BY <1>6, EndStep DEF SeqInv
    <2>2. Failed(r) => (Holds(state') <=> Holds(state))
      BY <2>1, EndHolds
    <2> QED BY <1>5, <2>1, <2>2 DEF Silent
  <1>8. run[r].op \in Ops /\ status \in [Ops -> {"new", "open", "applied", "abandoned"}]
    BY <1>7, FlightType DEF Ends, SeqInv, WellFormed, TypeOK
  <1>9. \/ Act(r).type = "PROJECT_OUTPUT"
        \/ Act(r).type = "DELETE" /\ Succeeded(r)
    BY <1>7, EndHolds
  <1>10. Act(r).type = "DELETE" /\ Succeeded(r) => Act(r).remote \notin DOMAIN endpoints
    BY DEF SeqInv, TeardownsAreDone
  <1> QED BY <1>7, <1>8, <1>9, <1>10 DEF Settled, Act

\* The state lets go of an endpoint only with a committed projection or with a teardown
\* after which the endpoint it named is gone (apply.go applyDelete).
THEOREM LetGo == Spec => LetGoOnlyWhenGone
  <1>1. SeqInv /\ [Next]_vars =>
          [state.own \in Owning /\ state'.own \notin Owning =>
             \E op \in Ops : /\ status[op] = "open" /\ status'[op] = "applied"
                            /\ \/ action[op].type = "PROJECT_OUTPUT"
                               \/ /\ action[op].type = "DELETE"
                                  /\ action[op].remote \notin DOMAIN endpoints]_vars
    BY LetsGoWhenGone DEF Holds
  <1> QED BY <1>1, SeqInvInit, SeqInvNext, PTL DEF Spec, LetGoOnlyWhenGone
--------------------------------------------------------------------------------
(* What the binding names is its own, and a stranger's endpoint is left alone. *)

LEMMA OursInvInit == Init => OursInv
  <1> SUFFICES ASSUME Init PROVE ActionsAreOurs /\ NamesAreOurs
    BY WellFormedInit DEF OursInv
  <1>1. \A r \in Runs : run[r].pc = "idle"
    BY DEF Init, Idle
  <1>2. \A op \in Ops : status[op] = "new"
    BY DEF Init
  <1> QED BY <1>1, <1>2 DEF Init, ActionsAreOurs, NamesAreOurs, StateIsOurs, NoState, InFlight,
                            Succeeded

\* The action of a run that is to send.
LEMMA SendingType ==
    ASSUME OursInv, NEW r \in Runs, run[r].pc = "send"
    PROVE  /\ lastId \in Nat /\ DOMAIN endpoints \subseteq 1..lastId
           /\ Act(r).type \in Creating \cup {"UPDATE"} => Act(r).target \in Targets
           /\ Act(r).type = "UPDATE" => Ours(Act(r).remote)
           /\ Act(r).type = "DELETE" =>
                  Act(r).own = "ADOPTED" \/ Ours(Act(r).remote)
  <1>1. run[r].op \in Ops /\ status[run[r].op] # "new"
    BY FlightType DEF OursInv, InFlight
  <1> QED BY <1>1 DEF OursInv, WellFormed, TypeOK, RunsAreTyped, ActionsAreOurs, NamesAreOurs,
                      Act, Creating, Owning

LEMMA EffectId == ASSUME NEW r, NEW kind, NEW id PROVE Effect(r, kind, id).id = id
  BY DEF Effect

\* What a request leaves of the endpoints: this binding's ids stay its own, and one
\* that was not is kept, or goes with a teardown of the endpoint an import adopted.
LEMMA PerformOurs ==
    ASSUME TargetsAreStamped, OursInv, NEW r \in Runs, run[r].pc = "send",
           NEW id \in 0..(lastId + 1), Perform(r, id)
    PROVE  /\ \A i : Ours(i) => Ours(i)'
           /\ Act(r).type \in Creating => Ours(id)'
           /\ \A e \in effects' : Ours(e.id)'
           /\ \A i \in DOMAIN endpoints \ OwnedIds :
                 \/ i \in DOMAIN endpoints' /\ endpoints'[i] = endpoints[i]
                 \/ Act(r).type = "DELETE" /\ Act(r).remote = i /\ Act(r).own = "ADOPTED"
  <1> DEFINE a == Act(r)
  <1>0. /\ lastId \in Nat /\ DOMAIN endpoints \subseteq 1..lastId
        /\ a.type \in Creating \cup {"UPDATE"} =>
               a.target \in Targets /\ MetadataMatchesBinding(a.target.meta, Binding)
        /\ a.type = "UPDATE" => Ours(a.remote)
        /\ a.type = "DELETE" => a.own = "ADOPTED" \/ Ours(a.remote)
        /\ \A e \in effects : Ours(e.id)
    BY SendingType DEF TargetsAreStamped, OursInv, NamesAreOurs
  <1>1. CASE /\ a.type \in Creating /\ id = lastId + 1 /\ lastId' = id
             /\ endpoints' = [i \in DOMAIN endpoints \cup {id} |->
                                IF i = id THEN CreateBody(a.target) ELSE endpoints[i]]
             /\ effects' = effects \cup {Effect(r, "create", id)}
    <2>1. CreateBody(a.target).meta = a.target.meta
      BY DEF CreateBody
    <2>2. id \notin DOMAIN endpoints
      BY <1>0, <1>1
    <2>3. \A i : Ours(i) => Ours(i)'
      BY <1>0, <1>1, <2>2 DEF Ours, OwnedIds
    <2>4. Ours(id)'
      BY <1>0, <1>1, <2>1 DEF Ours, OwnedIds
    <2>5. \A i \in DOMAIN endpoints : i \in DOMAIN endpoints' /\ endpoints'[i] = endpoints[i]
      BY <1>1, <2>2
    <2> QED BY <1>0, <1>1, <2>3, <2>4, <2>5, EffectId
  <1>2. CASE /\ a.type = "UPDATE" /\ id = a.remote /\ id \in DOMAIN endpoints /\ lastId' = lastId
             /\ endpoints' = [endpoints EXCEPT ![id] = UpdateBody(@, a.target)]
             /\ effects' = effects \cup {Effect(r, "update", id)}
    <2>1. UpdateBody(endpoints[id], a.target).meta = a.target.meta
      <3>1. endpoints[id] \in Endpoint
        BY <1>2 DEF OursInv, WellFormed, TypeOK
      <3> QED BY <3>1 DEF UpdateBody, Endpoint
    <2>2. \A i : Ours(i) => Ours(i)'
      BY <1>0, <1>2, <2>1 DEF Ours, OwnedIds
    <2>3. Ours(id)' /\ id \in OwnedIds
      BY <1>0, <1>2, <2>2 DEF Ours
    <2>4. \A i \in DOMAIN endpoints \ OwnedIds :
            i \in DOMAIN endpoints' /\ endpoints'[i] = endpoints[i]
      BY <1>2, <2>3
    <2> QED BY <1>0, <1>2, <2>2, <2>3, <2>4, EffectId DEF Creating
  <1>3. CASE /\ UNCHANGED stripe
             /\ a.type \in Creating => \E e \in effects : id = e.id
    <2>1. \A i : Ours(i)' <=> Ours(i)
      BY <1>3 DEF Ours, OwnedIds, stripe
    <2> QED BY <1>0, <1>3, <2>1 DEF stripe
  <1>4. CASE /\ a.type = "DELETE" /\ id = a.remote /\ UNCHANGED <<lastId, effects>>
             /\ endpoints' = [i \in DOMAIN endpoints \ {id} |-> endpoints[i]]
    <2>1. \A i : Ours(i) => Ours(i)'
      BY <1>4 DEF Ours, OwnedIds
    <2>2. \A i \in DOMAIN endpoints \ {id} : i \in DOMAIN endpoints' /\ endpoints'[i] = endpoints[i]
      BY <1>4
    <2>3. id \in DOMAIN endpoints \ OwnedIds => a.own = "ADOPTED"
      BY <1>0, <1>4 DEF Ours
    <2> QED BY <1>0, <1>4, <2>1, <2>2, <2>3 DEF Creating
  <1> QED BY <1>1, <1>2, <1>3, <1>4 DEF Perform, Recorded, Creating

\* The step keeps what is ours and brings no new effect that is not.
OursStay == (\A i : Ours(i) => Ours(i)') /\ (\A e \in effects' : Ours(e.id)')

LEMMA StripeStays ==
    ASSUME OursInv, UNCHANGED stripe PROVE OursStay /\ \A i : Ours(i)' <=> Ours(i)
  BY DEF OursInv, NamesAreOurs, OursStay, Ours, OwnedIds, stripe

LEMMA ExecuteOurs ==
    ASSUME TargetsAreStamped, OursInv, NEW r \in Runs, Execute(r)
    PROVE  /\ OursStay
           /\ run'[r].response.ok /\ Act(r).type \in Creating => Ours(run[r].response.id)'
           /\ \A i \in DOMAIN endpoints \ OwnedIds :
                 \/ i \in DOMAIN endpoints' /\ endpoints'[i] = endpoints[i]
                 \/ Act(r).type = "DELETE" /\ Act(r).remote = i /\ Act(r).own = "ADOPTED"
  <1>1. run[r].pc = "send" /\ (Carried(r) \/ (UNCHANGED stripe /\ ~run'[r].response.ok))
    BY ExecuteStep, CarriedStep DEF OursInv
  <1>2. CASE Carried(r)
    <2>1. PICK id \in 0..(lastId + 1) :
            Perform(r, id) /\ (run'[r].response.ok => run'[r].response.id = id)
      BY <1>2 DEF Carried
    <2>2. /\ OursStay
          /\ Act(r).type \in Creating => Ours(id)'
          /\ \A i \in DOMAIN endpoints \ OwnedIds :
                 \/ i \in DOMAIN endpoints' /\ endpoints'[i] = endpoints[i]
                 \/ Act(r).type = "DELETE" /\ Act(r).remote = i /\ Act(r).own = "ADOPTED"
      BY <1>1, <2>1, PerformOurs DEF OursStay
    <2>3. run'[r].response.ok => (Ours(run[r].response.id)' <=> Ours(id)')
      BY <2>1 DEF Ours, OwnedIds
    <2> QED BY <2>2, <2>3
  <1>3. CASE UNCHANGED stripe /\ ~run'[r].response.ok
    BY <1>3, StripeStays DEF stripe
  <1> QED BY <1>1, <1>2, <1>3

LEMMA ActionsStay ==
    ASSUME OursInv, OursStay, UNCHANGED action,
           \A op \in Ops : status'[op] # "new" => status[op] # "new"
    PROVE  ActionsAreOurs'
  BY DEF OursInv, ActionsAreOurs, OursStay

\* A state without a generation is replaced, or names what its action names.
LEMMA EndOurs ==
    ASSUME OursInv, NEW r \in Runs, Ends(r), Silent \/ Failed(r) \/ Settled(r)
    PROVE  StateIsOurs(state')
  <1> DEFINE entry == run[r].entry
  <1>1. /\ InFlight(r) /\ run[r].op \in Ops /\ status[run[r].op] # "new"
        /\ entry \in State /\ StateIsOurs(entry)
    BY FlightType DEF Ends, OursInv, WellFormed, TypeOK, Run, NamesAreOurs
  <1>2. /\ Act(r).type = "UPDATE" => Ours(Act(r).remote)
        /\ Act(r).type \notin Creating /\ Act(r).own = "OWNED" => Ours(Act(r).remote)
    BY <1>1 DEF OursInv, ActionsAreOurs, Act
  <1>3. CASE Silent
    BY <1>3 DEF Silent, OursInv, NamesAreOurs
  <1>4. CASE Failed(r)
    BY <1>1, <1>4, StateFields DEF Failed, UnchangedState, StateIsOurs
  <1>5. CASE Settled(r) /\ run[r].pc = "begin" /\ Act(r).type = "PROJECT_OUTPUT"
    <2>1. state' = [BaseState(entry, "OBSERVED") EXCEPT !.output = TRUE]
      BY <1>5 DEF Settled, Results
    <2>2. state'.own = "OBSERVED"
      BY <2>1 DEF BaseState, NoState
    <2> QED BY <2>2 DEF StateIsOurs
  <1>6. CASE Settled(r) /\ run[r].pc = "begin" /\ Act(r).type = "NO_OP"
    <2>1. state' = InertState(Act(r), entry)
      BY <1>6 DEF Settled, Results
    <2>2. \/ state' = entry
          \/ state'.own = Act(r).own /\ (Act(r).own \in Owning => state'.remote = Act(r).remote)
      BY <2>1 DEF InertState, BaseState, NoState
    <2> QED BY <1>1, <1>2, <1>6, <2>2 DEF StateIsOurs, Creating, Owning
  <1>7. CASE Settled(r) /\ Succeeded(r) /\ Act(r).type \in Sending
    <2>1. state' \in NextStates(r)
      BY <1>7 DEF Settled, Results, Succeeded
    <2>2. CASE Act(r).type \in Creating
      <3>1. PICK ref \in SigningSecret(r) :
              state' = OwnedState(entry, run[r].response.id, Act(r).acct, "OWNED",
                                  Act(r).target, {ref})
        BY <2>1, <2>2 DEF NextStates, Act, Creating
      <3>2. state'.remote = run[r].response.id
        BY <3>1 DEF OwnedState, BaseState, NoState
      <3>3. Ours(run[r].response.id)
        BY <1>7, <2>2 DEF OursInv, NamesAreOurs
      <3> QED BY <3>2, <3>3 DEF StateIsOurs
    <2>3. CASE Act(r).type = "UPDATE"
      <3>1. state' = OwnedState(entry, Act(r).remote, Act(r).acct, "OWNED", Act(r).target, entry.refs)
        BY <2>1, <2>3 DEF NextStates, Act, Creating
      <3>2. state'.remote = Act(r).remote
        BY <3>1 DEF OwnedState, BaseState, NoState
      <3> QED BY <1>2, <2>3, <3>2 DEF StateIsOurs
    <2>4. CASE Act(r).type = "IMPORT"
      <3>1. state' = OwnedState(entry, Act(r).remote, Act(r).acct, "ADOPTED",
                                DesiredOf(run[r].response.body), {})
        BY <2>1, <2>4 DEF NextStates, Act, Creating
      <3>2. state'.own = "ADOPTED"
        BY <3>1 DEF OwnedState, BaseState, NoState
      <3> QED BY <3>2 DEF StateIsOurs
    <2>5. CASE Act(r).type = "DELETE"
      <3>1. state' = BaseState(entry, "OBSERVED")
        BY <2>1, <2>5 DEF NextStates, Act, Creating
      <3> QED BY <1>1, <3>1, StateFields DEF StateIsOurs
    <2> QED BY <1>7, <2>2, <2>3, <2>4, <2>5 DEF Sending
  <1> QED BY <1>3, <1>4, <1>5, <1>6, <1>7 DEF Settled

LEMMA NamesStay ==
    ASSUME OursInv, UNCHANGED stripe, StateIsOurs(state'),
           \A q \in Runs :
              /\ InFlight(q)' => \/ InFlight(q) /\ run'[q].entry = run[q].entry
                                \/ run'[q].entry = state
              /\ Succeeded(q)' => Succeeded(q) /\ Act(q)' = Act(q) /\ run'[q].response = run[q].response
              /\ run'[q].pc = "send" /\ Act(q)'.type = "DELETE" => Act(q)'.own \in Owning
    PROVE  NamesAreOurs'
  <1>1. OursStay /\ \A i : Ours(i)' <=> Ours(i)
    BY StripeStays
  <1>2. StateIsOurs(state)'
    BY <1>1 DEF StateIsOurs
  <1>3. ASSUME NEW q \in Runs, InFlight(q)' PROVE StateIsOurs(run[q].entry)'
    <2>1. StateIsOurs(run'[q].entry)
      BY <1>3 DEF OursInv, NamesAreOurs
    <2> QED BY <1>1, <2>1 DEF StateIsOurs, Ours, OwnedIds, stripe
  <1>4. ASSUME NEW q \in Runs, Succeeded(q)', Act(q)'.type \in Creating
        PROVE  Ours(run[q].response.id)'
    <2>1. Ours(run[q].response.id) /\ run'[q].response = run[q].response
      BY <1>4 DEF OursInv, NamesAreOurs
    <2> QED BY <2>1 DEF Ours, OwnedIds, stripe
  <1> QED BY <1>1, <1>2, <1>3, <1>4 DEF NamesAreOurs, OursStay

LEMMA ExecuteKeepsOurs ==
    ASSUME TargetsAreStamped, OursInv, NEW r \in Runs, Execute(r)
    PROVE  ActionsAreOurs' /\ NamesAreOurs'
  <1>1. /\ run[r].pc = "send" /\ run'[r].pc = "answered" /\ run'[r].op = run[r].op
        /\ \A q \in Runs : q # r => run'[q] = run[q]
        /\ UNCHANGED <<action, status>>
    BY ExecuteStep DEF OursInv
  <1>2. UNCHANGED state /\ run'[r].entry = run[r].entry
    BY CarriedStep DEF OursInv
  <1>3. /\ OursStay
        /\ run'[r].response.ok /\ Act(r).type \in Creating => Ours(run[r].response.id)'
    BY ExecuteOurs
  <1>4. ActionsAreOurs'
    BY <1>1, <1>3, ActionsStay
  <1>5. \A q \in Runs : Act(q)' = Act(q)
    BY <1>1 DEF Act
  <1>6. StateIsOurs(state)'
    BY <1>2, <1>3 DEF OursInv, NamesAreOurs, StateIsOurs, OursStay
  <1>7. ASSUME NEW q \in Runs, InFlight(q)' PROVE StateIsOurs(run[q].entry)'
    <2>1. InFlight(q) /\ run'[q].entry = run[q].entry
      BY <1>1, <1>2, <1>7 DEF InFlight
    <2> QED BY <1>3, <2>1 DEF OursInv, NamesAreOurs, StateIsOurs, OursStay
  <1>8. ASSUME NEW q \in Runs, Succeeded(q)', Act(q)'.type \in Creating
        PROVE  Ours(run[q].response.id)'
    <2>1. CASE q = r
      BY <1>3, <1>5, <1>8, <2>1 DEF Succeeded
    <2>2. CASE q # r
      <3>1. run'[q] = run[q] /\ Ours(run[q].response.id)
        BY <1>1, <1>5, <1>8, <2>2 DEF Succeeded, OursInv, NamesAreOurs
      <3> QED BY <1>3, <3>1 DEF OursStay
    <2> QED BY <2>1, <2>2
  <1>9. \A q \in Runs : run'[q].pc = "send" /\ Act(q)'.type = "DELETE" => Act(q)'.own \in Owning
    BY <1>1, <1>5 DEF OursInv, NamesAreOurs
  <1> QED BY <1>3, <1>4, <1>6, <1>7, <1>8, <1>9 DEF NamesAreOurs, OursStay

\* A step of the host or of a run that leaves Stripe and the submitted actions alone.
LEMMA OthersKeepOurs ==
    ASSUME OursInv, UNCHANGED <<stripe, action>>,
           \A op \in Ops : status'[op] # "new" => status[op] # "new",
           StateIsOurs(state'),
           \A q \in Runs :
              /\ InFlight(q)' => \/ InFlight(q) /\ run'[q].entry = run[q].entry
                                \/ run'[q].entry = state
              /\ Succeeded(q)' => Succeeded(q) /\ Act(q)' = Act(q) /\ run'[q].response = run[q].response
              /\ run'[q].pc = "send" /\ Act(q)'.type = "DELETE" => Act(q)'.own \in Owning
    PROVE  ActionsAreOurs' /\ NamesAreOurs'
  <1>1. OursStay
    BY StripeStays
  <1> QED BY <1>1, ActionsStay, NamesStay

LEMMA SubmitKeepsOurs ==
    ASSUME OursInv, NEW op \in Ops, Submit(op)
    PROVE  ActionsAreOurs' /\ NamesAreOurs'
  <1>1. PICK type \in ActionTypes, acct \in Accounts :
          \E target \in Inputs(type) : \E remote \in Nameable(type, target) :
              SubmitAction(op, [type |-> type, remote |-> remote, target |-> target,
                                own |-> OwnershipOf(type, remote), acct |-> acct])
    BY DEF Submit
  <1>2. PICK target \in Inputs(type) : \E remote \in Nameable(type, target) :
              SubmitAction(op, [type |-> type, remote |-> remote, target |-> target,
                                own |-> OwnershipOf(type, remote), acct |-> acct])
    BY <1>1
  <1>3. PICK remote \in Nameable(type, target) :
              SubmitAction(op, [type |-> type, remote |-> remote, target |-> target,
                                own |-> OwnershipOf(type, remote), acct |-> acct])
    BY <1>2
  <1>4. /\ UNCHANGED <<stripe, state, run>> /\ status[op] = "new"
        /\ action'[op].type = type /\ action'[op].remote = remote
        /\ action'[op].own = OwnershipOf(type, remote)
        /\ \A p \in Ops : p # op => action'[p] = action[p] /\ status'[p] = status[p]
    BY <1>3 DEF SubmitAction, OursInv, WellFormed, TypeOK
  <1>5. OursStay
    BY <1>4, StripeStays
  <1>6. \A i \in OwnedIds : Ours(i)
    BY DEF Ours, OwnedIds, OursInv, WellFormed, TypeOK
  <1>7. type = "UPDATE" => Ours(remote)
    BY <1>6 DEF Nameable, NewestOwned, Creating
  <1>8. type \notin Creating /\ OwnershipOf(type, remote) = "OWNED" => Ours(remote)
    BY <1>6 DEF OwnershipOf, OursInv, NamesAreOurs, StateIsOurs
  <1>9. ActionsAreOurs'
    <2>1. ASSUME NEW p \in Ops, status'[p] # "new", p # op
          PROVE  /\ action'[p].type = "UPDATE" => Ours(action[p].remote)'
                 /\ action'[p].type \notin Creating /\ action'[p].own = "OWNED"
                        => Ours(action[p].remote)'
      BY <1>4, <1>5, <2>1 DEF OursInv, ActionsAreOurs, OursStay
    <2>2. /\ action'[op].type = "UPDATE" => Ours(action[op].remote)'
          /\ action'[op].type \notin Creating /\ action'[op].own = "OWNED"
                 => Ours(action[op].remote)'
      BY <1>4, <1>5, <1>7, <1>8 DEF OursStay
    <2> QED BY <2>1, <2>2 DEF ActionsAreOurs
  <1>10. \A q \in Runs : InFlight(q) => Act(q)' = Act(q)
    BY <1>4, FlightType DEF OursInv, Act
  <1>11. NamesAreOurs'
    <2>1. StateIsOurs(state')
      BY <1>4 DEF OursInv, NamesAreOurs
    <2>2. \A q \in Runs :
            /\ InFlight(q)' => InFlight(q) /\ run'[q].entry = run[q].entry
            /\ Succeeded(q)' => Succeeded(q) /\ Act(q)' = Act(q) /\ run'[q].response = run[q].response
            /\ run'[q].pc = "send" /\ Act(q)'.type = "DELETE" => Act(q)'.own \in Owning
      BY <1>4, <1>10 DEF InFlight, Succeeded, OursInv, NamesAreOurs
    <2> QED BY <1>4, <2>1, <2>2, NamesStay
  <1> QED BY <1>9, <1>11

LEMMA OursInvNext == TargetsAreStamped /\ OursInv /\ [Next]_vars => OursInv'
  <1> SUFFICES ASSUME TargetsAreStamped, OursInv, [Next]_vars
               PROVE  ActionsAreOurs' /\ NamesAreOurs'
    BY WellFormedNext DEF OursInv
  <1> USE DEF stripe
  <1>0. StateIsOurs(state)
    BY DEF OursInv, NamesAreOurs
  <1>1. ASSUME NEW r \in Runs, Execute(r) PROVE ActionsAreOurs' /\ NamesAreOurs'
    BY <1>1, ExecuteKeepsOurs
  <1>2. ASSUME NEW r \in Runs, Refuse(r) \/ Local(r) \/ Error(r) \/ Complete(r) \/ Fail(r)
        PROVE  ActionsAreOurs' /\ NamesAreOurs'
    <2>1. Ends(r) /\ (Silent \/ Failed(r) \/ Settled(r))
      BY <1>2, EndStep DEF OursInv
    <2>2. StateIsOurs(state')
      BY <2>1, EndOurs
    <2>3. \A op \in Ops : status'[op] # "new" => status[op] # "new"
      BY <2>1, FlightType DEF Silent, Failed, Settled, Ends, OursInv, WellFormed, TypeOK
    <2>4. \A q \in Runs : run'[q].pc # "ended" => run'[q] = run[q]
      BY <2>1 DEF Ends
    <2>5. \A q \in Runs : run'[q].pc # "ended" => Act(q)' = Act(q)
      BY <2>1, <2>4 DEF Ends, Act
    <2>6. \A q \in Runs :
            /\ InFlight(q)' => InFlight(q) /\ run'[q].entry = run[q].entry
            /\ Succeeded(q)' => Succeeded(q) /\ Act(q)' = Act(q) /\ run'[q].response = run[q].response
            /\ run'[q].pc = "send" /\ Act(q)'.type = "DELETE" => Act(q)'.own \in Owning
      BY <2>4, <2>5 DEF InFlight, Succeeded, OursInv, NamesAreOurs
    <2> QED BY <2>1, <2>2, <2>3, <2>6, OthersKeepOurs DEF Ends
  <1>3. ASSUME NEW op \in Ops, Submit(op) PROVE ActionsAreOurs' /\ NamesAreOurs'
    BY <1>3, SubmitKeepsOurs
  <1>4. ASSUME UNCHANGED <<stripe, state, run, action>>,
               \A op \in Ops : status'[op] # "new" => status[op] # "new"
        PROVE  ActionsAreOurs' /\ NamesAreOurs'
    <2>1. \A q \in Runs :
            /\ InFlight(q)' => InFlight(q) /\ run'[q].entry = run[q].entry
            /\ Succeeded(q)' => Succeeded(q) /\ Act(q)' = Act(q) /\ run'[q].response = run[q].response
            /\ run'[q].pc = "send" /\ Act(q)'.type = "DELETE" => Act(q)'.own \in Owning
      BY <1>4 DEF InFlight, Succeeded, Act, OursInv, NamesAreOurs
    <2> QED BY <1>0, <1>4, <2>1, OthersKeepOurs
  <1>5. ASSUME NEW op \in Ops, Abandon(op) PROVE ActionsAreOurs' /\ NamesAreOurs'
    BY <1>4, <1>5 DEF Abandon, OursInv, WellFormed, TypeOK
  <1>6. ASSUME NEW r \in Runs, NEW op \in Ops, Begin(r, op)
        PROVE  ActionsAreOurs' /\ NamesAreOurs'
    <2>1. /\ run'[r].pc = "begin" /\ run'[r].entry = state
          /\ \A q \in Runs : q # r => run'[q] = run[q]
          /\ UNCHANGED <<stripe, state, status, action>>
      BY <1>6 DEF Begin, Idle, OursInv, WellFormed, TypeOK
    <2>2. \A q \in Runs :
            /\ InFlight(q)' => \/ InFlight(q) /\ run'[q].entry = run[q].entry
                              \/ run'[q].entry = state
            /\ Succeeded(q)' => Succeeded(q) /\ Act(q)' = Act(q) /\ run'[q].response = run[q].response
            /\ run'[q].pc = "send" /\ Act(q)'.type = "DELETE" => Act(q)'.own \in Owning
      BY <2>1 DEF InFlight, Succeeded, Act, OursInv, NamesAreOurs
    <2> QED BY <1>0, <2>1, <2>2, OthersKeepOurs
  <1>7. ASSUME NEW r \in Runs, RecordCheckpoint(r) PROVE ActionsAreOurs' /\ NamesAreOurs'
    <2>1. /\ run[r].pc = "begin" /\ run'[r] = [run[r] EXCEPT !.pc = "send"]
          /\ \A q \in Runs : q # r => run'[q] = run[q]
          /\ UNCHANGED <<stripe, state, status, action>> /\ ~BadArguments(Act(r))
      BY <1>7 DEF RecordCheckpoint, OursInv, WellFormed, TypeOK
    <2>2. run'[r].pc = "send" /\ run'[r].op = run[r].op /\ run'[r].entry = run[r].entry
      BY <2>1 DEF OursInv, WellFormed, TypeOK, Run
    <2>3. Act(r)' = Act(r) /\ (Act(r).type = "DELETE" => Act(r).own \in Owning)
      BY <2>1, <2>2 DEF Act, BadArguments, OwnsForTeardown
    <2>4. \A q \in Runs :
            /\ InFlight(q)' => InFlight(q) /\ run'[q].entry = run[q].entry
            /\ Succeeded(q)' => Succeeded(q) /\ Act(q)' = Act(q) /\ run'[q].response = run[q].response
            /\ run'[q].pc = "send" /\ Act(q)'.type = "DELETE" => Act(q)'.own \in Owning
      BY <2>1, <2>2, <2>3 DEF InFlight, Succeeded, Act, OursInv, NamesAreOurs
    <2> QED BY <1>0, <2>1, <2>4, OthersKeepOurs
  <1>8. ASSUME Tick \/ UNCHANGED vars PROVE ActionsAreOurs' /\ NamesAreOurs'
    BY <1>4, <1>8 DEF Tick, vars
  <1> QED BY <1>1, <1>2, <1>3, <1>5, <1>6, <1>7, <1>8 DEF Next, Handle

LEMMA ForeignStays ==
    ASSUME TargetsAreStamped, OursInv, [Next]_vars PROVE ForeignKept
  <1>1. CASE UNCHANGED endpoints
    BY <1>1 DEF ForeignKept
  <1>2. ASSUME NEW r \in Runs, Execute(r)
        PROVE  ForeignKept
    <2> SUFFICES ASSUME NEW i \in DOMAIN endpoints \ OwnedIds
                 PROVE  \/ i \in DOMAIN endpoints' /\ endpoints'[i] = endpoints[i]
                        \/ \E op \in Ops : /\ status[op] # "new" /\ action[op].type = "DELETE"
                                          /\ action[op].remote = i /\ action[op].own = "ADOPTED"
      BY DEF ForeignKept
    <2>1. \/ i \in DOMAIN endpoints' /\ endpoints'[i] = endpoints[i]
          \/ Act(r).type = "DELETE" /\ Act(r).remote = i /\ Act(r).own = "ADOPTED"
      BY <1>2, ExecuteOurs
    <2>2. run[r].op \in Ops /\ status[run[r].op] # "new"
      BY <1>2, ExecuteStep, FlightType DEF OursInv, WellFormed, RunsAreTyped, InFlight
    <2> QED BY <2>1, <2>2 DEF Act
  <1>3. ASSUME NEW op \in Ops, Submit(op) \/ Abandon(op) PROVE UNCHANGED endpoints
    BY <1>3 DEF Submit, SubmitAction, Abandon, stripe
  <1>4. ASSUME NEW r \in Runs, Refuse(r) \/ Local(r) \/ Error(r) \/ Complete(r) \/ Fail(r)
        PROVE  UNCHANGED endpoints
    BY <1>4, EndStep DEF OursInv, Ends, stripe
  <1>5. ASSUME NEW r \in Runs, NEW op \in Ops, Begin(r, op) \/ RecordCheckpoint(r)
        PROVE  UNCHANGED endpoints
    BY <1>5 DEF Begin, RecordCheckpoint, stripe
  <1>6. ASSUME NEW r \in Runs, RecordCheckpoint(r) PROVE UNCHANGED endpoints
    BY <1>6 DEF RecordCheckpoint, stripe
  <1>7. Tick \/ UNCHANGED vars => UNCHANGED endpoints
    BY DEF Tick, vars, stripe
  <1> QED BY <1>1, <1>2, <1>3, <1>4, <1>5, <1>6, <1>7 DEF Next, Handle

\* Where the desired webhooks carry the binding's metadata (webhook.go desiredFrom), an
\* endpoint that does not is never changed, and is deleted only by a teardown of the
\* one an import adopted (apply.go applyUpdate, applyDelete).
THEOREM ForeignSafe == ASSUME TargetsAreStamped PROVE Spec => ForeignUntouched
  <1>1. OursInv /\ [Next]_vars => [ForeignKept]_vars
    BY ForeignStays
  <1>2. OursInv /\ [Next]_vars => OursInv'
    BY OursInvNext
  <1> QED BY <1>1, <1>2, OursInvInit, PTL DEF Spec, ForeignUntouched
--------------------------------------------------------------------------------
(* A secret strays only with an update, or with a duplicate. *)

\* The endpoints an operation created, and those that applied updates name.
Origins == [op \in Ops |-> {e.id : e \in MintedBy(op)}]
Updates == {op \in Ops : status[op] = "applied" /\ action[op].type = "UPDATE"}
Updated == {action[op].remote : op \in Updates}

\* If a state refers to the secret of another endpoint than it names, an update named
\* that endpoint, or one operation created both.
Explained(s) ==
    Holds(s) /\ ~(s.refs \subseteq {s.remote}) =>
       \/ s.remote \in Updated
       \/ \E op \in Ops : s.refs \cup {s.remote} \subseteq Origins[op]

\* What a successful create answers with, and what is captured, its operation created.
SecretsAreExplained ==
    /\ \A e \in effects : status[e.op] # "new" /\ (action[e.op].type \in Creating => e.kind = "create")
    /\ \A r \in Runs : Succeeded(r) /\ Act(r).type \in Creating =>
          run[r].response.id \in Origins[run[r].op]
    /\ \A op \in Ops : captures[op] # 0 => captures[op] \in Origins[op]
    /\ Explained(state)
    /\ \A r \in Runs : InFlight(r) => Explained(run[r].entry)

SecretInv == WellFormed /\ EffectsAreKeyed /\ SecretsAreExplained

LEMMA SecretInvInit == Init => SecretInv
  <1> SUFFICES ASSUME Init PROVE EffectsAreKeyed /\ SecretsAreExplained
    BY WellFormedInit DEF SecretInv
  <1>1. \A r \in Runs : run[r].pc = "idle"
    BY DEF Init, Idle
  <1>2. effects = {} /\ state = NoState /\ \A op \in Ops : captures[op] = 0
    BY DEF Init
  <1> QED BY <1>1, <1>2 DEF EffectsAreKeyed, SecretsAreExplained, InFlight, Succeeded, Explained,
                            Holds, Owning, NoState

\* Nothing created or applied is undone.
HistoryStays ==
    /\ effects \subseteq effects'
    /\ \A op \in Ops : status[op] # "new" =>
          /\ status'[op] # "new" /\ action'[op] = action[op]
          /\ status[op] = "applied" => status'[op] = "applied"

LEMMA OriginsStay ==
    ASSUME HistoryStays
    PROVE  Updated \subseteq Updated' /\ \A op \in Ops : Origins[op] \subseteq Origins'[op]
  <1>1. \A op \in Ops : Origins[op] \subseteq Origins'[op]
    BY DEF HistoryStays, Origins, MintedBy
  <1>2. ASSUME NEW op \in Updates PROVE op \in Updates' /\ action'[op] = action[op]
    BY <1>2 DEF HistoryStays, Updates
  <1> QED BY <1>1, <1>2 DEF Updated

LEMMA ExplainedStays ==
    ASSUME HistoryStays
    PROVE  /\ Explained(state) /\ UNCHANGED state => Explained(state)'
           /\ \A q \in Runs : Explained(run[q].entry) /\ run'[q].entry = run[q].entry
                                 => Explained(run[q].entry)'
           /\ \A q \in Runs : Explained(state) /\ run'[q].entry = state
                                 => Explained(run[q].entry)'
  BY OriginsStay DEF Explained, Holds

\* Every step but the execution of a request.
LEMMA SecretsStay ==
    ASSUME SecretInv, HistoryStays, UNCHANGED <<effects, captures>>, Explained(state)',
           \A q \in Runs :
              /\ InFlight(q)' => \/ InFlight(q) /\ run'[q].entry = run[q].entry
                                \/ run'[q].entry = state
              /\ Succeeded(q)' => /\ Succeeded(q) /\ run'[q].op = run[q].op
                                  /\ run'[q].response = run[q].response
    PROVE  SecretsAreExplained'
  <1>1. \A e \in effects : e.op \in Ops
    BY DEF SecretInv, WellFormed, TypeOK
  <1>2. \A e \in effects' :
          status'[e.op] # "new" /\ (action'[e.op].type \in Creating => e.kind = "create")
    BY <1>1 DEF SecretInv, SecretsAreExplained, HistoryStays
  <1>3. ASSUME NEW q \in Runs, Succeeded(q)', Act(q)'.type \in Creating
        PROVE  run'[q].response.id \in Origins'[run'[q].op]
    <2>1. Succeeded(q) /\ run'[q].op = run[q].op /\ run'[q].response = run[q].response
      BY <1>3
    <2>2. run[q].op \in Ops /\ status[run[q].op] # "new"
      BY <2>1, FlightType DEF SecretInv, Succeeded, InFlight
    <2>3. Act(q)' = Act(q)
      BY <2>1, <2>2 DEF Act, HistoryStays
    <2> QED BY <1>3, <2>1, <2>2, <2>3, OriginsStay DEF SecretInv, SecretsAreExplained
  <1>4. \A op \in Ops : captures'[op] # 0 => captures'[op] \in Origins'[op]
    BY OriginsStay DEF SecretInv, SecretsAreExplained
  <1>5. ASSUME NEW q \in Runs, InFlight(q)' PROVE Explained(run[q].entry)'
    BY <1>5, ExplainedStays DEF SecretInv, SecretsAreExplained
  <1> QED BY <1>2, <1>3, <1>4, <1>5 DEF SecretsAreExplained

LEMMA PerformOrigin ==
    ASSUME SecretInv, NEW r \in Runs, run[r].pc = "send", NEW o, run[r].op = o,
           NEW id \in Nat, Perform(r, id)
    PROVE  /\ effects \subseteq effects'
           /\ \A e \in effects' \ effects : e.op = o /\ (Act(r).type \in Creating => e.kind = "create")
           /\ Act(r).type \in Creating => id \in Origins'[o]
  <1> DEFINE recorded == Recorded(IdempotencyKey(Operation(r)))
  <1>0. o \in Ops
    BY FlightType DEF SecretInv, InFlight
  <1>1. \A kind : /\ Effect(r, kind, id).op = o /\ Effect(r, kind, id).kind = kind
                  /\ Effect(r, kind, id).id = id
    BY DEF Effect
  <1>2. CASE Act(r).type \in Creating /\ effects' = effects \cup {Effect(r, "create", id)}
    <2>1. Effect(r, "create", id) \in MintedBy(o)'
      BY <1>1, <1>2 DEF MintedBy
    <2> QED BY <1>0, <1>1, <1>2, <2>1 DEF Origins
  <1>3. CASE Act(r).type = "UPDATE" /\ effects' = effects \cup {Effect(r, "update", id)}
    BY <1>1, <1>3 DEF Creating
  <1>4. CASE UNCHANGED effects /\ (Act(r).type \in Creating => \E e \in recorded : id = e.id)
    <2>1. CASE Act(r).type \in Creating
      <3>1. PICK e \in recorded : id = e.id
        BY <1>4, <2>1
      <3>2. e \in effects' /\ e.op = o
        BY <1>4, <3>1 DEF Recorded, IdempotencyKey, Operation, SecretInv, EffectsAreKeyed
      <3>3. e.kind = "create"
        BY <1>4, <2>1, <3>2 DEF SecretInv, SecretsAreExplained, Act
      <3>4. e \in MintedBy(o)'
        BY <3>2, <3>3 DEF MintedBy
      <3> QED BY <1>0, <1>4, <3>1, <3>4 DEF Origins
    <2> QED BY <1>4, <2>1
  <1> QED BY <1>2, <1>3, <1>4 DEF Perform, stripe, Creating

LEMMA ExecuteKeepsSecrets ==
    ASSUME SecretInv, NEW r \in Runs, Execute(r) PROVE SecretsAreExplained'
  <1>1. /\ run[r].pc = "send" /\ run'[r].pc = "answered" /\ run'[r].op = run[r].op
        /\ \A q \in Runs : q # r => run'[q] = run[q]
        /\ UNCHANGED <<action, status>>
    BY ExecuteStep DEF SecretInv
  <1>2. UNCHANGED state /\ run'[r].entry = run[r].entry
    BY CarriedStep DEF SecretInv
  <1>3. run[r].op \in Ops /\ status[run[r].op] # "new" /\ captures \in [Ops -> Nat] /\ lastId \in Nat
    BY <1>1, FlightType DEF SecretInv, InFlight, WellFormed, TypeOK
  <1>4. /\ effects \subseteq effects'
        /\ \A e \in effects' \ effects : e.op = run[r].op /\ (Act(r).type \in Creating => e.kind = "create")
        /\ run'[r].response.ok /\ Act(r).type \in Creating => run'[r].response.id \in Origins'[run[r].op]
    <2>1. CASE Carried(r)
      <3>1. PICK id \in 0..(lastId + 1) :
              Perform(r, id) /\ (run'[r].response.ok => run'[r].response.id = id)
        BY <2>1 DEF Carried
      <3>2. id \in Nat
        BY <1>3
      <3> QED BY <1>1, <3>1, <3>2, PerformOrigin
    <2>2. CASE UNCHANGED stripe /\ ~run'[r].response.ok
      BY <2>2 DEF stripe
    <2> QED BY <2>1, <2>2, CarriedStep DEF SecretInv
  <1>5. \A op \in Ops : \/ captures'[op] = captures[op]
                        \/ op = run[r].op /\ captures'[op] \in Origins'[op]
    <2>1. CASE Receive(r)
      <3>1. PICK id \in 0..(lastId + 1), secret \in BOOLEAN :
              /\ Perform(r, id) /\ (secret => Act(r).type \in Creating)
              /\ captures' = IF secret THEN [captures EXCEPT ![run[r].op] = id] ELSE captures
        BY <2>1 DEF Receive
      <3>2. id \in Nat
        BY <1>3
      <3>3. secret => id \in Origins'[run[r].op]
        BY <1>1, <3>1, <3>2, PerformOrigin
      <3> QED BY <1>3, <3>1, <3>3
    <2>2. CASE Decline(r) \/ Lose(r) \/ NotSend(r)
      BY <2>2 DEF Decline, Lose, NotSend
    <2> QED BY <2>1, <2>2 DEF Execute
  <1>6. HistoryStays
    BY <1>1, <1>4 DEF HistoryStays
  <1>7. \A q \in Runs : Act(q)' = Act(q)
    BY <1>1 DEF Act
  <1>8. \A e \in effects' :
          status'[e.op] # "new" /\ (action'[e.op].type \in Creating => e.kind = "create")
    BY <1>1, <1>3, <1>4 DEF SecretInv, SecretsAreExplained, Act
  <1>9. ASSUME NEW q \in Runs, Succeeded(q)', Act(q)'.type \in Creating
        PROVE  run'[q].response.id \in Origins'[run'[q].op]
    <2>1. CASE q = r
      BY <1>1, <1>4, <1>7, <1>9, <2>1 DEF Succeeded
    <2>2. CASE q # r
      <3>1. Succeeded(q) /\ run'[q] = run[q] /\ Act(q).type \in Creating
        BY <1>1, <1>7, <1>9, <2>2 DEF Succeeded
      <3>2. run[q].op \in Ops
        BY <3>1, FlightType DEF SecretInv, Succeeded, InFlight
      <3> QED BY <1>6, <3>1, <3>2, OriginsStay DEF SecretInv, SecretsAreExplained
    <2> QED BY <2>1, <2>2
  <1>10. \A op \in Ops : captures'[op] # 0 => captures'[op] \in Origins'[op]
    BY <1>5, <1>6, OriginsStay DEF SecretInv, SecretsAreExplained
  <1>11. Explained(state)'
    BY <1>2, <1>6, ExplainedStays DEF SecretInv, SecretsAreExplained
  <1>12. ASSUME NEW q \in Runs, InFlight(q)' PROVE Explained(run[q].entry)'
    <2>1. InFlight(q) /\ run'[q].entry = run[q].entry
      BY <1>1, <1>2, <1>12 DEF InFlight
    <2> QED BY <1>6, <2>1, ExplainedStays DEF SecretInv, SecretsAreExplained
  <1> QED BY <1>8, <1>9, <1>10, <1>11, <1>12 DEF SecretsAreExplained

\* The state a run ends with refers to the secret of the endpoint it names, or to what
\* the state it entered with referred to.
LEMMA EndExplained ==
    ASSUME SecretInv, NEW r \in Runs, Ends(r), HistoryStays,
           Silent \/ Failed(r) \/ Settled(r)
    PROVE  Explained(state)'
  <1> DEFINE entry == run[r].entry
  <1>1. /\ InFlight(r) /\ run[r].op \in Ops /\ status[run[r].op] # "new"
        /\ entry \in State /\ Explained(entry)
        /\ status \in [Ops -> {"new", "open", "applied", "abandoned"}]
    BY FlightType DEF Ends, SecretInv, WellFormed, TypeOK, Run, SecretsAreExplained
  <1>2. Act(r) \in Action /\ action' = action
    BY <1>1 DEF SecretInv, WellFormed, RunsAreTyped, Act, Ends
  <1>3. ASSUME state' = entry PROVE Explained(state)'
    BY <1>1, <1>3, OriginsStay DEF Explained, Holds
  <1>4. ASSUME state'.own = "OBSERVED" \/ state'.refs = {} PROVE Explained(state)'
    BY <1>4 DEF Explained, Holds, Owning
  <1>5. CASE Silent
    BY <1>5, ExplainedStays DEF Silent, SecretInv, SecretsAreExplained
  <1>6. CASE Failed(r)
    BY <1>1, <1>3, <1>4, <1>6, StateFields DEF Failed, UnchangedState
  <1>7. CASE Settled(r) /\ run[r].pc = "begin" /\ Act(r).type = "PROJECT_OUTPUT"
    <2>1. state' = [BaseState(entry, "OBSERVED") EXCEPT !.output = TRUE]
      BY <1>7 DEF Settled, Results
    <2>2. state'.own = "OBSERVED"
      BY <2>1 DEF BaseState, NoState
    <2> QED BY <1>4, <2>2
  <1>8. CASE Settled(r) /\ run[r].pc = "begin" /\ Act(r).type = "NO_OP"
    <2>1. state' = InertState(Act(r), entry)
      BY <1>8 DEF Settled, Results
    <2>2. state' = entry \/ state'.refs = {}
      BY <2>1 DEF InertState, BaseState, NoState
    <2> QED BY <1>3, <1>4, <2>2
  <1>9. CASE Settled(r) /\ Succeeded(r) /\ Act(r).type \in Sending
    <2>1. state' \in NextStates(r)
      BY <1>9 DEF Settled, Results, Succeeded
    <2>2. CASE Act(r).type \in Creating
      <3>1. PICK ref \in SigningSecret(r) :
              state' = OwnedState(entry, run[r].response.id, Act(r).acct, "OWNED",
                                  Act(r).target, {ref})
        BY <2>1, <2>2 DEF NextStates, Act, Creating
      <3>2. state'.remote = run[r].response.id /\ state'.refs = {ref}
        BY <3>1 DEF OwnedState, BaseState, NoState
      <3>3. run[r].response.id \in Origins[run[r].op]
        BY <1>9, <2>2 DEF SecretInv, SecretsAreExplained
      <3>4. ref \in Origins[run[r].op]
        BY <1>1, <3>1, <3>3 DEF SigningSecret, SecretInv, SecretsAreExplained
      <3>5. state'.refs \cup {state'.remote} \subseteq Origins'[run[r].op]
        BY <1>1, <3>2, <3>3, <3>4, OriginsStay
      <3> QED BY <1>1, <3>5 DEF Explained
    <2>3. CASE Act(r).type = "UPDATE"
      <3>1. state' = OwnedState(entry, Act(r).remote, Act(r).acct, "OWNED", Act(r).target, entry.refs)
        BY <2>1, <2>3 DEF NextStates, Act, Creating
      <3>2. state'.remote = Act(r).remote
        BY <3>1 DEF OwnedState, BaseState, NoState
      <3>3. action'[run[r].op] = Act(r) /\ status'[run[r].op] = "applied"
        BY <1>1, <1>2, <1>9 DEF Settled, Act
      <3>4. run[r].op \in Updates'
        BY <1>1, <2>3, <3>3 DEF Updates
      <3>5. state'.remote \in Updated'
        BY <3>2, <3>3, <3>4 DEF Updated
      <3> QED BY <3>5 DEF Explained
    <2>4. CASE Act(r).type = "IMPORT"
      <3>1. state' = OwnedState(entry, Act(r).remote, Act(r).acct, "ADOPTED",
                                DesiredOf(run[r].response.body), {})
        BY <2>1, <2>4 DEF NextStates, Act, Creating
      <3>2. state'.refs = {}
        BY <3>1 DEF OwnedState, BaseState, NoState
      <3> QED BY <1>4, <3>2
    <2>5. CASE Act(r).type = "DELETE"
      <3>1. state' = BaseState(entry, "OBSERVED")
        BY <2>1, <2>5 DEF NextStates, Act, Creating
      <3> QED BY <1>1, <1>4, <3>1, StateFields
    <2> QED BY <1>9, <2>2, <2>3, <2>4, <2>5 DEF Sending
  <1> QED BY <1>5, <1>6, <1>7, <1>8, <1>9 DEF Settled

LEMMA SecretInvNext == SecretInv /\ [Next]_vars => SecretInv'
  <1> SUFFICES ASSUME SecretInv, [Next]_vars PROVE SecretsAreExplained'
    BY WellFormedNext, EffectsAreKeyedNext DEF SecretInv
  <1> USE DEF stripe
  <1>0. Explained(state) /\ \A r \in Runs : InFlight(r) <=> run[r].pc \in {"begin", "send", "answered"}
    BY DEF SecretInv, SecretsAreExplained, InFlight
  <1>1. ASSUME NEW r \in Runs, Execute(r) PROVE SecretsAreExplained'
    BY <1>1, ExecuteKeepsSecrets
  <1>2. ASSUME NEW r \in Runs, Refuse(r) \/ Local(r) \/ Error(r) \/ Complete(r) \/ Fail(r)
        PROVE  SecretsAreExplained'
    <2>1. Ends(r) /\ (Silent \/ Failed(r) \/ Settled(r))
      BY <1>2, EndStep DEF SecretInv
    <2>2. UNCHANGED captures
      BY <1>2 DEF Refuse, Local, Error, Complete, Fail, Answer
    <2>3. HistoryStays
      BY <2>1, FlightType DEF HistoryStays, Silent, Failed, Settled, Ends, SecretInv, WellFormed, TypeOK
    <2>4. Explained(state)'
      BY <2>1, <2>3, EndExplained
    <2>5. \A q \in Runs : run'[q].pc # "ended" => run'[q] = run[q]
      BY <2>1 DEF Ends
    <2>6. \A q \in Runs :
            /\ InFlight(q)' => InFlight(q) /\ run'[q].entry = run[q].entry
            /\ Succeeded(q)' => /\ Succeeded(q) /\ run'[q].op = run[q].op
                                /\ run'[q].response = run[q].response
      BY <2>5 DEF InFlight, Succeeded
    <2> QED BY <2>1, <2>2, <2>3, <2>4, <2>6, SecretsStay DEF Ends
  <1>3. ASSUME UNCHANGED <<effects, captures, state, run>>, HistoryStays PROVE SecretsAreExplained'
    <2>1. \A q \in Runs :
            /\ InFlight(q)' => InFlight(q) /\ run'[q].entry = run[q].entry
            /\ Succeeded(q)' => /\ Succeeded(q) /\ run'[q].op = run[q].op
                                /\ run'[q].response = run[q].response
      BY <1>3 DEF InFlight, Succeeded
    <2>2. Explained(state)'
      BY <1>0, <1>3, ExplainedStays
    <2> QED BY <1>3, <2>1, <2>2, SecretsStay
  <1>4. ASSUME NEW op \in Ops, Submit(op) \/ Abandon(op) PROVE SecretsAreExplained'
    <2>1. CASE Abandon(op)
      <3>1. HistoryStays
        BY <2>1 DEF Abandon, HistoryStays, SecretInv, WellFormed, TypeOK
      <3> QED BY <1>3, <2>1, <3>1 DEF Abandon
    <2>2. CASE Submit(op)
      <3>1. PICK a : SubmitAction(op, a)
        BY <2>2 DEF Submit
      <3>2. HistoryStays
        BY <3>1 DEF SubmitAction, HistoryStays, SecretInv, WellFormed, TypeOK
      <3> QED BY <1>3, <3>1, <3>2 DEF SubmitAction
    <2> QED BY <1>4, <2>1, <2>2
  <1>5. ASSUME NEW r \in Runs, NEW op \in Ops, Begin(r, op) PROVE SecretsAreExplained'
    <2>1. /\ run'[r].pc = "begin" /\ run'[r].entry = state
          /\ \A q \in Runs : q # r => run'[q] = run[q]
          /\ UNCHANGED <<effects, captures, state, status, action>>
      BY <1>5 DEF Begin, Idle, SecretInv, WellFormed, TypeOK
    <2>2. HistoryStays
      BY <2>1 DEF HistoryStays
    <2>3. \A q \in Runs :
            /\ InFlight(q)' => \/ InFlight(q) /\ run'[q].entry = run[q].entry
                              \/ run'[q].entry = state
            /\ Succeeded(q)' => /\ Succeeded(q) /\ run'[q].op = run[q].op
                                /\ run'[q].response = run[q].response
      BY <2>1 DEF InFlight, Succeeded
    <2>4. Explained(state)'
      BY <1>0, <2>1, <2>2, ExplainedStays
    <2> QED BY <2>1, <2>2, <2>3, <2>4, SecretsStay
  <1>6. ASSUME NEW r \in Runs, RecordCheckpoint(r) PROVE SecretsAreExplained'
    <2>1. /\ run[r].pc = "begin" /\ run'[r] = [run[r] EXCEPT !.pc = "send"]
          /\ \A q \in Runs : q # r => run'[q] = run[q]
          /\ UNCHANGED <<effects, captures, state, status, action>>
      BY <1>6 DEF RecordCheckpoint, SecretInv, WellFormed, TypeOK
    <2>2. run'[r].pc = "send" /\ run'[r].entry = run[r].entry
      BY <2>1 DEF SecretInv, WellFormed, TypeOK, Run
    <2>3. HistoryStays
      BY <2>1 DEF HistoryStays
    <2>4. \A q \in Runs :
            /\ InFlight(q)' => InFlight(q) /\ run'[q].entry = run[q].entry
            /\ Succeeded(q)' => /\ Succeeded(q) /\ run'[q].op = run[q].op
                                /\ run'[q].response = run[q].response
      BY <2>1, <2>2 DEF InFlight, Succeeded
    <2>5. Explained(state)'
      BY <1>0, <2>1, <2>3, ExplainedStays
    <2> QED BY <2>1, <2>3, <2>4, <2>5, SecretsStay
  <1>7. ASSUME Tick \/ UNCHANGED vars PROVE SecretsAreExplained'
    BY <1>3, <1>7 DEF Tick, vars, HistoryStays
  <1> QED BY <1>1, <1>2, <1>4, <1>5, <1>6, <1>7 DEF Next, Handle

\* As long as no operation has created two endpoints, an owning state with the secret of
\* another endpoint than it names is the work of an update of the one it names (apply.go
\* applyUpdate, resolveSigningSecret).
THEOREM SecretStrays == Spec => []SecretStraysOnlyByUpdate
  <1>1. SecretInv => SecretStraysOnlyByUpdate
    <2> SUFFICES ASSUME SecretInv, NoDuplicateEndpoint,
                        Holds(state), ~(state.refs \subseteq {state.remote})
                 PROVE  state.remote \in Updated
      BY DEF SecretStraysOnlyByUpdate, Holds, Updated, Updates
    <2>1. ASSUME NEW op \in Ops, state.refs \cup {state.remote} \subseteq Origins[op]
          PROVE  FALSE
      <3>1. \A i, j \in Origins[op] : i = j
        BY DEF NoDuplicateEndpoint, Origins
      <3> QED BY <2>1, <3>1
    <2> QED BY <2>1 DEF SecretInv, SecretsAreExplained, Explained
  <1> QED BY <1>1, SecretInvInit, SecretInvNext, PTL DEF Spec
--------------------------------------------------------------------------------
(* Between operations the state describes the endpoint it names. *)

Posting == Creating \cup {"UPDATE"}

\* One operation is open at a time.
OneIsOpen == \A o, p \in Ops : status[o] = "open" /\ status[p] = "open" => o = p

\* Stripe answers the POST of a late attempt from the record of an earlier one.
LateIsReplayed ==
    \A r \in Runs : /\ InFlight(r) /\ Act(r).type \in Posting
                    /\ status[run[r].op] = "applied" \/ Succeeded(r)
        => \E e \in effects : e.key = run[r].op /\ now - e.at <= Window

\* What of the handlers' invariants outlives an operation that is given up.
Applying == Safe /\ SecretsAreExplained /\ OneIsOpen /\ LateIsReplayed

LEMMA ApplyingInit == Init => Applying
  <1> SUFFICES ASSUME Init PROVE Applying
    OBVIOUS
  <1>1. \A r \in Runs : run[r].pc = "idle"
    BY DEF Init, Idle
  <1>2. OneIsOpen /\ LateIsReplayed
    BY <1>1 DEF Init, OneIsOpen, LateIsReplayed, InFlight
  <1> QED BY <1>2, SafeInit, SecretInvInit DEF Applying, SecretInv

\* A POST that is carried out, afresh or from its record, is on record within the window.
LEMMA PostIsRecorded ==
    ASSUME WellFormed, EffectsAreKeyed, NEW r \in Runs, NEW id, Perform(r, id),
           Act(r).type \in Posting, NEW o, run[r].op = o
    PROVE  \E e \in effects' : e.key = o /\ now - e.at <= Window
  <1>1. now \in Nat /\ Window \in Nat
    BY ApplyAssumption DEF WellFormed, TypeOK
  <1>2. \A kind : Effect(r, kind, id).key = o /\ now - Effect(r, kind, id).at <= Window
    BY <1>1 DEF Effect, IdempotencyKey, Operation
  <1>3. CASE \E kind : effects' = effects \cup {Effect(r, kind, id)}
    BY <1>2, <1>3
  <1>4. CASE UNCHANGED effects /\ \E e \in Recorded(IdempotencyKey(Operation(r))) : id = e.id
    BY <1>4 DEF Recorded, IdempotencyKey, Operation
  <1>5. Act(r).type # "DELETE" /\ Act(r).type # "IMPORT"
    BY DEF Posting, Creating
  <1> QED BY <1>3, <1>4, <1>5 DEF Perform, stripe

\* A step of ApplyAction keeps one operation open, and its late attempts replayed.
LEMMA LateNext ==
    ASSUME ~TickInFlight, Applying, [Next]_vars
    PROVE  OneIsOpen' /\ LateIsReplayed'
  <1>0. /\ WellFormed /\ status \in [Ops -> {"new", "open", "applied", "abandoned"}]
        /\ EffectsAreKeyed /\ run \in [Runs -> Run]
        /\ \A q \in Runs : InFlight(q) => run[q].op \in Ops /\ status[run[q].op] # "new"
    BY FlightType DEF Applying, Safe, WellFormed, TypeOK
  <1>1. ASSUME NEW r \in Runs, Execute(r) PROVE OneIsOpen' /\ LateIsReplayed'
    <2>1. /\ \A q \in Runs : InFlight(q)' => InFlight(q) /\ run'[q].op = run[q].op
          /\ \A q \in Runs : q # r => run'[q] = run[q]
          /\ UNCHANGED <<now, action, status>> /\ InFlight(r) /\ run'[r].op = run[r].op
      BY <1>0, <1>1, ExecuteStep DEF InFlight
    <2>2. OneIsOpen'
      BY <2>1 DEF Applying, OneIsOpen
    <2>3. effects \subseteq effects'
      BY <1>0, <1>1, ExecuteStep DEF Posted
    <2>4. ASSUME NEW q \in Runs, InFlight(q)', Act(q)'.type \in Posting,
                 status'[run'[q].op] = "applied" \/ Succeeded(q)'
          PROVE  \E e \in effects' : e.key = run'[q].op /\ now' - e.at <= Window
      <3>0. InFlight(q) /\ run'[q].op = run[q].op /\ Act(q)' = Act(q)
        BY <2>1, <2>4 DEF Act
      <3>1. CASE status[run[q].op] = "applied" \/ (q # r /\ Succeeded(q))
        BY <2>1, <2>3, <2>4, <3>0, <3>1 DEF Applying, LateIsReplayed
      <3>2. CASE q = r /\ Succeeded(r)'
        <4>1. Carried(r)
          BY <1>0, <1>1, <3>2, CarriedStep DEF Succeeded
        <4>2. PICK id \in 0..(lastId + 1) : Perform(r, id)
          BY <4>1 DEF Carried
        <4>3. PICK o : o = run[r].op
          OBVIOUS
        <4>4. \E e \in effects' : e.key = o /\ now - e.at <= Window
          BY <1>0, <2>4, <3>0, <3>2, <4>2, <4>3, PostIsRecorded
        <4> QED BY <2>1, <3>2, <4>3, <4>4
      <3> QED BY <2>1, <2>4, <3>1, <3>2 DEF Succeeded
    <2> QED BY <2>2, <2>4 DEF LateIsReplayed
  <1>2. ASSUME UNCHANGED <<now, effects>>,
               \A op \in Ops : status[op] # "new" => status'[op] # "new" /\ action'[op] = action[op],
               \A q \in Runs :
                  /\ InFlight(q)' => \/ InFlight(q) /\ run'[q].op = run[q].op
                                    \/ /\ run'[q].op \in Ops /\ status'[run'[q].op] = "open"
                                       /\ run'[q].pc = "begin"
                  /\ Succeeded(q)' => Succeeded(q) /\ run'[q].op = run[q].op,
               \A op \in Ops : status'[op] = "applied" =>
                  \/ status[op] = "applied"
                  \/ \E r \in Runs : /\ InFlight(r) /\ run[r].op = op
                                     /\ Act(r).type \in Sending => Succeeded(r)
        PROVE  LateIsReplayed'
    <2> SUFFICES ASSUME NEW q \in Runs, InFlight(q)', Act(q)'.type \in Posting,
                        status'[run'[q].op] = "applied" \/ Succeeded(q)'
                 PROVE  \E e \in effects' : e.key = run'[q].op /\ now' - e.at <= Window
      BY DEF LateIsReplayed
    <2>1. InFlight(q) /\ run'[q].op = run[q].op /\ run[q].op \in Ops
      BY <1>0, <1>2 DEF Succeeded
    <2>2. Act(q)' = Act(q)
      BY <1>0, <1>2, <2>1 DEF Act
    <2>3. CASE status[run[q].op] = "applied" \/ Succeeded(q)
      BY <1>2, <2>1, <2>2, <2>3 DEF Applying, LateIsReplayed
    <2>4. CASE \E r \in Runs : /\ InFlight(r) /\ run[r].op = run[q].op
                               /\ Act(r).type \in Sending => Succeeded(r)
      <3>1. PICK r \in Runs : /\ InFlight(r) /\ run[r].op = run[q].op
                              /\ Act(r).type \in Sending => Succeeded(r)
        BY <2>4
      <3>2. Act(r) = Act(q) /\ Succeeded(r)
        BY <2>2, <3>1 DEF Act, Posting, Sending
      <3> QED BY <1>2, <2>1, <2>2, <3>1, <3>2 DEF Applying, LateIsReplayed
    <2> QED BY <1>2, <2>1, <2>3, <2>4
  <1>3. ASSUME NEW r \in Runs, Refuse(r) \/ Local(r) \/ Error(r) \/ Complete(r) \/ Fail(r)
        PROVE  OneIsOpen' /\ LateIsReplayed'
    <2>1. Ends(r) /\ (Silent \/ Failed(r) \/ Settled(r)) /\ UNCHANGED <<now, effects, action>>
      BY <1>0, <1>3, EndStep DEF Refuse, Local, Error, Complete, Fail, Answer, stripe
    <2>2. /\ InFlight(r) /\ run[r].op \in Ops
          /\ \A q \in Runs : InFlight(q)' => InFlight(q) /\ run'[q] = run[q]
      BY <1>0, <2>1 DEF Ends, InFlight
    <2>3. \A q \in Runs : Succeeded(q)' => Succeeded(q) /\ run'[q] = run[q]
      BY <2>1 DEF Ends, Succeeded
    <2>4. /\ \A p \in Ops : status[p] # "new" => status'[p] # "new"
          /\ \A p \in Ops : \/ status'[p] = status[p]
                            \/ status'[p] = "applied" /\ p = run[r].op /\ Settled(r)
      BY <1>0, <2>1, <2>2 DEF Silent, Failed, Settled
    <2>5. Settled(r) => (Act(r).type \in Sending => Succeeded(r))
      BY DEF Settled, Sending, Creating
    <2>6. OneIsOpen'
      BY <1>0, <2>2, <2>4 DEF Applying, OneIsOpen
    <2> QED BY <1>2, <2>1, <2>2, <2>3, <2>4, <2>5, <2>6
  <1>4. ASSUME NEW op \in Ops, Submit(op) PROVE OneIsOpen' /\ LateIsReplayed'
    <2>1. PICK a : SubmitAction(op, a)
      BY <1>4 DEF Submit
    <2>2. /\ UNCHANGED <<now, effects, run>> /\ status'[op] = "open" /\ status[op] = "new"
          /\ \A p \in Ops : status[p] # "open"
          /\ \A p \in Ops : p # op => action'[p] = action[p] /\ status'[p] = status[p]
      BY <1>0, <2>1 DEF SubmitAction, stripe, WellFormed, TypeOK
    <2>3. OneIsOpen'
      BY <1>0, <2>2 DEF Applying, OneIsOpen, InFlight
    <2> QED BY <1>2, <2>2, <2>3 DEF InFlight, Succeeded
  <1>5. ASSUME NEW op \in Ops, Abandon(op) PROVE OneIsOpen' /\ LateIsReplayed'
    <2>1. /\ UNCHANGED <<now, effects, run, action>> /\ status'[op] = "abandoned"
          /\ \A p \in Ops : p # op => status'[p] = status[p]
      BY <1>0, <1>5 DEF Abandon, stripe
    <2>2. OneIsOpen'
      BY <1>0, <2>1 DEF Applying, OneIsOpen, InFlight
    <2> QED BY <1>2, <2>1, <2>2 DEF InFlight, Succeeded
  <1>6. ASSUME NEW r \in Runs, NEW op \in Ops, Begin(r, op) PROVE OneIsOpen' /\ LateIsReplayed'
    <2>1. /\ run'[r].pc = "begin" /\ run'[r].op = op /\ status[op] = "open"
          /\ \A q \in Runs : q # r => run'[q] = run[q]
          /\ UNCHANGED <<now, effects, action, status>>
      BY <1>0, <1>6, BeginStep DEF Begin
    <2>2. OneIsOpen'
      BY <2>1 DEF Applying, OneIsOpen, InFlight
    <2> QED BY <1>2, <2>1, <2>2 DEF InFlight, Succeeded
  <1>7. ASSUME NEW r \in Runs, RecordCheckpoint(r) PROVE OneIsOpen' /\ LateIsReplayed'
    <2>1. /\ run'[r].pc = "send" /\ run'[r].op = run[r].op /\ InFlight(r)
          /\ \A q \in Runs : q # r => run'[q] = run[q]
          /\ UNCHANGED <<now, effects, action, status>>
      BY <1>0, <1>7, RecordStep
    <2>2. OneIsOpen'
      BY <2>1 DEF Applying, OneIsOpen, InFlight
    <2> QED BY <1>2, <2>1, <2>2 DEF InFlight, Succeeded
  <1>8. CASE Tick
    <2>1. UNCHANGED <<status, run>> /\ \A q \in Runs : ~InFlight(q)'
      BY <1>8 DEF Tick, InFlight
    <2> QED BY <2>1 DEF Applying, OneIsOpen, LateIsReplayed, InFlight
  <1>9. CASE UNCHANGED vars
    BY <1>9 DEF Applying, OneIsOpen, LateIsReplayed, InFlight, Succeeded, Act, vars, stripe
  <1> QED BY <1>1, <1>3, <1>4, <1>5, <1>6, <1>7, <1>8, <1>9 DEF Next, Handle

LEMMA ApplyingNext ==
    ASSUME ~TickInFlight, Applying, [Next]_vars PROVE Applying'
  <1>1. Safe' /\ SecretInv'
    BY SafeNext, SecretInvNext DEF Applying, SecretInv, Safe
  <1> QED BY <1>1, LateNext DEF Applying, SecretInv

--------------------------------------------------------------------------------
(* As long as no operation is given up. *)

\* The endpoint of an applied teardown is gone for good.
TornDownIsGone ==
    \A op \in Ops : status[op] = "applied" /\ action[op].type = "DELETE" =>
        action[op].remote \in 0..lastId /\ action[op].remote \notin DOMAIN endpoints

\* Nobody takes away what an open update or import names, nor changes its version.
NamedLives ==
    \A op \in Ops : status[op] = "open" =>
       /\ action[op].type \in {"UPDATE", "IMPORT"} => action[op].remote \in DOMAIN endpoints
       /\ action[op].type = "UPDATE" => endpoints[action[op].remote].api = action[op].target.api

\* What an open operation wrote is there as it wrote it.
EffectsShow ==
    \A e \in effects : status[e.op] = "open" =>
       /\ action[e.op].type \in Posting
       /\ action[e.op].type = "UPDATE" => e.id = action[e.op].remote
       /\ e.id \in DOMAIN endpoints /\ DesiredOf(endpoints[e.id]) = action[e.op].target

\* What an open import read is still so.
ImportsRead ==
    \A r \in Runs : Succeeded(r) /\ status[run[r].op] = "open" /\ Act(r).type = "IMPORT" =>
        run[r].response.body = endpoints[Act(r).remote]

Describes(s) ==
    Holds(s) /\ s.fields # None =>
        s.remote \in DOMAIN endpoints /\ DesiredOf(endpoints[s.remote]) = s.fields

\* No operation that changes what the state names is open.
Calm == \A op \in Ops : status[op] = "open" => action[op].type \notin {"UPDATE", "DELETE"}

StatesShow ==
    Calm => /\ Describes(state)
            /\ \A r \in Runs : InFlight(r) /\ status[run[r].op] = "open" => Describes(run[r].entry)

Shown == TornDownIsGone /\ NamedLives /\ EffectsShow /\ ImportsRead /\ StatesShow

NoneGivenUp == \A op \in Ops : status[op] # "abandoned"

\* The request of an operation that was given up may still be carried out, and change
\* what a later one relies on.
ShownInv == SeqInv /\ Applying /\ (NoneGivenUp => Shown)

LEMMA ShownInvInit == Init => ShownInv
  <1> SUFFICES ASSUME Init PROVE Shown
    BY SeqInvInit, ApplyingInit DEF ShownInv
  <1>1. \A r \in Runs : run[r].pc = "idle"
    BY DEF Init, Idle
  <1>2. effects = {} /\ state = NoState /\ \A op \in Ops : status[op] = "new"
    BY DEF Init
  <1> QED BY <1>1, <1>2 DEF Shown, TornDownIsGone, NamedLives, EffectsShow, ImportsRead,
                            StatesShow, Describes, Holds, Owning, NoState, InFlight, Succeeded

\* Both bodies give the endpoint the desired fields.
LEMMA BodiesDescribe ==
    ASSUME NEW t \in Desired
    PROVE  /\ DesiredOf(CreateBody(t)) = t
           /\ \A body \in Endpoint : body.api = t.api =>
                  DesiredOf(UpdateBody(body, t)) = t /\ UpdateBody(body, t).api = t.api
  <1>1. t = [url |-> t.url, events |-> t.events, api |-> t.api, desc |-> t.desc, meta |-> t.meta]
    BY DEF Desired
  <1>2. DesiredOf(CreateBody(t)) = t
    BY <1>1 DEF DesiredOf, CreateBody
  <1>3. ASSUME NEW body \in Endpoint, body.api = t.api
        PROVE  DesiredOf(UpdateBody(body, t)) = t /\ UpdateBody(body, t).api = t.api
    <2> DEFINE u == UpdateBody(body, t)
    <2>1. u.url = t.url /\ u.events = t.events /\ u.api = t.api /\ u.desc = t.desc /\ u.meta = t.meta
      BY <1>3 DEF UpdateBody, Endpoint
    <2> HIDE DEF u
    <2>2. DesiredOf(u) = [url |-> t.url, events |-> t.events, api |-> t.api, desc |-> t.desc, meta |-> t.meta]
      BY <2>1 DEF DesiredOf
    <2> QED BY <1>1, <2>1, <2>2 DEF u
  <1> QED BY <1>2, <1>3

\* What a request of operation o, of action a, leaves of the endpoints and the effects.
Leaves(a, o) ==
    /\ effects \subseteq effects'
    /\ status[o] # "open" => UNCHANGED stripe
    /\ \A i \in DOMAIN endpoints :
          \/ i \in DOMAIN endpoints' /\ endpoints'[i] = endpoints[i]
          \/ a.type \in {"UPDATE", "DELETE"} /\ a.remote = i
    /\ \A e \in effects' \ effects :
          /\ e.op = o /\ a.type \in Posting /\ (a.type = "UPDATE" => e.id = a.remote)
          /\ e.id \in DOMAIN endpoints' /\ DesiredOf(endpoints'[e.id]) = a.target
    /\ a.type = "UPDATE" /\ a.remote \in DOMAIN endpoints =>
          /\ a.remote \in DOMAIN endpoints' /\ endpoints'[a.remote].api = endpoints[a.remote].api
          /\ \/ endpoints'[a.remote] = endpoints[a.remote]
             \/ DesiredOf(endpoints'[a.remote]) = a.target

Fresh(o) == \E e \in effects' : e.key = o /\ now - e.at <= Window

LEMMA PerformLeaves ==
    ASSUME ShownInv, NoneGivenUp, NEW r \in Runs, run[r].pc = "send", NEW a, Act(r) = a,
           NEW o, run[r].op = o, NEW id \in Nat, Perform(r, id)
    PROVE  Leaves(a, o) /\ (a.type \in Posting => Fresh(o))
  <1> DEFINE recorded == Recorded(IdempotencyKey(Operation(r)))
  <1>0. /\ o \in Ops /\ status[o] \in {"open", "applied"} /\ action[o] = a
        /\ lastId \in Nat /\ DOMAIN endpoints \subseteq 1..lastId /\ now \in Nat
        /\ \A i \in DOMAIN endpoints : endpoints[i] \in Endpoint
        /\ a.type \in Posting => a.target \in Desired
    <2>1. InFlight(r) /\ WellFormed
      BY DEF InFlight, ShownInv, SeqInv
    <2>2. o \in Ops /\ status[o] \in {"open", "applied"} /\ action[o] = a
      BY <2>1, FlightType DEF NoneGivenUp, Act, WellFormed, TypeOK
    <2> QED BY <2>1, <2>2, ApplyAssumption DEF WellFormed, TypeOK, RunsAreTyped, Posting
  <1>1. \A kind : /\ Effect(r, kind, id).op = o /\ Effect(r, kind, id).key = o
                  /\ Effect(r, kind, id).id = id /\ now - Effect(r, kind, id).at <= Window
    BY <1>0, ApplyAssumption DEF Effect, IdempotencyKey, Operation
  <1>2. status[o] # "open" /\ a.type \in Posting => recorded # {}
    <2>1. IdempotencyKey(Operation(r)) = o
      BY DEF IdempotencyKey, Operation
    <2> QED BY <1>0, <2>1 DEF ShownInv, Applying, LateIsReplayed, Recorded, InFlight
  <1>3. status[o] # "open" /\ a.type = "DELETE" => a.remote \notin DOMAIN endpoints
    BY <1>0 DEF ShownInv, Shown, TornDownIsGone
  <1>4. CASE /\ a.type \in Creating /\ recorded = {}
             /\ id = lastId + 1 /\ lastId' = id
             /\ endpoints' = [i \in DOMAIN endpoints \cup {id} |->
                                IF i = id THEN CreateBody(a.target) ELSE endpoints[i]]
             /\ effects' = effects \cup {Effect(r, "create", id)}
    <2>1. a.type \in Posting /\ a.type \notin {"UPDATE", "DELETE"}
      BY <1>4 DEF Posting, Creating
    <2>2. id \notin DOMAIN endpoints
      BY <1>0, <1>4
    <2>3. id \in DOMAIN endpoints' /\ DesiredOf(endpoints'[id]) = a.target
      BY <1>0, <1>4, <2>1, BodiesDescribe
    <2>4. \A i \in DOMAIN endpoints : i \in DOMAIN endpoints' /\ endpoints'[i] = endpoints[i]
      BY <1>4, <2>2
    <2>5. status[o] = "open"
      BY <1>2, <1>4, <2>1
    <2>6. Fresh(o)
      BY <1>1, <1>4 DEF Fresh
    <2> QED BY <1>1, <1>4, <2>1, <2>3, <2>4, <2>5, <2>6 DEF Leaves
  <1>5. CASE /\ a.type = "UPDATE" /\ recorded = {} /\ id = a.remote
             /\ a.remote \in DOMAIN endpoints /\ lastId' = lastId
             /\ endpoints' = [endpoints EXCEPT ![id] = UpdateBody(@, a.target)]
             /\ effects' = effects \cup {Effect(r, "update", id)}
    <2>1. a.type \in Posting
      BY <1>5 DEF Posting
    <2>2. status[o] = "open"
      BY <1>2, <1>5, <2>1
    <2>3. endpoints[id] \in Endpoint /\ endpoints[id].api = a.target.api
      BY <1>0, <1>5, <2>2 DEF ShownInv, Shown, NamedLives
    <2>4. /\ id \in DOMAIN endpoints' /\ DesiredOf(endpoints'[id]) = a.target
          /\ endpoints'[id].api = endpoints[id].api
      BY <1>0, <1>5, <2>1, <2>3, BodiesDescribe
    <2>5. \A i \in DOMAIN endpoints : i # id => i \in DOMAIN endpoints' /\ endpoints'[i] = endpoints[i]
      BY <1>5
    <2>6. Fresh(o)
      BY <1>1, <1>5 DEF Fresh
    <2> QED BY <1>1, <1>5, <2>1, <2>2, <2>4, <2>5, <2>6 DEF Leaves
  <1>6. CASE UNCHANGED stripe /\ (a.type \in Posting => recorded # {})
    <2>1. Leaves(a, o)
      BY <1>6 DEF Leaves, stripe
    <2>2. recorded # {} => Fresh(o)
      BY <1>6 DEF Fresh, Recorded, IdempotencyKey, Operation, stripe
    <2> QED BY <1>6, <2>1, <2>2
  <1>7. CASE /\ a.type = "DELETE" /\ id = a.remote /\ id \in DOMAIN endpoints
             /\ endpoints' = [i \in DOMAIN endpoints \ {id} |-> endpoints[i]]
             /\ UNCHANGED <<lastId, effects>>
    BY <1>3, <1>7 DEF Leaves, Posting, Creating
  <1> HIDE DEF recorded
  <1>8. a.type = "IMPORT" => a.type \notin Posting
    BY DEF Posting, Creating
  <1>9. ASSUME a.type \in Creating \cup {"UPDATE"}, \E e \in recorded : id = e.id, UNCHANGED stripe
        PROVE  Leaves(a, o) /\ (a.type \in Posting => Fresh(o))
    BY <1>6, <1>9
  <1> QED BY <1>4, <1>5, <1>6, <1>7, <1>8, <1>9 DEF Perform, recorded

LEMMA ExecuteLeaves ==
    ASSUME ShownInv, NoneGivenUp, NEW r \in Runs, Execute(r), NEW a, Act(r) = a, NEW o, run[r].op = o
    PROVE  /\ Leaves(a, o)
           /\ run'[r].response.ok /\ a.type \in Posting => Fresh(o)
           /\ run'[r].response.ok /\ a.type = "IMPORT" => run'[r].response.body = endpoints[a.remote]
           /\ a.type = "IMPORT" => UNCHANGED endpoints
           /\ \A i : i \in 0..lastId /\ i \notin DOMAIN endpoints =>
                  i \in 0..lastId' /\ i \notin DOMAIN endpoints'
  <1>1. /\ run[r].pc = "send" /\ run \in [Runs -> Run] /\ lastId \in Nat
        /\ Carried(r) \/ (UNCHANGED stripe /\ ~run'[r].response.ok)
    BY ExecuteStep, CarriedStep DEF ShownInv, SeqInv, WellFormed, TypeOK
  <1>2. \A i : i \in 0..lastId /\ i \notin DOMAIN endpoints =>
            i \in 0..lastId' /\ i \notin DOMAIN endpoints'
    <2>1. CASE Carried(r)
      <3>1. PICK id : Perform(r, id)
        BY <2>1 DEF Carried
      <3> QED BY <3>1, PerformRemoves DEF ShownInv, SeqInv
    <2>2. CASE UNCHANGED stripe
      BY <2>2 DEF stripe
    <2> QED BY <1>1, <2>1, <2>2
  <1>3. a.type = "IMPORT" => UNCHANGED endpoints
    <2>1. ASSUME NEW id, Perform(r, id), a.type = "IMPORT" PROVE UNCHANGED endpoints
      BY <2>1 DEF Perform, Creating, stripe
    <2> QED BY <1>1, <2>1 DEF Carried, stripe
  <1>4. run'[r].response.ok /\ a.type = "IMPORT" => run'[r].response.body = endpoints[a.remote]
    <2>1. CASE Receive(r) /\ a.type = "IMPORT"
      <3>1. PICK id \in 0..(lastId + 1), secret \in BOOLEAN :
              /\ Perform(r, id)
              /\ Respond(r, [delivery |-> "RESPONSE_RECEIVED", ok |-> TRUE, id |-> id,
                             body |-> IF Act(r).type = "IMPORT" THEN endpoints[id] ELSE None,
                             secret |-> secret])
        BY <2>1 DEF Receive
      <3>2. id = a.remote
        BY <2>1, <3>1 DEF Perform, Creating
      <3> QED BY <1>1, <2>1, <3>1, <3>2 DEF Respond, Run
    <2>2. CASE Decline(r) \/ Lose(r) \/ NotSend(r)
      <3>1. PICK delivery : Respond(r, Failure(delivery))
        BY <2>2 DEF Decline, Lose, NotSend
      <3> QED BY <1>1, <3>1 DEF Respond, Failure, Run
    <2> QED BY <2>1, <2>2 DEF Execute
  <1>5. Leaves(a, o) /\ (run'[r].response.ok /\ a.type \in Posting => Fresh(o))
    <2>1. CASE Carried(r)
      <3>1. PICK id \in 0..(lastId + 1) : Perform(r, id)
        BY <2>1 DEF Carried
      <3>2. id \in Nat
        BY <1>1
      <3> QED BY <1>1, <3>1, <3>2, PerformLeaves
    <2>2. CASE UNCHANGED stripe /\ ~run'[r].response.ok
      BY <2>2 DEF Leaves, stripe
    <2> QED BY <1>1, <2>1, <2>2
  <1> QED BY <1>2, <1>3, <1>4, <1>5

LEMMA ExecuteShows ==
    ASSUME ShownInv, NoneGivenUp, NEW r \in Runs, Execute(r)
    PROVE  Shown'
  <1> DEFINE a == Act(r)
             o == run[r].op
  <1>1. /\ run[r].pc = "send" /\ run'[r].pc = "answered" /\ run'[r].op = o
        /\ \A q \in Runs : q # r => run'[q] = run[q]
        /\ UNCHANGED <<now, action, status>>
    BY ExecuteStep DEF ShownInv, SeqInv
  <1>2. UNCHANGED state /\ run'[r].entry = run[r].entry
    BY CarriedStep DEF ShownInv, SeqInv
  <1>3. /\ o \in Ops /\ status[o] \in {"open", "applied"} /\ action[o] = a
        /\ \A q \in Runs : run'[q].op = run[q].op /\ (InFlight(q)' <=> InFlight(q))
        /\ \A q \in Runs : Act(q)' = Act(q) /\ (InFlight(q) => run[q].op \in Ops)
        /\ \A e \in effects : e.op \in Ops
        /\ \A p \in Ops : status[p] = "open" /\ status[o] = "open" => p = o
    <2>1. WellFormed /\ InFlight(r)
      BY <1>1 DEF ShownInv, SeqInv, InFlight
    <2>2. \A q \in Runs : InFlight(q) => run[q].op \in Ops /\ status[run[q].op] # "new"
      BY <2>1, FlightType
    <2> QED BY <1>1, <2>1, <2>2
            DEF InFlight, ShownInv, Applying, OneIsOpen, NoneGivenUp, Act, WellFormed, TypeOK
  <1>4. /\ Leaves(a, o)
        /\ run'[r].response.ok /\ a.type \in Posting => Fresh(o)
        /\ run'[r].response.ok /\ a.type = "IMPORT" => run'[r].response.body = endpoints[a.remote]
        /\ a.type = "IMPORT" => UNCHANGED endpoints
        /\ \A i : i \in 0..lastId /\ i \notin DOMAIN endpoints =>
               i \in 0..lastId' /\ i \notin DOMAIN endpoints'
    BY ExecuteLeaves
  <1> HIDE DEF a, o
  <1>7. TornDownIsGone'
    BY <1>1, <1>4 DEF ShownInv, Shown, TornDownIsGone
  <1>8. ASSUME NEW i \in DOMAIN endpoints, status[o] = "open" => a.type \notin {"UPDATE", "DELETE"}
        PROVE  i \in DOMAIN endpoints' /\ endpoints'[i] = endpoints[i]
    BY <1>4, <1>8 DEF Leaves, stripe
  <1>9. NamedLives'
    <2> SUFFICES ASSUME NEW p \in Ops, status[p] = "open"
                 PROVE  /\ action[p].type \in {"UPDATE", "IMPORT"} => action[p].remote \in DOMAIN endpoints'
                        /\ action[p].type = "UPDATE" =>
                               endpoints'[action[p].remote].api = action[p].target.api
      BY <1>1 DEF NamedLives
    <2>1. /\ action[p].type \in {"UPDATE", "IMPORT"} => action[p].remote \in DOMAIN endpoints
          /\ action[p].type = "UPDATE" => endpoints[action[p].remote].api = action[p].target.api
      BY DEF ShownInv, Shown, NamedLives
    <2>2. CASE status[o] = "open"
      <3>1. p = o /\ action[p] = a
        BY <1>3, <2>2
      <3>2. CASE a.type = "UPDATE"
        BY <1>4, <2>1, <3>1, <3>2 DEF Leaves
      <3>3. CASE a.type = "IMPORT"
        BY <1>4, <2>1, <3>1, <3>3
      <3> QED BY <3>1, <3>2, <3>3
    <2>3. CASE status[o] # "open"
      BY <1>4, <2>1, <2>3 DEF Leaves, stripe
    <2> QED BY <2>2, <2>3
  <1>10. EffectsShow'
    <2> SUFFICES ASSUME NEW e \in effects', status'[e.op] = "open"
                 PROVE  /\ action'[e.op].type \in Posting
                        /\ action'[e.op].type = "UPDATE" => e.id = action'[e.op].remote
                        /\ e.id \in DOMAIN endpoints'
                        /\ DesiredOf(endpoints'[e.id]) = action'[e.op].target
      BY DEF EffectsShow
    <2>1. CASE e \in effects
      <3>1. /\ action[e.op].type \in Posting
            /\ action[e.op].type = "UPDATE" => e.id = action[e.op].remote
            /\ e.id \in DOMAIN endpoints /\ DesiredOf(endpoints[e.id]) = action[e.op].target
        BY <1>1, <2>1 DEF ShownInv, Shown, EffectsShow
      <3>2. CASE status[o] # "open"
        BY <1>1, <1>8, <3>1, <3>2
      <3>3. CASE status[o] = "open" /\ a.type \notin {"UPDATE", "DELETE"}
        BY <1>1, <1>8, <3>1, <3>3
      <3>4. CASE status[o] = "open" /\ a.type \in {"UPDATE", "DELETE"}
        <4>1. e.op = o /\ action[e.op] = a
          BY <1>1, <1>3, <2>1, <3>4
        <4>2. a.type = "UPDATE" /\ e.id = a.remote
          BY <3>1, <3>4, <4>1 DEF Posting, Creating
        <4>3. /\ e.id \in DOMAIN endpoints'
              /\ endpoints'[e.id] = endpoints[e.id] \/ DesiredOf(endpoints'[e.id]) = a.target
          BY <1>4, <3>1, <4>2 DEF Leaves
        <4> QED BY <1>1, <3>1, <4>1, <4>2, <4>3
      <3> QED BY <3>2, <3>3, <3>4
    <2>2. CASE e \notin effects
      BY <1>1, <1>3, <1>4, <2>2 DEF Leaves
    <2> QED BY <2>1, <2>2
  <1>11. ImportsRead'
    <2> SUFFICES ASSUME NEW q \in Runs, Succeeded(q)', status[run[q].op] = "open", Act(q).type = "IMPORT"
                 PROVE  run'[q].response.body = endpoints'[Act(q).remote]
      BY <1>1, <1>3 DEF ImportsRead
    <2>0. q = r \/ (Succeeded(q) /\ run'[q] = run[q])
      BY <1>1 DEF Succeeded
    <2>1. CASE q = r
      BY <1>4, <2>1 DEF Succeeded, a
    <2>2. CASE q # r
      <3>1. run[q].response.body = endpoints[Act(q).remote] /\ run[q].op \in Ops
        BY <1>3, <2>0, <2>2 DEF ShownInv, Shown, ImportsRead, InFlight, Succeeded
      <3>2. CASE status[o] = "open"
        <4>1. run[q].op = o /\ Act(q) = a
          BY <1>3, <3>1, <3>2 DEF Act
        <4> QED BY <1>4, <2>0, <2>2, <3>1, <4>1
      <3>3. CASE status[o] # "open"
        BY <1>4, <2>0, <2>2, <3>1, <3>3 DEF Leaves, stripe
      <3> QED BY <3>2, <3>3
    <2> QED BY <2>1, <2>2
  <1>12. StatesShow'
    <2> SUFFICES ASSUME Calm
                 PROVE  /\ Describes(state)'
                        /\ \A q \in Runs : InFlight(q) /\ status[run[q].op] = "open"
                                              => Describes(run[q].entry)'
      BY <1>1, <1>3 DEF StatesShow, Calm
    <2>1. \A i \in DOMAIN endpoints : i \in DOMAIN endpoints' /\ endpoints'[i] = endpoints[i]
      BY <1>3, <1>8 DEF Calm
    <2>2. Describes(state) => Describes(state)'
      BY <1>2, <2>1 DEF Describes, Holds
    <2>3. \A q \in Runs : run'[q].entry = run[q].entry
      BY <1>1, <1>2
    <2>4. ASSUME NEW q \in Runs, Describes(run[q].entry) PROVE Describes(run[q].entry)'
      BY <2>1, <2>3, <2>4 DEF Describes, Holds
    <2> QED BY <2>2, <2>4 DEF ShownInv, Shown, StatesShow
  <1> QED BY <1>7, <1>9, <1>10, <1>11, <1>12 DEF Shown

\* The end of a run leaves a state that describes its endpoint, if the state it entered
\* with did or its own success wrote one.
LEMMA EndDescribes ==
    ASSUME ShownInv, NoneGivenUp, NEW r \in Runs, Ends(r), Failed(r) \/ Settled(r),
           Failed(r) => Calm
    PROVE  Describes(state)'
  <1> DEFINE a == Act(r)
             o == run[r].op
             entry == run[r].entry
  <1>1. /\ InFlight(r) /\ o \in Ops /\ status[o] = "open" /\ action[o] = a /\ UNCHANGED endpoints
        /\ entry \in State
        /\ \A p \in Ops : status[p] = "open" => p = o
    <2>1. WellFormed /\ InFlight(r) /\ UNCHANGED stripe
      BY DEF Ends, ShownInv, SeqInv
    <2>2. status[o] = "open"
      BY DEF Failed, Settled
    <2>3. o \in Ops /\ entry \in State
      BY <2>1, FlightType DEF WellFormed, TypeOK, Run
    <2> QED BY <2>1, <2>2, <2>3 DEF ShownInv, Applying, OneIsOpen, Act, stripe
  <1>2. Calm => Describes(entry)
    BY <1>1 DEF ShownInv, Shown, StatesShow
  <1>3. a.type \notin {"UPDATE", "DELETE"} => Calm
    BY <1>1 DEF Calm
  <1> HIDE DEF a, o, entry
  <1>4. ASSUME state' = entry, Calm PROVE Describes(state)'
    BY <1>1, <1>2, <1>4 DEF Describes, Holds
  <1>5. ASSUME state'.own = "OBSERVED" \/ state'.fields = None PROVE Describes(state)'
    BY <1>5 DEF Describes, Holds, Owning
  <1>6. CASE Failed(r)
    BY <1>1, <1>4, <1>5, <1>6, StateFields DEF Failed, UnchangedState, entry
  <1>7. CASE Settled(r) /\ run[r].pc = "begin" /\ a.type = "PROJECT_OUTPUT"
    <2>1. state' = [BaseState(entry, "OBSERVED") EXCEPT !.output = TRUE]
      BY <1>7 DEF Settled, Results, a, entry
    <2>2. state'.own = "OBSERVED"
      BY <2>1 DEF BaseState, NoState
    <2> QED BY <1>5, <2>2
  <1>8. CASE Settled(r) /\ run[r].pc = "begin" /\ a.type = "NO_OP"
    <2>1. state' = InertState(a, entry)
      BY <1>8 DEF Settled, Results, a, entry
    <2>2. state' = entry \/ state'.fields = None
      BY <2>1 DEF InertState, BaseState, NoState
    <2> QED BY <1>3, <1>4, <1>5, <1>8, <2>2
  <1>9. ASSUME NEW e \in effects, e.op = o
        PROVE  /\ a.type = "UPDATE" => e.id = a.remote
               /\ e.id \in DOMAIN endpoints /\ DesiredOf(endpoints[e.id]) = a.target
    BY <1>1, <1>9 DEF ShownInv, Shown, EffectsShow
  <1>10. CASE Settled(r) /\ Succeeded(r) /\ a.type \in Sending
    <2>1. state' \in NextStates(r)
      BY <1>10 DEF Settled, Results, Succeeded
    <2>2. CASE a.type \in Creating
      <3>1. PICK ref \in SigningSecret(r) :
              state' = OwnedState(entry, run[r].response.id, a.acct, "OWNED", a.target, {ref})
        BY <2>1, <2>2 DEF NextStates, Act, Creating, a, entry
      <3>2. state'.remote = run[r].response.id /\ state'.fields = a.target
        BY <3>1 DEF OwnedState, BaseState, NoState
      <3>3. run[r].response.id \in Origins[o]
        BY <1>10, <2>2 DEF ShownInv, Applying, SecretsAreExplained, a, o
      <3>4. PICK e \in effects : e.op = o /\ e.id = run[r].response.id
        BY <1>1, <3>3 DEF Origins, MintedBy
      <3> QED BY <1>1, <1>9, <3>2, <3>4 DEF Describes
    <2>3. CASE a.type = "UPDATE"
      <3>1. state' = OwnedState(entry, a.remote, a.acct, "OWNED", a.target, entry.refs)
        BY <2>1, <2>3 DEF NextStates, Act, Creating, a, entry
      <3>2. state'.remote = a.remote /\ state'.fields = a.target
        BY <3>1 DEF OwnedState, BaseState, NoState
      <3>3. PICK e \in effects : e.key = o
        BY <1>1, <1>10, <2>3 DEF ShownInv, Applying, LateIsReplayed, Posting, a, o
      <3>4. e.op = o
        BY <3>3 DEF ShownInv, Applying, Safe, EffectsAreKeyed
      <3> QED BY <1>1, <1>9, <2>3, <3>2, <3>4 DEF Describes
    <2>4. CASE a.type = "IMPORT"
      <3>1. state' = OwnedState(entry, a.remote, a.acct, "ADOPTED",
                                DesiredOf(run[r].response.body), {})
        BY <2>1, <2>4 DEF NextStates, Act, Creating, a, entry
      <3>2. state'.remote = a.remote /\ state'.fields = DesiredOf(run[r].response.body)
        BY <3>1 DEF OwnedState, BaseState, NoState
      <3>3. a.remote \in DOMAIN endpoints
        BY <1>1, <2>4 DEF ShownInv, Shown, NamedLives
      <3>4. run[r].response.body = endpoints[a.remote]
        BY <1>1, <1>10, <2>4 DEF ShownInv, Shown, ImportsRead, a, o
      <3> QED BY <1>1, <3>2, <3>3, <3>4 DEF Describes
    <2>5. CASE a.type = "DELETE"
      <3>1. state' = BaseState(entry, "OBSERVED")
        BY <2>1, <2>5 DEF NextStates, Act, Creating, a, entry
      <3> QED BY <1>1, <1>5, <3>1, StateFields
    <2> QED BY <1>10, <2>2, <2>3, <2>4, <2>5 DEF Sending
  <1> QED BY <1>6, <1>7, <1>8, <1>10 DEF Settled, a

\* A step that leaves Stripe, the submitted actions and the clock alone and brings no
\* answer: a run may join an open operation, an operation may be opened, given up, or
\* applied by a run that has succeeded.
Joins(q) == /\ run'[q].pc = "begin" /\ run'[q].op \in Ops /\ run'[q].entry = state'
            /\ status[run'[q].op] = "open" /\ status'[run'[q].op] = "open"

LEMMA QuietShows ==
    ASSUME ShownInv, NoneGivenUp, UNCHANGED <<now, stripe>>,
           \A op \in Ops : status[op] # "new" => status'[op] # "new" /\ action'[op] = action[op],
           \A q \in Runs :
              /\ InFlight(q)' => \/ InFlight(q) /\ run'[q].op = run[q].op /\ run'[q].entry = run[q].entry
                                \/ Joins(q)
              /\ Succeeded(q)' => /\ Succeeded(q) /\ run'[q].op = run[q].op
                                  /\ run'[q].response = run[q].response,
           NamedLives', Describes(state)' \/ ~Calm',
           \A op \in Ops : status'[op] = "open" =>
              \/ status[op] = "open"
              \/ status[op] = "new",
           \A op \in Ops : status'[op] = "applied" =>
              \/ status[op] = "applied"
              \/ \E r \in Runs : /\ InFlight(r) /\ run[r].op = op
                                 /\ Act(r).type \in Sending => Succeeded(r),
           Calm' => Calm \/ \A op \in Ops : status'[op] # "open"
    PROVE  Shown'
  <1>1. /\ \A q \in Runs : InFlight(q) => run[q].op \in Ops /\ status[run[q].op] # "new"
        /\ \A e \in effects : e.op \in Ops /\ status[e.op] # "new"
    BY FlightType DEF ShownInv, SeqInv, WellFormed, TypeOK, Applying, SecretsAreExplained
  <1>2. \A q \in Runs : InFlight(q)' /\ ~Joins(q) =>
            InFlight(q) /\ run'[q].op = run[q].op /\ Act(q)' = Act(q)
    BY <1>1 DEF Act
  <1>4. TornDownIsGone'
    <2> SUFFICES ASSUME NEW op \in Ops, status'[op] = "applied", action'[op].type = "DELETE"
                 PROVE  /\ action'[op].remote \in 0..lastId
                        /\ action'[op].remote \notin DOMAIN endpoints
      BY DEF TornDownIsGone, stripe
    <2>1. CASE status[op] = "applied"
      BY <2>1 DEF ShownInv, Shown, TornDownIsGone
    <2>2. CASE \E r \in Runs : /\ InFlight(r) /\ run[r].op = op
                               /\ Act(r).type \in Sending => Succeeded(r)
      <3>1. PICK r \in Runs : /\ InFlight(r) /\ run[r].op = op
                              /\ Act(r).type \in Sending => Succeeded(r)
        BY <2>2
      <3>2. action'[op] = action[op] /\ Act(r) = action[op]
        BY <1>1, <3>1 DEF Act
      <3> QED BY <3>1, <3>2 DEF ShownInv, SeqInv, TeardownsAreDone, Sending
    <2> QED BY <2>1, <2>2
  <1>5. EffectsShow'
    BY <1>1 DEF ShownInv, Shown, EffectsShow, stripe
  <1>6. ImportsRead'
    <2> SUFFICES ASSUME NEW q \in Runs, Succeeded(q)', status'[run'[q].op] = "open",
                        Act(q)'.type = "IMPORT"
                 PROVE  run'[q].response.body = endpoints[Act(q)'.remote]
      BY DEF ImportsRead, stripe
    <2>1. InFlight(q)' /\ ~Joins(q)
      BY DEF Succeeded, InFlight, Joins
    <2>2. status[run[q].op] = "open" /\ Act(q)' = Act(q)
      BY <1>1, <1>2, <2>1
    <2> QED BY <2>2 DEF ShownInv, Shown, ImportsRead
  <1>7. StatesShow'
    <2> SUFFICES ASSUME Calm'
                 PROVE  \A q \in Runs : InFlight(q)' /\ status'[run'[q].op] = "open"
                                           => Describes(run[q].entry)'
      BY DEF StatesShow
    <2> SUFFICES ASSUME NEW q \in Runs, InFlight(q)', status'[run'[q].op] = "open"
                 PROVE  Describes(run[q].entry)'
      OBVIOUS
    <2>1. CASE InFlight(q) /\ run'[q].op = run[q].op /\ run'[q].entry = run[q].entry
      <3>1. Calm /\ status[run[q].op] = "open"
        BY <1>1, <2>1
      <3>2. Describes(run[q].entry)
        BY <2>1, <3>1 DEF ShownInv, Shown, StatesShow
      <3> QED BY <2>1, <3>2 DEF Describes, Holds, stripe
    <2>2. CASE Joins(q)
      BY <2>2 DEF Joins, Describes, Holds
    <2> QED BY <2>1, <2>2
  <1> QED BY <1>4, <1>5, <1>6, <1>7 DEF Shown

\* An operation that was given up stays so.
LEMMA GivenUpForGood ==
    ASSUME WellFormed, [Next]_vars, NEW op \in Ops, status[op] = "abandoned"
    PROVE  status'[op] = "abandoned"
  <1>0. status \in [Ops -> {"new", "open", "applied", "abandoned"}]
    BY DEF WellFormed, TypeOK
  <1>1. ASSUME NEW r \in Runs, Execute(r) PROVE status'[op] = "abandoned"
    BY <1>1, ExecuteStep
  <1>2. ASSUME NEW r \in Runs, Refuse(r) \/ Local(r) \/ Error(r) \/ Complete(r) \/ Fail(r)
        PROVE  status'[op] = "abandoned"
    <2>1. Ends(r) /\ (Silent \/ Failed(r) \/ Settled(r))
      BY <1>2, EndStep
    <2> QED BY <1>0, <2>1 DEF Silent, Failed, Settled
  <1>3. ASSUME NEW o \in Ops, Submit(o) \/ Abandon(o) PROVE status'[op] = "abandoned"
    BY <1>0, <1>3 DEF Submit, SubmitAction, Abandon
  <1>4. ASSUME NEW r \in Runs, (\E o \in Ops : Begin(r, o)) \/ RecordCheckpoint(r) \/ Tick
        PROVE  status'[op] = "abandoned"
    BY <1>4 DEF Begin, RecordCheckpoint, Tick
  <1> QED BY <1>1, <1>2, <1>3, <1>4 DEF Next, Handle, Tick, vars

LEMMA ShownInvNext ==
    ASSUME ~TickInFlight PROVE ShownInv /\ [Next]_vars => ShownInv'
  <1> SUFFICES ASSUME ShownInv, [Next]_vars PROVE ShownInv'
    OBVIOUS
  <1> SUFFICES ASSUME NoneGivenUp, NoneGivenUp' PROVE Shown'
    <2>1. WellFormed
      BY DEF ShownInv, SeqInv
    <2>2. \A op \in Ops : status[op] = "abandoned" => status'[op] = "abandoned"
      BY <2>1, GivenUpForGood
    <2>3. NoneGivenUp' => NoneGivenUp
      BY <2>2 DEF NoneGivenUp
    <2> QED BY <2>3, SeqInvNext, ApplyingNext DEF ShownInv
  <1>0. /\ WellFormed /\ status \in [Ops -> {"new", "open", "applied", "abandoned"}]
        /\ \A q \in Runs : InFlight(q) => run[q].op \in Ops /\ status[run[q].op] # "new"
    BY FlightType DEF ShownInv, SeqInv, WellFormed, TypeOK
  <1>1. ASSUME NEW r \in Runs, Execute(r) PROVE Shown'
    BY <1>1, ExecuteShows
  <1>2. ASSUME NEW r \in Runs, Refuse(r) \/ Local(r) \/ Error(r) \/ Complete(r) \/ Fail(r)
        PROVE  Shown'
    <2>1. Ends(r) /\ (Silent \/ Failed(r) \/ Settled(r)) /\ UNCHANGED <<now, stripe, action>>
      BY <1>2, EndStep DEF ShownInv, SeqInv, Ends, Refuse, Local, Error, Complete, Fail, Answer
    <2>2. /\ InFlight(r) /\ run[r].op \in Ops
          /\ \A q \in Runs : run'[q].pc # "ended" => run'[q] = run[q]
      BY <1>0, <2>1 DEF Ends
    <2>3. /\ \A p \in Ops : status[p] # "new" => status'[p] # "new" /\ action'[p] = action[p]
          /\ \A p \in Ops : status'[p] = "open" => status[p] = "open"
          /\ \A p \in Ops : status'[p] # "abandoned" => status[p] # "abandoned"
          /\ \A p \in Ops : \/ status'[p] = status[p]
                            \/ status'[p] = "applied" /\ p = run[r].op /\ Settled(r)
      BY <1>0, <2>1, <2>2 DEF Silent, Failed, Settled
    <2>4. \A q \in Runs :
            /\ InFlight(q)' => InFlight(q) /\ run'[q].op = run[q].op /\ run'[q].entry = run[q].entry
            /\ Succeeded(q)' => /\ Succeeded(q) /\ run'[q].op = run[q].op
                                /\ run'[q].response = run[q].response
      BY <2>2 DEF InFlight, Succeeded
    <2>6. NamedLives'
      BY <2>1, <2>3 DEF ShownInv, Shown, NamedLives, stripe
    <2>7. Settled(r) => (Act(r).type \in Sending => Succeeded(r))
      BY DEF Settled, Sending, Creating
    <2>8. \A p \in Ops : status'[p] = "applied" =>
            \/ status[p] = "applied"
            \/ \E q \in Runs : /\ InFlight(q) /\ run[q].op = p
                               /\ Act(q).type \in Sending => Succeeded(q)
      BY <2>2, <2>3, <2>7
    <2>9. Calm' => Calm \/ (Settled(r) /\ \A p \in Ops : status'[p] # "open")
      <3>1. CASE UNCHANGED status
        BY <2>1, <3>1 DEF Calm
      <3>2. CASE Settled(r)
        BY <1>0, <2>2, <3>2 DEF Settled, ShownInv, Applying, OneIsOpen
      <3> QED BY <2>1, <3>1, <3>2 DEF Silent, Failed
    <2>10. Describes(state)' \/ ~Calm'
      <3> SUFFICES ASSUME Calm' PROVE Describes(state)'
        OBVIOUS
      <3>2. CASE Silent
        <4>1. Calm
          BY <2>1, <3>2 DEF Calm, Silent
        <4> QED BY <2>1, <3>2, <4>1 DEF Silent, Describes, Holds, ShownInv, Shown, StatesShow, stripe
      <3>3. CASE Failed(r)
        <4>1. Calm
          BY <2>1, <3>3 DEF Calm, Failed
        <4> QED BY <2>1, <3>3, <4>1, EndDescribes
      <3>4. CASE Settled(r) /\ ~Failed(r)
        BY <2>1, <3>4, EndDescribes
      <3> QED BY <2>1, <3>2, <3>3, <3>4
    <2> QED BY <2>1, <2>3, <2>4, <2>6, <2>8, <2>9, <2>10, QuietShows
  <1>3. ASSUME NEW op \in Ops, Submit(op) PROVE Shown'
    <2>1. PICK type \in ActionTypes, acct \in Accounts :
            \E target \in Inputs(type) : \E remote \in Nameable(type, target) :
                SubmitAction(op, [type |-> type, remote |-> remote, target |-> target,
                                  own |-> OwnershipOf(type, remote), acct |-> acct])
      BY <1>3 DEF Submit
    <2>2. PICK target \in Inputs(type) : \E remote \in Nameable(type, target) :
                SubmitAction(op, [type |-> type, remote |-> remote, target |-> target,
                                  own |-> OwnershipOf(type, remote), acct |-> acct])
      BY <2>1
    <2>3. PICK remote \in Nameable(type, target) :
                SubmitAction(op, [type |-> type, remote |-> remote, target |-> target,
                                  own |-> OwnershipOf(type, remote), acct |-> acct])
      BY <2>2
    <2>4. /\ UNCHANGED <<now, stripe, state, run>> /\ status[op] = "new" /\ status'[op] = "open"
          /\ \A p \in Ops : status[p] # "open"
          /\ action'[op].type = type /\ action'[op].remote = remote /\ action'[op].target = target
          /\ \A p \in Ops : p # op => action'[p] = action[p] /\ status'[p] = status[p]
      BY <1>0, <2>3 DEF SubmitAction, WellFormed, TypeOK
    <2>5. \A q \in Runs :
            /\ InFlight(q)' => InFlight(q) /\ run'[q].op = run[q].op /\ run'[q].entry = run[q].entry
            /\ Succeeded(q)' => /\ Succeeded(q) /\ run'[q].op = run[q].op
                                /\ run'[q].response = run[q].response
      BY <2>4 DEF InFlight, Succeeded
    <2>7. NamedLives'
      <3>1. /\ type \in {"UPDATE", "IMPORT"} => remote \in DOMAIN endpoints
            /\ type = "UPDATE" => endpoints[remote].api = target.api
        BY <2>3 DEF Nameable, NewestOwned, Creating, OwnedIds
      <3> QED BY <2>4, <3>1 DEF NamedLives, stripe
    <2>8. Calm' => Calm
      BY <2>4 DEF Calm
    <2>9. Describes(state)' \/ ~Calm'
      BY <2>4, <2>8 DEF Describes, Holds, ShownInv, Shown, StatesShow, stripe
    <2>10. /\ \A p \in Ops : status[p] # "new" => status'[p] # "new" /\ action'[p] = action[p]
           /\ \A p \in Ops : status'[p] = "open" => status[p] = "open" \/ status[p] = "new"
           /\ \A p \in Ops : status'[p] = "applied" => status[p] = "applied"
      BY <2>4
    <2> QED BY <2>4, <2>5, <2>7, <2>8, <2>9, <2>10, QuietShows
  <1>4. ASSUME NEW op \in Ops, Abandon(op) PROVE FALSE
    BY <1>0, <1>4 DEF Abandon, NoneGivenUp
  <1>5. ASSUME NEW r \in Runs, NEW op, (op \in Ops /\ Begin(r, op)) \/ RecordCheckpoint(r)
        PROVE  Shown'
    <2>1. /\ UNCHANGED <<now, stripe, state, status, action>>
          /\ \A q \in Runs : q # r => run'[q] = run[q]
          /\ \/ /\ run'[r].pc = "begin" /\ run'[r].op = op /\ run'[r].entry = state
                /\ op \in Ops /\ status[op] = "open"
             \/ /\ run[r].pc = "begin" /\ run'[r].pc = "send"
                /\ run'[r].op = run[r].op /\ run'[r].entry = run[r].entry
      <3>1. CASE op \in Ops /\ Begin(r, op)
        BY <1>0, <3>1 DEF Begin, Idle, WellFormed, TypeOK
      <3>2. CASE RecordCheckpoint(r)
        <4>1. /\ run[r].pc = "begin" /\ run'[r] = [run[r] EXCEPT !.pc = "send"]
              /\ \A q \in Runs : q # r => run'[q] = run[q]
              /\ UNCHANGED <<now, stripe, state, status, action>>
          BY <1>0, <3>2 DEF RecordCheckpoint, WellFormed, TypeOK
        <4>2. run[r] \in Run
          BY <1>0 DEF WellFormed, TypeOK
        <4> QED BY <4>1, <4>2 DEF Run
      <3> QED BY <1>5, <3>1, <3>2
    <2>2. \A q \in Runs :
            /\ InFlight(q)' => \/ InFlight(q) /\ run'[q].op = run[q].op /\ run'[q].entry = run[q].entry
                              \/ Joins(q)
            /\ Succeeded(q)' => /\ Succeeded(q) /\ run'[q].op = run[q].op
                                /\ run'[q].response = run[q].response
      BY <2>1 DEF InFlight, Succeeded, Joins
    <2>4. NamedLives'
      BY <2>1 DEF ShownInv, Shown, NamedLives, stripe
    <2>5. Calm' => Calm
      BY <2>1 DEF Calm
    <2>6. Describes(state)' \/ ~Calm'
      BY <2>1, <2>5 DEF Describes, Holds, ShownInv, Shown, StatesShow, stripe
    <2> QED BY <2>1, <2>2, <2>4, <2>5, <2>6, QuietShows
  <1>6. CASE Tick
    <2>1. UNCHANGED <<stripe, state, status, run, action>> /\ \A q \in Runs : ~InFlight(q)
      BY <1>6 DEF Tick
    <2>2. \A q \in Runs : ~InFlight(q)'
      BY <2>1 DEF InFlight
    <2> QED BY <2>1, <2>2 DEF ShownInv, Shown, TornDownIsGone, NamedLives, EffectsShow,
                              ImportsRead, StatesShow, Calm, Describes, Holds,
                              Succeeded, InFlight, Act, stripe
  <1>7. CASE UNCHANGED vars
    BY <1>7 DEF ShownInv, Shown, TornDownIsGone, NamedLives, EffectsShow,
                ImportsRead, StatesShow, Calm, Describes, Holds,
                Succeeded, InFlight, Act, stripe, vars
  <1> QED BY <1>1, <1>2, <1>3, <1>4, <1>5, <1>6, <1>7 DEF Next, Handle

\* Where no attempt runs on from one tick to the next, an owned or adopted state
\* describes the endpoint it names between operations, for any number of operations and
\* late attempts, as long as none was given up (apply.go, the ownedState of each action).
THEOREM StateShowsEndpoint ==
    ASSUME ~TickInFlight PROVE Spec => []StateDescribesEndpoint
  <1>1. ShownInv => StateDescribesEndpoint
    BY DEF ShownInv, NoneGivenUp, Shown, StatesShow, Calm, Describes, Holds, StateDescribesEndpoint
  <1>2. ShownInv /\ [Next]_vars => ShownInv'
    BY ShownInvNext
  <1> QED BY <1>1, <1>2, ShownInvInit, PTL DEF Spec
--------------------------------------------------------------------------------
(* ApplyAction implements Provision. *)

SameBinding(s, t) == s.remote = t.remote /\ s.refs = t.refs

\* While an operation is open the binding stays what its runs read when they began.
EntriesAreCurrent ==
    /\ \A o, p \in Ops : status[o] = "open" /\ status[p] = "open" => o = p
    /\ state.gen = 0 => SameBinding(state, NoState)
    /\ \A r \in Runs : InFlight(r) =>
          /\ run[r].entry.gen = 0 => SameBinding(run[r].entry, NoState)
          /\ status[run[r].op] = "open" => SameBinding(run[r].entry, state)

IInv == SecretInv /\ EntriesAreCurrent

LEMMA IInvInit == Init => IInv
  <1> SUFFICES ASSUME Init PROVE EntriesAreCurrent
    BY SecretInvInit DEF IInv
  <1>1. \A r \in Runs : run[r].pc = "idle"
    BY DEF Init, Idle
  <1> QED BY <1>1 DEF Init, EntriesAreCurrent, InFlight, SameBinding

\* The operation a run ends is open, and the run entered with the binding as it is.
LEMMA EntryIsCurrent ==
    ASSUME IInv, NEW r \in Runs, InFlight(r), NEW o, run[r].op = o
    PROVE  /\ o \in Ops /\ Act(r) \in Action /\ run[r].entry \in State
           /\ run[r].entry.gen = 0 => SameBinding(run[r].entry, NoState)
           /\ status[o] = "open" => SameBinding(run[r].entry, state)
  <1>1. o \in Ops /\ run[r].entry \in State
    BY FlightType DEF IInv, SecretInv, WellFormed, TypeOK, Run
  <1>2. Act(r) \in Action
    BY FlightType DEF IInv, SecretInv, WellFormed, RunsAreTyped, Act
  <1> QED BY <1>1, <1>2 DEF IInv, EntriesAreCurrent

\* A failure leaves the binding as it is.
LEMMA FailureBinds ==
    ASSUME IInv, NEW r \in Runs, InFlight(r), Failed(r)
    PROVE  SameBinding(state', state) /\ state'.gen # 0
  <1> DEFINE entry == run[r].entry
  <1>1. /\ entry \in State /\ SameBinding(entry, state)
        /\ entry.gen = 0 => SameBinding(entry, NoState)
        /\ state' = UnchangedState(entry)
    BY EntryIsCurrent DEF Failed
  <1>2. CASE entry.gen # 0
    BY <1>1, <1>2 DEF UnchangedState, SameBinding
  <1>3. CASE entry.gen = 0
    <2>1. state' = BaseState(entry, "OBSERVED")
      BY <1>1, <1>3 DEF UnchangedState
    <2>2. SameBinding(state', NoState) /\ state'.gen # 0
      BY <1>1, <2>1 DEF BaseState, NoState, SameBinding, State
    <2> QED BY <1>1, <1>3, <2>2 DEF SameBinding
  <1> QED BY <1>2, <1>3

\* Which endpoint and secrets the state names after a success of each type, origins being
\* what the operation created.
NowBinds(type, remote, origins) ==
    \/ type \in Creating /\ \E id \in origins, ref \in origins : state'.remote = id /\ state'.refs = {ref}
    \/ type = "UPDATE" /\ state'.remote = remote /\ state'.refs = state.refs
    \/ type = "IMPORT" /\ state'.remote = remote /\ state'.refs = {}
    \/ type \in {"DELETE", "PROJECT_OUTPUT"} /\ SameBinding(state', NoState)
    \/ type = "NO_OP" /\ SameBinding(state', state)
    \/ type = "NO_OP" /\ SameBinding(state, NoState) /\ state'.remote = remote /\ state'.refs = {}

LEMMA SuccessBinds ==
    ASSUME IInv, NEW r \in Runs, InFlight(r), Settled(r), NEW o, run[r].op = o
    PROVE  NowBinds(Act(r).type, Act(r).remote, Origins[o]) /\ state'.gen # 0
  <1> DEFINE entry == run[r].entry
             a == Act(r)
  <1>1. /\ o \in Ops /\ entry \in State /\ SameBinding(entry, state)
        /\ entry.gen = 0 => SameBinding(entry, NoState)
    BY EntryIsCurrent DEF Settled
  <1>2. entry.gen \in Nat
    BY <1>1 DEF State
  <1> HIDE DEF a
  <1>3. \A own : /\ BaseState(entry, own).gen # 0
                 /\ SameBinding(BaseState(entry, own), NoState)
    BY <1>2 DEF BaseState, NoState, SameBinding
  <1>4. \A id, acct, own, fields, refs :
          LET s == OwnedState(entry, id, acct, own, fields, refs)
          IN  s.gen # 0 /\ s.remote = id /\ s.refs = refs
    BY <1>2 DEF OwnedState, BaseState, NoState
  <1>5. CASE run[r].pc = "begin" /\ a.type = "PROJECT_OUTPUT"
    <2>1. state' = [BaseState(entry, "OBSERVED") EXCEPT !.output = TRUE]
      BY <1>5 DEF Settled, Results, a
    <2>2. state'.gen # 0 /\ SameBinding(state', NoState)
      BY <1>2, <2>1 DEF BaseState, NoState, SameBinding
    <2> QED BY <1>5, <2>2 DEF NowBinds, a
  <1>6. CASE run[r].pc = "begin" /\ a.type = "NO_OP"
    <2>1. state' = InertState(a, entry)
      BY <1>6 DEF Settled, Results, a
    <2>2. CASE entry.gen # 0
      BY <1>1, <1>6, <2>1, <2>2 DEF InertState, NowBinds, SameBinding, a
    <2>3. CASE entry.gen = 0
      <3>1. SameBinding(state, NoState)
        BY <1>1, <2>3 DEF SameBinding
      <3>2. CASE a.own \in Owning
        <4>1. state' = [BaseState(entry, a.own) EXCEPT !.remote = a.remote, !.acct = a.acct]
          BY <2>1, <2>3, <3>2 DEF InertState
        <4>2. state'.gen # 0 /\ state'.remote = a.remote /\ state'.refs = {}
          BY <1>2, <4>1 DEF BaseState, NoState
        <4> QED BY <1>6, <3>1, <4>2 DEF NowBinds, a
      <3>3. CASE a.own \notin Owning
        <4>1. state' = BaseState(entry, a.own)
          BY <2>1, <2>3, <3>3 DEF InertState
        <4> QED BY <1>3, <1>6, <3>1, <4>1 DEF NowBinds, SameBinding, a
      <3> QED BY <3>2, <3>3
    <2> QED BY <2>2, <2>3
  <1>7. CASE Succeeded(r) /\ a.type \in Sending
    <2>1. state' \in NextStates(r)
      BY <1>7 DEF Settled, Results, Succeeded
    <2>2. CASE a.type \in Creating
      <3>1. PICK ref \in SigningSecret(r) :
              state' = OwnedState(entry, run[r].response.id, a.acct, "OWNED", a.target, {ref})
        BY <2>1, <2>2 DEF NextStates, Act, Creating, a
      <3>2. state'.gen # 0 /\ state'.remote = run[r].response.id /\ state'.refs = {ref}
        BY <1>4, <3>1
      <3>3. run[r].response.id \in Origins[o]
        BY <1>7, <2>2 DEF IInv, SecretInv, SecretsAreExplained, a
      <3>4. ref \in Origins[o]
        BY <1>1, <3>1, <3>3 DEF SigningSecret, IInv, SecretInv, SecretsAreExplained
      <3> QED BY <2>2, <3>2, <3>3, <3>4 DEF NowBinds, a
    <2>3. CASE a.type = "UPDATE"
      <3>1. state' = OwnedState(entry, a.remote, a.acct, "OWNED", a.target, entry.refs)
        BY <2>1, <2>3 DEF NextStates, Act, Creating, a
      <3> QED BY <1>1, <1>4, <2>3, <3>1 DEF NowBinds, SameBinding, a
    <2>4. CASE a.type = "IMPORT"
      <3>1. state' = OwnedState(entry, a.remote, a.acct, "ADOPTED",
                                DesiredOf(run[r].response.body), {})
        BY <2>1, <2>4 DEF NextStates, Act, Creating, a
      <3> QED BY <1>4, <2>4, <3>1 DEF NowBinds, a
    <2>5. CASE a.type = "DELETE"
      <3>1. state' = BaseState(entry, "OBSERVED")
        BY <2>1, <2>5 DEF NextStates, Act, Creating, a
      <3> QED BY <1>3, <2>5, <3>1 DEF NowBinds, a
    <2> QED BY <1>7, <2>2, <2>3, <2>4, <2>5 DEF Sending, a
  <1> QED BY <1>5, <1>6, <1>7 DEF Settled, a

LEMMA EndKeepsEntries ==
    ASSUME IInv, NEW r \in Runs, Ends(r), Silent \/ Failed(r) \/ Settled(r)
    PROVE  EntriesAreCurrent'
  <1>1. /\ InFlight(r) /\ run[r].op \in Ops
        /\ status \in [Ops -> {"new", "open", "applied", "abandoned"}]
    BY FlightType DEF Ends, IInv, SecretInv, WellFormed, TypeOK
  <1>2. \A q \in Runs : run'[q].pc \in {"begin", "send", "answered"} =>
          InFlight(q) /\ run'[q] = run[q] /\ run[q].op \in Ops
    BY FlightType DEF Ends, InFlight, IInv, SecretInv
  <1>3. CASE Silent
    BY <1>2, <1>3 DEF Silent, IInv, EntriesAreCurrent, SameBinding, NoState, InFlight
  <1>4. CASE Failed(r)
    <2>1. SameBinding(state', state) /\ state'.gen # 0 /\ status' = status
      BY <1>1, <1>4, FailureBinds DEF Failed
    <2> QED BY <1>2, <2>1 DEF IInv, EntriesAreCurrent, SameBinding, NoState, InFlight
  <1>5. CASE Settled(r)
    <2>1. state'.gen # 0
      BY <1>1, <1>5, SuccessBinds
    <2>2. \A p \in Ops : status'[p] # "open"
      BY <1>1, <1>5 DEF Settled, IInv, EntriesAreCurrent
    <2> QED BY <1>2, <2>1, <2>2 DEF IInv, EntriesAreCurrent, SameBinding, NoState, InFlight
  <1> QED BY <1>3, <1>4, <1>5

LEMMA IInvNext == IInv /\ [Next]_vars => IInv'
  <1> SUFFICES ASSUME IInv, [Next]_vars PROVE EntriesAreCurrent'
    BY SecretInvNext DEF IInv
  <1>0. WellFormed
    BY DEF IInv, SecretInv
  <1>1. ASSUME NEW r \in Runs, Execute(r) PROVE EntriesAreCurrent'
    <2>1. /\ run[r].pc = "send" /\ run'[r].op = run[r].op /\ run'[r].entry = run[r].entry
          /\ \A q \in Runs : q # r => run'[q] = run[q]
          /\ UNCHANGED <<state, status>>
      BY <1>0, <1>1, ExecuteStep, CarriedStep
    <2>2. \A q \in Runs : /\ run'[q].pc \in {"begin", "send", "answered"} => InFlight(q)
                          /\ run'[q].op = run[q].op /\ run'[q].entry = run[q].entry
      BY <2>1 DEF InFlight
    <2> QED BY <2>1, <2>2 DEF IInv, EntriesAreCurrent, InFlight, SameBinding, NoState
  <1>2. ASSUME NEW r \in Runs, Refuse(r) \/ Local(r) \/ Error(r) \/ Complete(r) \/ Fail(r)
        PROVE  EntriesAreCurrent'
    BY <1>0, <1>2, EndStep, EndKeepsEntries
  <1>3. ASSUME NEW op \in Ops, Submit(op) PROVE EntriesAreCurrent'
    <2>1. /\ UNCHANGED <<state, run>>
          /\ \A p \in Ops : status[p] # "open" /\ (status'[p] = "open" => p = op)
          /\ status[op] = "new"
      BY <1>0, <1>3 DEF Submit, SubmitAction, WellFormed, TypeOK
    <2>2. \A q \in Runs : InFlight(q) => status'[run[q].op] # "open"
      BY <1>0, <2>1, FlightType
    <2> QED BY <2>1, <2>2 DEF IInv, EntriesAreCurrent, InFlight, SameBinding, NoState
  <1>4. ASSUME NEW op \in Ops, Abandon(op) PROVE EntriesAreCurrent'
    <2>1. /\ UNCHANGED <<state, run>>
          /\ \A p \in Ops : status'[p] = "open" => status[p] = "open"
      BY <1>0, <1>4 DEF Abandon, WellFormed, TypeOK
    <2> QED BY <1>0, <2>1, FlightType
            DEF IInv, EntriesAreCurrent, InFlight, SameBinding, NoState
  <1>5. ASSUME NEW r \in Runs, NEW op \in Ops, Begin(r, op) PROVE EntriesAreCurrent'
    <2>1. /\ run'[r].pc = "begin" /\ run'[r].op = op /\ run'[r].entry = state
          /\ \A q \in Runs : q # r => run'[q] = run[q]
          /\ UNCHANGED <<state, status>>
      BY <1>0, <1>5 DEF Begin, Idle, WellFormed, TypeOK
    <2> QED BY <2>1 DEF IInv, EntriesAreCurrent, InFlight, SameBinding, NoState
  <1>6. ASSUME NEW r \in Runs, RecordCheckpoint(r) PROVE EntriesAreCurrent'
    <2>1. /\ run[r].pc = "begin" /\ run'[r] = [run[r] EXCEPT !.pc = "send"]
          /\ \A q \in Runs : q # r => run'[q] = run[q]
          /\ UNCHANGED <<state, status>>
      BY <1>0, <1>6 DEF RecordCheckpoint, WellFormed, TypeOK
    <2>2. run'[r].op = run[r].op /\ run'[r].entry = run[r].entry
      BY <1>0, <2>1 DEF WellFormed, TypeOK, Run
    <2>3. \A q \in Runs : /\ run'[q].pc \in {"begin", "send", "answered"} => InFlight(q)
                          /\ run'[q].op = run[q].op /\ run'[q].entry = run[q].entry
      BY <2>1, <2>2 DEF InFlight
    <2> QED BY <2>1, <2>3 DEF IInv, EntriesAreCurrent, InFlight, SameBinding, NoState
  <1>7. ASSUME Tick \/ UNCHANGED vars PROVE EntriesAreCurrent'
    <2>1. UNCHANGED <<state, status, run>>
      BY <1>7 DEF Tick, vars
    <2> QED BY <2>1 DEF IInv, EntriesAreCurrent, InFlight, SameBinding, NoState
  <1> QED BY <1>1, <1>2, <1>3, <1>4, <1>5, <1>6, <1>7 DEF Next, Handle
--------------------------------------------------------------------------------
(* Every step maps to a step of Provision or to a stutter. *)

LEMMA InitImplements == Init => P!Init
  <1> SUFFICES ASSUME Init PROVE P!Init
    OBVIOUS
  <1>1. MintedAt = [op \in Ops |-> {}]
    BY DEF Init, MintedAt, MintedBy
  <1>2. AskedOf = [op \in Ops |-> [kind |-> "nothing", endpoint |-> 0]]
    BY DEF Init, AskedOf
  <1>3. Len(Foreign) \in Nat
    BY ApplyAssumption
  <1> QED BY <1>1, <1>2, <1>3 DEF Init, P!Init, P!Unbound, P!Bound, NoState

\* What Provision sees of the operations stays when no operation is submitted.
LEMMA AskedStays ==
    ASSUME UNCHANGED action, \A op \in Ops : status'[op] = "new" <=> status[op] = "new"
    PROVE  AskedOf' = AskedOf
  BY DEF AskedOf

MintsNothing == UNCHANGED lastId /\ \A op : MintedBy(op)' = MintedBy(op)

LEMMA MintsNothingShows ==
    ASSUME MintsNothing PROVE UNCHANGED <<lastId, MintedAt>>
  BY DEF MintsNothing, MintedAt

Hidden == UNCHANGED <<now, action, status>> /\ MintsNothing /\ SameBinding(state', state)

LEMMA HiddenStutters == ASSUME Hidden PROVE UNCHANGED P!vars
  <1>1. AskedOf' = AskedOf
    BY AskedStays DEF Hidden
  <1> QED BY <1>1, MintsNothingShows DEF Hidden, SameBinding, P!vars

\* The run creates an endpoint its key did not stand for.
Mints(r) ==
    /\ Act(r).type \in Creating /\ Recorded(IdempotencyKey(Operation(r))) = {}
    /\ lastId' = lastId + 1
    /\ effects' = effects \cup {Effect(r, "create", lastId')}

LEMMA PerformMints ==
    ASSUME NEW r \in Runs, NEW id, Perform(r, id) PROVE Mints(r) \/ MintsNothing
  <1>1. CASE effects' = effects \cup {Effect(r, "update", id)} /\ UNCHANGED lastId
    <2>1. Effect(r, "update", id).kind # "create"
      BY DEF Effect
    <2> QED BY <1>1, <2>1 DEF MintsNothing, MintedBy
  <1>2. CASE UNCHANGED <<lastId, effects>>
    BY <1>2 DEF MintsNothing, MintedBy
  <1> QED BY <1>1, <1>2 DEF Perform, Mints, stripe

LEMMA MintImplements ==
    ASSUME IInv, NEW r \in Runs, Mints(r), UNCHANGED <<now, state, action, status>>,
           NEW o \in Ops, run[r].op = o, status[o] # "new"
    PROVE  P!Mint(o)
  <1> DEFINE new == Effect(r, "create", lastId')
  <1>1. effects' = effects \cup {new} /\ lastId' = lastId + 1
    BY DEF Mints
  <1>2. new.op = o /\ new.kind = "create" /\ new.id = lastId' /\ new.at = now
    BY DEF Effect
  <1>3. MintedBy(o)' = MintedBy(o) \cup {new}
    BY <1>1, <1>2 DEF MintedBy
  <1>4. \A p \in Ops : p # o => MintedBy(p)' = MintedBy(p)
    BY <1>1, <1>2 DEF MintedBy
  <1> HIDE DEF new
  <1>5. MintedAt' = [MintedAt EXCEPT ![o] = @ \cup {[id |-> lastId', at |-> now]}]
    <2> DEFINE At(S) == {[id |-> e.id, at |-> e.at] : e \in S}
    <2>1. At(MintedBy(o) \cup {new}) = At(MintedBy(o)) \cup {[id |-> lastId', at |-> now]}
      BY <1>2
    <2>2. /\ MintedAt = [p \in Ops |-> At(MintedBy(p))]
          /\ MintedAt' = [p \in Ops |-> At(MintedBy(p)')]
      BY DEF MintedAt
    <2>3. \A p \in Ops : At(MintedBy(p)') = IF p = o THEN At(MintedBy(o) \cup {new})
                                                     ELSE At(MintedBy(p))
      BY <1>3, <1>4
    <2> HIDE DEF At
    <2> QED BY <2>1, <2>2, <2>3
  <1>6. \A e \in MintedBy(o) : now - e.at > Window
    <2> SUFFICES ASSUME NEW e \in MintedBy(o) PROVE now - e.at > Window
      OBVIOUS
    <2>1. e \in effects /\ e.key = IdempotencyKey(Operation(r))
      BY DEF MintedBy, IInv, SecretInv, EffectsAreKeyed, IdempotencyKey, Operation
    <2>2. ~(now - e.at <= Window)
      BY <2>1 DEF Mints, Recorded
    <2>3. now \in Nat /\ e.at \in Nat /\ Window \in Nat
      BY <2>1, ApplyAssumption DEF IInv, SecretInv, WellFormed, TypeOK
    <2> QED BY <2>2, <2>3
  <1>7. \A m \in MintedAt[o] : now - m.at > Window
    BY <1>6 DEF MintedAt
  <1>8. AskedOf[o].kind = "create" /\ AskedOf' = AskedOf
    BY AskedStays DEF AskedOf, KindOf, Creating, Mints, Act
  <1> QED BY <1>1, <1>5, <1>7, <1>8 DEF P!Mint

LEMMA IdsAreOrigins == ASSUME NEW o \in Ops PROVE P!IdsOf(o) = Origins[o]
  <1>1. MintedAt[o] = {[id |-> e.id, at |-> e.at] : e \in MintedBy(o)}
    BY DEF MintedAt
  <1>2. ASSUME NEW m \in MintedAt[o] PROVE \E e \in MintedBy(o) : m.id = e.id
    BY <1>1
  <1>3. ASSUME NEW e \in MintedBy(o) PROVE \E m \in MintedAt[o] : m.id = e.id
    <2>1. [id |-> e.id, at |-> e.at] \in MintedAt[o]
      BY <1>1
    <2> QED BY <2>1
  <1>4. Origins[o] = {e.id : e \in MintedBy(o)}
    BY DEF Origins
  <1> QED BY <1>2, <1>3, <1>4 DEF P!IdsOf

\* A success binds what Provision allows it to bind.
LEMMA SuccessIsAllowed ==
    ASSUME NEW o \in Ops, NEW a \in Action, NowBinds(a.type, a.remote, Origins[o])
    PROVE  P!Binds(o, KindOf(a.type), a.remote)
  <1> USE DEF P!Bound, P!Unbound
  <1>1. CASE a.type \in Creating
    <2>1. PICK id \in Origins[o], ref \in Origins[o] : state'.remote = id /\ state'.refs = {ref}
      BY <1>1 DEF NowBinds, Creating
    <2>2. id \in P!IdsOf(o) /\ ref \in P!IdsOf(o)
      BY <2>1, IdsAreOrigins
    <2>3. KindOf(a.type) = "create"
      BY <1>1 DEF KindOf, Creating
    <2> QED BY <2>1, <2>2, <2>3 DEF P!Binds
  <1>2. CASE a.type = "UPDATE"
    BY <1>2 DEF NowBinds, KindOf, Creating, P!Binds
  <1>3. CASE a.type = "IMPORT"
    BY <1>3 DEF NowBinds, KindOf, Creating, P!Binds
  <1>4. CASE a.type \in {"DELETE", "PROJECT_OUTPUT"}
    BY <1>4 DEF NowBinds, KindOf, Creating, P!Binds, SameBinding, NoState
  <1>5. CASE a.type = "NO_OP"
    <2>1. KindOf(a.type) = "nothing"
      BY <1>5 DEF KindOf, Creating
    <2>2. \/ SameBinding(state', state)
          \/ SameBinding(state, NoState) /\ state'.remote = a.remote /\ state'.refs = {}
      BY <1>5 DEF NowBinds, Creating
    <2>3. CASE SameBinding(state', state)
      BY <2>1, <2>3 DEF P!Binds, SameBinding
    <2>4. CASE SameBinding(state, NoState) /\ state'.remote = a.remote /\ state'.refs = {}
      BY <2>1, <2>4 DEF P!Binds, SameBinding, NoState
    <2> QED BY <2>2, <2>3, <2>4
  <1> QED BY <1>1, <1>2, <1>3, <1>4, <1>5, ApplyAssumption DEF Action, Creating

LEMMA EndImplements ==
    ASSUME IInv, NEW r \in Runs, Ends(r), UNCHANGED now, Silent \/ Failed(r) \/ Settled(r),
           NEW o, run[r].op = o
    PROVE  Hidden \/ (o \in Ops /\ P!Confirm(o))
  <1>1. /\ InFlight(r) /\ o \in Ops /\ Act(r) \in Action /\ Act(r) = action[o]
        /\ status \in [Ops -> {"new", "open", "applied", "abandoned"}]
    BY EntryIsCurrent DEF Ends, Act, IInv, SecretInv, WellFormed, TypeOK
  <1>2. MintsNothing /\ UNCHANGED action
    BY DEF Ends, MintsNothing, MintedBy, stripe
  <1>3. CASE Silent
    BY <1>2, <1>3 DEF Silent, Hidden, SameBinding
  <1>4. CASE Failed(r)
    BY <1>1, <1>2, <1>4, FailureBinds DEF Failed, Hidden
  <1>5. CASE Settled(r)
    <2>1. NowBinds(Act(r).type, Act(r).remote, Origins[o])
      BY <1>1, <1>5, SuccessBinds
    <2>2. P!Binds(o, KindOf(Act(r).type), Act(r).remote)
      BY <1>1, <2>1, SuccessIsAllowed
    <2>3. status[o] = "open" /\ status' = [status EXCEPT ![o] = "applied"]
      BY <1>5 DEF Settled
    <2>4. AskedOf[o].kind = KindOf(Act(r).type) /\ AskedOf[o].endpoint = Act(r).remote
      BY <1>1, <2>3 DEF AskedOf
    <2>5. AskedOf' = AskedOf
      BY <1>1, <1>2, <2>3, AskedStays
    <2> QED BY <1>1, <1>2, <2>2, <2>3, <2>4, <2>5, MintsNothingShows DEF P!Confirm, P!Become
  <1> QED BY <1>3, <1>4, <1>5

LEMMA SubmitImplements ==
    ASSUME IInv, NEW op \in Ops, Submit(op) PROVE P!Open(op)
  <1>1. PICK type \in ActionTypes, acct \in Accounts :
          \E target \in Inputs(type) : \E remote \in Nameable(type, target) :
            SubmitAction(op, [type |-> type, remote |-> remote, target |-> target,
                              own |-> OwnershipOf(type, remote), acct |-> acct])
    BY DEF Submit
  <1>2. PICK target \in Inputs(type) : \E remote \in Nameable(type, target) :
            SubmitAction(op, [type |-> type, remote |-> remote, target |-> target,
                              own |-> OwnershipOf(type, remote), acct |-> acct])
    BY <1>1
  <1>3. PICK remote \in Nameable(type, target) :
            SubmitAction(op, [type |-> type, remote |-> remote, target |-> target,
                              own |-> OwnershipOf(type, remote), acct |-> acct])
    BY <1>2
  <1>4. lastId \in Nat /\ DOMAIN endpoints \subseteq 1..lastId
    BY DEF IInv, SecretInv, WellFormed, TypeOK
  <1>5. type \in {"CREATE", "REPLACE", "UPDATE", "DELETE", "IMPORT", "PROJECT_OUTPUT", "NO_OP"}
    BY ApplyAssumption
  <1>6. remote \in 0..lastId
    BY <1>4, <1>5 DEF Nameable, NewestOwned, OwnedIds
  <1>7. KindOf(type) \in P!Kinds
    BY <1>5 DEF KindOf, P!Kinds, Creating
  <1>8. PICK a : a = [type |-> type, remote |-> remote, target |-> target,
                      own |-> OwnershipOf(type, remote), acct |-> acct]
    OBVIOUS
  <1>9. a.type = type /\ a.remote = remote /\ SubmitAction(op, a)
    BY <1>3, <1>8
  <1>10. /\ status[op] = "new" /\ status' = [status EXCEPT ![op] = "open"]
         /\ \A o \in Ops : status[o] # "open"
         /\ action' = [action EXCEPT ![op] = a]
         /\ UNCHANGED <<now, stripe, state>>
    BY <1>9 DEF SubmitAction
  <1>11. status \in [Ops -> {"new", "open", "applied", "abandoned"}] /\ action \in [Ops -> Action \cup {None}]
    BY DEF IInv, SecretInv, WellFormed, TypeOK
  <1>12. AskedOf' = [AskedOf EXCEPT ![op] = [kind |-> KindOf(type), endpoint |-> remote]]
    BY <1>9, <1>10, <1>11 DEF AskedOf
  <1>13. UNCHANGED <<lastId, MintedAt>>
    BY <1>10 DEF stripe, MintedAt, MintedBy
  <1> QED BY <1>6, <1>7, <1>10, <1>12, <1>13 DEF P!Open, P!Become

LEMMA NextImplements == IInv /\ [Next]_vars => [P!Next]_P!vars
  <1> SUFFICES ASSUME IInv, [Next]_vars PROVE P!Next \/ UNCHANGED P!vars
    OBVIOUS
  <1>0. WellFormed /\ status \in [Ops -> {"new", "open", "applied", "abandoned"}]
    BY DEF IInv, SecretInv, WellFormed, TypeOK
  <1>1. ASSUME NEW r \in Runs, Execute(r) PROVE P!Next \/ UNCHANGED P!vars
    <2>1. PICK o : o = run[r].op
      OBVIOUS
    <2>2. /\ o \in Ops /\ status[o] # "new"
          /\ UNCHANGED <<now, state, action, status>>
      BY <1>0, <1>1, <2>1, ExecuteStep, CarriedStep, FlightType DEF InFlight
    <2>3. Mints(r) \/ MintsNothing
      BY <1>0, <1>1, CarriedStep, PerformMints DEF Carried, stripe, MintsNothing, MintedBy
    <2>4. CASE Mints(r)
      <3>1. P!Mint(o)
        BY <2>1, <2>2, <2>4, MintImplements
      <3> QED BY <2>2, <3>1 DEF P!Next
    <2>5. CASE MintsNothing
      BY <2>2, <2>5, HiddenStutters DEF Hidden, SameBinding
    <2> QED BY <2>3, <2>4, <2>5
  <1>2. ASSUME NEW r \in Runs, Refuse(r) \/ Local(r) \/ Error(r) \/ Complete(r) \/ Fail(r)
        PROVE  P!Next \/ UNCHANGED P!vars
    <2>1. PICK o : o = run[r].op
      OBVIOUS
    <2>2. Ends(r) /\ (Silent \/ Failed(r) \/ Settled(r))
      BY <1>0, <1>2, EndStep
    <2>3. UNCHANGED now
      BY <1>2 DEF Refuse, Local, Error, Complete, Fail, Answer
    <2>4. Hidden \/ (o \in Ops /\ P!Confirm(o))
      BY <2>1, <2>2, <2>3, EndImplements
    <2> QED BY <2>4, HiddenStutters DEF P!Next
  <1>3. ASSUME NEW op \in Ops, Submit(op) PROVE P!Open(op)
    BY <1>3, SubmitImplements
  <1>4. ASSUME NEW op \in Ops, Abandon(op) PROVE P!GiveUp(op)
    <2>1. AskedOf' = AskedOf
      BY <1>0, <1>4, AskedStays DEF Abandon
    <2> QED BY <1>4, <2>1 DEF Abandon, P!GiveUp, P!Become, stripe, MintedAt, MintedBy
  <1>5. ASSUME NEW r \in Runs, (\E op \in Ops : Begin(r, op)) \/ RecordCheckpoint(r)
        PROVE  UNCHANGED P!vars
    BY <1>5, HiddenStutters
       DEF Begin, RecordCheckpoint, Hidden, SameBinding, stripe, MintsNothing, MintedBy
  <1>6. ASSUME Tick PROVE P!Advance
    <2>1. UNCHANGED <<stripe, action, status, state>> /\ now' = now + 1
      BY <1>6 DEF Tick
    <2>2. AskedOf' = AskedOf
      BY <2>1, AskedStays
    <2> QED BY <2>1, <2>2 DEF P!Advance, stripe, MintedAt, MintedBy
  <1>7. ASSUME UNCHANGED vars PROVE UNCHANGED P!vars
    BY <1>7, HiddenStutters DEF vars, Hidden, SameBinding, stripe, MintsNothing, MintedBy
  <1> QED BY <1>1, <1>2, <1>3, <1>4, <1>5, <1>6, <1>7 DEF Next, Handle, P!Next

\* What the actions promise is kept by checkpoint, key, guard and secret resolution
\* together (apply.go applyCreate and finalize), whatever the host submits: a retry inside
\* the window creates nothing, and the binding only ever takes what its operation created
\* or was asked to bind.
THEOREM ActionsImplementProvision == Spec => ImplementsProvision
  <1>1. Spec => []IInv
    BY IInvInit, IInvNext, PTL DEF Spec
  <1>2. Init => P!Init
    BY InitImplements
  <1>3. IInv /\ [Next]_vars => [P!Next]_P!vars
    BY NextImplements
  <1> QED BY <1>1, <1>2, <1>3, PTL DEF Spec, ImplementsProvision, P!Spec
================================================================================
