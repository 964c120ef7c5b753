--------------------------------- MODULE Lifecycle ---------------------------------
(***************************************************************************)
(* The life of one binding: the host observes the account, asks for a plan *)
(* (Planner), has its actions applied one by one (ApplyAction) with        *)
(* retries and faults, and starts another round when a plan changed        *)
(* something, was given up, or somebody has changed the inputs or the      *)
(* account since.  Strangers act between and during the steps of a round.  *)
(*                                                                         *)
(* The host is external.  It submits nothing of a plan that is blocked,    *)
(* drops a plan whose action it gives up, and wires as webhook             *)
(* verification reference the capture of the last receipt that has one.  A *)
(* round reads the account at once: what happens between its pages is      *)
(* module Observe.                                                         *)
(***************************************************************************)
EXTENDS ApplyAction

CONSTANTS PublicSites, Unpinned, DefaultDescription, \* as in Planner
          RawInputs,     \* the inputs an operator may write
          MaxChanges,    \* bound on changes of the inputs and of the account
          MaxAttempts    \* attempts of an operation before the host gives it up

VARIABLES raw,        \* the operator's inputs
          plan,       \* the last plan: its actions, target and webhook reference
          todo,       \* the actions of it not submitted yet
          attempts,   \* of the operation submitted last
          wired,      \* the endpoint whose secret the host's reference is for
          projected,  \* the one whose secret billing@1 refers to, 0 before it does
          fresh,      \* nobody has changed inputs or account since the last round
          again,      \* the host wants another round
          changes

host == <<raw, plan, todo, attempts, wired, projected, fresh, again, changes>>
allvars == <<vars, host>>
--------------------------------------------------------------------------------
\* The account as a round reads it, newest endpoint first; the place of an endpoint
\* counts the ids from the last one given out, whether or not they still live.
Account ==
    [i \in {j \in 1..lastId : lastId + 1 - j \in DOMAIN endpoints} |->
        [id |-> lastId + 1 - i, body |-> endpoints[lastId + 1 - i]]]

References == {"runtime"} \cup IF wired = 0 THEN {} ELSE {"webhook-verification"}

Pl == INSTANCE Planner WITH
        Requests <- {}, InitialAccounts <- {}, account <- Account,
        request <- [mode |-> "development", billing |-> TRUE, references |-> References],
        phase <- "ask", settled <- FALSE

\* What an operator may write is typed, asks for a webhook the host can submit and not
\* for an endpoint by its id.
ASSUME LifecycleAssumption ==
    /\ Ops \subseteq Nat /\ Runs \subseteq Nat
    /\ MaxChanges \in Nat /\ MaxAttempts \in Nat \ {0}
    /\ {"CREATE", "REPLACE", "UPDATE", "PROJECT_OUTPUT", "NO_OP"} \subseteq ActionTypes
    /\ RawInputs \subseteq Pl!RawInput
    /\ \A in \in RawInputs : /\ in.mode # "existing"
                            /\ DesiredFrom(Pl!ParseInputs(in), Binding) \in Targets

Mutating(actions) ==
    \E i \in DOMAIN actions : actions[i].type \in Creating \cup {"UPDATE", "IMPORT"}

NoPlan == [actions |-> <<>>, target |-> None, ref |-> 0]

\* What of a plan the host submits: nothing when it is blocked.
ToSubmit(actions) ==
    IF \E i \in DOMAIN actions : actions[i].type = "BLOCKED" THEN <<>> ELSE actions

\* The endpoint the planner takes for the binding's.
Newest ==
    IF OwnedIds = {} THEN 0 ELSE CHOOSE i \in OwnedIds : \A j \in OwnedIds : j <= i

\* An endpoint the binding has already is one whose secret the host has captured.
LifecycleInit ==
    /\ Init
    /\ raw \in RawInputs /\ plan = NoPlan /\ todo = <<>> /\ attempts = 0
    /\ wired = Newest /\ projected = 0 /\ fresh = FALSE /\ again = TRUE /\ changes = 0

NoneOpen == \A op \in Ops : status[op] # "open"

\* Nothing is under way, and the last round is not to be the last.
RoundDue == NoneOpen /\ todo = <<>> /\ again /\ Pl!Observable

\* Observe and Plan.
Round ==
    /\ RoundDue
    /\ \E resources \in {Pl!Resources} :
       \E answer \in {Pl!Plan([raw |-> raw, mode |-> "development", billing |-> TRUE,
                               references |-> References, resources |-> resources])} :
            /\ plan' = [actions |-> answer.actions, target |-> Pl!Target, ref |-> wired]
            /\ todo' = ToSubmit(answer.actions)
            /\ again' = Mutating(answer.actions)
    /\ fresh' = TRUE
    /\ UNCHANGED <<vars, raw, attempts, wired, projected, changes>>

Unused == {op \in Ops : status[op] = "new"}
Unbegun == {r \in Runs : run[r].pc = "idle"}

\* The host submits the next action of the plan.
SubmitNext ==
    /\ NoneOpen /\ todo # <<>> /\ Unused # {}
    /\ LET a == Head(todo)
       IN  SubmitAction(FirstOf(Unused), [type |-> a.type, remote |-> a.remote, acct |-> TRUE,
                             target |-> IF a.type \in Creating \cup {"UPDATE"}
                                        THEN plan.target ELSE None,
                             own |-> IF a.type = "PROJECT_OUTPUT" THEN "OBSERVED" ELSE a.own])
    /\ todo' = Tail(todo) /\ attempts' = 0
    /\ UNCHANGED <<raw, plan, wired, projected, fresh, again, changes>>

Attempt(op) ==
    /\ attempts < MaxAttempts /\ attempts' = attempts + 1
    /\ Unbegun # {} /\ Begin(FirstOf(Unbegun), op)
    /\ UNCHANGED <<raw, plan, todo, wired, projected, fresh, again, changes>>

\* After an attempt that failed, or that it has timed out on, the host may give the
\* operation up.
GiveUp(op) ==
    /\ attempts > 0 /\ Abandon(op)
    /\ todo' = <<>> /\ again' = TRUE
    /\ UNCHANGED <<raw, plan, attempts, wired, projected, fresh, changes>>

\* A step of the handler.  With the first success the host takes the receipt: the
\* capture references of a create, the committed output of a projection.
Work(r) ==
    /\ Handle(r)
    /\ LET op == run[r].op
           success == status[op] = "open" /\ status'[op] = "applied"
       IN  /\ wired' = IF success /\ action[op].type \in Creating
                       THEN CHOOSE ref \in state'.refs : TRUE ELSE wired
           /\ projected' = IF success /\ action[op].type = "PROJECT_OUTPUT"
                           THEN plan.ref ELSE projected
    /\ UNCHANGED <<raw, plan, todo, attempts, fresh, again, changes>>

\* The request of an attempt whose operation was given up is carried out after all.
Straggler(r) ==
    /\ run[r].pc = "send" /\ run'[r].pc = "answered"
    /\ status[run[r].op] = "abandoned" /\ stripe' # stripe

\* What such a request changes, no round has seen, as with a change by somebody else.
Broker(r) ==
    /\ Execute(r) \/ Fail(r)
    /\ IF Straggler(r)
       THEN /\ fresh' = FALSE /\ again' = TRUE
            /\ UNCHANGED <<raw, plan, todo, attempts, wired, projected, changes>>
       ELSE UNCHANGED host

Changed ==
    /\ changes < MaxChanges /\ changes' = changes + 1
    /\ fresh' = FALSE /\ again' = TRUE
    /\ UNCHANGED <<now, lastId, effects, action, status, checkpoint, captures, state, run,
                   stamps, refused, faults, plan, todo, attempts, wired, projected>>

Rewrite == Changed /\ raw' \in RawInputs \ {raw} /\ UNCHANGED endpoints

Drift ==
    /\ Changed /\ UNCHANGED raw
    /\ \E i \in DOMAIN endpoints :
        \/ \E body \in Pl!Edited(endpoints[i]) \ {endpoints[i]} :
               endpoints' = [endpoints EXCEPT ![i] = body]
        \/ endpoints' = [j \in DOMAIN endpoints \ {i} |-> endpoints[j]]

LifecycleNext ==
    \/ Round \/ SubmitNext \/ Rewrite \/ Drift
    \/ \E op \in Ops : Attempt(op) \/ GiveUp(op)
    \/ \E r \in Runs : Work(r) \/ Broker(r)
    \/ Tick /\ UNCHANGED host

LifecycleSpec == LifecycleInit /\ [][LifecycleNext]_allvars

\* The host goes on: with its rounds, with retries of an open operation, and by giving
\* it up when the last attempt is over.  Attempts run on as in ApplyAction.  That the
\* host ever times out on one is not assumed.  (The first conjunct is weak fairness of
\* Round, which is enabled just if it is due: a plan that changes nothing clears again,
\* any other one leaves something to submit.)
LifecycleFairness ==
    LET Open == {op \in Ops : status[op] = "open"}
        GiveUpAtLast(op) == attempts = MaxAttempts /\ RunsOf(op) = {} /\ GiveUp(op)
    IN  /\ []<>~RoundDue \/ []<><<Round>>_allvars
        /\ WF_allvars(SubmitNext \/ \E op \in Open : Attempt(op) \/ GiveUpAtLast(op))
        /\ WF_allvars(\E r \in Runs : Work(r) \/ (Execute(r) /\ Broker(r)))

FairLifecycle == LifecycleSpec /\ LifecycleFairness
--------------------------------------------------------------------------------
LifecycleTypeOK ==
    /\ TypeOK
    /\ raw \in RawInputs /\ plan.target \in Desired \cup {None} /\ plan.ref \in 0..lastId
    /\ Len(todo) <= Len(plan.actions) /\ attempts \in 0..MaxAttempts
    /\ wired \in 0..lastId /\ projected \in 0..lastId
    /\ fresh \in BOOLEAN /\ again \in BOOLEAN /\ changes \in 0..MaxChanges

GivenUp == \E op \in Ops : status[op] = "abandoned"
AtRest == NoneOpen /\ todo = <<>> /\ fresh /\ ~again
Blocked == plan.actions # <<>> /\ Head(plan.actions).type = "BLOCKED"

\* From the observation of a round to the create it leads to, over lost answers,
\* retries and operations given up in between: unless somebody has changed the
\* account since, nothing is created while the binding's newest endpoint has the
\* pinned API version (plan.go planWebhook, apply.go applyCreate) - but by an attempt
\* the host has timed out on, and whose operation it has given up.
CreatesOnlyWhatIsMissing ==
    [][lastId' # lastId /\ fresh =>
          \/ Newest = 0 \/ endpoints[Newest].api # plan.target.api
          \/ \E r \in Runs : Straggler(r)]_allvars

\* An endpoint that somebody has taken from the binding, and that a round has seen so,
\* is not written again, by an attempt the host timed out on either: it sends with the
\* key of an operation Stripe has already answered (apply.go applyUpdate,
\* idempotencyKey).  Only the update of an operation that was given up on a timeout,
\* and that Stripe does not remember to have carried out, can still do so.
NoLateAdoption ==
    [][\A i \in DOMAIN endpoints \ OwnedIds :
          fresh /\ UNCHANGED changes =>
             \/ i \in DOMAIN endpoints' /\ endpoints'[i] = endpoints[i]
             \/ \E r \in Runs : /\ Straggler(r) /\ Act(r).type = "UPDATE" /\ Act(r).remote = i
                               /\ \A e \in effects :
                                      e.op = run[r].op => now - e.at > Window]_allvars

\* When the host rests after rounds of which none was given up, the secret that
\* billing@1 refers to is that of the endpoint Stripe signs with, although the round
\* that replaced an endpoint has projected the old one's (plan.go planBilling,
\* convergeOwned, apply.go resolveSigningSecret) - as long as nobody has taken away the
\* endpoint whose secret is wired, which may leave the binding with an older one, and
\* the inputs are not refused.
BillingFollowsEndpoint ==
    /\ AtRest /\ ~GivenUp /\ plan.actions # <<>> /\ ~Blocked
    /\ raw.mode = "public" /\ raw.publishable
    /\ wired \in OwnedIds \cup {0}
    => projected = Newest

\* Once faults and changes end, the rounds end with the desired endpoint in place and
\* projected, unless a stranger's endpoint is in the way; when an operation was given
\* up, at least the endpoint is there.
Served ==
    raw.mode = "public" =>
        /\ Newest # 0
        /\ ClassifyDrift(Pl!Target, [endpoints[Newest] EXCEPT !.url = NormalizeURL(@)]) = "none"
        /\ GivenUp \/ projected = Newest

Converges == <>[](AtRest /\ (Blocked \/ Served))
================================================================================
