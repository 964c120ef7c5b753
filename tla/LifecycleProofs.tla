----------------------------- MODULE LifecycleProofs -----------------------------
(***************************************************************************)
(* The rounds of observe, plan and apply, for any inputs, endpoints,       *)
(* operations and attempts, with strangers and late attempts at any time:  *)
(* what a plan was made for still holds when its actions are carried out,  *)
(* and billing ends up with the secret of the endpoint in use.             *)
(***************************************************************************)
EXTENDS Lifecycle, ApplySequenceProofs, FiniteSetTheorems, SequenceTheorems,
        WellFoundedInduction

PlanTypes == {"CREATE", "REPLACE", "UPDATE", "NO_OP", "PROJECT_OUTPUT"}

\* What the planner may offer; nothing of a blocked plan is submitted.
Offered == [type : PlanTypes \cup {"BLOCKED"}, remote : Nat,
            own : {"OWNED", "OBSERVED", "UNMANAGED", "UNSPECIFIED"}]

\* An action that the host can submit.
Fitting(a) ==
    a \in Offered /\ a.type # "BLOCKED" /\ (a.type # "PROJECT_OUTPUT" => a.own \in {"OWNED", "OBSERVED"})

TargetFor(in) == DesiredFrom(Pl!ParseInputs(in), Binding)
Wanted == {TargetFor(in) : in \in RawInputs}
--------------------------------------------------------------------------------
(* The invariant. *)

HostTyped ==
    /\ raw \in RawInputs /\ plan.actions \in Seq(Offered)
    /\ todo \in Seq(Offered) /\ Len(todo) <= Len(plan.actions)
    /\ plan.target \in Wanted \cup {None} /\ (todo # <<>> => plan.target \in Wanted)
    /\ attempts \in 0..MaxAttempts /\ changes \in 0..MaxChanges
    /\ fresh \in BOOLEAN /\ again \in BOOLEAN
    /\ plan.ref \in Nat /\ wired \in Nat /\ projected \in Nat

\* Of a plan only the first action may change the account, and while it is open the
\* rest of the plan waits.
PlanIsInOrder ==
    \A i \in DOMAIN todo : Fitting(todo[i]) /\ (todo[i].type \in Posting => i = 1 /\ NoneOpen)

ActionsArePlanned ==
    \A op \in Ops : status[op] # "new" =>
        /\ action[op].type \in PlanTypes
        /\ action[op].type \in Posting => action[op].target.meta.binding = Binding

\* There is nothing to keep: no endpoint, or one of another API version.
Lacking == Newest = 0 \/ endpoints[Newest].api # plan.target.api

\* As long as nobody has changed anything since the round, its action is right: an
\* update is of an endpoint of the binding, a create is of what is missing, unless the
\* operation has done it already.
PlanFits ==
    fresh =>
        /\ todo # <<>> /\ Head(todo).type = "UPDATE" => Head(todo).remote \in OwnedIds
        /\ todo # <<>> /\ Head(todo).type \in Creating => Lacking
        /\ \A op \in Ops : status[op] = "open" =>
              /\ action[op].type = "UPDATE" => action[op].remote \in OwnedIds
              /\ action[op].type \in Creating /\ MintedBy(op) = {} => Lacking

\* The attempts of an operation that have not stamped a checkpoint.
Waiting(op) == {r \in Runs : run[r].pc = "begin" /\ run[r].op = op}

\* An open operation was stamped, or is about to be, at most once per attempt.
AttemptsAreCounted ==
    \A op \in Ops :
        /\ status[op] = "new" => stamps[op] = 0
        /\ status[op] = "open" => /\ IsFiniteSet(Waiting(op))
                                  /\ Cardinality(Waiting(op)) + stamps[op] <= attempts

\* Secrets are wired in the order in which their endpoints were created.
WiredInOrder ==
    /\ \A e \in effects : e.id \in 1..lastId
    /\ projected <= wired /\ plan.ref <= wired /\ wired <= lastId
    /\ \A op \in Ops : status[op] = "open" => \A e \in MintedBy(op) : wired < e.id

\* No endpoint of the binding is newer than the wired one, but one that an open
\* operation has created, nor is one that a planned update gives back to the binding.
WiredIsNewest ==
    ~GivenUp =>
        /\ \A i \in OwnedIds :
              i <= wired \/ \E op \in Ops : status[op] = "open" /\ \E e \in MintedBy(op) : e.id = i
        /\ \A op \in Ops : status[op] = "open" /\ action[op].type = "UPDATE" => action[op].remote <= wired
        /\ \A i \in DOMAIN todo : todo[i].type = "UPDATE" => todo[i].remote <= wired

\* A plan that projects billing, and the projection while it is not committed.
Billable == /\ raw.mode = "public" /\ raw.publishable /\ wired # 0
            /\ plan.actions # <<>> /\ ~Blocked
Pending == \/ \E i \in DOMAIN todo : todo[i].type = "PROJECT_OUTPUT"
           \/ \E op \in Ops : status[op] = "open" /\ action[op].type = "PROJECT_OUTPUT"

\* After a round that changes nothing, the reference it projects is the one wired.
QuietRoundProjects ==
    ~again =>
        /\ plan.ref = wired
        /\ \A i \in DOMAIN todo : todo[i].type \notin Posting
        /\ \A op \in Ops : status[op] = "open" => action[op].type \notin Posting
        /\ Billable => Pending \/ projected = plan.ref

LifeInv ==
    /\ Applying
    /\ HostTyped /\ PlanIsInOrder /\ ActionsArePlanned /\ PlanFits
    /\ AttemptsAreCounted /\ WiredInOrder /\ QuietRoundProjects
--------------------------------------------------------------------------------
(* What of ApplyAction's invariants a round relies on. *)

\* A step beside the handlers: an operation is submitted, or a stranger acts.
Aside ==
    /\ UNCHANGED <<now, lastId, effects, checkpoint, captures, state, run, stamps, refused>>
    /\ \A op \in Ops : \/ status'[op] = status[op] /\ action'[op] = action[op]
                       \/ status[op] = "new" /\ status'[op] = "open"

LEMMA AsideKeepsSecrets == ASSUME SecretInv, Aside, WellFormed' PROVE SecretInv'
  <1>0. /\ WellFormed /\ EffectsAreKeyed
        /\ \A q \in Runs : InFlight(q) => run[q].op \in Ops /\ status[run[q].op] # "new"
        /\ \A e \in effects : e.op \in Ops /\ status[e.op] # "new"
    BY FlightType DEF SecretInv, WellFormed, TypeOK, SecretsAreExplained
  <1>1. \A q \in Runs : /\ InFlight(q)' <=> InFlight(q)
                        /\ Succeeded(q)' <=> Succeeded(q)
    BY <1>0 DEF Aside, InFlight, Succeeded, Act
  <1>2. HistoryStays
    BY DEF Aside, HistoryStays
  <1>3. SecretsAreExplained'
    <2>1. Explained(state)'
      BY <1>2, ExplainedStays DEF Aside, SecretInv, SecretsAreExplained
    <2> QED BY <1>0, <1>1, <1>2, <2>1, SecretsStay DEF Aside
  <1>4. EffectsAreKeyed'
    BY <1>0 DEF Aside, EffectsAreKeyed
  <1> QED BY <1>3, <1>4 DEF SecretInv

\* What others than the provider do keeps ApplyAction's invariants.
LEMMA AsideKeepsApplying ==
    ASSUME Applying, Aside, WellFormed', \A o, p \in Ops : status'[o] = "open" /\ status'[p] = "open" => o = p
    PROVE  Applying'
  <1>0. /\ WellFormed /\ EffectsAreKeyed
        /\ \A q \in Runs : InFlight(q) => run[q].op \in Ops /\ status[run[q].op] # "new"
        /\ \A e \in effects : e.op \in Ops /\ status[e.op] # "new"
    BY FlightType DEF Applying, Safe, WellFormed, TypeOK, SecretsAreExplained
  <1>1. \A q \in Runs : /\ InFlight(q)' <=> InFlight(q)
                        /\ Succeeded(q)' <=> Succeeded(q)
                        /\ InFlight(q) => Act(q)' = Act(q) /\ status'[run[q].op] = status[run[q].op]
    BY <1>0 DEF Aside, InFlight, Succeeded, Act
  <1>2. OneIsOpen' /\ LateIsReplayed'
    BY <1>1 DEF Applying, OneIsOpen, LateIsReplayed, Aside
  <1>3. SecretInv => SecretInv'
    BY AsideKeepsSecrets
  <1>4. SecretsAreExplained' /\ EffectsAreKeyed'
    BY <1>0, <1>3 DEF Applying, SecretInv
  <1>6. CheckpointsAreCurrent' /\ DuplicatesAreThirdSends' /\ MintsFollowStamps'
    <2>1. \A op \in Ops : MintedBy(op)' = MintedBy(op)
      BY DEF Aside, MintedBy
    <2>2. \A r \in Runs, op \in Ops : SendingFor(r, op)' <=> SendingFor(r, op)
      BY DEF Aside, SendingFor
    <2>3. CheckpointsAreCurrent'
      BY <1>1 DEF Aside, Applying, Safe, CheckpointsAreCurrent
    <2>4. DuplicatesAreThirdSends'
      BY <2>1 DEF Aside, Applying, Safe, DuplicatesAreThirdSends
    <2>5. MintsFollowStamps'
      BY <2>1, <2>2 DEF Aside, Applying, Safe, MintsFollowStamps
    <2> QED BY <2>3, <2>4, <2>5
  <1>7. RefusalsStand'
    <2>1. ASSUME NEW r \in Runs, run[r].pc = "begin", MustRefuse(r)' PROVE MustRefuse(r)
      BY <1>1, <2>1 DEF Aside, InFlight, MustRefuse, ReplayWindowExpired
    <2> QED BY <2>1 DEF Aside, Applying, Safe, RefusalsStand, ReplayWindowExpired
  <1> QED BY <1>2, <1>4, <1>6, <1>7 DEF Applying, Safe
--------------------------------------------------------------------------------
(* What a round plans. *)

\* Of some numbers, FirstOf is one, and the least.
LEMMA LeastOfNumbers ==
    ASSUME NEW numbers, numbers \subseteq Nat, numbers # {}
    PROVE  FirstOf(numbers) \in numbers /\ \A j \in numbers : FirstOf(numbers) <= j
  <1>1. PICK less : /\ IsWellFoundedOn(less, Nat)
                    /\ less = {pair \in Nat \X Nat : pair[1] < pair[2]}
    BY NatLessThanWellFounded DEF OpToRel
  <1>2. PICK i \in numbers : \A j \in numbers : <<j, i>> \notin less
    BY <1>1, WFMin
  <1>3. ASSUME NEW j \in numbers PROVE i <= j
    <2> DEFINE pair == <<j, i>>
    <2>1. pair \in Nat \X Nat /\ pair[1] = j /\ pair[2] = i
      OBVIOUS
    <2>2. j < i => pair \in less
      <3> HIDE DEF pair
      <3> QED BY <1>1, <2>1
    <2> QED BY <1>2, <2>2
  <1> QED BY <1>3 DEF FirstOf

LEMMA IdsGivenOut ==
    ASSUME WellFormed
    PROVE  /\ lastId \in Nat /\ DOMAIN endpoints \subseteq 1..lastId /\ OwnedIds \subseteq DOMAIN endpoints
           /\ \A i \in DOMAIN endpoints : endpoints[i] \in Endpoint
  BY DEF WellFormed, TypeOK, OwnedIds

\* The place of an endpoint in the account as a round reads it.
Place(i) == lastId + 1 - i

\* The CHOOSE of Newest finds the greatest of the binding's ids.
LEMMA NewestIsLast ==
    ASSUME WellFormed
    PROVE  /\ OwnedIds = {} => Newest = 0
           /\ OwnedIds # {} => /\ Newest \in OwnedIds
                               /\ \A j \in OwnedIds : j <= Newest
  <1>1. lastId \in Nat /\ OwnedIds \subseteq 1..lastId
    BY IdsGivenOut
  <1>2. ASSUME OwnedIds # {} PROVE \E i \in OwnedIds : \A j \in OwnedIds : j <= i
    <2> DEFINE places == {Place(i) : i \in OwnedIds}
    <2>1. places \subseteq Nat /\ places # {}
      <3>1. \A i \in OwnedIds : Place(i) \in Nat
        BY <1>1 DEF Place
      <3>2. PICK i : i \in OwnedIds
        BY <1>2
      <3>3. Place(i) \in places
        BY <3>2
      <3>4. places \subseteq Nat
        BY <3>1
      <3> QED BY <3>3, <3>4
    <2>2. PICK p \in places : \A q \in places : p <= q
      <3> HIDE DEF places
      <3> QED BY <2>1, LeastOfNumbers
    <2>3. PICK i \in OwnedIds : p = Place(i)
      OBVIOUS
    <2>4. ASSUME NEW j \in OwnedIds PROVE j <= i
      <3>1. p <= Place(j)
        BY <2>2
      <3>2. i \in Nat /\ j \in Nat
        BY <1>1, <2>3, <2>4
      <3> HIDE DEF places
      <3> QED BY <1>1, <2>3, <3>1, <3>2 DEF Place
    <2> QED BY <2>4
  <1> QED BY <1>2 DEF Newest

\* The planner finds the binding's endpoints at their places, and there what they hold.
LEMMA PlacesOfOwned ==
    ASSUME WellFormed, NEW observed, observed = Pl!ObservedWebhooks(Pl!Resources)
    PROVE  /\ Pl!OwnedBy(observed, Binding) = {Place(i) : i \in OwnedIds}
           /\ \A i \in OwnedIds : /\ observed[Place(i)].id = i
                                  /\ observed[Place(i)].body.api = endpoints[i].api
  <1>1. lastId \in Nat /\ DOMAIN endpoints \subseteq 1..lastId /\ OwnedIds \subseteq DOMAIN endpoints
    BY IdsGivenOut
  <1> DEFINE listed == Pl!Resources
  <1>2. /\ DOMAIN Account = {j \in 1..lastId : lastId + 1 - j \in DOMAIN endpoints}
        /\ \A j \in DOMAIN Account : /\ Account[j].id = lastId + 1 - j
                                     /\ Account[j].body = endpoints[lastId + 1 - j]
    BY DEF Account
  <1>3. /\ DOMAIN listed = DOMAIN Account
        /\ \A j \in DOMAIN Account :
              listed[j] = [id |-> lastId + 1 - j, body |-> endpoints[lastId + 1 - j],
                           own |-> IF endpoints[lastId + 1 - j].meta.binding = Binding
                                   THEN "OWNED" ELSE "UNMANAGED"]
    BY <1>2 DEF Pl!Resources, Pl!WebhookAt, Pl!MetadataMatchesBinding
  <1> HIDE DEF listed
  <1>4. /\ DOMAIN observed = DOMAIN Account
        /\ \A j \in DOMAIN Account :
              observed[j] = [listed[j] EXCEPT !.body.url = Pl!NormalizeURL(@)]
    BY <1>3 DEF Pl!ObservedWebhooks, listed
  <1>5. ASSUME NEW j \in DOMAIN Account
        PROVE  /\ observed[j].id = lastId + 1 - j /\ lastId + 1 - j \in DOMAIN endpoints
               /\ observed[j].own \in Pl!Owning <=> lastId + 1 - j \in OwnedIds
               /\ observed[j].body.meta = endpoints[lastId + 1 - j].meta
               /\ observed[j].body.api = endpoints[lastId + 1 - j].api
    <2> DEFINE body == endpoints[lastId + 1 - j]
    <2>1. body \in Endpoint /\ lastId + 1 - j \in DOMAIN endpoints
      BY <1>2, IdsGivenOut
    <2>2. /\ observed[j].id = lastId + 1 - j
          /\ observed[j].own = IF body.meta.binding = Binding THEN "OWNED" ELSE "UNMANAGED"
          /\ observed[j].body = [body EXCEPT !.url = Pl!NormalizeURL(@)]
      BY <1>3, <1>4
    <2>3. observed[j].body.meta = body.meta /\ observed[j].body.api = body.api
      <3> HIDE DEF body
      <3> QED BY <2>1, <2>2 DEF Endpoint
    <2>4. observed[j].own \in Pl!Owning <=> lastId + 1 - j \in OwnedIds
      BY <2>1, <2>2 DEF Pl!Owning, OwnedIds, MetadataMatchesBinding
    <2> QED BY <2>1, <2>2, <2>3, <2>4
  <1>6. ASSUME NEW i \in OwnedIds PROVE Place(i) \in DOMAIN Account /\ lastId + 1 - Place(i) = i
    BY <1>1, <1>2 DEF Place
  <1>7. ASSUME NEW j \in DOMAIN Account
        PROVE  j \in Pl!OwnedBy(observed, Binding) <=> lastId + 1 - j \in OwnedIds
    <2>1. lastId + 1 - j \in OwnedIds => endpoints[lastId + 1 - j].meta.binding = Binding
      BY DEF OwnedIds, MetadataMatchesBinding
    <2> QED BY <1>4, <1>5, <2>1 DEF Pl!OwnedBy, Pl!MetadataMatchesBinding
  <1>8. \A j \in DOMAIN Account : Place(lastId + 1 - j) = j
    BY <1>1, <1>2 DEF Place
  <1>9. Pl!OwnedBy(observed, Binding) \subseteq DOMAIN Account
    BY <1>4 DEF Pl!OwnedBy
  <1>10. Pl!OwnedBy(observed, Binding) = {Place(i) : i \in OwnedIds}
    BY <1>6, <1>7, <1>8, <1>9
  <1>11. ASSUME NEW i \in OwnedIds
         PROVE  observed[Place(i)].id = i /\ observed[Place(i)].body.api = endpoints[i].api
    BY <1>5, <1>6
  <1> QED BY <1>10, <1>11

\* The first of them is the newest endpoint.
LEMMA FirstIsNewest ==
    ASSUME WellFormed, NEW observed, observed = Pl!ObservedWebhooks(Pl!Resources),
           NEW owned, owned = Pl!OwnedBy(observed, Binding)
    PROVE  /\ owned = {} <=> OwnedIds = {}
           /\ owned # {} => /\ observed[Pl!FirstOf(owned)].id = Newest
                            /\ observed[Pl!FirstOf(owned)].body.api = endpoints[Newest].api
  <1>1. lastId \in Nat /\ OwnedIds \subseteq 1..lastId
    BY IdsGivenOut
  <1>2. owned = {Place(i) : i \in OwnedIds}
    BY PlacesOfOwned
  <1>3. ASSUME owned # {} PROVE Pl!FirstOf(owned) = Place(Newest) /\ Newest \in OwnedIds
    <2>1. Newest \in OwnedIds /\ \A j \in OwnedIds : j <= Newest
      BY <1>2, <1>3, NewestIsLast
    <2>2. Place(Newest) \in owned /\ \A p \in owned : Place(Newest) <= p /\ p \in Nat
      <3>1. \A j \in OwnedIds : Place(Newest) <= Place(j) /\ Place(j) \in Nat
        BY <1>1, <2>1 DEF Place
      <3> QED BY <1>2, <2>1, <3>1
    <2>3. Pl!FirstOf(owned) \in owned /\ \A p \in owned : Pl!FirstOf(owned) <= p
      BY <2>2 DEF Pl!FirstOf
    <2> QED BY <2>1, <2>2, <2>3
  <1> QED BY <1>2, <1>3, PlacesOfOwned

\* The first action of a plan, for the account as it is.
Sound(a, in) ==
    /\ a.type \in {"CREATE", "REPLACE", "UPDATE", "NO_OP", "BLOCKED"} /\ a.remote \in Nat
    /\ a.own \in IF a.type = "BLOCKED" THEN {"UNMANAGED"} ELSE {"OWNED", "OBSERVED"}
    /\ a.type = "UPDATE" => a.remote \in OwnedIds
    /\ a.type = "CREATE" => OwnedIds = {}
    /\ a.type = "REPLACE" => endpoints[Newest].api # TargetFor(in).api

\* What parsing keeps of an input.
LEMMA InputParts ==
    ASSUME NEW in \in RawInputs
    PROVE  /\ in.mode \in {"public", "local-forwarded", "", "other"}
           /\ Pl!ParseInputs(in).mode = in.mode /\ Pl!ParseInputs(in).publishable = in.publishable
           /\ Pl!DesiredFrom(Pl!ParseInputs(in), Binding) = TargetFor(in)
           /\ TargetFor(in).meta.binding = Binding
           /\ TargetFor(in) \in Targets
  <1>1. in \in Pl!RawInput /\ in.mode # "existing" /\ TargetFor(in) \in Targets
    BY LifecycleAssumption DEF TargetFor
  <1>2. in.mode \in {"public", "local-forwarded", "", "other"}
    BY <1>1 DEF Pl!RawInput
  <1>3. Pl!ParseInputs(in).mode = in.mode /\ Pl!ParseInputs(in).publishable = in.publishable
    BY <1>1 DEF Pl!RawInput, Pl!ParseInputs
  <1> QED BY <1>1, <1>2, <1>3 DEF TargetFor, DesiredFrom, Pl!DesiredFrom

\* Planning the webhook yields one sound action, and blocks billing only with it.
LEMMA WebhookPlanned ==
    ASSUME WellFormed, NEW in \in RawInputs, in.mode \in {"public", "local-forwarded"},
           NEW w, w = Pl!PlanWebhook(Pl!ParseInputs(in), TargetFor(in),
                                     Pl!ObservedWebhooks(Pl!Resources), Binding)
    PROVE  \E a : /\ Sound(a, in) /\ a = Pl!Action(a.type, a.remote, a.own) /\ w.actions = <<a>>
                  /\ w.billingAdmissible <=> a.type # "BLOCKED"
  <1> DEFINE parsed == Pl!ParseInputs(in)
             observed == Pl!ObservedWebhooks(Pl!Resources)
             owned == Pl!OwnedBy(observed, Binding)
             target == TargetFor(in)
  <1>1. parsed.mode = in.mode
    BY InputParts
  <1>2. /\ owned = {} <=> OwnedIds = {}
        /\ owned # {} => /\ observed[Pl!FirstOf(owned)].id = Newest
                         /\ observed[Pl!FirstOf(owned)].body.api = endpoints[Newest].api
    BY FirstIsNewest
  <1>3. OwnedIds # {} => Newest \in OwnedIds /\ Newest \in Nat
    BY NewestIsLast, IdsGivenOut
  <1> HIDE DEF parsed, observed, owned, target
  <1>4. w = Pl!PlanWebhook(parsed, target, observed, Binding)
    BY DEF parsed, target, observed
  <1>5. ASSUME NEW a, NEW diagnostics, NEW admits \in BOOLEAN, w = Pl!WebhookPlan(a, diagnostics, admits),
               Sound(a, in), a = Pl!Action(a.type, a.remote, a.own), admits <=> a.type # "BLOCKED"
        PROVE  \E b : /\ Sound(b, in) /\ b = Pl!Action(b.type, b.remote, b.own) /\ w.actions = <<b>>
                      /\ w.billingAdmissible <=> b.type # "BLOCKED"
    BY <1>5 DEF Pl!WebhookPlan
  <1>6. \A type, remote, own :
          LET a == Pl!Action(type, remote, own)
          IN  a.type = type /\ a.remote = remote /\ a.own = own /\ a = Pl!Action(a.type, a.remote, a.own)
    BY DEF Pl!Action
  <1>7. CASE in.mode = "local-forwarded"
    <2>1. w = Pl!WebhookPlan(Pl!Action("NO_OP", 0, "OBSERVED"), {}, TRUE)
      BY <1>1, <1>4, <1>7 DEF Pl!PlanWebhook
    <2> DEFINE a == Pl!Action("NO_OP", 0, "OBSERVED")
    <2>2. a.type = "NO_OP" /\ a.remote = 0 /\ a.own = "OBSERVED" /\ a = Pl!Action(a.type, a.remote, a.own)
      BY <1>6
    <2> HIDE DEF a
    <2>3. Sound(a, in)
      BY <2>2 DEF Sound
    <2> QED BY <1>5, <2>1, <2>2, <2>3 DEF a
  <1>8. CASE in.mode = "public" /\ owned # {}
    <2> DEFINE found == observed[Pl!FirstOf(owned)]
               drift == Pl!ClassifyDrift(target, found.body)
               type == IF drift = "none" THEN "NO_OP" ELSE IF drift = "mutable" THEN "UPDATE" ELSE "REPLACE"
               a == Pl!Action(type, found.id, "OWNED")
    <2>1. w = Pl!ConvergeOwned(target, found)
      BY <1>1, <1>4, <1>8 DEF Pl!PlanWebhook, owned
    <2>2. /\ drift \in {"none", "mutable", "replace"}
          /\ drift = "replace" <=> target.api # found.body.api
      BY DEF Pl!ClassifyDrift
    <2>3. \E diagnostics : w = Pl!WebhookPlan(a, diagnostics, TRUE)
      BY <2>1, <2>2 DEF Pl!ConvergeOwned
    <2>4. a.type = type /\ a.remote = Newest /\ a.own = "OWNED" /\ a = Pl!Action(a.type, a.remote, a.own)
      BY <1>2, <1>6, <1>8
    <2>5. type \in {"NO_OP", "UPDATE", "REPLACE"} /\ (type = "REPLACE" => target.api # endpoints[Newest].api)
      BY <1>2, <1>8, <2>2
    <2> HIDE DEF a, type
    <2>6. Sound(a, in)
      BY <1>2, <1>3, <1>8, <2>4, <2>5 DEF Sound, target
    <2> QED BY <1>5, <2>3, <2>4, <2>5, <2>6
  <1>9. CASE in.mode = "public" /\ owned = {}
    <2>1. \/ w = Pl!BlockOnUnmanaged
          \/ w = Pl!WebhookPlan(Pl!Action("CREATE", 0, "OWNED"), {}, TRUE)
      BY <1>1, <1>4, <1>9 DEF Pl!PlanWebhook, owned
    <2>2. CASE w = Pl!BlockOnUnmanaged
      <3> DEFINE a == Pl!Action("BLOCKED", 0, "UNMANAGED")
      <3>1. a.type = "BLOCKED" /\ a.remote = 0 /\ a.own = "UNMANAGED" /\ a = Pl!Action(a.type, a.remote, a.own)
        BY <1>6
      <3>2. \E diagnostics : w = Pl!WebhookPlan(a, diagnostics, FALSE)
        BY <2>2 DEF Pl!BlockOnUnmanaged
      <3> HIDE DEF a
      <3>3. Sound(a, in)
        BY <3>1 DEF Sound
      <3> QED BY <1>5, <3>1, <3>2, <3>3
    <2>3. CASE w = Pl!WebhookPlan(Pl!Action("CREATE", 0, "OWNED"), {}, TRUE)
      <3> DEFINE a == Pl!Action("CREATE", 0, "OWNED")
      <3>1. a.type = "CREATE" /\ a.remote = 0 /\ a.own = "OWNED" /\ a = Pl!Action(a.type, a.remote, a.own)
        BY <1>6
      <3>2. w = Pl!WebhookPlan(a, {}, TRUE)
        BY <2>3
      <3> HIDE DEF a
      <3>3. Sound(a, in)
        BY <1>2, <1>9, <3>1 DEF Sound
      <3> QED BY <1>5, <3>1, <3>2, <3>3
    <2> QED BY <2>1, <2>2, <2>3
  <1> QED BY <1>7, <1>8, <1>9

LEMMA Joined == ASSUME NEW a, NEW b PROVE <<a>> \o <<>> = <<a>> /\ <<a>> \o <<b>> = <<a, b>>
  <1> DEFINE S == {a, b}
  <1>1. <<a>> \in Seq(S) /\ <<b>> \in Seq(S) /\ <<>> \in Seq(S)
    OBVIOUS
  <1>2. <<a, b>> \in Seq(S) /\ Len(<<a, b>>) = 2 /\ <<a, b>>[1] = a /\ <<a, b>>[2] = b
    OBVIOUS
  <1> HIDE DEF S
  <1>3. <<a>> \o <<>> = <<a>>
    BY <1>1, ConcatEmptySeq
  <1>4. <<a>> \o <<b>> = <<a, b>>
    <2>1. /\ <<a>> \o <<b>> \in Seq(S) /\ Len(<<a>> \o <<b>>) = 2
          /\ (<<a>> \o <<b>>)[1] = a /\ (<<a>> \o <<b>>)[2] = b
      BY <1>1, ConcatProperties
    <2>2. \A i \in 1..2 : (<<a>> \o <<b>>)[i] = <<a, b>>[i]
      BY <1>2, <2>1
    <2> DEFINE joined == <<a>> \o <<b>>
               pair == <<a, b>>
    <2>3. joined \in Seq(S) /\ pair \in Seq(S) /\ Len(joined) = Len(pair)
          /\ \A i \in 1..Len(joined) : joined[i] = pair[i]
      BY <1>2, <2>1, <2>2
    <2> HIDE DEF joined, pair
    <2>4. joined = pair
      BY <2>3, SeqEqual
    <2> QED BY <2>4 DEF joined, pair
  <1> QED BY <1>3, <1>4

Projection == Pl!Action("PROJECT_OUTPUT", 0, "UNSPECIFIED")

\* The request of a round.
Asked == [raw |-> raw, mode |-> "development", billing |-> TRUE,
          references |-> References, resources |-> Pl!Resources]

\* A plan is empty, or a first action and, when billing can be projected, a second one.
LEMMA PlanMade ==
    ASSUME WellFormed, raw \in RawInputs,
           NEW p, p = Pl!Plan(Asked).actions
    PROVE  \/ p = <<>>
           \/ \E a : /\ Sound(a, raw) /\ a = Pl!Action(a.type, a.remote, a.own)
                     /\ \/ p = <<a>>
                        \/ p = <<a, Projection>> /\ a.type # "BLOCKED"
                     /\ a.type # "BLOCKED" /\ raw.publishable /\ wired # 0 => p = <<a, Projection>>
  <1> DEFINE parsed == Pl!ParseInputs(raw)
             observed == Pl!ObservedWebhooks(Pl!Resources)
             diagnostics == Pl!ValidateInputs(parsed, "development")
             w == Pl!PlanWebhook(parsed, TargetFor(raw), observed, Binding)
             billing == IF w.billingAdmissible THEN Pl!PlanBilling(parsed, References) ELSE <<>>
  <1>1. /\ parsed.mode = raw.mode /\ parsed.publishable = raw.publishable
        /\ Pl!DesiredFrom(parsed, Binding) = TargetFor(raw)
        /\ raw.mode \in {"public", "local-forwarded", "", "other"}
    BY InputParts
  <1>2. p = IF raw.secret THEN <<>> ELSE IF Pl!HasError(diagnostics) THEN <<>> ELSE w.actions \o billing
    <2>1. /\ Asked.raw = raw /\ Asked.mode = "development" /\ Asked.billing = TRUE
          /\ Asked.references = References /\ Asked.resources = Pl!Resources
      BY DEF Asked
    <2> QED BY <1>1, <2>1 DEF Pl!Plan, Pl!NoPlan
  <1>3. parsed.mode \in {"", "other"} => Pl!HasError(diagnostics)
    <2>1. parsed.mode \in {"", "other"} => Pl!Invalid \in diagnostics
      <3> HIDE DEF parsed
      <3> QED BY DEF Pl!ValidateInputs
    <2>2. Pl!Invalid.severity = "ERROR"
      BY DEF Pl!Invalid
    <2> HIDE DEF parsed, diagnostics
    <2> QED BY <2>1, <2>2 DEF Pl!HasError
  <1>4. ASSUME p # <<>> PROVE raw.mode \in {"public", "local-forwarded"}
    <2> HIDE DEF parsed, diagnostics, w, billing
    <2> QED BY <1>1, <1>2, <1>3, <1>4
  <1>5. billing = IF w.billingAdmissible /\ raw.publishable /\ wired # 0
                  THEN <<Projection>> ELSE <<>>
    <2>1. {"runtime", "webhook-verification"} \subseteq References <=> wired # 0
      BY DEF References
    <2> HIDE DEF parsed, w
    <2> QED BY <1>1, <2>1 DEF Pl!PlanBilling, Projection
  <1>6. CASE p # <<>>
    <2>1. PICK a : /\ Sound(a, raw) /\ a = Pl!Action(a.type, a.remote, a.own) /\ w.actions = <<a>>
                   /\ w.billingAdmissible <=> a.type # "BLOCKED"
      <3>1. PICK v : v = Pl!PlanWebhook(parsed, TargetFor(raw), observed, Binding)
        OBVIOUS
      <3>2. \E a : /\ Sound(a, raw) /\ a = Pl!Action(a.type, a.remote, a.own) /\ v.actions = <<a>>
                   /\ v.billingAdmissible <=> a.type # "BLOCKED"
        <4>1. v = Pl!PlanWebhook(Pl!ParseInputs(raw), TargetFor(raw),
                                 Pl!ObservedWebhooks(Pl!Resources), Binding)
          BY <3>1
        <4> QED BY <1>4, <1>6, <4>1, WebhookPlanned
      <3> QED BY <3>1, <3>2
    <2> HIDE DEF parsed, diagnostics, observed, w, billing
    <2>2. p = <<a>> \o billing
      BY <1>2, <1>6, <2>1
    <2>3. <<a>> \o <<>> = <<a>> /\ <<a>> \o <<Projection>> = <<a, Projection>>
      BY Joined
    <2>4. CASE a.type # "BLOCKED" /\ raw.publishable /\ wired # 0
      <3>1. billing = <<Projection>>
        BY <1>5, <2>1, <2>4
      <3> QED BY <2>1, <2>2, <2>3, <2>4, <3>1
    <2>5. CASE ~(a.type # "BLOCKED" /\ raw.publishable /\ wired # 0)
      <3>1. billing = <<>>
        BY <1>5, <2>1, <2>5
      <3> QED BY <2>1, <2>2, <2>3, <2>5, <3>1
    <2> QED BY <2>4, <2>5
  <1> QED BY <1>6
\* What the host submits of a plan p.
Submittable(p, t) ==
    /\ p \in Seq(Offered) /\ t \in Seq(Offered) /\ Len(t) <= Len(p)
    /\ \A i \in DOMAIN t : Fitting(t[i]) /\ (t[i].type \in Posting => i = 1 /\ Sound(t[i], raw))
    /\ ~Mutating(p) => \A i \in DOMAIN t : t[i].type \notin Posting
    /\ raw.publishable /\ wired # 0 /\ p # <<>> /\ p[1].type # "BLOCKED"
           => \E i \in DOMAIN t : t[i].type = "PROJECT_OUTPUT"

LEMMA NothingToSubmit == Submittable(<<>>, ToSubmit(<<>>))
  <1> DEFINE t == ToSubmit(<<>>)
  <1>1. t = <<>>
    BY DEF ToSubmit
  <1>2. <<>> \in Seq(Offered) /\ Len(<<>>) = 0 /\ DOMAIN <<>> = {}
    OBVIOUS
  <1> HIDE DEF t
  <1>3. Submittable(<<>>, t)
    BY <1>1, <1>2 DEF Submittable
  <1> QED BY <1>3 DEF t

LEMMA OneToSubmit ==
    ASSUME NEW p, p \in Seq(Offered), Len(p) = 1, NEW a, p[1] = a, Sound(a, raw),
           a.type # "BLOCKED" => Fitting(a) /\ ~(raw.publishable /\ wired # 0)
    PROVE  Submittable(p, ToSubmit(p))
  <1> DEFINE t == ToSubmit(p)
  <1>1. DOMAIN p = {1}
    BY DOMAIN p = 1..1
  <1>2. t = IF a.type = "BLOCKED" THEN <<>> ELSE p
    BY <1>1 DEF ToSubmit
  <1>3. ~Mutating(p) => a.type \notin Posting
    BY <1>1 DEF Mutating, Posting
  <1> HIDE DEF t
  <1>4. CASE a.type = "BLOCKED"
    <2>1. t \in Seq(Offered) /\ Len(t) = 0 /\ DOMAIN t = {}
      BY <1>2, <1>4
    <2>2. Submittable(p, t)
      BY <1>4, <2>1 DEF Submittable
    <2> QED BY <2>2 DEF t
  <1>5. CASE a.type # "BLOCKED"
    <2>1. t = p /\ Fitting(a) /\ ~(raw.publishable /\ wired # 0)
      BY <1>2, <1>5
    <2>2. \A i \in DOMAIN t : i = 1 /\ t[i] = a
      BY <1>1, <2>1
    <2>3. \A i \in DOMAIN t : Fitting(t[i]) /\ (t[i].type \in Posting => i = 1 /\ Sound(t[i], raw))
      BY <2>1, <2>2, Zenon
    <2>4. ~Mutating(p) => \A i \in DOMAIN t : t[i].type \notin Posting
      BY <1>3, <2>2
    <2>5. Len(t) = 1 /\ t \in Seq(Offered)
      BY <2>1
    <2>6. Len(t) <= Len(p)
      BY <2>5
    <2>7. ~(raw.publishable /\ wired # 0)
      BY <2>1
    <2>8. Submittable(p, t)
      BY <2>3, <2>4, <2>5, <2>6, <2>7, Zenon DEF Submittable
    <2> QED BY <2>8 DEF t
  <1> QED BY <1>4, <1>5

LEMMA TwoToSubmit ==
    ASSUME NEW p, p \in Seq(Offered), Len(p) = 2, NEW a, p[1] = a, NEW b, p[2] = b,
           Sound(a, raw), Fitting(a), Fitting(b), b.type = "PROJECT_OUTPUT"
    PROVE  Submittable(p, ToSubmit(p))
  <1> DEFINE t == ToSubmit(p)
  <1>1. \A i \in DOMAIN p : (i = 1 /\ p[i] = a) \/ (i = 2 /\ p[i] = b)
    BY DOMAIN p = 1..2
  <1>2. 1 \in DOMAIN p /\ 2 \in DOMAIN p
    BY DOMAIN p = 1..2
  <1>3. t = p
    BY <1>1 DEF ToSubmit, Fitting
  <1>4. ~Mutating(p) => a.type \notin Posting
    BY <1>2 DEF Mutating, Posting
  <1>5. b.type \notin Posting
    BY DEF Posting, Creating
  <1> HIDE DEF t
  <1>6. Submittable(p, t)
    <2>1. \A i \in DOMAIN t : Fitting(t[i]) /\ (t[i].type \in Posting => i = 1 /\ Sound(t[i], raw))
      BY <1>1, <1>3, <1>5
    <2>2. ~Mutating(p) => \A i \in DOMAIN t : t[i].type \notin Posting
      BY <1>1, <1>3, <1>4, <1>5
    <2>3. \E i \in DOMAIN t : t[i].type = "PROJECT_OUTPUT"
      BY <1>2, <1>3
    <2>4. Len(t) = 2
      BY <1>3
    <2>5. Len(t) <= Len(p)
      BY <2>4
    <2>6. t \in Seq(Offered)
      BY <1>3, Zenon
    <2> QED BY <2>1, <2>2, <2>3, <2>5, <2>6 DEF Submittable
  <1> QED BY <1>6 DEF t

\* So whatever Plan answers, the host gets a list it can submit in order.
LEMMA PlanToSubmit ==
    ASSUME WellFormed, raw \in RawInputs,
           NEW p, p = Pl!Plan(Asked).actions
    PROVE  Submittable(p, ToSubmit(p))
  <1>1. \/ p = <<>>
        \/ \E a : /\ Sound(a, raw) /\ a = Pl!Action(a.type, a.remote, a.own)
                  /\ \/ p = <<a>>
                     \/ p = <<a, Projection>> /\ a.type # "BLOCKED"
                  /\ a.type # "BLOCKED" /\ raw.publishable /\ wired # 0 => p = <<a, Projection>>
    BY PlanMade
  <1>2. Projection \in Offered /\ Projection.type = "PROJECT_OUTPUT" /\ Fitting(Projection)
    BY DEF Projection, Pl!Action, Offered, PlanTypes, Fitting
  <1>3. CASE p = <<>>
    BY <1>3, NothingToSubmit
  <1>4. ASSUME NEW a, Sound(a, raw), a = Pl!Action(a.type, a.remote, a.own)
        PROVE  a \in Offered /\ (a.type # "BLOCKED" => Fitting(a))
    <2>1. a = [type |-> a.type, remote |-> a.remote, own |-> a.own]
      BY <1>4 DEF Pl!Action
    <2>2. /\ a.type \in PlanTypes \cup {"BLOCKED"} /\ a.remote \in Nat
          /\ a.own \in {"OWNED", "OBSERVED", "UNMANAGED", "UNSPECIFIED"}
          /\ a.type # "BLOCKED" => a.own \in {"OWNED", "OBSERVED"}
      BY <1>4 DEF Sound, PlanTypes
    <2>3. a \in Offered
      BY <2>1, <2>2 DEF Offered
    <2> QED BY <2>2, <2>3 DEF Fitting
  <1>5. CASE p # <<>>
    <2>1. PICK a : /\ Sound(a, raw) /\ a = Pl!Action(a.type, a.remote, a.own)
                   /\ \/ p = <<a>>
                      \/ p = <<a, Projection>> /\ a.type # "BLOCKED"
                   /\ a.type # "BLOCKED" /\ raw.publishable /\ wired # 0 => p = <<a, Projection>>
      BY <1>1, <1>5
    <2>2. a \in Offered /\ (a.type # "BLOCKED" => Fitting(a))
      BY <1>4, <2>1
    <2>3. /\ <<a>> \in Seq(Offered) /\ Len(<<a>>) = 1 /\ <<a>>[1] = a
          /\ <<a, Projection>> \in Seq(Offered) /\ Len(<<a, Projection>>) = 2
          /\ <<a, Projection>>[1] = a /\ <<a, Projection>>[2] = Projection
      BY <1>2, <2>2
    <2>4. CASE p = <<a>>
      <3>1. p \in Seq(Offered) /\ Len(p) = 1 /\ p[1] = a
        BY <2>3, <2>4
      <3>2. a.type # "BLOCKED" => ~(raw.publishable /\ wired # 0)
        <4>1. Len(p) = 1 /\ Len(<<a, Projection>>) = 2
          BY <2>3, <2>4
        <4>2. p # <<a, Projection>>
          BY <4>1
        <4> QED BY <2>1, <4>2
      <3> QED BY <2>1, <2>2, <3>1, <3>2, OneToSubmit
    <2>5. CASE p = <<a, Projection>> /\ a.type # "BLOCKED"
      <3>1. p \in Seq(Offered) /\ Len(p) = 2 /\ p[1] = a /\ p[2] = Projection
        BY <2>3, <2>5
      <3> QED BY <1>2, <2>1, <2>2, <2>5, <3>1, TwoToSubmit
    <2> QED BY <2>1, <2>4, <2>5
  <1> QED BY <1>3, <1>5
--------------------------------------------------------------------------------
(* What the steps keep: the host's part of the invariant. *)

\* The parts of the invariant that are about the host's rounds.
Rounds == PlanIsInOrder /\ ActionsArePlanned /\ PlanFits /\ WiredInOrder /\ QuietRoundProjects

LEMMA LifeTypes ==
    ASSUME LifeInv
    PROVE  /\ WellFormed /\ HostTyped /\ Rounds /\ OneIsOpen
           /\ status \in [Ops -> {"new", "open", "applied", "abandoned"}]
           /\ stamps \in [Ops -> Nat]
           /\ \A e \in effects : e.op \in Ops /\ status[e.op] # "new"
           /\ \A r \in Runs : InFlight(r) => run[r].op \in Ops /\ status[run[r].op] # "new"
  BY FlightType DEF LifeInv, Applying, Safe, SecretsAreExplained, WellFormed, TypeOK, Rounds

\* A step that changes neither the account nor what became of the operations.
LEMMA QuietKeeps ==
    ASSUME LifeInv,
           UNCHANGED <<stripe, action, status, raw, plan, todo, wired, projected, fresh, again>>
    PROVE  Rounds' /\ (WiredIsNewest => WiredIsNewest')
  <1>1. /\ OwnedIds' = OwnedIds /\ NoneOpen' = NoneOpen /\ Blocked' = Blocked
        /\ \A op \in Ops : MintedBy(op)' = MintedBy(op)
        /\ GivenUp' = GivenUp
    BY DEF OwnedIds, NoneOpen, Blocked, MintedBy, GivenUp, stripe
  <1>2. Lacking' = Lacking
    <2>1. Newest' = Newest
      BY <1>1 DEF Newest
    <2> QED BY <2>1 DEF Lacking, stripe
  <1>3. PlanIsInOrder' /\ ActionsArePlanned'
    BY <1>1 DEF LifeInv, PlanIsInOrder, ActionsArePlanned
  <1>4. PlanFits'
    BY <1>1, <1>2 DEF LifeInv, PlanFits
  <1>5. WiredInOrder'
    BY <1>1 DEF LifeInv, WiredInOrder, stripe
  <1>6. QuietRoundProjects'
    BY <1>1 DEF LifeInv, QuietRoundProjects, Billable, Pending
  <1>7. WiredIsNewest => WiredIsNewest'
    BY <1>1 DEF WiredIsNewest
  <1> QED BY <1>3, <1>4, <1>5, <1>6, <1>7 DEF Rounds

\* A step that begins no attempt and stamps nothing keeps the count.
LEMMA WaitingShrinks ==
    ASSUME LifeInv, UNCHANGED <<stamps, attempts>>,
           \A op \in Ops : /\ status'[op] = "open" => status[op] = "open"
                           /\ status'[op] = "new" => status[op] = "new",
           \A q \in Runs : run'[q].pc = "begin" => run[q].pc = "begin" /\ run'[q].op = run[q].op
    PROVE  AttemptsAreCounted'
  <1>1. ASSUME NEW op \in Ops, status'[op] = "open"
        PROVE  IsFiniteSet(Waiting(op)') /\ Cardinality(Waiting(op)') + stamps'[op] <= attempts'
    <2>1. /\ IsFiniteSet(Waiting(op)) /\ Cardinality(Waiting(op)) + stamps[op] <= attempts
          /\ stamps[op] \in Nat /\ attempts \in Nat
      BY <1>1, LifeTypes DEF LifeInv, AttemptsAreCounted, HostTyped
    <2>2. Waiting(op)' \in SUBSET Waiting(op)
      BY DEF Waiting
    <2>3. /\ IsFiniteSet(Waiting(op)') /\ Cardinality(Waiting(op)') <= Cardinality(Waiting(op))
      BY <2>1, <2>2, FS_Subset
    <2>4. Cardinality(Waiting(op)) \in Nat /\ Cardinality(Waiting(op)') \in Nat
      BY <2>1, <2>3, FS_CardinalityType
    <2> QED BY <2>1, <2>3, <2>4
  <1>2. \A op \in Ops : status'[op] = "new" => stamps'[op] = 0
    BY DEF LifeInv, AttemptsAreCounted
  <1> QED BY <1>1, <1>2 DEF AttemptsAreCounted

LEMMA AttemptCounts ==
    ASSUME LifeInv, NEW op \in Ops, Attempt(op) PROVE AttemptsAreCounted'
  <1>1. PICK r \in Runs : Begin(r, op) /\ run[r].pc = "idle"
    <2>1. Unbegun \subseteq Nat /\ Unbegun # {}
      BY LifecycleAssumption DEF Attempt, Unbegun
    <2>2. FirstOf(Unbegun) \in Unbegun
      BY <2>1, LeastOfNumbers
    <2> QED BY <2>2 DEF Attempt, Unbegun
  <1>2. /\ run'[r].pc = "begin" /\ run'[r].op = op /\ \A q \in Runs : q # r => run'[q] = run[q]
        /\ UNCHANGED <<status, stamps>> /\ status[op] = "open" /\ attempts' = attempts + 1
    <2>1. attempts' = attempts + 1
      BY DEF Attempt
    <2>2. status[op] = "open"
      BY <1>1 DEF Begin
    <2> QED BY <1>1, <2>1, <2>2, LifeTypes, BeginStep
  <1>3. \A p \in Ops : status'[p] = "open" => p = op
    BY <1>2, LifeTypes DEF OneIsOpen
  <1>4. \A p \in Ops : status'[p] = "new" => stamps'[p] = 0
    BY <1>2 DEF LifeInv, AttemptsAreCounted
  <1>5. IsFiniteSet(Waiting(op)') /\ Cardinality(Waiting(op)') + stamps'[op] <= attempts'
    <2>1. /\ IsFiniteSet(Waiting(op)) /\ Cardinality(Waiting(op)) + stamps[op] <= attempts
          /\ stamps[op] \in Nat /\ attempts \in Nat
      BY <1>2, LifeTypes DEF LifeInv, AttemptsAreCounted, HostTyped
    <2>2. Waiting(op)' = Waiting(op) \cup {r} /\ r \notin Waiting(op)
      BY <1>1, <1>2 DEF Waiting
    <2>3. IsFiniteSet(Waiting(op)') /\ Cardinality(Waiting(op)') = Cardinality(Waiting(op)) + 1
      BY <2>1, <2>2, FS_AddElement
    <2>4. Cardinality(Waiting(op)) \in Nat
      BY <2>1, FS_CardinalityType
    <2> QED BY <1>2, <2>1, <2>3, <2>4
  <1>6. \A p \in Ops : status'[p] = "open" =>
           IsFiniteSet(Waiting(p)') /\ Cardinality(Waiting(p)') + stamps'[p] <= attempts'
    BY <1>3, <1>5
  <1> QED BY <1>4, <1>6 DEF AttemptsAreCounted

LEMMA StampCounts ==
    ASSUME LifeInv, UNCHANGED attempts, NEW r \in Runs, RecordCheckpoint(r) PROVE AttemptsAreCounted'
  <1>1. PICK o \in Ops : o = run[r].op
    BY LifeTypes, RecordStep
  <1>2. /\ run[r].pc = "begin" /\ run'[r].pc = "send" /\ \A q \in Runs : q # r => run'[q] = run[q]
        /\ stamps'[o] = stamps[o] + 1 /\ \A p \in Ops : p # o => stamps'[p] = stamps[p]
        /\ UNCHANGED status /\ status[o] # "new"
    BY <1>1, LifeTypes, RecordStep
  <1>3. \A p \in Ops : status'[p] = "new" => stamps'[p] = 0
    BY <1>2 DEF LifeInv, AttemptsAreCounted
  <1>4. ASSUME NEW p \in Ops, status'[p] = "open"
        PROVE  IsFiniteSet(Waiting(p)') /\ Cardinality(Waiting(p)') + stamps'[p] <= attempts'
    <2>1. /\ IsFiniteSet(Waiting(p)) /\ Cardinality(Waiting(p)) + stamps[p] <= attempts
          /\ stamps[p] \in Nat /\ attempts \in Nat
      BY <1>2, <1>4, LifeTypes DEF LifeInv, AttemptsAreCounted, HostTyped
    <2>2. Cardinality(Waiting(p)) \in Nat
      BY <2>1, FS_CardinalityType
    <2>3. CASE p = o
      <3>1. Waiting(p)' = Waiting(p) \ {r} /\ r \in Waiting(p)
        BY <1>1, <1>2, <2>3 DEF Waiting
      <3>2. IsFiniteSet(Waiting(p)') /\ Cardinality(Waiting(p)') = Cardinality(Waiting(p)) - 1
        BY <2>1, <3>1, FS_RemoveElement
      <3> QED BY <1>2, <2>1, <2>2, <2>3, <3>2
    <2>4. CASE p # o
      <3>1. Waiting(p)' = Waiting(p) /\ stamps'[p] = stamps[p]
        BY <1>1, <1>2, <2>4 DEF Waiting
      <3> QED BY <2>1, <3>1
    <2> QED BY <2>3, <2>4
  <1> QED BY <1>3, <1>4 DEF AttemptsAreCounted

\* A round makes its plan of the account as it is, so the plan fits.
LEMMA RoundKeeps ==
    ASSUME LifeInv, Round PROVE LifeInv' /\ (WiredIsNewest => WiredIsNewest')
  <1>0. /\ WellFormed /\ raw \in RawInputs /\ TargetFor(raw) \in Wanted
        /\ HostTyped /\ Rounds /\ \A op \in Ops : status[op] # "open"
    BY LifeTypes DEF Wanted, Round, RoundDue, NoneOpen, HostTyped
  <1>1. PICK p : p = Pl!Plan(Asked).actions
    OBVIOUS
  <1>2. /\ plan' = [actions |-> p, target |-> TargetFor(raw), ref |-> wired]
        /\ todo' = ToSubmit(p) /\ again' = Mutating(p) /\ fresh' = TRUE
        /\ UNCHANGED <<vars, raw, attempts, wired, projected, changes>>
    <2>1. Pl!Target = TargetFor(raw)
      BY <1>0, InputParts DEF Pl!Target
    <2> QED BY <1>1, <2>1 DEF Round, RoundDue, Asked
  <1>3. Submittable(p, todo')
    BY <1>0, <1>1, <1>2, PlanToSubmit
  <1> HIDE DEF Asked
  <1>4. /\ plan'.actions = p /\ plan'.target = TargetFor(raw) /\ plan'.ref = wired
        /\ \A i \in DOMAIN todo' : Fitting(todo'[i]) /\ (todo'[i].type \in Posting => i = 1 /\ Sound(todo'[i], raw))
        /\ again' \in BOOLEAN
    BY <1>2, <1>3 DEF Submittable, Mutating
  <1>5. /\ UNCHANGED <<stripe, action, status, run, stamps>> /\ OwnedIds' = OwnedIds /\ Newest' = Newest
        /\ \A op \in Ops : MintedBy(op)' = MintedBy(op)
    <2>1. UNCHANGED <<stripe, action, status, run, stamps>>
      BY <1>2 DEF vars
    <2>2. OwnedIds' = OwnedIds
      BY <2>1 DEF OwnedIds, stripe
    <2> QED BY <2>1, <2>2 DEF Newest, MintedBy, stripe
  <1>6. Applying'
    <2>1. Applying => Aside
      BY <1>2 DEF Aside, vars, stripe
    <2>2. WellFormed'
      BY <1>0, <1>2, WellFormedNext
    <2> QED BY <1>0, <1>5, <2>1, <2>2, AsideKeepsApplying DEF LifeInv
  <1>7. HostTyped'
    <2>1. plan'.actions \in Seq(Offered) /\ todo' \in Seq(Offered) /\ Len(todo') <= Len(plan'.actions)
      BY <1>3, <1>4 DEF Submittable
    <2> QED BY <1>0, <1>2, <1>4, <2>1 DEF HostTyped
  <1>8. PlanIsInOrder' /\ ActionsArePlanned'
    <2>1. NoneOpen'
      BY <1>0, <1>5 DEF NoneOpen
    <2> QED BY <1>0, <1>4, <1>5, <2>1 DEF PlanIsInOrder, ActionsArePlanned, Rounds
  <1>9. PlanFits'
    <2>1. ASSUME todo' # <<>>
          PROVE  /\ Head(todo').type = "UPDATE" => Head(todo').remote \in OwnedIds'
                 /\ Head(todo').type \in Creating => Lacking'
      <3>1. todo' \in Seq(Offered)
        BY <1>3 DEF Submittable
      <3>2. 1 \in DOMAIN todo' /\ Head(todo') = todo'[1]
        <4> DEFINE t == todo'
        <4>1. t \in Seq(Offered) /\ t # <<>>
          BY <2>1, <3>1
        <4> HIDE DEF t
        <4>2. 1 \in DOMAIN t /\ Head(t) = t[1]
          BY <4>1
        <4> QED BY <4>2 DEF t
      <3>3. PICK a : a = Head(todo')
        OBVIOUS
      <3>4. a.type \in Posting => Sound(a, raw)
        BY <1>4, <3>2, <3>3
      <3>5. a.type = "UPDATE" => a.remote \in OwnedIds
        BY <3>4 DEF Sound, Posting
      <3>6. a.type \in Creating => Newest = 0 \/ endpoints[Newest].api # TargetFor(raw).api
        BY <1>0, <3>4, NewestIsLast DEF Sound, Posting, Creating
      <3> QED BY <1>4, <1>5, <3>3, <3>5, <3>6 DEF Lacking, stripe
    <2>2. \A op \in Ops : status'[op] # "open"
      BY <1>0, <1>5
    <2> QED BY <2>1, <2>2 DEF PlanFits
  <1>10. AttemptsAreCounted'
    BY <1>2, <1>5, WaitingShrinks
  <1>11. WiredInOrder'
    BY <1>0, <1>2, <1>4, <1>5 DEF WiredInOrder, Rounds, HostTyped, stripe
  <1>12. QuietRoundProjects'
    <2> SUFFICES ASSUME ~again' PROVE QuietRoundProjects'
      BY DEF QuietRoundProjects
    <2>1. ~Mutating(p)
      BY <1>2
    <2>2. \A i \in DOMAIN todo' : todo'[i].type \notin Posting
      BY <1>3, <2>1 DEF Submittable
    <2>3. ASSUME Billable' PROVE Pending'
      <3>1. raw.publishable /\ wired # 0 /\ p # <<>> /\ Head(p).type # "BLOCKED"
        BY <1>2, <1>4, <2>3 DEF Billable, Blocked
      <3>2. p \in Seq(Offered)
        BY <1>3 DEF Submittable
      <3>3. Head(p) = p[1]
        BY <3>1, <3>2
      <3> QED BY <1>3, <3>1, <3>3 DEF Submittable, Pending
    <2> QED BY <1>0, <1>2, <1>4, <1>5, <2>2, <2>3 DEF QuietRoundProjects
  <1>13. WiredIsNewest => WiredIsNewest'
    <2> SUFFICES ASSUME WiredIsNewest, ~GivenUp' PROVE WiredIsNewest'
      BY DEF WiredIsNewest
    <2>1. ~GivenUp
      BY <1>5 DEF GivenUp
    <2>2. \A i \in OwnedIds : i <= wired
      BY <1>0, <2>1 DEF WiredIsNewest
    <2>3. \A i \in DOMAIN todo' : todo'[i].type = "UPDATE" => todo'[i].remote \in OwnedIds
      BY <1>4 DEF Sound, Posting
    <2>4. \A op \in Ops : status'[op] # "open"
      BY <1>0, <1>5
    <2> QED BY <1>2, <1>5, <2>2, <2>3, <2>4 DEF WiredIsNewest
  <1> QED BY <1>6, <1>7, <1>8, <1>9, <1>10, <1>11, <1>12, <1>13 DEF LifeInv

\* The head and the tail of what is left of a plan.
LEMMA HeadOfTodo ==
    ASSUME HostTyped, todo # <<>>
    PROVE  /\ 1 \in DOMAIN todo /\ Head(todo) = todo[1] /\ todo[1] \in Offered
           /\ Tail(todo) \in Seq(Offered) /\ Len(Tail(todo)) <= Len(todo) /\ Len(todo) \in Nat
           /\ \A i \in DOMAIN Tail(todo) : i + 1 \in DOMAIN todo /\ i + 1 # 1 /\ Tail(todo)[i] = todo[i + 1]
           /\ \A i \in DOMAIN todo : i = 1 \/ \E j \in DOMAIN Tail(todo) : Tail(todo)[j] = todo[i]
  <1> DEFINE tail == Tail(todo)
  <1>1. todo \in Seq(Offered)
    BY DEF HostTyped
  <1>2. /\ Len(todo) \in Nat /\ DOMAIN todo = 1..Len(todo) /\ Len(todo) # 0
        /\ 1 \in DOMAIN todo /\ Head(todo) = todo[1] /\ todo[1] \in Offered
    BY <1>1
  <1>3. /\ tail \in Seq(Offered) /\ Len(tail) = Len(todo) - 1
        /\ \A i \in 1..Len(tail) : tail[i] = todo[i + 1]
    BY <1>1, HeadTailProperties
  <1> HIDE DEF tail
  <1>4. DOMAIN tail = 1..(Len(todo) - 1)
    BY <1>2, <1>3
  <1>5. \A i \in DOMAIN tail : i + 1 \in DOMAIN todo /\ i + 1 # 1 /\ tail[i] = todo[i + 1]
    BY <1>2, <1>3, <1>4
  <1>6. ASSUME NEW i \in DOMAIN todo, i # 1 PROVE \E j \in DOMAIN tail : tail[j] = todo[i]
    <2>1. i - 1 \in DOMAIN tail /\ (i - 1) + 1 = i
      BY <1>2, <1>4, <1>6
    <2> QED BY <1>5, <2>1
  <1>7. Len(tail) <= Len(todo)
    BY <1>2, <1>3
  <1> QED BY <1>2, <1>3, <1>5, <1>6, <1>7 DEF tail

\* Operation o is opened with the next action of the plan, which is a.
Submitted(o, a) ==
    /\ status[o] = "new" /\ a \in Action
    /\ a.type = Head(todo).type /\ a.remote = Head(todo).remote
    /\ a.type \in Posting => a.target = plan.target
    /\ action' = [action EXCEPT ![o] = a] /\ status' = [status EXCEPT ![o] = "open"]
    /\ UNCHANGED <<now, stripe, checkpoint, captures, state, run, stamps, refused, faults>>

\* Whatever is planned can be submitted as an action the handlers know.
LEMMA SubmitStays ==
    ASSUME WellFormed, HostTyped, \A i \in DOMAIN todo : Fitting(todo[i]), SubmitNext
    PROVE  /\ WellFormed' /\ HostTyped' /\ Aside /\ \A i \in DOMAIN todo' : Fitting(todo'[i])
           /\ \E o \in Ops, a \in Action : Submitted(o, a)
  <1> DEFINE head == Head(todo)
             given == [type |-> head.type, remote |-> head.remote, acct |-> TRUE,
                       target |-> IF head.type \in Creating \cup {"UPDATE"} THEN plan.target ELSE None,
                       own |-> IF head.type = "PROJECT_OUTPUT" THEN "OBSERVED" ELSE head.own]
  <1>0. todo # <<>> /\ plan.target \in Wanted /\ \A op \in Ops : status[op] # "open"
    BY DEF SubmitNext, NoneOpen, HostTyped
  <1>1. PICK o : /\ o \in Ops /\ status[o] = "new" /\ SubmitAction(o, given)
    <2>1. Unused \subseteq Nat /\ Unused # {}
      BY LifecycleAssumption DEF SubmitNext, Unused
    <2>2. FirstOf(Unused) \in Unused
      BY <2>1, LeastOfNumbers
    <2> QED BY <2>2 DEF SubmitNext, Unused
  <1>2. /\ todo' = Tail(todo) /\ attempts' = 0
        /\ UNCHANGED <<raw, plan, wired, projected, fresh, again, changes>>
    BY DEF SubmitNext
  <1>3. /\ 1 \in DOMAIN todo /\ head = todo[1] /\ head \in Offered /\ Fitting(head)
        /\ Tail(todo) \in Seq(Offered) /\ Len(Tail(todo)) <= Len(todo) /\ Len(todo) \in Nat
        /\ \A i \in DOMAIN Tail(todo) : i + 1 \in DOMAIN todo /\ i + 1 # 1 /\ Tail(todo)[i] = todo[i + 1]
        /\ \A i \in DOMAIN todo : i = 1 \/ \E j \in DOMAIN Tail(todo) : Tail(todo)[j] = todo[i]
    BY <1>0, HeadOfTodo
  <1>4. PICK tail : tail = Tail(todo)
    OBVIOUS
  <1>5. /\ tail \in Seq(Offered) /\ Len(tail) <= Len(todo) /\ todo' = tail
        /\ \A i \in DOMAIN tail : Fitting(tail[i])
    BY <1>2, <1>3, <1>4
  <1>6. /\ head.type \in PlanTypes /\ head.remote \in Nat
        /\ head.type # "PROJECT_OUTPUT" => head.own \in {"OWNED", "OBSERVED"}
    BY <1>3 DEF Fitting, Offered
  <1>7. PICK a : a = given
    OBVIOUS
  <1>8. /\ a.type = head.type /\ a.remote = head.remote
        /\ a.type \in Posting => a.target = plan.target
        /\ a \in Action
    <2>1. plan.target \in Targets /\ plan.target.meta.binding = Binding
      BY <1>0, InputParts DEF Wanted
    <2>2. head.type \in ActionTypes
      BY <1>6, LifecycleAssumption DEF PlanTypes
    <2> HIDE DEF head
    <2> QED BY <1>6, <1>7, <2>1, <2>2 DEF Action, Posting
  <1>9. plan.target \in Targets /\ plan.target.meta.binding = Binding
    BY <1>0, InputParts DEF Wanted
  <1> HIDE DEF head, given
  <1>10. /\ action' = [action EXCEPT ![o] = a] /\ status' = [status EXCEPT ![o] = "open"]
         /\ UNCHANGED <<now, stripe, checkpoint, captures, state, run, stamps, refused, faults>>
    BY <1>1, <1>7 DEF SubmitAction
  <1>11. /\ status \in [Ops -> {"new", "open", "applied", "abandoned"}]
         /\ action \in [Ops -> Action \cup {None}]
    BY <1>0 DEF WellFormed, TypeOK
  <1>12. /\ action'[o] = a /\ status'[o] = "open"
         /\ \A p \in Ops : p # o => action'[p] = action[p] /\ status'[p] = status[p]
         /\ \A p \in Ops : status'[p] = "open" => p = o
    BY <1>0, <1>1, <1>10, <1>11
  <1>13. WellFormed'
    <2>1. TypeOK'
      <3>1. action' \in [Ops -> Action \cup {None}] /\ status' \in [Ops -> {"new", "open", "applied", "abandoned"}]
        BY <1>8, <1>10, <1>11
      <3> QED BY <1>0, <1>10, <3>1 DEF WellFormed, TypeOK, stripe
    <2>2. \A r \in Runs : InFlight(r) => run[r].op # o /\ run[r].op \in Ops /\ status[run[r].op] # "new"
      BY <1>0, <1>1, FlightType
    <2>3. \A r \in Runs : (InFlight(r)' <=> InFlight(r)) /\ (InFlight(r) => Act(r)' = Act(r))
      BY <1>10, <1>12, <2>2 DEF InFlight, Act
    <2>4. \A op \in Ops : status'[op] # "new" =>
              /\ action'[op] \in Action
              /\ action'[op].type \in Creating \cup {"UPDATE"} => action'[op].target \in Targets
      BY <1>0, <1>8, <1>9, <1>12 DEF WellFormed, RunsAreTyped, Posting
    <2>5. \A r \in Runs :
            /\ InFlight(r)' => run'[r].op \in Ops /\ status'[run'[r].op] # "new"
            /\ run'[r].pc \in {"send", "answered"} => Act(r)'.type \in Sending
            /\ run'[r].pc = "answered" /\ run'[r].response.ok /\ Act(r)'.type = "IMPORT"
                   => run'[r].response.body \in Endpoint
      BY <1>0, <1>10, <1>12, <2>2, <2>3 DEF WellFormed, RunsAreTyped, InFlight
    <2>6. RunsAreTyped'
      BY <2>4, <2>5 DEF RunsAreTyped
    <2> QED BY <2>1, <2>6 DEF WellFormed
  <1>14. Aside
    BY <1>1, <1>10, <1>12 DEF Aside, stripe
  <1>15. HostTyped'
    <2>1. 0 \in 0..MaxAttempts
      BY LifecycleAssumption
    <2> QED BY <1>0, <1>2, <1>5, <2>1 DEF HostTyped
  <1>16. Submitted(o, a)
    BY <1>1, <1>8, <1>10 DEF Submitted, head
  <1> QED BY <1>1, <1>5, <1>8, <1>13, <1>14, <1>15, <1>16

\* Submitting moves what was true of the first planned action to the open operation.
LEMMA SubmitKeeps ==
    ASSUME LifeInv, SubmitNext PROVE LifeInv' /\ (WiredIsNewest => WiredIsNewest')
  <1> DEFINE head == Head(todo)
  <1>0. /\ todo # <<>> /\ HostTyped /\ WellFormed /\ Rounds /\ plan.target \in Wanted
        /\ \A op \in Ops : status[op] # "open"
    BY LifeTypes DEF SubmitNext, NoneOpen, HostTyped
  <1>1. /\ WellFormed' /\ HostTyped' /\ Aside
         /\ \E o \in Ops, a \in Action : Submitted(o, a)
    BY <1>0, SubmitStays DEF Rounds, PlanIsInOrder
  <1>2. PICK o \in Ops, a \in Action : Submitted(o, a)
    BY <1>1
  <1>3. /\ todo' = Tail(todo) /\ attempts' = 0
        /\ UNCHANGED <<raw, plan, wired, projected, fresh, again, changes>>
    BY DEF SubmitNext
  <1>4. /\ 1 \in DOMAIN todo /\ head = todo[1] /\ head \in Offered /\ Fitting(head)
        /\ Tail(todo) \in Seq(Offered) /\ Len(Tail(todo)) <= Len(todo) /\ Len(todo) \in Nat
        /\ \A i \in DOMAIN Tail(todo) : i + 1 \in DOMAIN todo /\ i + 1 # 1 /\ Tail(todo)[i] = todo[i + 1]
        /\ \A i \in DOMAIN todo : i = 1 \/ \E j \in DOMAIN Tail(todo) : Tail(todo)[j] = todo[i]
    BY <1>0, HeadOfTodo DEF Rounds, PlanIsInOrder
  <1>5. PICK tail : tail = Tail(todo)
    OBVIOUS
  <1>6. /\ tail \in Seq(Offered) /\ Len(tail) <= Len(todo) /\ todo' = tail
        /\ \A i \in DOMAIN tail : Fitting(tail[i]) /\ tail[i].type \notin Posting
    BY <1>0, <1>3, <1>4, <1>5 DEF Rounds, PlanIsInOrder
  <1>7. head.type \in PlanTypes /\ head.remote \in Nat
    BY <1>4 DEF Fitting, Offered
  <1>8. /\ a.type = head.type /\ a.remote = head.remote
        /\ a.type \in Posting => a.target = plan.target
    BY <1>2 DEF Submitted
  <1>9. plan.target \in Targets /\ plan.target.meta.binding = Binding
    BY <1>0, InputParts DEF Wanted
  <1> HIDE DEF head
  <1>10. /\ action' = [action EXCEPT ![o] = a] /\ status' = [status EXCEPT ![o] = "open"]
         /\ UNCHANGED <<now, stripe, checkpoint, captures, state, run, stamps, refused, faults>>
         /\ status[o] = "new"
    BY <1>2 DEF Submitted
  <1>11. /\ status \in [Ops -> {"new", "open", "applied", "abandoned"}]
         /\ action \in [Ops -> Action \cup {None}]
    BY <1>0 DEF WellFormed, TypeOK
  <1>12. /\ action'[o] = a /\ status'[o] = "open"
         /\ \A p \in Ops : p # o => action'[p] = action[p] /\ status'[p] = status[p]
         /\ \A p \in Ops : status'[p] = "open" => p = o
    BY <1>0, <1>10, <1>11
  <1>13. Applying'
    BY <1>12, <1>1, AsideKeepsApplying DEF LifeInv
  <1>14. PlanIsInOrder' /\ ActionsArePlanned'
    <2>1. PlanIsInOrder'
      BY <1>6 DEF PlanIsInOrder
    <2>2. ActionsArePlanned'
      BY <1>0, <1>7, <1>8, <1>9, <1>12 DEF ActionsArePlanned, Rounds
    <2> QED BY <2>1, <2>2
  <1>15. OwnedIds' = OwnedIds /\ (\A op \in Ops : MintedBy(op)' = MintedBy(op)) /\ (Lacking' <=> Lacking)
    <2>1. OwnedIds' = OwnedIds
      BY <1>10 DEF OwnedIds, stripe
    <2> QED BY <1>3, <1>10, <2>1 DEF MintedBy, Lacking, Newest, stripe
  <1>16. MintedBy(o) = {} /\ stamps[o] = 0 /\ Waiting(o) = {}
    <2>1. \A e \in effects : e.op \in Ops /\ status[e.op] # "new"
      BY LifeTypes
    <2>2. \A r \in Runs : InFlight(r) => status[run[r].op] # "new"
      BY LifeTypes
    <2> QED BY <1>10, <2>1, <2>2 DEF MintedBy, LifeInv, AttemptsAreCounted, Waiting, InFlight
  <1>17. PlanFits'
    <2> SUFFICES ASSUME fresh' PROVE PlanFits'
      BY DEF PlanFits
    <2>1. /\ a.type = "UPDATE" => a.remote \in OwnedIds
          /\ a.type \in Creating => Lacking
      BY <1>0, <1>3, <1>8 DEF PlanFits, Rounds, head
    <2>2. todo' # <<>> => Head(todo').type \notin Posting
      <3>1. tail # <<>> => 1 \in DOMAIN tail /\ Head(tail) = tail[1]
        BY <1>6
      <3> QED BY <1>6, <3>1
    <2>3. /\ todo' # <<>> /\ Head(todo').type = "UPDATE" => Head(todo').remote \in OwnedIds'
          /\ todo' # <<>> /\ Head(todo').type \in Creating => Lacking'
      BY <2>2 DEF Posting
    <2>4. \A op \in Ops : status'[op] = "open" =>
            /\ action'[op].type = "UPDATE" => action'[op].remote \in OwnedIds'
            /\ action'[op].type \in Creating /\ MintedBy(op)' = {} => Lacking'
      BY <1>12, <1>15, <2>1
    <2> QED BY <2>3, <2>4 DEF PlanFits
  <1>18. AttemptsAreCounted'
    <2>1. Waiting(o)' = {} /\ stamps'[o] = 0
      BY <1>10, <1>16 DEF Waiting
    <2>2. IsFiniteSet(Waiting(o)') /\ Cardinality(Waiting(o)') + stamps'[o] <= attempts'
      BY <1>3, <2>1, FS_EmptySet
    <2>3. \A op \in Ops : status'[op] = "new" => stamps'[op] = 0
      BY <1>10, <1>12 DEF LifeInv, AttemptsAreCounted
    <2> QED BY <1>12, <2>2, <2>3 DEF AttemptsAreCounted
  <1>19. WiredInOrder'
    <2>1. \A op \in Ops : status'[op] = "open" => MintedBy(op)' = {}
      BY <1>12, <1>15, <1>16
    <2> QED BY <1>0, <1>3, <1>10, <2>1 DEF WiredInOrder, Rounds, stripe
  <1>20. QuietRoundProjects'
    <2> SUFFICES ASSUME ~again' PROVE QuietRoundProjects'
      BY DEF QuietRoundProjects
    <2>1. plan.ref = wired /\ head.type \notin Posting /\ (Billable => Pending \/ projected = plan.ref)
      BY <1>0, <1>3, <1>4 DEF QuietRoundProjects, Rounds
    <2>2. Pending => Pending'
      <3>1. Pending => \E i \in DOMAIN todo : todo[i].type = "PROJECT_OUTPUT"
        BY <1>0 DEF Pending
      <3>2. ASSUME NEW i \in DOMAIN todo, todo[i].type = "PROJECT_OUTPUT" PROVE Pending'
        <4>1. CASE i = 1
          BY <1>2, <1>4, <1>8, <1>12, <3>2, <4>1 DEF Pending
        <4>2. CASE i # 1
          <5>1. \E j \in DOMAIN tail : tail[j].type = "PROJECT_OUTPUT"
            BY <1>4, <1>5, <3>2, <4>2
          <5> QED BY <1>6, <5>1 DEF Pending
        <4> QED BY <4>1, <4>2
      <3> QED BY <3>1, <3>2
    <2>3. Billable' <=> Billable
      BY <1>3 DEF Billable, Blocked
    <2>4. \A op \in Ops : status'[op] = "open" => action'[op].type \notin Posting
      BY <1>8, <1>12, <2>1
    <2> QED BY <1>3, <1>6, <2>1, <2>2, <2>3, <2>4 DEF QuietRoundProjects
  <1>21. WiredIsNewest => WiredIsNewest'
    <2> SUFFICES ASSUME WiredIsNewest, ~GivenUp' PROVE WiredIsNewest'
      BY DEF WiredIsNewest
    <2>1. ~GivenUp
      BY <1>10, <1>12 DEF GivenUp
    <2>2. \A i \in OwnedIds' : i <= wired'
      BY <1>0, <1>3, <1>15, <2>1 DEF WiredIsNewest
    <2>3. a.type = "UPDATE" => a.remote <= wired
      BY <1>4, <1>8, <2>1 DEF WiredIsNewest
    <2>4. \A i \in DOMAIN todo' : todo'[i].type # "UPDATE"
      BY <1>6 DEF Posting
    <2> QED BY <1>3, <1>12, <2>2, <2>3, <2>4 DEF WiredIsNewest
  <1> QED BY <1>13, <1>1, <1>14, <1>17, <1>18, <1>19, <1>20, <1>21 DEF LifeInv

\* Giving up asks for another round and leaves the wired secret alone.
LEMMA GiveUpKeeps ==
    ASSUME LifeInv, NEW op \in Ops, GiveUp(op) PROVE Rounds' /\ AttemptsAreCounted' /\ WiredIsNewest'
  <1>0. HostTyped /\ Rounds /\ status \in [Ops -> {"new", "open", "applied", "abandoned"}] /\ OneIsOpen
    BY LifeTypes
  <1>1. /\ todo' = <<>> /\ again' = TRUE /\ status[op] = "open"
        /\ UNCHANGED <<raw, plan, attempts, wired, projected, fresh, changes>>
        /\ UNCHANGED <<stripe, action, run, stamps>>
        /\ status' = [status EXCEPT ![op] = "abandoned"]
    BY DEF GiveUp, Abandon
  <1>2. status'[op] = "abandoned" /\ \A p \in Ops : p # op => status'[p] = status[p]
    BY <1>0, <1>1
  <1>3. \A p \in Ops : status'[p] # "open"
    BY <1>0, <1>1, <1>2 DEF OneIsOpen
  <1>4. \A p \in Ops : status'[p] # "new" => status[p] # "new"
    BY <1>1, <1>2
  <1>5. DOMAIN todo' = {}
    BY <1>1
  <1>6. PlanIsInOrder' /\ ActionsArePlanned'
    BY <1>0, <1>1, <1>4, <1>5 DEF PlanIsInOrder, ActionsArePlanned, Rounds
  <1>7. PlanFits' /\ QuietRoundProjects'
    BY <1>1, <1>3 DEF PlanFits, QuietRoundProjects
  <1>8. WiredInOrder'
    BY <1>0, <1>1, <1>3 DEF WiredInOrder, Rounds, stripe
  <1>9. AttemptsAreCounted'
    BY <1>1, <1>2, WaitingShrinks
  <1>10. GivenUp'
    BY <1>2 DEF GivenUp
  <1> QED BY <1>6, <1>7, <1>8, <1>9, <1>10 DEF Rounds, WiredIsNewest

\* Of the operations of a stranger and the operator only this is seen.
LEMMA ChangeKeeps ==
    ASSUME LifeInv, Changed, OwnedIds' \subseteq OwnedIds, raw' \in RawInputs, WellFormed'
    PROVE  LifeInv' /\ (WiredIsNewest => WiredIsNewest')
  <1>0. HostTyped /\ Rounds /\ OneIsOpen
    BY LifeTypes
  <1>1. /\ changes < MaxChanges /\ changes' = changes + 1 /\ fresh' = FALSE /\ again' = TRUE
        /\ UNCHANGED <<now, lastId, effects, action, status, checkpoint, captures, state, run,
                       stamps, refused, faults, plan, todo, attempts, wired, projected>>
    BY DEF Changed
  <1>2. \A op \in Ops : MintedBy(op)' = MintedBy(op)
    BY <1>1 DEF MintedBy
  <1>3. Applying'
    <2>1. Aside
      BY <1>1 DEF Aside
    <2> QED BY <1>0, <1>1, <2>1, AsideKeepsApplying DEF LifeInv, OneIsOpen
  <1>4. HostTyped'
    <2>1. changes' \in 0..MaxChanges
      BY <1>0, <1>1, LifecycleAssumption DEF HostTyped
    <2> QED BY <1>0, <1>1, <2>1 DEF HostTyped
  <1>5. PlanIsInOrder' /\ ActionsArePlanned'
    BY <1>0, <1>1 DEF PlanIsInOrder, ActionsArePlanned, Rounds, NoneOpen
  <1>6. PlanFits' /\ QuietRoundProjects'
    BY <1>1 DEF PlanFits, QuietRoundProjects
  <1>7. WiredInOrder'
    BY <1>0, <1>1, <1>2 DEF WiredInOrder, Rounds
  <1>8. AttemptsAreCounted'
    BY <1>1, WaitingShrinks
  <1>9. WiredIsNewest => WiredIsNewest'
    <2>1. GivenUp' <=> GivenUp
      BY <1>1 DEF GivenUp
    <2> QED BY <1>1, <1>2, <2>1 DEF WiredIsNewest
  <1> QED BY <1>3, <1>4, <1>5, <1>6, <1>7, <1>8, <1>9 DEF LifeInv

\* Somebody's edit leaves an endpoint, which may be given to the binding by none.
LEMMA EditedEndpoint ==
    ASSUME BindingAssumption, NEW old \in Endpoint, NEW body \in Pl!Edited(old)
    PROVE  body \in Endpoint /\ (body.meta.binding = Binding => old.meta.binding = Binding)
  <1>1. /\ old = [url |-> old.url, events |-> old.events, api |-> old.api, desc |-> old.desc,
                  meta |-> old.meta, status |-> old.status]
        /\ old.url \in URL /\ old.meta \in Metadata /\ old.events \in SUBSET Events
        /\ old.url.site \in Sites /\ old.url.slash \in BOOLEAN
        /\ old.meta.binding \in Bindings \cup {NoBinding} /\ old.meta.resource \in BOOLEAN
    BY DEF Endpoint, URL, Metadata
  <1>2. CASE body = [old EXCEPT !.status = "disabled"]
    BY <1>1, <1>2 DEF Endpoint
  <1>3. CASE body = [old EXCEPT !.url.slash = ~@]
    <2>1. [old.url EXCEPT !.slash = ~@] \in URL
      BY <1>1 DEF URL
    <2> QED BY <1>1, <1>3, <2>1 DEF Endpoint
  <1>4. CASE body = [old EXCEPT !.meta.resource = FALSE]
    <2>1. [old.meta EXCEPT !.resource = FALSE] \in Metadata /\ [old.meta EXCEPT !.resource = FALSE].binding = old.meta.binding
      BY <1>1 DEF Metadata
    <2> QED BY <1>1, <1>4, <2>1 DEF Endpoint
  <1>5. CASE body = [old EXCEPT !.meta.binding = NoBinding]
    <2>1. [old.meta EXCEPT !.binding = NoBinding] \in Metadata /\ [old.meta EXCEPT !.binding = NoBinding].binding = NoBinding
      BY <1>1 DEF Metadata
    <2>2. NoBinding # Binding
      BY BindingAssumption
    <2> QED BY <1>1, <1>5, <2>1, <2>2 DEF Endpoint
  <1>6. CASE \E site \in Sites : body = [old EXCEPT !.url.site = site]
    <2>1. \A site \in Sites : [old.url EXCEPT !.site = site] \in URL
      BY <1>1 DEF URL
    <2> QED BY <1>1, <1>6, <2>1 DEF Endpoint
  <1>7. CASE \E events \in SUBSET Events : body = [old EXCEPT !.events = events]
    BY <1>1, <1>7 DEF Endpoint
  <1> QED BY <1>2, <1>3, <1>4, <1>5, <1>6, <1>7 DEF Pl!Edited

\* A change of the account takes endpoints from the binding and gives it none.
LEMMA DriftStays == ASSUME WellFormed, Drift PROVE WellFormed' /\ OwnedIds' \subseteq OwnedIds
  <1>0. WellFormed /\ \A i \in DOMAIN endpoints : endpoints[i] \in Endpoint
    BY IdsGivenOut
  <1>1. /\ Changed /\ UNCHANGED raw
        /\ UNCHANGED <<now, lastId, effects, action, status, checkpoint, captures, state, run,
                       stamps, refused, faults>>
    BY DEF Drift, Changed
  <1>2. \A i \in DOMAIN endpoints' :
           /\ i \in DOMAIN endpoints /\ endpoints'[i] \in Endpoint
           /\ endpoints'[i].meta.binding = Binding => endpoints[i].meta.binding = Binding
    <2>1. PICK i \in DOMAIN endpoints :
            \/ \E body \in Pl!Edited(endpoints[i]) \ {endpoints[i]} :
                   endpoints' = [endpoints EXCEPT ![i] = body]
            \/ endpoints' = [j \in DOMAIN endpoints \ {i} |-> endpoints[j]]
      BY DEF Drift
    <2>2. CASE endpoints' = [j \in DOMAIN endpoints \ {i} |-> endpoints[j]]
      BY <1>0, <2>2
    <2>3. ASSUME NEW body \in Pl!Edited(endpoints[i]), endpoints' = [endpoints EXCEPT ![i] = body]
          PROVE  \A j \in DOMAIN endpoints' :
                    /\ j \in DOMAIN endpoints /\ endpoints'[j] \in Endpoint
                    /\ endpoints'[j].meta.binding = Binding => endpoints[j].meta.binding = Binding
      <3>1. PICK old : old = endpoints[i]
        OBVIOUS
      <3>2. body \in Endpoint /\ (body.meta.binding = Binding => old.meta.binding = Binding)
        BY <1>0, <2>1, <2>3, <3>1, BindingAssumption, EditedEndpoint
      <3>3. \A j \in DOMAIN endpoints' : j \in DOMAIN endpoints /\ endpoints'[j] = IF j = i THEN body ELSE endpoints[j]
        BY <2>3
      <3> QED BY <1>0, <3>1, <3>2, <3>3
    <2> QED BY <2>1, <2>2, <2>3
  <1>3. OwnedIds' \subseteq OwnedIds
    BY <1>2 DEF OwnedIds, MetadataMatchesBinding
  <1>4. WellFormed'
    <2>1. DOMAIN endpoints' \subseteq DOMAIN endpoints /\ \A i \in DOMAIN endpoints' : endpoints'[i] \in Endpoint
      BY <1>2
    <2>2. TypeOK'
      BY <1>0, <1>1, <2>1 DEF WellFormed, TypeOK
    <2>3. RunsAreTyped'
      BY <1>0, <1>1 DEF WellFormed, RunsAreTyped, InFlight, Act
    <2> QED BY <2>2, <2>3 DEF WellFormed
  <1> QED BY <1>3, <1>4

\* After it nothing is claimed of the plan until the next round.
LEMMA DriftKeeps ==
    ASSUME LifeInv, Drift PROVE LifeInv' /\ (WiredIsNewest => WiredIsNewest')
  <1>1. WellFormed' /\ OwnedIds' \subseteq OwnedIds
    BY LifeTypes, DriftStays
  <1>2. Changed /\ raw' \in RawInputs
    BY LifeTypes DEF Drift, HostTyped
  <1> QED BY <1>1, <1>2, ChangeKeeps

LEMMA RewriteKeeps ==
    ASSUME LifeInv, Rewrite PROVE LifeInv' /\ (WiredIsNewest => WiredIsNewest')
  <1>1. Changed /\ raw' \in RawInputs /\ UNCHANGED endpoints
    BY DEF Rewrite
  <1>2. UNCHANGED vars
    BY <1>1 DEF Changed, vars, stripe
  <1>3. OwnedIds' \subseteq OwnedIds
    BY <1>1 DEF OwnedIds
  <1>4. WellFormed'
    BY <1>2, LifeTypes, WellFormedNext
  <1> QED BY <1>1, <1>3, <1>4, ChangeKeeps
--------------------------------------------------------------------------------
(* What the handlers and Stripe do. *)

\* What the request of an open operation o with action a writes.
Creates(o, a) ==
    /\ a.type \in Creating /\ lastId' = lastId + 1
    /\ \E e : effects' = effects \cup {e} /\ e.kind = "create" /\ e.op = o /\ e.id = lastId + 1
    /\ endpoints' = [i \in DOMAIN endpoints \cup {lastId + 1} |->
                        IF i = lastId + 1 THEN CreateBody(a.target) ELSE endpoints[i]]

Overwrites(a) ==
    /\ a.type = "UPDATE" /\ lastId' = lastId /\ a.remote \in DOMAIN endpoints
    /\ \E e : effects' = effects \cup {e} /\ e.kind = "update" /\ e.id = a.remote
    /\ endpoints' = [endpoints EXCEPT ![a.remote] = UpdateBody(@, a.target)]

\* Stripe does not remember to have carried out anything for the operation.
Forgotten(o) == \A e \in effects : e.op = o => now - e.at > Window

\* Only the open operation writes, or one that was given up: a late attempt of an applied
\* one is answered from the record.
LEMMA ExecuteWrites ==
    ASSUME LifeInv, NEW r \in Runs, Execute(r), NEW o, run[r].op = o, NEW a, Act(r) = a
    PROVE  /\ o \in Ops /\ action[o] = a
           /\ \/ UNCHANGED stripe
              \/ /\ status[o] \in {"open", "abandoned"} /\ Forgotten(o)
                 /\ Creates(o, a) \/ Overwrites(a)
  <1>1. /\ run[r].pc = "send" /\ InFlight(r) /\ o \in Ops /\ status[o] # "new" /\ WellFormed
        /\ EffectsAreKeyed /\ ActionsArePlanned /\ OneIsOpen /\ LateIsReplayed
    BY LifeTypes, ExecuteStep DEF InFlight, LifeInv, Applying, Safe
  <1>2. a.type \in PlanTypes /\ action[o] = a
    BY <1>1 DEF ActionsArePlanned, Act
  <1>3. CASE UNCHANGED stripe
    BY <1>1, <1>2, <1>3
  <1>4. ASSUME NEW id \in 0..(lastId + 1), Perform(r, id)
        PROVE  \/ UNCHANGED stripe
               \/ /\ status[o] \in {"open", "abandoned"} /\ Forgotten(o)
                  /\ Creates(o, a) \/ Overwrites(a)
    <2>1. IdempotencyKey(Operation(r)) = o
      BY DEF IdempotencyKey, Operation
    <2>2. Recorded(o) = {} /\ a.type \in Posting =>
            status[o] \in {"open", "abandoned"} /\ Forgotten(o)
      <3>1. status[o] \in {"open", "applied", "abandoned"}
        BY <1>1, FlightType DEF WellFormed, TypeOK
      <3>2. now \in Nat /\ Window \in Nat /\ \A e \in effects : e.at \in Nat /\ e.key = e.op
        BY <1>1, ApplyAssumption DEF WellFormed, TypeOK, EffectsAreKeyed
      <3>3. Recorded(o) = {} => Forgotten(o)
        BY <3>2 DEF Recorded, Forgotten
      <3>4. Recorded(o) = {} /\ a.type \in Posting => status[o] # "applied"
        BY <1>1, <1>2 DEF Recorded, LateIsReplayed
      <3> QED BY <3>1, <3>3, <3>4
    <2>3. \A kind : /\ Effect(r, kind, id).kind = kind /\ Effect(r, kind, id).op = o
                    /\ Effect(r, kind, id).id = id
      BY DEF Effect
    <2>4. \/ /\ a.type \in Creating /\ Recorded(o) = {} /\ id = lastId + 1 /\ lastId' = id
             /\ endpoints' = [i \in DOMAIN endpoints \cup {id} |->
                                 IF i = id THEN CreateBody(a.target) ELSE endpoints[i]]
             /\ effects' = effects \cup {Effect(r, "create", id)}
          \/ /\ a.type = "UPDATE" /\ Recorded(o) = {} /\ id = a.remote
             /\ a.remote \in DOMAIN endpoints /\ lastId' = lastId
             /\ endpoints' = [endpoints EXCEPT ![id] = UpdateBody(@, a.target)]
             /\ effects' = effects \cup {Effect(r, "update", id)}
          \/ UNCHANGED stripe
      BY <1>2, <1>4, <2>1 DEF Perform, PlanTypes
    <2>5. CASE /\ a.type \in Creating /\ Recorded(o) = {} /\ id = lastId + 1 /\ lastId' = id
               /\ endpoints' = [i \in DOMAIN endpoints \cup {id} |->
                                   IF i = id THEN CreateBody(a.target) ELSE endpoints[i]]
               /\ effects' = effects \cup {Effect(r, "create", id)}
      BY <2>2, <2>3, <2>5 DEF Creates, Posting
    <2>6. CASE /\ a.type = "UPDATE" /\ Recorded(o) = {} /\ id = a.remote
               /\ a.remote \in DOMAIN endpoints /\ lastId' = lastId
               /\ endpoints' = [endpoints EXCEPT ![id] = UpdateBody(@, a.target)]
               /\ effects' = effects \cup {Effect(r, "update", id)}
      BY <2>2, <2>3, <2>6 DEF Overwrites, Posting
    <2> QED BY <2>4, <2>5, <2>6
  <1> QED BY <1>1, <1>2, <1>3, <1>4, CarriedStep DEF Carried

\* What the open operation writes is what its plan was made for; with two attempts it
\* creates one endpoint, which is the newest.
LEMMA ExecuteKeeps ==
    ASSUME LifeInv, NEW r \in Runs, Execute(r), Broker(r)
    PROVE  Rounds' /\ AttemptsAreCounted' /\ (WiredIsNewest => WiredIsNewest')
  <1>0. /\ HostTyped /\ Rounds /\ OneIsOpen /\ WellFormed
        /\ lastId \in Nat /\ DOMAIN endpoints \subseteq 1..lastId
        /\ \A i \in DOMAIN endpoints : endpoints[i] \in Endpoint
    BY LifeTypes, IdsGivenOut
  <1>1. /\ UNCHANGED <<action, status, stamps>>
        /\ UNCHANGED <<raw, plan, todo, attempts, wired, projected>>
        /\ UNCHANGED <<fresh, again>> \/ (Straggler(r) /\ fresh' = FALSE /\ again' = TRUE)
        /\ run[r].pc = "send" /\ run'[r].pc = "answered"
        /\ \A q \in Runs : q # r => run'[q] = run[q]
    BY <1>0, ExecuteStep DEF Broker, host
  <1>2. AttemptsAreCounted'
    BY <1>1, WaitingShrinks
  <1>3. CASE UNCHANGED stripe
    <2>1. ~Straggler(r)
      BY <1>3 DEF Straggler
    <2> QED BY <1>1, <1>2, <1>3, <2>1, QuietKeeps
  <1>4. PICK o : o = run[r].op
    OBVIOUS
  <1>5. PICK a : a = Act(r)
    OBVIOUS
  <1>6. ASSUME o \in Ops, action[o] = a, status[o] = "open", Creates(o, a) \/ Overwrites(a)
        PROVE  Rounds' /\ (WiredIsNewest => WiredIsNewest')
    <2>0. /\ \A p \in Ops : status[p] = "open" => p = o
          /\ UNCHANGED <<fresh, again>>
      BY <1>0, <1>1, <1>4, <1>6 DEF OneIsOpen, Straggler
    <2>1. a.type \in Posting /\ ~NoneOpen /\ again
      BY <1>0, <1>6 DEF Creates, Overwrites, Posting, NoneOpen, Rounds, QuietRoundProjects
    <2>2. \A i \in DOMAIN todo : Fitting(todo[i]) /\ todo[i].type \notin Posting
      BY <1>0, <2>1 DEF Rounds, PlanIsInOrder
    <2>3. PlanIsInOrder'
      BY <1>1, <2>2 DEF PlanIsInOrder
    <2>4. ActionsArePlanned'
      BY <1>0, <1>1 DEF ActionsArePlanned, Rounds
    <2>5. QuietRoundProjects'
      BY <2>0, <2>1 DEF QuietRoundProjects
    <2>6. todo # <<>> => Head(todo).type \notin Posting
      <3>1. todo # <<>> => 1 \in DOMAIN todo /\ Head(todo) = todo[1]
        BY <1>0 DEF HostTyped
      <3> QED BY <2>2, <3>1
    <2>7. CASE Creates(o, a)
      <3>1. PICK e : effects' = effects \cup {e} /\ e.kind = "create" /\ e.op = o /\ e.id = lastId + 1
        BY <2>7 DEF Creates
      <3>2. /\ \A m \in MintedBy(o)' : m \in MintedBy(o) \/ m = e
            /\ MintedBy(o) \subseteq MintedBy(o)' /\ e \in MintedBy(o)'
        BY <3>1 DEF MintedBy
      <3>3. PlanFits'
        <4>1. a.type # "UPDATE"
          BY <2>7 DEF Creates, Creating
        <4> QED BY <1>1, <1>6, <2>0, <2>6, <3>2, <4>1 DEF PlanFits, Posting
      <3>4. WiredInOrder'
        <4>1. lastId' = lastId + 1 /\ wired <= lastId /\ wired \in Nat /\ \A m \in effects : m.id \in 1..lastId
          BY <1>0, <2>7 DEF Creates, Rounds, WiredInOrder, HostTyped
        <4>2. \A m \in effects' : m.id \in 1..lastId'
          BY <1>0, <3>1, <4>1
        <4>3. \A m \in MintedBy(o)' : wired < m.id
          BY <1>0, <1>6, <3>1, <3>2, <4>1 DEF Rounds, WiredInOrder
        <4>4. wired <= lastId'
          BY <1>0, <4>1
        <4> QED BY <1>0, <1>1, <2>0, <4>2, <4>3, <4>4 DEF Rounds, WiredInOrder
      <3>5. WiredIsNewest => WiredIsNewest'
        <4> SUFFICES ASSUME WiredIsNewest, ~GivenUp' PROVE WiredIsNewest'
          BY DEF WiredIsNewest
        <4>1. ~GivenUp
          BY <1>1 DEF GivenUp
        <4>2. OwnedIds' \subseteq OwnedIds \cup {lastId + 1}
          BY <2>7 DEF OwnedIds, Creates
        <4>3. ASSUME NEW i \in OwnedIds'
              PROVE  i <= wired \/ \E op \in Ops : status[op] = "open" /\ \E m \in MintedBy(op)' : m.id = i
          <5>1. CASE i = lastId + 1
            BY <1>6, <3>1, <3>2, <5>1
          <5>2. CASE i \in OwnedIds
            BY <2>0, <3>2, <4>1, <5>2 DEF WiredIsNewest
          <5> QED BY <4>2, <4>3, <5>1, <5>2
        <4> QED BY <1>1, <4>1, <4>3 DEF WiredIsNewest
      <3> QED BY <2>3, <2>4, <2>5, <3>3, <3>4, <3>5 DEF Rounds
    <2>8. CASE Overwrites(a)
      <3>1. PICK e : effects' = effects \cup {e} /\ e.kind = "update" /\ e.id = a.remote
        BY <2>8 DEF Overwrites
      <3>2. \A op \in Ops : MintedBy(op)' = MintedBy(op)
        BY <3>1 DEF MintedBy
      <3>3. /\ OwnedIds \subseteq OwnedIds' /\ OwnedIds' \subseteq OwnedIds \cup {a.remote}
            /\ a.remote \in OwnedIds'
        <4>1. a.target.meta.binding = Binding
          BY <1>0, <1>6, <2>1 DEF Rounds, ActionsArePlanned
        <4>2. DOMAIN endpoints' = DOMAIN endpoints /\ a.remote \in DOMAIN endpoints
          BY <2>8 DEF Overwrites
        <4>3. \A i \in DOMAIN endpoints : i # a.remote => endpoints'[i] = endpoints[i]
          BY <2>8 DEF Overwrites
        <4>4. endpoints'[a.remote].meta = a.target.meta
          <5>1. endpoints'[a.remote] = UpdateBody(endpoints[a.remote], a.target) /\ endpoints[a.remote] \in Endpoint
            BY <1>0, <2>8 DEF Overwrites
          <5> QED BY <5>1 DEF UpdateBody, Endpoint
        <4> QED BY <4>1, <4>2, <4>3, <4>4 DEF OwnedIds, MetadataMatchesBinding
      <3>4. PlanFits'
        <4>1. a.type \notin Creating
          BY <2>8 DEF Overwrites, Creating
        <4> QED BY <1>1, <1>6, <2>0, <2>6, <3>3, <4>1 DEF PlanFits, Posting
      <3>5. WiredInOrder'
        <4>1. lastId' = lastId /\ \A m \in effects' : m.id \in 1..lastId'
          BY <1>0, <2>8, <3>1 DEF Overwrites, Rounds, WiredInOrder
        <4> QED BY <1>0, <1>1, <3>2, <4>1 DEF Rounds, WiredInOrder
      <3>6. WiredIsNewest => WiredIsNewest'
        <4> SUFFICES ASSUME WiredIsNewest, ~GivenUp' PROVE WiredIsNewest'
          BY DEF WiredIsNewest
        <4>1. ~GivenUp
          BY <1>1 DEF GivenUp
        <4>2. a.remote <= wired
          BY <1>6, <2>8, <4>1 DEF WiredIsNewest, Overwrites
        <4> QED BY <1>1, <3>2, <3>3, <4>1, <4>2 DEF WiredIsNewest
      <3> QED BY <2>3, <2>4, <2>5, <3>4, <3>5, <3>6 DEF Rounds
    <2> QED BY <1>6, <2>7, <2>8
  <1>7. ASSUME o \in Ops, status[o] = "abandoned", stripe' # stripe, Creates(o, a) \/ Overwrites(a)
        PROVE  Rounds' /\ WiredIsNewest'
    <2>1. fresh' = FALSE /\ again' = TRUE
      BY <1>1, <1>4, <1>7 DEF Straggler, Broker
    <2>2. PlanIsInOrder' /\ ActionsArePlanned'
      BY <1>0, <1>1 DEF PlanIsInOrder, ActionsArePlanned, NoneOpen, Rounds
    <2>3. PlanFits' /\ QuietRoundProjects'
      BY <2>1 DEF PlanFits, QuietRoundProjects
    <2>4. WiredIsNewest'
      BY <1>1, <1>7 DEF WiredIsNewest, GivenUp
    <2>5. /\ lastId' \in {lastId, lastId + 1} /\ \A m \in effects' : m.id \in 1..lastId'
          /\ \A op \in Ops : status[op] = "open" => MintedBy(op)' = MintedBy(op)
      <3>1. \A m \in effects : m.id \in 1..lastId
        BY <1>0 DEF Rounds, WiredInOrder
      <3>2. CASE Creates(o, a)
        <4>1. PICK e : effects' = effects \cup {e} /\ e.op = o /\ e.id = lastId + 1
          BY <3>2 DEF Creates
        <4>2. lastId' = lastId + 1
          BY <3>2 DEF Creates
        <4>3. ASSUME NEW op \in Ops, status[op] = "open" PROVE MintedBy(op)' = MintedBy(op)
          <5>1. op # o
            BY <1>7, <4>3
          <5> QED BY <4>1, <5>1 DEF MintedBy
        <4> QED BY <1>0, <3>1, <4>1, <4>2, <4>3
      <3>3. CASE Overwrites(a)
        <4>1. PICK e : effects' = effects \cup {e} /\ e.kind = "update" /\ e.id = a.remote
          BY <3>3 DEF Overwrites
        <4>2. lastId' = lastId /\ a.remote \in DOMAIN endpoints
          BY <3>3 DEF Overwrites
        <4> QED BY <1>0, <3>1, <4>1, <4>2 DEF MintedBy
      <3> QED BY <1>7, <3>2, <3>3
    <2>6. WiredInOrder'
      <3>1. wired \in Nat /\ wired <= lastId
        BY <1>0 DEF HostTyped, Rounds, WiredInOrder
      <3>2. wired <= lastId'
        BY <1>0, <2>5, <3>1
      <3> QED BY <1>0, <1>1, <2>5, <3>2 DEF WiredInOrder, Rounds
    <2> QED BY <2>2, <2>3, <2>4, <2>6 DEF Rounds
  <1> QED BY <1>2, <1>3, <1>4, <1>5, <1>6, <1>7, ExecuteWrites

\* The reference a create answers with is of an endpoint that its operation created.
LEMMA ReceiptNamesAMint ==
    ASSUME SecretInv, NEW r \in Runs, Ends(r), Settled(r), Act(r).type \in Creating,
           NEW o, run[r].op = o
    PROVE  \E e \in MintedBy(o) : e.id = CHOOSE ref \in state'.refs : TRUE
  <1>1. InFlight(r) /\ o \in Ops
    BY FlightType DEF Ends, SecretInv
  <1>2. Succeeded(r)
    BY DEF Settled, Creating
  <1>3. PICK ref \in SigningSecret(r) : \E id, acct, own, fields : state' = OwnedState(run[r].entry, id, acct, own, fields, {ref})
    <2>1. state' \in NextStates(r)
      BY <1>2 DEF Settled, Results, Succeeded
    <2>2. PICK a : a = Act(r) /\ a.type \in Creating
      OBVIOUS
    <2>3. NextStates(r) = {OwnedState(run[r].entry, run[r].response.id, a.acct, "OWNED", a.target, {x}) :
                              x \in SigningSecret(r)}
      BY <2>2 DEF NextStates, Creating, Act
    <2> QED BY <2>1, <2>3
  <1>4. state'.refs = {ref}
    <2>1. \A entry, id, acct, own, fields, refs : OwnedState(entry, id, acct, own, fields, refs).refs = refs
      BY DEF OwnedState, BaseState, NoState
    <2> QED BY <1>3, <2>1
  <1>5. ref \in Origins[o]
    <2>1. /\ captures[o] # 0 => captures[o] \in Origins[o]
          /\ run[r].response.id \in Origins[o]
      BY <1>1, <1>2 DEF SecretInv, SecretsAreExplained
    <2> QED BY <1>3, <2>1 DEF SigningSecret
  <1>6. (CHOOSE x \in state'.refs : TRUE) = ref
    BY <1>4
  <1> QED BY <1>1, <1>5, <1>6 DEF Origins

\* The operation the host waits for has created one endpoint at most.
OpenOnce == \A op \in Ops : status[op] = "open" => \A e, f \in MintedBy(op) : e = f

\* It has when it was not sent more often than the host may attempt it.
LEMMA OneMint == ASSUME LifeInv, MaxAttempts <= 2 PROVE OpenOnce
  <1> SUFFICES ASSUME NEW o \in Ops, status[o] = "open" PROVE \A e, f \in MintedBy(o) : e = f
    BY DEF OpenOnce
  <1>1. /\ Cardinality(Waiting(o)) \in Nat /\ Cardinality(Waiting(o)) + stamps[o] <= attempts
        /\ stamps[o] \in Nat /\ attempts \in 0..MaxAttempts
    BY LifeTypes, FS_CardinalityType DEF LifeInv, AttemptsAreCounted, HostTyped
  <1>2. ~(stamps[o] > 2)
    BY <1>1, LifecycleAssumption
  <1> QED BY <1>2 DEF LifeInv, Applying, Safe, DuplicatesAreThirdSends

\* What is planned stays in order when the open operation is no longer open.
LEMMA StandingStays ==
    ASSUME Rounds, UNCHANGED <<stripe, action, raw, plan, todo, fresh>>,
           \A op \in Ops : status'[op] # "open" /\ (status'[op] # "new" => status[op] # "new")
    PROVE  PlanIsInOrder' /\ ActionsArePlanned' /\ PlanFits'
  <1>1. OwnedIds' = OwnedIds
    BY DEF OwnedIds, stripe
  <1>2. Lacking' <=> Lacking
    BY <1>1 DEF Lacking, Newest, stripe
  <1>3. NoneOpen'
    BY DEF NoneOpen
  <1>4. PlanIsInOrder' /\ ActionsArePlanned'
    BY <1>3 DEF Rounds, PlanIsInOrder, ActionsArePlanned
  <1>5. PlanFits'
    BY <1>1, <1>2 DEF Rounds, PlanFits
  <1> QED BY <1>4, <1>5

\* The first success wires the secret of the endpoint the operation has created.
LEMMA SettleKeeps ==
    ASSUME LifeInv, NEW r \in Runs, Ends(r), Settled(r), NEW o, run[r].op = o,
           wired' = IF Act(r).type \in Creating THEN CHOOSE ref \in state'.refs : TRUE ELSE wired,
           projected' = IF Act(r).type = "PROJECT_OUTPUT" THEN plan.ref ELSE projected,
           UNCHANGED <<raw, plan, todo, fresh, again>>
    PROVE  /\ Rounds' /\ wired' \in Nat /\ projected' \in Nat
           /\ OpenOnce /\ WiredIsNewest => WiredIsNewest'
  <1>0. /\ HostTyped /\ Rounds /\ OneIsOpen /\ o \in Ops
        /\ status \in [Ops -> {"new", "open", "applied", "abandoned"}]
    BY LifeTypes DEF Ends
  <1>1. PICK a : a = Act(r)
    OBVIOUS
  <1>2. /\ status[o] = "open" /\ action[o] = a /\ UNCHANGED <<stripe, action>>
        /\ status' = [status EXCEPT ![o] = "applied"]
    BY <1>1 DEF Ends, Settled, Act
  <1>3. /\ status'[o] = "applied" /\ \A p \in Ops : p # o => status'[p] = status[p] /\ status[p] # "open"
        /\ \A p \in Ops : status'[p] # "open"
    BY <1>0, <1>2 DEF OneIsOpen
  <1>4. /\ wired \in Nat /\ projected \in Nat /\ plan.ref \in Nat /\ lastId \in Nat
        /\ projected <= wired /\ plan.ref <= wired /\ wired <= lastId
        /\ \A e \in effects : e.id \in 1..lastId
        /\ \A e \in MintedBy(o) : wired < e.id /\ e \in effects
    BY <1>0, <1>2, LifeTypes, IdsGivenOut DEF HostTyped, Rounds, WiredInOrder, MintedBy
  <1>5. CASE a.type \in Creating
    <2>1. PICK e \in MintedBy(o) : e.id = wired'
      <3>1. SecretInv
        BY DEF LifeInv, Applying, Safe, SecretInv
      <3> QED BY <1>1, <1>5, <3>1, ReceiptNamesAMint
    <2>2. wired < wired' /\ wired' \in 1..lastId /\ projected' = projected
      BY <1>1, <1>4, <1>5, <2>1 DEF Creating
    <2>3. again
      BY <1>0, <1>2, <1>5 DEF Rounds, QuietRoundProjects, Posting
    <2>4. WiredInOrder'
      BY <1>2, <1>3, <1>4, <2>2 DEF WiredInOrder, stripe
    <2>5. QuietRoundProjects'
      BY <2>3 DEF QuietRoundProjects
    <2>6. OpenOnce /\ WiredIsNewest => WiredIsNewest'
      <3> SUFFICES ASSUME OpenOnce, WiredIsNewest, ~GivenUp' PROVE WiredIsNewest'
        BY DEF WiredIsNewest
      <3>1. ~GivenUp
        BY <1>2, <1>3 DEF GivenUp
      <3>2. OwnedIds' = OwnedIds /\ OwnedIds \subseteq Nat
        BY <1>2, LifeTypes, IdsGivenOut DEF OwnedIds, stripe
      <3>3. ASSUME NEW i \in OwnedIds PROVE i <= wired'
        <4>1. CASE i <= wired
          BY <1>4, <2>2, <3>2, <4>1
        <4>2. CASE \E m \in MintedBy(o) : m.id = i
          <5>1. \A e1, f1 \in MintedBy(o) : e1 = f1
            BY <1>0, <1>2 DEF OpenOnce
          <5> QED BY <1>4, <2>1, <3>2, <4>2, <5>1
        <4> QED BY <1>3, <3>1, <4>1, <4>2 DEF WiredIsNewest
      <3>4. \A i \in DOMAIN todo : todo[i].type # "UPDATE" \/ todo[i].remote <= wired'
        <4>1. \A i \in DOMAIN todo : todo[i].type = "UPDATE" => FALSE
          BY <1>0, <1>2 DEF Rounds, PlanIsInOrder, NoneOpen, Posting
        <4> QED BY <4>1
      <3> QED BY <1>3, <3>2, <3>3, <3>4 DEF WiredIsNewest
    <2>7. PlanIsInOrder' /\ ActionsArePlanned' /\ PlanFits'
      BY <1>0, <1>2, <1>3, StandingStays
    <2> QED BY <1>0, <1>2, <1>3, <1>4, <2>2, <2>4, <2>5, <2>6, <2>7 DEF Rounds
  <1>6. CASE a.type \notin Creating
    <2>1. wired' = wired /\ (projected' = plan.ref \/ projected' = projected)
      BY <1>1, <1>6
    <2>2. MintedBy(o) = {}
      <3>1. EffectsAreKeyed
        BY DEF LifeInv, Applying, Safe
      <3> QED BY <1>2, <1>6, <3>1 DEF EffectsAreKeyed, MintedBy
    <2>3. WiredInOrder'
      BY <1>2, <1>3, <1>4, <2>1 DEF WiredInOrder, stripe
    <2>4. QuietRoundProjects'
      <3> SUFFICES ASSUME ~again' PROVE QuietRoundProjects'
        BY DEF QuietRoundProjects
      <3>1. /\ plan.ref = wired /\ \A i \in DOMAIN todo : todo[i].type \notin Posting
            /\ Billable => Pending \/ projected = plan.ref
        BY <1>0 DEF Rounds, QuietRoundProjects
      <3>2. Billable' <=> Billable
        BY <2>1 DEF Billable, Blocked
      <3>3. Pending => Pending' \/ projected' = plan.ref
        BY <1>1, <1>2, <1>3 DEF Pending
      <3>4. projected = plan.ref => projected' = plan.ref
        BY <2>1
      <3> QED BY <1>3, <2>1, <3>1, <3>2, <3>3, <3>4 DEF QuietRoundProjects
    <2>5. WiredIsNewest => WiredIsNewest'
      <3> SUFFICES ASSUME WiredIsNewest, ~GivenUp' PROVE WiredIsNewest'
        BY DEF WiredIsNewest
      <3>1. ~GivenUp
        BY <1>2, <1>3 DEF GivenUp
      <3>2. OwnedIds' = OwnedIds
        BY <1>2 DEF OwnedIds, stripe
      <3>3. \A i \in OwnedIds : i <= wired
        BY <1>3, <2>2, <3>1 DEF WiredIsNewest
      <3> QED BY <1>3, <2>1, <3>1, <3>2, <3>3 DEF WiredIsNewest
    <2>6. PlanIsInOrder' /\ ActionsArePlanned' /\ PlanFits'
      BY <1>0, <1>2, <1>3, StandingStays
    <2> QED BY <1>4, <2>1, <2>3, <2>4, <2>5, <2>6 DEF Rounds
  <1> QED BY <1>5, <1>6

\* The host takes the receipt of the first success.
LEMMA WorkKeeps ==
    ASSUME LifeInv, NEW r \in Runs, Work(r)
    PROVE  /\ Rounds' /\ AttemptsAreCounted' /\ wired' \in Nat /\ projected' \in Nat
           /\ OpenOnce /\ WiredIsNewest => WiredIsNewest'
  <1>0. HostTyped /\ WellFormed /\ status \in [Ops -> {"new", "open", "applied", "abandoned"}]
    BY LifeTypes
  <1>1. PICK o : o = run[r].op
    OBVIOUS
  <1>2. /\ Handle(r) /\ UNCHANGED <<raw, plan, todo, attempts, fresh, again, changes>>
        /\ wired' = IF status[o] = "open" /\ status'[o] = "applied" /\ action[o].type \in Creating
                    THEN CHOOSE ref \in state'.refs : TRUE ELSE wired
        /\ projected' = IF status[o] = "open" /\ status'[o] = "applied" /\ action[o].type = "PROJECT_OUTPUT"
                        THEN plan.ref ELSE projected
    BY <1>1 DEF Work
  <1>3. ASSUME UNCHANGED <<stripe, action, status>>
        PROVE  /\ Rounds' /\ wired' \in Nat /\ projected' \in Nat
               /\ WiredIsNewest => WiredIsNewest'
    <2>1. UNCHANGED <<wired, projected>>
      BY <1>2, <1>3
    <2> QED BY <1>0, <1>2, <1>3, <2>1, QuietKeeps DEF HostTyped
  <1>4. CASE RecordCheckpoint(r)
    <2>1. UNCHANGED <<stripe, action, status>>
      BY <1>4 DEF RecordCheckpoint
    <2> QED BY <1>2, <1>3, <1>4, <2>1, StampCounts
  <1>5. CASE Refuse(r) \/ Local(r) \/ Error(r) \/ Complete(r)
    <2>1. Ends(r) /\ (Silent \/ Failed(r) \/ Settled(r)) /\ UNCHANGED stamps
      BY <1>0, <1>5, EndStep DEF Refuse, Local, Error, Complete, Answer
    <2>2. UNCHANGED status \/ Settled(r)
      BY <2>1 DEF Silent, Failed
    <2>3. AttemptsAreCounted'
      <3>1. \A op \in Ops : status'[op] = status[op] \/ status'[op] = "applied"
        BY <1>0, <2>2 DEF Settled
      <3>2. \A q \in Runs : run'[q].pc = "begin" => run[q].pc = "begin" /\ run'[q].op = run[q].op
        BY <2>1 DEF Ends
      <3> QED BY <1>2, <2>1, <3>1, <3>2, WaitingShrinks
    <2>4. CASE UNCHANGED status
      BY <1>3, <2>1, <2>3, <2>4 DEF Ends
    <2>5. CASE Settled(r)
      <3>1. o \in Ops /\ status[o] = "open" /\ status'[o] = "applied" /\ Act(r) = action[o]
        BY <1>0, <1>1, <2>1, <2>5, LifeTypes DEF Settled, Ends, Act
      <3>2. /\ wired' = IF Act(r).type \in Creating THEN CHOOSE ref \in state'.refs : TRUE ELSE wired
            /\ projected' = IF Act(r).type = "PROJECT_OUTPUT" THEN plan.ref ELSE projected
        BY <1>2, <3>1
      <3> QED BY <1>1, <1>2, <2>1, <2>3, <2>5, <3>2, SettleKeeps
    <2> QED BY <2>2, <2>4, <2>5
  <1> QED BY <1>2, <1>4, <1>5 DEF Handle
--------------------------------------------------------------------------------
(* The invariant. *)

LEMMA LifeInit == LifecycleInit => LifeInv /\ WiredIsNewest
  <1> SUFFICES ASSUME LifecycleInit PROVE LifeInv /\ WiredIsNewest
    OBVIOUS
  <1>1. /\ Init /\ raw \in RawInputs /\ plan = NoPlan /\ todo = <<>> /\ attempts = 0
        /\ wired = Newest /\ projected = 0 /\ fresh = FALSE /\ again = TRUE /\ changes = 0
    BY DEF LifecycleInit
  <1>2. /\ plan.actions = <<>> /\ plan.target = None /\ plan.ref = 0 /\ DOMAIN todo = {}
    BY <1>1 DEF NoPlan
  <1>3. \A op \in Ops : status[op] = "new" /\ stamps[op] = 0
    BY <1>1 DEF Init
  <1>4. effects = {} /\ \A op \in Ops : MintedBy(op) = {}
    BY <1>1 DEF Init, MintedBy
  <1>5. WellFormed
    BY <1>1, WellFormedInit
  <1>6. Newest \in 0..lastId /\ lastId \in Nat /\ \A i \in OwnedIds : i <= Newest
    BY <1>5, IdsGivenOut, NewestIsLast
  <1>7. Applying
    BY <1>1, ApplyingInit
  <1>8. HostTyped
    <2>1. <<>> \in Seq(Offered) /\ Len(<<>>) = 0
      OBVIOUS
    <2>2. 0 \in 0..MaxAttempts /\ 0 \in 0..MaxChanges
      BY LifecycleAssumption
    <2>3. Newest \in Nat
      BY <1>6
    <2>4. /\ plan.actions \in Seq(Offered) /\ todo \in Seq(Offered) /\ Len(todo) <= Len(plan.actions)
          /\ plan.target \in Wanted \cup {None} /\ (todo # <<>> => plan.target \in Wanted)
          /\ plan.ref \in Nat
      BY <1>1, <1>2, <2>1
    <2> QED BY <1>1, <2>2, <2>3, <2>4 DEF HostTyped
  <1>9. PlanIsInOrder /\ ActionsArePlanned /\ PlanFits /\ AttemptsAreCounted /\ QuietRoundProjects
    BY <1>1, <1>2, <1>3 DEF PlanIsInOrder, ActionsArePlanned, PlanFits, AttemptsAreCounted, QuietRoundProjects
  <1>10. WiredInOrder
    BY <1>1, <1>2, <1>4, <1>6 DEF WiredInOrder
  <1>11. WiredIsNewest
    BY <1>1, <1>2, <1>3, <1>6 DEF WiredIsNewest
  <1> QED BY <1>7, <1>8, <1>9, <1>10, <1>11 DEF LifeInv

LEMMA LifeNext ==
    ASSUME ~TickInFlight, LifeInv, [LifecycleNext]_allvars
    PROVE  LifeInv' /\ (OpenOnce /\ WiredIsNewest => WiredIsNewest')
  <1>0. Applying /\ HostTyped /\ WellFormed
    BY LifeTypes DEF LifeInv
  <1>1. ASSUME [Next]_vars, Rounds', AttemptsAreCounted', HostTyped' PROVE LifeInv'
    BY <1>0, <1>1, ApplyingNext DEF LifeInv, Rounds
  <1>2. CASE Round
    BY <1>2, RoundKeeps
  <1>3. CASE SubmitNext
    BY <1>3, SubmitKeeps
  <1>4. CASE Rewrite
    BY <1>4, RewriteKeeps
  <1>5. CASE Drift
    BY <1>5, DriftKeeps
  <1>6. ASSUME NEW op \in Ops, Attempt(op) PROVE LifeInv' /\ (WiredIsNewest => WiredIsNewest')
    <2>1. PICK r \in Runs : Begin(r, op)
      <3>1. Unbegun \subseteq Nat /\ Unbegun # {}
        BY <1>6, LifecycleAssumption DEF Attempt, Unbegun
      <3>2. FirstOf(Unbegun) \in Unbegun
        BY <3>1, LeastOfNumbers
      <3> QED BY <1>6, <3>2 DEF Attempt, Unbegun
    <2>2. /\ attempts < MaxAttempts /\ attempts' = attempts + 1
          /\ UNCHANGED <<raw, plan, todo, wired, projected, fresh, again, changes>>
      BY <1>6 DEF Attempt
    <2>3. UNCHANGED <<stripe, action, status>>
      BY <2>1 DEF Begin
    <2>4. Rounds' /\ (WiredIsNewest => WiredIsNewest')
      BY <2>2, <2>3, QuietKeeps
    <2>5. HostTyped'
      <3>1. attempts' \in 0..MaxAttempts
        BY <1>0, <2>2, LifecycleAssumption DEF HostTyped
      <3> QED BY <1>0, <2>2, <3>1 DEF HostTyped
    <2>6. Next
      BY <2>1 DEF Next
    <2> QED BY <1>1, <1>6, <2>4, <2>5, <2>6, AttemptCounts
  <1>7. ASSUME NEW op \in Ops, GiveUp(op) PROVE LifeInv' /\ (WiredIsNewest => WiredIsNewest')
    <2>1. /\ todo' = <<>> /\ again' = TRUE /\ Abandon(op)
          /\ UNCHANGED <<raw, plan, attempts, wired, projected, fresh, changes>>
      BY <1>7 DEF GiveUp
    <2>2. HostTyped'
      <3>1. <<>> \in Seq(Offered) /\ Len(<<>>) = 0 /\ Len(plan.actions) \in Nat
        BY <1>0 DEF HostTyped
      <3>2. todo' \in Seq(Offered) /\ Len(todo') <= Len(plan.actions)
        BY <2>1, <3>1
      <3> QED BY <1>0, <2>1, <3>2 DEF HostTyped
    <2>3. Next
      BY <2>1 DEF Next
    <2> QED BY <1>1, <1>7, <2>2, <2>3, GiveUpKeeps
  <1>8. ASSUME NEW r \in Runs, Work(r)
        PROVE  LifeInv' /\ (OpenOnce /\ WiredIsNewest => WiredIsNewest')
    <2>1. /\ Rounds' /\ AttemptsAreCounted' /\ wired' \in Nat /\ projected' \in Nat
          /\ OpenOnce /\ WiredIsNewest => WiredIsNewest'
      BY <1>8, WorkKeeps
    <2>2. Handle(r) /\ UNCHANGED <<raw, plan, todo, attempts, fresh, again, changes>>
      BY <1>8 DEF Work
    <2>3. HostTyped'
      BY <1>0, <2>1, <2>2 DEF HostTyped
    <2>4. Next
      BY <2>2 DEF Next
    <2> QED BY <1>1, <2>1, <2>3, <2>4
  <1>9. ASSUME NEW r \in Runs, Broker(r) PROVE LifeInv' /\ (WiredIsNewest => WiredIsNewest')
    <2>1. Next /\ UNCHANGED <<raw, plan, todo, attempts, wired, projected, changes>>
      BY <1>9 DEF Broker, Next, host
    <2>2. HostTyped'
      BY <1>0, <1>9, <2>1 DEF HostTyped, Broker, host
    <2>3. CASE Execute(r)
      BY <1>1, <1>9, <2>1, <2>2, <2>3, ExecuteKeeps
    <2>4. CASE Fail(r)
      <3>1. UNCHANGED <<stripe, action, status, stamps>> /\ Ends(r)
        BY <1>0, <2>4, EndStep DEF Fail
      <3>2. Rounds' /\ (WiredIsNewest => WiredIsNewest')
        <4>1. UNCHANGED host
          BY <1>9, <3>1 DEF Broker, Straggler
        <4> QED BY <3>1, <4>1, QuietKeeps DEF host
      <3>3. AttemptsAreCounted'
        BY <2>1, <3>1, WaitingShrinks DEF Ends
      <3> QED BY <1>1, <2>1, <2>2, <3>2, <3>3
    <2> QED BY <1>9, <2>3, <2>4 DEF Broker
  <1>10. CASE (Tick /\ UNCHANGED host) \/ UNCHANGED allvars
    <2>1. UNCHANGED <<stripe, action, status, stamps, run>> /\ UNCHANGED host /\ [Next]_vars
      BY <1>10 DEF Tick, allvars, vars, stripe, Next
    <2>2. HostTyped'
      BY <1>0, <2>1 DEF HostTyped, host
    <2>3. Rounds' /\ (WiredIsNewest => WiredIsNewest')
      BY <2>1, QuietKeeps DEF host
    <2>4. AttemptsAreCounted'
      BY <2>1, WaitingShrinks DEF host
    <2> QED BY <1>1, <2>1, <2>2, <2>3, <2>4
  <1> QED BY <1>2, <1>3, <1>4, <1>5, <1>6, <1>7, <1>8, <1>9, <1>10 DEF LifecycleNext
--------------------------------------------------------------------------------
(* The types, however long an attempt takes. *)

\* What the host keeps of Stripe's ids Stripe has given out.
Typed ==
    /\ SecretInv /\ HostTyped
    /\ \A i \in DOMAIN todo : Fitting(todo[i])
    /\ \A e \in effects : e.id \in 1..lastId
    /\ wired <= lastId /\ projected <= lastId /\ plan.ref <= lastId

LEMMA TypedInit == LifecycleInit => Typed
  <1> SUFFICES ASSUME LifecycleInit PROVE Typed
    OBVIOUS
  <1>1. LifeInv /\ SecretInv
    BY LifeInit, SecretInvInit DEF LifecycleInit
  <1>2. HostTyped /\ WiredInOrder /\ \A i \in DOMAIN todo : Fitting(todo[i])
    BY <1>1 DEF LifeInv, PlanIsInOrder
  <1>3. /\ lastId \in Nat /\ wired \in Nat /\ projected \in Nat /\ plan.ref \in Nat
        /\ projected <= wired /\ plan.ref <= wired /\ wired <= lastId
    BY <1>1, <1>2, IdsGivenOut DEF SecretInv, HostTyped, WiredInOrder
  <1>4. wired <= lastId /\ projected <= lastId /\ plan.ref <= lastId
    BY <1>3
  <1> QED BY <1>1, <1>2, <1>4 DEF Typed, WiredInOrder

\* Ids are given out one after the other, and an effect is on one of them.
LEMMA EffectsNameIds ==
    ASSUME WellFormed, \A e \in effects : e.id \in 1..lastId, NEW r \in Runs, Execute(r)
    PROVE  lastId <= lastId' /\ \A e \in effects' : e.id \in 1..lastId'
  <1>1. lastId \in Nat /\ DOMAIN endpoints \subseteq 1..lastId
    BY IdsGivenOut
  <1>2. CASE UNCHANGED stripe
    BY <1>1, <1>2 DEF stripe
  <1>3. ASSUME NEW id \in 0..(lastId + 1), Perform(r, id)
        PROVE  lastId <= lastId' /\ \A e \in effects' : e.id \in 1..lastId'
    <2>1. \A kind : Effect(r, kind, id).id = id
      BY DEF Effect
    <2>2. \/ /\ lastId' = lastId + 1 /\ id = lastId + 1
             /\ effects' = effects \cup {Effect(r, "create", id)}
          \/ /\ lastId' = lastId /\ id \in DOMAIN endpoints
             /\ effects' = effects \cup {Effect(r, "update", id)}
          \/ UNCHANGED <<lastId, effects>>
      BY <1>3 DEF Perform, stripe
    <2> QED BY <1>1, <2>1, <2>2
  <1> QED BY <1>2, <1>3, CarriedStep DEF Carried

LEMMA TypedNext ==
    ASSUME Typed, [LifecycleNext]_allvars PROVE Typed'
  <1>0. /\ SecretInv /\ HostTyped /\ WellFormed /\ lastId \in Nat
        /\ status \in [Ops -> {"new", "open", "applied", "abandoned"}]
    BY IdsGivenOut DEF Typed, SecretInv, WellFormed, TypeOK
  <1>1. ASSUME [Next]_vars PROVE SecretInv'
    BY <1>0, <1>1, SecretInvNext
  <1>2. CASE Round
    <2>1. raw \in RawInputs /\ TargetFor(raw) \in Wanted
      BY <1>0 DEF HostTyped, Wanted
    <2>2. PICK p : p = Pl!Plan(Asked).actions
      OBVIOUS
    <2>3. /\ plan' = [actions |-> p, target |-> TargetFor(raw), ref |-> wired]
          /\ todo' = ToSubmit(p) /\ again' = Mutating(p) /\ fresh' = TRUE
          /\ UNCHANGED <<vars, raw, attempts, wired, projected, changes>>
      <3>1. Pl!Target = TargetFor(raw)
        BY <2>1, InputParts DEF Pl!Target
      <3> QED BY <1>2, <2>2, <3>1 DEF Round, RoundDue, Asked
    <2>4. Submittable(p, todo')
      BY <1>0, <2>1, <2>2, <2>3, PlanToSubmit
    <2> HIDE DEF Asked
    <2>5. /\ plan'.actions = p /\ plan'.target = TargetFor(raw) /\ plan'.ref = wired
          /\ \A i \in DOMAIN todo' : Fitting(todo'[i])
          /\ again' \in BOOLEAN
      BY <2>3, <2>4 DEF Submittable, Mutating
    <2>6. HostTyped'
      <3>1. plan'.actions \in Seq(Offered) /\ todo' \in Seq(Offered) /\ Len(todo') <= Len(plan'.actions)
        BY <2>4, <2>5 DEF Submittable
      <3> QED BY <1>0, <2>1, <2>3, <2>5, <3>1 DEF HostTyped
    <2>7. SecretInv' /\ UNCHANGED <<lastId, effects>>
      BY <1>1, <2>3 DEF vars, stripe
    <2> QED BY <2>3, <2>5, <2>6, <2>7 DEF Typed
  <1>3. CASE SubmitNext
    <2>1. WellFormed' /\ HostTyped' /\ Aside /\ \A i \in DOMAIN todo' : Fitting(todo'[i])
      BY <1>0, <1>3, SubmitStays DEF Typed
    <2>2. SecretInv'
      BY <1>0, <2>1, AsideKeepsSecrets
    <2>3. UNCHANGED <<lastId, effects, plan, wired, projected>>
      BY <1>3, <2>1 DEF SubmitNext, Aside
    <2> QED BY <2>1, <2>2, <2>3 DEF Typed
  <1>4. CASE Rewrite \/ Drift
    <2>1. /\ changes < MaxChanges /\ changes' = changes + 1 /\ fresh' = FALSE /\ again' = TRUE
          /\ UNCHANGED <<now, lastId, effects, action, status, checkpoint, captures, state, run,
                         stamps, refused, faults, plan, todo, attempts, wired, projected>>
      BY <1>4 DEF Rewrite, Drift, Changed
    <2>2. WellFormed'
      <3>1. CASE Rewrite
        <4>1. UNCHANGED vars
          BY <2>1, <3>1 DEF Rewrite, vars, stripe
        <4> QED BY <1>0, <4>1, WellFormedNext
      <3>2. CASE Drift
        BY <1>0, <3>2, DriftStays
      <3> QED BY <1>4, <3>1, <3>2
    <2>3. SecretInv'
      <3>1. Aside
        BY <2>1 DEF Aside
      <3> QED BY <1>0, <2>2, <3>1, AsideKeepsSecrets
    <2>4. HostTyped'
      <3>1. changes' \in 0..MaxChanges
        BY <1>0, <2>1, LifecycleAssumption DEF HostTyped
      <3>2. raw' \in RawInputs
        BY <1>0, <1>4 DEF Rewrite, Drift, HostTyped
      <3> QED BY <1>0, <2>1, <3>1, <3>2 DEF HostTyped
    <2> QED BY <2>1, <2>3, <2>4 DEF Typed
  <1>5. ASSUME [Next]_vars, HostTyped', todo' = todo \/ todo' = <<>>, UNCHANGED <<lastId, effects, plan>>,
               wired' <= lastId, projected' <= lastId
        PROVE  Typed'
    <2>1. SecretInv' /\ \A i \in DOMAIN todo' : Fitting(todo'[i])
      BY <1>1, <1>5 DEF Typed
    <2> QED BY <1>5, <2>1 DEF Typed
  <1>6. ASSUME NEW op \in Ops, Attempt(op) PROVE Typed'
    <2>1. PICK r \in Runs : Begin(r, op)
      <3>1. Unbegun \subseteq Nat /\ Unbegun # {}
        BY <1>6, LifecycleAssumption DEF Attempt, Unbegun
      <3>2. FirstOf(Unbegun) \in Unbegun
        BY <3>1, LeastOfNumbers
      <3> QED BY <1>6, <3>2 DEF Attempt, Unbegun
    <2>2. /\ attempts < MaxAttempts /\ attempts' = attempts + 1
          /\ UNCHANGED <<raw, plan, todo, wired, projected, fresh, again, changes>>
      BY <1>6 DEF Attempt
    <2>3. HostTyped'
      <3>1. attempts' \in 0..MaxAttempts
        BY <1>0, <2>2, LifecycleAssumption DEF HostTyped
      <3> QED BY <1>0, <2>2, <3>1 DEF HostTyped
    <2>4. Next /\ UNCHANGED <<lastId, effects>>
      BY <2>1 DEF Next, Begin, stripe
    <2> QED BY <1>5, <2>2, <2>3, <2>4 DEF Typed
  <1>7. ASSUME NEW op \in Ops, GiveUp(op) PROVE Typed'
    <2>1. /\ todo' = <<>> /\ again' = TRUE /\ Abandon(op)
          /\ UNCHANGED <<raw, plan, attempts, wired, projected, fresh, changes>>
      BY <1>7 DEF GiveUp
    <2>2. HostTyped'
      <3>1. <<>> \in Seq(Offered) /\ Len(<<>>) = 0 /\ Len(plan.actions) \in Nat
        BY <1>0 DEF HostTyped
      <3>2. todo' \in Seq(Offered) /\ Len(todo') <= Len(plan.actions)
        BY <2>1, <3>1
      <3> QED BY <1>0, <2>1, <3>2 DEF HostTyped
    <2>3. Next /\ UNCHANGED <<lastId, effects>>
      BY <2>1 DEF Next, Abandon, stripe
    <2> QED BY <1>5, <2>1, <2>2, <2>3 DEF Typed
  <1>8. ASSUME NEW r \in Runs, Work(r) PROVE Typed'
    <2>1. PICK o : o = run[r].op
      OBVIOUS
    <2>2. /\ Handle(r) /\ UNCHANGED <<raw, plan, todo, attempts, fresh, again, changes>>
          /\ wired' = IF status[o] = "open" /\ status'[o] = "applied" /\ action[o].type \in Creating
                      THEN CHOOSE ref \in state'.refs : TRUE ELSE wired
          /\ projected' = IF status[o] = "open" /\ status'[o] = "applied" /\ action[o].type = "PROJECT_OUTPUT"
                          THEN plan.ref ELSE projected
      BY <1>8, <2>1 DEF Work
    <2>3. Next /\ UNCHANGED <<lastId, effects>>
      BY <2>2 DEF Next, Handle, Refuse, RecordCheckpoint, Local, Error, Complete, Answer, stripe
    <2>4. wired' \in Nat /\ wired' <= lastId
      <3> SUFFICES ASSUME status[o] = "open", status'[o] = "applied", action[o].type \in Creating
                   PROVE  wired' \in Nat /\ wired' <= lastId
        BY <1>0, <2>2 DEF Typed, HostTyped
      <3>1. status' # status
        OBVIOUS
      <3>2. Ends(r) /\ Settled(r)
        <4>1. ~RecordCheckpoint(r)
          BY <3>1 DEF RecordCheckpoint
        <4>2. Ends(r) /\ (Silent \/ Failed(r) \/ Settled(r))
          BY <1>0, <2>2, <4>1, EndStep DEF Handle
        <4> QED BY <3>1, <4>2 DEF Silent, Failed
      <3>3. PICK e \in MintedBy(o) : e.id = CHOOSE ref \in state'.refs : TRUE
        BY <1>0, <2>1, <3>2, ReceiptNamesAMint DEF Act
      <3>4. e \in effects
        BY DEF MintedBy
      <3>5. wired' = e.id
        <4>1. wired' = CHOOSE ref \in state'.refs : TRUE
          BY <2>2
        <4> QED BY <3>3, <4>1
      <3>6. e.id \in 1..lastId
        BY <3>4 DEF Typed
      <3> QED BY <1>0, <3>5, <3>6
    <2>5. projected' \in Nat /\ projected' <= lastId
      BY <1>0, <2>2 DEF Typed, HostTyped
    <2>6. HostTyped'
      BY <1>0, <2>2, <2>4, <2>5 DEF HostTyped
    <2> QED BY <1>5, <2>2, <2>3, <2>4, <2>5, <2>6
  <1>9. ASSUME NEW r \in Runs, Broker(r) PROVE Typed'
    <2>1. Next /\ UNCHANGED <<raw, plan, todo, attempts, wired, projected, changes>>
      BY <1>9 DEF Broker, Next, host
    <2>2. HostTyped'
      BY <1>0, <1>9, <2>1 DEF HostTyped, Broker, host
    <2>3. lastId <= lastId' /\ lastId' \in Nat /\ \A e \in effects' : e.id \in 1..lastId'
      <3>1. CASE Execute(r)
        <4>1. WellFormed'
          BY <1>0, <2>1, WellFormedNext
        <4>2. lastId' \in Nat
          BY <4>1 DEF WellFormed, TypeOK
        <4> QED BY <1>0, <3>1, <4>2, EffectsNameIds DEF Typed
      <3>2. CASE Fail(r)
        BY <1>0, <3>2 DEF Fail, Typed, stripe
      <3> QED BY <1>9, <3>1, <3>2 DEF Broker
    <2>4. wired' <= lastId' /\ projected' <= lastId' /\ plan'.ref <= lastId'
      BY <1>0, <2>1, <2>3 DEF Typed, HostTyped
    <2>5. SecretInv' /\ \A i \in DOMAIN todo' : Fitting(todo'[i])
      BY <1>1, <2>1 DEF Typed
    <2> QED BY <2>2, <2>3, <2>4, <2>5 DEF Typed
  <1>10. CASE (Tick /\ UNCHANGED host) \/ UNCHANGED allvars
    <2>1. UNCHANGED <<stripe, host>> /\ [Next]_vars
      BY <1>10 DEF Tick, allvars, vars, stripe, Next
    <2>2. HostTyped'
      BY <1>0, <2>1 DEF HostTyped, host
    <2>3. UNCHANGED <<lastId, effects, plan, todo, wired, projected>>
      BY <2>1 DEF stripe, host
    <2> QED BY <1>5, <2>1, <2>2, <2>3 DEF Typed
  <1> QED BY <1>2, <1>3, <1>4, <1>6, <1>7, <1>8, <1>9, <1>10 DEF LifecycleNext

\* Every variable has its type, and what the host refers to Stripe has given out.
THEOREM LifecycleTypeCorrect == LifecycleSpec => []LifecycleTypeOK
  <1>1. Typed => LifecycleTypeOK
    <2> SUFFICES ASSUME Typed PROVE LifecycleTypeOK
      OBVIOUS
    <2>1. TypeOK /\ HostTyped /\ lastId \in Nat
      BY DEF Typed, SecretInv, WellFormed, TypeOK
    <2>2. plan.target \in Desired \cup {None}
      <3>1. Wanted \subseteq Desired
        BY InputParts, ApplyAssumption DEF Wanted
      <3> QED BY <2>1, <3>1 DEF HostTyped
    <2>3. wired \in 0..lastId /\ projected \in 0..lastId /\ plan.ref \in 0..lastId
      BY <2>1 DEF HostTyped, Typed
    <2> QED BY <2>1, <2>2, <2>3 DEF LifecycleTypeOK, HostTyped
  <1>2. Typed /\ [LifecycleNext]_allvars => Typed'
    BY TypedNext
  <1> QED BY <1>1, <1>2, TypedInit, PTL DEF LifecycleSpec
--------------------------------------------------------------------------------
(* What follows. *)

LEMMA LifeHolds == ASSUME ~TickInFlight PROVE LifecycleSpec => []LifeInv
  <1>1. LifecycleInit => LifeInv
    BY LifeInit
  <1>2. LifeInv /\ [LifecycleNext]_allvars => LifeInv'
    BY LifeNext
  <1> QED BY <1>1, <1>2, PTL DEF LifecycleSpec

LEMMA NewestNext ==
    ASSUME ~TickInFlight, LifeInv, OpenOnce, WiredIsNewest, [LifecycleNext]_allvars
    PROVE  WiredIsNewest'
  BY LifeNext

\* The request of an operation that was given up changes the account.
Late(r) ==
    /\ Straggler(r) /\ Forgotten(run[r].op)
    /\ Creates(run[r].op, Act(r)) \/ Overwrites(Act(r))

\* What a step does to the account, but for the strangers.
LEMMA AccountStep ==
    ASSUME LifeInv, [LifecycleNext]_allvars
    PROVE  \/ UNCHANGED stripe
           \/ UNCHANGED <<lastId, effects>> /\ changes' # changes
           \/ /\ UNCHANGED <<host, status, action, stamps>>
              /\ \E o \in Ops : status[o] = "open" /\ (Creates(o, action[o]) \/ Overwrites(action[o]))
           \/ \E r \in Runs : Late(r)
  <1>1. CASE Round \/ SubmitNext
    BY <1>1 DEF Round, SubmitNext, SubmitAction, vars
  <1>2. CASE Rewrite \/ Drift
    <2>1. changes \in Nat /\ UNCHANGED <<lastId, effects>> /\ changes' = changes + 1
      BY <1>2, LifeTypes, LifecycleAssumption DEF Rewrite, Drift, Changed, HostTyped
    <2> QED BY <2>1
  <1>3. ASSUME NEW op \in Ops, Attempt(op) \/ GiveUp(op) PROVE UNCHANGED stripe
    BY <1>3 DEF Attempt, GiveUp, Begin, Abandon
  <1>4. ASSUME NEW r \in Runs, Work(r) PROVE UNCHANGED stripe
    BY <1>4 DEF Work, Handle, Refuse, RecordCheckpoint, Local, Error, Complete, Answer
  <1>5. ASSUME NEW r \in Runs, Broker(r)
        PROVE  \/ UNCHANGED stripe
               \/ /\ UNCHANGED <<host, status, action, stamps>>
                  /\ \E o \in Ops : status[o] = "open" /\ (Creates(o, action[o]) \/ Overwrites(action[o]))
               \/ Late(r)
    <2>1. CASE Fail(r)
      BY <2>1 DEF Fail
    <2>2. CASE Execute(r) /\ stripe' # stripe
      <3>1. PICK o : o = run[r].op
        OBVIOUS
      <3>2. PICK a : a = Act(r)
        OBVIOUS
      <3>3. /\ o \in Ops /\ action[o] = a /\ status[o] \in {"open", "abandoned"} /\ Forgotten(o)
            /\ Creates(o, a) \/ Overwrites(a)
        BY <2>2, <3>1, <3>2, ExecuteWrites
      <3>4. UNCHANGED <<status, action, stamps>> /\ run[r].pc = "send" /\ run'[r].pc = "answered"
        BY <2>2, LifeTypes, ExecuteStep
      <3>5. CASE status[o] = "open"
        BY <1>5, <3>1, <3>3, <3>4, <3>5 DEF Broker, Straggler
      <3>6. CASE status[o] = "abandoned"
        BY <2>2, <3>1, <3>2, <3>3, <3>4, <3>6 DEF Straggler, Late
      <3> QED BY <3>3, <3>5, <3>6
    <2> QED BY <1>5, <2>1, <2>2 DEF Broker
  <1>6. CASE (Tick /\ UNCHANGED host) \/ UNCHANGED allvars
    BY <1>6 DEF Tick, allvars, vars
  <1> QED BY <1>1, <1>2, <1>3, <1>4, <1>5, <1>6 DEF LifecycleNext

\* An endpoint that somebody has taken from the binding is not written again once a
\* round has seen it so, by a late attempt of an update either, but by an update that was
\* given up on a timeout and that Stripe does not remember to have carried out (apply.go
\* applyUpdate, idempotencyKey).
THEOREM NothingIsAdoptedLate == ASSUME ~TickInFlight PROVE LifecycleSpec => NoLateAdoption
  <1> DEFINE Untouched(i) == i \in DOMAIN endpoints' /\ endpoints'[i] = endpoints[i]
             ByStraggler(i) ==
                 \E r \in Runs : /\ Straggler(r) /\ Act(r).type = "UPDATE" /\ Act(r).remote = i
                                 /\ \A e \in effects : e.op = run[r].op => now - e.at > Window
  <1>1. LifeInv /\ [LifecycleNext]_allvars =>
          [\A i \in DOMAIN endpoints \ OwnedIds :
             fresh /\ UNCHANGED changes =>
                \/ i \in DOMAIN endpoints' /\ endpoints'[i] = endpoints[i]
                \/ \E r \in Runs : /\ Straggler(r) /\ Act(r).type = "UPDATE" /\ Act(r).remote = i
                                  /\ \A e \in effects :
                                         e.op = run[r].op => now - e.at > Window]_allvars
    <2> SUFFICES ASSUME LifeInv, [LifecycleNext]_allvars,
                        NEW i \in DOMAIN endpoints \ OwnedIds, fresh, UNCHANGED changes
                 PROVE  Untouched(i) \/ ByStraggler(i)
      OBVIOUS
    <2>1. CASE UNCHANGED stripe
      BY <2>1 DEF stripe
    <2>0. ASSUME NEW o, NEW a, Creates(o, a) PROVE Untouched(i)
      <3>1. i # lastId + 1
        BY LifeTypes, IdsGivenOut
      <3> QED BY <2>0, <3>1 DEF Creates
    <2>2. ASSUME NEW a, Overwrites(a), i # a.remote PROVE Untouched(i)
      BY <2>2 DEF Overwrites
    <2>3. ASSUME NEW o \in Ops, status[o] = "open", Overwrites(action[o]) PROVE Untouched(i)
      <3>1. i # action[o].remote
        BY <2>3, LifeTypes DEF Rounds, PlanFits, Overwrites
      <3> QED BY <2>2, <2>3, <3>1
    <2>4. ASSUME NEW r \in Runs, Late(r) PROVE Untouched(i) \/ ByStraggler(i)
      <3>1. CASE Creates(run[r].op, Act(r)) \/ i # Act(r).remote
        BY <2>0, <2>2, <2>4, <3>1 DEF Late
      <3>2. CASE Overwrites(Act(r)) /\ i = Act(r).remote
        BY <2>4, <3>2 DEF Late, Forgotten, Overwrites
      <3> QED BY <2>4, <3>1, <3>2 DEF Late
    <2> QED BY <2>1, <2>0, <2>3, <2>4, AccountStep
  <1> QED BY <1>1, LifeHolds, PTL DEF LifecycleSpec, NoLateAdoption

\* A duplicate stays on record.
LEMMA DuplicateStays ==
    ASSUME LifeInv, [LifecycleNext]_allvars, NoDuplicateEndpoint' PROVE NoDuplicateEndpoint
  <1>1. effects \subseteq effects'
    BY AccountStep DEF stripe, Creates, Overwrites, Late
  <1>2. \A op \in Ops : MintedBy(op) \subseteq MintedBy(op)'
    BY <1>1 DEF MintedBy
  <1> QED BY <1>2 DEF NoDuplicateEndpoint

\* A create that is the first of its operation creates what the round found missing.
LEMMA FirstCreateIsMissing ==
    ASSUME LifeInv, OpenOnce', [LifecycleNext]_allvars, lastId' # lastId, fresh
    PROVE  Newest = 0 \/ endpoints[Newest].api # plan.target.api \/ \E r \in Runs : Straggler(r)
  <1> SUFFICES ASSUME ~ \E r \in Runs : Straggler(r)
               PROVE  Newest = 0 \/ endpoints[Newest].api # plan.target.api
    OBVIOUS
  <1>1. PICK o \in Ops : status[o] = "open" /\ Creates(o, action[o]) /\ UNCHANGED <<host, status, action, stamps>>
    BY AccountStep DEF stripe, Overwrites, Late
  <1>2. PICK e : effects' = effects \cup {e} /\ e.kind = "create" /\ e.op = o /\ e.id = lastId + 1
    BY <1>1 DEF Creates
  <1>3. MintedBy(o) = {}
    <2>1. \A m \in effects : m.id \in 1..lastId
      BY LifeTypes DEF Rounds, WiredInOrder
    <2>2. \A m, f \in MintedBy(o)' : m = f
      BY <1>1 DEF OpenOnce
    <2>3. e \in MintedBy(o)' /\ MintedBy(o) \subseteq MintedBy(o)' /\ MintedBy(o) \subseteq effects
      BY <1>2 DEF MintedBy
    <2>4. lastId \in Nat
      BY LifeTypes, IdsGivenOut
    <2> QED BY <1>2, <2>1, <2>2, <2>3, <2>4
  <1>4. Lacking
    BY <1>1, <1>3, LifeTypes DEF Rounds, PlanFits, Creates
  <1> QED BY <1>4 DEF Lacking

\* When the host rests and the secret wired is the newest endpoint's, so is billing's.
LEMMA WiredIsBilled ==
    ASSUME LifeInv, WiredIsNewest PROVE BillingFollowsEndpoint
  <1> SUFFICES ASSUME AtRest, ~GivenUp, plan.actions # <<>>, ~Blocked,
                      raw.mode = "public", raw.publishable, wired \in OwnedIds \cup {0}
               PROVE  projected = Newest
    BY DEF BillingFollowsEndpoint
  <1>1. /\ WellFormed /\ lastId \in Nat /\ OwnedIds \subseteq 1..lastId
        /\ wired \in Nat /\ projected \in Nat /\ projected <= wired
    BY LifeTypes, IdsGivenOut DEF HostTyped, Rounds, WiredInOrder
  <1>2. \A i \in OwnedIds : i <= wired
    BY DEF AtRest, NoneOpen, WiredIsNewest
  <1>3. CASE wired = 0
    <2>1. OwnedIds = {}
      BY <1>1, <1>2, <1>3
    <2> QED BY <1>1, <1>3, <2>1, NewestIsLast
  <1>4. CASE wired # 0
    <2>1. ~Pending
      BY DEF AtRest, NoneOpen, Pending
    <2>2. Billable
      BY <1>4 DEF Billable
    <2>3. projected = wired
      BY <2>1, <2>2 DEF AtRest, LifeInv, QuietRoundProjects
    <2>4. wired \in OwnedIds
      BY <1>4
    <2>5. Newest \in OwnedIds /\ wired <= Newest
      BY <1>1, <2>4, NewestIsLast
    <2> QED BY <1>1, <1>2, <2>3, <2>5
  <1> QED BY <1>3, <1>4

\* Nothing is created while the binding has an endpoint of the pinned version, unless
\* somebody has changed the account since the round or an operation given up on a timeout
\* is carried out late - as long as an operation is tried twice at most: a third attempt
\* may create again what the first has created.
THEOREM CreatesWhatIsMissing ==
    ASSUME ~TickInFlight, MaxAttempts <= 2 PROVE LifecycleSpec => CreatesOnlyWhatIsMissing
  <1>1. LifeInv /\ OpenOnce' /\ [LifecycleNext]_allvars =>
          [lastId' # lastId /\ fresh =>
              \/ Newest = 0 \/ endpoints[Newest].api # plan.target.api
              \/ \E r \in Runs : Straggler(r)]_allvars
    BY FirstCreateIsMissing
  <1>2. LifeInv => OpenOnce
    BY OneMint
  <1>3. LifecycleSpec => []LifeInv
    BY LifeHolds
  <1> QED BY <1>1, <1>2, <1>3, PTL DEF LifecycleSpec, CreatesOnlyWhatIsMissing

\* When the host rests, billing refers to the secret of the binding's newest endpoint.
THEOREM BillingFollows ==
    ASSUME ~TickInFlight, MaxAttempts <= 2 PROVE LifecycleSpec => []BillingFollowsEndpoint
  <1>1. LifeInv => OpenOnce
    BY OneMint
  <1>2. LifecycleInit => LifeInv /\ WiredIsNewest
    BY LifeInit
  <1>3. LifeInv /\ OpenOnce /\ WiredIsNewest /\ [LifecycleNext]_allvars => WiredIsNewest'
    BY NewestNext
  <1>4. LifeInv /\ WiredIsNewest => BillingFollowsEndpoint
    BY WiredIsBilled
  <1>5. LifecycleSpec => []LifeInv
    BY LifeHolds
  <1> QED BY <1>1, <1>2, <1>3, <1>4, <1>5, PTL DEF LifecycleSpec

\* However often an operation is attempted: no answer that is lost, no plan that is given
\* up and no retry makes the host create what is there, but for the duplicate that the
\* third attempt of one create makes once the window of the first has closed (apply.go
\* applyCreate), and for a create that was given up on a timeout and is carried out late.
THEOREM NeedlessCreateIsADuplicate ==
    ASSUME ~TickInFlight
    PROVE  LifecycleSpec =>
             [][NoDuplicateEndpoint' =>
                  (lastId' # lastId /\ fresh =>
                     \/ Newest = 0 \/ endpoints[Newest].api # plan.target.api
                     \/ \E r \in Runs : Straggler(r))]_allvars
  <1>1. LifeInv /\ [LifecycleNext]_allvars =>
          [NoDuplicateEndpoint' =>
             (lastId' # lastId /\ fresh =>
                \/ Newest = 0 \/ endpoints[Newest].api # plan.target.api
                \/ \E r \in Runs : Straggler(r))]_allvars
    <2>1. NoDuplicateEndpoint' => OpenOnce'
      BY DEF NoDuplicateEndpoint, OpenOnce
    <2> QED BY <2>1, FirstCreateIsMissing
  <1> QED BY <1>1, LifeHolds, PTL DEF LifecycleSpec

\* However often an operation is attempted: billing is left with another secret than the
\* newest endpoint's only when an operation has created two endpoints.
THEOREM StaleBillingNeedsADuplicate ==
    ASSUME ~TickInFlight
    PROVE  LifecycleSpec => [](NoDuplicateEndpoint => BillingFollowsEndpoint)
  <1>1. LifecycleInit => LifeInv /\ (NoDuplicateEndpoint => WiredIsNewest)
    BY LifeInit
  <1>2. /\ LifeInv /\ (NoDuplicateEndpoint => WiredIsNewest)
        /\ [LifecycleNext]_allvars
        => (NoDuplicateEndpoint => WiredIsNewest)'
    <2> SUFFICES ASSUME LifeInv, NoDuplicateEndpoint => WiredIsNewest, [LifecycleNext]_allvars,
                        NoDuplicateEndpoint'
                 PROVE  WiredIsNewest'
      OBVIOUS
    <2>1. NoDuplicateEndpoint
      BY DuplicateStays
    <2>2. OpenOnce
      BY <2>1 DEF NoDuplicateEndpoint, OpenOnce
    <2> QED BY <2>1, <2>2, NewestNext
  <1>3. LifeInv /\ (NoDuplicateEndpoint => WiredIsNewest) => (NoDuplicateEndpoint => BillingFollowsEndpoint)
    BY WiredIsBilled
  <1> QED BY <1>1, <1>2, <1>3, LifeHolds, PTL DEF LifecycleSpec
================================================================================
