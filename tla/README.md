# Verification of the Stripe provider

TLA+ models, model-checking runs and machine-checked proofs for the Codefly
Stripe provider (`src/internal/provider`, `src/main.go`, `src/cmd/package`). The
provider answers a host over gRPC: the host asks it to observe the Stripe account
of a billing binding, to plan the actions that bring one webhook endpoint to its
desired shape, and to apply those actions one at a time. The provider never talks
to Stripe itself; every request is a callback to the host, which checkpoints,
sends, filters and captures.

Line numbers below are those of `src/internal/provider/` unless a path is given.

## Inventory

| Component | Source | State | Operations | What makes it correct | Module |
|---|---|---|---|---|---|
| ApplyAction handler | `apply.go`, `exec.go` | none of its own; the checkpoint, the captures and the binding's state live with the host, idempotency records with Stripe | CREATE, REPLACE, UPDATE, DELETE, IMPORT, PROJECT_OUTPUT, NO_OP/BLOCKED/MANUAL, each: guard, checkpoint, send, classify, resolve the secret, build and validate the state | no duplicate endpoint over retries; a refusal is final; the state describes Stripe; the secret belongs to the endpoint; nothing foreign is touched; nothing is let go of that still exists; every operation ends | `ApplyAction` |
| Planner | `plan.go` | none (pure) | Plan | one round converges; never adopts or touches another's endpoint; projects only what is served | `Planner` |
| Lifecycle of a binding | `plan.go`, `apply.go`, `observe.go` together | the host's: inputs, plan, operations, wired secret, billing projection | rounds of observe, plan, apply | nothing created that is there; billing follows the endpoint in use; the rounds end | `Lifecycle` |
| Inputs and validation | `inputs.go`, `validate.go`, `diagnostics.go` | none | parse, normalise, Validate | refused inputs plan nothing; what was asked for compares equal to what Stripe holds | `Planner`, `Projection` |
| Ownership and drift | `webhook.go` | none | desired shape, ownership, conflicts, drift | ownership comes from metadata alone, never from the URL | `Webhook` |
| Observe handler | `observe.go` | cursor, page, resources of one call | account, list pages, retrieve by id | complete, without duplicates, of one mode; terminates | `Observe` |
| Response projection | `project.go` | none | selector paths to fields, lists and the cursor | order and indices survive a map without order | `Projection`, `Webhook` |
| Doctor handler | `doctor.go`, `exec.go`, `errors.go` | diagnostics of one call | account, first page of endpoints | what it reports was so; healthy means that everything was read | `Doctor` |
| Host adapter | `host.go` | none | origins, credential handles, request descriptors, response policies | every request is what the manifest says of it | `Artifact` |
| Server, catalog, manifest | `server.go`, `catalog.go`, `src/provider.codefly.yaml` | built once | NewServer, GetProviderInformation | the identity matches the embedded manifest | `Artifact` |
| Entry, packaging | `src/main.go`, `src/cmd/package/main.go` | the layout on disk | package, start | an artifact that mixes two versions never serves | `Artifact` |
| State upgrade | `upgrade.go` | none | a refusal | - | left out |

How they interact: `Observe` produces a material observation that `Plan` reads
through `observedWebhooks`; the host submits the actions of a plan to
`ApplyAction` one by one with the binding's state and the latest checkpoint of the
operation; `ApplyAction` returns a receipt and the next state, which the host
persists. A failed or timed-out call is made again with a new attempt of the same
operation, so two attempts of one operation may overlap. A create's receipt gives
the host the reference of the captured signing secret, which the next plan's
billing projection refers to.

What is hard: the code of one call is sequential, but it stops at every callback
(`RecordCheckpoint`, `ExecuteRequest`, `ResolveCapture`, `ProposeOutput`) and may
never resume; the answer to a create may be lost; Stripe forgets idempotency keys
after 24 hours; a retry re-stamps the checkpoint its own guard will read next time;
the state passed from action to action decides which secret a binding uses; the
account changes between two pages of a list, between the two requests of Doctor,
and between a plan and its actions; a plan that replaces an endpoint still projects
the secret of the old one. `PROJECT.json` lists each of these hazards at its line.

## Modules

- **`Webhook`** - the data and the pure functions the others share: desired and
  stored endpoint, `NormalizeURL`, `DesiredFrom`, `WebhookAt`, `OwnedBy`,
  `UnmanagedAtURL`, `ClassifyDrift`, the create and update bodies. A binding
  address is one value (the code only compares the three ids together), an event
  list is a set (it is sorted and de-duplicated), a URL is a site and whether a
  slash trails it.
- **`ApplyAction`** - one binding, any number of operations and attempts. Each
  attempt ("run") is a record with a program counter: `Begin` is the gRPC call,
  `RecordCheckpoint` is `checkpointBeforeSend`, `Receive`/`Decline`/`Lose`/
  `NotSend` are the outcomes of `ExecuteRequest` together with what Stripe did,
  `Complete` is everything after it (`diagnoseResponse`, `resolveSigningSecret`,
  the state, `finalize`). `Refuse` is `refuseUnknownCreate`, `Local` the actions
  that send nothing, `Error` a handler that returns an error, `Fail` a call that
  dies at any point (crash, cancelled call, failed callback, a checkpoint or
  projection that is not durable). `Submit` and `Abandon` are the host's; `Tick`
  is time. `stamps`, `refused`, and the time at which an attempt began (`since` of a run,
  `began` of an effect), are history.
- **`Provision`** - what the operations promise, without runs, checkpoints or captures:
  only an operation that is to create an endpoint mints one, at most one per idempotency
  window, and the binding changes only with the operation that is applied: it binds an
  endpoint and a secret of its own, or what it was asked to bind (an update keeps the
  secrets, an import drops them, a teardown and a projection let go of both, anything
  else leaves the binding alone or, where nothing is bound, names what it was given).
  **`ApplyProvision`** is the refinement mapping from `ApplyAction`.
- **`Planner`** - `Plan` with parsing and validation as operators, and a machine
  that asks for a plan, carries it out, lets the operator change the inputs and
  strangers edit or delete endpoints, and asks again.
- **`Lifecycle`** - `ApplyAction` extended by the host's rounds, with `Planner`
  instantiated over Stripe's endpoints: `Round` observes and plans, `SubmitNext`
  submits the next action as planned, `Attempt` and `GiveUp` bound the retries,
  `Work` is a handler's step with which the host may take a receipt, `Broker` the
  outcome of a request, `Straggler` the request of an operation the host has given up
  and that is carried out after all, `Rewrite` and
  `Drift` change inputs and account at any moment. `Account` is the list a round reads:
  its places count the ids from the last one given out, newest first.
- **`StripeList`** - one page of a list of endpoints: newest first, after a cursor.
  `Observe` and `Doctor` share it.
- **`Observe`** - the paging loop with the account changing between two requests,
  then the retrieval of the endpoint that existing mode names.
- **`Doctor`** - both requests under every response, with the error classes, while
  others create, delete and edit endpoints.
- **`Projection`** - the one place where strings and lists are spelled out: a URL
  is a sequence of characters (`"a"` for all that `normalizeURL` does not look at, spaces
  and slashes), an event list a sequence with repetitions, a
  response a map from selector paths with digits. `normalizeURL`,
  `normalizeEvents`, `eventsEqual`, `listIndex`, `dataIndices` and `collectList`
  are checked end to end.
- **`Artifact`** - the working tree, the build, the packager's three writes, the
  host's installation, and the process that starts, is admitted and sends requests.
- **`MCApply`, `MCPlanner`, `MCLifecycle`, `MCArtifact`** - values of the constants
  for model checking.
- **`ApplyActionProofs`, `ApplySequenceProofs` (which also proves the refinement of
  `Provision`), `PlannerProofs`, `LifecycleProofs`, `ObserveProofs`, `DoctorProofs`,
  `ArtifactProofs`, `ProjectionProofs`** - the theorems.

Operators whose comment begins with "Mutant" are wrong versions of a definition.
They are used nowhere; each shows that a property fails when the code has that bug
(`PROJECT.json`, "mutants").

### External parts

Stripe and the host are modelled from what the provider relies on and from the
test double `fakehost_test.go`. Stripe: endpoints with increasing ids, listed
newest first; a POST with a recorded key is answered again instead of being carried
out, for `Window` after it was first carried out; a deleted or unknown endpoint is
a 404; a create answers with the secret (an answer without one is a fault). The
host: keeps the latest checkpoint per operation, marks its delivery in the same
step as the send, remembers one captured secret per operation, keeps the state of
the first successful answer of an operation and ignores later ones, and opens one
operation at a time. It may time out on an attempt that still runs (a fault), and then
retry or give the operation up (`TimesOut`, in `Begin` and `Abandon`); the attempt runs on,
and its request may still be carried out. What it submits names what a plan of the
account as it is would: a create where the binding owns nothing, otherwise the newest
endpoint it owns (`ownedBy` takes the first listed, `webhook.go:97`); a teardown, which
no plan emits, and an import may name any. The host's `ValidateVersioned` is reduced to what the provider
relies on: an owned or adopted state names an endpoint and an account. In
`Lifecycle` it submits nothing of a plan that is blocked, drops a plan whose action it
gives up, observes again when a request of a given-up operation turns out to have been
carried out since (as after a change by somebody else), and wires the capture of the last receipt that has one. In `Artifact` it verifies that a
layout's descriptor is of its binary and manifest, and holds a process against the
manifest that was installed when it admitted the process.

## Runs

| Run | Question | Bounds | Result |
|---|---|---|---|
| `apply_retry` | Is a refusal ever undone; does every operation end? | 1 REPLACE or UPDATE, 4 attempts, window 1, clock 3 that stands still during an attempt, 2 faults, account attested or not, fairness | holds |
| `apply_provision` | When can a retry of CREATE or REPLACE duplicate the endpoint, and do they implement `Provision`, when an attempt may stall between any two steps? | 2 operations, 3 attempts, window 1, clock 2 running freely, 2 faults | holds |
| `apply_sequence` | Over sequences of actions of every type: does the state describe Stripe, do secrets stay with their endpoints, is a stranger's endpoint left alone, is anything let go of too early, does every type bind what `Provision` allows? | 3 operations, 4 attempts, 1 fault, a stranger's endpoint | holds |
| `planner_loop` | Convergence, ownership, conflicts, projection, over rounds with one change | accounts of 0-2 endpoints of 5 shapes, 21 inputs | holds |
| `lifecycle` | Do the rounds of observe, plan and apply converge, without a needless create, a late adoption or a stale billing secret? | 13 operations, 15 attempts, 2 per operation, 1 fault (a timeout with the attempt running on among them), 1 change, a window that closes after one tick, 4 inputs, a stranger's and an own endpoint, fairness | holds |
| `observe_pages` | Complete, no duplicate, one mode, terminates | 5-6 endpoints, 2 per page, 2 pages, fairness | holds |
| `doctor_page` | What are a report of presence, of absence and of health worth? | 3-4 endpoints, 2 per page, 2 changes, every response | holds |
| `projection_path` | Does what was asked for survive parsing, Stripe's order, selector paths and normalising again? | 4 characters or events, pages of 5, indices of three binary digits | holds |
| `artifact_release` | Is every request the one the admitted manifest describes? | 1 edit, 2 processes, manifests that differ in version, requests and schemas | holds |
| `apply_duplicate` | "no duplicate" as the comment says | 3 attempts of one create | violated |
| `apply_output_then_update` | "must survive the update untouched" | 3 operations | violated |
| `apply_lost_replace` | the same, when a create or replace that was given up is carried out | 3 operations, 1 fault | violated |

`CHECK_DEADLOCK FALSE` is set everywhere: attempts, faults, changes and the clock
are bounded, and a host that has nothing to do may stop.

Why the bounds are enough. In `apply_provision` a window of one tick and a clock of two
let a first create fall at 0 and an attempt begin, pass its guard or send on either side
of the edge; three attempts and two faults contain the duplicate of two sends (an attempt
that passes the guard at the edge and sends behind it) and that of three (one that
creates, one that overwrites the checkpoint, one that re-sends). Four attempts in
`apply_retry` leave one more after a refusal, and a clock of three lets the window close
between any two of them. Sequences of
three operations contain create-project-update, import-update-delete and a teardown
retried after an import, and the fourth attempt makes one of them overlap. The
planner needs two endpoints for "newest owned" and "owned beside a stranger", and
two rounds for convergence. `Lifecycle` may need three rounds (one that is given up,
one that repairs, one that projects) and one more after a change; a request carried out
after its operation was given up makes one more. Thirteen operations
and fifteen attempts are never used up (TLC needs twelve and fourteen): `Converges`
would be violated by a host that waits for an operation it does not have. Five endpoints at two per page make a last
page of one, an exactly full page after a deletion, and with the sixth a page the
loop does not read; three and four are one more than a page for Doctor, before and
after a creation. In base 2 a page of five has indices of one, two and three digits; in base
ten that takes a page of 101.

### What the properties say

- `DuplicateNeedsTwoRetries`: what the key leaves open, the guard of `applyCreate` closes
  for every attempt that *began* after the window of an endpoint its operation created:
  such an attempt creates another only as the third send at least, after a retry has
  overwritten the checkpoint (finding 1). It is checked and proved with a clock that goes
  on between any two steps of an attempt. It says nothing of an attempt that began within
  the window: that one may pass the guard in time and send too late, and a single retry
  then duplicates (see "Met while modelling").
- `MintsAreAWindowApart`: whatever happens, two endpoints of one operation are
  created more than the idempotency window apart.
- `RefusalIsFinal`: after `refuseUnknownCreate`, no attempt creates and the
  checkpoint that justified the refusal stays, as long as no attempt runs on from one tick
  of the clock to the next (`TickInFlight = FALSE`, in the run and in the theorem): of two
  attempts that overlap at the edge of the window one may be refused and the other have
  passed the guard before.
- `OperationsSettle`: a lost or refused request does not leave an operation open
  for ever, where the host attests an account. Where it attests none, `finalize`
  rejects every owning state (`apply.go:384`) and the operation stays open; the run
  contains such operations and the property leaves them out.
- `ImplementsProvision`: see `Provision`; it covers the state and secret of every
  step, those of answers to operations that are no longer open included. Two runs check
  it: one with creates and a running clock, one with every type.
- `StateDescribesEndpoint`: between operations, an owned or adopted state names a
  live endpoint with exactly the recorded fields, although late attempts of earlier
  operations may still reach Stripe. Operations that were given up are excluded: their
  requests may be carried out later still, and the host observes again before it relies
  on the state.
- `SecretStraysOnlyByUpdate`: only an update, which copies references, can leave an
  owning state with another endpoint's secret (finding 3), and it is the update of the
  endpoint the state names; nothing else mixes up two endpoints' secrets, as long as no
  operation created two.
- `ForeignUntouched`: an endpoint without this binding's metadata is never changed,
  and deleted only after an import made it the one the state names.
- `LetGoOnlyWhenGone`: a lost, declined, unsent or repeated teardown leaves the
  binding its owner; only a 2xx answer to a DELETE, after which the endpoint is gone,
  or a projection lets go.
- `ConvergesInOneRound`, `OthersUntouched`, `CreatesOnlyWhereVacant`,
  `ProjectsOnlyAServedURL`: one plan repairs any drift; it changes only what carries
  the binding's metadata; it creates only where nothing serves the URL; billing is
  projected only from a plan that leaves an enabled endpoint of the binding there.
- `CreatesOnlyWhatIsMissing`: from an observation to the create it leads to, over
  lost answers, retries and plans given up, nothing is created while the binding's
  newest endpoint has the pinned API version. The exception is a create that is carried
  out after the host has timed out on it and given its operation up: the handler cannot
  know, and the next round finds the endpoint.
- `NoLateAdoption`: an endpoint that a round has seen to be somebody else's is not
  written by an attempt the host has timed out on: when its operation was retried and
  answered, Stripe's record answers the late attempt too, and so it does when the operation
  was given up but an attempt of it was carried out before. The one exception is the update
  of a given-up operation that Stripe does not remember (see "Met while modelling"): that
  one does adopt the endpoint.
- `BillingFollowsEndpoint`: the plan that creates or replaces an endpoint projects
  the secret wired before it; at rest, `billing@1` nevertheless refers to the secret
  of the endpoint in use, because another round follows every mutation. Left out: a
  plan that was given up, refused inputs (nothing is planned), and a binding whose wired
  endpoint was taken away (it then goes on with an older endpoint whose secret the host
  had replaced, and no plan says so).
- `Converges`: once changes and faults end, the rounds end, with the desired
  endpoint in place and projected, or blocked by a stranger's.
- `ObservationIsComplete`, `NothingObservedTwice`, `NoForeignMode`, `ObserveEnds`.
- `AbsentWithinAPage`: with at most a page of endpoints, what Doctor reports absent
  was not there all along; `PresentWasOurs`: what it does not report absent was
  this binding's at some time; `HealthyReadEverything`: no refused, unsent or lost
  request hides behind a healthy report.
- `EventsSurvive`, `URLSurvives`, `CursorIsLast`: reordering, repetition, whitespace
  and slashes never read as drift (a URL left with a space at its end aside), and
  the next page starts after the last element, the tenth and later ones too.
- `RequestsMatchTheHost`: a process whose binary and descriptor come from different
  versions, or whose response schemas the host does not know, sends nothing.

### Fairness

`ApplyAction`'s `Fairness` is weak fairness of the handler's own steps and of the
broker's answer (a goroutine that is not stopped runs on, and `ExecuteRequest`
returns), and of the host's retry of an open operation. It is not assumed that the
host submits or gives up anything, nor that a fault ever happens or time passes;
faults are bounded, which stands for "they end". `Lifecycle` assumes the same of
handlers and broker, and of the host that it goes on with its rounds, submits what
is left of a plan, retries an open operation and gives it up when the last of
`MaxAttempts` is over: two weak fairness formulas for the host (its rounds, and what
follows from a plan), one for handlers and broker, whose steps do not depend on it. That of
`Round` is written with the condition under which it is enabled (`RoundDue`), which TLC
evaluates far faster than ENABLED of a whole plan. Changes, faults,
timeouts, earlier giving up and time are not assumed. All of it
is weak: no step competes with another for its turn for ever. `Observe` assumes weak
fairness of its own steps only.

## Findings

1. **A second retry may duplicate the endpoint** (`apply_duplicate`). Attempt 1
   creates and its answer is lost; attempt 2, within the window, records its own
   NOT_SENT checkpoint (`apply.go:326-333`) and dies before it sends; after the
   window attempt 3 reads NOT_SENT, is not refused, and creates again.
2. **PROJECT_OUTPUT drops ownership and the secret reference** (`apply.go:261`), so
   the update after it has none to carry over (`apply_output_then_update`).
3. **UPDATE carries another endpoint's secret reference** (`apply.go:157`) when the
   state was not that of the endpoint it updates (`apply_lost_replace`): a create or
   replace that the host gave up (it timed out on it, or its answer was lost) is carried
   out all the same and leaves a newer endpoint than the one the state names; the update
   planned from the next observation names the newest and keeps the other's reference.

Met while modelling, and not kept as runs because one step of the code shows them, because
nothing in the repository says otherwise, or, for the first two, because a property that
holds already states them as its exception:

- **One retry duplicates at the edge of the window.** An attempt creates and its answer is
  lost; the retry finds `Window` not yet over at `apply.go:79`, stamps its checkpoint, and
  its request (`apply.go:90`, two callbacks later) reaches Stripe after the key was
  dropped. That is two endpoints with two sends, although `apply.go:75-78` says of such a
  re-send "Refuse instead". `DuplicateNeedsTwoRetries` holds because the retry began within
  the window; with `e # f` for its premise TLC finds two endpoints after two sends within ten states
  of `apply_provision`.
- **A late update adopts a stranger's endpoint.** The host times out on an UPDATE and gives
  it up; somebody takes the endpoint's metadata away and a round sees it so; then the
  request is carried out and writes the metadata back. `webhook.go:108-110` says of an
  endpoint that is not owned "They must never be auto-adopted; the operator must import by
  exact ID", and nothing at `apply.go:136-146` keeps the request from doing so: an UPDATE
  has no guard on the endpoint's owner, and Stripe no record of its key.
- A create that is carried out after the host has timed out on it and given its operation
  up stands beside whatever the next plan has created meanwhile (`apply.go:90`).
- An import is planned again in every round (`plan.go:114`): importing stamps no
  metadata and observation never reports ADOPTED.
- Production mode only warns (`validate.go:80`): the plan mutates; the refusal is
  left to a host that honours the advertised readiness (`server.go:90-95`).
- A DELETE whose success was lost gets 404 on every retry, and the state keeps owning
  the endpoint (`apply.go:190`).
- A DELETE of an endpoint lets go of whatever the state names, also when that is the
  endpoint that replaced it (`apply.go:198`): create, replace, delete the old one.
- After a REPLACE whose answer was lost and that was given up, the next rounds find the
  new endpoint owned, and billing keeps the secret reference of the old one
  (`plan.go:143`), which the host still wires.
- Doctor reads the first page only (`doctor.go:97`): with more endpoints than that it
  may report one absent that is there. `AbsentWithinAPage` has that premise for this
  reason.
- `normalizeURL` trims whitespace, then slashes (`inputs.go:79`), so `"x /"` becomes
  `"x "`, and normalising that again gives `"x"`: desired and observed URL then differ
  for ever. `URLSurvives` has that premise for this reason.
- The top-level README names `DELETE` among the planned actions, which `Plan` never
  emits.
- Existing mode without a `callback_url` that owns an endpoint plans an UPDATE with an
  empty URL.

## Proofs

The theorems hold for every value of the constants under the assumption that the
component's module names (`BindingAssumption`, `ApplyAssumption`, `PlannerAssumption`,
`LifecycleAssumption`, `ObserveAssumption`, `DoctorAssumption`, `ArtifactAssumption`,
`ProjectionAssumption`: types of the constants, no sizes) and the hypotheses stated in each. TLC evaluates every assumption on every run.

`ApplyActionProofs`:

- `TypeCorrect`: `Spec => []TypeOK`. `TypeOK` is not inductive: the state that
  `Complete` builds from an import needs the body the run read, and an update the
  target its action carries. `WellFormed` adds `RunsAreTyped`: a run in flight works
  for a submitted operation, an action of a creating or updating type has a target,
  and a successful import has a body. One lemma per operator that builds a state, one
  per group of actions.
- `MintsApart`: `Spec => []MintsAreAWindowApart`, with no assumption on how long an
  attempt takes. Needs `EffectsAreKeyed` (every effect carries its operation's key
  and a time not in the future): a create is carried out only when no effect of that
  key is within the window.
- `DuplicateTakesTwoRetries`: `Spec => []DuplicateNeedsTwoRetries`, with no assumption on
  how long an attempt takes. `Dated` adds that no time lies in the future (`TimesArePast`),
  that after one stamp the checkpoint is that of the endpoint and says it may have been
  created (`StampsAreKept`), and that an attempt which began after the window of an
  endpoint has read so, unless a second stamp has overwritten it, and then sends as the
  third (`LateAttemptsKnow`).
- `RefusalFinal` assumes `~TickInFlight`: no attempt runs on from one tick of the clock to
  the next. That is more than "an attempt is short against 24 hours": it also excludes an
  attempt that passes the guard on one side of the window's edge and sends on the other,
  and the property fails without it. The inductive invariant `Safe` adds
  - `CheckpointsAreCurrent`: a run in flight has read the latest checkpoint, or
    somebody has stamped one at this very time; a run that has sent has stamped;
  - `RefusalsStand`: the checkpoint on which a run must refuse, or has refused, is
    the latest and stays outside the window;
  - `MintsFollowStamps`: with one checkpoint recorded, an endpoint was created at
    that checkpoint's time and the checkpoint says so; with two, while a run may
    still send, what the first created is within the window, so Stripe replays it;
  - `DuplicatesAreThirdSends`: under the same premise, two endpoints of one operation take
    three sends. Only the theorems below that state the premise rest on it.

`ApplySequenceProofs`, over operations of every type:

- `LetGo`: `Spec => LetGoOnlyWhenGone`. `SeqInv` adds `EntriesOwnAlike` (the state
  owns an endpoint just if the one the runs of the open operation read did) and
  `TeardownsAreDone` (the endpoint of a teardown that was answered with success is
  gone, and stays gone, for ids are never given out again).
- `ForeignSafe`: with `TargetsAreStamped` (what `desiredFrom` does: the desired
  webhook carries the binding's metadata), `Spec => ForeignUntouched`. `OursInv` adds
  that everything by which a run may come to write an endpoint - the action's remote
  identity, the entry state, an earlier effect that Stripe answers with - names one
  of this binding's (`ActionsAreOurs`, `NamesAreOurs`); no update can take the
  metadata away again, because the body it sends has it.

- `SecretStrays`: `Spec => []SecretStraysOnlyByUpdate`, whatever the window and however
  long an attempt takes. `SecretInv` says where every secret comes from: what a create
  answers with and what the host has captured for an operation, that operation created
  (`Origins`); a state, the current one or one a run entered with, that refers to another
  endpoint's secret is `Explained` by an applied update of the endpoint it names or by an
  operation that created both.
- `StateShowsEndpoint`: with `~TickInFlight`, `Spec => []StateDescribesEndpoint`. The
  state alone says too little: an attempt the host has timed out on may still write after
  the operation was answered. `Shown` adds that one operation is open at a time, that such
  a late attempt is answered from Stripe's record (`LateIsReplayed`; here the window is
  needed), that nobody takes away what an open update or import names, that what an open
  operation wrote or read is still so, and that the entry states of its runs describe the
  account too, as long as it neither updates nor deletes (`Calm`). All of `Shown` is
  claimed only while no operation was given up (`NoneGivenUp`): what such a one still
  sends may be carried out under a later operation. `Applying` is what outlives that.

- `ActionsImplementProvision`: `Spec => ImplementsProvision`, whatever types of action the
  host submits and however long an attempt takes. `IInv` is `SecretInv` (what an answer or
  a capture of a create names, its own operation created) and `EntriesAreCurrent`: while
  an operation is open, the binding is what its runs read when they began. Without it an
  update could carry over, and a failed attempt, which answers with the state it entered
  with, could put back, an older binding. Every action is shown to map to one of
  `Provision`'s or to a stutter: the steps of `ExecuteRequest` to `Mint` or nothing
  (`PerformMints`), the end of an attempt to `Confirm` (`SuccessBinds`) or nothing
  (`FailureBinds`).

`PlannerProofs`, for accounts of any length and inputs of any size:

- `OneRoundConverges`, `CreatedOnlyWhereVacant`, `ProjectedIsServed`: `Inv` says that the
  plan is that of the account as it is (`PlanIsCurrent`), that ids are given out once, and
  that after a plan was carried out and before anything changes, planning again yields no
  mutation (`Converged`). The lemmas are about the planner's operators: which endpoint
  `ownedBy` and `FirstOf` find, what `Plan` can consist of (`PlanShape`), that the drift
  of an endpoint with either request body is none (`NothingLeftToDo`).
- `OthersStay`: `Spec => OthersUntouched`.

`LifecycleProofs`, for any number of operations, attempts, rounds, faults and changes, any
inputs and any account. All but the first theorem assume `~TickInFlight`: no attempt runs
on from one tick of the clock to the next, so none straddles the edge of the window.

- `LifecycleTypeCorrect`: `LifecycleSpec => []LifecycleTypeOK`, which also says that what
  the host has wired, planned or projected is an id Stripe has given out. `Typed` takes
  that from `SecretInv`: the secret of a create's receipt is of an endpoint its operation
  created; and whatever is left of a plan is an action the handlers know.
- `NothingIsAdoptedLate`: `LifecycleSpec => NoLateAdoption`. A late attempt of an answered
  operation changes nothing (`LateIsReplayed`); one of a given-up operation writes only what
  Stripe has forgotten, or never knew (`Forgotten`), which is the exception the property
  names.
- `CreatesWhatIsMissing`: `LifecycleSpec => CreatesOnlyWhatIsMissing`, and
- `BillingFollows`: `LifecycleSpec => []BillingFollowsEndpoint`; both with
  `MaxAttempts <= 2`, and the code needs it: a third attempt of one create may create
  again what the first has created (finding 1).
- `NeedlessCreateIsADuplicate`, `StaleBillingNeedsADuplicate`: for any `MaxAttempts`, that
  duplicate is the only exception to the two properties, apart from those they name
  themselves. As long as no operation has created two endpoints (`NoDuplicateEndpoint`),
  nothing is created that is there, but by an attempt given up on a timeout, and
  billing follows the newest endpoint. `OpenOnce` is what the proofs need of either
  hypothesis: the open operation has created one endpoint at most (`OneMint`).

For all of these but the first, `LifeInv` builds on what was proved of `ApplyAction`
(`Applying`: `Safe`, `SecretsAreExplained`, `OneIsOpen`, `LateIsReplayed`) and adds the host's side. A round
plans of the account as it is, and `PlanFits` keeps that plan right until it is carried
out: while nobody has changed anything (`fresh`), a planned or open update is of an
endpoint of the binding, and a planned create, or an open one that has not created yet,
is of something that is missing. It is inductive because only the first action of a plan
writes (`PlanIsInOrder`) and because an attempt of an answered operation, however
late, is answered from Stripe's record and writes nothing; one of a given-up operation that
does write ends `fresh`, like a stranger's change. `AttemptsAreCounted` turns the bound on attempts
into one on checkpoints (attempts that have not stamped yet and stamps make no more than
the attempts begun), so that `DuplicatesAreThirdSends` applies to every operation.
For billing, `WiredInOrder` says that secrets are wired in the order in which their
endpoints were created, `WiredIsNewest` that no endpoint of the binding is newer than the
wired one but the one an open operation has just created, and `QuietRoundProjects` that
the plan of a round which changes nothing projects the wired secret. `WiredIsNewest` is
not inductive without its last two parts, that neither a planned nor an open update is of
an endpoint newer than the wired one: by such an update a stranger's edit would be undone
and the endpoint given back. The lemmas on the planner (`PlanMade`, `PlanToSubmit`) say
which actions a plan may have, in which order, and what of the account each relies on.

`DoctorProofs`, for pages and accounts of any size:

- `AbsentWasNotThere`, `PresentIsOurs`, `HealthyIsComplete`. `Inv` ties the sets of ids
  that lived all along, and that ever carried the metadata, to the account while the call
  is under way, and every diagnostic to the response it was made of. `PageIsAll` is why a
  first page answers for the account.

`ArtifactProofs`, for any number of edits, builds, installations and processes:

- `SentAsAdmitted`: `Spec => []RequestsMatchTheHost`. The layout in the working tree may
  mix two versions at any time; `Inv` says that what the host has installed is described by
  its own descriptor (`InstalledIsWhole`) and that a process which serves has found the
  manifest embedded in its binary in that descriptor, so that the one which may send
  (`SentByAdmitted`) was admitted by that same manifest (`OneManifest`).

`ObserveProofs`, under `PageSizeAssumption` and `ObserveAssumption`, so for pages of any
size (100 in the source), any number of pages and any account:

- `TypeCorrect`, `ObservationComplete`, `NothingTwice` and `OneMode`: `Spec => []` of `TypeOK`,
  `ObservationIsComplete`, `NothingObservedTwice` and `NoForeignMode`. `Inv` says that
  between two pages everything observed lies behind the cursor (`Behind`), everything
  that has lived since Start lies ahead of it or has been observed (`Ahead`), and what
  was observed passed the cross-check (`Checked`). The argument rests on
  `PageIsNewest`: what is older than the cursor and not on the page is older than all
  of the page, and there is nothing of it unless more is reported.

`ProjectionProofs`, for URLs, event lists, pages and indices of any length, in any base:

- `EventsAlwaysSurvive`, `URLAlwaysSurvives` and `CursorIsAlwaysLast`: `Spec => []` of
  `EventsSurvive`, `URLSurvives` and `CursorIsLast`. The inductive invariant, `OnTheWay`,
  is short: every stage holds what the stage before it makes of its input. The work is in
  what the operators compute:
  - `ListIndexOfPath`: the digits of an index, read back by the loop of `listIndex`, are
    the index. Both sides are recursive functions, and the library's induction theorems
    take an operator that no prover here can instantiate. The induction is therefore by
    the least counterexample (`LeastNumber`, from the well-foundedness of < on Nat): a
    function that satisfies the defining equations exists on every initial segment and
    is unique (`CountsExist`, `CountsAgree`, `WritesExist`, `WritesAgree`).
  - `OrderedIsSorted`: every finite set with a key can be laid out by ascending keys
    (`CanBeSorted`), so the `CHOOSE` in `Ordered` picks such a sequence. Two ascending
    sequences without repetition of the same set of numbers are the same, so the order
    in which Stripe holds the events does not matter, nor normalising twice
    (`NormalizeAgain`).
  - `NormalizeURLProper`, `NormalizeStoredURL`: a normalised URL ends in no slash, so the
    slash that Stripe may add goes again, unless a space before it is left over.
  - `CollectsAll`, `LastIndex`: what the flat map loses of the page's order, the indices
    in its paths give back.

  `Ordered` and `Number` are written out, as a `CHOOSE` and a recursive function, because
  the sorting operator of the standard module TLC has no definition a prover could use.

Every invariant was model-checked on the bounds of the corresponding run before it
was proved.

Only model-checked is liveness (`OperationsSettle`, `ObserveEnds`, `Converges`): it rests
on fairness, and fairness on ENABLED, which the prover does not handle.

## Abstractions

- Digests are the values they are taken of; ids, receipts' wording, summaries, flags
  and log output are left out. Of the manifest, `Artifact` keeps version, diagnostic
  namespace, requests and response schemas.
- BLOCKED and MANUAL actions behave as NO_OP. A 2xx answer without an id, a body that
  cannot be decoded and an inadmissible origin or credential end the run like any
  failed call (`Fail`, `CallFails`).
- A response of a delivery state that `diagnoseResponse` does not know (its default,
  `exec.go:59-60`) is handled like a request that was not sent, under another diagnostic
  code; it is no outcome of its own.
- The account identity (`accountIdentity`, `apply.go:440-450`, the action's or else the
  context's) is whether there is one: the two never disagree, and no property tells
  accounts apart.
- Checkpoints always carry a time, since `checkpointBeforeSend` always stamps one;
  `replayWindowExpired` without one is therefore not reached.
- Plans are carried out atomically and without failure in `Planner`; in `Lifecycle`
  they are carried out step by step by `ApplyAction`, from a plan that was made of an
  account read at once. That pages of one observation may be of different moments is
  `Observe`'s.
- `Lifecycle` leaves out IMPORT (planned in every round, so its rounds do not end),
  DELETE (never planned), existing mode and production; these are in
  `apply_sequence` and `planner_loop`.
- In `Doctor` an endpoint is whether it carries the binding's metadata.
- The rules of `ClassifyStripeError` on Stripe's own error types and codes are not
  reached: `diagnoseResponse` fills in the HTTP status only (`exec.go`).

## Not modelled

- `upgrade.go`: one state schema version exists, and every upgrade is refused.
- Command-line flags, file modes, output and the gRPC server itself (`src/main.go`,
  `src/cmd/package/main.go`).
- The wording of diagnostics and receipts (`diagnostics.go`), and the
  SDK it passes values to, which is another module.

## Plan

Done: `Webhook`, `ApplyAction`, `Planner`, `Observe`; then `Doctor`, `Projection`
(URLs, event lists, selector paths), `Artifact`, `Provision` with the refinement and
its proof, `Lifecycle` with convergence; a theorem for every safety property the passing
runs check.

Left, in the order of what it would add:

1. `Lifecycle` with IMPORT and existing mode, for a host that does not ask again after
   an import.
