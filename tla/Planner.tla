--------------------------------- MODULE Planner ---------------------------------
(***************************************************************************)
(* Plan: from the desired inputs of a binding and an observation of the    *)
(* account to an ordered list of actions (plan.go, inputs.go, validate.go).*)
(* It is a pure function; the machine below asks it again and again while  *)
(* the plan it returns is carried out, the operator changes the inputs and *)
(* strangers edit the account.                                             *)
(*                                                                         *)
(* Not modelled: digests, plan and action ids, summaries, the wording of   *)
(* diagnostics.  Carrying an action out is its effect on Stripe alone; the *)
(* handler that does it, with its failures, is module ApplyAction.         *)
(***************************************************************************)
EXTENDS Webhook, FiniteSets

CONSTANTS PublicSites,   \* sites that are public HTTPS hosts
          Unpinned,      \* an API version the pattern rejects
          DefaultDescription,
          RawInputs,     \* the inputs an operator may write
          Requests,      \* what else the host may put in a plan request
          InitialAccounts, \* the endpoints there may be at first, newest first
          MaxChanges     \* bound on changes of the inputs and of the account

Request == [mode : {"development", "production"}, billing : BOOLEAN,
            references : SUBSET {"runtime", "webhook-verification"}]

VARIABLES account,   \* Stripe's list of endpoints, newest first
          lastId,    \* the last endpoint id given out
          raw,       \* the operator's inputs
          request,   \* host mode, output target and references of this plan
          plan,      \* the answer to the last PlanRequest
          phase,     \* "ask" or "apply"
          settled,   \* history: the last plan was carried out, nothing changed since
          changes

vars == <<account, lastId, raw, request, plan, phase, settled, changes>>
--------------------------------------------------------------------------------
Listed == [id : Nat, body : Endpoint]

NoURL == [site |-> "", slash |-> FALSE]

RawInput == [secret : BOOLEAN,  \* some value looks like a secret
             mode : {"public", "local-forwarded", "existing", "", "other"},
             url : URL \cup {NoURL}, events : SUBSET Events,
             api : APIVersions \cup {"", Unpinned}, desc : Descriptions \cup {""},
             existing : Nat,    \* existing_webhook_id, 0 when empty
             policy : {"sandbox", "test", "", "live"}, publishable : BOOLEAN]

\* Ids are Stripe's; the account at first was given out the ids up to its length.
ASSUME PlannerAssumption ==
    /\ MaxChanges \in Nat /\ Requests \subseteq Request /\ RawInputs \subseteq RawInput
    /\ "" \notin Sites \cup Descriptions /\ Unpinned \notin APIVersions
    /\ PublicSites \subseteq Sites /\ DefaultDescription \in Descriptions
    /\ \A a \in InitialAccounts :
          /\ a \in Seq(Listed) /\ \A i \in DOMAIN a : a[i].id \in 1..Len(a)
          /\ \A i, j \in DOMAIN a : i # j => a[i].id # a[j].id
--------------------------------------------------------------------------------
(* inputs.go *)

\* parseInputs, when it returns no error.
ParseInputs(in) ==
    [in EXCEPT !.url = NormalizeURL(@),
               !.desc = IF @ = "" THEN DefaultDescription ELSE @]

(* validate.go; a diagnostic is its severity and its code. *)

Invalid   == [severity |-> "ERROR", code |-> "invalid-input"]
WrongMode(severity) == [severity |-> severity, code |-> "wrong-mode"]

\* validatePublicCallback
PublicCallback(url) == url.site \in PublicSites

ValidateInputs(in, mode) ==
    (IF \/ in.api \in {"", Unpinned}
        \/ in.policy = ""
        \/ in.events = {}
        \/ in.mode = "public" /\ ~PublicCallback(in.url)
        \/ in.mode = "existing" /\ in.existing = 0
        \/ in.mode \in {"", "other"}
     THEN {Invalid} ELSE {})
    \cup (IF in.policy = "live" THEN {WrongMode("ERROR")} ELSE {})
    \cup (IF mode = "production" THEN {WrongMode("WARNING")} ELSE {})

HasError(diagnostics) == \E d \in diagnostics : d.severity = "ERROR"
--------------------------------------------------------------------------------
(* plan.go *)

Action(type, remote, own) == [type |-> type, remote |-> remote, own |-> own]

WebhookPlan(action, diagnostics, billing) ==
    [actions |-> <<action>>, diagnostics |-> diagnostics, billingAdmissible |-> billing]

\* Mutant: an endpoint that needs no change admits no projection either.
ConvergeOwnedQuietly(target, owned) ==
    LET drift == ClassifyDrift(target, owned.body)
        type == CASE drift = "none"    -> "NO_OP"
                  [] drift = "mutable" -> "UPDATE"
                  [] drift = "replace" -> "REPLACE"
    IN  WebhookPlan(Action(type, owned.id, "OWNED"), {}, drift # "none")

ConvergeOwned(target, owned) ==
    LET drift == ClassifyDrift(target, owned.body)
        type == CASE drift = "none"    -> "NO_OP"
                  [] drift = "mutable" -> "UPDATE"
                  [] drift = "replace" -> "REPLACE"
        rotation == [severity |-> "WARNING", code |-> "permanent-validation"]
    IN  WebhookPlan(Action(type, owned.id, "OWNED"),
                    IF drift = "replace" THEN {rotation} ELSE {}, TRUE)

BlockOnUnmanaged ==
    WebhookPlan(Action("BLOCKED", 0, "UNMANAGED"),
                {[severity |-> "ERROR", code |-> "unmanaged-conflict"]}, FALSE)

PlanWebhook(in, target, observed, binding) ==
    LET owned == OwnedBy(observed, binding)
    IN  CASE in.mode = "local-forwarded" ->
                 WebhookPlan(Action("NO_OP", 0, "OBSERVED"), {}, TRUE)
          [] in.mode # "local-forwarded" /\ owned # {} ->
                 ConvergeOwned(target, observed[FirstOf(owned)])
          [] in.mode = "existing" /\ owned = {} ->
                 WebhookPlan(Action("IMPORT", in.existing, "OBSERVED"), {}, TRUE)
          [] in.mode = "public" /\ owned = {} ->
                 IF UnmanagedAtURL(observed, target.url) # {}
                 THEN BlockOnUnmanaged
                 ELSE WebhookPlan(Action("CREATE", 0, "OWNED"), {}, TRUE)

\* planBilling: the projection, when every reference it needs is there.
PlanBilling(in, references) ==
    IF in.publishable /\ {"runtime", "webhook-verification"} \subseteq references
    THEN <<Action("PROJECT_OUTPUT", 0, "UNSPECIFIED")>> ELSE <<>>

NoPlan(diagnostics) == [actions |-> <<>>, diagnostics |-> diagnostics]

\* Plan: r holds the raw inputs, the host mode, whether billing is requested, the
\* credential references and the observed resources.
Plan(r) ==
    LET in == ParseInputs(r.raw)
        diagnostics == ValidateInputs(in, r.mode)
        webhook == PlanWebhook(in, DesiredFrom(in, Binding),
                               ObservedWebhooks(r.resources), Binding)
        billing == IF webhook.billingAdmissible /\ r.billing
                   THEN PlanBilling(in, r.references) ELSE <<>>
        deferred == [severity |-> "INFO", code |-> "projection-deferred"]
    IN  IF r.raw.secret THEN NoPlan({Invalid})
        ELSE IF HasError(diagnostics) THEN NoPlan(diagnostics)
        ELSE [actions |-> webhook.actions \o billing,
              diagnostics |-> webhook.diagnostics \cup
                  (IF webhook.billingAdmissible /\ r.billing /\ billing = <<>>
                   THEN {deferred} ELSE {})]
--------------------------------------------------------------------------------
(* The account, as Observe reads it and as carrying an action out leaves it. *)

Resources == [i \in DOMAIN account |-> WebhookAt(account[i].id, account[i].body, Binding)]

Init ==
    /\ account \in InitialAccounts
    /\ lastId = Len(account)
    /\ raw \in RawInputs
    /\ request \in Requests
    /\ plan = NoPlan({})
    /\ phase = "ask" /\ settled = FALSE /\ changes = 0

\* Observe fails, and nothing is planned, when the endpoint that existing mode
\* names is not there (observe.go Observe, retrieveWebhook).
Observable ==
    raw.mode = "existing" /\ raw.existing # 0 /\ ~raw.secret
        => \E i \in DOMAIN account : account[i].id = raw.existing

MakePlan ==
    /\ phase = "ask" /\ Observable
    /\ plan' = Plan([raw |-> raw, mode |-> request.mode, billing |-> request.billing,
                     references |-> request.references, resources |-> Resources])
    /\ phase' = "apply"
    /\ UNCHANGED <<account, lastId, raw, request, settled, changes>>

Target == DesiredFrom(ParseInputs(raw), Binding)

\* What Stripe's list is after an action: a new endpoint comes first, and a
\* request without a URL (existing mode asks for none) is refused.
Carried(action) ==
    IF Target.url = NoURL THEN account
    ELSE CASE action.type \in {"CREATE", "REPLACE"} ->
                  <<[id |-> lastId + 1, body |-> CreateBody(Target)]>> \o account
           [] action.type = "UPDATE" ->
                  [i \in DOMAIN account |->
                      IF account[i].id = action.remote
                      THEN [account[i] EXCEPT !.body = UpdateBody(@, Target)]
                      ELSE account[i]]
           [] OTHER -> account

CarryOut ==
    /\ phase = "apply"
    /\ IF plan.actions = <<>> THEN UNCHANGED <<account, lastId>>
       ELSE /\ account' = Carried(plan.actions[1])
            /\ lastId' = lastId + Len(account') - Len(account)
    /\ phase' = "ask" /\ settled' = TRUE
    /\ UNCHANGED <<raw, request, plan, changes>>

Changed ==
    /\ phase = "ask" /\ changes < MaxChanges
    /\ changes' = changes + 1 /\ settled' = FALSE
    /\ UNCHANGED <<plan, phase>>

\* The operator writes other inputs, or the host plans with other references.
ChangeInputs ==
    /\ Changed
    /\ raw' \in RawInputs /\ request' \in Requests
    /\ UNCHANGED <<account, lastId>>

\* Someone edits an endpoint behind the provider's back.
Edited(body) ==
    {[body EXCEPT !.status = "disabled"], [body EXCEPT !.url.slash = ~@],
     [body EXCEPT !.meta.resource = FALSE], [body EXCEPT !.meta.binding = NoBinding]}
    \cup {[body EXCEPT !.url.site = s] : s \in Sites}
    \cup {[body EXCEPT !.events = e] : e \in SUBSET Events \ {{}}}

Drift ==
    /\ Changed
    /\ \/ \E i \in DOMAIN account : \E body \in Edited(account[i].body) :
              account' = [account EXCEPT ![i].body = body]
       \/ \E i \in DOMAIN account :  \* deletes one
              account' = SubSeq(account, 1, i - 1) \o SubSeq(account, i + 1, Len(account))
    /\ UNCHANGED <<lastId, raw, request>>

Next == MakePlan \/ CarryOut \/ ChangeInputs \/ Drift

Spec == Init /\ [][Next]_vars
--------------------------------------------------------------------------------
TypeOK ==
    /\ account \in Seq(Listed) /\ lastId \in Nat
    /\ raw \in RawInput /\ request \in Request
    /\ phase \in {"ask", "apply"} /\ settled \in BOOLEAN /\ changes \in 0..MaxChanges

Webhooks == {account[i] : i \in DOMAIN account}
Ours(listed) == listed.body.meta.binding = Binding
PlannedType == IF plan.actions = <<>> THEN "NONE" ELSE plan.actions[1].type
Projects == \E i \in DOMAIN plan.actions : plan.actions[i].type = "PROJECT_OUTPUT"

\* One round converges: once a plan for public mode was carried out and nothing
\* changed since, the next plan finds nothing to do, whatever had drifted, unless
\* it is blocked (plan.go planWebhook and convergeOwned, webhook.go classifyDrift).
ConvergesInOneRound ==
    phase = "apply" /\ settled /\ raw.mode = "public"
        => PlannedType \in {"NO_OP", "BLOCKED", "NONE"}

\* Carrying a plan out never changes or removes an endpoint without this binding's
\* metadata, whichever URL it serves (webhook.go ownedBy, plan.go blockOnUnmanaged).
OthersUntouched ==
    [][CarryOut => \A w \in Webhooks : Ours(w) \/ w \in Webhooks']_vars

\* An endpoint is created only at a URL nothing serves yet, a trailing slash aside,
\* and only when the binding owns none (webhook.go unmanagedAtURL, ownedBy).
CreatesOnlyWhereVacant ==
    phase = "apply" /\ PlannedType = "CREATE"
        => \A w \in Webhooks : ~Ours(w) /\ w.body.url.site # raw.url.site

\* Billing is projected only from a plan that leaves the binding, in public mode, an
\* enabled endpoint of its own at the desired URL (plan.go Plan, planBilling): a
\* blocked conflict or an unresolved reference never projects.
ProjectsOnlyAServedURL ==
    phase = "ask" /\ settled /\ Projects
        => /\ request.references = {"runtime", "webhook-verification"}
           /\ raw.mode = "public"
                => \E w \in Webhooks : /\ Ours(w) /\ w.body.status = "enabled"
                                       /\ w.body.url.site = raw.url.site
================================================================================
