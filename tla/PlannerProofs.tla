------------------------------- MODULE PlannerProofs -------------------------------
(***************************************************************************)
(* For any inputs, any account and any number of changes of either: a plan *)
(* that was carried out leaves nothing to do but what is blocked, touches  *)
(* nothing that is not this binding's, creates only where nothing is and   *)
(* admits a projection only of an endpoint that serves.                    *)
(***************************************************************************)
EXTENDS Planner, WellFoundedInduction, SequenceTheorems, TLAPS

\* The observation of a list of endpoints, as the planner reads it, and the plan for it.
Observation(list) == [i \in DOMAIN list |-> WebhookAt(list[i].id, list[i].body, Binding)]

Observed(list) == ObservedWebhooks(Observation(list))

PlanOf(list, in, q) ==
    Plan([raw |-> in, mode |-> q.mode, billing |-> q.billing, references |-> q.references,
          resources |-> Observation(list)])

\* The places of this binding's endpoints, and of others' at a URL.
OursIn(list) == {i \in DOMAIN list : list[i].body.meta.binding = Binding}

Serving(list, url) ==
    {i \in DOMAIN list : list[i].body.meta.binding # Binding
                         /\ NormalizeURL(list[i].body.url) = NormalizeURL(url)}

TargetOf(in) == DesiredFrom(ParseInputs(in), Binding)

FirstType(p) == IF p.actions = <<>> THEN "NONE" ELSE p.actions[1].type

Quiet == {"NO_OP", "BLOCKED", "NONE"}
--------------------------------------------------------------------------------
(* The invariant. *)

\* Ids are given out once.
IdsAreUnique ==
    /\ \A i \in DOMAIN account : account[i].id \in 1..lastId
    /\ \A i, j \in DOMAIN account : i # j => account[i].id # account[j].id

\* Nothing changes between a plan and the carrying out of it.
PlanIsCurrent == phase = "apply" => plan = PlanOf(account, raw, request)

\* What was carried out would plan nothing more.
Converged ==
    settled /\ raw.mode = "public" => FirstType(PlanOf(account, raw, request)) \in Quiet

Inv == TypeOK /\ IdsAreUnique /\ PlanIsCurrent /\ Converged /\ ProjectsOnlyAServedURL
--------------------------------------------------------------------------------
(* What the planner reads of an account. *)

\* Of some places, FirstOf is one, and the least.
LEMMA FirstOfPlaces ==
    ASSUME NEW places, places \subseteq Nat, places # {}
    PROVE  FirstOf(places) \in places /\ \A j \in places : FirstOf(places) <= j
  <1>1. PICK less : /\ IsWellFoundedOn(less, Nat)
                    /\ less = {pair \in Nat \X Nat : pair[1] < pair[2]}
    BY NatLessThanWellFounded DEF OpToRel
  <1>2. PICK i \in places : \A j \in places : <<j, i>> \notin less
    BY <1>1, WFMin
  <1>3. ASSUME NEW j \in places PROVE i <= j
    <2> DEFINE pair == <<j, i>>
    <2>1. pair \in Nat \X Nat /\ pair[1] = j /\ pair[2] = i
      OBVIOUS
    <2>2. j < i => pair \in less
      <3> HIDE DEF pair
      <3> QED BY <1>1, <2>1
    <2> QED BY <1>2, <2>2
  <1> QED BY <1>3 DEF FirstOf

\* An endpoint as listed, and its parts.
LEMMA ListedParts ==
    ASSUME NEW list \in Seq(Listed), NEW i \in DOMAIN list
    PROVE  /\ list[i] \in Listed /\ list[i].id \in Nat /\ list[i].body \in Endpoint
           /\ list[i].body.url \in URL /\ list[i].body.meta \in Metadata
           /\ DOMAIN list \subseteq Nat
  <1>1. list[i] \in Listed /\ DOMAIN list = 1..Len(list) /\ Len(list) \in Nat
    OBVIOUS
  <1>2. list[i].id \in Nat /\ list[i].body \in Endpoint
    BY <1>1 DEF Listed
  <1> QED BY <1>1, <1>2 DEF Endpoint

\* The planner reads every endpoint: its id, whose it is and all it holds, but for the
\* slash that trails its URL.
LEMMA ObservedParts ==
    ASSUME NEW list \in Seq(Listed), NEW i \in DOMAIN list
    PROVE  /\ Observed(list)[i].id = list[i].id
           /\ Observed(list)[i].own \in Owning <=> list[i].body.meta.binding = Binding
           /\ Observed(list)[i].body =
                 [list[i].body EXCEPT !.url = NormalizeURL(list[i].body.url)]
           /\ Observed(list)[i].body.meta = list[i].body.meta
           /\ Observed(list)[i].body.url = NormalizeURL(list[i].body.url)
  <1> DEFINE o == Observation(list)
             body == list[i].body
  <1>1. DOMAIN o = DOMAIN list /\ o[i] = WebhookAt(list[i].id, body, Binding)
    BY DEF Observation
  <1>2. o[i] = [id |-> list[i].id, body |-> body,
                own |-> IF body.meta.binding = Binding THEN "OWNED" ELSE "UNMANAGED"]
    BY <1>1 DEF WebhookAt, MetadataMatchesBinding
  <1> HIDE DEF o
  <1>3. /\ DOMAIN Observed(list) = DOMAIN list
        /\ Observed(list)[i] = [o[i] EXCEPT !.body.url = NormalizeURL(@)]
    BY <1>1 DEF Observed, ObservedWebhooks, o
  <1>4. /\ Observed(list)[i].id = o[i].id /\ Observed(list)[i].own = o[i].own
        /\ Observed(list)[i].body = [o[i].body EXCEPT !.url = NormalizeURL(@)]
    BY <1>2, <1>3
  <1>5. /\ o[i].id = list[i].id /\ o[i].body = body
        /\ o[i].own = IF body.meta.binding = Binding THEN "OWNED" ELSE "UNMANAGED"
    BY <1>2
  <1>6. body \in Endpoint
    BY ListedParts
  <1>7. Observed(list)[i].body = [body EXCEPT !.url = NormalizeURL(body.url)]
    BY <1>4, <1>5
  <1>8. /\ Observed(list)[i].body.meta = body.meta
        /\ Observed(list)[i].body.url = NormalizeURL(body.url)
    <2> HIDE DEF body
    <2> QED BY <1>6, <1>7 DEF Endpoint
  <1> QED BY <1>3, <1>4, <1>5, <1>7, <1>8 DEF Owning

\* ownedBy and unmanagedAtURL find what they are to find.
LEMMA FoundPlaces ==
    ASSUME NEW list \in Seq(Listed), NEW url
    PROVE  /\ OwnedBy(Observed(list), Binding) = OursIn(list)
           /\ UnmanagedAtURL(Observed(list), NormalizeURL(url)) = Serving(list, url)
           /\ OursIn(list) # {} =>
                 /\ FirstOf(OursIn(list)) \in DOMAIN list
                 /\ list[FirstOf(OursIn(list))].body.meta.binding = Binding
  <1>0. DOMAIN Observed(list) = DOMAIN list
    BY DEF Observed, ObservedWebhooks, Observation
  <1>1. OwnedBy(Observed(list), Binding) = OursIn(list)
    BY <1>0, ObservedParts DEF OwnedBy, OursIn, MetadataMatchesBinding
  <1>2. UnmanagedAtURL(Observed(list), NormalizeURL(url)) = Serving(list, url)
    BY <1>0, ObservedParts DEF UnmanagedAtURL, Serving
  <1>3. ASSUME OursIn(list) # {} PROVE FirstOf(OursIn(list)) \in OursIn(list)
    <2>1. OursIn(list) \subseteq Nat
      BY ListedParts DEF OursIn
    <2> QED BY <1>3, <2>1, FirstOfPlaces
  <1> QED BY <1>1, <1>2, <1>3 DEF OursIn
--------------------------------------------------------------------------------
(* What the planner answers. *)

\* What the inputs must be for a plan with an action in it.
Usable(in) ==
    /\ in.api \in APIVersions
    /\ in.mode \in {"public", "local-forwarded", "existing"}
    /\ in.mode = "public" => in.url.site \in PublicSites

LEMMA SlashRemoved ==
    ASSUME NEW S, NEW url \in [site : S, slash : BOOLEAN]
    PROVE  /\ NormalizeURL(url) \in [site : S, slash : BOOLEAN]
           /\ NormalizeURL(url).site = url.site
           /\ NormalizeURL(NormalizeURL(url)) = NormalizeURL(url)
           /\ url.slash = FALSE => NormalizeURL(url) = url
  <1>1. ASSUME NEW u \in [site : S, slash : BOOLEAN]
        PROVE  /\ NormalizeURL(u) \in [site : S, slash : BOOLEAN]
               /\ NormalizeURL(u).site = u.site /\ NormalizeURL(u).slash = FALSE
    <2>1. NormalizeURL(u) \in [site : S, slash : BOOLEAN]
      BY DEF NormalizeURL
    <2>2. NormalizeURL(u).site = u.site
      BY DEF NormalizeURL
    <2>3. NormalizeURL(u).slash = FALSE
      BY DEF NormalizeURL
    <2> QED BY <2>1, <2>2, <2>3
  <1>2. \A u, v \in [site : S, slash : BOOLEAN] :
           u.site = v.site /\ u.slash = v.slash => u = v
    OBVIOUS
  <1> QED BY <1>1, <1>2

LEMMA NormalizedURL ==
    ASSUME NEW url \in URL \cup {NoURL}
    PROVE  /\ NormalizeURL(url) \in URL \cup {NoURL}
           /\ NormalizeURL(url).site = url.site
           /\ NormalizeURL(NormalizeURL(url)) = NormalizeURL(url)
           /\ url \in URL => NormalizeURL(url) \in URL
  <1>1. CASE url \in URL
    BY <1>1, SlashRemoved DEF URL
  <1>2. CASE url = NoURL
    <2>1. NoURL \in [site : {NoURL.site}, slash : BOOLEAN] /\ NoURL.slash = FALSE
      <3>1. NoURL.site = "" /\ NoURL.slash = FALSE
        BY Zenon DEF NoURL
      <3>2. NoURL = [site |-> NoURL.site, slash |-> FALSE]
        BY <3>1, Zenon DEF NoURL
      <3> QED BY <3>1, <3>2
    <2>2. NormalizeURL(NoURL) = NoURL
      BY <2>1, SlashRemoved
    <2> QED BY <1>2, <2>2
  <1> QED BY <1>1, <1>2

LEMMA ParsedParts ==
    ASSUME NEW in \in RawInput
    PROVE  /\ ParseInputs(in).mode = in.mode /\ ParseInputs(in).api = in.api
           /\ ParseInputs(in).events = in.events /\ ParseInputs(in).existing = in.existing
           /\ ParseInputs(in).publishable = in.publishable
           /\ ParseInputs(in).url = NormalizeURL(in.url)
           /\ ParseInputs(in).desc \in Descriptions
           /\ ParseInputs(in).url.site = in.url.site
           /\ NormalizeURL(in.url) \in URL \cup {NoURL}
  <1>1. /\ in.url \in URL \cup {NoURL} /\ in.desc \in Descriptions \cup {""}
    BY DEF RawInput
  <1> DEFINE d == IF in.desc = "" THEN DefaultDescription ELSE in.desc
  <1>2. d \in Descriptions
    BY <1>1, PlannerAssumption
  <1>3. ParseInputs(in) = [in EXCEPT !.url = NormalizeURL(in.url), !.desc = d]
    BY DEF ParseInputs
  <1>4. /\ ParseInputs(in).mode = in.mode /\ ParseInputs(in).api = in.api
        /\ ParseInputs(in).events = in.events /\ ParseInputs(in).existing = in.existing
        /\ ParseInputs(in).publishable = in.publishable
        /\ ParseInputs(in).url = NormalizeURL(in.url) /\ ParseInputs(in).desc = d
    <2> HIDE DEF d
    <2> QED BY <1>3 DEF RawInput
  <1>5. /\ ParseInputs(in).url.site = in.url.site
        /\ NormalizeURL(in.url) \in URL \cup {NoURL}
    BY <1>1, <1>4, NormalizedURL
  <1> QED BY <1>2, <1>4, <1>5

\* The target of usable inputs is an endpoint, unless they name no URL.
LEMMA TargetParts ==
    ASSUME NEW in \in RawInput
    PROVE  /\ TargetOf(in).url = NormalizeURL(in.url) /\ TargetOf(in).url.site = in.url.site
           /\ TargetOf(in).api = in.api /\ TargetOf(in).events = in.events
           /\ TargetOf(in).desc \in Descriptions
           /\ TargetOf(in).meta = [binding |-> Binding, resource |-> TRUE]
           /\ NormalizeURL(TargetOf(in).url) = TargetOf(in).url
           /\ Usable(in) /\ TargetOf(in).url # NoURL => TargetOf(in) \in Desired
  <1>1. TargetOf(in) = [url |-> NormalizeURL(in.url), events |-> in.events, api |-> in.api,
                        desc |-> ParseInputs(in).desc,
                        meta |-> [binding |-> Binding, resource |-> TRUE]]
    BY ParsedParts DEF TargetOf, DesiredFrom
  <1>2. /\ TargetOf(in).url = NormalizeURL(in.url) /\ TargetOf(in).url.site = in.url.site
        /\ TargetOf(in).api = in.api /\ TargetOf(in).events = in.events
        /\ TargetOf(in).desc \in Descriptions
        /\ TargetOf(in).meta = [binding |-> Binding, resource |-> TRUE]
    BY <1>1, ParsedParts
  <1>3. NormalizeURL(NormalizeURL(in.url)) = NormalizeURL(in.url)
    <2>1. in.url \in URL \cup {NoURL}
      BY DEF RawInput
    <2> QED BY <2>1, NormalizedURL
  <1>4. ASSUME Usable(in), TargetOf(in).url # NoURL PROVE TargetOf(in) \in Desired
    <2>1. /\ NormalizeURL(in.url) \in URL /\ in.api \in APIVersions
          /\ in.events \subseteq Events /\ ParseInputs(in).desc \in Descriptions
      BY <1>2, <1>4, ParsedParts DEF Usable, RawInput
    <2>2. [binding |-> Binding, resource |-> TRUE] \in Metadata
      BY BindingAssumption DEF Metadata
    <2> QED BY <1>1, <2>1, <2>2 DEF Desired
  <1> QED BY <1>2, <1>3, <1>4

\* No action is planned of inputs that validation refuses.
LEMMA RefusedInputs ==
    ASSUME NEW in \in RawInput, NEW mode, ~HasError(ValidateInputs(ParseInputs(in), mode))
    PROVE  Usable(in)
  <1> DEFINE p == ParseInputs(in)
             refused == \/ p.api \in {"", Unpinned} \/ p.policy = "" \/ p.events = {}
                        \/ p.mode = "public" /\ ~PublicCallback(p.url)
                        \/ p.mode = "existing" /\ p.existing = 0
                        \/ p.mode \in {"", "other"}
  <1>1. ~refused
    <2>1. refused => Invalid \in ValidateInputs(p, mode)
      BY DEF ValidateInputs
    <2>2. Invalid.severity = "ERROR"
      BY DEF Invalid
    <2> QED BY <2>1, <2>2 DEF HasError
  <1>2. in.api \in APIVersions \cup {"", Unpinned}
        /\ in.mode \in {"public", "local-forwarded", "existing", "", "other"}
    BY DEF RawInput
  <1> QED BY <1>1, <1>2, ParsedParts DEF Usable, PublicCallback

\* Which action is chosen for the webhook.
Chosen(list, in, action) ==
    \/ in.mode = "local-forwarded" /\ action.type = "NO_OP"
    \/ /\ in.mode # "local-forwarded" /\ OursIn(list) # {}
       /\ action.remote = list[FirstOf(OursIn(list))].id
       /\ LET drift == ClassifyDrift(TargetOf(in), Observed(list)[FirstOf(OursIn(list))].body)
          IN  \/ drift = "none" /\ action.type = "NO_OP"
              \/ drift = "mutable" /\ action.type = "UPDATE"
              \/ drift = "replace" /\ action.type = "REPLACE"
    \/ in.mode = "existing" /\ OursIn(list) = {} /\ action.type = "IMPORT"
    \/ /\ in.mode = "public" /\ OursIn(list) = {}
       /\ IF Serving(list, in.url) # {} THEN action.type = "BLOCKED" ELSE action.type = "CREATE"

LEMMA WebhookChosen ==
    ASSUME NEW list \in Seq(Listed), NEW in \in RawInput, Usable(in)
    PROVE  \E action :
              LET w == PlanWebhook(ParseInputs(in), TargetOf(in), Observed(list), Binding)
              IN  /\ w.actions = <<action>> /\ Chosen(list, in, action)
                  /\ w.billingAdmissible => action.type # "BLOCKED"
                  /\ action.type # "PROJECT_OUTPUT"
  <1> DEFINE w == PlanWebhook(ParseInputs(in), TargetOf(in), Observed(list), Binding)
             owned == OursIn(list)
             first == Observed(list)[FirstOf(owned)]
             drift == ClassifyDrift(TargetOf(in), first.body)
             type == CASE drift = "none"    -> "NO_OP"
                       [] drift = "mutable" -> "UPDATE"
                       [] drift = "replace" -> "REPLACE"
  <1>1. /\ OwnedBy(Observed(list), Binding) = owned
        /\ UnmanagedAtURL(Observed(list), TargetOf(in).url) = Serving(list, in.url)
        /\ ParseInputs(in).mode = in.mode
    BY FoundPlaces, ParsedParts, TargetParts
  <1>2. w = CASE in.mode = "local-forwarded" ->
                 WebhookPlan(Action("NO_OP", 0, "OBSERVED"), {}, TRUE)
          [] in.mode # "local-forwarded" /\ owned # {} -> ConvergeOwned(TargetOf(in), first)
          [] in.mode = "existing" /\ owned = {} ->
                 WebhookPlan(Action("IMPORT", ParseInputs(in).existing, "OBSERVED"), {}, TRUE)
          [] in.mode = "public" /\ owned = {} ->
                 IF Serving(list, in.url) # {} THEN BlockOnUnmanaged
                 ELSE WebhookPlan(Action("CREATE", 0, "OWNED"), {}, TRUE)
    BY <1>1 DEF PlanWebhook
  <1> HIDE DEF w
  <1>3. CASE in.mode = "local-forwarded"
    <2>1. w = WebhookPlan(Action("NO_OP", 0, "OBSERVED"), {}, TRUE)
      BY <1>2, <1>3
    <2> QED BY <1>3, <2>1 DEF w, WebhookPlan, Action, Chosen
  <1>4. CASE in.mode # "local-forwarded" /\ owned # {}
    <2>1. w = ConvergeOwned(TargetOf(in), first)
      BY <1>2, <1>4
    <2>2. first.id = list[FirstOf(owned)].id
      BY <1>4, FoundPlaces, ObservedParts
    <2>3. drift \in {"none", "mutable", "replace"}
      BY DEF ClassifyDrift
    <2>4. /\ w.actions = <<Action(type, first.id, "OWNED")>>
      BY <2>1 DEF ConvergeOwned, WebhookPlan
    <2>5. \/ drift = "none" /\ type = "NO_OP"
          \/ drift = "mutable" /\ type = "UPDATE"
          \/ drift = "replace" /\ type = "REPLACE"
      BY <2>3
    <2> HIDE DEF type, drift
    <2>6. /\ Action(type, first.id, "OWNED").type = type
          /\ Action(type, first.id, "OWNED").remote = list[FirstOf(owned)].id
      BY <2>2 DEF Action
    <2> QED BY <1>4, <2>4, <2>5, <2>6 DEF Chosen, drift, w
  <1>5. CASE in.mode = "existing" /\ owned = {}
    <2>1. w = WebhookPlan(Action("IMPORT", ParseInputs(in).existing, "OBSERVED"), {}, TRUE)
      BY <1>2, <1>5
    <2> QED BY <1>5, <2>1 DEF w, WebhookPlan, Action, Chosen
  <1>6. CASE in.mode = "public" /\ owned = {} /\ Serving(list, in.url) # {}
    <2>1. w = BlockOnUnmanaged
      BY <1>2, <1>6
    <2> QED BY <1>6, <2>1 DEF w, BlockOnUnmanaged, WebhookPlan, Action, Chosen
  <1>7. CASE in.mode = "public" /\ owned = {} /\ Serving(list, in.url) = {}
    <2>1. w = WebhookPlan(Action("CREATE", 0, "OWNED"), {}, TRUE)
      BY <1>2, <1>7
    <2> QED BY <1>7, <2>1 DEF w, WebhookPlan, Action, Chosen
  <1> QED BY <1>3, <1>4, <1>5, <1>6, <1>7 DEF Usable

\* A plan holds no action, or the chosen one and perhaps the projection, which needs
\* both references and a webhook that is not blocked.
LEMMA PlanShape ==
    ASSUME NEW list \in Seq(Listed), NEW in \in RawInput, NEW q \in Request,
           PlanOf(list, in, q).actions # <<>>
    PROVE  /\ Usable(in) /\ Chosen(list, in, PlanOf(list, in, q).actions[1])
           /\ \A i \in DOMAIN PlanOf(list, in, q).actions :
                 PlanOf(list, in, q).actions[i].type = "PROJECT_OUTPUT" =>
                    /\ PlanOf(list, in, q).actions[1].type # "BLOCKED"
                    /\ q.references = {"runtime", "webhook-verification"}
  <1> DEFINE r == [raw |-> in, mode |-> q.mode, billing |-> q.billing,
                   references |-> q.references, resources |-> Observation(list)]
             parsed == ParseInputs(in)
             w == PlanWebhook(parsed, TargetOf(in), Observed(list), Binding)
             billing == IF w.billingAdmissible /\ q.billing
                        THEN PlanBilling(parsed, q.references) ELSE <<>>
             p == PlanOf(list, in, q)
  <1>1. /\ r.raw = in /\ r.mode = q.mode /\ r.billing = q.billing
        /\ r.references = q.references /\ r.resources = Observation(list)
    OBVIOUS
  <1>2. p = Plan(r)
    BY DEF PlanOf
  <1> HIDE DEF r
  <1>3. ~HasError(ValidateInputs(parsed, q.mode)) /\ p.actions = w.actions \o billing
    <2>1. CASE in.secret
      BY <1>1, <1>2, <2>1 DEF Plan, NoPlan
    <2>2. CASE ~in.secret /\ HasError(ValidateInputs(parsed, q.mode))
      BY <1>1, <1>2, <2>2 DEF Plan, NoPlan
    <2>3. CASE ~in.secret /\ ~HasError(ValidateInputs(parsed, q.mode))
      <3> DEFINE d == w.diagnostics \cup
                        (IF w.billingAdmissible /\ r.billing /\ billing = <<>>
                         THEN {[severity |-> "INFO", code |-> "projection-deferred"]} ELSE {})
      <3>1. p = [actions |-> w.actions \o billing, diagnostics |-> d]
        <4> HIDE DEF w
        <4> QED BY <1>1, <1>2, <2>3 DEF Plan, Observed, TargetOf, w
      <3> HIDE DEF d, w, billing
      <3> QED BY <2>3, <3>1
    <2> QED BY <2>1, <2>2, <2>3
  <1>4. Usable(in)
    BY <1>3, RefusedInputs
  <1>5. PICK action : /\ w.actions = <<action>> /\ Chosen(list, in, action)
                      /\ w.billingAdmissible => action.type # "BLOCKED"
                      /\ action.type # "PROJECT_OUTPUT"
    BY <1>4, WebhookChosen
  <1> HIDE DEF w
  <1>6. \/ billing = <<>>
        \/ /\ w.billingAdmissible /\ {"runtime", "webhook-verification"} \subseteq q.references
           /\ billing = <<Action("PROJECT_OUTPUT", 0, "UNSPECIFIED")>>
    BY DEF PlanBilling
  <1>7. q.references \subseteq {"runtime", "webhook-verification"}
    BY DEF Request
  <1> HIDE DEF billing, p
  <1>8. CASE billing = <<>>
    <2>1. p.actions = <<action>>
      BY <1>3, <1>5, <1>8
    <2> QED BY <1>4, <1>5, <2>1 DEF p
  <1>9. CASE /\ w.billingAdmissible /\ {"runtime", "webhook-verification"} \subseteq q.references
             /\ billing = <<Action("PROJECT_OUTPUT", 0, "UNSPECIFIED")>>
    <2> DEFINE b == Action("PROJECT_OUTPUT", 0, "UNSPECIFIED")
               S == {action, b}
    <2> HIDE DEF b
    <2>1. <<action>> \in Seq(S) /\ <<b>> \in Seq(S) /\ p.actions = <<action>> \o <<b>>
      BY <1>3, <1>5, <1>9 DEF b
    <2>2. p.actions[1] = action
      BY <2>1
    <2>3. action.type # "BLOCKED" /\ q.references = {"runtime", "webhook-verification"}
      BY <1>5, <1>7, <1>9
    <2> QED BY <1>4, <1>5, <2>2, <2>3 DEF p
  <1> QED BY <1>6, <1>8, <1>9

\* What an endpoint must hold for the planner to find nothing to do about it.
AsDesired(body, target) ==
    /\ body.url = target.url /\ body.events = target.events /\ body.api = target.api
    /\ body.desc = target.desc /\ body.meta = target.meta /\ body.status = "enabled"

LEMMA DriftOfObserved ==
    ASSUME NEW list \in Seq(Listed), NEW in \in RawInput, NEW i \in DOMAIN list
    PROVE  /\ AsDesired(list[i].body, TargetOf(in)) =>
                 ClassifyDrift(TargetOf(in), Observed(list)[i].body) = "none"
           /\ ClassifyDrift(TargetOf(in), Observed(list)[i].body) = "none" =>
                 list[i].body.status = "enabled" /\ list[i].body.url.site = in.url.site
           /\ ClassifyDrift(TargetOf(in), Observed(list)[i].body) = "mutable" =>
                 list[i].body.api = TargetOf(in).api
  <1> DEFINE body == list[i].body
             seen == Observed(list)[i].body
             target == TargetOf(in)
  <1>1. body \in Endpoint /\ body.url \in URL
    BY ListedParts
  <1>2. seen = [body EXCEPT !.url = NormalizeURL(body.url)]
    BY ObservedParts
  <1> HIDE DEF body
  <1>3. /\ seen.url = NormalizeURL(body.url) /\ seen.events = body.events /\ seen.api = body.api
        /\ seen.desc = body.desc /\ seen.meta = body.meta /\ seen.status = body.status
    <2> HIDE DEF seen
    <2> QED BY <1>1, <1>2 DEF Endpoint
  <1>4. /\ NormalizeURL(body.url).site = body.url.site
        /\ NormalizeURL(target.url) = target.url /\ target.url.site = in.url.site
    BY <1>1, NormalizedURL, TargetParts
  <1> HIDE DEF seen, target
  <1>5. AsDesired(body, target) => ClassifyDrift(target, seen) = "none"
    BY <1>3, <1>4 DEF AsDesired, ClassifyDrift, MetadataEqual
  <1>6. ClassifyDrift(target, seen) = "none" =>
           body.status = "enabled" /\ body.url.site = in.url.site
    BY <1>3, <1>4 DEF ClassifyDrift
  <1>7. ClassifyDrift(target, seen) = "mutable" => body.api = target.api
    BY <1>3 DEF ClassifyDrift
  <1> QED BY <1>5, <1>6, <1>7 DEF body, seen, target

\* In public mode the plan is quiet when the first of ours is as desired.
LEMMA NothingLeftToDo ==
    ASSUME NEW list \in Seq(Listed), NEW in \in RawInput, NEW q \in Request,
           in.mode = "public", NEW p \in OursIn(list), \A j \in OursIn(list) : p <= j,
           AsDesired(list[p].body, TargetOf(in))
    PROVE  FirstType(PlanOf(list, in, q)) \in Quiet
  <1>1. p = FirstOf(OursIn(list)) /\ p \in DOMAIN list
    <2>1. OursIn(list) \subseteq DOMAIN list /\ DOMAIN list = 1..Len(list) /\ Len(list) \in Nat
      BY DEF OursIn
    <2>2. OursIn(list) \subseteq Nat /\ OursIn(list) # {}
      BY <2>1
    <2>3. FirstOf(OursIn(list)) \in OursIn(list) /\ FirstOf(OursIn(list)) <= p
      BY <2>2, FirstOfPlaces
    <2> QED BY <2>1, <2>2, <2>3
  <1>2. ClassifyDrift(TargetOf(in), Observed(list)[p].body) = "none"
    BY <1>1, DriftOfObserved
  <1>3. CASE PlanOf(list, in, q).actions = <<>>
    BY <1>3 DEF FirstType, Quiet
  <1>4. CASE PlanOf(list, in, q).actions # <<>>
    <2>1. Chosen(list, in, PlanOf(list, in, q).actions[1])
      BY <1>4, PlanShape
    <2>2. PlanOf(list, in, q).actions[1].type = "NO_OP"
      BY <1>1, <1>2, <2>1 DEF Chosen
    <2> QED BY <1>4, <2>2 DEF FirstType, Quiet
  <1> QED BY <1>3, <1>4

\* The inputs of an action in public mode name a URL.
LEMMA PublicHasURL ==
    ASSUME NEW in \in RawInput, Usable(in), in.mode = "public"
    PROVE  TargetOf(in).url # NoURL
  <1>1. TargetOf(in).url.site \in Sites
    BY TargetParts, PlannerAssumption DEF Usable
  <1>2. NoURL.site = "" /\ "" \notin Sites
    BY PlannerAssumption, Zenon DEF NoURL
  <1> QED BY <1>1, <1>2
--------------------------------------------------------------------------------
(* Carrying a plan out. *)

\* What it leaves: the account as it was, a new endpoint that comes first, or one
\* endpoint brought to its target.
Kept == account' = account /\ lastId' = lastId

Added ==
    /\ account' = <<[id |-> lastId + 1, body |-> CreateBody(TargetOf(raw))]>> \o account
    /\ lastId' = lastId + 1

Updated ==
    /\ lastId' = lastId /\ account' \in Seq(Listed) /\ DOMAIN account' = DOMAIN account
    /\ LET p == FirstOf(OursIn(account))
       IN  /\ p \in OursIn(account)
           /\ \A i \in DOMAIN account \ {p} : account'[i] = account[i]
           /\ account'[p].id = account[p].id
           /\ AsDesired(account'[p].body, TargetOf(raw))

LEMMA BodiesSent ==
    ASSUME NEW target \in Desired
    PROVE  /\ CreateBody(target) \in Endpoint /\ AsDesired(CreateBody(target), target)
           /\ \A body \in Endpoint :
                 /\ UpdateBody(body, target) \in Endpoint
                 /\ body.api = target.api => AsDesired(UpdateBody(body, target), target)
  <1>1. CreateBody(target) \in Endpoint /\ AsDesired(CreateBody(target), target)
    BY DEF CreateBody, Endpoint, Desired, AsDesired
  <1>2. ASSUME NEW body \in Endpoint
        PROVE  /\ UpdateBody(body, target) \in Endpoint
               /\ body.api = target.api => AsDesired(UpdateBody(body, target), target)
    <2>1. UpdateBody(body, target) \in Endpoint
      BY DEF UpdateBody, Endpoint, Desired
    <2>2. LET u == UpdateBody(body, target)
          IN  /\ u.url = target.url /\ u.events = target.events /\ u.api = body.api
              /\ u.desc = target.desc /\ u.meta = target.meta /\ u.status = "enabled"
      BY DEF UpdateBody, Endpoint
    <2> QED BY <2>1, <2>2 DEF AsDesired
  <1> QED BY <1>1, <1>2

\* The first action of a plan that is carried out, and what became of it.
LEMMA CarriedOut ==
    ASSUME Inv, CarryOut, plan.actions # <<>>
    PROVE  /\ plan = PlanOf(account, raw, request) /\ Usable(raw)
           /\ Chosen(account, raw, plan.actions[1])
           /\ account \in Seq(Listed) /\ lastId \in Nat
           /\ \/ Kept /\ (raw.mode = "public" => plan.actions[1].type \in {"NO_OP", "BLOCKED"})
              \/ /\ Added /\ TargetOf(raw) \in Desired
                 /\ plan.actions[1].type \in {"CREATE", "REPLACE"}
              \/ Updated /\ TargetOf(raw) \in Desired /\ plan.actions[1].type = "UPDATE"
  <1> DEFINE action == plan.actions[1]
             target == TargetOf(raw)
             p == FirstOf(OursIn(account))
  <1>1. /\ account \in Seq(Listed) /\ lastId \in Nat /\ raw \in RawInput /\ request \in Request
        /\ plan = PlanOf(account, raw, request)
    BY DEF Inv, TypeOK, PlanIsCurrent, CarryOut
  <1>2. Usable(raw) /\ Chosen(account, raw, action)
    BY <1>1, PlanShape
  <1>3. account' = Carried(action) /\ lastId' = lastId + Len(account') - Len(account)
    BY DEF CarryOut
  <1>4. Target = target
    BY DEF Target, TargetOf
  <1>5. Len(account) \in Nat /\ DOMAIN account = 1..Len(account)
    BY <1>1
  <1>6. account' = account => Kept
    BY <1>1, <1>3, <1>5 DEF Kept
  <1>7. target.url # NoURL => target \in Desired
    BY <1>1, <1>2, TargetParts
  <1>8. CASE target.url = NoURL
    <2>1. Kept
      BY <1>3, <1>4, <1>6, <1>8 DEF Carried
    <2>2. raw.mode # "public"
      BY <1>1, <1>2, <1>8, PublicHasURL
    <2> QED BY <1>1, <1>2, <2>1, <2>2
  <1>9. CASE target.url # NoURL /\ action.type \in {"CREATE", "REPLACE"}
    <2> DEFINE new == [id |-> lastId + 1, body |-> CreateBody(target)]
    <2>1. account' = <<new>> \o account
      BY <1>3, <1>4, <1>9 DEF Carried
    <2>2. new \in Listed
      BY <1>1, <1>7, <1>9, BodiesSent DEF Listed
    <2> HIDE DEF new
    <2>3. Len(account') = Len(account) + 1
      BY <1>1, <2>1, <2>2
    <2>4. lastId' = lastId + 1
      BY <1>1, <1>3, <1>5, <2>3
    <2> QED BY <1>1, <1>2, <1>7, <1>9, <2>1, <2>4 DEF Added, new
  <1>10. CASE target.url # NoURL /\ action.type = "UPDATE"
    <2>1. /\ p \in DOMAIN account /\ p \in OursIn(account) /\ action.remote = account[p].id
          /\ ClassifyDrift(target, Observed(account)[p].body) = "mutable"
      <3>1. /\ OursIn(account) # {} /\ action.remote = account[p].id
            /\ ClassifyDrift(target, Observed(account)[p].body) = "mutable"
        BY <1>2, <1>10 DEF Chosen
      <3>2. p \in DOMAIN account /\ account[p].body.meta.binding = Binding
        BY <1>1, <3>1, FoundPlaces
      <3> QED BY <3>1, <3>2 DEF OursIn
    <2>2. account' = [i \in DOMAIN account |->
                         IF account[i].id = action.remote
                         THEN [account[i] EXCEPT !.body = UpdateBody(account[i].body, target)]
                         ELSE account[i]]
      BY <1>3, <1>4, <1>10 DEF Carried
    <2> DEFINE new == [account[p] EXCEPT !.body = UpdateBody(account[p].body, target)]
    <2>3. /\ DOMAIN account' = DOMAIN account
          /\ account'[p] = new
          /\ \A i \in DOMAIN account \ {p} : account'[i] = account[i]
      <3>1. \A i \in DOMAIN account \ {p} : account[i].id # account[p].id
        BY <2>1 DEF Inv, IdsAreUnique
      <3> QED BY <2>1, <2>2, <3>1
    <2>4. account[p] \in Listed /\ account[p].body \in Endpoint /\ account[p].body.api = target.api
      BY <1>1, <2>1, ListedParts, DriftOfObserved
    <2>5. new.id = account[p].id /\ new.body = UpdateBody(account[p].body, target) /\ new \in Listed
      <3>1. UpdateBody(account[p].body, target) \in Endpoint
        BY <1>7, <1>10, <2>4, BodiesSent
      <3> QED BY <2>4, <3>1 DEF Listed
    <2> HIDE DEF new
    <2>6. AsDesired(account'[p].body, target) /\ account'[p].id = account[p].id
      BY <1>7, <1>10, <2>3, <2>4, <2>5, BodiesSent
    <2>7. account' \in Seq(Listed) /\ Len(account') = Len(account)
      <3>1. \A i \in 1..Len(account) : account[i] \in Listed /\ account'[i] \in Listed
        BY <1>1, <1>5, <2>3, <2>5
      <3>2. account' \in [1..Len(account) -> Listed]
        <4>1. account' = [i \in 1..Len(account) |-> account'[i]]
          BY <1>5, <2>2
        <4> QED BY <3>1, <4>1
      <3> QED BY <1>5, <3>2
    <2>8. lastId' = lastId
      BY <1>1, <1>3, <1>5, <2>7
    <2> QED BY <1>1, <1>2, <1>7, <1>10, <2>1, <2>3, <2>6, <2>7, <2>8 DEF Updated
  <1>11. CASE target.url # NoURL /\ action.type \notin {"CREATE", "REPLACE", "UPDATE"}
    <2>1. Kept
      BY <1>3, <1>4, <1>6, <1>11 DEF Carried
    <2>2. raw.mode = "public" => action.type \in {"NO_OP", "BLOCKED"}
      BY <1>2, <1>11 DEF Chosen
    <2> QED BY <1>1, <1>2, <2>1, <2>2
  <1> QED BY <1>8, <1>9, <1>10, <1>11

\* A new endpoint comes before all others.
LEMMA AddedPlaces ==
    ASSUME NEW list \in Seq(Listed), NEW new \in Listed
    PROVE  /\ <<new>> \o list \in Seq(Listed) /\ DOMAIN (<<new>> \o list) = 1..(Len(list) + 1)
           /\ (<<new>> \o list)[1] = new
           /\ \A i \in DOMAIN list : (<<new>> \o list)[i + 1] = list[i]
           /\ \A i \in DOMAIN (<<new>> \o list) : i # 1 =>
                 i - 1 \in DOMAIN list /\ (<<new>> \o list)[i] = list[i - 1]
  OBVIOUS

LEMMA CarryOutKeepsTypes ==
    ASSUME Inv, CarryOut
    PROVE  TypeOK' /\ IdsAreUnique'
  <1>1. /\ account \in Seq(Listed) /\ lastId \in Nat /\ raw' = raw /\ request' = request
        /\ raw \in RawInput /\ request \in Request /\ DOMAIN account = 1..Len(account)
        /\ phase' = "ask" /\ settled' = TRUE /\ changes' = changes /\ changes \in 0..MaxChanges
        /\ \A i \in DOMAIN account : account[i].id \in 1..lastId
        /\ \A i, j \in DOMAIN account : i # j => account[i].id # account[j].id
    BY DEF Inv, TypeOK, IdsAreUnique, CarryOut
  <1>2. SUFFICES /\ account' \in Seq(Listed) /\ lastId' \in Nat /\ IdsAreUnique'
    BY <1>1 DEF TypeOK
  <1>3. CASE Kept
    BY <1>1, <1>3 DEF Kept, IdsAreUnique
  <1>4. CASE Added /\ TargetOf(raw) \in Desired
    <2> DEFINE new == [id |-> lastId + 1, body |-> CreateBody(TargetOf(raw))]
    <2>1. new \in Listed /\ new.id = lastId + 1
      BY <1>1, <1>4, BodiesSent DEF Listed
    <2>2. account' = <<new>> \o account /\ lastId' = lastId + 1
      BY <1>4 DEF Added
    <2> HIDE DEF new
    <2>3. /\ account' \in Seq(Listed) /\ account'[1] = new
          /\ \A i \in DOMAIN account' : i # 1 =>
                 i - 1 \in DOMAIN account /\ account'[i] = account[i - 1]
          /\ DOMAIN account' \subseteq Nat
      BY <1>1, <2>1, <2>2, AddedPlaces
    <2>4. ASSUME NEW i \in DOMAIN account'
          PROVE  /\ account'[i].id \in 1..lastId'
                 /\ account'[i].id = lastId + 1 <=> i = 1
      <3>1. CASE i = 1
        BY <1>1, <2>1, <2>2, <2>3, <3>1
      <3>2. CASE i # 1
        <4>1. account'[i].id \in 1..lastId
          BY <1>1, <2>3, <2>4, <3>2
        <4> QED BY <1>1, <2>2, <3>2, <4>1
      <3> QED BY <3>1, <3>2
    <2>5. ASSUME NEW i \in DOMAIN account', NEW j \in DOMAIN account', i # j
          PROVE  account'[i].id # account'[j].id
      <3>1. CASE i = 1 \/ j = 1
        BY <2>4, <2>5, <3>1
      <3>2. CASE i # 1 /\ j # 1
        <4>1. i - 1 \in DOMAIN account /\ j - 1 \in DOMAIN account /\ i - 1 # j - 1
              /\ account'[i] = account[i - 1] /\ account'[j] = account[j - 1]
          BY <2>3, <2>5, <3>2
        <4> QED BY <1>1, <4>1
      <3> QED BY <3>1, <3>2
    <2> QED BY <1>1, <2>2, <2>3, <2>4, <2>5 DEF IdsAreUnique
  <1>5. CASE Updated
    <2>1. \A i \in DOMAIN account : account'[i].id = account[i].id
      BY <1>5 DEF Updated
    <2> QED BY <1>1, <1>5, <2>1 DEF Updated, IdsAreUnique
  <1>6. plan.actions = <<>> => Kept
    BY DEF CarryOut, Kept
  <1> QED BY <1>3, <1>4, <1>5, <1>6, CarriedOut

\* After an addition or an update the first of ours is as desired.
LEMMA CarriedFirst ==
    ASSUME Inv, CarryOut, Added \/ Updated, TargetOf(raw) \in Desired
    PROVE  \E p \in OursIn(account') :
              /\ \A j \in OursIn(account') : p <= j
              /\ AsDesired(account'[p].body, TargetOf(raw))
  <1>1. /\ account \in Seq(Listed) /\ lastId \in Nat /\ raw \in RawInput
    BY DEF Inv, TypeOK
  <1>2. TargetOf(raw).meta.binding = Binding
    BY <1>1, TargetParts
  <1>3. CASE Added
    <2> DEFINE new == [id |-> lastId + 1, body |-> CreateBody(TargetOf(raw))]
    <2>1. new \in Listed /\ new.body = CreateBody(TargetOf(raw))
      BY <1>1, BodiesSent DEF Listed
    <2>2. account' = <<new>> \o account
      BY <1>3 DEF Added
    <2> HIDE DEF new
    <2>3. account'[1] = new /\ DOMAIN account' = 1..(Len(account) + 1) /\ Len(account) \in Nat
      BY <1>1, <2>1, <2>2, AddedPlaces
    <2>4. AsDesired(account'[1].body, TargetOf(raw))
      BY <2>1, <2>3, BodiesSent
    <2>5. 1 \in OursIn(account')
      BY <1>2, <2>3, <2>4 DEF OursIn, AsDesired
    <2>6. \A j \in OursIn(account') : 1 <= j
      BY <2>3 DEF OursIn
    <2> QED BY <2>4, <2>5, <2>6
  <1>4. CASE Updated
    <2> DEFINE p == FirstOf(OursIn(account))
    <2>1. /\ p \in OursIn(account) /\ DOMAIN account' = DOMAIN account
          /\ \A i \in DOMAIN account \ {p} : account'[i] = account[i]
          /\ AsDesired(account'[p].body, TargetOf(raw))
      BY <1>4 DEF Updated
    <2>2. \A j \in OursIn(account) : p <= j
      <3>1. OursIn(account) \subseteq Nat
        BY <1>1 DEF OursIn
      <3> QED BY <2>1, <3>1, FirstOfPlaces
    <2> HIDE DEF p
    <2>3. OursIn(account') = OursIn(account)
      BY <1>2, <2>1 DEF OursIn, AsDesired
    <2> QED BY <2>1, <2>2, <2>3
  <1> QED BY <1>3, <1>4

LEMMA CarryOutConverges ==
    ASSUME Inv, CarryOut
    PROVE  Converged'
  <1>1. /\ account' \in Seq(Listed) /\ raw \in RawInput /\ request \in Request
        /\ raw' = raw /\ request' = request /\ plan = PlanOf(account, raw, request)
    BY CarryOutKeepsTypes DEF Inv, TypeOK, CarryOut, PlanIsCurrent
  <1>2. SUFFICES ASSUME raw.mode = "public"
                 PROVE  FirstType(PlanOf(account', raw, request)) \in Quiet
    BY <1>1 DEF Converged
  <1>3. CASE plan.actions = <<>>
    <2>1. account' = account
      BY <1>3 DEF CarryOut
    <2> QED BY <1>1, <1>3, <2>1 DEF FirstType, Quiet
  <1>4. CASE /\ plan.actions # <<>> /\ Kept /\ plan.actions[1].type \in {"NO_OP", "BLOCKED"}
    BY <1>1, <1>4 DEF Kept, FirstType, Quiet
  <1>5. CASE (Added \/ Updated) /\ TargetOf(raw) \in Desired
    BY <1>1, <1>2, <1>5, CarriedFirst, NothingLeftToDo
  <1> QED BY <1>2, <1>3, <1>4, <1>5, CarriedOut

LEMMA CarryOutServes ==
    ASSUME Inv, CarryOut
    PROVE  ProjectsOnlyAServedURL'
  <1>1. /\ account \in Seq(Listed) /\ raw \in RawInput /\ request \in Request
        /\ raw' = raw /\ request' = request /\ plan' = plan
    BY DEF Inv, TypeOK, CarryOut
  <1>2. SUFFICES ASSUME NEW i \in DOMAIN plan.actions, plan.actions[i].type = "PROJECT_OUTPUT"
                 PROVE  /\ request.references = {"runtime", "webhook-verification"}
                        /\ raw.mode = "public" =>
                              \E p \in DOMAIN account' :
                                 /\ account'[p].body.meta.binding = Binding
                                 /\ account'[p].body.status = "enabled"
                                 /\ account'[p].body.url.site = raw.url.site
    BY <1>1 DEF ProjectsOnlyAServedURL, Projects, Webhooks, Ours
  <1>3. CASE plan.actions = <<>>
    BY <1>2, <1>3
  <1>4. CASE plan.actions # <<>>
    <2>1. /\ plan = PlanOf(account, raw, request) /\ Chosen(account, raw, plan.actions[1])
      BY <1>4, CarriedOut
    <2>2. /\ plan.actions[1].type # "BLOCKED"
          /\ request.references = {"runtime", "webhook-verification"}
      BY <1>1, <1>2, <1>4, <2>1, PlanShape
    <2>3. ASSUME raw.mode = "public", Kept, plan.actions[1].type = "NO_OP"
          PROVE  \E p \in DOMAIN account' : /\ account'[p].body.meta.binding = Binding
                                            /\ account'[p].body.status = "enabled"
                                            /\ account'[p].body.url.site = raw.url.site
      <3> DEFINE p == FirstOf(OursIn(account))
      <3>1. /\ OursIn(account) # {}
            /\ ClassifyDrift(TargetOf(raw), Observed(account)[p].body) = "none"
        BY <2>1, <2>3 DEF Chosen
      <3>2. p \in DOMAIN account /\ account[p].body.meta.binding = Binding
        BY <1>1, <3>1, FoundPlaces
      <3>3. account[p].body.status = "enabled" /\ account[p].body.url.site = raw.url.site
        BY <1>1, <3>1, <3>2, DriftOfObserved
      <3> HIDE DEF p
      <3> QED BY <2>3, <3>2, <3>3 DEF Kept
    <2>4. ASSUME Added \/ Updated, TargetOf(raw) \in Desired
          PROVE  \E p \in DOMAIN account' : /\ account'[p].body.meta.binding = Binding
                                            /\ account'[p].body.status = "enabled"
                                            /\ account'[p].body.url.site = raw.url.site
      <3>1. PICK p \in OursIn(account') : AsDesired(account'[p].body, TargetOf(raw))
        BY <2>4, CarriedFirst
      <3>2. account'[p].body.url.site = raw.url.site /\ account'[p].body.status = "enabled"
        BY <1>1, <3>1, TargetParts DEF AsDesired
      <3> QED BY <3>1, <3>2 DEF OursIn
    <2> QED BY <1>4, <2>2, <2>3, <2>4, CarriedOut
  <1> QED BY <1>3, <1>4
--------------------------------------------------------------------------------
(* The invariant is one. *)

LEMMA ChangesBounded ==
    /\ 0 \in 0..MaxChanges
    /\ \A n \in 0..MaxChanges : n < MaxChanges => n + 1 \in 0..MaxChanges
  <1>1. MaxChanges \in Nat
    BY PlannerAssumption
  <1> QED BY <1>1

LEMMA InvInit == Init => Inv
  <1> SUFFICES ASSUME Init PROVE Inv
    OBVIOUS
  <1>1. /\ account \in Seq(Listed) /\ lastId = Len(account) /\ raw \in RawInput
        /\ request \in Request /\ settled = FALSE /\ phase = "ask" /\ changes = 0
        /\ IdsAreUnique
    BY PlannerAssumption DEF Init, IdsAreUnique
  <1>2. TypeOK
    <2>1. lastId \in Nat /\ changes \in 0..MaxChanges
      BY <1>1, ChangesBounded
    <2>2. phase \in {"ask", "apply"} /\ settled \in BOOLEAN
      BY <1>1, Zenon
    <2> QED BY <1>1, <2>1, <2>2 DEF TypeOK
  <1>3. PlanIsCurrent /\ Converged /\ ProjectsOnlyAServedURL
    BY <1>1 DEF PlanIsCurrent, Converged, ProjectsOnlyAServedURL
  <1> QED BY <1>1, <1>2, <1>3 DEF Inv

LEMMA MakePlanKeepsInv == ASSUME Inv, MakePlan PROVE Inv'
  <1>1. /\ phase' = "apply" /\ UNCHANGED <<account, lastId, raw, request, settled, changes>>
        /\ plan' = PlanOf(account, raw, request)
    BY DEF MakePlan, PlanOf, Observation, Resources
  <1>2. TypeOK' /\ IdsAreUnique' /\ PlanIsCurrent'
    BY <1>1 DEF Inv, TypeOK, IdsAreUnique, PlanIsCurrent
  <1>3. Converged' /\ ProjectsOnlyAServedURL'
    BY <1>1 DEF Inv, Converged, ProjectsOnlyAServedURL
  <1> QED BY <1>2, <1>3 DEF Inv

LEMMA EditedBodies ==
    ASSUME NEW body \in Endpoint, NEW edited \in Edited(body)
    PROVE  edited \in Endpoint
  <1>1. body.url \in URL /\ body.meta \in Metadata
    BY DEF Endpoint
  <1>2. CASE edited = [body EXCEPT !.status = "disabled"]
    BY <1>2 DEF Endpoint
  <1>3. CASE \E e \in SUBSET Events \ {{}} : edited = [body EXCEPT !.events = e]
    BY <1>3 DEF Endpoint
  <1>4. ASSUME NEW url \in URL PROVE [body EXCEPT !.url = url] \in Endpoint
    BY DEF Endpoint
  <1>5. ASSUME NEW meta \in Metadata PROVE [body EXCEPT !.meta = meta] \in Endpoint
    BY DEF Endpoint
  <1>6. CASE edited = [body EXCEPT !.url.slash = ~@]
    <2>1. [body.url EXCEPT !.slash = ~@] \in URL
      BY <1>1 DEF URL
    <2> QED BY <1>4, <1>6, <2>1
  <1>7. CASE \E s \in Sites : edited = [body EXCEPT !.url.site = s]
    <2>1. \A s \in Sites : [body.url EXCEPT !.site = s] \in URL
      BY <1>1 DEF URL
    <2> QED BY <1>4, <1>7, <2>1
  <1>8. CASE edited = [body EXCEPT !.meta.resource = FALSE]
    <2>1. [body.meta EXCEPT !.resource = FALSE] \in Metadata
      BY <1>1 DEF Metadata
    <2> QED BY <1>5, <1>8, <2>1
  <1>9. CASE edited = [body EXCEPT !.meta.binding = NoBinding]
    <2>1. [body.meta EXCEPT !.binding = NoBinding] \in Metadata
      BY <1>1 DEF Metadata
    <2> QED BY <1>5, <1>9, <2>1
  <1> QED BY <1>2, <1>3, <1>6, <1>7, <1>8, <1>9 DEF Edited

\* What is left when one element is taken out.
LEMMA OneDeleted ==
    ASSUME NEW S, NEW s \in Seq(S), NEW i \in 1..Len(s)
    PROVE  LET rest == SubSeq(s, 1, i - 1) \o SubSeq(s, i + 1, Len(s))
           IN  /\ rest \in Seq(S) /\ DOMAIN rest = 1..(Len(s) - 1)
               /\ \A k \in 1..(i - 1) : rest[k] = s[k]
               /\ \A k \in i..(Len(s) - 1) : rest[k] = s[k + 1]
  <1> DEFINE n == Len(s)
             front == SubSeq(s, 1, i - 1)
             back == SubSeq(s, i + 1, n)
  <1>1. n \in Nat /\ i \in 1..n /\ \A k \in 1..n : s[k] \in S
    OBVIOUS
  <1> HIDE DEF n
  <1>2. /\ front \in Seq(S) /\ Len(front) = i - 1
        /\ \A k \in 1..(i - 1) : front[k] = s[k]
    <2>1. \A k \in 1..(i - 1) : s[k] \in S
      BY <1>1
    <2>2. /\ front \in Seq(S) /\ Len(front) = (IF 1 <= i - 1 THEN i - 1 - 1 + 1 ELSE 0)
          /\ \A k \in 1..(i - 1 - 1 + 1) : front[k] = s[1 + k - 1]
      BY <1>1, <2>1, SubSeqProperties
    <2> HIDE DEF front
    <2> QED BY <1>1, <2>2
  <1>3. /\ back \in Seq(S) /\ Len(back) = n - i
        /\ \A k \in 1..(n - i) : back[k] = s[i + k]
    <2>1. \A k \in (i + 1)..n : s[k] \in S
      BY <1>1
    <2>2. /\ back \in Seq(S) /\ Len(back) = (IF i + 1 <= n THEN n - (i + 1) + 1 ELSE 0)
          /\ \A k \in 1..(n - (i + 1) + 1) : back[k] = s[i + 1 + k - 1]
      BY <1>1, <2>1, SubSeqProperties
    <2> HIDE DEF back
    <2> QED BY <1>1, <2>2
  <1> HIDE DEF front, back
  <1>4. /\ front \o back \in Seq(S) /\ Len(front \o back) = n - 1
        /\ \A k \in 1..(n - 1) : (front \o back)[k] = IF k <= i - 1 THEN front[k] ELSE back[k - (i - 1)]
    <2>1. /\ front \o back \in Seq(S) /\ Len(front \o back) = Len(front) + Len(back)
          /\ \A k \in 1..(Len(front) + Len(back)) :
                (front \o back)[k] = IF k <= Len(front) THEN front[k] ELSE back[k - Len(front)]
      BY <1>2, <1>3, ConcatProperties
    <2>2. Len(front) + Len(back) = n - 1 /\ Len(front) = i - 1
      BY <1>1, <1>2, <1>3
    <2> QED BY <2>1, <2>2
  <1>5. \A k \in i..(n - 1) : (front \o back)[k] = s[k + 1]
    <2> SUFFICES ASSUME NEW k \in i..(n - 1) PROVE (front \o back)[k] = s[k + 1]
      OBVIOUS
    <2>1. k - (i - 1) \in 1..(n - i) /\ i + (k - (i - 1)) = k + 1
      BY <1>1
    <2> QED BY <1>1, <1>3, <1>4, <2>1
  <1>6. \A k \in 1..(i - 1) : (front \o back)[k] = s[k]
    BY <1>1, <1>2, <1>4
  <1>7. DOMAIN (front \o back) = 1..(n - 1)
    BY <1>4
  <1> QED BY <1>4, <1>5, <1>6, <1>7 DEF front, back, n

LEMMA DriftKeepsInv == ASSUME Inv, Drift PROVE Inv'
  <1>1. /\ account \in Seq(Listed) /\ lastId \in Nat /\ DOMAIN account = 1..Len(account)
        /\ Len(account) \in Nat /\ IdsAreUnique
        /\ \A k \in DOMAIN account : account[k] \in Listed /\ account[k].body \in Endpoint
    BY ListedParts DEF Inv, TypeOK
  <1>2. /\ phase' = "ask" /\ settled' = FALSE /\ changes' \in 0..MaxChanges
        /\ UNCHANGED <<lastId, raw, request>>
    BY ChangesBounded DEF Drift, Changed, Inv, TypeOK
  <1>3. account' \in Seq(Listed) /\ IdsAreUnique'
    <2>1. CASE \E i \in DOMAIN account : \E body \in Edited(account[i].body) :
                  account' = [account EXCEPT ![i].body = body]
      <3>1. PICK i \in DOMAIN account : \E body \in Edited(account[i].body) :
                  account' = [account EXCEPT ![i] = [account[i] EXCEPT !.body = body]]
        BY <2>1
      <3> PICK body \in Edited(account[i].body) :
                  account' = [account EXCEPT ![i] = [account[i] EXCEPT !.body = body]]
        BY <3>1
      <3>2. /\ [account[i] EXCEPT !.body = body] \in Listed
            /\ [account[i] EXCEPT !.body = body].id = account[i].id
        BY <1>1, EditedBodies DEF Listed
      <3>3. /\ account' \in Seq(Listed) /\ DOMAIN account' = DOMAIN account
            /\ \A k \in DOMAIN account : account'[k].id = account[k].id
        BY <1>1, <3>1, <3>2
      <3> QED BY <1>1, <1>2, <3>3 DEF IdsAreUnique
    <2>2. CASE \E i \in DOMAIN account :
                  account' = SubSeq(account, 1, i - 1) \o SubSeq(account, i + 1, Len(account))
      <3>1. PICK i \in 1..Len(account) :
                  account' = SubSeq(account, 1, i - 1) \o SubSeq(account, i + 1, Len(account))
        BY <1>1, <2>2
      <3>2. /\ account' \in Seq(Listed) /\ DOMAIN account' = 1..(Len(account) - 1)
            /\ \A k \in 1..(i - 1) : account'[k] = account[k]
            /\ \A k \in i..(Len(account) - 1) : account'[k] = account[k + 1]
        BY <1>1, <3>1, OneDeleted
      <3> DEFINE old(k) == IF k < i THEN k ELSE k + 1
      <3>3. \A k \in DOMAIN account' : old(k) \in DOMAIN account /\ account'[k] = account[old(k)]
        BY <1>1, <3>2
      <3>4. \A j, k \in DOMAIN account' : j # k => old(j) # old(k)
        BY <1>1, <3>2
      <3> HIDE DEF old
      <3> QED BY <1>1, <1>2, <3>2, <3>3, <3>4 DEF IdsAreUnique
    <2> QED BY <2>1, <2>2 DEF Drift
  <1>4. TypeOK'
    BY <1>1, <1>2, <1>3 DEF Inv, TypeOK
  <1>5. PlanIsCurrent' /\ Converged' /\ ProjectsOnlyAServedURL'
    BY <1>2 DEF PlanIsCurrent, Converged, ProjectsOnlyAServedURL
  <1> QED BY <1>3, <1>4, <1>5 DEF Inv

LEMMA InvNext == Inv /\ [Next]_vars => Inv'
  <1> SUFFICES ASSUME Inv, [Next]_vars PROVE Inv'
    OBVIOUS
  <1>1. CASE MakePlan
    BY <1>1, MakePlanKeepsInv
  <1>2. CASE CarryOut
    <2>1. PlanIsCurrent'
      BY <1>2 DEF CarryOut, PlanIsCurrent
    <2> QED BY <1>2, <2>1, CarryOutKeepsTypes, CarryOutConverges, CarryOutServes DEF Inv
  <1>3. CASE ChangeInputs
    <2>1. /\ phase' = "ask" /\ settled' = FALSE /\ raw' \in RawInput /\ request' \in Request
          /\ changes' \in 0..MaxChanges /\ UNCHANGED <<account, lastId>>
      <3>1. RawInputs \subseteq RawInput /\ Requests \subseteq Request
        BY PlannerAssumption
      <3> QED BY <1>3, <3>1, ChangesBounded DEF ChangeInputs, Changed, Inv, TypeOK
    <2> QED BY <2>1 DEF Inv, TypeOK, IdsAreUnique, PlanIsCurrent, Converged, ProjectsOnlyAServedURL
  <1>4. CASE Drift
    BY <1>4, DriftKeepsInv
  <1>5. CASE UNCHANGED vars
    BY <1>5 DEF vars, Inv, TypeOK, IdsAreUnique, PlanIsCurrent, Converged,
                ProjectsOnlyAServedURL, Projects, Webhooks, Ours
  <1> QED BY <1>1, <1>2, <1>3, <1>4, <1>5 DEF Next
--------------------------------------------------------------------------------
(* What follows. *)

\* Two URLs of a site are one to the planner.
LEMMA SameSite ==
    ASSUME NEW u \in URL, NEW v \in URL, u.site = v.site
    PROVE  NormalizeURL(u) = NormalizeURL(v)
  <1>1. /\ NormalizeURL(u) \in URL /\ NormalizeURL(v) \in URL
        /\ NormalizeURL(u).site = NormalizeURL(v).site
    BY NormalizedURL
  <1>2. NormalizeURL(u).slash = FALSE
    BY DEF NormalizeURL, URL
  <1>3. NormalizeURL(v).slash = FALSE
    BY DEF NormalizeURL, URL
  <1> QED BY <1>1, <1>2, <1>3 DEF URL

LEMMA CreateIsVacant == Inv => CreatesOnlyWhereVacant
  <1> SUFFICES ASSUME Inv, phase = "apply", PlannedType = "CREATE",
                      NEW i \in DOMAIN account
               PROVE  /\ account[i].body.meta.binding # Binding
                      /\ account[i].body.url.site # raw.url.site
    BY DEF CreatesOnlyWhereVacant, Webhooks, Ours
  <1>1. /\ account \in Seq(Listed) /\ raw \in RawInput /\ request \in Request
        /\ plan = PlanOf(account, raw, request)
    BY DEF Inv, TypeOK, PlanIsCurrent
  <1>2. plan.actions # <<>> /\ plan.actions[1].type = "CREATE"
    BY DEF PlannedType
  <1>3. Usable(raw) /\ Chosen(account, raw, plan.actions[1])
    BY <1>1, <1>2, PlanShape
  <1>4. raw.mode = "public" /\ OursIn(account) = {} /\ Serving(account, raw.url) = {}
    BY <1>2, <1>3 DEF Chosen
  <1>5. account[i].body.meta.binding # Binding
        /\ NormalizeURL(account[i].body.url) # NormalizeURL(raw.url)
    BY <1>4 DEF OursIn, Serving
  <1>6. account[i].body.url \in URL /\ raw.url \in URL
    <2>1. raw.url \in URL \cup {NoURL} /\ raw.url.site \in Sites
      BY <1>1, <1>3, <1>4, PlannerAssumption DEF RawInput, Usable
    <2>2. NoURL.site \notin Sites
      BY PlannerAssumption, Zenon DEF NoURL
    <2> QED BY <1>1, <2>1, <2>2, ListedParts
  <1> QED BY <1>5, <1>6, SameSite

\* No step of the provider touches what is not this binding's.
LEMMA OthersKept ==
    ASSUME Inv, CarryOut, NEW w \in Webhooks
    PROVE  Ours(w) \/ w \in Webhooks'
  <1>1. account \in Seq(Listed) /\ lastId \in Nat
    BY DEF Inv, TypeOK
  <1>2. PICK i \in DOMAIN account : w = account[i]
    BY DEF Webhooks
  <1>3. CASE account' = account
    BY <1>3 DEF Webhooks
  <1>4. CASE Added /\ TargetOf(raw) \in Desired
    <2> DEFINE new == [id |-> lastId + 1, body |-> CreateBody(TargetOf(raw))]
    <2>1. new \in Listed
      BY <1>1, <1>4, BodiesSent DEF Listed
    <2>2. account' = <<new>> \o account
      BY <1>4 DEF Added
    <2> HIDE DEF new
    <2>3. i + 1 \in DOMAIN account' /\ account'[i + 1] = w
      BY <1>1, <1>2, <2>1, <2>2, AddedPlaces
    <2> QED BY <2>3 DEF Webhooks
  <1>5. CASE Updated
    <2>1. /\ FirstOf(OursIn(account)) \in OursIn(account) /\ DOMAIN account' = DOMAIN account
          /\ \A k \in DOMAIN account \ {FirstOf(OursIn(account))} : account'[k] = account[k]
      BY <1>5 DEF Updated
    <2>2. CASE i = FirstOf(OursIn(account))
      BY <1>2, <2>1, <2>2 DEF Ours, OursIn
    <2>3. CASE i # FirstOf(OursIn(account))
      BY <1>2, <2>1, <2>3 DEF Webhooks
    <2> QED BY <2>2, <2>3
  <1>6. CASE plan.actions = <<>>
    BY <1>3, <1>6 DEF CarryOut
  <1> QED BY <1>3, <1>4, <1>5, <1>6, CarriedOut DEF Kept
--------------------------------------------------------------------------------
\* The types hold of every reachable state.
THEOREM TypeCorrect == Spec => []TypeOK
  <1>1. Inv => TypeOK
    BY DEF Inv
  <1> QED BY <1>1, InvInit, InvNext, PTL DEF Spec

\* One carried-out plan for public mode leaves nothing to do, whatever the account held
\* and however it had drifted, unless it is blocked (plan.go planWebhook and
\* convergeOwned, webhook.go classifyDrift).
THEOREM OneRoundConverges == Spec => []ConvergesInOneRound
  <1>1. Inv => ConvergesInOneRound
    BY DEF Inv, PlanIsCurrent, Converged, ConvergesInOneRound, FirstType, PlannedType, Quiet
  <1> QED BY <1>1, InvInit, InvNext, PTL DEF Spec

\* An endpoint is created only at a site nothing serves and for a binding that owns
\* none, for any account (webhook.go unmanagedAtURL, ownedBy).
THEOREM CreatedOnlyWhereVacant == Spec => []CreatesOnlyWhereVacant
  BY InvInit, InvNext, CreateIsVacant, PTL DEF Spec

\* A carried-out plan that projects leaves an enabled endpoint of the binding at the
\* desired site in public mode (plan.go Plan, planBilling).
THEOREM ProjectedIsServed == Spec => []ProjectsOnlyAServedURL
  <1>1. Inv => ProjectsOnlyAServedURL
    BY DEF Inv
  <1> QED BY <1>1, InvInit, InvNext, PTL DEF Spec

\* Carrying plans out never changes or removes what another binding, or nobody, owns
\* (webhook.go ownedBy, plan.go blockOnUnmanaged).
THEOREM OthersStay == Spec => OthersUntouched
  <1> DEFINE Stay == CarryOut => \A w \in Webhooks : Ours(w) \/ w \in Webhooks'
  <1>1. Inv /\ [Next]_vars => [Stay]_vars
    BY OthersKept
  <1>2. Spec => [][Stay]_vars
    BY <1>1, InvInit, InvNext, PTL DEF Spec
  <1> QED BY <1>2 DEF OthersUntouched
================================================================================
