-------------------------------- MODULE Webhook --------------------------------
(***************************************************************************)
(* The billing webhook endpoint as the provider sees it: the desired shape *)
(* a binding asks for, the endpoint Stripe stores, its projection into an  *)
(* observation, who owns it and how far it has drifted (webhook.go,        *)
(* project.go, the request bodies of apply.go).                            *)
(*                                                                         *)
(* Data is abstract.  A binding address (workspace, environment, binding)  *)
(* is one value, for the code only ever compares the three ids together.   *)
(* An event list is a set: normalizeEvents sorts and de-duplicates it.     *)
(* A URL is a site and whether a slash trails it, which is what            *)
(* normalizeURL removes.                                                   *)
(***************************************************************************)
EXTENDS Naturals, Sequences

CONSTANTS Sites,         \* callback URLs without their trailing slash
          Events,        \* Stripe event names
          APIVersions,   \* pinned Stripe API versions
          Descriptions,
          Bindings,      \* binding addresses
          Binding,       \* the binding this provider process works for
          NoBinding      \* metadata without the codefly_* ids

ASSUME BindingAssumption == Binding \in Bindings /\ NoBinding \notin Bindings

URL == [site : Sites, slash : BOOLEAN]

\* codefly_workspace/_environment/_binding as one value, and whether
\* codefly_resource names the webhook resource type.
Metadata == [binding : Bindings \cup {NoBinding}, resource : BOOLEAN]

\* desiredWebhook: the fields Codefly owns.
Desired == [url : URL, events : SUBSET Events, api : APIVersions,
            desc : Descriptions, meta : Metadata]

\* What Stripe stores for an endpoint, its id and secret aside.
Endpoint == [url : URL, events : SUBSET Events, api : APIVersions,
             desc : Descriptions, meta : Metadata,
             status : {"enabled", "disabled"}]

Owning == {"OWNED", "ADOPTED"}
--------------------------------------------------------------------------------
NormalizeURL(url) == [url EXCEPT !.slash = FALSE]

\* desiredFrom: the metadata is stamped from the binding, never from input.
DesiredFrom(in, binding) ==
    [url |-> in.url, events |-> in.events, api |-> in.api, desc |-> in.desc,
     meta |-> [binding |-> binding, resource |-> TRUE]]

\* Mutant: any metadata that Codefly stamped counts as this binding's.
MetadataMatchesAnyBinding(meta, binding) == meta.binding # NoBinding

\* metadataMatchesBinding compares the three ids and not the resource type.
MetadataMatchesBinding(meta, binding) == meta.binding = binding

\* webhookAt: one element of a filtered response.  Ownership comes from the
\* metadata alone and is never ADOPTED.
WebhookAt(id, endpoint, binding) ==
    [id |-> id,
     own |-> IF MetadataMatchesBinding(endpoint.meta, binding)
             THEN "OWNED" ELSE "UNMANAGED",
     body |-> endpoint]

\* Mutant: the observed URL is compared as Stripe reports it.
ObservedAsReported(resources) == resources

\* observedWebhooks: the projection of an observation the planner reads.
ObservedWebhooks(resources) ==
    [i \in DOMAIN resources |->
        [resources[i] EXCEPT !.body.url = NormalizeURL(@)]]

\* The places of the owned or adopted webhooks carrying this binding's ids.
OwnedBy(observed, binding) ==
    {i \in DOMAIN observed : /\ observed[i].own \in Owning
                             /\ MetadataMatchesBinding(observed[i].body.meta, binding)}

\* Which of them ownedBy returns.
FirstOf(places) == CHOOSE i \in places : \A j \in places : i <= j

\* unmanagedAtURL: what already serves the desired URL and is not Codefly's.
UnmanagedAtURL(observed, url) ==
    {i \in DOMAIN observed : observed[i].body.url = url /\ observed[i].own \notin Owning}

\* metadataEqual compares all four keys, the resource type included.
MetadataEqual(a, b) == a.binding = b.binding /\ a.resource = b.resource

\* Mutant: a disabled endpoint is no drift.
ClassifyDriftOfFields(desired, body) ==
    IF desired.api # body.api THEN "replace"
    ELSE IF \/ desired.url # body.url
            \/ desired.events # body.events
            \/ desired.desc # body.desc
            \/ ~MetadataEqual(desired.meta, body.meta)
         THEN "mutable"
         ELSE "none"

\* classifyDrift
ClassifyDrift(desired, body) ==
    IF desired.api # body.api THEN "replace"
    ELSE IF \/ desired.url # body.url
            \/ desired.events # body.events
            \/ desired.desc # body.desc
            \/ ~MetadataEqual(desired.meta, body.meta)
            \/ body.status # "enabled"
         THEN "mutable"
         ELSE "none"
--------------------------------------------------------------------------------
\* Mutant: the stored endpoint is the target as it is, without a status.
CreateBodyAsDesired(target) == target

\* createBody, and what Stripe stores for it.
CreateBody(target) ==
    [url |-> target.url, events |-> target.events, api |-> target.api,
     desc |-> target.desc, meta |-> target.meta, status |-> "enabled"]

\* Mutant: the update does not re-enable the endpoint.
UpdateBodyLeftDisabled(endpoint, target) ==
    [endpoint EXCEPT !.url = target.url, !.events = target.events,
                     !.desc = target.desc, !.meta = target.meta]

\* updateBody: every owned field but the API version, and disabled=false.
UpdateBody(endpoint, target) ==
    [endpoint EXCEPT !.url = target.url, !.events = target.events,
                     !.desc = target.desc, !.meta = target.meta,
                     !.status = "enabled"]
================================================================================
