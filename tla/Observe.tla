--------------------------------- MODULE Observe ---------------------------------
(***************************************************************************)
(* Observe: the provider enumerates the webhook endpoints of the account,  *)
(* page after page, while others create, delete and edit endpoints; in     *)
(* existing mode it then retrieves the endpoint named by exact id          *)
(* (observe.go).                                                           *)
(*                                                                         *)
(* An endpoint is its id and the livemode it reports; what else an         *)
(* observation holds of it is module Webhook's WebhookAt.  Pages are those *)
(* of module StripeList; a host may report more pages where there are      *)
(* none.  Each request may fail, a cursor that is gone included, which     *)
(* fails the call.  The account request is folded into Start: the          *)
(* observation needs it to succeed and takes nothing else from it.         *)
(***************************************************************************)
EXTENDS StripeList

CONSTANTS MaxObservePages, \* 32 in the source
          MaxId,           \* bound on the ids Stripe gives out
          InitialSize,     \* endpoints on the account at first
          Production,      \* does the host attest production mode?
          Unmoded,         \* may an element come without a livemode field?
          ExistingIds      \* what existing_webhook_id may name; 0 is another mode

ASSUME ObserveAssumption ==
    /\ MaxObservePages \in Nat \ {0}
    /\ InitialSize \in Nat /\ MaxId \in Nat /\ InitialSize <= MaxId
    /\ Production \in BOOLEAN /\ Unmoded \in BOOLEAN /\ ExistingIds \subseteq Nat

VARIABLES endpoints,  \* Stripe: the livemode of each live endpoint
          lastId,     \* Stripe: the last id given out
          stable,     \* history: the endpoints that have lived since Start
          pc, existing, page, startingAfter,
          resources   \* the webhook resources so far, in order

vars == <<endpoints, lastId, stable, pc, existing, page, startingAfter, resources>>
--------------------------------------------------------------------------------
Modes == {"live", "test"} \cup IF Unmoded THEN {"absent"} ELSE {}

Resource == [id : Nat, livemode : Modes]

AttestedMode == IF Production THEN "live" ELSE "test"

\* Mutant: only a production host checks the mode.
CrossCheckLiveOnly(id) == Production => endpoints[id] \in {"absent", "live"}

\* crossCheckMode: an element without the field is not checked.
CrossCheckMode(id) == endpoints[id] \in {"absent", AttestedMode}

\* Mutant: a test endpoint is projected without its livemode.
ResourceWithoutMode(id) ==
    IF endpoints[id] = "test" THEN [id |-> id] ELSE [id |-> id, livemode |-> endpoints[id]]

\* webhookAt and webhookResource
WebhookResource(id) == [id |-> id, livemode |-> endpoints[id]]

\* Mutant: the cursor is the first element of the page.
FirstOfPage(ids) == Head(ids)

\* The cursor advances from the last element of the page.
NextCursor(ids) == Last(ids)

\* observesRemote
ObservesRemote(observed, id) == \E i \in DOMAIN observed : observed[i].id = id

Ids == DOMAIN endpoints

Init ==
    /\ endpoints \in [1..InitialSize -> Modes]
    /\ lastId = InitialSize /\ stable = {}
    /\ existing \in ExistingIds
    /\ pc = "start" /\ page = 0 /\ startingAfter = 0 /\ resources = <<>>

provider == <<pc, existing, page, startingAfter, resources>>
stripe == <<endpoints, lastId>>

\* The checkpoint is durable and the account is readable.
Start ==
    /\ pc = "start"
    /\ pc' = "list" /\ stable' = DOMAIN endpoints
    /\ UNCHANGED <<stripe, existing, page, startingAfter, resources>>

\* Mutant: the last page the loop may read ends the enumeration, more or not.
ListPageUpToLimit ==
    \E more \in {HasMore(Ids, startingAfter), TRUE}, ids \in Data(Ids, startingAfter) :
    /\ pc = "list" /\ page < MaxObservePages
    /\ \A i \in ToSet(ids) : CrossCheckMode(i)
    /\ resources' = resources \o [k \in DOMAIN ids |-> WebhookResource(ids[k])]
    /\ ids = <<>> => ~more
    /\ IF more /\ page + 1 < MaxObservePages
       THEN page' = page + 1 /\ startingAfter' = NextCursor(ids) /\ pc' = pc
       ELSE pc' = "listed" /\ UNCHANGED <<page, startingAfter>>
    /\ UNCHANGED <<stripe, stable, existing>>

\* One round of the loop of observeWebhooks.
ListPage ==
    \E more \in {HasMore(Ids, startingAfter), TRUE}, ids \in Data(Ids, startingAfter) :
    /\ pc = "list" /\ page < MaxObservePages
    /\ \A i \in ToSet(ids) : CrossCheckMode(i)
    /\ resources' = resources \o [k \in DOMAIN ids |-> WebhookResource(ids[k])]
    /\ ids = <<>> => ~more
    /\ IF more
       THEN page' = page + 1 /\ startingAfter' = NextCursor(ids) /\ pc' = pc
       ELSE pc' = "listed" /\ UNCHANGED <<page, startingAfter>>
    /\ UNCHANGED <<stripe, stable, existing>>

\* Mutant: nothing answers when the loop has read its last page.
ListRefusedOnMode ==
    /\ pc = "list"
    /\ \E i \in Page(Ids, startingAfter) : ~CrossCheckMode(i)
    /\ pc' = "failed"
    /\ UNCHANGED <<stripe, stable, existing, page, startingAfter, resources>>

\* A page holds an endpoint of the other mode, it reports more and holds none, or
\* there are pages left after the last one the loop reads.
ListRefused ==
    /\ pc = "list"
    /\ \/ page = MaxObservePages
       \/ Page(Ids, startingAfter) = {}
       \/ \E i \in Page(Ids, startingAfter) : ~CrossCheckMode(i)
    /\ pc' = "failed"
    /\ UNCHANGED <<stripe, stable, existing, page, startingAfter, resources>>

\* The rest of Observe: the endpoint existing mode names, unless it is listed.
Finish ==
    /\ pc = "listed"
    /\ IF existing = 0 \/ ObservesRemote(resources, existing)
       THEN pc' = "observed" /\ resources' = resources
       ELSE IF existing \in DOMAIN endpoints /\ CrossCheckMode(existing)
       THEN pc' = "observed" /\ resources' = Append(resources, WebhookResource(existing))
       ELSE pc' = "failed" /\ resources' = resources
    /\ UNCHANGED <<stripe, stable, existing, page, startingAfter>>

\* A request that fails: the broker does not send it, loses the answer, or Stripe
\* refuses it (a cursor that is gone included).
RequestFails ==
    /\ pc \in {"start", "list", "listed"}
    /\ pc' = "failed"
    /\ UNCHANGED <<stripe, stable, existing, page, startingAfter, resources>>

Create ==
    /\ pc \in {"list", "listed"} /\ lastId < MaxId
    /\ lastId' = lastId + 1
    /\ \E mode \in Modes :
           endpoints' = [i \in DOMAIN endpoints \cup {lastId + 1} |->
                            IF i = lastId + 1 THEN mode ELSE endpoints[i]]
    /\ UNCHANGED <<stable, provider>>

Delete ==
    /\ pc \in {"list", "listed"}
    /\ \E d \in DOMAIN endpoints :
           /\ endpoints' = [i \in DOMAIN endpoints \ {d} |-> endpoints[i]]
           /\ stable' = stable \ {d}
    /\ UNCHANGED <<lastId, provider>>

Provider == Start \/ ListPage \/ ListRefused \/ Finish
Next == Provider \/ RequestFails \/ Create \/ Delete

Spec == Init /\ [][Next]_vars

\* The handler runs on: nothing is assumed of the others.
FairSpec == Spec /\ WF_vars(Provider)
--------------------------------------------------------------------------------
TypeOK ==
    /\ lastId \in Nat /\ DOMAIN endpoints \subseteq 1..lastId
    /\ \A i \in DOMAIN endpoints : endpoints[i] \in Modes
    /\ stable \subseteq DOMAIN endpoints
    /\ pc \in {"start", "list", "listed", "observed", "failed"}
    /\ existing \in Nat /\ page \in 0..MaxObservePages /\ startingAfter \in Nat
    /\ resources \in Seq(Resource)

\* A successful observation is complete: it holds every endpoint that lived from its
\* first to its last request, although others came and went between two pages
\* (observe.go observeWebhooks; "never surface a partial, plausible observation").
ObservationIsComplete ==
    pc = "observed" => \A i \in stable : ObservesRemote(resources, i)

\* ... and holds no endpoint twice.
NothingObservedTwice ==
    \A i, j \in DOMAIN resources : i # j => resources[i].id # resources[j].id

\* An observation never mixes modes: no endpoint of a successful one reports a
\* livemode against the host's attestation, the one retrieved by id included.
NoForeignMode ==
    pc = "observed" => \A i \in DOMAIN resources :
        resources[i].livemode \in {"absent", AttestedMode}

\* The call ends, whatever is created meanwhile and even when every page reports
\* more (observe.go maxObservePages).
ObserveEnds == pc = "list" ~> pc \in {"observed", "failed"}
================================================================================
