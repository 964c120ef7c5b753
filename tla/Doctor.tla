---------------------------------- MODULE Doctor ---------------------------------
(***************************************************************************)
(* Doctor: two read-only requests, the account and the first page of its   *)
(* webhook endpoints, turned into diagnostics (doctor.go, exec.go,         *)
(* errors.go), while others change the account between the two and after.  *)
(*                                                                         *)
(* An endpoint is whether it carries this binding's metadata, which is all *)
(* webhookAt's ownership depends on; the account is what Doctor reads of   *)
(* it.  A response is its delivery and status; any request may get any     *)
(* failure.  Errors of the host's callbacks and bodies that cannot be      *)
(* decoded end the call without diagnostics.                               *)
(***************************************************************************)
EXTENDS StripeList

CONSTANTS MaxId,        \* bound on the ids Stripe gives out
          InitialSize,  \* bound on the endpoints on the account at first
          MaxEdits      \* bound on what others change during the call

ASSUME DoctorAssumption == MaxId \in Nat /\ InitialSize \in 0..MaxId /\ MaxEdits \in Nat

VARIABLES endpoints,   \* Stripe: does the live endpoint carry our metadata?
          account,     \* Stripe: the account resource
          lastId,      \* Stripe: the last id given out
          pc,
          diagnostics, \* what the call has to say so far
          healthy,
          edits,
          owned,       \* history: endpoints that have been ours all along
          everOwned,   \* history: endpoints that were ours at some time
          peak,        \* history: the most endpoints there were at once
          refusals     \* history: responses that were not a 2xx answer

stripe == <<endpoints, account, lastId>>
history == <<owned, everOwned, peak>>
vars == <<stripe, pc, diagnostics, healthy, edits, history, refusals>>
--------------------------------------------------------------------------------
Account == [identity : BOOLEAN, ready : BOOLEAN]  \* charges and onboarding done

Statuses == {200, 400, 401, 403, 404, 429, 500}
Response == [delivery : {"RESPONSE_RECEIVED"}, status : Statuses]
    \cup [delivery : {"NOT_SENT", "SENT_OUTCOME_UNKNOWN"}, status : {0}]

Diagnostic == [severity : {"INFO", "WARNING", "ERROR"},
               code : {"authentication", "permission", "rate-limit", "not-found",
                       "permanent-validation", "timeout-before-send", "outcome-unknown",
                       "account-not-ready", "endpoint-absent"}]

Diag(severity, code) == [severity |-> severity, code |-> code]

\* Mutant: a status the table does not name gets no advertised code.
ClassifyNamed(status) ==
    CASE status = 401 -> "authentication" [] status = 403 -> "permission"
      [] status = 429 -> "rate-limit" [] status = 404 -> "not-found" [] OTHER -> "unknown"

\* ClassifyStripeError of an HTTP status, the one field diagnoseResponse fills in.
ClassifyStripeError(status) ==
    CASE status = 401 -> "authentication"
      [] status = 403 -> "permission"
      [] status = 429 -> "rate-limit"
      [] status = 404 -> "not-found"
      [] OTHER -> "permanent-validation"

\* Mutant: a request of unknown outcome is only worth a warning, and is read on.
DiagnoseErrorsOnly(response) ==
    CASE response.delivery = "NOT_SENT" -> {Diag("ERROR", "timeout-before-send")}
      [] response.status \notin {0, 200} ->
             {Diag("ERROR", ClassifyStripeError(response.status))}
      [] OTHER -> {}

\* diagnoseResponse: at most one diagnostic, none for a 2xx answer.
DiagnoseResponse(response) ==
    CASE response.delivery = "NOT_SENT" -> {Diag("ERROR", "timeout-before-send")}
      [] response.delivery = "SENT_OUTCOME_UNKNOWN" -> {Diag("WARNING", "outcome-unknown")}
      [] response.status \in 200..299 -> {}
      [] OTHER -> {Diag("ERROR", ClassifyStripeError(response.status))}

HasError(ds) == \E d \in ds : d.severity = "ERROR"

Ids == DOMAIN endpoints
OwnedIds == {i \in Ids : endpoints[i]}

\* Mutants: every endpoint counts as ours; only the newest endpoint is looked at.
AnyEndpointPresent == Page(Ids, 0) # {}
NewestIsOwned == \E i \in OwnedIds : \A j \in Ids : j <= i

\* ownedEndpointPresent, of a 2xx answer: one of the first page is OWNED.
OwnedEndpointPresent == \E i \in Page(Ids, 0) : i \in OwnedIds
--------------------------------------------------------------------------------
Init ==
    /\ \E n \in 0..InitialSize : endpoints \in [1..n -> BOOLEAN] /\ lastId = n
    /\ account \in Account
    /\ pc = "start" /\ diagnostics = {} /\ healthy = FALSE /\ edits = 0
    /\ owned = OwnedIds /\ everOwned = OwnedIds /\ peak = Cardinality(Ids)
    /\ refusals = {}

Refused(response) ==
    refusals' = IF response.status = 200 THEN refusals ELSE refusals \cup {response}

\* The checkpoint is durable and the account is asked for.
AskAccount ==
    /\ pc = "start"
    /\ \E response \in Response :
        LET diagnosed == DiagnoseResponse(response) IN
        /\ Refused(response)
        /\ IF diagnosed # {} THEN pc' = "answered" /\ diagnostics' = diagnosed
           ELSE IF ~account.identity
           THEN pc' = "answered" /\ diagnostics' = {Diag("ERROR", "not-found")}
           ELSE /\ pc' = "account"
                /\ diagnostics' = IF account.ready THEN {}
                                  ELSE {Diag("WARNING", "account-not-ready")}
    /\ UNCHANGED <<stripe, history, healthy, edits>>

\* The first page is asked for.
AskEndpoints ==
    /\ pc = "account"
    /\ \E response \in Response :
        /\ Refused(response)
        /\ IF DiagnoseResponse(response) # {}  \* observeFailure
           THEN pc' = "failed" /\ UNCHANGED <<diagnostics, healthy>>
           ELSE /\ pc' = "answered"
                /\ diagnostics' = diagnostics \cup
                       IF OwnedEndpointPresent THEN {} ELSE {Diag("INFO", "endpoint-absent")}
                /\ healthy' = ~HasError(diagnostics')
    /\ UNCHANGED <<stripe, history, edits>>

\* No host, no origin, a checkpoint that is not durable, a callback that fails, a
\* body that cannot be decoded.
CallFails ==
    /\ pc \in {"start", "account"}
    /\ pc' = "failed"
    /\ UNCHANGED <<stripe, diagnostics, healthy, edits, history, refusals>>

\* Others create, delete and edit endpoints, and the account becomes ready or not.
Edit ==
    /\ pc \in {"start", "account"} /\ edits < MaxEdits
    /\ edits' = edits + 1
    /\ \/ /\ lastId < MaxId /\ lastId' = lastId + 1 /\ account' = account
          /\ \E ours \in BOOLEAN :
                endpoints' = [i \in Ids \cup {lastId'} |->
                                 IF i = lastId' THEN ours ELSE endpoints[i]]
       \/ \E d \in Ids : /\ endpoints' = [i \in Ids \ {d} |-> endpoints[i]]
                         /\ UNCHANGED <<account, lastId>>
       \/ \E d \in Ids : /\ endpoints' = [endpoints EXCEPT ![d] = ~@]
                         /\ UNCHANGED <<account, lastId>>
       \/ account' = [account EXCEPT !.ready = ~@] /\ UNCHANGED <<endpoints, lastId>>
    /\ owned' = owned \cap OwnedIds'
    /\ everOwned' = everOwned \cup OwnedIds'
    /\ peak' = IF Cardinality(Ids') > peak THEN Cardinality(Ids') ELSE peak
    /\ UNCHANGED <<pc, diagnostics, healthy, refusals>>

Next == AskAccount \/ AskEndpoints \/ CallFails \/ Edit

Spec == Init /\ [][Next]_vars
--------------------------------------------------------------------------------
TypeOK ==
    /\ Ids \subseteq 1..lastId /\ lastId \in 0..MaxId /\ account \in Account
    /\ \A i \in Ids : endpoints[i] \in BOOLEAN
    /\ pc \in {"start", "account", "answered", "failed"}
    /\ diagnostics \subseteq Diagnostic /\ healthy \in BOOLEAN
    /\ edits \in 0..MaxEdits /\ peak \in Nat
    /\ owned \subseteq everOwned /\ everOwned \subseteq 1..lastId
    /\ refusals \subseteq Response

ReportedAbsent == Diag("INFO", "endpoint-absent") \in diagnostics

\* With an account of at most a page, an endpoint reported absent was not there all
\* along: no endpoint kept this binding's metadata from the first request to the
\* last (doctor.go ownedEndpointPresent reads the first page).
AbsentWithinAPage ==
    pc = "answered" /\ ReportedAbsent /\ peak <= PageSize => owned = {}

\* An endpoint that is not reported absent was this binding's at some time during
\* the call, whatever else the account holds.
PresentWasOurs ==
    pc = "answered" /\ healthy /\ ~ReportedAbsent => everOwned # {}

\* A healthy report rests on two answered requests: no refused, unsent or lost
\* request hides behind it (doctor.go, exec.go diagnoseResponse).
HealthyReadEverything ==
    pc = "answered" /\ healthy => refusals = {} /\ ~HasError(diagnostics)
================================================================================
