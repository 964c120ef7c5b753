------------------------------- MODULE DoctorProofs -------------------------------
(***************************************************************************)
(* For pages of any size, any account and any number of edits during the   *)
(* call: what Doctor says of the endpoint and of its own health is so.     *)
(***************************************************************************)
EXTENDS Doctor, FiniteSetTheorems, TLAPS

\* Before the page is asked for: the histories are up to date.
Asking == pc \in {"start", "account"}

UpToDate ==
    /\ IsFiniteSet(Ids) /\ Cardinality(Ids) <= peak
    /\ OwnedIds \subseteq everOwned
    /\ Asking => owned \subseteq OwnedIds

\* Nothing is said of the endpoint or of health, and no request was refused.
Unsaid == Asking => ~ReportedAbsent /\ ~healthy /\ refusals = {}

Inv ==
    /\ TypeOK /\ UpToDate /\ Unsaid
    /\ AbsentWithinAPage /\ PresentWasOurs /\ HealthyReadEverything
--------------------------------------------------------------------------------
\* The first page of an account that fits into one is all of it.
LEMMA PageIsAll ==
    ASSUME TypeOK, IsFiniteSet(Ids), Cardinality(Ids) <= PageSize
    PROVE  Page(Ids, 0) = Ids
  <1>1. Older(Ids, 0) = Ids
    BY DEF Older
  <1>2. SUFFICES ASSUME NEW i \in Ids
                 PROVE  Cardinality({j \in Ids : j > i}) < PageSize
    BY <1>1 DEF Page
  <1> DEFINE newer == {j \in Ids : j > i}
  <1>3. Ids \subseteq Nat
    BY DEF TypeOK
  <1>4. newer \subseteq Ids /\ newer # Ids
    BY <1>3
  <1>5. /\ Cardinality(newer) <= Cardinality(Ids) /\ Cardinality(newer) # Cardinality(Ids)
        /\ Cardinality(newer) \in Nat /\ Cardinality(Ids) \in Nat
    BY <1>4, FS_Subset, FS_CardinalityType
  <1> QED BY <1>5, PageSizeAssumption

\* A response is diagnosed unless it is the answer; what is diagnosed is of Diagnostic
\* and says nothing of the endpoint.
LEMMA Diagnosed ==
    ASSUME NEW response \in Response
    PROVE  /\ DiagnoseResponse(response) = {} <=> response.status = 200
           /\ DiagnoseResponse(response) \subseteq Diagnostic
           /\ Diag("INFO", "endpoint-absent") \notin DiagnoseResponse(response)
  <1> DEFINE d == DiagnoseResponse(response)
             code == ClassifyStripeError(response.status)
  <1>1. \/ response.delivery = "NOT_SENT" /\ response.status = 0
        \/ response.delivery = "SENT_OUTCOME_UNKNOWN" /\ response.status = 0
        \/ response.delivery = "RESPONSE_RECEIVED" /\ response.status \in Statuses
    BY DEF Response
  <1>2. code \in {"authentication", "permission", "rate-limit", "not-found",
                  "permanent-validation"}
    BY DEF ClassifyStripeError
  <1> HIDE DEF code
  <1>3. \A severity \in {"WARNING", "ERROR"}, c \in {"authentication", "permission", "rate-limit",
            "not-found", "permanent-validation", "timeout-before-send", "outcome-unknown"} :
           /\ Diag(severity, c) \in Diagnostic
           /\ Diag(severity, c) # Diag("INFO", "endpoint-absent")
    BY DEF Diag, Diagnostic
  <1>4. CASE response.delivery = "NOT_SENT" /\ response.status = 0
    <2>1. d = {Diag("ERROR", "timeout-before-send")}
      BY <1>4 DEF DiagnoseResponse
    <2> QED BY <1>3, <1>4, <2>1
  <1>5. CASE response.delivery = "SENT_OUTCOME_UNKNOWN" /\ response.status = 0
    <2>1. d = {Diag("WARNING", "outcome-unknown")}
      BY <1>5 DEF DiagnoseResponse
    <2> QED BY <1>3, <1>5, <2>1
  <1>6. CASE response.delivery = "RESPONSE_RECEIVED" /\ response.status = 200
    <2>1. d = {}
      BY <1>6 DEF DiagnoseResponse
    <2> QED BY <1>6, <2>1
  <1>7. CASE response.delivery = "RESPONSE_RECEIVED" /\ response.status \in Statuses \ {200}
    <2>1. response.status \notin 200..299
      BY <1>7 DEF Statuses
    <2>2. d = {Diag("ERROR", code)}
      BY <1>7, <2>1 DEF DiagnoseResponse, code
    <2> QED BY <1>2, <1>3, <1>7, <2>2
  <1> QED BY <1>1, <1>4, <1>5, <1>6, <1>7

\* The responses that were not answers grow by those that were not.
LEMMA RefusedGrows ==
    ASSUME TypeOK, NEW response \in Response, Refused(response)
    PROVE  /\ refusals' \subseteq Response
           /\ refusals = {} /\ DiagnoseResponse(response) = {} => refusals' = {}
  BY Diagnosed DEF Refused, TypeOK
--------------------------------------------------------------------------------
LEMMA InvInit == Init => Inv
  <1> SUFFICES ASSUME Init PROVE Inv
    OBVIOUS
  <1>1. PICK n \in 0..InitialSize : endpoints \in [1..n -> BOOLEAN] /\ lastId = n
    BY DEF Init
  <1>2. /\ n \in 0..MaxId /\ Ids = 1..n /\ \A i \in Ids : endpoints[i] \in BOOLEAN
        /\ 0 \in 0..MaxEdits
    BY <1>1, DoctorAssumption DEF Ids
  <1>3. IsFiniteSet(Ids) /\ Cardinality(Ids) \in Nat
    BY <1>2, FS_Interval, FS_CardinalityType
  <1>4. /\ pc = "start" /\ diagnostics = {} /\ healthy = FALSE /\ edits = 0
        /\ owned = OwnedIds /\ everOwned = OwnedIds /\ peak = Cardinality(Ids)
        /\ refusals = {} /\ account \in Account /\ OwnedIds \subseteq Ids
    BY DEF Init, OwnedIds
  <1>5. TypeOK
    <2>1. healthy \in BOOLEAN
      BY <1>4, Zenon
    <2> QED BY <1>1, <1>2, <1>3, <1>4, <2>1 DEF TypeOK
  <1>6. UpToDate
    BY <1>3, <1>4 DEF UpToDate
  <1>7. Unsaid
    BY <1>4 DEF Unsaid, ReportedAbsent
  <1>8. AbsentWithinAPage /\ PresentWasOurs /\ HealthyReadEverything
    BY <1>4 DEF AbsentWithinAPage, PresentWasOurs, HealthyReadEverything
  <1> QED BY <1>5, <1>6, <1>7, <1>8 DEF Inv

LEMMA AskAccountKeepsInv == ASSUME Inv, AskAccount PROVE Inv'
  <1>1. PICK response \in Response :
          /\ Refused(response)
          /\ IF DiagnoseResponse(response) # {}
             THEN pc' = "answered" /\ diagnostics' = DiagnoseResponse(response)
             ELSE IF ~account.identity
             THEN pc' = "answered" /\ diagnostics' = {Diag("ERROR", "not-found")}
             ELSE /\ pc' = "account"
                  /\ diagnostics' = IF account.ready THEN {}
                                    ELSE {Diag("WARNING", "account-not-ready")}
    BY DEF AskAccount
  <1>2. /\ pc = "start" /\ UNCHANGED <<stripe, history, healthy, edits>> /\ Asking
        /\ refusals = {} /\ ~healthy
    BY DEF AskAccount, Asking, Inv, Unsaid
  <1>3. /\ Diag("ERROR", "not-found") \in Diagnostic
        /\ Diag("WARNING", "account-not-ready") \in Diagnostic
        /\ Diag("ERROR", "not-found") # Diag("INFO", "endpoint-absent")
        /\ Diag("WARNING", "account-not-ready") # Diag("INFO", "endpoint-absent")
    BY DEF Diag, Diagnostic
  <1>4. /\ diagnostics' \subseteq Diagnostic /\ ~ReportedAbsent'
        /\ pc' \in {"account", "answered"}
        /\ pc' = "account" => DiagnoseResponse(response) = {}
    BY <1>1, <1>3, Diagnosed DEF ReportedAbsent
  <1>5. TypeOK'
    BY <1>1, <1>2, <1>4, RefusedGrows DEF Inv, TypeOK, stripe, history, Ids
  <1>6. UpToDate'
    BY <1>2 DEF Inv, UpToDate, Asking, stripe, history, Ids, OwnedIds
  <1>7. Unsaid'
    BY <1>1, <1>2, <1>4, RefusedGrows DEF Inv, Unsaid, Asking
  <1>8. AbsentWithinAPage' /\ PresentWasOurs' /\ HealthyReadEverything'
    BY <1>2, <1>4 DEF AbsentWithinAPage, PresentWasOurs, HealthyReadEverything
  <1> QED BY <1>5, <1>6, <1>7, <1>8 DEF Inv

LEMMA AskEndpointsKeepsInv == ASSUME Inv, AskEndpoints PROVE Inv'
  <1>1. PICK response \in Response :
          /\ Refused(response)
          /\ IF DiagnoseResponse(response) # {}
             THEN pc' = "failed" /\ UNCHANGED <<diagnostics, healthy>>
             ELSE /\ pc' = "answered"
                  /\ diagnostics' = diagnostics \cup
                         IF OwnedEndpointPresent THEN {} ELSE {Diag("INFO", "endpoint-absent")}
                  /\ healthy' = ~HasError(diagnostics')
    BY DEF AskEndpoints
  <1>2. /\ pc = "account" /\ UNCHANGED <<stripe, history, edits>> /\ Asking
        /\ refusals = {} /\ ~healthy /\ ~ReportedAbsent
    BY DEF AskEndpoints, Asking, Inv, Unsaid
  <1>3. Diag("INFO", "endpoint-absent") \in Diagnostic
    BY DEF Diag, Diagnostic
  <1>4. pc' \in {"answered", "failed"} /\ ~Asking'
    BY <1>1 DEF Asking
  <1>5. TypeOK'
    <2>1. diagnostics' \subseteq Diagnostic
      BY <1>1, <1>3 DEF Inv, TypeOK
    <2>2. healthy' \in BOOLEAN
      <3>1. healthy \in BOOLEAN
        BY DEF Inv, TypeOK
      <3> QED BY <1>1, <3>1, Zenon
    <2> QED BY <1>1, <1>2, <1>4, <2>1, <2>2, RefusedGrows DEF Inv, TypeOK, stripe, history, Ids
  <1>6. UpToDate' /\ Unsaid'
    BY <1>2, <1>4 DEF Inv, UpToDate, Unsaid, stripe, history, Ids, OwnedIds
  <1>7. CASE DiagnoseResponse(response) # {}
    BY <1>1, <1>6, <1>5, <1>7 DEF Inv, AbsentWithinAPage, PresentWasOurs, HealthyReadEverything
  <1>8. CASE DiagnoseResponse(response) = {}
    <2>1. /\ pc' = "answered" /\ healthy' = ~HasError(diagnostics')
          /\ diagnostics' = diagnostics \cup
                 IF OwnedEndpointPresent THEN {} ELSE {Diag("INFO", "endpoint-absent")}
      BY <1>1, <1>8
    <2>2. ReportedAbsent' <=> ~OwnedEndpointPresent
      BY <1>2, <2>1 DEF ReportedAbsent
    <2>3. AbsentWithinAPage'
      <3>1. SUFFICES ASSUME ~OwnedEndpointPresent, peak <= PageSize PROVE owned = {}
        BY <1>2, <2>2 DEF AbsentWithinAPage, history
      <3>2. Cardinality(Ids) <= PageSize
        <4>1. Cardinality(Ids) \in Nat /\ Cardinality(Ids) <= peak /\ peak \in Nat
          BY FS_CardinalityType DEF Inv, TypeOK, UpToDate
        <4> QED BY <3>1, <4>1, PageSizeAssumption
      <3>3. Page(Ids, 0) = Ids
        BY <3>2, PageIsAll DEF Inv, UpToDate
      <3>4. OwnedIds = {}
        BY <3>1, <3>3 DEF OwnedEndpointPresent, OwnedIds
      <3> QED BY <1>2, <3>4 DEF Inv, UpToDate
    <2>4. PresentWasOurs'
      <3>1. OwnedEndpointPresent => OwnedIds # {}
        BY DEF OwnedEndpointPresent
      <3> QED BY <1>2, <2>2, <3>1 DEF PresentWasOurs, history, Inv, UpToDate
    <2>5. refusals' = {}
      BY <1>1, <1>2, <1>8, RefusedGrows DEF Inv
    <2>6. HealthyReadEverything'
      BY <2>1, <2>5, Zenon DEF HealthyReadEverything, HasError
    <2> QED BY <1>5, <1>6, <2>3, <2>4, <2>6 DEF Inv
  <1> QED BY <1>7, <1>8

LEMMA EditKeepsInv == ASSUME Inv, Edit PROVE Inv'
  <1>1. /\ Asking /\ edits' \in 0..MaxEdits
        /\ owned' = owned \cap OwnedIds' /\ everOwned' = everOwned \cup OwnedIds'
        /\ peak' = IF Cardinality(Ids') > peak THEN Cardinality(Ids') ELSE peak
        /\ UNCHANGED <<pc, diagnostics, healthy, refusals>>
    BY DoctorAssumption DEF Edit, Asking, Inv, TypeOK
  <1>2. /\ Ids \subseteq 1..lastId /\ lastId \in 0..MaxId /\ MaxId \in Nat /\ account \in Account
        /\ \A i \in Ids : endpoints[i] \in BOOLEAN
    BY DoctorAssumption DEF Inv, TypeOK
  <1>3. /\ Ids' \subseteq 1..lastId' /\ lastId' \in 0..MaxId /\ lastId <= lastId'
        /\ account' \in Account /\ \A i \in Ids' : endpoints'[i] \in BOOLEAN
    <2>1. CASE \E ours \in BOOLEAN :
                  /\ lastId < MaxId /\ lastId' = lastId + 1 /\ account' = account
                  /\ endpoints' = [i \in Ids \cup {lastId'} |->
                                      IF i = lastId' THEN ours ELSE endpoints[i]]
      BY <1>2, <2>1 DEF Ids
    <2>2. CASE \E d \in Ids : /\ endpoints' = [i \in Ids \ {d} |-> endpoints[i]]
                              /\ UNCHANGED <<account, lastId>>
      BY <1>2, <2>2 DEF Ids
    <2>3. CASE \E d \in Ids : /\ endpoints' = [endpoints EXCEPT ![d] = ~@]
                              /\ UNCHANGED <<account, lastId>>
      <3>1. PICK d \in Ids : endpoints' = [endpoints EXCEPT ![d] = ~@]
        BY <2>3
      <3>2. Ids' = Ids
        BY <3>1 DEF Ids
      <3>3. \A i \in Ids : i # d => endpoints'[i] = endpoints[i]
        BY <3>1 DEF Ids
      <3>4. endpoints'[d] \in BOOLEAN
        BY <3>1 DEF Ids
      <3> QED BY <1>2, <2>3, <3>2, <3>3, <3>4
    <2>4. CASE account' = [account EXCEPT !.ready = ~@] /\ UNCHANGED <<endpoints, lastId>>
      <3>1. account' \in Account
        BY <1>2, <2>4 DEF Account
      <3>2. UNCHANGED <<endpoints, lastId>> /\ Ids' = Ids
        BY <2>4 DEF Ids
      <3> QED BY <1>2, <3>1, <3>2
    <2> QED BY <2>1, <2>2, <2>3, <2>4 DEF Edit
  <1>4. IsFiniteSet(Ids') /\ Cardinality(Ids') \in Nat
    <2>1. lastId' \in Nat
      BY <1>2, <1>3
    <2>2. IsFiniteSet(1..lastId')
      BY <2>1, FS_Interval
    <2> QED BY <1>3, <2>2, FS_Subset, FS_CardinalityType
  <1>5. OwnedIds' \subseteq Ids'
    BY DEF OwnedIds
  <1>6. TypeOK'
    <2>1. owned' \subseteq everOwned' /\ everOwned' \subseteq 1..lastId'
      BY <1>1, <1>2, <1>3, <1>5 DEF Inv, TypeOK
    <2>2. peak' \in Nat
      BY <1>1, <1>4 DEF Inv, TypeOK
    <2> QED BY <1>1, <1>3, <2>1, <2>2 DEF Inv, TypeOK
  <1>7. UpToDate'
    <2>1. Cardinality(Ids') <= peak'
      BY <1>1, <1>4 DEF Inv, TypeOK
    <2> QED BY <1>1, <1>4, <2>1 DEF UpToDate
  <1>8. Unsaid' /\ AbsentWithinAPage' /\ PresentWasOurs' /\ HealthyReadEverything'
    BY <1>1 DEF Inv, Unsaid, Asking, ReportedAbsent, AbsentWithinAPage, PresentWasOurs,
                HealthyReadEverything
  <1> QED BY <1>6, <1>7, <1>8 DEF Inv

LEMMA InvNext == Inv /\ [Next]_vars => Inv'
  <1> SUFFICES ASSUME Inv, [Next]_vars PROVE Inv'
    OBVIOUS
  <1>1. CASE AskAccount
    BY <1>1, AskAccountKeepsInv
  <1>2. CASE AskEndpoints
    BY <1>2, AskEndpointsKeepsInv
  <1>3. CASE CallFails
    <2>1. /\ pc' = "failed"
          /\ UNCHANGED <<stripe, diagnostics, healthy, edits, history, refusals>>
      BY <1>3 DEF CallFails
    <2>2. TypeOK' /\ UpToDate' /\ Unsaid'
      BY <2>1 DEF Inv, TypeOK, UpToDate, Unsaid, Asking, stripe, history, Ids, OwnedIds
    <2>3. AbsentWithinAPage' /\ PresentWasOurs' /\ HealthyReadEverything'
      BY <2>1 DEF AbsentWithinAPage, PresentWasOurs, HealthyReadEverything
    <2> QED BY <2>2, <2>3 DEF Inv
  <1>4. CASE Edit
    BY <1>4, EditKeepsInv
  <1>5. CASE UNCHANGED vars
    <2>1. TypeOK' /\ UpToDate' /\ Unsaid'
      BY <1>5 DEF vars, Inv, TypeOK, UpToDate, Unsaid, Asking, ReportedAbsent, stripe, history,
                  Ids, OwnedIds
    <2>2. AbsentWithinAPage' /\ PresentWasOurs' /\ HealthyReadEverything'
      BY <1>5 DEF vars, Inv, AbsentWithinAPage, PresentWasOurs, HealthyReadEverything,
                  ReportedAbsent, HasError, history
    <2> QED BY <2>1, <2>2 DEF Inv
  <1> QED BY <1>1, <1>2, <1>3, <1>4, <1>5 DEF Next
--------------------------------------------------------------------------------
\* The types hold of every reachable state.
THEOREM TypeCorrect == Spec => []TypeOK
  <1>1. Inv => TypeOK
    BY DEF Inv
  <1> QED BY <1>1, InvInit, InvNext, PTL DEF Spec

\* An endpoint that has been this binding's all along is never reported absent from an
\* account that fitted into a page (doctor.go ownedEndpointPresent).
THEOREM AbsentWasNotThere == Spec => []AbsentWithinAPage
  <1>1. Inv => AbsentWithinAPage
    BY DEF Inv
  <1> QED BY <1>1, InvInit, InvNext, PTL DEF Spec

\* What a healthy report counts as present was this binding's at some time during the
\* call, on an account of any size (doctor.go ownedEndpointPresent).
THEOREM PresentIsOurs == Spec => []PresentWasOurs
  <1>1. Inv => PresentWasOurs
    BY DEF Inv
  <1> QED BY <1>1, InvInit, InvNext, PTL DEF Spec

\* No refused, unsent or lost request hides behind a healthy report (exec.go
\* diagnoseResponse).
THEOREM HealthyIsComplete == Spec => []HealthyReadEverything
  <1>1. Inv => HealthyReadEverything
    BY DEF Inv
  <1> QED BY <1>1, InvInit, InvNext, PTL DEF Spec
================================================================================
