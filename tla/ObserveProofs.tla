------------------------------- MODULE ObserveProofs -------------------------------
(***************************************************************************)
(* For pages of any size, any number of them and any account: a successful *)
(* observation is complete, holds nothing twice and is of one mode.        *)
(***************************************************************************)
EXTENDS Observe, FiniteSetTheorems, TLAPS

\* Between two pages, what has been observed lies behind the cursor, and what has
\* lived since Start and has not been observed lies ahead of it.
Behind ==
    /\ pc = "start" => resources = <<>> /\ startingAfter = 0
    /\ pc = "list" /\ resources # <<>> => startingAfter # 0
    /\ pc = "list" => \A k \in DOMAIN resources : startingAfter <= resources[k].id

Ahead ==
    /\ pc = "list" => \A i \in stable : \/ ObservesRemote(resources, i)
                                       \/ i \in Older(Ids, startingAfter)
    /\ pc \in {"listed", "observed"} => \A i \in stable : ObservesRemote(resources, i)

\* Whatever was observed has been checked.
Checked == \A k \in DOMAIN resources : resources[k].livemode \in {"absent", AttestedMode}

Inv == TypeOK /\ NothingObservedTwice /\ Behind /\ Ahead /\ Checked
--------------------------------------------------------------------------------
(* The list of module StripeList. *)

\* A page is of older endpoints, nothing older than it is newer than one of it, and
\* all of what is older when no more is reported.
LEMMA PageIsNewest ==
    ASSUME TypeOK
    PROVE  /\ Page(Ids, startingAfter) \subseteq Older(Ids, startingAfter)
           /\ Cardinality(Page(Ids, startingAfter)) \in Nat
           /\ \A p \in Page(Ids, startingAfter) :
              \A i \in Older(Ids, startingAfter) \ Page(Ids, startingAfter) : i < p
           /\ ~HasMore(Ids, startingAfter) =>
                 Page(Ids, startingAfter) = Older(Ids, startingAfter)
  <1> DEFINE older == Older(Ids, startingAfter)
             newest == Page(Ids, startingAfter)
             newer(i) == {j \in older : j > i}
  <1>1. older \subseteq 1..lastId /\ lastId \in Nat
    BY DEF TypeOK, Older, Ids
  <1>2. IsFiniteSet(older)
    <2>1. IsFiniteSet(1..lastId)
      BY <1>1, FS_Interval
    <2> QED BY <1>1, <2>1, FS_Subset
  <1>3. newest \subseteq older
    BY DEF Page
  <1>4. \A i : IsFiniteSet(newer(i)) /\ Cardinality(newer(i)) \in Nat
    BY <1>2, FS_Subset, FS_CardinalityType
  <1>5. ASSUME NEW p \in newest, NEW i \in older \ newest PROVE i < p
    <2>1. SUFFICES ASSUME p <= i PROVE FALSE
      BY <1>1, <1>3, <1>5
    <2>2. newer(i) \subseteq newer(p)
      BY <1>1, <1>3, <1>5, <2>1
    <2>3. Cardinality(newer(i)) <= Cardinality(newer(p))
      BY <1>4, <2>2, FS_Subset
    <2>4. Cardinality(newer(p)) < PageSize /\ ~(Cardinality(newer(i)) < PageSize)
      BY <1>5 DEF Page
    <2> QED BY <1>4, <2>3, <2>4, PageSizeAssumption
  <1>6. ASSUME ~HasMore(Ids, startingAfter), NEW i \in older PROVE i \in newest
    <2>1. Cardinality(older) \in Nat /\ Cardinality(older) <= PageSize
      BY <1>2, <1>6, FS_CardinalityType, PageSizeAssumption DEF HasMore
    <2>2. newer(i) \subseteq older /\ newer(i) # older
      BY <1>1, <1>6
    <2>3. Cardinality(newer(i)) <= Cardinality(older)
      BY <1>2, <2>2, FS_Subset
    <2>4. Cardinality(newer(i)) # Cardinality(older)
      BY <1>2, <2>2, FS_Subset
    <2>5. Cardinality(newer(i)) < PageSize
      BY <1>4, <2>1, <2>3, <2>4, PageSizeAssumption
    <2> QED BY <1>6, <2>5 DEF Page
  <1>7. Cardinality(newest) \in Nat
    BY <1>2, <1>3, FS_Subset, FS_CardinalityType
  <1> QED BY <1>3, <1>5, <1>6, <1>7

\* The data of an answer holds the page, each endpoint once, the oldest last.
LEMMA DataOfPage ==
    ASSUME TypeOK, NEW ids \in Data(Ids, startingAfter)
    PROVE  /\ ids \in Seq(Ids) /\ ToSet(ids) = Page(Ids, startingAfter)
           /\ \A j, k \in DOMAIN ids : j # k => ids[j] # ids[k]
           /\ ids # <<>> => /\ Last(ids) \in ToSet(ids)
                            /\ \A i \in ToSet(ids) : Last(ids) <= i
  <1> DEFINE n == Cardinality(Page(Ids, startingAfter))
  <1>1. /\ ids \in [1..n -> Page(Ids, startingAfter)] /\ ToSet(ids) = Page(Ids, startingAfter)
        /\ \A j, k \in DOMAIN ids : j < k => ids[j] > ids[k]
    BY DEF Data
  <1>2. n \in Nat /\ Page(Ids, startingAfter) \subseteq Ids /\ Ids \subseteq Nat
    BY PageIsNewest DEF Older, TypeOK, Ids
  <1> HIDE DEF n
  <1>3. /\ ids \in Seq(Ids) /\ Len(ids) = n /\ DOMAIN ids = 1..n
        /\ \A k \in 1..n : ids[k] \in Nat
    <2>1. ids \in [1..n -> Ids]
      BY <1>1, <1>2
    <2>2. \A k \in 1..n : ids[k] \in Nat
      BY <1>2, <2>1
    <2> QED BY <1>2, <2>1, <2>2
  <1>4. ASSUME NEW j \in 1..n, NEW k \in 1..n, j # k PROVE ids[j] # ids[k]
    <2>1. j < k \/ k < j
      BY <1>2, <1>4
    <2> QED BY <1>1, <1>3, <2>1
  <1>5. ASSUME ids # <<>>
        PROVE  Last(ids) \in ToSet(ids) /\ \A i \in ToSet(ids) : Last(ids) <= i
    <2>1. n \in DOMAIN ids /\ Last(ids) = ids[n]
      BY <1>2, <1>3, <1>5 DEF Last
    <2>2. \A k \in DOMAIN ids : ids[n] <= ids[k]
      BY <1>1, <1>2, <1>3, <2>1
    <2> QED BY <2>1, <2>2 DEF ToSet
  <1> QED BY <1>1, <1>3, <1>4, <1>5
--------------------------------------------------------------------------------
(* What the provider's steps do to the resources. *)

\* Elements that pass the cross-check are appended.
LEMMA ResourcesGrow ==
    ASSUME Inv, NEW ids \in Seq(Ids), \A j, k \in DOMAIN ids : j # k => ids[j] # ids[k],
           \A i \in ToSet(ids) : CrossCheckMode(i) /\ ~ObservesRemote(resources, i),
           resources' = resources \o [k \in DOMAIN ids |-> WebhookResource(ids[k])]
    PROVE  /\ resources' \in Seq(Resource) /\ NothingObservedTwice' /\ Checked'
           /\ \A i : ObservesRemote(resources', i) <=>
                       ObservesRemote(resources, i) \/ i \in ToSet(ids)
           /\ (resources' = <<>>) <=> (resources = <<>> /\ ids = <<>>)
  <1> DEFINE m == Len(resources)
             n == Len(ids)
             seen == [k \in DOMAIN ids |-> WebhookResource(ids[k])]
  <1>1. /\ resources \in Seq(Resource) /\ m \in Nat /\ DOMAIN resources = 1..m
        /\ n \in Nat /\ DOMAIN ids = 1..n
    BY DEF Inv, TypeOK
  <1>2. \A k \in 1..n : /\ ids[k] \in Ids /\ ids[k] \in ToSet(ids)
                        /\ seen[k] = [id |-> ids[k], livemode |-> endpoints[ids[k]]]
    BY <1>1 DEF ToSet, WebhookResource
  <1> HIDE DEF seen
  <1>3. \A k \in 1..n : /\ seen[k] \in Resource /\ seen[k].id = ids[k]
                        /\ seen[k].livemode \in {"absent", AttestedMode}
    <2> SUFFICES ASSUME NEW k \in 1..n
                 PROVE  /\ seen[k] \in Resource /\ seen[k].id = ids[k]
                        /\ seen[k].livemode \in {"absent", AttestedMode}
      OBVIOUS
    <2>0. seen[k] = [id |-> ids[k], livemode |-> endpoints[ids[k]]]
      BY <1>2
    <2>1. seen[k].id = ids[k] /\ seen[k].livemode = endpoints[ids[k]]
      BY <2>0
    <2>2. ids[k] \in Nat /\ endpoints[ids[k]] \in Modes
      BY <1>2 DEF Inv, TypeOK, Ids
    <2>3. endpoints[ids[k]] \in {"absent", AttestedMode}
      BY <1>2 DEF CrossCheckMode
    <2>4. seen[k] \in Resource
      BY <2>0, <2>2 DEF Resource
    <2> QED BY <2>1, <2>3, <2>4
  <1>4. seen \in Seq(Resource) /\ Len(seen) = n
    <2>1. seen \in [1..n -> Resource]
      BY <1>1, <1>3 DEF seen
    <2> QED BY <1>1, <2>1
  <1>5. /\ resources' \in Seq(Resource) /\ DOMAIN resources' = 1..(m + n)
        /\ \A k \in 1..m : resources'[k] = resources[k]
        /\ \A k \in 1..n : resources'[m + k] = seen[k]
        /\ \A k \in 1..(m + n) : k \in 1..m \/ (k - m \in 1..n /\ k = m + (k - m))
    BY <1>1, <1>4 DEF seen
  <1>6. Checked'
    <2> SUFFICES ASSUME NEW k \in 1..(m + n)
                 PROVE  resources'[k].livemode \in {"absent", AttestedMode}
      BY <1>5 DEF Checked, AttestedMode
    <2>1. CASE k \in 1..m
      BY <1>1, <1>5, <2>1 DEF Inv, Checked
    <2>2. CASE k - m \in 1..n /\ k = m + (k - m)
      <3>1. resources'[k] = seen[k - m]
        BY <1>5, <2>2
      <3> QED BY <1>3, <2>2, <3>1
    <2> QED BY <1>5, <2>1, <2>2
  <1>7. NothingObservedTwice'
    <2> SUFFICES ASSUME NEW j \in 1..(m + n), NEW k \in 1..(m + n), j # k
                 PROVE  resources'[j].id # resources'[k].id
      BY <1>5 DEF NothingObservedTwice
    <2>1. CASE j \in 1..m /\ k \in 1..m
      BY <1>1, <1>5, <2>1 DEF Inv, NothingObservedTwice
    <2>2. ASSUME NEW p \in 1..m, NEW q \in 1..n PROVE resources'[p].id # resources'[m + q].id
      <3>1. resources'[p].id = resources[p].id /\ resources'[m + q].id = ids[q]
        BY <1>3, <1>5, <2>2
      <3>2. ids[q] \in ToSet(ids) /\ p \in DOMAIN resources
        BY <1>1, <1>2, <2>2
      <3> QED BY <3>1, <3>2 DEF ObservesRemote
    <2>3. CASE j \in 1..m /\ k \notin 1..m
      <3>1. k - m \in 1..n /\ k = m + (k - m)
        BY <1>5, <2>3
      <3> QED BY <2>2, <2>3, <3>1
    <2>4. CASE j \notin 1..m /\ k \in 1..m
      <3>1. j - m \in 1..n /\ j = m + (j - m)
        BY <1>5, <2>4
      <3>2. resources'[k].id # resources'[m + (j - m)].id
        BY <2>2, <2>4, <3>1
      <3> QED BY <3>1, <3>2
    <2>5. CASE j \notin 1..m /\ k \notin 1..m
      <3>1. j - m \in 1..n /\ k - m \in 1..n /\ j - m # k - m
        BY <1>1, <1>5, <2>5
      <3>2. resources'[j] = seen[j - m] /\ resources'[k] = seen[k - m]
        BY <1>5, <2>5
      <3> QED BY <1>1, <1>3, <3>1, <3>2
    <2> QED BY <2>1, <2>3, <2>4, <2>5
  <1>8. \A i : ObservesRemote(resources', i) <=> ObservesRemote(resources, i) \/ i \in ToSet(ids)
    <2> TAKE i
    <2>1. ASSUME ObservesRemote(resources', i)
          PROVE  ObservesRemote(resources, i) \/ i \in ToSet(ids)
      <3>1. PICK k \in 1..(m + n) : resources'[k].id = i
        BY <1>5, <2>1 DEF ObservesRemote
      <3>2. CASE k \in 1..m
        BY <1>1, <1>5, <3>1, <3>2 DEF ObservesRemote
      <3>3. CASE k - m \in 1..n /\ k = m + (k - m)
        <4>1. resources'[k] = seen[k - m]
          BY <1>5, <3>3
        <4> QED BY <1>2, <1>3, <3>1, <3>3, <4>1
      <3> QED BY <1>5, <3>2, <3>3
    <2>2. ASSUME ObservesRemote(resources, i) PROVE ObservesRemote(resources', i)
      <3>1. PICK k \in 1..m : resources[k].id = i
        BY <1>1, <2>2 DEF ObservesRemote
      <3>2. k \in 1..(m + n) /\ resources'[k].id = i
        BY <1>1, <1>5, <3>1
      <3> QED BY <1>5, <3>2 DEF ObservesRemote
    <2>3. ASSUME i \in ToSet(ids) PROVE ObservesRemote(resources', i)
      <3>1. PICK k \in 1..n : ids[k] = i
        BY <1>1, <2>3 DEF ToSet
      <3>2. m + k \in 1..(m + n) /\ resources'[m + k].id = i
        BY <1>1, <1>3, <1>5, <3>1
      <3> QED BY <1>5, <3>2 DEF ObservesRemote
    <2> QED BY <2>1, <2>2, <2>3
  <1>9. (resources' = <<>>) <=> (resources = <<>> /\ ids = <<>>)
    BY <1>1, <1>4, <1>5
  <1> QED BY <1>5, <1>6, <1>7, <1>8, <1>9
--------------------------------------------------------------------------------
(* The invariant. *)

LEMMA InvInit == Init => Inv
  <1> SUFFICES ASSUME Init PROVE Inv
    OBVIOUS
  <1>1. TypeOK
    BY ObserveAssumption DEF Init, TypeOK
  <1>2. NothingObservedTwice /\ Behind /\ Ahead /\ Checked
    BY DEF Init, NothingObservedTwice, Behind, Ahead, Checked
  <1> QED BY <1>1, <1>2 DEF Inv

LEMMA ListPageKeepsInv == ASSUME Inv, ListPage PROVE Inv'
  <1>1. PICK more \in {HasMore(Ids, startingAfter), TRUE}, ids \in Data(Ids, startingAfter) :
          /\ pc = "list" /\ page < MaxObservePages
          /\ \A i \in ToSet(ids) : CrossCheckMode(i)
          /\ resources' = resources \o [k \in DOMAIN ids |-> WebhookResource(ids[k])]
          /\ ids = <<>> => ~more
          /\ IF more
             THEN page' = page + 1 /\ startingAfter' = NextCursor(ids) /\ pc' = pc
             ELSE pc' = "listed" /\ UNCHANGED <<page, startingAfter>>
          /\ UNCHANGED <<stripe, stable, existing>>
    BY DEF ListPage
  <1>2. /\ ids \in Seq(Ids) /\ \A j, k \in DOMAIN ids : j # k => ids[j] # ids[k]
        /\ ids # <<>> => /\ NextCursor(ids) \in ToSet(ids)
                         /\ \A i \in ToSet(ids) : NextCursor(ids) <= i
        /\ ToSet(ids) \subseteq Older(Ids, startingAfter)
        /\ \A p \in ToSet(ids) : \A i \in Older(Ids, startingAfter) \ ToSet(ids) : i < p
        /\ ~HasMore(Ids, startingAfter) => ToSet(ids) = Older(Ids, startingAfter)
    BY DataOfPage, PageIsNewest DEF Inv, NextCursor
  <1>3. Older(Ids, startingAfter) \subseteq 1..lastId /\ lastId \in Nat /\ startingAfter \in Nat
    BY DEF Inv, TypeOK, Older, Ids
  <1>4. \A i \in ToSet(ids) : ~ObservesRemote(resources, i)
    <2> SUFFICES ASSUME NEW i \in ToSet(ids), NEW k \in DOMAIN resources, resources[k].id = i
                 PROVE  FALSE
      BY DEF ObservesRemote
    <2>1. resources # <<>>
      BY DEF Inv, TypeOK
    <2>2. startingAfter # 0 /\ startingAfter <= i
      BY <1>1, <2>1 DEF Inv, Behind
    <2> QED BY <1>2, <1>3, <2>2 DEF Older
  <1>5. /\ resources' \in Seq(Resource) /\ NothingObservedTwice' /\ Checked'
        /\ \A i : ObservesRemote(resources', i) <=> ObservesRemote(resources, i) \/ i \in ToSet(ids)
    BY <1>1, <1>2, <1>4, ResourcesGrow
  <1>6. Ids' = Ids /\ stable' = stable
    BY <1>1 DEF Ids, stripe
  <1>7. CASE more
    <2>1. /\ ids # <<>> /\ pc' = "list" /\ startingAfter' = NextCursor(ids)
          /\ page' \in 0..MaxObservePages
      BY <1>1, <1>7, ObserveAssumption DEF Inv, TypeOK
    <2>2. startingAfter' \in 1..lastId
      BY <1>2, <1>3, <2>1
    <2>3. TypeOK'
      BY <1>1, <1>5, <2>1, <2>2 DEF Inv, TypeOK, stripe
    <2>4. ASSUME NEW k \in DOMAIN resources' PROVE startingAfter' <= resources'[k].id
      <3> DEFINE i == resources'[k].id
      <3>1. ObservesRemote(resources', i)
        BY <2>4 DEF ObservesRemote
      <3>2. CASE i \in ToSet(ids)
        BY <1>2, <2>1, <3>2
      <3>3. CASE ObservesRemote(resources, i)
        <4>1. PICK q \in DOMAIN resources : resources[q].id = i
          BY <3>3 DEF ObservesRemote
        <4>2. resources # <<>> /\ resources[q].id \in Nat
          <5>1. resources \in Seq(Resource)
            BY DEF Inv, TypeOK
          <5>2. resources # <<>> /\ resources[q] \in Resource
            BY <4>1, <5>1
          <5> QED BY <5>2 DEF Resource
        <4>3. startingAfter # 0 /\ startingAfter <= i
          BY <1>1, <4>1, <4>2 DEF Inv, Behind
        <4>4. startingAfter' < startingAfter
          BY <1>2, <2>1, <4>3 DEF Older
        <4> QED BY <1>3, <2>2, <4>1, <4>2, <4>3, <4>4
      <3> QED BY <1>5, <3>1, <3>2, <3>3
    <2>5. Behind'
      BY <2>1, <2>2, <2>4 DEF Behind
    <2>6. ASSUME NEW i \in stable, ~ObservesRemote(resources', i)
          PROVE  i \in Older(Ids, startingAfter')
      <3>1. i \in Older(Ids, startingAfter) \ ToSet(ids)
        BY <1>1, <1>5, <2>6 DEF Inv, Ahead
      <3>2. i < startingAfter'
        BY <1>2, <2>1, <3>1
      <3> QED BY <3>1, <3>2 DEF Older
    <2>7. Ahead'
      BY <1>6, <2>1, <2>6 DEF Ahead
    <2> QED BY <1>5, <2>3, <2>5, <2>7 DEF Inv
  <1>8. CASE ~more
    <2>1. ToSet(ids) = Older(Ids, startingAfter) /\ pc' = "listed"
      BY <1>1, <1>2, <1>8
    <2>2. TypeOK' /\ Behind'
      BY <1>1, <1>5, <1>8 DEF Inv, TypeOK, Behind, stripe
    <2>3. Ahead'
      BY <1>1, <1>5, <1>6, <2>1 DEF Inv, Ahead
    <2> QED BY <1>5, <2>2, <2>3 DEF Inv
  <1> QED BY <1>7, <1>8

LEMMA FinishKeepsInv == ASSUME Inv, Finish PROVE Inv'
  <1>1. pc = "listed" /\ pc' \in {"observed", "failed"}
        /\ UNCHANGED <<stripe, stable, existing, page, startingAfter>>
    BY DEF Finish
  <1>2. CASE resources' = resources
    BY <1>1, <1>2 DEF Inv, TypeOK, NothingObservedTwice, Behind, Ahead, Checked, ObservesRemote,
                      AttestedMode, stripe
  <1>3. CASE /\ existing \in Ids /\ CrossCheckMode(existing) /\ ~ObservesRemote(resources, existing)
             /\ resources' = Append(resources, WebhookResource(existing))
    <2> DEFINE ids == <<existing>>
    <2>1. /\ ids \in Seq(Ids) /\ ToSet(ids) = {existing}
          /\ \A j, k \in DOMAIN ids : j # k => ids[j] # ids[k]
      BY <1>3 DEF ToSet
    <2>2. resources' = resources \o [k \in DOMAIN ids |-> WebhookResource(ids[k])]
      <3>1. [k \in DOMAIN ids |-> WebhookResource(ids[k])] = <<WebhookResource(existing)>>
        OBVIOUS
      <3> QED BY <1>3, <3>1 DEF Inv, TypeOK
    <2>3. /\ resources' \in Seq(Resource) /\ NothingObservedTwice' /\ Checked'
          /\ \A i : ObservesRemote(resources, i) => ObservesRemote(resources', i)
      <3> HIDE DEF ids
      <3> QED BY <1>3, <2>1, <2>2, ResourcesGrow
    <2>4. TypeOK' /\ Behind' /\ Ahead'
      BY <1>1, <2>3 DEF Inv, TypeOK, Behind, Ahead, stripe
    <2> QED BY <2>3, <2>4 DEF Inv
  <1> QED BY <1>2, <1>3 DEF Finish, Ids

LEMMA InvNext == Inv /\ [Next]_vars => Inv'
  <1> SUFFICES ASSUME Inv, [Next]_vars PROVE Inv'
    OBVIOUS
  <1>1. ASSUME UNCHANGED <<provider, stripe, stable>> PROVE Inv'
    BY <1>1 DEF Inv, TypeOK, NothingObservedTwice, Behind, Ahead, Checked, Older, Ids,
                ObservesRemote, AttestedMode, provider, stripe
  <1>2. CASE Start
    <2>1. resources = <<>> /\ startingAfter = 0
      BY <1>2 DEF Inv, Behind, Start
    <2>2. TypeOK'
      BY <1>2 DEF Start, Inv, TypeOK, stripe
    <2>3. NothingObservedTwice' /\ Behind' /\ Checked'
      BY <1>2, <2>1 DEF Start, NothingObservedTwice, Behind, Checked
    <2>4. Ahead'
      BY <1>2, <2>1 DEF Start, Ahead, Older, Ids, stripe
    <2> QED BY <2>2, <2>3, <2>4 DEF Inv
  <1>3. CASE ListPage
    BY <1>3, ListPageKeepsInv
  <1>4. CASE ListRefused \/ RequestFails
    <2>1. pc' = "failed" /\ UNCHANGED <<stripe, stable, existing, page, startingAfter, resources>>
      BY <1>4 DEF ListRefused, RequestFails
    <2> QED BY <2>1 DEF Inv, TypeOK, NothingObservedTwice, Behind, Ahead, Checked,
                        AttestedMode, stripe
  <1>5. CASE Finish
    BY <1>5, FinishKeepsInv
  <1>6. ASSUME UNCHANGED provider, stable' \subseteq stable, TypeOK',
               \A i \in stable' : i \in Ids => i \in Ids'
        PROVE  Inv'
    <2>1. NothingObservedTwice' /\ Behind' /\ Checked'
      BY <1>6 DEF Inv, NothingObservedTwice, Behind, Checked, AttestedMode, provider
    <2>2. Ahead'
      BY <1>6 DEF Inv, Ahead, Older, ObservesRemote, provider
    <2> QED BY <1>6, <2>1, <2>2 DEF Inv
  <1>7. CASE Create
    <2>1. TypeOK'
      <3>1. PICK mode \in Modes : endpoints' = [i \in DOMAIN endpoints \cup {lastId + 1} |->
                                                 IF i = lastId + 1 THEN mode ELSE endpoints[i]]
        BY <1>7 DEF Create
      <3> QED BY <1>7, <3>1 DEF Create, Inv, TypeOK, provider
    <2>2. Ids \subseteq Ids' /\ UNCHANGED <<stable, provider>>
      BY <1>7 DEF Create, Ids
    <2> QED BY <1>6, <2>1, <2>2
  <1>8. CASE Delete
    <2>1. PICK d \in DOMAIN endpoints :
             /\ endpoints' = [i \in DOMAIN endpoints \ {d} |-> endpoints[i]]
             /\ stable' = stable \ {d}
      BY <1>8 DEF Delete
    <2>2. TypeOK'
      BY <1>8, <2>1 DEF Delete, Inv, TypeOK, provider
    <2>3. \A i \in stable' : i \in Ids => i \in Ids'
      BY <2>1 DEF Ids
    <2> QED BY <1>6, <1>8, <2>1, <2>2, <2>3 DEF Delete
  <1> QED BY <1>1, <1>2, <1>3, <1>4, <1>5, <1>7, <1>8 DEF Next, Provider, vars, provider, stripe
--------------------------------------------------------------------------------
\* The types hold of every reachable state.
THEOREM TypeCorrect == Spec => []TypeOK
  <1>1. Inv => TypeOK
    BY DEF Inv
  <1> QED BY <1>1, InvInit, InvNext, PTL DEF Spec

\* A successful observation holds every endpoint that lived from its first to its last
\* request, for pages of any size (observe.go observeWebhooks).
THEOREM ObservationComplete == Spec => []ObservationIsComplete
  <1>1. Inv => ObservationIsComplete
    BY DEF Inv, Ahead, ObservationIsComplete
  <1> QED BY <1>1, InvInit, InvNext, PTL DEF Spec

\* No observation, partial ones included, holds an endpoint twice, the one retrieved by
\* id included (observe.go observesRemote).
THEOREM NothingTwice == Spec => []NothingObservedTwice
  <1>1. Inv => NothingObservedTwice
    BY DEF Inv
  <1> QED BY <1>1, InvInit, InvNext, PTL DEF Spec

\* No endpoint of a successful observation reports another mode than the host's
\* (observe.go crossCheckMode).
THEOREM OneMode == Spec => []NoForeignMode
  <1>1. Inv => NoForeignMode
    BY DEF Inv, Checked, NoForeignMode
  <1> QED BY <1>1, InvInit, InvNext, PTL DEF Spec
================================================================================
