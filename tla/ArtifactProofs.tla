------------------------------ MODULE ArtifactProofs ------------------------------
(***************************************************************************)
(* For any manifests, any number of edits and spawns and every way that    *)
(* packaging may end: a request that is sent is the one that the manifest  *)
(* the host admitted describes.                                            *)
(***************************************************************************)
EXTENDS Artifact, TLAPS

Packager == [pc : {"idle", "binary", "read", "one", "two"}, binary : Binary \cup {None},
             manifest : Manifests \cup {None}]

Layout == [binary : Binary \cup {None}, manifest : Manifests \cup {None},
           descriptor : Identity \cup {None}]

Process == [pc : {"none", "spawned", "serving", "admitted"}, binary : Binary \cup {None},
            identity : Identity \cup {None},
            catalog : {CatalogOf(m) : m \in Manifests} \cup {None},
            host : Manifests \cup {None}]

Shapes == packager \in Packager /\ dist \in Layout /\ process \in Process
--------------------------------------------------------------------------------
(* The invariant. *)

\* Packaging writes what it has read.
PackagerHasRead ==
    /\ packager.pc # "idle" => packager.binary \in Binary
    /\ packager.pc \in {"read", "one", "two"} => packager.manifest \in Manifests

\* What the host installs is described by its descriptor.
Whole(layout) ==
    /\ layout.binary \in Binary /\ layout.manifest \in Manifests
    /\ layout.descriptor \in Identity
    /\ layout.descriptor = Descriptor(layout.binary, layout.manifest)

InstalledIsWhole == installed # None => Whole(installed)

\* A process is of one manifest from its start on: the one inside it, the one of its
\* identity and the one the host admitted it by.
OneManifest ==
    /\ process.pc # "none" => Whole(installed) /\ process.binary \in Binary
    /\ process.pc \in {"serving", "admitted"} =>
          process.identity \in Identity /\ process.identity.manifest = process.binary.manifest
    /\ process.pc = "admitted" => process.host = process.binary.manifest

SentByAdmitted == sent # None => process.pc = "admitted"

Inv ==
    /\ TypeOK /\ Shapes
    /\ PackagerHasRead /\ InstalledIsWhole /\ OneManifest /\ SentByAdmitted
    /\ RequestsMatchTheHost
--------------------------------------------------------------------------------
(* The tree and its packaging. *)

\* A descriptor of a binary and a manifest is an identity, and names that manifest.
LEMMA DescriptorParts ==
    ASSUME NEW b \in Binary, NEW m \in Manifests
    PROVE  Descriptor(b, m) \in Identity /\ Descriptor(b, m).manifest = m
  BY DEF Descriptor, Identity

\* Steps beside the process and the installation leave all that is said of them.
LEMMA ProcessUntouched ==
    ASSUME Inv, UNCHANGED <<installed, process, sent, spawns>>, tree' \in Binary,
           built' \in Binary \cup {None}, edits' \in 0..MaxEdits,
           packager' \in Packager, dist' \in Layout, PackagerHasRead'
    PROVE  Inv'
  <1>1. packager.pc' \in {"idle", "binary", "read", "one", "two"}
        /\ packager.binary' \in Binary \cup {None} /\ packager.manifest' \in Manifests \cup {None}
    BY DEF Packager
  <1>2. /\ dist.binary' \in Binary \cup {None} /\ dist.manifest' \in Manifests \cup {None}
        /\ dist.descriptor' \in Identity \cup {None}
    BY DEF Layout
  <1>3. TypeOK' /\ Shapes'
    BY <1>1, <1>2 DEF Inv, TypeOK, Shapes
  <1> QED BY <1>3 DEF Inv, InstalledIsWhole, OneManifest, SentByAdmitted, RequestsMatchTheHost

LEMMA EditKeepsInv == ASSUME Inv, Edit PROVE Inv'
  <1>1. edits' \in 0..MaxEdits /\ tree' \in Binary
    BY ArtifactAssumption DEF Edit, Inv, TypeOK
  <1>2. UNCHANGED <<built, packager, dist, installed, process, sent, spawns>>
    BY DEF Edit
  <1> QED BY <1>1, <1>2, ProcessUntouched DEF Inv, TypeOK, Shapes, PackagerHasRead

LEMMA BuildKeepsInv == ASSUME Inv, Build PROVE Inv'
  BY ProcessUntouched DEF Build, Inv, TypeOK, Shapes, PackagerHasRead

LEMMA ReadBinaryKeepsInv == ASSUME Inv, ReadBinary PROVE Inv'
  <1>1. built \in Binary
    BY DEF ReadBinary, Inv, TypeOK
  <1>2. packager' = [pc |-> "binary", binary |-> built, manifest |-> None]
    BY DEF ReadBinary
  <1>3. packager' \in Packager /\ PackagerHasRead'
    BY <1>1, <1>2 DEF Packager, PackagerHasRead
  <1> QED BY <1>3, ProcessUntouched DEF ReadBinary, Inv, TypeOK, Shapes

LEMMA ReadManifestKeepsInv == ASSUME Inv, ReadManifest PROVE Inv'
  <1>1. tree.manifest \in Manifests
    BY DEF Inv, TypeOK, Binary
  <1>2. packager' = [packager EXCEPT !.pc = "read", !.manifest = tree.manifest]
    BY DEF ReadManifest
  <1>3. packager \in Packager /\ packager.binary \in Binary
    BY DEF ReadManifest, Inv, Shapes, PackagerHasRead
  <1>4. /\ packager' \in Packager /\ packager'.binary = packager.binary
        /\ packager'.manifest = tree.manifest
    BY <1>1, <1>2, <1>3 DEF Packager
  <1>5. PackagerHasRead'
    BY <1>1, <1>3, <1>4 DEF PackagerHasRead
  <1> QED BY <1>4, <1>5, ProcessUntouched DEF ReadManifest, Inv, TypeOK, Shapes

LEMMA WriteKeepsInv ==
    ASSUME Inv, NEW from \in {"read", "one", "two"}, NEW to \in {"one", "two", "idle"},
           NEW file, NEW content, Write(from, to, file, content), dist' \in Layout
    PROVE  Inv'
  <1>1. packager.pc = from /\ packager' = [packager EXCEPT !.pc = to]
    BY DEF Write
  <1>2. /\ packager \in Packager /\ packager.binary \in Binary /\ packager.manifest \in Manifests
    BY <1>1 DEF Inv, Shapes, PackagerHasRead
  <1>3. /\ packager' \in Packager /\ packager'.binary = packager.binary
        /\ packager'.manifest = packager.manifest
    BY <1>1, <1>2 DEF Packager
  <1>4. PackagerHasRead'
    BY <1>2, <1>3 DEF PackagerHasRead
  <1> QED BY <1>3, <1>4, ProcessUntouched DEF Write, Inv, TypeOK

LEMMA WriteLayoutKeepsInv == ASSUME Inv, WriteLayout PROVE Inv'
  <1>1. dist \in Layout /\ packager \in Packager
    BY DEF Inv, Shapes
  <1>2. CASE Write("read", "one", "binary", packager.binary)
    <2>1. dist' = [dist EXCEPT !.binary = packager.binary]
      BY <1>2 DEF Write
    <2>2. dist' \in Layout
      BY <1>1, <2>1 DEF Layout, Packager
    <2> QED BY <1>2, <2>2, WriteKeepsInv
  <1>3. CASE Write("one", "two", "manifest", packager.manifest)
    <2>1. dist' = [dist EXCEPT !.manifest = packager.manifest]
      BY <1>3 DEF Write
    <2>2. dist' \in Layout
      BY <1>1, <2>1 DEF Layout, Packager
    <2> QED BY <1>3, <2>2, WriteKeepsInv
  <1>4. CASE Write("two", "idle", "descriptor", Descriptor(packager.binary, packager.manifest))
    <2>1. /\ dist' = [dist EXCEPT !.descriptor = Descriptor(packager.binary, packager.manifest)]
          /\ packager.pc = "two"
      BY <1>4 DEF Write
    <2>2. Descriptor(packager.binary, packager.manifest) \in Identity
      BY <2>1, DescriptorParts DEF Inv, PackagerHasRead
    <2>3. dist' \in Layout
      BY <1>1, <2>1, <2>2 DEF Layout
    <2> QED BY <1>4, <2>3, WriteKeepsInv
  <1> QED BY <1>2, <1>3, <1>4 DEF WriteLayout

LEMMA StopKeepsInv == ASSUME Inv, Stop PROVE Inv'
  <1>1. dist \in Layout /\ packager \in Packager
    BY DEF Inv, Shapes
  <1>2. packager' = [packager EXCEPT !.pc = "idle"]
    BY DEF Stop
  <1>3. packager' \in Packager /\ packager'.pc = "idle"
    BY <1>1, <1>2 DEF Packager
  <1>4. dist' \in Layout
    <2>1. \/ dist' = dist \/ dist' = [dist EXCEPT !.binary = None]
          \/ dist' = [dist EXCEPT !.manifest = None] \/ dist' = [dist EXCEPT !.descriptor = None]
      BY DEF Stop
    <2> QED BY <1>1, <2>1 DEF Layout
  <1>5. PackagerHasRead'
    BY <1>3 DEF PackagerHasRead
  <1> QED BY <1>3, <1>4, <1>5, ProcessUntouched DEF Stop, Inv, TypeOK
--------------------------------------------------------------------------------
(* The installation and the process. *)

\* Of the rest of the state, what concerns neither stays.
LEMMA TreeUntouched ==
    ASSUME Inv, UNCHANGED <<tree, built, packager, dist, edits>>, spawns' \in 0..MaxSpawns,
           process' \in Process, InstalledIsWhole', OneManifest', SentByAdmitted',
           RequestsMatchTheHost', installed' # None => None \notin {installed'.binary, installed'.manifest},
           sent' # None => /\ sent'.id \in RequestIds /\ sent'.policy # None
                           /\ sent'.handles \subseteq Purposes
    PROVE  Inv'
  <1>1. /\ process.pc' \in {"none", "spawned", "serving", "admitted"}
        /\ process.identity' \in Identity \cup {None} /\ process.host' \in Manifests \cup {None}
    BY DEF Process
  <1>2. TypeOK'
    BY <1>1 DEF Inv, TypeOK
  <1> QED BY <1>2 DEF Inv, Shapes, PackagerHasRead

\* A process that is none is of nothing.
LEMMA NoProcessParts == NoProcess \in Process /\ NoProcess.pc = "none"
  BY DEF NoProcess, Process

LEMMA InstallKeepsInv == ASSUME Inv, Install PROVE Inv'
  <1>1. /\ installed' = dist /\ None \notin {dist.binary, dist.manifest, dist.descriptor}
        /\ dist.descriptor = Descriptor(dist.binary, dist.manifest)
        /\ UNCHANGED <<tree, built, packager, dist, process, sent, edits, spawns>>
    BY DEF Install
  <1>2. /\ dist.binary \in Binary /\ dist.manifest \in Manifests /\ dist.descriptor \in Identity
    BY <1>1 DEF Inv, TypeOK
  <1>3. Whole(installed')
    BY <1>1, <1>2 DEF Whole
  <1>4. InstalledIsWhole' /\ OneManifest' /\ SentByAdmitted' /\ RequestsMatchTheHost'
    BY <1>1, <1>3 DEF Inv, InstalledIsWhole, OneManifest, SentByAdmitted, RequestsMatchTheHost
  <1> QED BY <1>1, <1>4, TreeUntouched DEF Inv, TypeOK, Shapes

LEMMA SpawnKeepsInv == ASSUME Inv, Spawn PROVE Inv'
  <1>1. /\ process.pc = "none" /\ installed # None /\ spawns' = spawns + 1 /\ spawns < MaxSpawns
        /\ process' = [NoProcess EXCEPT !.pc = "spawned", !.binary = installed.binary]
        /\ UNCHANGED <<tree, built, packager, dist, installed, sent, edits>>
    BY DEF Spawn
  <1>2. Whole(installed) /\ installed.binary \in Binary
    BY <1>1 DEF Inv, InstalledIsWhole, Whole
  <1>3. process' \in Process /\ process'.pc = "spawned" /\ process'.binary = installed.binary
    BY <1>1, <1>2, NoProcessParts DEF Process
  <1>4. sent' = None /\ sent = None
    BY <1>1 DEF Inv, SentByAdmitted
  <1>5. OneManifest'
    BY <1>1, <1>2, <1>3 DEF OneManifest
  <1>6. InstalledIsWhole' /\ SentByAdmitted' /\ RequestsMatchTheHost'
    BY <1>1, <1>2, <1>4 DEF InstalledIsWhole, SentByAdmitted, RequestsMatchTheHost
  <1>7. spawns' \in 0..MaxSpawns
    BY <1>1, ArtifactAssumption DEF Inv, TypeOK
  <1> QED BY <1>1, <1>3, <1>4, <1>5, <1>6, <1>7, TreeUntouched DEF Inv, TypeOK

\* A process that has not been admitted comes to be another, or none.
LEMMA ProcessMoves ==
    ASSUME Inv, process.pc \in {"spawned", "serving"},
           UNCHANGED <<tree, built, packager, dist, installed, sent, edits, spawns>>,
           process' \in Process,
           process' = NoProcess
           \/ /\ process'.pc \in {"serving", "admitted"} /\ process'.binary = process.binary
              /\ process'.identity \in Identity
              /\ process'.identity.manifest = process.binary.manifest
              /\ process'.pc = "admitted" => process'.host = process.binary.manifest
    PROVE  Inv'
  <1>1. sent = None /\ Whole(installed) /\ process.binary \in Binary
    BY DEF Inv, SentByAdmitted, OneManifest
  <1>2. OneManifest'
    BY <1>1, NoProcessParts DEF OneManifest
  <1>3. InstalledIsWhole' /\ SentByAdmitted' /\ RequestsMatchTheHost'
    BY <1>1 DEF InstalledIsWhole, SentByAdmitted, RequestsMatchTheHost
  <1> QED BY <1>1, <1>2, <1>3, TreeUntouched DEF Inv, TypeOK

LEMMA StartKeepsInv == ASSUME Inv, Start PROVE Inv'
  <1> DEFINE id == installed.descriptor
             embedded == process.binary.manifest
  <1>1. /\ process.pc = "spawned"
        /\ process' = IF NewServer(embedded, id)
                      THEN [process EXCEPT !.pc = "serving", !.identity = id,
                                           !.catalog = CatalogOf(embedded)]
                      ELSE NoProcess
        /\ UNCHANGED <<tree, built, packager, dist, installed, sent, edits, spawns>>
    BY DEF Start
  <1>2. id \in Identity /\ embedded \in Manifests /\ process \in Process
    BY <1>1 DEF Inv, OneManifest, Whole, Binary, Shapes
  <1>3. CASE NewServer(embedded, id)
    <2>1. id.manifest = embedded
      BY <1>3 DEF NewServer
    <2>2. /\ process' \in Process /\ process'.pc = "serving" /\ process'.identity = id
          /\ process'.binary = process.binary
      <3>1. CatalogOf(embedded) \in {CatalogOf(m) : m \in Manifests}
        BY <1>2
      <3> DEFINE catalog == CatalogOf(embedded)
      <3>2. process' = [process EXCEPT !.pc = "serving", !.identity = id, !.catalog = catalog]
        BY <1>1, <1>3
      <3> HIDE DEF catalog, id
      <3> QED BY <1>2, <3>1, <3>2 DEF Process, catalog
    <2> QED BY <1>1, <1>2, <2>1, <2>2, ProcessMoves
  <1>4. CASE ~NewServer(embedded, id)
    BY <1>1, <1>4, NoProcessParts, ProcessMoves
  <1> QED BY <1>3, <1>4

LEMMA AdmitKeepsInv == ASSUME Inv, Admit PROVE Inv'
  <1> DEFINE admits == /\ process.identity = installed.descriptor
                       /\ Admissible(process.catalog, installed.manifest)
  <1>1. /\ process.pc = "serving"
        /\ process' = IF admits
                      THEN [process EXCEPT !.pc = "admitted", !.host = installed.manifest]
                      ELSE NoProcess
        /\ UNCHANGED <<tree, built, packager, dist, installed, sent, edits, spawns>>
    BY DEF Admit
  <1>2. /\ installed.binary \in Binary /\ installed.manifest \in Manifests
        /\ installed.descriptor = Descriptor(installed.binary, installed.manifest)
        /\ process.identity \in Identity /\ process.identity.manifest = process.binary.manifest
        /\ process \in Process
    BY <1>1 DEF Inv, OneManifest, Whole, Shapes
  <1>3. CASE admits
    <2>1. installed.manifest = process.binary.manifest
      BY <1>2, <1>3, DescriptorParts
    <2>2. /\ process' \in Process /\ process'.pc = "admitted" /\ process'.host = installed.manifest
          /\ process'.binary = process.binary /\ process'.identity = process.identity
      BY <1>1, <1>2, <1>3 DEF Process
    <2> QED BY <1>1, <1>2, <2>1, <2>2, ProcessMoves
  <1>4. CASE ~admits
    BY <1>1, <1>4, NoProcessParts, ProcessMoves
  <1> QED BY <1>3, <1>4

\* A request that a handler makes is what the manifest says of its descriptor.
LEMMA PlannedParts ==
    ASSUME NEW m \in Manifests, NEW id \in RequestIds, NEW ctx \in Context,
           NEW request \in PlannedRequest(m, id, ctx)
    PROVE  /\ request.id = id /\ id \in DOMAIN m.requests
           /\ request.descriptor = m.requests[id]
           /\ request.policy = m.schemas[request.descriptor.schema] /\ request.policy # None
           /\ request.handles = request.descriptor.purposes /\ request.handles \subseteq Purposes
  <1>1. PICK d \in {m.requests[i] : i \in DOMAIN m.requests \cap {id}} :
           /\ d.schema \in DOMAIN m.schemas /\ d.purposes \subseteq Purposes
           /\ request = [id |-> id, descriptor |-> d, policy |-> m.schemas[d.schema],
                         handles |-> d.purposes]
    BY DEF PlannedRequest
  <1>2. id \in DOMAIN m.requests /\ d = m.requests[id]
    BY <1>1
  <1>3. m.schemas[d.schema] # None
    BY <1>1, ArtifactAssumption
  <1>4. /\ request.id = id /\ request.descriptor = d /\ request.policy = m.schemas[d.schema]
        /\ request.handles = d.purposes
    BY <1>1
  <1> QED BY <1>1, <1>2, <1>3, <1>4

LEMMA SendKeepsInv == ASSUME Inv, Send PROVE Inv'
  <1>1. PICK id \in RequestIds, ctx \in Context :
           sent' \in PlannedRequest(process.binary.manifest, id, ctx)
    BY DEF Send
  <1>2. /\ process.pc = "admitted"
        /\ UNCHANGED <<tree, built, packager, dist, installed, process, edits, spawns>>
    BY DEF Send
  <1>3. process.host = process.binary.manifest /\ process.binary.manifest \in Manifests
    BY <1>2 DEF Inv, OneManifest, Binary
  <1>4. /\ sent'.id = id /\ id \in DOMAIN process.host.requests
        /\ sent'.descriptor = process.host.requests[id]
        /\ sent'.policy = process.host.schemas[sent'.descriptor.schema] /\ sent'.policy # None
        /\ sent'.handles = sent'.descriptor.purposes /\ sent'.handles \subseteq Purposes
    BY <1>1, <1>3, PlannedParts
  <1>5. SentByAdmitted' /\ RequestsMatchTheHost'
    BY <1>2, <1>4 DEF SentByAdmitted, RequestsMatchTheHost
  <1>6. InstalledIsWhole' /\ OneManifest'
    BY <1>2 DEF Inv, InstalledIsWhole, OneManifest
  <1> QED BY <1>2, <1>4, <1>5, <1>6, TreeUntouched DEF Inv, TypeOK, Shapes

LEMMA ExitKeepsInv == ASSUME Inv, Exit PROVE Inv'
  <1>1. /\ process' = NoProcess /\ sent' = None
        /\ UNCHANGED <<tree, built, packager, dist, installed, edits, spawns>>
    BY DEF Exit
  <1>2. OneManifest' /\ SentByAdmitted' /\ RequestsMatchTheHost'
    BY <1>1, NoProcessParts DEF OneManifest, SentByAdmitted, RequestsMatchTheHost
  <1>3. InstalledIsWhole'
    BY <1>1 DEF Inv, InstalledIsWhole
  <1> QED BY <1>1, <1>2, <1>3, NoProcessParts, TreeUntouched DEF Inv, TypeOK
--------------------------------------------------------------------------------
LEMMA InvInit == Init => Inv
  <1> SUFFICES ASSUME Init PROVE Inv
    OBVIOUS
  <1>1. /\ packager = [pc |-> "idle", binary |-> None, manifest |-> None]
        /\ dist = [binary |-> None, manifest |-> None, descriptor |-> None]
        /\ tree \in Binary /\ built = None /\ installed = None /\ process = NoProcess
        /\ sent = None /\ edits = 0 /\ spawns = 0
    BY DEF Init
  <1>2. /\ packager \in Packager /\ dist \in Layout /\ process \in Process
        /\ packager.pc = "idle" /\ process.pc = "none"
    BY <1>1, NoProcessParts DEF Packager, Layout
  <1>3. /\ packager.pc \in {"idle", "binary", "read", "one", "two"}
        /\ packager.binary \in Binary \cup {None} /\ packager.manifest \in Manifests \cup {None}
        /\ dist.binary \in Binary \cup {None} /\ dist.manifest \in Manifests \cup {None}
        /\ dist.descriptor \in Identity \cup {None}
        /\ process.identity \in Identity \cup {None} /\ process.host \in Manifests \cup {None}
    BY <1>2 DEF Packager, Layout, Process
  <1>4. 0 \in 0..MaxEdits /\ 0 \in 0..MaxSpawns
    BY ArtifactAssumption
  <1>5. TypeOK
    BY <1>1, <1>2, <1>3, <1>4 DEF TypeOK
  <1>6. /\ PackagerHasRead /\ InstalledIsWhole /\ OneManifest /\ SentByAdmitted
        /\ RequestsMatchTheHost
    BY <1>1, <1>2 DEF PackagerHasRead, InstalledIsWhole, OneManifest, SentByAdmitted,
                      RequestsMatchTheHost
  <1> QED BY <1>2, <1>5, <1>6 DEF Inv, Shapes

LEMMA InvNext == Inv /\ [Next]_vars => Inv'
  <1> SUFFICES ASSUME Inv, [Next]_vars PROVE Inv'
    OBVIOUS
  <1>1. CASE Edit \/ Build \/ ReadBinary \/ ReadManifest \/ WriteLayout \/ Stop
    BY <1>1, EditKeepsInv, BuildKeepsInv, ReadBinaryKeepsInv, ReadManifestKeepsInv,
       WriteLayoutKeepsInv, StopKeepsInv
  <1>2. CASE Install \/ Spawn \/ Start \/ Admit \/ Send \/ Exit
    BY <1>2, InstallKeepsInv, SpawnKeepsInv, StartKeepsInv, AdmitKeepsInv, SendKeepsInv,
       ExitKeepsInv
  <1>3. CASE UNCHANGED vars
    BY <1>3, ProcessUntouched DEF vars, Inv, TypeOK, Shapes, PackagerHasRead
  <1> QED BY <1>1, <1>2, <1>3 DEF Next
--------------------------------------------------------------------------------
\* The types hold of every reachable state.
THEOREM TypeCorrect == Spec => []TypeOK
  <1>1. Inv => TypeOK
    BY DEF Inv
  <1> QED BY <1>1, InvInit, InvNext, PTL DEF Spec

\* A request that is sent is the one of the manifest the host admitted, under its
\* response policy and with its purposes' handles, for any manifests and however the
\* files came to be where they are (server.go NewServer, host.go plannedRequest).
THEOREM SentAsAdmitted == Spec => []RequestsMatchTheHost
  <1>1. Inv => RequestsMatchTheHost
    BY DEF Inv
  <1> QED BY <1>1, InvInit, InvNext, PTL DEF Spec
================================================================================
