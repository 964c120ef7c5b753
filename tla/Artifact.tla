---------------------------------- MODULE Artifact ---------------------------------
(***************************************************************************)
(* From the working tree to a request: the provider is built with its      *)
(* manifest embedded, packaged (cmd/package), installed and spawned by the *)
(* host, reads the descriptor beside it (main.go), refuses to start unless *)
(* that describes the manifest inside it (server.go), advertises a catalog *)
(* (catalog.go) and binds every request to what its manifest says of it    *)
(* (host.go).  The tree may change between any two steps, packaging may    *)
(* stop half-way, and the host may replace an installation at any time.    *)
(*                                                                         *)
(* A digest is the value it is taken of.  The host is external: it admits  *)
(* a process by the manifest installed at that time, and holds its         *)
(* requests against that one.  A manifest is its agent's version, its      *)
(* diagnostic namespace, its request descriptors by id and its response    *)
(* schemas by id; one that does not parse is left out.                     *)
(***************************************************************************)
EXTENDS Naturals, FiniteSets

CONSTANTS Codes,        \* versions of the source beside the manifest
          Manifests,    \* versions of the manifest
          RequestIds,   \* the descriptors that handlers ask for
          None,
          MaxEdits,     \* bound on edits of the tree
          MaxSpawns     \* bound on the processes spawned

VARIABLES tree,       \* the working tree: code and manifest
          built,      \* the binary in it
          packager,   \* a run of cmd/package and what it has read
          dist,       \* the layout it writes
          installed,  \* the layout the host has verified
          process,    \* the provider process
          sent,       \* the last request it sent
          edits, spawns

vars == <<tree, built, packager, dist, installed, process, sent, edits, spawns>>
--------------------------------------------------------------------------------
Purposes == {"management", "runtime", "build", "webhook-verification"}
HTTPMethods == {"GET", "HEAD", "POST", "PUT", "PATCH", "DELETE"}

Binary == [code : Codes, manifest : Manifests]  \* the manifest is embedded

\* None is the absence of a value: no response policy is None.
ASSUME ArtifactAssumption ==
    /\ MaxEdits \in Nat /\ MaxSpawns \in Nat
    /\ \A m \in Manifests : \A schema \in DOMAIN m.schemas : m.schemas[schema] # None

Descriptor(binary, manifest) ==
    [version |-> manifest.version, artifact |-> binary, manifest |-> manifest]

Identity == {Descriptor(b, m) : b \in Binary, m \in Manifests}

\* What the catalog advertises of a manifest: its requests by descriptor digest.
CatalogOf(m) == [requests |-> m.requests, codes |-> "provider.stripe."]

\* AdmitRuntimeCatalog: the catalog is what the manifest allows.
Admissible(catalog, m) == catalog.requests = m.requests /\ catalog.codes = m.namespace

\* Mutant: the versions are compared, the digests are not.
NewServerByVersion(embedded, id) ==
    /\ id.version = embedded.version
    /\ Admissible(CatalogOf(embedded), embedded)

\* NewServer: does it start?
NewServer(embedded, id) ==
    /\ id.manifest = embedded
    /\ id.version = embedded.version
    /\ Admissible(CatalogOf(embedded), embedded)

\* The context of a call: is there an origin for the rule "api", and the purposes the
\* host minted credential handles for.
Context == [origin : BOOLEAN, handles : SUBSET Purposes]

\* Mutant: an absent response schema does not matter.
PlannedAnyway(m, id, ctx) ==
    IF ctx.origin /\ id \in DOMAIN m.requests /\ m.requests[id].purposes \subseteq ctx.handles
    THEN {[id |-> id, descriptor |-> m.requests[id],
           policy |-> IF m.requests[id].schema \in DOMAIN m.schemas
                      THEN m.schemas[m.requests[id].schema] ELSE None,
           handles |-> m.requests[id].purposes]}
    ELSE {}

\* admittedOrigin, plannedRequest, responsePolicyDigest and credentialHandles: the
\* request a handler makes of a descriptor, none when one of them fails.
PlannedRequest(m, id, ctx) ==
    {[id |-> id, descriptor |-> d, policy |-> m.schemas[d.schema], handles |-> d.purposes] :
        d \in {e \in {m.requests[i] : i \in DOMAIN m.requests \cap {id}} :
                  /\ ctx.origin
                  /\ e.method \in HTTPMethods
                  /\ e.schema \in DOMAIN m.schemas
                  /\ e.purposes \subseteq Purposes \cap ctx.handles}}
--------------------------------------------------------------------------------
NoProcess == [pc |-> "none", binary |-> None, identity |-> None, catalog |-> None, host |-> None]

Init ==
    /\ tree \in Binary /\ built = None
    /\ packager = [pc |-> "idle", binary |-> None, manifest |-> None]
    /\ dist = [binary |-> None, manifest |-> None, descriptor |-> None]
    /\ installed = None /\ process = NoProcess /\ sent = None
    /\ edits = 0 /\ spawns = 0

Edit ==
    /\ edits < MaxEdits /\ edits' = edits + 1
    /\ tree' \in Binary \ {tree}
    /\ UNCHANGED <<built, packager, dist, installed, process, sent, spawns>>

Build ==
    /\ built' = tree
    /\ UNCHANGED <<tree, packager, dist, installed, process, sent, edits, spawns>>

ReadBinary ==
    /\ packager.pc = "idle" /\ built # None
    /\ packager' = [pc |-> "binary", binary |-> built, manifest |-> None]
    /\ UNCHANGED <<tree, built, dist, installed, process, sent, edits, spawns>>

ReadManifest ==
    /\ packager.pc = "binary"
    /\ packager' = [packager EXCEPT !.pc = "read", !.manifest = tree.manifest]
    /\ UNCHANGED <<tree, built, dist, installed, process, sent, edits, spawns>>

\* The three files of the layout, in this order.
Write(from, to, file, content) ==
    /\ packager.pc = from
    /\ packager' = [packager EXCEPT !.pc = to]
    /\ dist' = [dist EXCEPT ![file] = content]
    /\ UNCHANGED <<tree, built, installed, process, sent, edits, spawns>>

WriteLayout ==
    \/ Write("read", "one", "binary", packager.binary)
    \/ Write("one", "two", "manifest", packager.manifest)
    \/ Write("two", "idle", "descriptor", Descriptor(packager.binary, packager.manifest))

\* Packaging stops, and the file it was writing may be left cut off.
Stop ==
    /\ packager.pc # "idle"
    /\ packager' = [packager EXCEPT !.pc = "idle"]
    /\ \/ dist' = dist
       \/ packager.pc = "read" /\ dist' = [dist EXCEPT !.binary = None]
       \/ packager.pc = "one" /\ dist' = [dist EXCEPT !.manifest = None]
       \/ packager.pc = "two" /\ dist' = [dist EXCEPT !.descriptor = None]
    /\ UNCHANGED <<tree, built, installed, process, sent, edits, spawns>>

\* The host takes a layout whose descriptor is of its binary and manifest.
Install ==
    /\ None \notin {dist.binary, dist.manifest, dist.descriptor}
    /\ dist.descriptor = Descriptor(dist.binary, dist.manifest)
    /\ installed' = dist
    /\ UNCHANGED <<tree, built, packager, dist, process, sent, edits, spawns>>

Spawn ==
    /\ process.pc = "none" /\ installed # None
    /\ spawns < MaxSpawns /\ spawns' = spawns + 1
    /\ process' = [NoProcess EXCEPT !.pc = "spawned", !.binary = installed.binary]
    /\ UNCHANGED <<tree, built, packager, dist, installed, sent, edits>>

\* newServer: the descriptor is read and the server built.
Start ==
    /\ process.pc = "spawned"
    /\ LET id == installed.descriptor
           embedded == process.binary.manifest
       IN  process' = IF NewServer(embedded, id)
                      THEN [process EXCEPT !.pc = "serving", !.identity = id,
                                           !.catalog = CatalogOf(embedded)]
                      ELSE NoProcess
    /\ UNCHANGED <<tree, built, packager, dist, installed, sent, edits, spawns>>

\* The host asks GetProviderInformation of the identity it has installed.
Admit ==
    /\ process.pc = "serving"
    /\ process' = IF /\ process.identity = installed.descriptor
                     /\ Admissible(process.catalog, installed.manifest)
                  THEN [process EXCEPT !.pc = "admitted", !.host = installed.manifest]
                  ELSE NoProcess
    /\ UNCHANGED <<tree, built, packager, dist, installed, sent, edits, spawns>>

\* A handler sends a request, or fails for want of one.
Send ==
    /\ process.pc = "admitted"
    /\ \E id \in RequestIds, ctx \in Context :
          sent' \in PlannedRequest(process.binary.manifest, id, ctx)
    /\ UNCHANGED <<tree, built, packager, dist, installed, process, edits, spawns>>

Exit ==
    /\ process.pc # "none"
    /\ process' = NoProcess /\ sent' = None
    /\ UNCHANGED <<tree, built, packager, dist, installed, edits, spawns>>

Next ==
    \/ Edit \/ Build \/ ReadBinary \/ ReadManifest \/ WriteLayout \/ Stop
    \/ Install \/ Spawn \/ Start \/ Admit \/ Send \/ Exit

Spec == Init /\ [][Next]_vars
--------------------------------------------------------------------------------
TypeOK ==
    /\ tree \in Binary /\ built \in Binary \cup {None}
    /\ packager.pc \in {"idle", "binary", "read", "one", "two"}
    /\ packager.binary \in Binary \cup {None} /\ packager.manifest \in Manifests \cup {None}
    /\ dist.binary \in Binary \cup {None} /\ dist.manifest \in Manifests \cup {None}
    /\ dist.descriptor \in Identity \cup {None}
    /\ installed # None => None \notin {installed.binary, installed.manifest}
    /\ process.pc \in {"none", "spawned", "serving", "admitted"}
    /\ process.identity \in Identity \cup {None} /\ process.host \in Manifests \cup {None}
    /\ sent # None => /\ sent.id \in RequestIds /\ sent.policy # None
                      /\ sent.handles \subseteq Purposes
    /\ edits \in 0..MaxEdits /\ spawns \in 0..MaxSpawns

\* Whatever was edited between build and packaging, however packaging ended and
\* whenever an installation was replaced, a request that is sent is the one that the
\* manifest the host admitted describes, under the response policy it states: the
\* catalog alone, which has no response schemas, would not do (server.go NewServer,
\* host.go plannedRequest and responsePolicyDigest).
RequestsMatchTheHost ==
    sent # None =>
        /\ sent.id \in DOMAIN process.host.requests
        /\ sent.descriptor = process.host.requests[sent.id]
        /\ sent.policy = process.host.schemas[sent.descriptor.schema]
        /\ sent.handles = sent.descriptor.purposes
================================================================================
