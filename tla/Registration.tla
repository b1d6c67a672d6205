---------------------------- MODULE Registration ----------------------------
(***************************************************************************)
(* The calls by which a test registers what it needs, and the graph that   *)
(* Setup makes of them.  Each spec has a specState (spec.go): the suite's, *)
(* which exists from the start, one for every call of ForSpec, and a stub  *)
(* in each process that Deserialize has handed a suite's clusters to.  A   *)
(* resource stands for a Manifests, Release or ClusterAction call, whose   *)
(* registrations are the same code three times over; likewise the three    *)
(* kinds of images.  ids are drawn in order, which is all of newID that    *)
(* matters: each is new.                                                   *)
(***************************************************************************)
EXTENDS Dag, Naturals, Sequences, FiniteSets

CONSTANTS Spec,          \* specStates, the suite's included
          Suite,         \* the suite's
          None,          \* no parent
          MaxID,         \* bound: ids drawn in all
          MaxCalls,      \* bound: ids drawn and specs made together
          MaxDepth,      \* bound: how deep ForSpec nests
          NoCacheImages  \* the option that Cluster() looks at

ASSUME RegistrationAssumption ==
  /\ Suite \in Spec /\ None \notin Spec /\ IsFiniteSet(Spec)
  /\ {MaxID, MaxCalls, MaxDepth} \subseteq Nat
  /\ NoCacheImages \in BOOLEAN

VARIABLES
  nextID,      \* the id that newID returns next
  parent,      \* parent[s]: specState.parent; s itself while s does not exist
  stubs,       \* what Deserialize has made
  clusters,    \* keys of specState.clusters
  images,      \* keys of the image maps, each with its class
  resources,   \* keys of the manifests, releases and clusterActions maps
  loads,       \* loads[s][<<c, i>>]: the id under which c loads image i
  setup,       \* specState.setup, as a set of nodes
  declared,    \* what each call that returned an id was given
  panicked     \* specs in which a registration has panicked

vars == <<nextID, parent, stubs, clusters, images, resources, loads, setup, declared,
          panicked>>

ID == 1..MaxID
ImageClass == {"thirdParty", "custom"}
ResourceClass == {"deployed", "action"}   \* a ClusterAction, or another
Act == {"image", "load", "cluster", "inherited", "resource", "noop"}

\* The entries of f, and those of g under other keys.
Joined(f, g) ==
  [x \in DOMAIN f \cup DOMAIN g |-> IF x \in DOMAIN f THEN f[x] ELSE g[x]]

Node(id, deps, act) == [id |-> id, deps |-> deps, act |-> act]

Exists(s) == parent[s] # s

\* s and the specs it descends from.
Lineage(s) ==
  Upstream([t \in Spec |-> IF Exists(t) THEN {parent[t]} \ {None} ELSE {}], {s})

\* The test goes on with s as long as nothing has panicked on the way.
Open(s) == Exists(s) /\ Lineage(s) \cap panicked = {}
Registers(s) == Open(s) /\ s \notin stubs

Specs == Cardinality({s \in Spec : Exists(s)}) - 1
RoomFor(n) == nextID + n <= MaxID + 1 /\ nextID + n + Specs <= MaxCalls + 1

\* The images and resources whose ids the code of s can have in hand.
Visible(s) ==
  (UNION {DOMAIN images[t] : t \in Lineage(s)})
    \cup {r \in DOMAIN declared : declared[r].spec \in Lineage(s)}

IsImage(id) == \E t \in Spec : id \in DOMAIN images[t]
ClassOf(id) == LET t == CHOOSE t \in Spec : id \in DOMAIN images[t] IN images[t][id]
VisibleClusters(s) == UNION {clusters[t] : t \in Lineage(s)}

TypeOK ==
  /\ nextID \in 1..(MaxID + 1)
  /\ parent \in [Spec -> Spec \cup {None}]
  /\ \A s \in Spec :
       /\ clusters[s] \subseteq 1..(nextID - 1)
       /\ DOMAIN images[s] \subseteq 1..(nextID - 1)
       /\ resources[s] \subseteq 1..(nextID - 1)
       /\ \A p \in DOMAIN loads[s] : loads[s][p] \in 1..(nextID - 1)
       /\ \A n \in setup[s] : n.id \in 1..(nextID - 1) /\ n.act \in Act
  /\ DOMAIN declared \subseteq 1..(nextID - 1)
  /\ stubs \subseteq Spec /\ panicked \subseteq Spec

-----------------------------------------------------------------------------
(* What Setup hands to godag.Build (gingk8s.go:110-170) *)

\* Fault: the manifests, releases and actions of the parent forgotten.
ForgottenNoops(s) ==
  LET p == parent[s] IN
  IF p = None THEN {}
  ELSE {loads[p][q] : q \in DOMAIN loads[p]} \cup DOMAIN images[p]

\* The ids for which Setup adds a node that does nothing: what the direct
\* parent registered, its clusters left out as child() has added those.
NoopIDs(s) ==
  LET p == parent[s] IN
  IF p = None THEN {}
  ELSE {loads[p][q] : q \in {q \in DOMAIN loads[p] : q[1] \in clusters[p]}}
         \cup DOMAIN images[p] \cup resources[p]

SetupNodes(s) == setup[s] \cup {Node(id, {}, "noop") : id \in NoopIDs(s)}

SetupGraph(s) ==
  [id \in {n.id : n \in SetupNodes(s)} |->
     UNION {n.deps : n \in {m \in SetupNodes(s) : m.id = id}}]

-----------------------------------------------------------------------------

Init ==
  /\ nextID = 1
  /\ parent = [s \in Spec |-> IF s = Suite THEN None ELSE s]
  /\ stubs = {}
  /\ clusters = [s \in Spec |-> {}]
  /\ images = [s \in Spec |-> <<>>]
  /\ resources = [s \in Spec |-> {}]
  /\ loads = [s \in Spec |-> <<>>]
  /\ setup = [s \in Spec |-> {}]
  /\ declared = <<>>
  /\ panicked = {}

\* ThirdPartyImages, CustomImages, ImageArchives: one image of them.
AddImage(s, class) ==
  /\ Registers(s) /\ RoomFor(1)
  /\ nextID' = nextID + 1
  /\ images' = [images EXCEPT ![s] = Joined(@, [id \in {nextID} |-> class])]
  /\ setup' = [setup EXCEPT ![s] = @ \cup {Node(nextID, {}, "image")}]
  /\ UNCHANGED <<parent, stubs, clusters, resources, loads, declared, panicked>>

\* Cluster() looks up NoPull of a third-party image in the maps of s alone:
\* for an image of an ancestor that dereferences nil.
DerefsNil(s, i) ==
  NoCacheImages /\ ClassOf(i) = "thirdParty" /\ i \notin DOMAIN images[s]

\* Third-party images come first, whatever the order of the arguments.
ClassesInOrder(deps) ==
  \A j, k \in DOMAIN deps :
    j < k /\ ClassOf(deps[k]) = "thirdParty" => ClassOf(deps[j]) = "thirdParty"

\* Fault: the cluster's id only.
OneIDDrawn(n) == 1

\* The ids that a call of Cluster draws: the cluster's, and one for a load.
IDsDrawn(n) == n + 1

\* The positions that Cluster() panics at, were it to come so far, and the
\* last one that it comes to.
Fails(s, deps) == {k \in DOMAIN deps : DerefsNil(s, deps[k])}

Reached(s, deps) ==
  IF Fails(s, deps) = {} THEN Len(deps)
  ELSE CHOOSE k \in Fails(s, deps) : \A j \in Fails(s, deps) : k <= j

\* The last of the first end positions that names i.
LastOf(deps, end, i) ==
  CHOOSE k \in 1..end : deps[k] = i /\ \A j \in (k+1)..end : deps[j] # i

\* Cluster(cluster, deps): a load node for each image named, and last the
\* cluster's own node.  deps may name an image twice: the later load is the
\* one that is remembered.  A panic comes after the maps have been written.
AddCluster(s, deps) ==
  LET c    == nextID
      end  == Reached(s, deps)
      ends == Fails(s, deps) = {}
      done == IF ends THEN end ELSE end - 1
  IN
  /\ Registers(s) /\ RoomFor(1 + end)
  /\ ClassesInOrder(deps)
  /\ nextID' = c + IDsDrawn(end)
  /\ clusters' = [clusters EXCEPT ![s] = @ \cup {c}]
  /\ loads' = [loads EXCEPT ![s] =
       Joined(@, [q \in {<<c, deps[k]>> : k \in 1..end} |-> c + LastOf(deps, end, q[2])])]
  /\ setup' = [setup EXCEPT ![s] =
       @ \cup {Node(c + k, {c, deps[k]}, "load") : k \in 1..done}
         \cup (IF ends THEN {Node(c, {}, "cluster")} ELSE {})]
  /\ panicked' = IF ends THEN panicked ELSE panicked \cup {s}
  /\ UNCHANGED <<parent, stubs, images, resources, declared>>

\* ResourceDependencies.AddResourceDependency (deps.go:32-39): of what a
\* bundle holds, the ClusterActions are not copied.
Unbundled(bundle) == {id \in bundle : IsImage(id) \/ declared[id].class # "action"}

\* ResourceDependencies.allIDs: panics unless the maps of s itself have the
\* cluster and a load onto it of each image.
Resolves(s, c, deps) ==
  /\ c \in clusters[s]
  /\ \A i \in deps : IsImage(i) => <<c, i>> \in DOMAIN loads[s]

\* Fault: an image stands for itself, not for its load.
DependsOnPull(s, c, deps) == {c} \cup deps

\* The dependencies of the new node: a resource for itself, an image by its
\* load onto the cluster.
DependsOn(s, c, deps) ==
  {c} \cup {IF IsImage(i) THEN loads[s][<<c, i>>] ELSE i : i \in deps}

\* Manifests, Release, ClusterAction.  The map entry is made before allIDs
\* may panic.
AddResource(s, class, c, direct, bundle) ==
  LET deps == direct \cup Unbundled(bundle) IN
  /\ Registers(s) /\ RoomFor(1)
  /\ nextID' = nextID + 1
  /\ resources' = [resources EXCEPT ![s] = @ \cup {nextID}]
  /\ IF Resolves(s, c, deps)
     THEN /\ setup' = [setup EXCEPT ![s] =
               @ \cup {Node(nextID, DependsOn(s, c, deps), "resource")}]
          /\ declared' = Joined(declared,
               [id \in {nextID} |-> [spec |-> s, class |-> class, cluster |-> c,
                                    direct |-> direct, bundle |-> bundle]])
          /\ UNCHANGED panicked
     ELSE /\ panicked' = panicked \cup {s}
          /\ UNCHANGED <<setup, declared>>
  /\ UNCHANGED <<parent, stubs, clusters, images, loads>>

\* Fault: the clusters without the noopCluster around them.
CreatedAgain(cs) == {Node(c, {}, "cluster") : c \in cs}

\* child() wraps each cluster of its parent in a noopCluster.
Inherited(cs) == {Node(c, {}, "inherited") : c \in cs}

\* One that does not exist yet; it does not matter which.
Fresh(s) ==
  /\ ~Exists(s) /\ s = CHOOSE t \in Spec : ~Exists(t)
  /\ nextID + Specs <= MaxCalls

\* ForSpec: a child with the clusters that p has now, and nothing else.
ForSpec(p, s) ==
  /\ Open(p) /\ Cardinality(Lineage(p)) <= MaxDepth
  /\ Fresh(s)
  /\ parent' = [parent EXCEPT ![s] = p]
  /\ clusters' = [clusters EXCEPT ![s] = clusters[p]]
  /\ setup' = [setup EXCEPT ![s] = Inherited(clusters[p])]
  /\ UNCHANGED <<nextID, stubs, images, resources, loads, declared, panicked>>

\* Fault: the clusters get nodes, as if they had been registered.
Reregister(p, s) ==
  /\ Open(p) /\ parent[p] = None
  /\ Fresh(s)
  /\ parent' = [parent EXCEPT ![s] = None]
  /\ stubs' = stubs \cup {s}
  /\ clusters' = [clusters EXCEPT ![s] = clusters[p]]
  /\ setup' = [setup EXCEPT ![s] = CreatedAgain(clusters[p])]
  /\ UNCHANGED <<nextID, images, resources, loads, declared, panicked>>

\* Serialize in the process of p, Deserialize in another one, which has the
\* ids of p's clusters then and no others.  On what ForSpec has made the loop
\* of Serialize never ends, and neither does the test.
Rehydrate(p, s) ==
  /\ Open(p) /\ parent[p] = None
  /\ Fresh(s)
  /\ parent' = [parent EXCEPT ![s] = None]
  /\ stubs' = stubs \cup {s}
  /\ clusters' = [clusters EXCEPT ![s] = clusters[p]]
  /\ UNCHANGED <<nextID, images, resources, loads, setup, declared, panicked>>

\* Of the maps of a stub only that of the clusters is made: a registration
\* panics, Cluster after its first entry.
OnStub(s) ==
  /\ Open(s) /\ s \in stubs /\ RoomFor(1)
  /\ nextID' = nextID + 1
  /\ panicked' = panicked \cup {s}
  /\ \/ UNCHANGED clusters
     \/ clusters' = [clusters EXCEPT ![s] = @ \cup {nextID}]
  /\ UNCHANGED <<parent, stubs, images, resources, loads, setup, declared>>

-----------------------------------------------------------------------------

\* Up to two images for a cluster, and the same one twice.
ImageLists(s) ==
  LET im == {i \in Visible(s) : IsImage(i)} IN
  {<<>>} \cup {<<i>> : i \in im} \cup (im \X im)

Next ==
  \/ \E s \in Spec, class \in ImageClass : AddImage(s, class)
  \/ \E s \in Spec : Registers(s) /\ \E deps \in ImageLists(s) : AddCluster(s, deps)
  \/ \E s \in Spec : Registers(s) /\
       \E class \in ResourceClass, c \in VisibleClusters(s),
          direct, bundle \in SUBSET Visible(s) :
         Cardinality(direct) + Cardinality(bundle) <= 2
           /\ AddResource(s, class, c, direct, bundle)
  \/ \E p, s \in Spec : ForSpec(p, s) \/ Rehydrate(p, s)
  \/ \E s \in Spec : OnStub(s)

Calls == Init /\ [][Next]_vars

-----------------------------------------------------------------------------
(* Properties *)

(* Whatever was registered without a panic, Setup can build a graph of it: *)
(* no id twice, no dependency without a node, no cycle (gingk8s.go:169-170)*)
Buildable ==
  \A s \in Spec : Open(s) =>
    /\ \A m, n \in SetupNodes(s) : m.id = n.id => m = n
    /\ \A n \in SetupNodes(s) : n.deps \subseteq DOMAIN SetupGraph(s)
    /\ Acyclic(SetupGraph(s))

\* In the graph of r's spec, r needs x: a resource itself, an image by a load
\* of it onto the cluster that r goes to.
WaitsFor(r, x) ==
  LET d == declared[r]
      needed == Needs(SetupGraph(d.spec), r)
  IN IF IsImage(x)
     THEN \E n \in setup[d.spec] :
            n.act = "load" /\ n.id \in needed /\ n.deps = {d.cluster, x}
     ELSE x \in needed

(* A resource waits for its cluster, for each image it names to be loaded  *)
(* onto that very cluster, and for each resource it names; bundled         *)
(* ClusterActions apart.                                                   *)
DeclaredWaits ==
  \A r \in DOMAIN declared :
    /\ declared[r].cluster \in Needs(SetupGraph(declared[r].spec), r)
    /\ \A x \in declared[r].direct \cup Unbundled(declared[r].bundle) :
         WaitsFor(r, x)

(* "any actions that must succeed" before a step (gingk8s_suite_test.go:43)*)
(* are waited for when they are given in a ResourceDependencies too.       *)
BundledWaits ==
  \A r \in DOMAIN declared : \A x \in declared[r].bundle : WaitsFor(r, x)

(* The same id is never set up, and so never torn down, by two specs: a    *)
(* child has a noopCluster or a noop in place of what it has from others.  *)
OneOwner ==
  \A s, t \in Spec : \A m \in SetupNodes(s), n \in SetupNodes(t) :
    s # t /\ m.id = n.id => m.act \in {"inherited", "noop"} \/ n.act \in {"inherited", "noop"}
=============================================================================
