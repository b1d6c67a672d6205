# gingk8s in TLA+

gingk8s is a Go library for test suites written with ginkgo that need
Kubernetes clusters. A test registers images, clusters, manifests, helm
releases and actions; `Setup` turns them into a dependency graph, runs it
concurrently with the godag executor, and defers a cleanup that runs the
reversed graph. This directory holds models of that machinery, the TLC
configurations that check them on small instances, and proofs, checked with
TLAPS, of what holds for every instance. Line numbers refer to `src/`.

    tlasany M.tla                      parse a module
    tlc -config X.cfg M                model-check
    tlapm M.tla                        check the proofs of a *Proofs module

`PROJECT.json` lists the components, runs, theorems and hazards in a form that
tools can read, and maps each definition to the lines that it models.

## 1. Inventory

| Component | Source | State | Operations | Hard about it |
|---|---|---|---|---|
| Registration | `suite.go`, `spec.go`, `deps.go`, and the registering functions of `images.go`, `cluster.go`, `manifests.go`, `helm.go`, `action.go` | one `specState` per spec: maps from ids to what was registered, `setup` (a list of nodes), `parent` | `ThirdPartyImages`, `CustomImages`, `ImageArchives`, `Cluster`, `Manifests`, `Release`, `ClusterAction`, `ForSpec`, `Serialize`, `Deserialize` | long sequences of calls on several specs; panics half-way; maps copied from a parent that goes on changing; a spec of another process of which most maps are nil |
| Setup and teardown | `gingk8s.go`, `spec.go` | `specState.cleanup`, `cleanLock`, the executor's tasks, ginkgo's `Failed()` | `Setup`, `specNode.DoDAGTask`, the deferred cleanup, `cleanupSpecNode.DoDAGTask` | concurrent tasks; errors against panics that `GinkgoRecover` swallows; partial setup; order of teardown; waiting for `^C` |
| Images | `images.go`, `docker.go`, `kind.go` | local store, archives on disk, images in clusters | pull, tag, build, save, remove, load, rm | concurrent loads of one image; `NoCacheImages`; a command that fails half-way; the next run of the suite |
| Manifests | `manifests.go`, `kubectl.go` | `Created` and `createdIx`, objects in the cluster | `CreateOrUpdate`, `Delete` | concurrent kubectls and readers that share an index; pipes that nobody reads; panics in helper goroutines |
| Background actions | `kubectl.go`, `action.go` | fields `stop`, `stopped`, `cancel` of a value that is used again | `Setup`, `Cleanup`, the goroutine's retry loop | a channel read from a field that may have been replaced; cancellation against retry |
| Suite lock | `util.go` | a directory | `WithLock`, `Once` with and without its unlock | several processes; crashes; an unlock that fails |
| KinD clusters | `kind.go` | a cluster, a config file | `Create`, `Delete`, `LoadImages`, `LoadImageArchives` | check and creation are two commands; suites share the cluster |
| Helm | `helm.go`, `helmcmd.go`, gingk8s.go:83-102 | releases in the cluster, values files, repositories by name | the loop over the releases, `AddRepo`, `InstallOrUpgrade`, `Delete` | values computed in a helper goroutine; a command that fails half-way; files, repositories and releases of an earlier run; one name in two namespaces |
| Values and copies | `reflection.go`, `types.go` | Go values that share arrays, pointers and maps | `DeepCopy`, `With`, `MergedFrom`, `resolveRValue`, assignments of the test | what a copy shares with what it was copied from, found out by a later change |
| The rest | `namespace.go`, `envtest.go`, other kubectl helpers, `WithRandomPorts` | little | single calls | none that is not in the above |

How they interact. Registration appends to `specState.setup` and runs before
`Setup`. `Setup` adds no-op nodes for what the direct parent registered, builds
the graph and gives it to godag, whose goroutines call `Setup` of the image
actions, clusters, manifests, releases and actions. Those run commands (docker,
kind, kubectl, helm) through gosh. Tasks of one spec share its cleanup list
under `cleanLock`; suites, which are processes of their own, share clusters,
the image store and directories, with a `MultiSuiteLock` if they use one.

What makes each correct: see the properties in section 3.

## 2. Modules

| Module | Role |
|---|---|
| `Dag` | reachability and acyclicity of dependency graphs, without recursion |
| `Provisioning` | abstract: resources come up after, and leave before, what they need |
| `SpecLifecycle`, `MCSpecLifecycle` | one `Setup` with its deferred cleanup; implements `Provisioning` |
| `Registration` | the registering calls, `ForSpec`, and the graph handed to godag |
| `SuiteLock` | `MultiSuiteLock` |
| `SharedCluster` | `KindCluster.Create` by several suites; extends `SuiteLock` |
| `ImageLoading`, `MCImageLoading` | image store, archives, loads, reruns |
| `ManifestsApply`, `MCManifestsApply` | `CreateOrUpdate` and `Delete` |
| `BackgroundActions` | watcher, port forwarder, logger |
| `Values` | the objects that hold the values of charts: copies and changes in place |
| `HelmReleases`, `MCHelmReleases` | repositories, releases and their values files, reruns; extends `Values` |
| `DagProofs`, `SpecLifecycleProofs`, `SharedClusterProofs`, `BackgroundActionsProofs`, `ManifestsApplyProofs`, `ImageLoadingProofs`, `RegistrationProofs`, `HelmReleasesProofs` | the theorems |

`Registration` and `SpecLifecycle` meet at the plan: what `SetupGraph` is in the
one, `Plans` is in the other. `SpecLifecycle` assumes nothing of its plans, not
even that they have no cycle, so what is proved of it holds of every graph that
registration can leave. In `SpecLifecycle` the Setup of a resource is one
action that succeeds, fails, or panics; `ImageLoading`, `ManifestsApply`,
`BackgroundActions`, `SharedCluster` and `HelmReleases` look inside that action.
`HelmReleases` extends `Values`: the test derives objects from one another, and
what helm is given is compared with what each was meant to hold.

Each module has a section of deliberate faults: what one of its definitions
might look like with a plausible bug. No specification uses them; they are
there to show that each property would notice.

### Correspondence with the code

`SpecLifecycle`. `phase` is the place in `Setup` (gingk8s.go:56-209) and the
callbacks it defers. `pc[n]` is the place of node `n` in `DoDAGTask`
(spec.go:39-53): `StartTask` is godag's call, the `Setup*` actions are
`n.Setup`, `LockCleanup` and `AppendCleanup` the read and the write of the list
under `cleanLock`; they are two steps so that a missing lock would show.
`cleanup` is the list as a set: nothing reads its order. `scope` is what
`StartFrom` selects in the reversed graph, `undo[n]` the place in
`cleanupSpecNode.DoDAGTask` (spec.go:67-77). `live` is what exists outside the
process. `failed` is what ginkgo has been told.

`Registration`. Each action is one call with every write it makes, including
those made before a panic (a map entry is written before `allIDs` panics). Ids
are numbers in the order in which `newID` gives them out. `declared` is history:
what the caller asked for. The three kinds of resources are one action, because
their code is the same; so are the two kinds of images that can be pulled.
`Rehydrate` is `Serialize` in one process and `Deserialize` in another: what it
makes has the cluster ids and nothing else, and is in `stubs`. `OnStub` is any
registration on it, which panics at the first map that nobody has made.
`Serialize` of a child is left out, as its loop (gingk8s.go:225) takes
`g.specState.parent` at each turn and never ends: no state follows.

`BackgroundActions`. The fields are modelled as fields: the goroutine reads
`k.stop` and `k.stopped` when it gets there, and a channel is named by the round
of `Setup` that made it. Rounds overlap: `Setup` may be called again before the
Cleanup of the last round, or without it, as only a logger has a check
(kubectl.go:196) and `NoSpecCleanup` skips Cleanups (action.go:133). A logger
that was refused panics in `Fail`, which is recovered (spec.go:40), and is
cleaned up all the same when something that depends on it was set up
(`MayCleanUp`). A close that panics in a goroutine ends the process (`crashed`,
after which nothing happens); one in a Cleanup is recovered, and the rest of that
Cleanup is left out (`panicked`). `overlap` is history: a Setup has written the
fields over while another round was up.

`ManifestsApply`. Each access to `createdIx` is a step of its own, as nothing
orders the readers. A kubectl prints one document for each object it applies.

`ImageLoading`. Each docker or kind command is a step. `run` counts how often
the suite is run with the same directory, image store and clusters. A load is
drawn for each mention of an image among a cluster's dependencies
(cluster.go:26-55), so an image mentioned twice has two concurrent loads onto one
cluster, which share one archive (kind.go:256). `tarball` is empty where there is
no archive or half a one: `kind load` fails on both.

`SuiteLock` and `SharedCluster`. The directory is `dir`; `os.Mkdir` is atomic.
`Create` is `TruncateConfig` and `WriteConfig` (mkConfig), `ClusterExists` or
`ListFails` (the first command of `gosh.Or`), and the creation, which begins and
ends. Suites share a `TempDir`, and with it the config file. `Once` runs a
function that ignores the unlock it is given, or (`OnceUnlocking`) defers it.

`Values`. `heap` is a sequence of cells (objects, arrays, pointers) that refer
to one another, `obj[h]` the cell that a variable of the test refers to.
`DeepCopied` appends a copy the way `rvalueCopy`, `rarrayCopy` and `robjectCopy`
make it: arrays anew, pointers to a fresh zero value, maps below the top not at
all. The copy of a cell is as far behind it as the heap was long, with a gap (an
`unused` cell) for each cell that is not copied, so that no numbering is needed;
nothing refers to a gap. `meant[h]` is history, by value: what the variable would hold if a copy
were a snapshot of what its source reads at that moment.

`HelmReleases`. `phase` is the place in `Setup` and the suite: the code that
builds the values, the loop over `g.releases` and its map `repos`, the FanOut of
`helm repo add`, the tasks, the cleanups. `pc[r]` is the next command of the
`And` in `InstallOrUpgrade` (helmcmd.go); `WriteValues` is mktemp's goroutine,
which writes the files one by one and, where it panics, reports that and answers
no error. `repoFile`, `file` and `installed` outlive a run: `Rerun` begins a
new one wherever the last has got to. `installed` has an entry for each release
that the cluster has, by namespace and name.

### What is assumed of code outside `src/`

- godag: `Run` starts a task only when the tasks it depends on have returned a
  nil error, never starts one that depends on a failed task, and returns when
  no task is running; `StartFrom` restricts a run to what is reachable from the
  set. With the set unset, `src/` does not tell whether godag runs all or
  nothing: both are modelled.
- ginkgo: deferred cleanups run last in, first out, after the specs or after a
  panic in `BeforeSuite`. `GinkgoRecover` reports a panic and lets the function
  return its zero values.
- gosh: `And` stops at the first failure, `Or` at the first success, `FanOut`
  runs all; a command whose output goes to a function ends when the function
  has returned.
- helm: `repo add` refuses a name that it has for another URL; `upgrade
  --install` takes files and repositories as they are then, fails without them,
  and may leave a release when it fails; `delete` fails if there is none.
- kind: a cluster is listed from when its creation begins, creating one that is
  listed fails, and a creation that fails either takes back what it has made or,
  where kind itself was killed with its context (kind.go:44), leaves half a
  cluster, which is listed.
- docker: an image may be saved and removed by any of its tags, `image rm` fails
  if there is none; `save` writes to a file that has been opened, and emptied,
  before it starts.

## 3. Runs

| Run | Module | What it asks | Outcome |
|---|---|---|---|
| `lifecycle` | `MCSpecLifecycle` | order of setup and teardown, the cleanup list, leaks, silent failures, termination, refinement | holds |
| `swallowed_panic` | `MCSpecLifecycle` | does a step start only when what it waits for has succeeded? | violated |
| `registration` | `Registration` | is the graph buildable, do resources wait for what they name, does each id have one owner? | holds |
| `bundled_actions` | `Registration` | are the actions inside a `ResourceDependencies` waited for? | violated |
| `nested_specs` | `Registration` | is the graph of a spec of a spec buildable? | violated |
| `background_actions` | `BackgroundActions` | when channels are closed twice, leaked goroutines, retries, reuse, Cleanups that hang | holds |
| `shared_cluster` | `SharedCluster` | exclusion, what `skipExisting` finds, who waits for ever | holds |
| `image_loading` | `MCImageLoading` | what is loaded, what `NoCacheImages` keeps, who takes what a load needs | holds |
| `manifests_apply` | `MCManifestsApply` | slots of `Created`, waits after applies, deletion, termination | holds |
| `created_slots` | `MCManifestsApply` | does `Created` list all objects? | violated |
| `helm_releases` | `MCHelmReleases` | what copies share, what values and charts helm is given, what is left behind | holds |
| `deep_copies` | `MCHelmReleases` | does a deep copy keep what a pointer points to? | violated |

### What the passing runs show

*lifecycle.* `NoLostCleanup`: the lock keeps the list whole.
`TeardownOrder` and `OnlyProvisionedUndone`: the reversed graph restricted by
`StartFrom` tears down in the right order, through nodes that panicked and are
on no list, and calls no Cleanup of a step that failed or never ran.
`OnlyProvisionedUndone` is stated for when anything was set up at all; if
nothing was, `StartFrom` is unset and it depends on godag. `NoLeak`: what was
set up and is to be deleted is gone at the end, or its failed deletion is on
record. `NoSilentLoss`: specs never run, unless marked as failed, without one of
their resources. `Provisions`: refinement. `EveryDoneNodeUndone`, `Terminates`:
liveness.

*registration.* `Buildable` (with `MaxDepth = 1`: the suite and specs made by
`ForSpec` on it), `DeclaredWaits` (an image named by a resource is loaded onto
the cluster that this resource goes to, even where the image was named twice),
`OneOwner` (no id is set up, and so torn down, by two specs, a spec of another
process that was handed the clusters included).

*background_actions.* Rounds of one value may overlap, and each property names
the exceptions that this makes. `NoCrash`: a goroutine's `close(k.stopped)` ends
the process only if it is a forwarder's and rounds of it have overlapped
(kubectl.go:151: both goroutines close the channel of the later round). That
does happen; what is shown is that nothing else does it, and that the check at
kubectl.go:196 spares a logger in every order of calls. A Cleanup panics only
after an overlap, or where a refused logger was cleaned up before: that Cleanup
closes the first round's channel and resets the fields, and the first round's
own closes nil (`Intruded`). `QuietAfterCleanup` is about loggers, and forwarders
whose rounds do not overlap: a watcher's Cleanup waits for nothing
(kubectl.go:130). `KeepsTrying` accepts an ended context as a reason to give up.
`RefusedOnlyInUse` has no exception. `EndsWhenCleanedUp` leaves out overlaps: the
`cancel` of the round that was written over is lost, and its kubectl, a watcher's
too, goes on until the context it was derived from ends.

*shared_cluster.* Under a lock, `Create` never takes a cluster for ready that
another suite, alive or dead, is creating (`StandsOnReady`), and does not ask
kind for a name that is taken after a check that answered (`NeverRefused`). The
exception of `StandsOnReady` is what the code does: where `kind create` was
killed with its context, `Create` returns an error, the lock is released
(util.go:109), half a cluster is listed, and the next suite takes it for ready
(kind.go:171-209). Only the suite that was creating has been told, by its error.
Without a lock neither is promised; the run includes suites without one so that
`EveryoneReturns` covers them. `EveryoneReturns` has its exception spelt out: a
suite that dies under `WithLock`, or cannot remove the directory, leaves the
others polling, as util.go:61-72 has no limit. A function that calls the unlock
of `Once` lets a later suite run it again: then exclusion is all that holds, and
`OnceOnly` is about the others.

*image_loading.* `Loaded`: a load that returned nil has put its image into its
cluster, even where another load rewrites or deletes the archive they share.
`NoCopiesLeft`: a load that has ended well under `NoCacheImages` has left a copy
neither in the archive nor in the store, under all the names that the pull or
build has given the image but one. The one is `Retag`: the copy that `docker tag`
makes (docker.go:40) is removed by nobody, against suite.go:29-31, which says that
an image is kept "only once after loading is complete", and cluster.go:113.
`SourceThere`: what the next command of a load needs is there, unless another
load of the same image has taken it. suite.go:32 excludes `NoCacheImages` for
images of several clusters; the run has such plans, and also an image that one
cluster mentions twice, which suite.go:32 does not exclude and which fares no
better: the first load to get to kind.go:263 removes the image, and the other
fails if it has not saved it by then, or when it comes to remove it itself.

*manifests_apply.* With one source, `Created` is filled in order and nothing
panics (`OneSourceInOrder`); with several, no object is listed twice and none
that was not applied (`SlotsAreTrue`). Nothing is waited for before everything
is applied or a panic has been reported. `ApplyEnds`: no kubectl is stuck on its
output.

*helm_releases.* `MeantIsHeld`: whatever the test copies and then changes, in
any order, a change of one variable never shows in another. It is stated for
what the copies have for themselves: nested objects are shared (a `map` below
the top falls through the cases of `rvalueCopy`), so are values that
`MergedFrom` has taken over, and behind a copied pointer there may be the zero
value (reflection.go:241, the run *deep_copies*). What types.go:45 and
types.go:73 say of pointers and nested objects is thus not so. `ValuesAsMeant`:
what helm was given for a release that came up is of this run, for all that an
earlier one has left in the same directory, and is what was meant along the same
paths, with the same three exceptions (nested objects, merged values, zero behind
a copied pointer). It rests on each run writing all files that it names, and on
a panic of mktemp, which lets the `And` go on with files of an earlier run, being
reported. `ChartFromItsRepo`: a chart comes from a URL that a release of this
suite names for the repository, never from one that helm has had under that name
from elsewhere, and all releases that name the repository have the same. Releases
that agree thus have their own. Two URLs for one name are in the plans of the
run: gingk8s.go:88 looks up the chart's name in a map that is written under the
repository's, does not see them, although gingk8s.go:94 is to refuse them, and the
order of the loop decides which of the releases has the chart of the other's.
`NothingLeftBehind`: what a run has installed is gone after its cleanup, or was
to be kept, or a failure of that release is on record; in particular the same
name in two namespaces is two releases.

### Findings

1. *swallowed_panic.* `DoDAGTask` (spec.go:40) turns a panic into a success, so
   steps that depend on a release or action whose `Expect` failed are started.
   The suite is marked failed all the same (`NoSilentLoss`).
2. *bundled_actions.* `ResourceDependencies.AddResourceDependency` (deps.go:32)
   copies `CustomImages` twice and `ClusterActions` never.
3. *nested_specs.* `Setup` (gingk8s.go:112) adds no-op nodes for the direct
   parent only; a spec of a spec that depends on the suite's ids fails.
4. *deep_copies.* `rvalueCopy` (reflection.go:241) copies the zero value that
   the new pointer points to instead of what the old one did, so that `DeepCopy`,
   `With` and `MergedFrom` lose it, against types.go:45.
5. *created_slots.* `createdIx` is incremented at the end of each output as well
   (kubectl.go:396) and shared without a lock, so that with two sources an
   object is missing from `Created`, or the process ends with an index out of
   range.

Met while modelling, stated in a property as an exception or left out, and in no
run of their own:

- A `ThirdPartyImage` with a `Retag` is loaded under its `Name` (images.go:159),
  against images.go:197, and the tagged copy stays in the store (`NoCopiesLeft`).
- An image that a cluster mentions twice loses one of its loads under
  `NoCacheImages` (`SourceThere`). A custom image's extra tag has the time in it
  (images.go:24), so each process leaves another without `NoCacheImages`.
- A forwarder that is set up again before its Cleanup ends the process
  (`NoCrash`), and what an overlap has written over is stopped by nobody
  (`EndsWhenCleanedUp`).
- What a killed `kind create` has left is taken for ready (`StandsOnReady`).
- Two URLs under one repository name pass the check of gingk8s.go:88-94
  (`ChartFromItsRepo`).
- `HelmCommand.Delete` does not look at `skipNotExists` (helm.go:198): deleting a
  release that is not there fails.

### Bounds, and why they are enough

- `lifecycle`: four nodes, nine plans, five option sets. The properties relate
  a node to one that it needs through others; four nodes have chains of three
  dependencies, a diamond, two concurrent siblings above one cluster, and each
  of the image pipelines. The proofs need no bound.
- `registration`: five ids, which is an image, a cluster, its load, and two
  resources, or two images with their cluster and loads; a suite and two specs,
  made by `ForSpec` or in another process; six ids and specs together
  (`MaxCalls`). The two violations need three specs or four ids.
- `background_actions`: three rounds, the first number at which a stale goroutine
  could meet a third round's channel, or the Cleanup of a refused logger come
  between two others. The three kinds are all initial states. The proofs need no
  bound.
- `shared_cluster`: three suites: one that has the lock, one that waits, one that
  arrives after a crash. The proofs need no bound.
- `image_loading`: eight plans of one or two images and two clusters, with up to
  three loads, two runs. Two loads of an image, onto two clusters or twice onto
  one, are enough for one to take what the other needs.
  What one run leaves on disk is a subset of what the second may find.
- `manifests_apply`: one source with two objects and zero to three slots, two
  sources with up to three objects. Two readers are enough for every race on
  `createdIx`, each of them reads and writes it more than once.
- `helm_releases`: each of eight shapes of a value (a scalar, nil, a function,
  arrays, objects and pointers, two of them nested) with three variables, which
  is a source, a copy, and a copy of the copy or a merge; one change in place,
  before or after any of the copies, is enough to tell what is shared. Two
  releases and two runs; two repositories by one name. The proofs need no bound,
  but for the depth of a literal (`Path` in `Values`).

`CHECK_DEADLOCK FALSE`: `Registration` stops when its ids are used up; the
others stop where the code does, when all calls have returned. `SpecLifecycle`
checks deadlock, with `Terminated` as the way to stop.

### Fairness

- `Spec` (SpecLifecycle): Setups, specs and Cleanups return and the driver goes
  on; the executor starts what is ready while no task has failed. The user need
  not press `^C`, helpers need not panic, and tasks that godag may or may not
  start after a failure need not be started.
- `Background`: a kubectl whose context is done ends (`exec.CommandContext`
  kills it), goroutines go on, a Cleanup that has begun goes on, all of it as long
  as the process lasts (`~crashed`). A kubectl need not end by itself, a Cleanup
  need not be called.
- `Sharing`: each suite takes its next step, crashes apart. Weak fairness of the
  whole of a suite's steps is enough, as a poll that finds the directory is
  tried again.
- `Manifests`: kubectls end once their output has been read.
- `Registration`, `ImageLoading` and `HelmReleases` state no liveness and assume
  no fairness.

## 4. Proofs

Everything below holds for all values of the constants: every set of nodes,
graph, option set, set of suites, number of rounds, and set of manifests.

*SpecLifecycleProofs.* From `PlansAssumption`, `OptSetsAssumption` and
`FreeAssumption`, `IInv` is shown inductive: type correctness; the lock's holder
and what it has read (`LockInv`), without which the list could lose an entry;
each node's place related to its needs (`StartInv`), to the scope of the
teardown (`ScopeInv`) and to the nodes above it (`UndoInv`); the phase
(`PhaseInv`) and what an ending implies (`OutcomeInv`). The code compares direct
dependencies only. What is transitive follows from `UpstreamLeast` (`DagProofs`):
reachability is the least closed set, so a property of nodes that passes to
dependencies holds of all that is reached. From `IInv`: `TypeOK`,
`NeedsReturnFirst`, `NoLostCleanup`, `TeardownOrder`, `OnlyProvisionedUndone`,
`NoLeak`, and the action property `TeardownIsFinal`; `NoSilentLoss` with one
more part, `ReportInv`.

The same module holds the refinement, `Safety => P!Spec`: initial states map to
initial states, and every step to a step of `Provisioning` or a stutter, by cases
on the actions with `IInv`. In `Provisioning`, whatever its graph, what is up or
being deleted stands on what has not begun to be deleted
(`StandsOnWhatItNeedsAlways`); so it is with the lifecycle (`LifecycleStands`).

*SharedClusterProofs.* A suite is busy from the lock until it lets go, and for
ever if it dies with the cluster half-made. `ExclusionInv` (one busy suite, and
the directory is there), `OnceInv` (with a function that keeps the lock, nobody
removes it), `ClusterInv` (cluster and config are as the busy suite has left
them) and `HalfInv` (where there is half a cluster, the suite whose creation was
killed still keeps the others out, or has unlocked and knows of the failure) are
inductive together, and give `OneInside`, `OnceOnly`, `StandsOnReady` and
`NeverRefused`, with crashes at any point.

*BackgroundActionsProofs.* A goroutine reads the fields whenever it needs them,
so everything rests on what they hold then. For a logger whatever is called, and
for a forwarder until rounds overlap (`Orderly`): `RunnerInv` (a goroutine that
has not gone finds its own channels in the fields, and a channel is closed
exactly when its goroutine has gone) and `StopInv` (one Cleanup at most is past
the close of `stop`, and until then the round that made it is up). While no round
has been overlapped or cleaned up by another (`Single`), `SingleInv`: each active
round has the fields to itself. `WatcherInv` and `ForwarderInv` say what a
watcher never does and that only a logger refuses. They give `NoCrash`,
`QuietAfterCleanup`, `KeepsTrying` and the action property `RefusedOnlyInUse`.
The assumption is `RoundsAssumption`.

*ManifestsApplyProofs.* From `PlansAssumption`: `LiveInv` (what was printed is in
the cluster, and all of it when kubectl ended well or a panic was reported),
`SlotInv` (what is in a slot has been read, once) and `DeleteInv` are inductive
with the types, for any number of readers, although nothing can be said about
the value of `createdIx`. With one source it can: `OneReaderInv` ties it to what
has been read at each step of the loop, and gives `OneSourceInOrder`.

*ImageLoadingProofs.* For any images, clusters, mentions and number of runs
(`MaxRuns` > 0), wherever a run ends or dies. Tags belong to one image, whose
tasks alone add and remove them. `LoadInv` says what a load that has got to some
command has found and left; `ArchiveInv` that an archive has all tags of its image
or none, and the latter under a load that has saved only if another has spoilt
it; `GoneInv` that what a load under `NoCacheImages` has removed comes back
neither to the store nor, through another load's save, to the archive;
`StoreInv` that what has been pulled or built is in the store until such a load
has come to remove it. They give `Loaded`, `NoCopiesLeft` and `SourceThere`, for
any number of loads of an image.

*RegistrationProofs.* For any set of specs and any number of calls. That each
node of a `setup` list has an id of its own, and each id one spec that drew it
(`IDInv`, `ShapeInv`), holds for specs nested to any depth, and gives `OneOwner`.
So does that the graph given to godag has no cycle: an edge leads from the later
to the earlier id. `Buildable` and `DeclaredWaits` have the hypothesis
`MaxDepth <= 1`, which is no accident: *nested_specs* refutes `Buildable` beyond
it. They rest on `PresenceInv` (whatever a node depends on is drawn by the spec
itself, or by the parent whose ids become no-op nodes) and `DeclaredInv` (what
the caller named has left its load, under the cluster and the image, among the
dependencies).

*HelmReleasesProofs.* The values come first, from `ValuesAssumption`, for any set
of variables and any number of changes. `MeantIsHeld` alone says nothing of what
the next assignment through another variable does, so `HeapInv` has three parts.
`Sound`: references lead to cells, in chains of at most two, and behind a pointer
is one leaf. `Owned`: variables have objects of their own to which nothing
refers, and a cell that is not an object has one reference, unless it was lent,
when it may have one from each of several variables' objects. `Meant`: along each
path that a variable has for itself, it reads what was meant. From `Owned`, such
a path is the only one that ends where it ends (`EndsOnce`): therefore a change
shows there and nowhere else. That a copy reads like the original except behind
pointers, and that it gets cells of its own, are `CopyKeeps` and `CopyOwned`.
`HeapInv` needs nothing of the suite and gives `MeantIsHeld` and the types.

The suite's invariants lean on one another in this order: `PhasesInv` (what a
task may be doing in which phase), `ReposInv` (before a task starts, helm has for
each name the URL that the loop has put in its map, which is that of some
release of that name), `FilesInv` (a task past mktemp has
all its files as wanted, or something was reported), `InstalledInv` (what the
cluster has under the name of a release, and whose it is). They give
`ChartFromItsRepo`, `ValuesAsMeant` and `NothingLeftBehind` from `HelmAssumption`
under the hypothesis `DistinctNames`: no two releases have both name and
namespace in common. The code does not check that. Such releases are one for
helm, and share the directory of their values files: the second to be installed
replaces the first. The plans of the run fulfil it, the same name in two
namespaces included.

`NeedsReturnFirst` (a task starts after all it needs, directly or not, has
returned) and `TeardownIsFinal` (nothing is set up once teardown has begun) are
proved and in no run.

Only model-checked: liveness (`EveryDoneNodeUndone`, `Terminates`,
`EndsWhenCleanedUp`, `EveryoneReturns`, `ApplyEnds`), which is out of this
prover's reach. Every invariant and every action property of the passing runs is
a theorem.

## 5. Not modelled

- The wording of command lines: helm's flags and versions, the formatting of
  `--set`, `--since` of a restarted logger (kubectl.go:212). `RegistryLogin` and
  pushing to a registry run one command each and keep no state.
- Charts from an OCI registry are treated as charts from the disk: nothing is
  added for either.
- `LoadImages` with images of several repositories (kind.go:253), which stops
  making paths at the first that differs: a load node hands it the tags of one
  image.
- Two Setups of one background action at the same moment (kubectl.go:196), and
  Cleanups that overlap a later Setup: Setup is one step, and within a run the
  cleanups come after all Setups.
- The array case of `rvalueCopy` for a Go array of fixed size, on which
  `reflect.MakeSlice` panics (reflection.go:72): arrays in `Values` are slices.
- Images registered twice under one name, and clusters that share a `TempDir`:
  in `ImageLoading` images have their own tags and clusters their own archives.
- In `HelmReleases` no task starts after one has failed (`NoneFailed`), while
  godag may go on with what does not depend on it; `SpecLifecycle` has both.
- `KindCluster.Delete` while other suites use the cluster: nothing in the code
  coordinates the two, a test decides who deletes.
- What a half-written archive of a failed `crane.Save` (images.go:288) does to
  the next run: `ImageLoading` has it, and loading it can only fail; the code
  promises nothing about it that could be checked.
- `namespace.go`, `envtest.go`, the dummy cluster, `WithRandomPorts` and the
  other kubectl helpers: single calls without a state of their own; as tasks
  they are in the lifecycle.

## 6. Plan

Done, in the order of importance: lifecycle and its abstraction, registration
with serialized specs, background actions, suite lock and shared cluster,
images, manifests, values and helm; with proofs of the safety of each.

Next:

1. The suite and one of its specs as two instances of the lifecycle over one set
   of resources: `OneOwner` carried over to what is torn down.
2. An abstract specification of `ManifestsApply` (objects are applied, then
   deleted) and of `SuiteLock` (a mutex that a crash takes with it), with the
   refinements proved.
3. Proofs of what the refinement rests on in `HelmReleases`: values as a
   snapshot, that is the heap of cells against a function from paths to leaves.
