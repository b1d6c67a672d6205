---------------------------- MODULE HelmReleases ----------------------------
(***************************************************************************)
(* The helm releases of a suite (helm.go, helmcmd.go): Setup adds their    *)
(* repositories, the tasks that install them run concurrently, and the     *)
(* cleanup deletes those whose task has returned.  Their values are        *)
(* objects of Values, resolved and written to files by a helper goroutine  *)
(* whose panic is reported while it answers no error.  Repositories, files *)
(* and releases outlive a run of the suite.                                *)
(***************************************************************************)
EXTENDS Values

CONSTANTS Release,
          Plans      \* what may have been registered, and what there is

\* What a plan tells of a release.  repo: name and URL, local: a chart from
\* the disk or an OCI registry, update: DependencyUpdate, set: there is a
\* function in Set, values: variables of the test.
Deployment ==
  [name : STRING, namespace : STRING, chart : STRING, local : BOOLEAN,
   repo : [name : STRING, url : STRING], update : BOOLEAN, set : BOOLEAN,
   values : Seq(Handle), wait : BOOLEAN]

\* deploy: the releases registered.  keep: those with SkipDelete or a NoCleanup
\* option.  noDeps: the option.  foreign: repositories that helm knows from
\* elsewhere.  left: releases in the cluster from earlier.  shape: what Base
\* starts with.  code: the test derives values from Base.  faulty: functions
\* and commands may fail.  runs: how often the suite is run.
ASSUME HelmAssumption ==
  \A p \in Plans :
    /\ DOMAIN p.deploy \subseteq Release
    /\ \A r \in DOMAIN p.deploy : p.deploy[r] \in Deployment
    /\ p.keep \cup p.left \subseteq DOMAIN p.deploy
    /\ {p.noDeps, p.code, p.faulty} \subseteq BOOLEAN
    /\ p.shape \in Shapes
    /\ p.runs \in Scalar \ {0}

VARIABLES
  plan,      \* fixed
  run,       \* the how-manieth run of the suite this is
  phase,     \* where the suite is
  unseen,    \* releases that the loop over g.releases has yet to look at
  repos,     \* the map repos of Setup: URLs by name
  adding,    \* adding[n]: how helm repo add of n is doing
  repoFile,  \* what helm repo add has stored: URLs by name
  pc,        \* pc[r]: where the task of r is
  file,      \* file[d]: the values files in directory d, by number
  installed, \* installed[n]: what the cluster has under name n, if anything
  undo,      \* undo[r]: what has become of r's Cleanup
  reported   \* what ginkgo has been told of: releases, or Release for Setup

suite == <<plan, run>>
setup == <<unseen, repos, adding>>
disk  == <<repoFile, file, installed>>
tasks == <<pc, undo, reported>>
vars  == <<valueVars, suite, phase, setup, disk, tasks>>

D(r) == plan.deploy[r]
Deployed == DOMAIN plan.deploy

\* Fault: the directory of the values files has no part for the namespace.
DirByName(r) == <<"", D(r).name>>

\* Where the values files of r are, _DEFAULT_ standing for no namespace.
DirOf(r) == <<D(r).namespace, D(r).name>>

\* What helm knows r by.
NameOf(r) == <<D(r).namespace, D(r).name>>

TypeOK ==
  /\ ValuesTypeOK
  /\ plan \in Plans /\ run \in 1..plan.runs
  /\ phase \in {"code", "repos", "add", "tasks", "cleanup", "over", "refused"}
  /\ unseen \subseteq Deployed
  /\ DOMAIN adding \subseteq DOMAIN repos
  /\ \A n \in DOMAIN adding : adding[n] \in {"running", "added", "failed"}
  /\ pc \in [Deployed -> {"waiting", "values", "update", "upgrade", "wait",
                          "done", "failed", "panicked"}]
  /\ undo \in [Deployed -> {"no", "deleted", "failed", "kept"}]
  /\ reported \subseteq Deployed \cup {Release}

-----------------------------------------------------------------------------

Init ==
  /\ plan \in Plans
  /\ run = 1 /\ phase = "code"
  /\ heap = StartHeap(plan.shape, run) /\ obj = StartObj
  /\ edits = 0 /\ lent = {} /\ meant = StartMeant(plan.shape, run)
  /\ unseen = Deployed /\ repos = <<>> /\ adding = <<>>
  /\ repoFile = plan.foreign
  /\ file = [d \in {DirOf(r) : r \in Deployed} |-> <<>>]
  /\ installed = [n \in {NameOf(r) : r \in plan.left} |->
                    [run |-> 0, url |-> "", values |-> <<>>]]
  /\ pc = [r \in Deployed |-> "waiting"] /\ undo = [r \in Deployed |-> "no"]
  /\ reported = {}

\* The test builds its values before it calls Setup.
Code ==
  /\ phase = "code" /\ plan.code
  /\ TestCode
  /\ UNCHANGED <<suite, phase, setup, disk, tasks>>

CallSetup ==
  /\ phase = "code"
  /\ \A r \in Deployed : \A n \in DOMAIN D(r).values : obj[D(r).values[n]] # 0
  /\ phase' = "repos"
  /\ UNCHANGED <<valueVars, suite, setup, disk, tasks>>

(* The repositories (gingk8s.go:83-102) *)

\* One turn of the loop, in any order.  The map is read under the name of the
\* chart and written under that of the repository.  A mismatch panics, before
\* any cleanup is deferred.
SeeRelease(r) ==
  LET known == D(r).chart \in DOMAIN repos IN
  /\ phase = "repos" /\ r \in unseen
  /\ unseen' = unseen \ {r}
  /\ IF known /\ ~D(r).local /\ [name |-> D(r).chart, url |-> repos[D(r).chart]] # D(r).repo
     THEN phase' = "refused" /\ reported' = {Release}
     ELSE UNCHANGED <<phase, reported>>
  /\ repos' = IF known \/ D(r).local THEN repos
              ELSE Joined([n \in {D(r).repo.name} |-> D(r).repo.url], repos)
  /\ UNCHANGED <<valueVars, suite, adding, disk, pc, undo>>

StartAdds ==
  /\ phase = "repos" /\ unseen = {}
  /\ phase' = "add"
  /\ adding' = [n \in DOMAIN repos |-> "running"]
  /\ UNCHANGED <<valueVars, suite, unseen, repos, disk, tasks>>

\* helm repo add, and update.  helm refuses a name that it has for another URL.
AddRepo(n) ==
  LET clash == n \in DOMAIN repoFile /\ repoFile[n] # repos[n] IN
  /\ phase = "add" /\ adding[n] = "running"
  /\ \/ /\ ~clash
        /\ adding' = [adding EXCEPT ![n] = "added"]
        /\ repoFile' = Joined([m \in {n} |-> repos[n]], repoFile)
     \/ /\ clash \/ plan.faulty
        /\ adding' = [adding EXCEPT ![n] = "failed"]
        /\ UNCHANGED repoFile
  /\ UNCHANGED <<valueVars, suite, phase, unseen, repos, file, installed, tasks>>

AddsDone == phase = "add" /\ "running" \notin Range(adding)

\* Fault: nobody looks at the outcome of the FanOut.
AddsReturn ==
  /\ AddsDone
  /\ phase' = "tasks"
  /\ UNCHANGED <<valueVars, suite, setup, disk, tasks>>

\* Expect(gosh.FanOut(repoAdds...)).To(Succeed())
AddsEnd ==
  /\ AddsDone
  /\ IF "failed" \in Range(adding)
     THEN phase' = "refused" /\ reported' = {Release}
     ELSE phase' = "tasks" /\ UNCHANGED reported
  /\ UNCHANGED <<valueVars, suite, setup, disk, pc, undo>>

-----------------------------------------------------------------------------
(* InstallOrUpgrade: And(mktemp, dependency update, upgrade, waits)        *)

\* Where r goes after a command, or, with "start", first.
After(r, command) ==
  IF command = "start" /\ D(r).values # <<>> THEN "values"
  ELSE IF command \in {"start", "values"} /\ D(r).update THEN "update"
  ELSE IF command \in {"start", "values", "update"} THEN "upgrade"
  ELSE IF command = "upgrade" /\ D(r).wait THEN "wait"
  ELSE "done"

Goto(r, place) == pc' = [pc EXCEPT ![r] = place] /\ UNCHANGED reported
Report(r, place) == pc' = [pc EXCEPT ![r] = place] /\ reported' = reported \cup {r}
InTask == UNCHANGED <<valueVars, suite, phase, setup, undo>>

NoneFailed == \A r \in Deployed : pc[r] # "failed"

\* With NoDeps nothing is installed.  Otherwise the arguments are put together
\* first, and the Expect on a function of Set may panic: the task ends, and
\* passes for a success (spec.go:40).
StartTask(r) ==
  /\ phase = "tasks" /\ pc[r] = "waiting" /\ NoneFailed
  /\ \/ Goto(r, IF plan.noDeps THEN "done" ELSE After(r, "start"))
     \/ D(r).set /\ plan.faulty /\ ~plan.noDeps /\ Report(r, "panicked")
  /\ UNCHANGED disk /\ InTask

\* How resolveNestedObject may end: a nil value panics where its type is asked
\* for, a function does what it likes.
Outcomes(h) ==
  LET kinds == {v.kind : v \in Range(Reads(heap, obj[h]))} IN
  (IF "nil" \in kinds THEN {} ELSE {"ok"})
    \cup (IF "nil" \in kinds \/ ("func" \in kinds /\ plan.faulty) THEN {"panic"} ELSE {})
    \cup (IF "func" \in kinds /\ plan.faulty THEN {"error"} ELSE {})

\* Fault: err is shadowed, and done gets none.
NeverFails(r, outcome) ==
  IF outcome = "panic" THEN Report(r, After(r, "values")) ELSE Goto(r, After(r, "values"))

\* What done gets: an error, or nil after a panic too, which is reported.
MktempAnswers(r, outcome) ==
  CASE outcome = "ok"    -> Goto(r, After(r, "values"))
    [] outcome = "error" -> Report(r, "failed")
    [] outcome = "panic" -> Report(r, After(r, "values"))

\* The goroutine of mktemp: the first k files are written, the next is not.
WriteValues(r) ==
  LET vs == D(r).values IN
  /\ pc[r] = "values"
  /\ \E k \in 0..Len(vs) :
       /\ \A n \in 1..k : "ok" \in Outcomes(vs[n])
       /\ file' = [file EXCEPT ![DirOf(r)] =
            Joined([n \in 1..k |-> Reads(heap, obj[vs[n]])], @)]
       /\ IF k = Len(vs) THEN MktempAnswers(r, "ok")
          ELSE \E outcome \in (Outcomes(vs[k + 1]) \ {"ok"})
                                \cup (IF plan.faulty THEN {"error"} ELSE {}) :
                 MktempAnswers(r, outcome)
  /\ UNCHANGED <<repoFile, installed>> /\ InTask

\* helm upgrade --install, with what its files and repository are now.
Upgraded(r) ==
  [run |-> run,
   url |-> IF D(r).local THEN "" ELSE repoFile[D(r).repo.name],
   values |-> [n \in DOMAIN D(r).values |-> file[DirOf(r)][n]]]

\* helm upgrade finds its values files and its chart.
FindsAll(r) ==
  /\ DOMAIN D(r).values \subseteq DOMAIN file[DirOf(r)]
  /\ D(r).local \/ D(r).repo.name \in DOMAIN repoFile

Upgrade(r) == installed' = Joined([n \in {NameOf(r)} |-> Upgraded(r)], installed)

\* The next command of the And succeeds.
CommandSucceeds(r) ==
  /\ pc[r] \in {"update", "upgrade", "wait"}
  /\ IF pc[r] = "upgrade" THEN FindsAll(r) /\ Upgrade(r) ELSE UNCHANGED installed
  /\ Goto(r, After(r, pc[r]))
  /\ UNCHANGED <<repoFile, file>> /\ InTask

\* It fails, and helm upgrade may leave a release that is marked as failed.
CommandFails(r) ==
  /\ pc[r] \in {"update", "upgrade", "wait"}
  /\ plan.faulty \/ (pc[r] = "upgrade" /\ ~FindsAll(r))
  /\ \/ UNCHANGED installed
     \/ pc[r] = "upgrade" /\ FindsAll(r) /\ Upgrade(r)
  /\ Report(r, "failed")
  /\ UNCHANGED <<repoFile, file>> /\ InTask

\* The executor returns, with an error if a task has failed.
TasksEnd ==
  /\ phase = "tasks"
  /\ \A r \in Deployed : pc[r] \in {"done", "failed", "panicked"}
                           \/ (pc[r] = "waiting" /\ ~NoneFailed)
  /\ phase' = "cleanup"
  /\ UNCHANGED <<valueVars, suite, setup, disk, tasks>>

-----------------------------------------------------------------------------
(* releaseAction.Cleanup *)

\* Fault: helm delete without --namespace.
TargetByName(r) == <<"", D(r).name>>

\* What helm delete is told to delete.
Target(r) == NameOf(r)

\* helm delete fails if there is no such release: skipNotExists is not used.
Delete(r) ==
  \/ /\ Target(r) \in DOMAIN installed
     /\ installed' = Restrict(installed, DOMAIN installed \ {Target(r)})
     /\ undo' = [undo EXCEPT ![r] = "deleted"]
     /\ UNCHANGED reported
  \/ /\ Target(r) \notin DOMAIN installed \/ plan.faulty
     /\ undo' = [undo EXCEPT ![r] = "failed"]
     /\ reported' = reported \cup {r}
     /\ UNCHANGED installed

\* Tasks that have returned are on the cleanup list; one that has panicked is
\* reached from there if something on the list depends on it.
Cleanup(r) ==
  /\ phase = "cleanup" /\ undo[r] = "no"
  /\ pc[r] \in {"done", "panicked"}
  /\ IF r \in plan.keep
     THEN undo' = [undo EXCEPT ![r] = "kept"] /\ UNCHANGED <<reported, installed>>
     ELSE Delete(r)
  /\ UNCHANGED <<valueVars, suite, phase, setup, repoFile, file, pc>>

CleanupEnds ==
  /\ phase = "cleanup"
  /\ \A r \in Deployed : pc[r] = "done" => undo[r] # "no"
  /\ phase' = "over"
  /\ UNCHANGED <<valueVars, suite, setup, disk, tasks>>

\* The suite is run again, after it has ended or died on the way, with other
\* values in its code.
Rerun ==
  /\ run < plan.runs /\ phase # "code"
  /\ run' = run + 1 /\ phase' = "code"
  /\ heap' = StartHeap(plan.shape, run') /\ obj' = StartObj
  /\ edits' = 0 /\ lent' = {} /\ meant' = StartMeant(plan.shape, run')
  /\ unseen' = Deployed /\ repos' = <<>> /\ adding' = <<>>
  /\ pc' = [r \in Deployed |-> "waiting"] /\ undo' = [r \in Deployed |-> "no"]
  /\ reported' = {}
  /\ UNCHANGED <<plan, disk>>

Next ==
  \/ Code \/ CallSetup \/ StartAdds \/ AddsEnd \/ TasksEnd \/ CleanupEnds \/ Rerun
  \/ \E n \in DOMAIN adding : AddRepo(n)
  \/ \E r \in Deployed :
       \/ SeeRelease(r) \/ StartTask(r) \/ WriteValues(r)
       \/ CommandSucceeds(r) \/ CommandFails(r) \/ Cleanup(r)

Helm == Init /\ [][Next]_vars

-----------------------------------------------------------------------------
(* Properties *)

\* This run has brought r up, and nothing about it has been reported.
UpAndFine(r) ==
  phase = "tasks" /\ pc[r] \in {"wait", "done"} /\ ~plan.noDeps /\ reported = {}

(* What helm was given for a release is of this run, and what the test     *)
(* meant at the time of Setup, whatever an earlier run has left in the     *)
(* directory, unless a failure is on record: along every path that the     *)
(* values have for themselves.  Not so in objects below the top, which     *)
(* copies share with what they were copied from, nor in what MergedFrom has*)
(* put into two objects; and behind a pointer that was copied helm may be  *)
(* given the zero value: see PointersKeepTheirValue.                       *)
ValuesAsMeant ==
  \A r \in Deployed : UpAndFine(r) =>
    LET got == installed[NameOf(r)] IN
    /\ NameOf(r) \in DOMAIN installed /\ got.run = run
    /\ \A n \in DOMAIN D(r).values : HoldsWhatWasMeant(D(r).values[n], got.values[n])

\* The URLs that the releases of this suite have for the repository n.
UrlsOf(n) ==
  {D(s).repo.url : s \in {t \in Deployed : ~D(t).local /\ D(t).repo.name = n}}

(* Whatever helm knew the name of a repository for, a chart comes from a   *)
(* URL that a release of this suite has for that name, and is the same for *)
(* all releases that have the name; so it comes from the URL of its own    *)
(* release, if they agree.  If they do not, gingk8s.go:88-94 is to refuse  *)
(* them and need not: then one of them has the chart of the other's URL.   *)
ChartFromItsRepo ==
  \A r, s \in Deployed :
    /\ UpAndFine(r) /\ ~D(r).local
    /\ UpAndFine(s) /\ ~D(s).local
    /\ D(r).repo.name = D(s).repo.name
    => /\ installed[NameOf(r)].url \in UrlsOf(D(r).repo.name)
       /\ installed[NameOf(r)].url = installed[NameOf(s)].url

(* When the cleanup has ended, what this run has installed is gone, unless *)
(* it was to be kept or a failure of that very release is on record.       *)
NothingLeftBehind ==
  phase = "over" =>
    \A r \in Deployed :
      NameOf(r) \in DOMAIN installed /\ installed[NameOf(r)].run = run =>
        r \in plan.keep \cup reported
=============================================================================
