---------------------------- MODULE ImageLoading ----------------------------
(***************************************************************************)
(* How images get from where they are made to the clusters: the Setups of  *)
(* the image actions (images.go) and the commands they run, docker's       *)
(* (docker.go) and KindCluster's (kind.go).  Tasks run concurrently, each  *)
(* command of a task is a step, and what a task leaves behind, in the local*)
(* image store, in archives on disk and in the clusters, is there for the  *)
(* next run of the suite.                                                  *)
(*                                                                         *)
(* A tag is an image and one of its names.  A load puts all tags of one    *)
(* image into one archive in the TempDir of the cluster: the images given  *)
(* to LoadImages by a load action never differ before the colon.  An image *)
(* that a cluster is given twice has two loads, and they share the archive.*)
(***************************************************************************)
EXTENDS Naturals

CONSTANTS Image, Cluster,
          Mention,  \* tell apart the mentions of an image among a cluster's dependencies
          Plans,    \* what may have been registered
          OptSets,  \* the option sets to consider
          MaxRuns   \* bound: how often the suite is run

Name == {"name", "retag",    \* of a third-party image
         "tag", "extra"}     \* of a custom image
Tag  == Image \X Name

Flag == {"NoPull", "NoBuild", "NoLoadPulled", "NoLoadBuilt", "NoCacheImages"}

\* retag: Retag is set.  local: NoPull is set on the image itself.
\* loads: which clusters mention which images, and how often: a load is drawn
\* for each mention.
Plan == [class : [Image -> {"thirdParty", "custom", "archive"}],
         retag : SUBSET Image, local : SUBSET Image,
         loads : SUBSET (Cluster \X Image \X Mention)]

ASSUME ImageLoadingAssumption ==
  /\ Plans \subseteq Plan
  /\ OptSets \subseteq SUBSET Flag
  /\ MaxRuns \in Nat \ {0}

VARIABLES
  plan, opts,  \* fixed
  run,         \* the how-manieth run of the suite this is
  prep,        \* prep[i]: where the pull or build of i is
  load,        \* load[l]: where the load l = <<cluster, image, mention>> is
  store,       \* tags in the local image store
  tarball,     \* tarball[<<c, i>>]: tags in i's archive in the TempDir of c, none in half a one
  file,        \* file[i]: ImageArchive.Path
  inCluster    \* inCluster[c]: tags that have been loaded

config == <<plan, opts>>
disk == <<store, tarball, file>>
vars == <<config, run, prep, load, disk, inCluster>>

PrepState == {"waiting", "pull", "tag", "build", "fetch", "done", "failed"}
LoadState == {"waiting", "save", "remove", "load", "rm", "done", "failed"}

TypeOK ==
  /\ plan \in Plans /\ opts \in OptSets
  /\ run \in 1..MaxRuns
  /\ prep \in [Image -> PrepState]
  /\ load \in [plan.loads -> LoadState]
  /\ store \subseteq Tag
  /\ tarball \in [Cluster \X Image -> SUBSET Tag]
  /\ file \in [Image -> {"absent", "partial", "whole"}]
  /\ inCluster \in [Cluster -> SUBSET Tag]

-----------------------------------------------------------------------------
(* What the options and the plan decide *)

Class(i) == plan.class[i]

\* The names that Pull or Build gives the image.
NamesOf(i) ==
  CASE Class(i) = "thirdParty" -> {"name"} \cup (IF i \in plan.retag THEN {"retag"} ELSE {})
    [] Class(i) = "custom"     -> {"tag", "extra"}
    [] Class(i) = "archive"    -> {"name"}
TagsOf(i) == {i} \X NamesOf(i)

\* archivePaths[0]: every load of i onto c has the same.
Archive(l) == <<l[1], l[2]>>

\* Fault: the extra tags of a custom image forgotten.
FirstTag(i) == {<<i, IF Class(i) = "custom" THEN "tag" ELSE "name">>}

\* The tags that a load action hands to LoadImages: of a third-party image
\* its Name, of a custom one all tags.
LoadTags(i) == {i} \X (IF Class(i) = "custom" THEN {"tag", "extra"} ELSE {"name"})

SkipsPrep(i) ==
  CASE Class(i) = "thirdParty" -> "NoPull" \in opts
    [] Class(i) = "custom"     -> "NoBuild" \in opts
    [] Class(i) = "archive"    -> "NoPull" \in opts \/ i \in plan.local

SkipsLoad(i) == (IF Class(i) = "custom" THEN "NoLoadBuilt" ELSE "NoLoadPulled") \in opts

\* Fault: an image that nobody can pull again is removed too.
EveryImage(i) == "NoCacheImages" \in opts /\ Class(i) # "archive"

\* The noCache that Cluster() passes to the load action; an archive of the
\* user's is never removed.
NoCache(i) ==
  /\ "NoCacheImages" \in opts
  /\ Class(i) = "custom" \/ (Class(i) = "thirdParty" /\ i \notin plan.local)

-----------------------------------------------------------------------------

\* An image with NoPull was made by somebody else, before.
Init ==
  /\ plan \in Plans /\ opts \in OptSets
  /\ run = 1
  /\ prep = [i \in Image |-> "waiting"]
  /\ load = [l \in plan.loads |-> "waiting"]
  /\ store = {<<i, "name">> : i \in {j \in plan.local : Class(j) = "thirdParty"}}
  /\ tarball = [a \in Cluster \X Image |-> {}]
  /\ file = [i \in Image |->
       IF Class(i) = "archive" /\ i \in plan.local THEN "whole" ELSE "absent"]
  /\ inCluster = [c \in Cluster |-> {}]

(* Pulls and builds *)

FirstCommand(i) ==
  CASE SkipsPrep(i)            -> "done"
    [] Class(i) = "custom"     -> "build"
    [] Class(i) = "archive"    -> IF file[i] = "absent" THEN "fetch" ELSE "done"
    [] Class(i) = "thirdParty" -> IF i \notin plan.local THEN "pull"
                                  ELSE IF i \in plan.retag THEN "tag" ELSE "done"

StartPrep(i) ==
  /\ prep[i] = "waiting"
  /\ prep' = [prep EXCEPT ![i] = FirstCommand(i)]
  /\ UNCHANGED <<config, run, load, disk, inCluster>>

\* Fault: the tag of the image named left to docker.
PullLatest(i) ==
  /\ prep[i] = "pull"
  /\ store' = store \cup {<<i, "latest">>}
  /\ prep' = [prep EXCEPT ![i] = IF i \in plan.retag THEN "tag" ELSE "done"]
  /\ UNCHANGED <<config, run, load, tarball, file, inCluster>>

\* docker pull
Pull(i) ==
  /\ prep[i] = "pull"
  /\ store' = store \cup {<<i, "name">>}
  /\ prep' = [prep EXCEPT ![i] = IF i \in plan.retag THEN "tag" ELSE "done"]
  /\ UNCHANGED <<config, run, load, tarball, file, inCluster>>

\* docker tag
Retag(i) ==
  /\ prep[i] = "tag"
  /\ <<i, "name">> \in store
  /\ store' = store \cup {<<i, "retag">>}
  /\ prep' = [prep EXCEPT ![i] = "done"]
  /\ UNCHANGED <<config, run, load, tarball, file, inCluster>>

\* docker build with a --tag for each
Build(i) ==
  /\ prep[i] = "build"
  /\ store' = store \cup TagsOf(i)
  /\ prep' = [prep EXCEPT ![i] = "done"]
  /\ UNCHANGED <<config, run, load, tarball, file, inCluster>>

\* crane.Pull and crane.Save, to a path where nothing is
Fetch(i) ==
  /\ prep[i] = "fetch"
  /\ file' = [file EXCEPT ![i] = "whole"]
  /\ prep' = [prep EXCEPT ![i] = "done"]
  /\ UNCHANGED <<config, run, load, store, tarball, inCluster>>

\* A failing crane.Save may leave half an archive.
PrepFails(i) ==
  /\ prep[i] \in {"pull", "tag", "build", "fetch"}
  /\ prep' = [prep EXCEPT ![i] = "failed"]
  /\ IF prep[i] = "fetch" THEN \E f \in {"absent", "partial"} : file' = [file EXCEPT ![i] = f]
                          ELSE UNCHANGED file
  /\ UNCHANGED <<config, run, load, store, tarball, inCluster>>

-----------------------------------------------------------------------------
(* LoadImages: And(save, remove, load, rm), the second and the last only   *)
(* under noCache; LoadImageArchives: load alone.                           *)

StartLoad(l) ==
  LET i == l[2] IN
  /\ load[l] = "waiting"
  /\ prep[i] = "done"
  /\ load' = [load EXCEPT ![l] =
       IF SkipsLoad(i) THEN "done" ELSE IF Class(i) = "archive" THEN "load" ELSE "save"]
  /\ UNCHANGED <<config, run, prep, disk, inCluster>>

Save(l) ==
  LET i == l[2] IN
  /\ load[l] = "save"
  /\ LoadTags(i) \subseteq store
  /\ tarball' = [tarball EXCEPT ![Archive(l)] = LoadTags(i)]
  /\ load' = [load EXCEPT ![l] = IF NoCache(i) THEN "remove" ELSE "load"]
  /\ UNCHANGED <<config, run, prep, store, file, inCluster>>

\* Fault: the saved image is not removed from the store.
NoRemove(l) ==
  /\ load[l] = "remove"
  /\ load' = [load EXCEPT ![l] = "load"]
  /\ UNCHANGED <<config, run, prep, disk, inCluster>>

\* docker image rm
Remove(l) ==
  /\ load[l] = "remove"
  /\ LoadTags(l[2]) \subseteq store
  /\ store' = store \ LoadTags(l[2])
  /\ load' = [load EXCEPT ![l] = "load"]
  /\ UNCHANGED <<config, run, prep, tarball, file, inCluster>>

\* What is in the archive to load.
Content(l) ==
  IF Class(l[2]) # "archive" THEN tarball[Archive(l)]
  ELSE IF file[l[2]] = "whole" THEN LoadTags(l[2]) ELSE {}

\* kind load image-archive
LoadArchive(l) ==
  /\ load[l] = "load"
  /\ Content(l) # {}
  /\ inCluster' = [inCluster EXCEPT ![l[1]] = @ \cup Content(l)]
  /\ load' = [load EXCEPT ![l] = IF NoCache(l[2]) THEN "rm" ELSE "done"]
  /\ UNCHANGED <<config, run, prep, disk>>

\* Fault: the archive that was loaded is left on disk.
NoRm(l) ==
  /\ load[l] = "rm"
  /\ load' = [load EXCEPT ![l] = "done"]
  /\ UNCHANGED <<config, run, prep, disk, inCluster>>

\* Rm(archivePaths[0])
Rm(l) ==
  /\ load[l] = "rm"
  /\ tarball' = [tarball EXCEPT ![Archive(l)] = {}]
  /\ load' = [load EXCEPT ![l] = "done"]
  /\ UNCHANGED <<config, run, prep, store, file, inCluster>>

\* A failing command ends the load, and what was done before stays; a save
\* that fails may have opened the archive, and so emptied it.
LoadFails(l) ==
  /\ load[l] \in {"save", "remove", "load", "rm"}
  /\ load' = [load EXCEPT ![l] = "failed"]
  /\ \/ UNCHANGED tarball
     \/ load[l] = "save" /\ tarball' = [tarball EXCEPT ![Archive(l)] = {}]
  /\ UNCHANGED <<config, run, prep, store, file, inCluster>>

-----------------------------------------------------------------------------

Quiet ==
  /\ \A i \in Image : prep[i] \in {"waiting", "done", "failed"}
  /\ \A l \in plan.loads : load[l] \in {"waiting", "done", "failed"}

\* The suite is run again, with clusters that NoSuiteCleanup has left.
Rerun ==
  /\ run < MaxRuns
  /\ Quiet
  /\ run' = run + 1
  /\ prep' = [i \in Image |-> "waiting"]
  /\ load' = [l \in plan.loads |-> "waiting"]
  /\ UNCHANGED <<config, disk, inCluster>>

Next ==
  \/ \E i \in Image :
       StartPrep(i) \/ Pull(i) \/ Retag(i) \/ Build(i) \/ Fetch(i) \/ PrepFails(i)
  \/ \E l \in plan.loads :
       \/ StartLoad(l) \/ Save(l) \/ Remove(l) \/ LoadArchive(l) \/ Rm(l)
       \/ LoadFails(l)
  \/ Rerun

Loading == Init /\ [][Next]_vars

-----------------------------------------------------------------------------
(* Properties *)

(* A load that has not failed or been skipped has put the image into the   *)
(* cluster, under all the tags that a custom image has, even when another  *)
(* load has used the same archive.                                         *)
Loaded ==
  \A l \in plan.loads : load[l] = "done" /\ ~SkipsLoad(l[2]) =>
    (IF Class(l[2]) = "custom" THEN TagsOf(l[2]) ELSE {<<l[2], "name">>}) \subseteq inCluster[l[1]]

(* "LoadImages must remove any copies of the image outside of the cluster" *)
(* (cluster.go:113), and "only once after loading is complete" is an image *)
(* kept (suite.go:31): when a load has ended well, neither the archive nor *)
(* the local store has a copy, however many loads there were, except for   *)
(* the one that the code does leave there: the copy that Pull's docker tag *)
(* has made under the name Retag, which no load knows of (images.go:159).  *)
NoCopiesLeft ==
  \A l \in plan.loads :
    LET i == l[2] IN
    NoCache(i) /\ load[l] = "done" /\ ~SkipsLoad(i) =>
      tarball[Archive(l)] = {} /\ TagsOf(i) \cap store \subseteq {<<i, "retag">>}

\* Under NoCacheImages the load k has removed its image from the store, or, when
\* it has failed, may have.
TakenBy(k) == NoCache(k[2]) /\ load[k] \in {"load", "rm", "done", "failed"}

(* A load finds what its next command needs, in every run.  The image is in*)
(* the store when it is to be saved or removed, unless another load of the *)
(* same image, onto another cluster or for another mention, has removed it *)
(* under NoCacheImages; and the archive is whole when it is to be loaded,  *)
(* unless another load with the same archive has failed or deleted it.     *)
(* Nothing else ever takes away what is needed: no pull, no other image's  *)
(* load, and no earlier run.                                               *)
SourceThere ==
  \A l \in plan.loads :
    LET i == l[2]
        Others == {k \in plan.loads \ {l} : k[2] = i}
    IN
    /\ load[l] \in {"save", "remove"} /\ ~SkipsPrep(i) =>
         LoadTags(i) \subseteq store \/ \E k \in Others : TakenBy(k)
    /\ load[l] = "load" /\ Class(i) # "archive" =>
         \/ tarball[Archive(l)] = LoadTags(i)
         \/ \E k \in Others :
              Archive(k) = Archive(l) /\ (load[k] = "failed" \/ (NoCache(i) /\ load[k] = "done"))
=============================================================================
