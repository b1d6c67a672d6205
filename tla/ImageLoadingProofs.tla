------------------------- MODULE ImageLoadingProofs -------------------------
(***************************************************************************)
(* Images for every plan, option set and number of runs.  The tags of an   *)
(* image in the local store belong to its own tasks: its pull or build adds*)
(* them, and under NoCacheImages its loads take them away.  As no load     *)
(* begins before the pull or build has ended, and that does not begin anew *)
(* before the next run, neither can undo what the other has done.          *)
(***************************************************************************)
EXTENDS ImageLoading, TLAPS

\* A load begins when its image is there, and what it has done so far shows
\* in the archive and in the cluster.
LoadInv ==
  \A l \in plan.loads :
    /\ load[l] # "waiting" => prep[l[2]] = "done"
    /\ load[l] \in {"save", "remove"} => Class(l[2]) # "archive"
    /\ load[l] \in {"remove", "rm"} => NoCache(l[2])
    /\ load[l] = "rm" \/ (load[l] = "done" /\ ~SkipsLoad(l[2])) =>
         LoadTags(l[2]) \subseteq inCluster[l[1]]

\* The load k has emptied or deleted its archive, or may have.
Spoils(k) == load[k] = "failed" \/ (NoCache(k[2]) /\ load[k] = "done")

\* An archive has what it is to have, or nothing; and a load that has saved
\* finds its own, unless another with the same archive has spoilt it.
ArchiveInv ==
  \A l \in plan.loads : Class(l[2]) # "archive" =>
    /\ tarball[Archive(l)] = {} \/ tarball[Archive(l)] = LoadTags(l[2])
    /\ load[l] \in {"remove", "load"} =>
         \/ tarball[Archive(l)] = LoadTags(l[2])
         \/ \E k \in plan.loads \ {l} : Archive(k) = Archive(l) /\ Spoils(k)

\* What a load under NoCacheImages has removed does not come back.
GoneInv ==
  \A l \in plan.loads : NoCache(l[2]) =>
    /\ load[l] \in {"load", "rm"} \/ (load[l] = "done" /\ ~SkipsLoad(l[2])) =>
         LoadTags(l[2]) \cap store = {}
    /\ load[l] = "done" /\ ~SkipsLoad(l[2]) => tarball[Archive(l)] = {}

\* In this run no load of i has come to remove it.
Untouched(i) ==
  NoCache(i) =>
    \A l \in plan.loads : l[2] = i => load[l] \in {"waiting", "save", "remove"}

\* The store has what somebody else has put there, what a pull needs for its
\* next command, and what has been prepared and not removed.
StoreInv ==
  \A i \in Image :
    /\ Class(i) = "thirdParty" /\ i \in plan.local => <<i, "name">> \in store
    /\ prep[i] \in {"pull", "tag"} => Class(i) = "thirdParty"
    /\ prep[i] = "build" => Class(i) = "custom"
    /\ prep[i] = "fetch" => Class(i) = "archive"
    /\ prep[i] = "tag" => <<i, "name">> \in store
    /\ prep[i] = "done" /\ Class(i) # "archive" /\ ~SkipsPrep(i) /\ Untouched(i) =>
         LoadTags(i) \subseteq store

IInv == TypeOK /\ LoadInv /\ ArchiveInv /\ GoneInv /\ StoreInv

-----------------------------------------------------------------------------
(* Plans and tags *)

LEMMA PlanType ==
  ASSUME plan \in Plans
  PROVE  /\ plan.loads \subseteq Cluster \X Image \X Mention
         /\ \A i \in Image : Class(i) \in {"thirdParty", "custom", "archive"}
         /\ plan.retag \subseteq Image /\ plan.local \subseteq Image
BY ImageLoadingAssumption DEF Plan, Class

LEMMA LoadType ==
  ASSUME plan \in Plans, NEW l \in plan.loads
  PROVE  l[1] \in Cluster /\ l[2] \in Image /\ Archive(l) \in Cluster \X Image
BY PlanType DEF Archive

\* Two images share no tag, and a load's are among those that Pull or Build
\* gives its image: the name, or all of a custom image's.
LEMMA TagFacts ==
  ASSUME plan \in Plans, NEW i \in Image
  PROVE  /\ TagsOf(i) \subseteq Tag /\ LoadTags(i) \subseteq Tag
         /\ LoadTags(i) # {}
         /\ Class(i) = "custom" => LoadTags(i) = TagsOf(i)
         /\ Class(i) # "custom" => LoadTags(i) = {<<i, "name">>}
         /\ \A t \in TagsOf(i) \cup LoadTags(i) : t[1] = i
         /\ <<i, "name">> \in Tag /\ <<i, "retag">> \in Tag
<1>1. <<i, "name">> \in Tag /\ <<i, "retag">> \in Tag
  BY DEF Tag, Name
<1>2. NamesOf(i) \subseteq Name
  BY PlanType DEF NamesOf, Name
<1>3. CASE Class(i) = "custom"
  <2>1. LoadTags(i) = TagsOf(i) /\ TagsOf(i) = {i} \X {"tag", "extra"}
    BY <1>3 DEF LoadTags, TagsOf, NamesOf
  <2>2. <<i, "tag">> \in LoadTags(i)
    BY <2>1
  <2> QED
    BY <1>1, <1>2, <1>3, <2>1, <2>2 DEF TagsOf, Tag, Name
<1>4. CASE Class(i) # "custom"
  <2>1. LoadTags(i) = {<<i, "name">>}
    BY <1>4 DEF LoadTags
  <2> QED
    BY <1>1, <1>2, <1>4, <2>1 DEF TagsOf, Tag
<1> QED
  BY <1>3, <1>4

-----------------------------------------------------------------------------

LEMMA IInvInit == Init => IInv
<1> SUFFICES ASSUME Init PROVE IInv
  OBVIOUS
<1>1. plan \in Plans
  BY DEF Init
<1>2. TypeOK
  <2>1. store \subseteq Tag
    BY <1>1, PlanType DEF Init, Tag, Name
  <2>2. run \in 1..MaxRuns
    BY ImageLoadingAssumption DEF Init
  <2> QED
    BY <2>1, <2>2 DEF Init, TypeOK, PrepState, LoadState
<1>3. LoadInv /\ GoneInv /\ ArchiveInv
  BY <1>1, LoadType DEF Init, LoadInv, GoneInv, ArchiveInv
<1>4. StoreInv
  BY <1>1, PlanType DEF Init, StoreInv
<1> QED
  BY <1>2, <1>3, <1>4 DEF IInv

-----------------------------------------------------------------------------
(* Pulls and builds *)

\* What a step of i's pull or build may do.
LEMMA PrepFrame ==
  ASSUME IInv, NEW i \in Image,
         StartPrep(i) \/ Pull(i) \/ Retag(i) \/ Build(i) \/ Fetch(i) \/ PrepFails(i)
  PROVE  /\ prep[i] # "done"
         /\ prep' \in [Image -> PrepState]
         /\ \A j \in Image \ {i} : prep'[j] = prep[j]
         /\ store \subseteq store' /\ \A t \in store' \ store : t[1] = i
         /\ store' \subseteq Tag
         /\ file' \in [Image -> {"absent", "partial", "whole"}]
         /\ UNCHANGED <<plan, opts, run, load, tarball, inCluster>>
<1> USE DEF IInv, TypeOK, PrepState, config, disk
<1>1. CASE StartPrep(i)
  <2>1. FirstCommand(i) \in {"pull", "tag", "build", "fetch", "done"}
    BY PlanType DEF FirstCommand
  <2> QED
    BY <1>1, <2>1 DEF StartPrep
<1>2. CASE Pull(i)
  <2>1. prep[i] # "done" /\ prep' \in [Image -> PrepState]
    BY <1>2 DEF Pull
  <2>2. \A j \in Image \ {i} : prep'[j] = prep[j]
    BY <1>2 DEF Pull
  <2>3. store \subseteq store' /\ \A t \in store' \ store : t[1] = i
    BY <1>2 DEF Pull
  <2>4. store' \subseteq Tag
    BY <1>2, TagFacts DEF Pull
  <2>5. file' \in [Image -> {"absent", "partial", "whole"}]
    BY <1>2 DEF Pull
  <2>6. UNCHANGED <<plan, opts, run, load, tarball, inCluster>>
    BY <1>2 DEF Pull
  <2> QED
    BY <2>1, <2>2, <2>3, <2>4, <2>5, <2>6
<1>3. CASE Retag(i)
  BY <1>3, TagFacts DEF Retag
<1>4. CASE Build(i)
  BY <1>4, TagFacts DEF Build
<1>5. CASE Fetch(i)
  BY <1>5 DEF Fetch
<1>6. CASE PrepFails(i)
  BY <1>6 DEF PrepFails
<1> QED
  BY <1>1, <1>2, <1>3, <1>4, <1>5, <1>6

\* Where it leaves the pull or build, and the store.
LEMMA PrepResult ==
  ASSUME IInv, NEW i \in Image,
         StartPrep(i) \/ Pull(i) \/ Retag(i) \/ Build(i) \/ Fetch(i) \/ PrepFails(i)
  PROVE  /\ prep'[i] \in {"pull", "tag"} => Class(i) = "thirdParty"
         /\ prep'[i] = "build" => Class(i) = "custom"
         /\ prep'[i] = "fetch" => Class(i) = "archive"
         /\ prep'[i] = "tag" => <<i, "name">> \in store'
         /\ prep'[i] = "done" /\ Class(i) # "archive" /\ ~SkipsPrep(i) =>
              LoadTags(i) \subseteq store'
<1>1. plan \in Plans /\ prep \in [Image -> PrepState]
  BY DEF IInv, TypeOK
<1>2. Class(i) \in {"thirdParty", "custom", "archive"}
  BY <1>1, PlanType
<1>3. /\ Class(i) = "custom" => LoadTags(i) = TagsOf(i)
      /\ Class(i) # "custom" => LoadTags(i) = {<<i, "name">>}
  BY <1>1, TagFacts
<1>4. /\ Class(i) = "thirdParty" /\ i \in plan.local => <<i, "name">> \in store
      /\ prep[i] \in {"pull", "tag"} => Class(i) = "thirdParty"
      /\ prep[i] = "build" => Class(i) = "custom"
      /\ prep[i] = "fetch" => Class(i) = "archive"
      /\ prep[i] = "tag" => <<i, "name">> \in store
  BY DEF IInv, StoreInv
<1>5. CASE StartPrep(i)
  <2>1. prep'[i] = FirstCommand(i) /\ store' = store
    BY <1>1, <1>5 DEF StartPrep, disk
  <2> QED
    BY <1>2, <1>3, <1>4, <2>1 DEF FirstCommand
<1>6. CASE Pull(i)
  BY <1>1, <1>3, <1>4, <1>6 DEF Pull
<1>7. CASE Retag(i)
  BY <1>1, <1>3, <1>4, <1>7 DEF Retag
<1>8. CASE Build(i)
  BY <1>1, <1>3, <1>4, <1>8 DEF Build
<1>9. CASE Fetch(i)
  BY <1>1, <1>4, <1>9 DEF Fetch
<1>10. CASE PrepFails(i)
  BY <1>1, <1>10 DEF PrepFails
<1> QED
  BY <1>5, <1>6, <1>7, <1>8, <1>9, <1>10

LEMMA InvPrep ==
  ASSUME IInv, NEW i \in Image,
         StartPrep(i) \/ Pull(i) \/ Retag(i) \/ Build(i) \/ Fetch(i) \/ PrepFails(i)
  PROVE  IInv'
<1> USE PrepFrame
<1>1. plan \in Plans /\ prep \in [Image -> PrepState]
  BY DEF IInv, TypeOK
<1>2. TypeOK'
  BY <1>1 DEF IInv, TypeOK
<1>3. \A l \in plan.loads : l[2] = i => load[l] = "waiting"
  BY DEF IInv, LoadInv
<1>4. LoadInv' /\ ArchiveInv'
  <2>1. LoadInv'
    BY <1>1, <1>3, LoadType DEF IInv, LoadInv, Class, NoCache, LoadTags, SkipsLoad
  <2>2. \A j : /\ Class(j)' = Class(j) /\ NoCache(j)' = NoCache(j) /\ LoadTags(j)' = LoadTags(j)
               /\ Archive(j)' = Archive(j) /\ Spoils(j)' = Spoils(j)
    BY DEF Spoils, Archive, Class, NoCache, LoadTags
  <2>3. ArchiveInv'
    BY <2>2 DEF IInv, ArchiveInv
  <2> QED
    BY <2>1, <2>3
<1>5. GoneInv'
  <2>1. \A l \in plan.loads : l[2] # i /\ LoadTags(l[2]) \cap store = {} => LoadTags(l[2]) \cap store' = {}
    BY <1>1, LoadType DEF LoadTags
  <2> QED
    BY <1>3, <2>1 DEF IInv, GoneInv, Class, NoCache, LoadTags, SkipsLoad
<1>6. StoreInv'
  <2> DEFINE S(j) ==
        /\ Class(j) = "thirdParty" /\ j \in plan.local => <<j, "name">> \in store
        /\ prep[j] \in {"pull", "tag"} => Class(j) = "thirdParty"
        /\ prep[j] = "build" => Class(j) = "custom"
        /\ prep[j] = "fetch" => Class(j) = "archive"
        /\ prep[j] = "tag" => <<j, "name">> \in store
        /\ prep[j] = "done" /\ Class(j) # "archive" /\ ~SkipsPrep(j) /\ Untouched(j) =>
             LoadTags(j) \subseteq store
  <2>1. \A j \in Image : S(j)
    BY DEF IInv, StoreInv
  <2>2. ASSUME NEW j \in Image, j # i PROVE S(j)'
    <3>1. prep'[j] = prep[j]
      BY <1>1, <2>2
    <3>2. /\ Class(j)' = Class(j) /\ SkipsPrep(j)' = SkipsPrep(j)
          /\ Untouched(j)' = Untouched(j) /\ LoadTags(j)' = LoadTags(j)
      BY DEF Class, SkipsPrep, Untouched, NoCache, LoadTags
    <3> QED
      BY <2>1, <3>1, <3>2
  <2>3. S(i)'
    <3>1. Class(i)' = Class(i) /\ SkipsPrep(i)' = SkipsPrep(i) /\ LoadTags(i)' = LoadTags(i)
      BY DEF Class, SkipsPrep, LoadTags
    <3> QED
      BY <2>1, <3>1, PrepResult
  <2> QED
    BY <2>2, <2>3 DEF StoreInv
<1> QED
  BY <1>2, <1>4, <1>5, <1>6 DEF IInv

-----------------------------------------------------------------------------
(* Loads *)

LoadSteps(l) ==
  StartLoad(l) \/ Save(l) \/ Remove(l) \/ LoadArchive(l) \/ Rm(l) \/ LoadFails(l)

\* What a step of the load l leaves alone.
LEMMA LoadFrame ==
  ASSUME IInv, NEW l \in plan.loads, LoadSteps(l)
  PROVE  /\ UNCHANGED <<plan, opts, run, prep, file>>
         /\ load' \in [plan.loads -> LoadState]
         /\ \A k \in plan.loads \ {l} : load'[k] = load[k]
         /\ inCluster' \in [Cluster -> SUBSET Tag]
         /\ \A c \in Cluster : inCluster[c] \subseteq inCluster'[c]
         /\ store' = store \/ Remove(l)
         /\ store' \subseteq store
         /\ load'[l] \in {"waiting", "save", "remove"} =>
              load[l] \in {"waiting", "save", "remove"}
<1> USE DEF IInv, TypeOK, LoadState, config, disk
<1>1. plan \in Plans /\ l[1] \in Cluster /\ l[2] \in Image
  BY LoadType
<1>2. LoadTags(l[2]) \subseteq Tag /\ tarball \in [Cluster \X Image -> SUBSET Tag]
  BY <1>1, TagFacts
<1>3. CASE StartLoad(l)
  BY <1>3 DEF StartLoad
<1>4. CASE Save(l)
  BY <1>2, <1>4 DEF Save
<1>5. CASE Remove(l)
  BY <1>5 DEF Remove
<1>6. CASE LoadArchive(l)
  <2>1. tarball[Archive(l)] \subseteq Tag
    BY <1>2, LoadType
  <2>2. Content(l) \subseteq Tag
    BY <1>2, <2>1 DEF Content
  <2> QED
    BY <1>1, <1>6, <2>2 DEF LoadArchive
<1>7. CASE Rm(l)
  BY <1>7 DEF Rm
<1>8. CASE LoadFails(l)
  BY <1>8 DEF LoadFails
<1> QED
  BY <1>3, <1>4, <1>5, <1>6, <1>7, <1>8 DEF LoadSteps

\* It touches its own archive alone.
LEMMA ArchiveFrame ==
  ASSUME IInv, NEW l \in plan.loads, LoadSteps(l)
  PROVE  /\ tarball' \in [Cluster \X Image -> SUBSET Tag]
         /\ \A a \in Cluster \X Image : a # Archive(l) => tarball'[a] = tarball[a]
<1>1. /\ tarball \in [Cluster \X Image -> SUBSET Tag]
      /\ plan \in Plans /\ l[2] \in Image
  BY LoadType DEF IInv, TypeOK
<1>2. LoadTags(l[2]) \subseteq Tag
  BY <1>1, TagFacts
<1>3. CASE StartLoad(l) \/ Remove(l) \/ LoadArchive(l)
  BY <1>1, <1>3 DEF StartLoad, Remove, LoadArchive, disk
<1>4. CASE Save(l)
  BY <1>1, <1>2, <1>4 DEF Save
<1>5. CASE Rm(l)
  BY <1>1, <1>5 DEF Rm
<1>6. CASE LoadFails(l)
  BY <1>1, <1>6 DEF LoadFails
<1> QED
  BY <1>3, <1>4, <1>5, <1>6 DEF LoadSteps

\* What it may do to it: fill it from the store, or spoil it.
LEMMA ArchiveStep ==
  ASSUME IInv, NEW l \in plan.loads, LoadSteps(l)
  PROVE  /\ load[l] \notin {"done", "failed"}
         /\ \/ tarball'[Archive(l)] = tarball[Archive(l)]
            \/ tarball'[Archive(l)] = LoadTags(l[2]) /\ LoadTags(l[2]) \subseteq store
            \/ tarball'[Archive(l)] = {} /\ Spoils(l)'
<1>1. /\ plan \in Plans /\ load \in [plan.loads -> LoadState]
      /\ tarball \in [Cluster \X Image -> SUBSET Tag] /\ Archive(l) \in Cluster \X Image
  BY LoadType DEF IInv, TypeOK
<1>2. NoCache(l[2])' = NoCache(l[2])
  BY LoadFrame DEF NoCache, Class
<1>3. load[l] \notin {"done", "failed"}
  BY DEF LoadSteps, StartLoad, Save, Remove, LoadArchive, Rm, LoadFails
<1>4. CASE StartLoad(l) \/ Remove(l) \/ LoadArchive(l)
  BY <1>3, <1>4 DEF StartLoad, Remove, LoadArchive, disk
<1>5. CASE Save(l)
  BY <1>1, <1>3, <1>5 DEF Save
<1>6. CASE Rm(l)
  <2>1. NoCache(l[2]) /\ load'[l] = "done"
    BY <1>1, <1>6 DEF Rm, IInv, LoadInv
  <2> QED
    BY <1>1, <1>2, <1>3, <1>6, <2>1 DEF Rm, Spoils
<1>7. CASE LoadFails(l)
  <2>1. load'[l] = "failed"
    BY <1>1, <1>7 DEF LoadFails
  <2> QED
    BY <1>1, <1>3, <1>7, <2>1 DEF LoadFails, Spoils
<1> QED
  BY <1>4, <1>5, <1>6, <1>7 DEF LoadSteps

\* Where it leaves the load, the archive, the cluster and the store.
LEMMA LoadResult ==
  ASSUME IInv, NEW l \in plan.loads, LoadSteps(l)
  PROVE  /\ prep[l[2]] = "done"
         /\ load'[l] \in {"save", "remove"} => Class(l[2]) # "archive"
         /\ load'[l] \in {"remove", "rm"} => NoCache(l[2])
         /\ load'[l] = "rm" \/ (load'[l] = "done" /\ ~SkipsLoad(l[2])) =>
              LoadTags(l[2]) \subseteq inCluster'[l[1]]
         /\ load'[l] \in {"remove", "load"} /\ Class(l[2]) # "archive" =>
              \/ load[l] = "save" /\ tarball'[Archive(l)] = LoadTags(l[2])
              \/ load[l] = "remove" /\ tarball' = tarball
         /\ NoCache(l[2]) =>
              /\ load'[l] \in {"load", "rm"} \/ (load'[l] = "done" /\ ~SkipsLoad(l[2])) =>
                   LoadTags(l[2]) \cap store' = {}
              /\ load'[l] = "done" /\ ~SkipsLoad(l[2]) => tarball'[Archive(l)] = {}
<1> USE DEF disk
<1>1. /\ plan \in Plans /\ load \in [plan.loads -> LoadState]
      /\ tarball \in [Cluster \X Image -> SUBSET Tag] /\ inCluster \in [Cluster -> SUBSET Tag]
      /\ l[1] \in Cluster /\ l[2] \in Image /\ Archive(l) \in Cluster \X Image
  BY LoadType DEF IInv, TypeOK
<1>2. /\ load[l] # "waiting" => prep[l[2]] = "done"
      /\ load[l] \in {"save", "remove"} => Class(l[2]) # "archive"
      /\ load[l] \in {"remove", "rm"} => NoCache(l[2])
      /\ load[l] = "rm" \/ (load[l] = "done" /\ ~SkipsLoad(l[2])) =>
           LoadTags(l[2]) \subseteq inCluster[l[1]]
  BY DEF IInv, LoadInv
<1>3. NoCache(l[2]) /\ load[l] \in {"load", "rm"} => LoadTags(l[2]) \cap store = {}
  BY DEF IInv, GoneInv
<1>4. NoCache(l[2]) => Class(l[2]) # "archive"
  BY DEF NoCache
<1>5. CASE StartLoad(l)
  BY <1>1, <1>2, <1>4, <1>5 DEF StartLoad
<1>6. CASE Save(l)
  BY <1>1, <1>2, <1>6 DEF Save
<1>7. CASE Remove(l)
  BY <1>1, <1>2, <1>7 DEF Remove
<1>8. CASE LoadArchive(l)
  <2>1. Content(l) = LoadTags(l[2])
    BY <1>2, <1>8 DEF LoadArchive, Content, IInv, ArchiveInv
  <2> QED
    BY <1>1, <1>2, <1>3, <1>8, <2>1 DEF LoadArchive
<1>9. CASE Rm(l)
  BY <1>1, <1>2, <1>3, <1>9 DEF Rm
<1>10. CASE LoadFails(l)
  BY <1>1, <1>2, <1>10 DEF LoadFails
<1> QED
  BY <1>5, <1>6, <1>7, <1>8, <1>9, <1>10 DEF LoadSteps

\* What the options and the plan decide is as before.
LEMMA LoadKeepsPlan ==
  ASSUME IInv, NEW l \in plan.loads, LoadSteps(l)
  PROVE  \A i : /\ Class(i)' = Class(i) /\ NoCache(i)' = NoCache(i)
                /\ SkipsLoad(i)' = SkipsLoad(i) /\ SkipsPrep(i)' = SkipsPrep(i)
                /\ LoadTags(i)' = LoadTags(i)
BY LoadFrame DEF Class, NoCache, SkipsLoad, SkipsPrep, LoadTags

LEMMA InvLoadLoads ==
  ASSUME IInv, NEW l \in plan.loads, LoadSteps(l)
  PROVE  LoadInv'
<1>1. UNCHANGED <<plan, prep>>
  BY LoadFrame
<1> SUFFICES ASSUME NEW k \in plan.loads
    PROVE  /\ load'[k] # "waiting" => prep[k[2]] = "done"
           /\ load'[k] \in {"save", "remove"} => Class(k[2]) # "archive"
           /\ load'[k] \in {"remove", "rm"} => NoCache(k[2])
           /\ load'[k] = "rm" \/ (load'[k] = "done" /\ ~SkipsLoad(k[2])) =>
                LoadTags(k[2]) \subseteq inCluster'[k[1]]
  BY <1>1, LoadKeepsPlan DEF LoadInv
<1>2. CASE k = l
  BY <1>2, LoadResult
<1>3. CASE k # l
  <2>1. inCluster[k[1]] \subseteq inCluster'[k[1]]
    BY LoadType, LoadFrame DEF IInv, TypeOK
  <2>2. load'[k] = load[k]
    BY <1>3, LoadFrame
  <2>3. /\ load[k] # "waiting" => prep[k[2]] = "done"
        /\ load[k] \in {"save", "remove"} => Class(k[2]) # "archive"
        /\ load[k] \in {"remove", "rm"} => NoCache(k[2])
        /\ load[k] = "rm" \/ (load[k] = "done" /\ ~SkipsLoad(k[2])) =>
             LoadTags(k[2]) \subseteq inCluster[k[1]]
    BY DEF IInv, LoadInv
  <2> QED
    BY <2>1, <2>2, <2>3
<1> QED
  BY <1>2, <1>3

LEMMA InvLoadArchive ==
  ASSUME IInv, NEW l \in plan.loads, LoadSteps(l)
  PROVE  ArchiveInv'
<1>1. UNCHANGED plan
  BY LoadFrame
<1> SUFFICES ASSUME NEW k \in plan.loads, Class(k[2]) # "archive"
    PROVE  /\ tarball'[Archive(k)] = {} \/ tarball'[Archive(k)] = LoadTags(k[2])
           /\ load'[k] \in {"remove", "load"} =>
                \/ tarball'[Archive(k)] = LoadTags(k[2])
                \/ \E j \in plan.loads \ {k} : Archive(j) = Archive(k) /\ Spoils(j)'
  BY <1>1, LoadKeepsPlan DEF ArchiveInv, Archive
<1>2. /\ tarball[Archive(k)] = {} \/ tarball[Archive(k)] = LoadTags(k[2])
      /\ load[k] \in {"remove", "load"} =>
           \/ tarball[Archive(k)] = LoadTags(k[2])
           \/ \E j \in plan.loads \ {k} : Archive(j) = Archive(k) /\ Spoils(j)
  BY DEF IInv, ArchiveInv
<1>3. ASSUME NEW j \in plan.loads, Spoils(j) PROVE Spoils(j)'
  <2>1. j # l
    BY <1>3, ArchiveStep DEF Spoils
  <2> QED
    BY <1>3, <2>1, LoadFrame, LoadKeepsPlan DEF Spoils
<1>4. Archive(k) = Archive(l) => k[2] = l[2]
  BY DEF Archive
<1>5. Archive(k) \in Cluster \X Image
  BY LoadType DEF IInv, TypeOK
<1>6. tarball'[Archive(k)] = {} \/ tarball'[Archive(k)] = LoadTags(k[2])
  BY <1>2, <1>4, <1>5, ArchiveFrame, ArchiveStep
<1>7. ASSUME load'[k] \in {"remove", "load"}
      PROVE  \/ tarball'[Archive(k)] = LoadTags(k[2])
             \/ \E j \in plan.loads \ {k} : Archive(j) = Archive(k) /\ Spoils(j)'
  <2>1. CASE k = l
    BY <1>2, <1>3, <1>7, <2>1, LoadResult
  <2>2. CASE k # l
    <3>1. load[k] \in {"remove", "load"}
      BY <1>7, <2>2, LoadFrame
    <3> QED
      BY <1>2, <1>3, <1>4, <1>5, <2>2, <3>1, ArchiveFrame, ArchiveStep
  <2> QED
    BY <2>1, <2>2
<1> QED
  BY <1>6, <1>7

LEMMA InvLoadGone ==
  ASSUME IInv, NEW l \in plan.loads, LoadSteps(l)
  PROVE  GoneInv'
<1>1. UNCHANGED plan
  BY LoadFrame
<1> SUFFICES ASSUME NEW k \in plan.loads, NoCache(k[2])
    PROVE  /\ load'[k] \in {"load", "rm"} \/ (load'[k] = "done" /\ ~SkipsLoad(k[2])) =>
                LoadTags(k[2]) \cap store' = {}
           /\ load'[k] = "done" /\ ~SkipsLoad(k[2]) => tarball'[Archive(k)] = {}
  BY <1>1, LoadKeepsPlan DEF GoneInv, Archive
<1>2. CASE k = l
  BY <1>2, LoadResult
<1>3. CASE k # l
  <2>1. /\ load[k] \in {"load", "rm"} \/ (load[k] = "done" /\ ~SkipsLoad(k[2])) =>
             LoadTags(k[2]) \cap store = {}
        /\ load[k] = "done" /\ ~SkipsLoad(k[2]) => tarball[Archive(k)] = {}
    BY DEF IInv, GoneInv
  <2>2. load'[k] = load[k] /\ store' \subseteq store
    BY <1>3, LoadFrame
  <2>3. ASSUME load[k] = "done", ~SkipsLoad(k[2]) PROVE tarball'[Archive(k)] = {}
    <3>1. tarball[Archive(k)] = {} /\ LoadTags(k[2]) \cap store = {} /\ LoadTags(k[2]) # {}
      BY <2>1, <2>3, LoadType, TagFacts DEF IInv, TypeOK
    <3>2. Archive(k) = Archive(l) => k[2] = l[2]
      BY DEF Archive
    <3>3. Archive(k) \in Cluster \X Image
      BY LoadType DEF IInv, TypeOK
    <3> QED
      BY <3>1, <3>2, <3>3, ArchiveFrame, ArchiveStep
  <2> QED
    BY <2>1, <2>2, <2>3
<1> QED
  BY <1>2, <1>3

LEMMA InvLoadStore ==
  ASSUME IInv, NEW l \in plan.loads, LoadSteps(l)
  PROVE  StoreInv'
<1>1. plan \in Plans /\ l[1] \in Cluster /\ l[2] \in Image
  BY LoadType DEF IInv, TypeOK
<1>2. UNCHANGED <<plan, prep>>
  BY LoadFrame
<1> SUFFICES ASSUME NEW i \in Image
    PROVE  /\ Class(i) = "thirdParty" /\ i \in plan.local => <<i, "name">> \in store'
           /\ prep[i] = "tag" => <<i, "name">> \in store'
           /\ prep[i] = "done" /\ Class(i) # "archive" /\ ~SkipsPrep(i) /\ Untouched(i)' =>
                LoadTags(i) \subseteq store'
  BY <1>2, LoadKeepsPlan DEF IInv, StoreInv
<1>3. /\ Class(i) = "thirdParty" /\ i \in plan.local => <<i, "name">> \in store
      /\ prep[i] = "tag" => <<i, "name">> \in store
      /\ prep[i] = "done" /\ Class(i) # "archive" /\ ~SkipsPrep(i) /\ Untouched(i) =>
           LoadTags(i) \subseteq store
  BY DEF IInv, StoreInv
<1>4. Untouched(i)' => Untouched(i)
  BY <1>2, LoadKeepsPlan, LoadFrame DEF Untouched
<1>5. CASE store' = store
  BY <1>3, <1>4, <1>5
<1>6. CASE Remove(l)
  <2>1. store' = store \ LoadTags(l[2]) /\ load[l] = "remove" /\ load'[l] = "load"
    BY <1>6 DEF Remove, IInv, TypeOK
  <2>2. prep[l[2]] = "done" /\ NoCache(l[2])
    BY <2>1 DEF IInv, LoadInv
  <2>3. CASE i = l[2]
    <3>1. ~Untouched(i)'
      BY <1>2, <2>1, <2>2, <2>3, LoadKeepsPlan DEF Untouched
    <3> QED
      BY <2>2, <2>3, <3>1 DEF NoCache
  <2>4. CASE i # l[2]
    <3>1. <<i, "name">> \notin LoadTags(l[2]) /\ LoadTags(i) \cap LoadTags(l[2]) = {}
      BY <1>1, <2>4, TagFacts
    <3> QED
      BY <1>3, <1>4, <2>1, <3>1
  <2> QED
    BY <2>3, <2>4
<1> QED
  BY <1>5, <1>6, LoadFrame

LEMMA InvLoad ==
  ASSUME IInv, NEW l \in plan.loads, LoadSteps(l)
  PROVE  IInv'
<1>1. TypeOK'
  BY LoadFrame, ArchiveFrame DEF IInv, TypeOK
<1> QED
  BY <1>1, InvLoadLoads, InvLoadArchive, InvLoadGone, InvLoadStore DEF IInv

-----------------------------------------------------------------------------
(* The next run begins with nothing prepared and nothing loaded, and with  *)
(* the store as it is.                                                     *)

LEMMA InvRerun ==
  ASSUME IInv, Rerun
  PROVE  IInv'
<1> USE DEF Rerun, config, disk
<1>1. UNCHANGED <<plan, opts, store, tarball, file, inCluster>>
  OBVIOUS
<1>2. /\ \A i \in Image : prep'[i] = "waiting"
      /\ \A l \in plan.loads : load'[l] = "waiting"
  OBVIOUS
<1>3. TypeOK'
  <2>1. run' \in 1..MaxRuns
    BY ImageLoadingAssumption DEF IInv, TypeOK
  <2> QED
    BY <2>1 DEF IInv, TypeOK, PrepState, LoadState
<1>4. LoadInv' /\ GoneInv'
  BY <1>1, <1>2 DEF LoadInv, GoneInv
<1>5. ArchiveInv'
  BY <1>1, <1>2 DEF IInv, ArchiveInv, Archive, Class, LoadTags
<1>6. StoreInv'
  BY <1>1, <1>2 DEF IInv, StoreInv, Class
<1> QED
  BY <1>3, <1>4, <1>5, <1>6 DEF IInv

LEMMA IInvStep == IInv /\ [Next]_vars => IInv'
<1> SUFFICES ASSUME IInv, [Next]_vars PROVE IInv'
  OBVIOUS
<1>1. ASSUME NEW i \in Image,
             StartPrep(i) \/ Pull(i) \/ Retag(i) \/ Build(i) \/ Fetch(i) \/ PrepFails(i)
      PROVE  IInv'
  BY <1>1, InvPrep
<1>2. ASSUME NEW l \in plan.loads, LoadSteps(l) PROVE IInv'
  BY <1>2, InvLoad
<1>3. CASE Rerun
  BY <1>3, InvRerun
<1>4. CASE UNCHANGED vars
  <2>1. \A i : /\ Class(i)' = Class(i) /\ NoCache(i)' = NoCache(i) /\ SkipsLoad(i)' = SkipsLoad(i)
               /\ SkipsPrep(i)' = SkipsPrep(i) /\ LoadTags(i)' = LoadTags(i)
               /\ Untouched(i)' = Untouched(i)
    BY <1>4 DEF vars, config, Class, NoCache, SkipsLoad, SkipsPrep, LoadTags, Untouched
  <2>2. TypeOK' /\ LoadInv'
    BY <1>4, <2>1 DEF vars, config, disk, IInv, TypeOK, LoadInv
  <2>3. GoneInv' /\ StoreInv'
    BY <1>4, <2>1 DEF vars, config, disk, IInv, GoneInv, StoreInv, Archive
  <2>4. ArchiveInv'
    BY <1>4, <2>1 DEF vars, config, disk, IInv, ArchiveInv, Archive, Spoils
  <2> QED
    BY <2>2, <2>3, <2>4 DEF IInv
<1> QED
  BY <1>1, <1>2, <1>3, <1>4 DEF Next, LoadSteps

LEMMA Invariance == Loading => []IInv
BY IInvInit, IInvStep, PTL DEF Loading

-----------------------------------------------------------------------------
(* Theorems *)

(* The variables keep to their types.                                      *)
THEOREM TypeCorrect == Loading => []TypeOK
<1>1. IInv => TypeOK
  BY DEF IInv
<1> QED
  BY <1>1, Invariance, PTL

(* A load that has not failed or been skipped has put the image into its   *)
(* cluster, a custom one under all its tags, whatever else was going on.   *)
THEOREM LoadedAlways == Loading => []Loaded
<1>1. IInv => Loaded
  <2> SUFFICES ASSUME IInv, NEW l \in plan.loads, load[l] = "done", ~SkipsLoad(l[2])
               PROVE  (IF Class(l[2]) = "custom" THEN TagsOf(l[2]) ELSE {<<l[2], "name">>})
                        \subseteq inCluster[l[1]]
    BY DEF Loaded
  <2>1. LoadTags(l[2]) \subseteq inCluster[l[1]]
    BY DEF IInv, LoadInv
  <2> QED
    BY <2>1, LoadType, TagFacts DEF IInv, TypeOK
<1> QED
  BY <1>1, Invariance, PTL

(* Under NoCacheImages a load that has ended well leaves no copy outside of*)
(* the cluster, and none comes back while the suite goes on, whatever other*)
(* loads the image has; only the copy under the name Retag stays.          *)
THEOREM NoCopiesLeftAlways == Loading => []NoCopiesLeft
<1>1. IInv => NoCopiesLeft
  <2> SUFFICES ASSUME IInv, NEW l \in plan.loads, NoCache(l[2]), load[l] = "done",
                      ~SkipsLoad(l[2])
               PROVE  tarball[Archive(l)] = {} /\ TagsOf(l[2]) \cap store \subseteq {<<l[2], "retag">>}
    BY DEF NoCopiesLeft
  <2>1. tarball[Archive(l)] = {} /\ LoadTags(l[2]) \cap store = {}
    BY DEF IInv, GoneInv
  <2>2. TagsOf(l[2]) \subseteq LoadTags(l[2]) \cup {<<l[2], "retag">>}
    <3>1. Class(l[2]) \in {"custom", "thirdParty"}
      BY DEF NoCache
    <3>2. CASE Class(l[2]) = "custom"
      BY <3>2, LoadType, TagFacts DEF IInv, TypeOK
    <3>3. CASE Class(l[2]) = "thirdParty"
      BY <3>3 DEF TagsOf, NamesOf, LoadTags
    <3> QED
      BY <3>1, <3>2, <3>3
  <2> QED
    BY <2>1, <2>2
<1> QED
  BY <1>1, Invariance, PTL

(* What the next command of a load needs is there, in every run: only      *)
(* another load of the same image can have taken it from the store, under  *)
(* NoCacheImages, and only another one with the same archive, which has    *)
(* failed or deleted it, can have spoilt that.                             *)
THEOREM SourceThereAlways == Loading => []SourceThere
<1>1. IInv => SourceThere
  <2> SUFFICES ASSUME IInv, NEW l \in plan.loads
      PROVE  /\ load[l] \in {"save", "remove"} /\ ~SkipsPrep(l[2]) =>
                  \/ LoadTags(l[2]) \subseteq store
                  \/ \E k \in {j \in plan.loads \ {l} : j[2] = l[2]} : TakenBy(k)
             /\ load[l] = "load" /\ Class(l[2]) # "archive" =>
                  \/ tarball[Archive(l)] = LoadTags(l[2])
                  \/ \E k \in {j \in plan.loads \ {l} : j[2] = l[2]} :
                       /\ Archive(k) = Archive(l)
                       /\ load[k] = "failed" \/ (NoCache(l[2]) /\ load[k] = "done")
    BY DEF SourceThere
  <2>1. plan \in Plans /\ l[1] \in Cluster /\ l[2] \in Image
    BY LoadType DEF IInv, TypeOK
  <2>2. ASSUME load[l] \in {"save", "remove"}, ~SkipsPrep(l[2]),
               ~\E k \in {j \in plan.loads \ {l} : j[2] = l[2]} : TakenBy(k)
        PROVE  LoadTags(l[2]) \subseteq store
    <3>1. prep[l[2]] = "done" /\ Class(l[2]) # "archive"
      BY <2>2 DEF IInv, LoadInv
    <3>2. \A k \in plan.loads : load[k] \in LoadState
      BY DEF IInv, TypeOK
    <3>3. Untouched(l[2])
      BY <2>2, <3>2 DEF Untouched, TakenBy, LoadState
    <3> QED
      BY <2>1, <2>2, <3>1, <3>3 DEF IInv, StoreInv
  <2>3. ASSUME load[l] = "load", Class(l[2]) # "archive", tarball[Archive(l)] # LoadTags(l[2])
        PROVE  \E k \in {j \in plan.loads \ {l} : j[2] = l[2]} :
                 /\ Archive(k) = Archive(l)
                 /\ load[k] = "failed" \/ (NoCache(l[2]) /\ load[k] = "done")
    <3>1. PICK k \in plan.loads \ {l} : Archive(k) = Archive(l) /\ Spoils(k)
      BY <2>3 DEF IInv, ArchiveInv
    <3>2. k[2] = l[2]
      BY <3>1 DEF Archive
    <3> QED
      BY <3>1, <3>2 DEF Spoils
  <2> QED
    BY <2>2, <2>3
<1> QED
  BY <1>1, Invariance, PTL
=============================================================================
