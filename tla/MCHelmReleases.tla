--------------------------- MODULE MCHelmReleases ---------------------------
(***************************************************************************)
(* One plan in which the test derives and changes values, for each shape   *)
(* that Base may start with, and plans with two releases in which commands *)
(* fail, the suite is run twice, or the repositories disagree.             *)
(***************************************************************************)
EXTENDS HelmReleases, TLC

CONSTANTS base, v1, v2, app, other

MCHandle == {base, v1, v2}
MCRelease == {app, other}
MCShapes == {"scalar", "nil", "func", "array", "object", "pointer", "arrays", "objects"}
MCPuts == {"array", "scalar"}

Stable(url) == [name |-> "stable", url |-> url]

AppFrom(repo) ==
  [name |-> "app", namespace |-> "", chart |-> "web", local |-> FALSE, repo |-> repo,
   update |-> FALSE, set |-> FALSE, values |-> <<>>, wait |-> FALSE]
Plain == AppFrom(Stable("u1"))

Simple ==
  [deploy |-> app :> Plain, keep |-> {}, left |-> {}, noDeps |-> FALSE, foreign |-> <<>>,
   shape |-> "scalar", code |-> FALSE, faulty |-> FALSE, runs |-> 1]

Coded ==
  {[Simple EXCEPT !.deploy = app :> [Plain EXCEPT !.values = <<base, v1, v2>>],
                  !.code = TRUE, !.shape = s] : s \in MCShapes}

\* The same name in two namespaces, with different values.
Namespaces ==
  [Simple EXCEPT
     !.deploy = app :> [Plain EXCEPT !.values = <<base>>]
                @@ other :> [Plain EXCEPT !.namespace = "apart", !.values = <<v1>>],
     !.code = TRUE]

Faulty ==
  {[Simple EXCEPT
      !.deploy = app :> [Plain EXCEPT !.set = TRUE, !.values = <<base, base>>]
                 @@ other :> [Plain EXCEPT !.namespace = "apart", !.local = TRUE,
                                !.update = TRUE, !.values = <<base>>, !.wait = TRUE],
      !.keep = k, !.shape = s, !.faulty = TRUE, !.runs = 2]
     : k \in {{}, {other}}, s \in {"func", "nil"}}

\* Two repositories by one name; a chart named like a repository; a name that
\* helm knows for another URL; NoDeps, with and without an earlier release.
Repositories ==
  {[Simple EXCEPT
      !.deploy = app :> Plain @@ other :> [AppFrom(repo) EXCEPT !.name = "b"],
      !.foreign = foreign]
     : repo \in {Stable("u1"), Stable("u2"), [name |-> "web", url |-> "u2"]},
       foreign \in {<<>>, "stable" :> "u3"}}
  \cup {[Simple EXCEPT !.noDeps = TRUE, !.left = l] : l \in {{}, {app}}}

MCPlans == Coded \cup {Namespaces} \cup Faulty \cup Repositories
=============================================================================
