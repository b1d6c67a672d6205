--------------------------- MODULE MCImageLoading ---------------------------
(***************************************************************************)
(* Four images, of which a plan loads one or two: each onto one cluster,   *)
(* one onto both, or one twice onto the same, with NoCacheImages or not.   *)
(***************************************************************************)
EXTENDS ImageLoading

CONSTANTS c1, c2, pulled, retagged, built, packed

MCImage == {pulled, retagged, built, packed}
MCCluster == {c1, c2}
MCMention == {"first", "second"}

Classes ==
  [i \in MCImage |-> CASE i = built -> "custom" [] i = packed -> "archive" [] OTHER -> "thirdParty"]

PlanWith(retag, local, loads) ==
  [class |-> Classes, retag |-> retag, local |-> local, loads |-> loads]

\* Each image mentioned once.
LoadsOf(pairs) == {<<p[1], p[2], "first">> : p \in pairs}

MCPlans ==
  {PlanWith({retagged}, local, LoadsOf({<<c1, pulled>>, <<c2, built>>})) : local \in {{}, {pulled}}}
  \cup {PlanWith({retagged}, local, LoadsOf({<<c1, retagged>>, <<c1, packed>>}))
        : local \in {{}, {retagged}, {packed}}}
  \cup {PlanWith({retagged}, {}, LoadsOf({<<c1, built>>, <<c2, built>>, <<c2, packed>>}))}
  \cup {PlanWith({retagged}, {}, {c1} \X {i} \X MCMention) : i \in {retagged, built}}

MCOptSets == {{}, {"NoCacheImages"}, {"NoPull", "NoLoadBuilt"}, {"NoBuild", "NoLoadPulled"}}
=============================================================================
