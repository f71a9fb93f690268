-------------------------- MODULE EnactPatch_proofs --------------------------
(***************************************************************************)
(* Theorems about two machines that have nothing to do with each other.    *)
(*                                                                         *)
(* EnactmentState: the pool follows the finalized chain, for every tree of *)
(* blocks and every order of events.                                       *)
(*                                                                         *)
(* PatchTool: the manifests the tool leaves are consistent, and it removes *)
(* nothing else, for every workspace whose names are unambiguous.          *)
(***************************************************************************)
EXTENDS EnactmentState, PatchTool, TLAPS

-----------------------------------------------------------------------------
(* The enactment state of the pool. *)

\* The blocks that are announced, and the histories, are of the tree.
EnactTypeOK ==
    /\ best \in Blocks /\ final \in Blocks
    /\ skipped \in BOOLEAN

EnactInv == EnactTypeOK /\ EnactmentFollows

\* A block is on its own chain (the route to a block ends with it).
LEMMA OnOwnChain == \A b \in Blocks : b \in Chain(b)
BY DEF Chain, Ancestors

\* A new pool has seen the genesis block only.
LEMMA InitEnactInv == EnactInit => EnactInv
BY OnOwnChain, ChainAssumption DEF EnactInit, EnactInv, EnactTypeOK, EnactmentFollows

\* An event keeps the invariant: a route that would retract the finalized block
\* is not followed, and a finalized block that is not on the best chain becomes
\* the best block (EnactmentState::update).
LEMMA NextEnactInv == EnactInv /\ [EnactNext]_enactVars => EnactInv'
<1> SUFFICES ASSUME EnactInv, [EnactNext]_enactVars PROVE EnactInv'
  OBVIOUS
<1>1. CASE UNCHANGED enactVars
  BY <1>1 DEF EnactInv, EnactTypeOK, EnactmentFollows, enactVars, Chain
<1>2. ASSUME NEW b \in Blocks, NEW finalized \in BOOLEAN, ChainEvent(b, finalized)
      PROVE  EnactInv'
  <2> DEFINE u == update(b, finalized)
  <2>1. /\ best' = u.best /\ final' = u.final /\ skipped' = (skipped \/ u.far)
        /\ enacted' = IF u.action # "enactment" THEN enacted
                      ELSE (enacted \ Retracted(best, b)) \cup Enacted(best, b)
    BY <1>2 DEF ChainEvent
  <2>2. CASE Number[b] > Number[best] + SkipThreshold
    BY <2>1, <2>2 DEF update, EnactInv, EnactTypeOK, EnactmentFollows
  <2>3. CASE /\ ~(Number[b] > Number[best] + SkipThreshold)
             /\ b = final \/ final \in Retracted(best, b)
    BY <2>1, <2>3 DEF update, EnactInv, EnactTypeOK, EnactmentFollows, Chain
  <2>4. CASE /\ ~(Number[b] > Number[best] + SkipThreshold)
             /\ ~(b = final \/ final \in Retracted(best, b))
             /\ finalized /\ Enacted(best, b) = {}
    <3>1. /\ u.action = "finalization" /\ u.best = best /\ u.final = b /\ u.far = FALSE
      BY <2>4 DEF update
    <3>2. b \in Chain(best)
      BY <2>4, OnOwnChain DEF Enacted
    <3> QED BY <2>1, <3>1, <3>2 DEF EnactInv, EnactTypeOK, EnactmentFollows, Chain
  <2>5. CASE /\ ~(Number[b] > Number[best] + SkipThreshold)
             /\ ~(b = final \/ final \in Retracted(best, b))
             /\ ~(finalized /\ Enacted(best, b) = {})
    <3>1. /\ u.action = "enactment" /\ u.best = b /\ u.far = FALSE
          /\ u.final = IF finalized THEN b ELSE final
      BY <2>5 DEF update
    <3>2. EnactTypeOK'
      BY <2>1, <3>1 DEF EnactInv, EnactTypeOK
    <3>3. ASSUME ~skipped' PROVE final' \in Chain(b) /\ enacted' = Chain(b)
      <4>1. final \in Chain(best) /\ enacted = Chain(best)
        BY <2>1, <3>1, <3>3 DEF EnactInv, EnactTypeOK, EnactmentFollows
      <4>2. enacted' = Chain(b)
        BY <2>1, <3>1, <4>1 DEF Retracted, Enacted
      <4>3. final' \in Chain(b)
        BY <2>1, <2>5, <3>1, <4>1, OnOwnChain DEF Retracted
      <4> QED BY <4>2, <4>3
    <3>4. best' = b
      BY <2>1, <3>1
    <3> QED BY <3>2, <3>3, <3>4 DEF EnactInv, EnactmentFollows, Chain
  <2> QED BY <2>2, <2>3, <2>4, <2>5
<1> QED BY <1>1, <1>2 DEF EnactNext

\* Whatever the order in which best and finalized blocks are announced, the
\* last finalized block stays on the chain of the last best one, and the blocks
\* enacted are that chain, until a jump is skipped (EnactmentState::update).
THEOREM FollowsFinalized == EnactSpec => []EnactmentFollows
<1>1. EnactInv => EnactmentFollows
  BY DEF EnactInv
<1> QED BY InitEnactInv, NextEnactInv, <1>1, PTL DEF EnactSpec

-----------------------------------------------------------------------------
(* One manifest: m is what edits have left of g.                           *)

Edited(g, m) ==
    /\ DOMAIN m = {"deps", "features"} /\ DOMAIN m.deps = Tables
    /\ \A t \in Tables : /\ DOMAIN m.deps[t] \subseteq DOMAIN g.deps[t]
                         /\ \A k \in DOMAIN m.deps[t] : m.deps[t][k] = g.deps[t][k]
    /\ DOMAIN m.features \subseteq DOMAIN g.features

EntriesResolve(g, m) ==
    \A f \in DOMAIN m.features : \A x \in m.features[f] :
        x.form = "of" => \/ \E t \in Tables : x.name \in DOMAIN m.deps[t]
                         \/ x.name \in DOMAIN g.features

\* Every table of n is a part of the table of m.
TablesShrink(m, n) == \A t \in Tables : DOMAIN n.deps[t] \subseteq DOMAIN m.deps[t]

\* n is m without entries on a feature; n is m without dev-dependencies.
LostFeature(m, n, feature) ==
    /\ n.deps = m.deps /\ DOMAIN n.features \subseteq DOMAIN m.features
    /\ DOMAIN m.features \ DOMAIN n.features \subseteq {feature}
    /\ \A f \in DOMAIN n.features : \A x \in m.features[f] \ n.features[f] :
           x.form = "of" /\ x.feature = feature

LostDev(m, n) ==
    /\ \A t \in {"dependencies", "build-dependencies"} : n.deps[t] = m.deps[t]
    /\ DOMAIN n.features = DOMAIN m.features
    /\ \A f \in DOMAIN n.features : \A x \in m.features[f] \ n.features[f] :
           /\ x.form # "dep" /\ x.name \in DOMAIN m.deps["dev-dependencies"]
           /\ \A t \in {"dependencies", "build-dependencies"} : x.name \notin DOMAIN m.deps[t]

\* Every entry of a feature names one of the "dependencies" or a feature.
AllResolve(m) ==
    \A f \in DOMAIN m.features : \A x \in m.features[f] :
        x.name \in DOMAIN m.deps["dependencies"] \cup DOMAIN m.features

\* An entry x of g that m lacks matches the names or the features that went.
Matches(g, m, names, features, x) ==
    \/ x.form = "of" /\ x.feature \in features
    \/ /\ x.form # "dep"
       /\ \/ x.name \in names
          \/ \E t \in Tables : x.name \in DOMAIN g.deps[t] /\ g.deps[t][x.name] \in names
          \/ /\ x.name \in DOMAIN g.deps["dev-dependencies"]
             /\ \A t \in {"dependencies", "build-dependencies"} : x.name \notin DOMAIN m.deps[t]

\* What n depends on, with the workspace's dependencies wt, m does with ws.
SamePackages(ws, m, wt, n) ==
    \A t \in Tables : \A k \in DOMAIN n.deps[t] :
        /\ k \in DOMAIN m.deps[t]
        /\ PackageOf(wt, n.deps[t], k) = PackageOf(ws, m.deps[t], k)

\* The names known to be removed only grow from table to table (remove_dependencies).
LEMMA KnownGrows ==
    ASSUME NEW m, NEW d, NEW t \in Tables
    PROVE  d \subseteq Known(m, d, t) /\ Known(m, d, t) \subseteq Known(m, d, "features")
BY Zenon DEF Known, Tables

\* What is known in the end is a removed name, or a manifest's own alias for one.
LEMMA KnownIsAlias ==
    ASSUME NEW p \in Crates, NEW g \in Manifests[p], NEW m, Edited(g, m),
           NEW d, NEW k \in Known(m, d, "features")
    PROVE  \/ k \in d
           \/ \E t \in Tables : /\ k \in DOMAIN m.deps[t]
                                /\ m.deps[t][k] # Workspace /\ m.deps[t][k] \in d
<1> DEFINE d2 == d \cup AliasesOf(m.deps["dependencies"], d)
           d3 == d2 \cup AliasesOf(m.deps["build-dependencies"], d2)
           d4 == d3 \cup AliasesOf(m.deps["dev-dependencies"], d3)
           Own(j) == \E t \in Tables : /\ j \in DOMAIN m.deps[t]
                                       /\ m.deps[t][j] # Workspace /\ m.deps[t][j] \in d
<1>1. k \in d4
  BY Zenon DEF Known
<1>2. ASSUME NEW t \in Tables, NEW j \in DOMAIN m.deps[t], m.deps[t][j] # Workspace
      PROVE  m.deps[t][j] \in Packages
  BY <1>2, ManifestsAssumption DEF Edited
<1>3. ASSUME NEW j, Own(j), j \notin d PROVE j \notin Packages
  BY <1>3, ManifestsAssumption DEF Edited
<1>4. \A j \in d2 : j \in d \/ Own(j)
  BY Zenon DEF AliasesOf, Tables
<1>5. \A j \in d3 : j \in d \/ Own(j)
  BY Zenon, <1>2, <1>3, <1>4 DEF AliasesOf, Tables
<1>6. \A j \in d4 : j \in d \/ Own(j)
  BY Zenon, <1>2, <1>3, <1>5 DEF AliasesOf, Tables
<1> QED BY Zenon, <1>1, <1>6

\* What remove_dependencies leaves of a manifest.
LEMMA RemoveDependenciesIs ==
    ASSUME NEW m, NEW d, NEW n, n = remove_dependencies(m, d)
    PROVE  /\ DOMAIN n = {"deps", "features"} /\ DOMAIN n.deps = Tables
           /\ \A t \in Tables : /\ DOMAIN n.deps[t] = DOMAIN m.deps[t] \ Known(m, d, t)
                                /\ \A k \in DOMAIN n.deps[t] : n.deps[t][k] = m.deps[t][k]
           /\ DOMAIN n.features = DOMAIN m.features
           /\ \A f \in DOMAIN m.features :
                 n.features[f] = {x \in m.features[f] : x.form = "dep" \/ x.name \notin Known(m, d, "features")}
BY Zenon DEF remove_dependencies, remove_dependencies_from_features, Drop

\* remove_dependencies edits a manifest, and takes from the features what it
\* takes from the tables.
LEMMA RemoveDependenciesEdits ==
    ASSUME NEW g, NEW m, NEW d, NEW n, n = remove_dependencies(m, d), Edited(g, m)
    PROVE  /\ Edited(g, n) /\ TablesShrink(m, n)
           /\ EntriesResolve(g, m) => EntriesResolve(g, n)
<1>1. /\ DOMAIN n = {"deps", "features"} /\ DOMAIN n.deps = Tables
      /\ \A t \in Tables : /\ DOMAIN n.deps[t] = DOMAIN m.deps[t] \ Known(m, d, t)
                           /\ \A k \in DOMAIN n.deps[t] : n.deps[t][k] = m.deps[t][k]
      /\ DOMAIN n.features = DOMAIN m.features
      /\ \A f \in DOMAIN m.features :
            n.features[f] = {x \in m.features[f] : x.form = "dep" \/ x.name \notin Known(m, d, "features")}
  BY RemoveDependenciesIs
<1>2. Edited(g, n) /\ TablesShrink(m, n)
  BY <1>1 DEF Edited, TablesShrink
<1>3. ASSUME EntriesResolve(g, m) PROVE EntriesResolve(g, n)
  <2> SUFFICES ASSUME NEW f \in DOMAIN n.features, NEW x \in n.features[f], x.form = "of"
               PROVE  \/ \E t \in Tables : x.name \in DOMAIN n.deps[t]
                      \/ x.name \in DOMAIN g.features
    BY Zenon DEF EntriesResolve
  <2>1. x \in m.features[f] /\ x.name \notin Known(m, d, "features")
    BY Zenon, <1>1
  <2>2. CASE x.name \in DOMAIN g.features
    BY Zenon, <2>2
  <2>3. ASSUME NEW t \in Tables, x.name \in DOMAIN m.deps[t]
        PROVE  x.name \in DOMAIN n.deps[t]
    BY <1>1, <2>1, <2>3, KnownGrows
  <2> QED BY Zenon, <1>1, <1>3, <2>1, <2>2, <2>3 DEF EntriesResolve
<1> QED BY Zenon, <1>2, <1>3

\* remove_feature edits a manifest.
LEMMA WithoutFeatureEdits ==
    ASSUME NEW g, NEW m, NEW feature, NEW n, n = WithoutFeature(m, feature), Edited(g, m)
    PROVE  /\ Edited(g, n) /\ LostFeature(m, n, feature)
           /\ EntriesResolve(g, m) => EntriesResolve(g, n)
<1>1. /\ DOMAIN n = {"deps", "features"} /\ n.deps = m.deps
      /\ DOMAIN n.features = DOMAIN m.features \ {feature}
      /\ \A f \in DOMAIN n.features :
            n.features[f] = {x \in m.features[f] : ~(x.form = "of" /\ x.feature = feature)}
  BY Zenon DEF WithoutFeature
<1>2. Edited(g, n)
  BY <1>1 DEF Edited
<1>3. EntriesResolve(g, m) => EntriesResolve(g, n)
  BY <1>1 DEF EntriesResolve
<1>4. \A f \in DOMAIN n.features : \A x \in m.features[f] \ n.features[f] :
          x.form = "of" /\ x.feature = feature
  BY Zenon, <1>1
<1> QED BY Zenon, <1>1, <1>2, <1>3, <1>4 DEF LostFeature

\* remove_dev_dependencies edits a manifest: an entry on a dependency that is
\* left in another table stays.
LEMMA WithoutDevEdits ==
    ASSUME NEW g, NEW m, NEW n, n = WithoutDev(m), Edited(g, m)
    PROVE  /\ Edited(g, n) /\ TablesShrink(m, n)
           /\ LostDev(m, n)
           /\ EntriesResolve(g, m) => EntriesResolve(g, n)
<1> DEFINE dev == DOMAIN m.deps["dev-dependencies"]
           remaining == DOMAIN m.deps["dependencies"] \cup DOMAIN m.deps["build-dependencies"]
<1>1. /\ DOMAIN n = {"deps", "features"} /\ DOMAIN n.deps = Tables
      /\ \A t \in Tables \ {"dev-dependencies"} : n.deps[t] = m.deps[t]
      /\ DOMAIN n.deps["dev-dependencies"] = {}
  BY Zenon DEF WithoutDev, Drop, Edited, Tables
<1>2. /\ DOMAIN n.features = DOMAIN m.features
      /\ \A f \in DOMAIN m.features :
            n.features[f] = {x \in m.features[f] : ~(x.form # "dep" /\ x.name \in dev \ remaining)}
  BY Zenon DEF WithoutDev, remove_dependencies_from_features
<1>3. Edited(g, n) /\ TablesShrink(m, n)
  BY <1>1, <1>2 DEF Edited, TablesShrink, Tables
<1>4. \A f \in DOMAIN n.features : \A x \in m.features[f] \ n.features[f] :
          /\ x.form # "dep" /\ x.name \in DOMAIN m.deps["dev-dependencies"]
          /\ \A t \in {"dependencies", "build-dependencies"} : x.name \notin DOMAIN m.deps[t]
  BY Zenon, <1>2
<1>5. ASSUME EntriesResolve(g, m) PROVE EntriesResolve(g, n)
  BY <1>1, <1>2, <1>5 DEF EntriesResolve, Tables
<1>6. \A t \in {"dependencies", "build-dependencies"} : n.deps[t] = m.deps[t]
  BY Zenon, <1>1 DEF Tables
<1> QED BY Zenon, <1>2, <1>3, <1>4, <1>5, <1>6 DEF LostDev

\* machete edits a manifest, and leaves entries on what is there.
LEMMA MachetedEdits ==
    ASSUME NEW g, NEW m, NEW unused, NEW n, n = Macheted(m, unused), Edited(g, m)
    PROVE  Edited(g, n) /\ TablesShrink(m, n) /\ EntriesResolve(g, n) /\ AllResolve(n)
<1> DEFINE deps == Drop(m.deps["dependencies"], unused)
<1>1. /\ DOMAIN n = {"deps", "features"} /\ DOMAIN n.deps = Tables
      /\ \A t \in Tables \ {"dependencies"} : n.deps[t] = m.deps[t]
      /\ n.deps["dependencies"] = deps
  BY Zenon DEF Macheted, Edited, Tables
<1>2. /\ DOMAIN n.features = DOMAIN m.features
      /\ \A f \in DOMAIN m.features :
            n.features[f] = {x \in m.features[f] : ~(x.name \notin DOMAIN deps \cup DOMAIN m.features)}
  BY Zenon DEF Macheted
<1>3. Edited(g, n) /\ TablesShrink(m, n)
  BY <1>1, <1>2 DEF Edited, TablesShrink, Tables, Drop
<1>4. EntriesResolve(g, n)
  BY <1>1, <1>2 DEF EntriesResolve, Edited, Tables
<1>5. AllResolve(n)
  <2>1. n.deps["dependencies"] = deps /\ DOMAIN n.features = DOMAIN m.features
    BY Zenon, <1>1, <1>2
  <2>2. \A f \in DOMAIN m.features : \A x \in n.features[f] : x.name \in DOMAIN deps \cup DOMAIN m.features
    BY Zenon, <1>2
  <2> HIDE DEF deps
  <2> QED BY Zenon, <2>1, <2>2 DEF AllResolve
<1> QED BY Zenon, <1>3, <1>4, <1>5

-----------------------------------------------------------------------------
(* The workspace w, with the manifests g of the checkout.                  *)

\* Removed, in workspace w.
Gone(w, package) ==
    /\ \E r \in Crates : Package[r] = package
    /\ ~ \E r \in w.tree : Package[r] = package

\* OnlyBelowRemoved for the workspace w.
BelowIn(w) ==
    /\ \A p \in Crates \ w.tree : \E f \in Folders \ w.folders : <<p, f>> \in Below
    /\ \A p \in w.tree \ w.members : \E f \in Folders \ w.folders : <<p, f>> \in Spelled

\* OnlyOwnAliasesLeft for crate p.
OwnIn(w, p) ==
    \A t \in Tables : \A k \in DOMAIN w.manifest[p].deps[t] :
        Gone(w, PackageOf(Aliased, w.manifest[p].deps[t], k)) => w.manifest[p].deps[t][k] \notin {k, Workspace}

Shape(g, w) ==
    /\ w.folders \subseteq Folders /\ w.tree \subseteq Crates /\ BelowIn(w)
    /\ w.members \subseteq w.tree /\ w.defaults \subseteq w.members
    /\ DOMAIN w.wsDeps \subseteq DOMAIN Aliased
    /\ \A k \in DOMAIN w.wsDeps : w.wsDeps[k] = Aliased[k]
    /\ \A p \in Crates : /\ g[p] \in Manifests[p]
                         /\ Edited(g[p], w.manifest[p]) /\ EntriesResolve(g[p], w.manifest[p])
    /\ \A p \in w.tree : OwnIn(w, p)

\* The dependencies of crate p on the workspace are in its root manifest.
ResolvedIn(w, p) ==
    \A t \in Tables : \A k \in DOMAIN w.manifest[p].deps[t] :
        w.manifest[p].deps[t][k] = Workspace => k \in DOMAIN w.wsDeps /\ ~Gone(w, w.wsDeps[k])

\* GoneNames for the workspace w, with the names a asked for.
LostNames(w, a) ==
    LET declared == UNION {Declares[p] : p \in Crates \ w.tree}
    IN  a \cup declared \cup {k \in DOMAIN Aliased : Aliased[k] \in declared}

\* OnlyRemovedDropped and OnlyMatchingEntriesDropped for crate p, with the names
\* a given to remove_dependency and b to remove_feature.
DroppedIn(g, w, a, p) ==
    \A t \in {"dependencies", "build-dependencies"} :
        \A k \in DOMAIN g[p].deps[t] \ DOMAIN w.manifest[p].deps[t] :
            \/ Gone(w, PackageOf(Aliased, g[p].deps[t], k))
            \/ {k, PackageOf(Aliased, g[p].deps[t], k)} \cap a # {}

KeptIn(g, w, a, b, p) ==
    /\ DOMAIN g[p].features \ DOMAIN w.manifest[p].features \subseteq b
    /\ \A f \in DOMAIN w.manifest[p].features : \A x \in g[p].features[f] \ w.manifest[p].features[f] :
           Matches(g[p], w.manifest[p], LostNames(w, a), b, x)

\* What holds of the workspace until machete.
Faithful(g, w, a, b) ==
    /\ \A k \in DOMAIN Aliased \ DOMAIN w.wsDeps : Gone(w, Aliased[k])
    /\ \A p \in w.tree : ResolvedIn(w, p) /\ DroppedIn(g, w, a, p) /\ KeptIn(g, w, a, b, p)

\* The workspaces differ in manifests only.
ManifestsOnly(w, v) ==
    /\ v.folders = w.folders /\ v.tree = w.tree
    /\ v.members = w.members /\ v.defaults = w.defaults /\ v.wsDeps = w.wsDeps

\* The commands, by what they do to each manifest.
Visited(w, v, p) ==
    \A q \in Crates : v.manifest[q] = IF q = p THEN WithoutDev(w.manifest[p]) ELSE w.manifest[q]

DependencyRemoved(w, v, d) ==
    \A p \in Crates : v.manifest[p] = IF p \in w.tree THEN remove_dependencies(w.manifest[p], {d})
                                      ELSE w.manifest[p]

FeatureRemoved(w, v, f) ==
    \A p \in Crates : v.manifest[p] = IF p \in w.tree THEN WithoutFeature(w.manifest[p], f)
                                      ELSE w.manifest[p]

MacheteRan(w, v, un) ==
    \A p \in Crates : v.manifest[p] = IF p \in w.tree \cap Substrate THEN Macheted(w.manifest[p], un[p])
                                      ELSE w.manifest[p]

\* Every name of d is one the workspace or a manifest declares, and its package
\* is gone from v, or it was asked for.
Covers(v, d, a) ==
    \A k \in d :
        \/ k \in a
        \/ /\ k \in DOMAIN Aliased \cup UNION {Declares[q] : q \in Crates}
           /\ k \in Packages => Gone(v, k)
           /\ k \in DOMAIN Aliased => Gone(v, Aliased[k])

\* What is removed stays removed.
LEMMA GoneStays ==
    ASSUME NEW w, NEW v, v.tree \subseteq w.tree
    PROVE  \A package : Gone(w, package) => Gone(v, package)
BY Zenon DEF Gone

\* What is removed is a matter of the tree alone.
LEMMA GoneSame ==
    ASSUME NEW w, NEW v, v.tree = w.tree
    PROVE  \A package : Gone(w, package) <=> Gone(v, package)
BY Zenon DEF Gone

\* Fewer dependencies are resolved as before.
LEMMA ResolvedShrinks ==
    ASSUME NEW w, NEW v, v.tree = w.tree, v.wsDeps = w.wsDeps, NEW p, ResolvedIn(w, p),
           \A t \in Tables : \A k \in DOMAIN v.manifest[p].deps[t] :
               /\ k \in DOMAIN w.manifest[p].deps[t]
               /\ v.manifest[p].deps[t][k] = w.manifest[p].deps[t][k]
    PROVE  ResolvedIn(v, p)
BY Zenon, GoneSame DEF ResolvedIn

\* The same tables lack what they lacked.
LEMMA DroppedSame ==
    ASSUME NEW g, NEW w, NEW v, v.tree = w.tree, NEW p, NEW a, DroppedIn(g, w, a, p),
           \A t \in {"dependencies", "build-dependencies"} : v.manifest[p].deps[t] = w.manifest[p].deps[t]
    PROVE  DroppedIn(g, v, a, p)
BY Zenon, GoneSame DEF DroppedIn

\* Fewer dependencies are on no more of what was removed.
LEMMA OwnShrinks ==
    ASSUME NEW w, NEW v, v.tree = w.tree, NEW g, NEW p, OwnIn(w, p),
           Edited(g, w.manifest[p]), Edited(g, v.manifest[p]),
           TablesShrink(w.manifest[p], v.manifest[p])
    PROVE  OwnIn(v, p)
<1> SUFFICES ASSUME NEW t \in Tables, NEW k \in DOMAIN v.manifest[p].deps[t],
                    Gone(v, PackageOf(Aliased, v.manifest[p].deps[t], k))
             PROVE  v.manifest[p].deps[t][k] \notin {k, Workspace}
  BY Zenon DEF OwnIn
<1>1. k \in DOMAIN w.manifest[p].deps[t] /\ v.manifest[p].deps[t][k] = w.manifest[p].deps[t][k]
  BY Zenon DEF Edited, TablesShrink
<1>2. PackageOf(Aliased, v.manifest[p].deps[t], k) = PackageOf(Aliased, w.manifest[p].deps[t], k)
  BY Zenon, <1>1 DEF PackageOf
<1>3. Gone(w, PackageOf(Aliased, w.manifest[p].deps[t], k))
  BY Zenon, <1>2, GoneSame
<1> QED BY Zenon, <1>1, <1>3 DEF OwnIn

\* A workspace whose manifests lost dependencies keeps its shape.
LEMMA ManifestsShape ==
    ASSUME NEW g, NEW w, Shape(g, w), NEW v, ManifestsOnly(w, v),
           \A q \in Crates : /\ Edited(g[q], v.manifest[q]) /\ EntriesResolve(g[q], v.manifest[q])
                             /\ TablesShrink(w.manifest[q], v.manifest[q])
    PROVE  Shape(g, v)
<1>1. /\ v.folders = w.folders /\ v.tree = w.tree
      /\ v.members = w.members /\ v.defaults = w.defaults /\ v.wsDeps = w.wsDeps
  BY Zenon DEF ManifestsOnly
<1>2. /\ w.tree \subseteq Crates /\ BelowIn(w)
      /\ \A q \in Crates : Edited(g[q], w.manifest[q])
      /\ \A q \in w.tree : OwnIn(w, q)
  BY Zenon DEF Shape
<1>3. \A q \in v.tree : OwnIn(v, q)
  <2> SUFFICES ASSUME NEW q \in v.tree PROVE OwnIn(v, q)
    BY Zenon
  <2>1. q \in Crates /\ OwnIn(w, q)
    BY Zenon, <1>1, <1>2
  <2> QED BY Zenon, <1>1, <1>2, <2>1, OwnShrinks
<1>4. BelowIn(v)
  BY Zenon, <1>1, <1>2 DEF BelowIn
<1>5. /\ v.folders \subseteq Folders /\ v.tree \subseteq Crates
      /\ v.members \subseteq v.tree /\ v.defaults \subseteq v.members
      /\ DOMAIN v.wsDeps \subseteq DOMAIN Aliased
      /\ \A k \in DOMAIN v.wsDeps : v.wsDeps[k] = Aliased[k]
      /\ \A p \in Crates : g[p] \in Manifests[p]
  <2>1. /\ w.folders \subseteq Folders
        /\ w.members \subseteq w.tree /\ w.defaults \subseteq w.members
        /\ DOMAIN w.wsDeps \subseteq DOMAIN Aliased
        /\ \A k \in DOMAIN w.wsDeps : w.wsDeps[k] = Aliased[k]
        /\ \A p \in Crates : g[p] \in Manifests[p]
    BY Zenon DEF Shape
  <2> QED BY <1>1, <1>2, <2>1
<1> QED BY Zenon, <1>3, <1>4, <1>5 DEF Shape

\* The names that went only become more.
LEMMA LostGrow ==
    ASSUME NEW w, NEW v, v.tree \subseteq w.tree, NEW a, NEW c, a \subseteq c
    PROVE  LostNames(w, a) \subseteq LostNames(v, c)
<1>1. \A p \in Crates \ w.tree : p \in Crates \ v.tree
  BY Zenon
<1> QED BY Zenon, <1>1 DEF LostNames

\* An entry that matched what went still does.
LEMMA MatchesGrow ==
    ASSUME NEW g, NEW m, NEW n, TablesShrink(m, n), NEW names, NEW more, names \subseteq more,
           NEW b, NEW e, b \subseteq e, NEW x, Matches(g, m, names, b, x)
    PROVE  Matches(g, n, more, e, x)
BY Zenon DEF Matches, TablesShrink, Tables

\* Features that lose only what matches keep the rest.
LEMMA KeptShrinks ==
    ASSUME NEW g, NEW w, NEW v, v.tree \subseteq w.tree, NEW p, NEW a, NEW c, a \subseteq c,
           NEW b, NEW e, b \subseteq e, KeptIn(g, w, a, b, p),
           TablesShrink(w.manifest[p], v.manifest[p]),
           DOMAIN v.manifest[p].features \subseteq DOMAIN w.manifest[p].features,
           DOMAIN w.manifest[p].features \ DOMAIN v.manifest[p].features \subseteq e,
           \A f \in DOMAIN v.manifest[p].features :
               \A x \in w.manifest[p].features[f] \ v.manifest[p].features[f] :
                   Matches(g[p], v.manifest[p], LostNames(v, c), e, x)
    PROVE  KeptIn(g, v, c, e, p)
<1>1. LostNames(w, a) \subseteq LostNames(v, c)
  BY Zenon, LostGrow
<1>2. ASSUME NEW f \in DOMAIN v.manifest[p].features, NEW x \in g[p].features[f] \ v.manifest[p].features[f]
      PROVE  Matches(g[p], v.manifest[p], LostNames(v, c), e, x)
  <2>1. CASE x \in w.manifest[p].features[f]
    BY Zenon, <2>1
  <2>2. CASE x \notin w.manifest[p].features[f]
    <3>1. Matches(g[p], w.manifest[p], LostNames(w, a), b, x)
      BY Zenon, <2>2 DEF KeptIn
    <3> QED BY Zenon, <1>1, <3>1, MatchesGrow
  <2> QED BY Zenon, <2>1, <2>2
<1>3. DOMAIN g[p].features \ DOMAIN v.manifest[p].features \subseteq e
  BY Zenon DEF KeptIn
<1> QED BY Zenon, <1>2, <1>3 DEF KeptIn

\* Nothing declares the package of a crate besides the crate.
LEMMA PackageGone ==
    ASSUME NEW v, NEW r \in Crates, r \notin v.tree, v.tree \subseteq Crates
    PROVE  Gone(v, Package[r])
<1>1. \A q \in v.tree : Package[q] # Package[r]
  BY NamesAssumption
<1> QED BY Zenon, <1>1 DEF Gone

\* The names remove_folder_of_crates removes stand for packages it removes.
LEMMA RemovedNamesCover ==
    ASSUME NEW g, NEW w, Shape(g, w), NEW F, NEW a,
           NEW v, v.tree = w.tree \ Held(w, F)
    PROVE  Covers(v, RemovedNames(w, F), a)
<1> SUFFICES ASSUME NEW k \in RemovedNames(w, F)
             PROVE  /\ k \in DOMAIN Aliased \cup UNION {Declares[q] : q \in Crates}
                    /\ k \in Packages => Gone(v, k)
                    /\ k \in DOMAIN Aliased => Gone(v, Aliased[k])
  BY Zenon DEF Covers
<1>1. Held(w, F) \subseteq Crates /\ v.tree \subseteq Crates
  BY Zenon DEF Held, discover_all_crates_in_folder, Shape
<1>2. ASSUME NEW r \in Held(w, F), NEW n \in Declares[r] \cap Packages PROVE Gone(v, n)
  <2>1. n = Package[r]
    BY <1>1, NamesAssumption
  <2> QED BY Zenon, <1>1, <2>1, PackageGone
<1>3. CASE \E r \in Held(w, F) : k \in Declares[r]
  <2>1. PICK r \in Held(w, F) : k \in Declares[r]
    BY Zenon, <1>3
  <2>2. k \in DOMAIN Aliased => k \in Packages /\ Aliased[k] = k
    BY <1>1, <2>1, NamesAssumption
  <2> QED BY Zenon, <1>1, <1>2, <2>1, <2>2
<1>4. CASE \E r \in Held(w, F) : k \in DOMAIN w.wsDeps /\ w.wsDeps[k] \in Declares[r]
  <2>1. PICK r \in Held(w, F) : k \in DOMAIN w.wsDeps /\ w.wsDeps[k] \in Declares[r]
    BY Zenon, <1>4
  <2>2. k \in DOMAIN Aliased /\ Aliased[k] \in Declares[r] \cap Packages
    BY Zenon, <2>1, NamesAssumption DEF Shape
  <2>3. k \in Packages => Aliased[k] = k
    BY Zenon, <2>2, NamesAssumption
  <2> QED BY Zenon, <1>2, <2>2, <2>3
<1> QED BY Zenon, <1>3, <1>4 DEF RemovedNames

\* A dependency whose key goes with the names d was on a package that is gone,
\* or that was asked for.
LEMMA KnownIsGone ==
    ASSUME NEW p \in Crates, NEW g \in Manifests[p], NEW m, Edited(g, m),
           NEW v, NEW d, NEW a, Covers(v, d, a),
           NEW t \in Tables, NEW k \in DOMAIN g.deps[t], k \in Known(m, d, "features")
    PROVE  LET package == PackageOf(Aliased, g.deps[t], k)
           IN  Gone(v, package) \/ {k, package} \cap a # {}
<1> DEFINE package == PackageOf(Aliased, g.deps[t], k)
<1>1. CASE k \in d
  <2>1. CASE g.deps[t][k] = Workspace
    <3>1. k \in DOMAIN Aliased /\ package = Aliased[k]
      BY Zenon, <2>1, ManifestsAssumption DEF PackageOf
    <3> QED BY Zenon, <1>1, <3>1 DEF Covers
  <2>2. CASE g.deps[t][k] = k /\ k # Workspace
    <3>1. k \in Packages /\ package = k
      BY <2>2, ManifestsAssumption DEF PackageOf
    <3> QED BY Zenon, <1>1, <3>1 DEF Covers
  <2>3. CASE g.deps[t][k] \notin {k, Workspace}
    <3>1. k \notin Packages \cup DOMAIN Aliased \cup UNION {Declares[q] : q \in Crates}
      BY Zenon, <2>3, ManifestsAssumption
    <3> QED BY Zenon, <1>1, <3>1 DEF Covers
  <2> QED BY Zenon, <1>1, <2>1, <2>2, <2>3
<1>2. CASE k \notin d
  <2>1. PICK u \in Tables : /\ k \in DOMAIN m.deps[u]
                            /\ m.deps[u][k] # Workspace /\ m.deps[u][k] \in d
    BY Zenon, <1>2, KnownIsAlias
  <2>2. k \in DOMAIN g.deps[u] /\ g.deps[u][k] = m.deps[u][k]
    BY Zenon, <2>1 DEF Edited
  <2>3. package = m.deps[u][k]
    <3>1. package = PackageOf(Aliased, g.deps[u], k)
      BY Zenon, <2>2, ManifestsAssumption
    <3> QED BY Zenon, <2>1, <2>2, <3>1 DEF PackageOf
  <2>4. package \in d /\ package \in Packages
    BY <2>1, <2>2, <2>3, ManifestsAssumption
  <2> QED BY Zenon, <2>4 DEF Covers
<1> QED BY Zenon, <1>1, <1>2

\* remove_dependencies takes nothing else along in a manifest.
LEMMA RemoveDependenciesFaithful ==
    ASSUME NEW g, NEW w, Shape(g, w), NEW p \in Crates, NEW d, NEW a, NEW c, a \subseteq c, NEW b,
           NEW v, v.tree \subseteq w.tree, Covers(v, d, c), d \subseteq LostNames(v, c),
           v.manifest[p] = remove_dependencies(w.manifest[p], d),
           DroppedIn(g, w, a, p), KeptIn(g, w, a, b, p)
    PROVE  DroppedIn(g, v, c, p) /\ KeptIn(g, v, c, b, p)
<1> DEFINE m == w.manifest[p]
           n == v.manifest[p]
<1>1. g[p] \in Manifests[p] /\ Edited(g[p], m) /\ Edited(g[p], n) /\ TablesShrink(m, n)
  BY Zenon, RemoveDependenciesEdits DEF Shape
<1>2. /\ \A t \in Tables : /\ DOMAIN n.deps[t] = DOMAIN m.deps[t] \ Known(m, d, t)
                          /\ \A k \in DOMAIN n.deps[t] : n.deps[t][k] = m.deps[t][k]
      /\ DOMAIN n.features = DOMAIN m.features
      /\ \A f \in DOMAIN m.features :
            n.features[f] = {x \in m.features[f] : x.form = "dep" \/ x.name \notin Known(m, d, "features")}
  BY RemoveDependenciesIs
<1>0. \A package : Gone(w, package) => Gone(v, package)
  BY Zenon, GoneStays
<1>3. DroppedIn(g, v, c, p)
  <2> SUFFICES ASSUME NEW t \in {"dependencies", "build-dependencies"},
                      NEW k \in DOMAIN g[p].deps[t] \ DOMAIN n.deps[t]
               PROVE  \/ Gone(v, PackageOf(Aliased, g[p].deps[t], k))
                      \/ {k, PackageOf(Aliased, g[p].deps[t], k)} \cap c # {}
    BY Zenon DEF DroppedIn
  <2>1. t \in Tables
    BY Zenon DEF Tables
  <2>2. CASE k \notin DOMAIN m.deps[t]
    BY Zenon, <1>0, <2>2 DEF DroppedIn
  <2>3. CASE k \in DOMAIN m.deps[t]
    <3>1. k \in Known(m, d, "features")
      BY Zenon, <1>2, <2>1, <2>3, KnownGrows
    <3> QED BY <1>1, <2>1, <3>1, KnownIsGone
  <2> QED BY Zenon, <2>2, <2>3
<1>4. ASSUME NEW f \in DOMAIN n.features, NEW x \in m.features[f] \ n.features[f]
      PROVE  Matches(g[p], n, LostNames(v, c), b, x)
  <2>1. x.form # "dep" /\ x.name \in Known(m, d, "features")
    BY Zenon, <1>2
  <2>2. CASE x.name \in d
    BY Zenon, <2>1, <2>2 DEF Matches
  <2>3. CASE \E t \in Tables : /\ x.name \in DOMAIN m.deps[t]
                             /\ m.deps[t][x.name] # Workspace /\ m.deps[t][x.name] \in d
    <3>1. \E t \in Tables : x.name \in DOMAIN g[p].deps[t] /\ g[p].deps[t][x.name] \in LostNames(v, c)
      BY <1>1, <2>3 DEF Edited
    <3> QED BY Zenon, <2>1, <3>1 DEF Matches
  <2> QED BY Zenon, <1>1, <2>1, <2>2, <2>3, KnownIsAlias
<1>5. KeptIn(g, v, c, b, p)
  <2>1. /\ DOMAIN n.features \subseteq DOMAIN m.features
        /\ DOMAIN m.features \ DOMAIN n.features \subseteq b
    BY Zenon, <1>2
  <2> QED BY Zenon, <1>1, <1>4, <2>1, KeptShrinks
<1> QED BY Zenon, <1>3, <1>5

\* A removed tree takes its members and its names out of every manifest, and
\* nothing else (remove_folder_of_crates).
LEMMA RemoveFolderFaithful ==
    ASSUME NEW g, NEW w, Shape(g, w), NEW F \in SUBSET Folders, NEW a, NEW b, Faithful(g, w, a, b)
    PROVE  LET v == remove_folder_of_crates(w, F)
           IN  v.tree \subseteq w.tree /\ Shape(g, v) /\ Faithful(g, v, a, b)
<1> DEFINE v == remove_folder_of_crates(w, F)
           d == RemovedNames(w, F)
<1>1. /\ v.folders = {f \in w.folders : \A e \in F : <<f, e>> \notin Within}
      /\ v.tree = w.tree \ Held(w, F)
      /\ v.members = w.members \ Matched(w, F) /\ v.defaults = w.defaults \ Matched(w, F)
      /\ DOMAIN v.wsDeps = DOMAIN w.wsDeps \ d
      /\ \A k \in DOMAIN v.wsDeps : v.wsDeps[k] = w.wsDeps[k]
      /\ \A p \in Crates : v.manifest[p] = IF p \in v.tree THEN remove_dependencies(w.manifest[p], d)
                                           ELSE w.manifest[p]
  BY Zenon DEF remove_folder_of_crates, Drop
<1> HIDE DEF v, d
<1>2. v.members \subseteq v.tree
  <2> SUFFICES ASSUME NEW p \in v.members, p \in Held(w, F) PROVE FALSE
    BY Zenon, <1>1 DEF Shape
  <2>1. PICK f \in F \cap w.folders : p \in w.tree /\ <<p, f>> \in Below
    BY Zenon DEF Held, discover_all_crates_in_folder
  <2>2. <<p, f>> \in Spelled /\ p \in Crates
    BY Zenon, <2>1, NamesAssumption DEF Shape
  <2> QED BY Zenon, <1>1, <2>2 DEF Matched
<1>3. \A p \in Crates : Edited(g[p], v.manifest[p]) /\ EntriesResolve(g[p], v.manifest[p])
  <2> SUFFICES ASSUME NEW p \in Crates PROVE Edited(g[p], v.manifest[p]) /\ EntriesResolve(g[p], v.manifest[p])
    BY Zenon
  <2>1. Edited(g[p], w.manifest[p]) /\ EntriesResolve(g[p], w.manifest[p])
    BY Zenon DEF Shape
  <2>2. CASE p \in v.tree
    <3>1. v.manifest[p] = remove_dependencies(w.manifest[p], d)
      BY Zenon, <1>1, <2>2
    <3> QED BY Zenon, <2>1, <3>1, RemoveDependenciesEdits
  <2>3. CASE p \notin v.tree
    BY Zenon, <1>1, <2>1, <2>3
  <2> QED BY Zenon, <2>2, <2>3
<1>4. v.tree \subseteq w.tree /\ v.tree \subseteq Crates
  BY Zenon, <1>1 DEF Shape
<1>5. BelowIn(v)
  <2>1. ASSUME NEW f \in F PROVE f \in Folders \ v.folders
    BY Zenon, <1>1, NamesAssumption
  <2>2. Folders \ w.folders \subseteq Folders \ v.folders
    BY Zenon, <1>1
  <2>3. ASSUME NEW p \in Crates \ v.tree PROVE \E f \in Folders \ v.folders : <<p, f>> \in Below
    <3>1. CASE p \in Held(w, F)
      BY Zenon, <2>1, <3>1 DEF Held, discover_all_crates_in_folder
    <3>2. CASE p \notin w.tree
      BY Zenon, <2>2, <3>2 DEF Shape, BelowIn
    <3> QED BY Zenon, <1>1, <3>1, <3>2
  <2>4. ASSUME NEW p \in v.tree \ v.members PROVE \E f \in Folders \ v.folders : <<p, f>> \in Spelled
    <3>1. CASE p \in Matched(w, F)
      BY Zenon, <2>1, <3>1 DEF Matched
    <3>2. CASE p \notin w.members
      BY Zenon, <1>4, <2>2, <3>2 DEF Shape, BelowIn
    <3> QED BY Zenon, <1>1, <3>1, <3>2
  <2> QED BY Zenon, <2>3, <2>4 DEF BelowIn
<1>6. Covers(v, d, a) /\ Covers(v, d, {})
  BY Zenon, <1>1, RemovedNamesCover DEF d
<1>7. d \subseteq LostNames(v, a)
  <2>1. Held(w, F) \subseteq Crates \ v.tree
    <3>1. Held(w, F) \subseteq w.tree
      BY Zenon DEF Held, discover_all_crates_in_folder
    <3> QED BY Zenon, <1>1, <3>1 DEF Shape
  <2>2. \A k \in DOMAIN w.wsDeps : k \in DOMAIN Aliased /\ w.wsDeps[k] = Aliased[k]
    BY Zenon DEF Shape
  <2>3. UNION {Declares[q] : q \in Held(w, F)} \subseteq UNION {Declares[q] : q \in Crates \ v.tree}
    BY Zenon, <2>1
  <2> QED BY <2>2, <2>3 DEF LostNames, RemovedNames, d
<1>8. ASSUME NEW p \in v.tree PROVE DroppedIn(g, v, a, p) /\ KeptIn(g, v, a, b, p)
  <2>1. p \in Crates /\ p \in w.tree /\ v.manifest[p] = remove_dependencies(w.manifest[p], d)
    BY Zenon, <1>1, <1>4
  <2>2. DroppedIn(g, w, a, p) /\ KeptIn(g, w, a, b, p)
    BY Zenon, <2>1 DEF Faithful
  <2> QED BY Zenon, <1>4, <1>6, <1>7, <2>1, <2>2, RemoveDependenciesFaithful
<1>9. ASSUME NEW p \in v.tree, NEW t \in Tables, NEW k \in DOMAIN v.manifest[p].deps[t]
      PROVE  /\ k \in DOMAIN w.manifest[p].deps[t] /\ k \notin d
             /\ v.manifest[p].deps[t][k] = w.manifest[p].deps[t][k]
  <2>1. v.manifest[p] = remove_dependencies(w.manifest[p], d)
    BY Zenon, <1>1, <1>4
  <2> QED BY <2>1, RemoveDependenciesIs, KnownGrows
<1>10. ASSUME NEW n, n \notin d, Gone(v, n) PROVE Gone(w, n)
  <2>1. ASSUME NEW r \in Held(w, F) PROVE Package[r] # n
    <3>1. r \in Crates
      BY Zenon DEF Held, discover_all_crates_in_folder, Shape
    <3>2. Package[r] \in Declares[r]
      BY <3>1, NamesAssumption
    <3> QED BY Zenon, <1>10, <3>2 DEF RemovedNames, d
  <2> QED BY Zenon, <1>1, <1>10, <2>1 DEF Gone
<1>11. ASSUME NEW p \in v.tree PROVE ResolvedIn(v, p)
  <2> SUFFICES ASSUME NEW t \in Tables, NEW k \in DOMAIN v.manifest[p].deps[t],
                      v.manifest[p].deps[t][k] = Workspace
               PROVE  k \in DOMAIN v.wsDeps /\ ~Gone(v, v.wsDeps[k])
    BY Zenon DEF ResolvedIn
  <2>1. k \notin d /\ k \in DOMAIN w.wsDeps /\ ~Gone(w, w.wsDeps[k])
    <3>1. k \notin d /\ k \in DOMAIN w.manifest[p].deps[t] /\ w.manifest[p].deps[t][k] = Workspace
      BY Zenon, <1>9
    <3>2. ResolvedIn(w, p)
      BY Zenon, <1>4 DEF Faithful
    <3> QED BY Zenon, <3>1, <3>2 DEF ResolvedIn
  <2>2. ASSUME w.wsDeps[k] \in d PROVE ~Gone(v, w.wsDeps[k])
    <3>1. w.wsDeps[k] \notin UNION {Declares[q] : q \in Held(w, F)}
      BY Zenon, <2>1 DEF RemovedNames, d
    <3>2. ASSUME NEW r \in w.tree, Package[r] = w.wsDeps[k] PROVE r \in v.tree
      <4>1. Package[r] \in Declares[r]
        BY NamesAssumption DEF Shape
      <4> QED BY Zenon, <1>1, <3>1, <3>2, <4>1
    <3> QED BY Zenon, <2>1, <3>2 DEF Gone
  <2> QED BY Zenon, <1>1, <1>10, <2>1, <2>2
<1>12. ASSUME NEW p \in v.tree PROVE OwnIn(v, p)
  <2> SUFFICES ASSUME NEW t \in Tables, NEW k \in DOMAIN v.manifest[p].deps[t],
                      Gone(v, PackageOf(Aliased, v.manifest[p].deps[t], k))
               PROVE  v.manifest[p].deps[t][k] \notin {k, Workspace}
    BY Zenon DEF OwnIn
  <2>1. CASE v.manifest[p].deps[t][k] = Workspace
    <3>1. k \in DOMAIN v.wsDeps /\ ~Gone(v, v.wsDeps[k])
      BY Zenon, <1>11, <2>1 DEF ResolvedIn
    <3>2. k \in DOMAIN Aliased /\ v.wsDeps[k] = Aliased[k]
      <4>1. k \in DOMAIN w.wsDeps /\ v.wsDeps[k] = w.wsDeps[k]
        BY Zenon, <1>1, <3>1
      <4> QED BY Zenon, <4>1 DEF Shape
    <3> QED BY Zenon, <2>1, <3>1, <3>2 DEF PackageOf
  <2>2. CASE v.manifest[p].deps[t][k] = k /\ k # Workspace
    <3>1. /\ k \in DOMAIN w.manifest[p].deps[t] /\ k \notin d
          /\ w.manifest[p].deps[t][k] = k
      BY Zenon, <1>9, <2>2
    <3>2. Gone(v, k)
      BY Zenon, <2>2 DEF PackageOf
    <3>3. Gone(w, k)
      BY Zenon, <1>10, <3>1, <3>2
    <3>4. Gone(w, PackageOf(Aliased, w.manifest[p].deps[t], k))
      BY Zenon, <2>2, <3>1, <3>3 DEF PackageOf
    <3>5. OwnIn(w, p)
      BY Zenon, <1>4 DEF Shape
    <3> QED BY Zenon, <3>1, <3>4, <3>5 DEF OwnIn
  <2> QED BY Zenon, <2>1, <2>2
<1>13. Shape(g, v)
  BY Zenon, <1>1, <1>2, <1>3, <1>4, <1>5, <1>12 DEF Shape
<1>14. ASSUME NEW k \in DOMAIN Aliased \ DOMAIN v.wsDeps PROVE Gone(v, Aliased[k])
  <2>1. CASE k \in d
    BY Zenon, <1>6, <2>1 DEF Covers
  <2>2. CASE k \notin DOMAIN w.wsDeps
    BY Zenon, <1>4, <2>2, GoneStays DEF Faithful
  <2> QED BY Zenon, <1>1, <2>1, <2>2
<1>15. Faithful(g, v, a, b)
  BY Zenon, <1>8, <1>11, <1>14 DEF Faithful
<1> QED BY Zenon, <1>4, <1>13, <1>15 DEF v

\* What a table depends on is locked.
LEMMA InLocked ==
    ASSUME NEW ws, NEW m, NEW t \in Tables, NEW k \in DOMAIN m.deps[t]
    PROVE  PackageOf(ws, m.deps[t], k) \in Locked(ws, m)
BY DEF Locked

\* Tables with fewer dependencies, on the same packages, lock fewer packages.
LEMMA LockedShrinks ==
    ASSUME NEW ws, NEW m, NEW wt, NEW n,
           SamePackages(ws, m, wt, n)
    PROVE  Locked(wt, n) \subseteq Locked(ws, m)
BY DEF Locked, SamePackages

\* A crate whose tables shrank depends on fewer packages, and what is left of
\* its dependencies on the workspace is still there.
LEMMA TablesShrinkResolved ==
    ASSUME NEW w, NEW v, v.tree = w.tree, v.wsDeps = w.wsDeps, NEW g, NEW p,
           Edited(g, w.manifest[p]), Edited(g, v.manifest[p]),
           TablesShrink(w.manifest[p], v.manifest[p])
    PROVE  /\ ResolvedIn(w, p) => ResolvedIn(v, p)
           /\ Locked(v.wsDeps, v.manifest[p]) \subseteq Locked(w.wsDeps, w.manifest[p])
<1>1. \A t \in Tables : \A k \in DOMAIN v.manifest[p].deps[t] :
          /\ k \in DOMAIN w.manifest[p].deps[t]
          /\ v.manifest[p].deps[t][k] = w.manifest[p].deps[t][k]
  BY Zenon DEF Edited, TablesShrink
<1>2. ResolvedIn(w, p) => ResolvedIn(v, p)
  BY <1>1, ResolvedShrinks
<1>3. SamePackages(w.wsDeps, w.manifest[p], v.wsDeps, v.manifest[p])
  BY Zenon, <1>1 DEF PackageOf, SamePackages
<1>4. Locked(v.wsDeps, v.manifest[p]) \subseteq Locked(w.wsDeps, w.manifest[p])
  BY <1>3, LockedShrinks
<1> QED BY Zenon, <1>2, <1>4

\* The rest of a visit of remove_dev_dependencies: the crate's own manifest.
LEMMA VisitFaithful ==
    ASSUME NEW g, NEW w, Shape(g, w), NEW p \in Crates, NEW a, NEW b, NEW v,
           ManifestsOnly(w, v), Visited(w, v, p)
    PROVE  /\ Shape(g, v)
           /\ Faithful(g, w, a, b) => Faithful(g, v, a, b)
<1>1. ASSUME NEW q \in Crates
      PROVE  /\ Edited(g[q], v.manifest[q]) /\ EntriesResolve(g[q], v.manifest[q])
             /\ TablesShrink(w.manifest[q], v.manifest[q]) /\ Edited(g[q], w.manifest[q])
             /\ \/ LostDev(w.manifest[q], v.manifest[q])
                \/ v.manifest[q] = w.manifest[q]
  <2>1. Edited(g[q], w.manifest[q]) /\ EntriesResolve(g[q], w.manifest[q])
    BY Zenon DEF Shape
  <2>2. CASE q = p
    <3>1. v.manifest[q] = WithoutDev(w.manifest[q])
      BY Zenon, <2>2 DEF Visited
    <3> QED BY Zenon, <2>1, <3>1, WithoutDevEdits
  <2>3. CASE q # p
    <3>1. v.manifest[q] = w.manifest[q]
      BY Zenon, <2>3 DEF Visited
    <3> QED BY Zenon, <2>1, <3>1 DEF TablesShrink
  <2> QED BY Zenon, <2>2, <2>3
<1>2. Shape(g, v)
  BY Zenon, <1>1, ManifestsShape
<1>3. ASSUME Faithful(g, w, a, b), NEW q \in v.tree
      PROVE  ResolvedIn(v, q) /\ DroppedIn(g, v, a, q) /\ KeptIn(g, v, a, b, q)
  <2>1. q \in Crates /\ ResolvedIn(w, q) /\ DroppedIn(g, w, a, q) /\ KeptIn(g, w, a, b, q)
    BY Zenon, <1>3 DEF Faithful, Shape, ManifestsOnly
  <2>2. v.tree = w.tree /\ v.wsDeps = w.wsDeps
    BY Zenon DEF ManifestsOnly
  <2>3. ResolvedIn(v, q)
    BY Zenon, <1>1, <2>1, <2>2, TablesShrinkResolved
  <2>4. DroppedIn(g, v, a, q)
    BY Zenon, <1>1, <2>1, <2>2, DroppedSame DEF LostDev
  <2>5. KeptIn(g, v, a, b, q)
    <3>1. ASSUME NEW f \in DOMAIN v.manifest[q].features,
                 NEW x \in w.manifest[q].features[f] \ v.manifest[q].features[f]
          PROVE  Matches(g[q], v.manifest[q], LostNames(v, a), b, x)
      <4>1. LostDev(w.manifest[q], v.manifest[q])
        BY Zenon, <1>1, <2>1, <3>1
      <4>2. /\ x.form # "dep" /\ x.name \in DOMAIN w.manifest[q].deps["dev-dependencies"]
            /\ \A t \in {"dependencies", "build-dependencies"} : x.name \notin DOMAIN v.manifest[q].deps[t]
        BY Zenon, <4>1 DEF LostDev
      <4>3. x.name \in DOMAIN g[q].deps["dev-dependencies"]
        BY Zenon, <1>1, <2>1, <4>2 DEF Edited, Tables
      <4> QED BY Zenon, <4>2, <4>3 DEF Matches
    <3>2. DOMAIN v.manifest[q].features = DOMAIN w.manifest[q].features
      BY Zenon, <1>1, <2>1 DEF LostDev
    <3>3. TablesShrink(w.manifest[q], v.manifest[q]) /\ v.tree \subseteq w.tree
      BY Zenon, <1>1, <2>1, <2>2
    <3> QED BY Zenon, <2>1, <3>1, <3>2, <3>3, KeptShrinks
  <2> QED BY Zenon, <2>3, <2>4, <2>5
<1>4. ASSUME Faithful(g, w, a, b) PROVE \A k \in DOMAIN Aliased \ DOMAIN v.wsDeps : Gone(v, Aliased[k])
  BY Zenon, <1>4, GoneSame DEF Faithful, ManifestsOnly
<1> QED BY Zenon, <1>2, <1>3, <1>4 DEF Faithful

-----------------------------------------------------------------------------
(* What cargo builds, and what it writes to Cargo.lock.                    *)

\* Every dependency of a crate that is built is in its entry of the lock file lk.
LockHolds(w, lk) == \A p \in Built(w) : Locked(w.wsDeps, w.manifest[p]) \subseteq lk[p]

\* With fewer dependencies cargo builds fewer crates.
LEMMA BuiltShrinks ==
    ASSUME NEW w, NEW v, v.tree = w.tree, v.members = w.members,
           \A q \in Built(w) : Locked(v.wsDeps, v.manifest[q]) \subseteq Locked(w.wsDeps, w.manifest[q])
    PROVE  Built(v) \subseteq Built(w)
<1>1. Built(w) \in SUBSET v.tree
  BY Zenon DEF Built
<1>2. v.members \cap v.tree \subseteq Built(w)
  BY Zenon DEF Built
<1>3. ASSUME NEW q \in Built(w), NEW r \in v.tree,
             Package[r] \in Locked(v.wsDeps, v.manifest[q])
      PROVE  r \in Built(w)
  <2>1. q \in w.tree /\ r \in w.tree /\ Package[r] \in Locked(w.wsDeps, w.manifest[q])
    BY Zenon, <1>1, <1>3
  <2>2. ASSUME NEW S \in SUBSET w.tree, w.members \cap w.tree \subseteq S,
               \A x \in S : \A y \in w.tree :
                   Package[y] \in Locked(w.wsDeps, w.manifest[x]) => y \in S
        PROVE  r \in S
    <3>1. q \in S
      BY Zenon, <2>2 DEF Built
    <3> QED BY Zenon, <2>1, <2>2, <3>1
  <2> QED BY Zenon, <2>1, <2>2 DEF Built
<1> QED BY Zenon, <1>1, <1>2, <1>3 DEF Built

\* Cargo.lock holds names.
LEMMA LockedNames ==
    ASSUME NEW g, NEW w, Shape(g, w), NEW p \in Crates
    PROVE  Locked(w.wsDeps, w.manifest[p]) \subseteq Names
<1> SUFFICES ASSUME NEW t \in Tables, NEW k \in DOMAIN w.manifest[p].deps[t]
             PROVE  PackageOf(w.wsDeps, w.manifest[p].deps[t], k) \in Names
  BY DEF Locked
<1>1. k \in DOMAIN g[p].deps[t] /\ w.manifest[p].deps[t][k] = g[p].deps[t][k]
  BY Zenon DEF Shape, Edited
<1>2. g[p] \in Manifests[p]
  BY Zenon DEF Shape
<1>3. k \in Names
  BY Zenon, <1>1, <1>2, ManifestsAssumption
<1>4. g[p].deps[t][k] # Workspace => g[p].deps[t][k] \in Packages
  BY Zenon, <1>1, <1>2, ManifestsAssumption
<1>5. \A j \in DOMAIN w.wsDeps : w.wsDeps[j] \in Packages
  BY Zenon, NamesAssumption DEF Shape
<1>6. Packages \subseteq Names
  BY Zenon, NamesAssumption
<1> QED BY Zenon, <1>1, <1>3, <1>4, <1>5, <1>6 DEF PackageOf

\* v is w after trim_workspace_dependencies by a lock file lk that covers what
\* is built; all is the names it reads from the lock file.
Trimmed(w, lk, all, v) ==
    /\ \A p \in Built(w) : lk[p] \subseteq all
    /\ LockHolds(w, lk) /\ \A p \in Built(w) : ResolvedIn(w, p)
    /\ v.folders = w.folders /\ v.tree = w.tree
    /\ v.members = w.members /\ v.defaults = w.defaults
    /\ v.manifest = w.manifest
    /\ v.wsDeps = Drop(w.wsDeps, {k \in DOMAIN w.wsDeps : k \notin all /\ w.wsDeps[k] \notin all})

\* What is left of the dependencies of the workspace.
LEMMA TrimmedDeps ==
    ASSUME NEW w, NEW lk, NEW all, NEW v, Trimmed(w, lk, all, v)
    PROVE  /\ DOMAIN v.wsDeps = {k \in DOMAIN w.wsDeps : k \in all \/ w.wsDeps[k] \in all}
           /\ \A k \in DOMAIN v.wsDeps : v.wsDeps[k] = w.wsDeps[k]
BY Zenon DEF Trimmed, Drop

\* Trimming keeps every dependency of the workspace that a crate which is built
\* uses, and so what that crate depends on.
LEMMA TrimKeepsUsed ==
    ASSUME NEW w, NEW lk, NEW all, NEW v, Trimmed(w, lk, all, v), NEW p \in Built(w)
    PROVE  /\ \A t \in Tables : \A k \in DOMAIN w.manifest[p].deps[t] :
                 w.manifest[p].deps[t][k] = Workspace => k \in DOMAIN v.wsDeps
           /\ Locked(v.wsDeps, v.manifest[p]) = Locked(w.wsDeps, w.manifest[p])
<1>1. ASSUME NEW t \in Tables, NEW k \in DOMAIN w.manifest[p].deps[t],
             w.manifest[p].deps[t][k] = Workspace
      PROVE  k \in DOMAIN v.wsDeps
  <2>1. k \in DOMAIN w.wsDeps
    BY Zenon, <1>1 DEF ResolvedIn, Trimmed
  <2>2. PackageOf(w.wsDeps, w.manifest[p].deps[t], k) = w.wsDeps[k]
    BY Zenon, <1>1, <2>1 DEF PackageOf
  <2>3. w.wsDeps[k] \in Locked(w.wsDeps, w.manifest[p])
    BY Zenon, <2>2, InLocked
  <2>4. w.wsDeps[k] \in all
    BY <2>3, Zenon DEF LockHolds, Trimmed
  <2> QED BY <2>1, <2>4, TrimmedDeps
<1> DEFINE m == w.manifest[p]
           ws == w.wsDeps
           wt == v.wsDeps
<1>2. v.manifest[p] = m
  BY Zenon DEF Trimmed
<1>3. ASSUME NEW t \in Tables, NEW k \in DOMAIN m.deps[t]
      PROVE  PackageOf(ws, m.deps[t], k) = PackageOf(wt, m.deps[t], k)
  <2>1. CASE m.deps[t][k] = Workspace
    <3>1. k \in DOMAIN ws /\ k \in DOMAIN wt /\ wt[k] = ws[k]
      BY <1>1, <2>1, TrimmedDeps
    <3> QED BY Zenon, <2>1, <3>1 DEF PackageOf
  <2>2. CASE m.deps[t][k] # Workspace
    BY Zenon, <2>2 DEF PackageOf
  <2> QED BY Zenon, <2>1, <2>2
<1>4. Locked(wt, m) = Locked(ws, m)
  <2> HIDE DEF m, ws, wt
  <2>1. SamePackages(ws, m, wt, m) /\ SamePackages(wt, m, ws, m)
    BY Zenon, <1>3 DEF SamePackages
  <2> QED BY ONLY <2>1, LockedShrinks
<1> QED BY Zenon, <1>1, <1>2, <1>4

\* cargo builds the same crates before and after trimming.
LEMMA TrimBuiltSame ==
    ASSUME NEW w, NEW lk, NEW all, NEW v, Trimmed(w, lk, all, v)
    PROVE  Built(v) = Built(w)
<1>1. \A p \in Built(w) : Locked(v.wsDeps, v.manifest[p]) = Locked(w.wsDeps, w.manifest[p])
  BY TrimKeepsUsed
<1>2. v.tree = w.tree /\ v.members = w.members
  BY Zenon DEF Trimmed
<1>3. Built(v) \subseteq Built(w)
  BY Zenon, <1>1, <1>2, BuiltShrinks
<1>4. Built(w) \subseteq Built(v)
  BY Zenon, <1>1, <1>2, <1>3, BuiltShrinks
<1> QED BY Zenon, <1>3, <1>4

\* Trimming by a lock file that covers what is built keeps every dependency of
\* the workspace that is used (trim_workspace_dependencies).
LEMMA TrimResolved ==
    ASSUME NEW g, NEW w, Shape(g, w), NEW v, NEW lk, NEW all, Trimmed(w, lk, all, v)
    PROVE  Shape(g, v) /\ \A p \in Built(v) : ResolvedIn(v, p)
<1>1. Shape(g, v)
  <2>1. /\ v.folders = w.folders /\ v.tree = w.tree
        /\ v.members = w.members /\ v.defaults = w.defaults
        /\ v.manifest = w.manifest
    BY Zenon DEF Trimmed
  <2>2. DOMAIN v.wsDeps \subseteq DOMAIN w.wsDeps /\ \A k \in DOMAIN v.wsDeps : v.wsDeps[k] = w.wsDeps[k]
    BY TrimmedDeps
  <2>3. BelowIn(v)
    BY Zenon, <2>1 DEF Shape, BelowIn
  <2>4. \A p \in v.tree : OwnIn(v, p)
    <3>1. \A p \in v.tree : OwnIn(w, p)
      BY Zenon, <2>1 DEF Shape
    <3> QED BY Zenon, <2>1, <3>1, GoneSame DEF OwnIn
  <2>5. /\ v.folders \subseteq Folders /\ v.tree \subseteq Crates
        /\ v.members \subseteq v.tree /\ v.defaults \subseteq v.members
        /\ \A p \in Crates : /\ g[p] \in Manifests[p]
                             /\ Edited(g[p], v.manifest[p]) /\ EntriesResolve(g[p], v.manifest[p])
    BY Zenon, <2>1 DEF Shape
  <2>6. DOMAIN v.wsDeps \subseteq DOMAIN Aliased /\ \A k \in DOMAIN v.wsDeps : v.wsDeps[k] = Aliased[k]
    <3>1. DOMAIN w.wsDeps \subseteq DOMAIN Aliased /\ \A k \in DOMAIN w.wsDeps : w.wsDeps[k] = Aliased[k]
      BY Zenon DEF Shape
    <3> QED BY <2>2, <3>1
  <2> QED BY Zenon, <2>3, <2>4, <2>5, <2>6 DEF Shape
<1>2. ASSUME NEW p \in Built(v) PROVE ResolvedIn(v, p)
  <2>1. p \in Built(w)
    BY Zenon, TrimBuiltSame
  <2>2. ResolvedIn(w, p) /\ v.manifest = w.manifest /\ v.tree = w.tree
    BY Zenon, <2>1 DEF Trimmed
  <2> SUFFICES ASSUME NEW t \in Tables, NEW k \in DOMAIN w.manifest[p].deps[t],
                      w.manifest[p].deps[t][k] = Workspace
               PROVE  k \in DOMAIN v.wsDeps /\ ~Gone(v, v.wsDeps[k])
    BY Zenon, <2>2 DEF ResolvedIn
  <2>3. k \in DOMAIN v.wsDeps
    BY Zenon, <2>1, TrimKeepsUsed
  <2>4. v.wsDeps[k] = w.wsDeps[k]
    BY <2>3, TrimmedDeps
  <2>5. ~Gone(w, w.wsDeps[k])
    BY Zenon, <2>2 DEF ResolvedIn
  <2> QED BY Zenon, <2>2, <2>3, <2>4, <2>5, GoneSame
<1> QED BY Zenon, <1>1, <1>2

\* The lock file is the one cargo writes for w.
Current(w, lk) ==
    \A p \in Crates : lk[p] = IF p \in Built(w) THEN Locked(w.wsDeps, w.manifest[p]) ELSE {}

\* WorkspaceTidy for the files w.
Tidy(w) ==
    \A k \in DOMAIN w.wsDeps : \E p \in Built(w) :
        {k, w.wsDeps[k]} \cap Locked(w.wsDeps, w.manifest[p]) # {}

\* Trimming by a current lock file leaves no dependency that nothing uses.
LEMMA TrimTidies ==
    ASSUME NEW w, NEW lk, NEW all, NEW v, Trimmed(w, lk, all, v), Current(w, lk),
           \A x \in all : \E p \in Crates : x \in lk[p]
    PROVE  Tidy(v)
<1> SUFFICES ASSUME NEW k \in DOMAIN v.wsDeps
             PROVE  \E p \in Built(v) : {k, v.wsDeps[k]} \cap Locked(v.wsDeps, v.manifest[p]) # {}
  BY Zenon DEF Tidy
<1>1. PICK x \in {k, v.wsDeps[k]} : x \in all
  BY TrimmedDeps
<1>2. PICK p \in Crates : x \in lk[p]
  BY Zenon, <1>1
<1>3. p \in Built(w) /\ x \in Locked(w.wsDeps, w.manifest[p])
  BY Zenon, <1>2 DEF Current
<1>4. p \in Built(v) /\ x \in Locked(v.wsDeps, v.manifest[p])
  BY Zenon, <1>3, TrimKeepsUsed, TrimBuiltSame
<1> QED BY Zenon, <1>1, <1>4

-----------------------------------------------------------------------------
(* Commands that edit every manifest.                                      *)

\* remove_dependency keeps the workspace in shape, and drops what was asked for.
LEMMA RemoveDependencyFaithful ==
    ASSUME NEW g, NEW w, Shape(g, w), NEW d, NEW a, NEW b, NEW v,
           ManifestsOnly(w, v), DependencyRemoved(w, v, d)
    PROVE  /\ Shape(g, v)
           /\ Faithful(g, w, a, b) => Faithful(g, v, a \cup {d}, b)
<1>1. ASSUME NEW p \in Crates
      PROVE  /\ Edited(g[p], v.manifest[p]) /\ EntriesResolve(g[p], v.manifest[p])
             /\ TablesShrink(w.manifest[p], v.manifest[p])
  <2>1. Edited(g[p], w.manifest[p]) /\ EntriesResolve(g[p], w.manifest[p])
    BY Zenon DEF Shape
  <2>2. CASE p \in w.tree
    <3>1. v.manifest[p] = remove_dependencies(w.manifest[p], {d})
      BY Zenon, <2>2 DEF DependencyRemoved
    <3> QED BY Zenon, <2>1, <3>1, RemoveDependenciesEdits
  <2>3. CASE p \notin w.tree
    <3>1. v.manifest[p] = w.manifest[p]
      BY Zenon, <2>3 DEF DependencyRemoved
    <3> QED BY Zenon, <2>1, <3>1 DEF TablesShrink
  <2> QED BY Zenon, <2>2, <2>3
<1>2. Shape(g, v)
  BY Zenon, <1>1, ManifestsShape
<1>3. ASSUME Faithful(g, w, a, b), NEW p \in v.tree
      PROVE  ResolvedIn(v, p) /\ DroppedIn(g, v, a \cup {d}, p) /\ KeptIn(g, v, a \cup {d}, b, p)
  <2>1. p \in Crates /\ p \in w.tree /\ ResolvedIn(w, p) /\ DroppedIn(g, w, a, p) /\ KeptIn(g, w, a, b, p)
    BY Zenon, <1>3 DEF Faithful, Shape, ManifestsOnly
  <2>2. Edited(g[p], w.manifest[p]) /\ v.tree = w.tree /\ v.wsDeps = w.wsDeps
    BY Zenon, <2>1 DEF Shape, ManifestsOnly
  <2>3. ResolvedIn(v, p)
    BY Zenon, <1>1, <2>1, <2>2, TablesShrinkResolved
  <2>4. Covers(v, {d}, a \cup {d})
    BY Zenon DEF Covers
  <2>5. v.manifest[p] = remove_dependencies(w.manifest[p], {d})
    BY Zenon, <2>1 DEF DependencyRemoved
  <2>6. DroppedIn(g, v, a \cup {d}, p) /\ KeptIn(g, v, a \cup {d}, b, p)
    <3>1. a \subseteq a \cup {d} /\ v.tree \subseteq w.tree /\ {d} \subseteq LostNames(v, a \cup {d})
      BY Zenon, <2>2 DEF LostNames
    <3> QED BY Zenon, <2>1, <2>4, <2>5, <3>1, RemoveDependenciesFaithful
  <2> QED BY Zenon, <2>3, <2>6
<1>5. ASSUME Faithful(g, w, a, b) PROVE \A k \in DOMAIN Aliased \ DOMAIN v.wsDeps : Gone(v, Aliased[k])
  BY Zenon, <1>5, GoneSame DEF Faithful, ManifestsOnly
<1> QED BY Zenon, <1>2, <1>3, <1>5 DEF Faithful

\* remove_feature keeps the workspace in shape, and drops that feature only.
LEMMA RemoveFeatureFaithful ==
    ASSUME NEW g, NEW w, Shape(g, w), NEW f, NEW a, NEW b, NEW v,
           ManifestsOnly(w, v), FeatureRemoved(w, v, f)
    PROVE  /\ Shape(g, v)
           /\ Faithful(g, w, a, b) => Faithful(g, v, a, b \cup {f})
<1>1. ASSUME NEW p \in Crates
      PROVE  /\ Edited(g[p], v.manifest[p]) /\ EntriesResolve(g[p], v.manifest[p])
             /\ TablesShrink(w.manifest[p], v.manifest[p])
             /\ LostFeature(w.manifest[p], v.manifest[p], f)
  <2>1. Edited(g[p], w.manifest[p]) /\ EntriesResolve(g[p], w.manifest[p])
    BY Zenon DEF Shape
  <2>2. CASE p \in w.tree
    <3>1. v.manifest[p] = WithoutFeature(w.manifest[p], f)
      BY Zenon, <2>2 DEF FeatureRemoved
    <3>2. /\ Edited(g[p], v.manifest[p]) /\ EntriesResolve(g[p], v.manifest[p])
          /\ LostFeature(w.manifest[p], v.manifest[p], f)
      BY Zenon, <2>1, <3>1, WithoutFeatureEdits
    <3>3. TablesShrink(w.manifest[p], v.manifest[p])
      BY Zenon, <3>2 DEF TablesShrink, LostFeature
    <3> QED BY Zenon, <3>2, <3>3
  <2>3. CASE p \notin w.tree
    <3>1. v.manifest[p] = w.manifest[p]
      BY Zenon, <2>3 DEF FeatureRemoved
    <3> QED BY Zenon, <2>1, <3>1 DEF LostFeature, TablesShrink
  <2> QED BY Zenon, <2>2, <2>3
<1>2. Shape(g, v)
  BY Zenon, <1>1, ManifestsShape
<1>4. ASSUME Faithful(g, w, a, b), NEW p \in v.tree
      PROVE  ResolvedIn(v, p) /\ DroppedIn(g, v, a, p) /\ KeptIn(g, v, a, b \cup {f}, p)
  <2>1. p \in Crates /\ p \in w.tree /\ ResolvedIn(w, p) /\ DroppedIn(g, w, a, p) /\ KeptIn(g, w, a, b, p)
    BY Zenon, <1>4 DEF Faithful, Shape, ManifestsOnly
  <2>2. v.tree = w.tree /\ v.wsDeps = w.wsDeps /\ v.manifest[p].deps = w.manifest[p].deps
    BY Zenon, <1>1, <2>1 DEF ManifestsOnly, LostFeature
  <2>3. ResolvedIn(v, p)
    BY Zenon, <2>1, <2>2, ResolvedShrinks
  <2>4. DroppedIn(g, v, a, p)
    BY Zenon, <2>1, <2>2, DroppedSame
  <2>5. KeptIn(g, v, a, b \cup {f}, p)
    <3>1. LostFeature(w.manifest[p], v.manifest[p], f)
      BY Zenon, <1>1, <2>1
    <3>2. \A h \in DOMAIN v.manifest[p].features :
              \A x \in w.manifest[p].features[h] \ v.manifest[p].features[h] :
                  Matches(g[p], v.manifest[p], LostNames(v, a), b \cup {f}, x)
      BY Zenon, <3>1 DEF LostFeature, Matches
    <3>3. /\ DOMAIN v.manifest[p].features \subseteq DOMAIN w.manifest[p].features
          /\ DOMAIN w.manifest[p].features \ DOMAIN v.manifest[p].features \subseteq b \cup {f}
      BY Zenon, <3>1 DEF LostFeature
    <3>4. TablesShrink(w.manifest[p], v.manifest[p]) /\ v.tree \subseteq w.tree /\ b \subseteq b \cup {f}
      BY Zenon, <1>1, <2>1, <2>2
    <3> QED BY Zenon, <2>1, <3>2, <3>3, <3>4, KeptShrinks
  <2> QED BY Zenon, <2>3, <2>4, <2>5
<1>5. ASSUME Faithful(g, w, a, b) PROVE \A k \in DOMAIN Aliased \ DOMAIN v.wsDeps : Gone(v, Aliased[k])
  BY Zenon, <1>5, GoneSame DEF Faithful, ManifestsOnly
<1> QED BY Zenon, <1>2, <1>4, <1>5 DEF Faithful

\* machete keeps the workspace in shape; what it leaves of a crate that is built
\* is still resolved, and is in a lock file that held before.
LEMMA MacheteResolved ==
    ASSUME NEW g, NEW w, Shape(g, w), NEW un, NEW lk, NEW v,
           ManifestsOnly(w, v), MacheteRan(w, v, un)
    PROVE  /\ Shape(g, v)
           /\ (\A p \in Built(w) : ResolvedIn(w, p)) => \A p \in Built(v) : ResolvedIn(v, p)
           /\ LockHolds(w, lk) => LockHolds(v, lk)
           /\ \A p \in v.tree \cap Substrate : AllResolve(v.manifest[p])
<1>1. ASSUME NEW p \in Crates
      PROVE  /\ Edited(g[p], v.manifest[p]) /\ EntriesResolve(g[p], v.manifest[p])
             /\ TablesShrink(w.manifest[p], v.manifest[p])
             /\ p \in w.tree \cap Substrate => AllResolve(v.manifest[p])
  <2>1. Edited(g[p], w.manifest[p]) /\ EntriesResolve(g[p], w.manifest[p])
    BY Zenon DEF Shape
  <2>2. CASE p \in w.tree \cap Substrate
    <3>1. v.manifest[p] = Macheted(w.manifest[p], un[p])
      BY Zenon, <2>2 DEF MacheteRan
    <3> QED BY Zenon, <2>1, <3>1, MachetedEdits
  <2>3. CASE p \notin w.tree \cap Substrate
    <3>1. v.manifest[p] = w.manifest[p]
      BY Zenon, <2>3 DEF MacheteRan
    <3> QED BY Zenon, <2>1, <2>3, <3>1 DEF TablesShrink
  <2> QED BY Zenon, <2>2, <2>3
<1>2. Shape(g, v)
  BY Zenon, <1>1, ManifestsShape
<1>3. ASSUME NEW p \in Crates
      PROVE  /\ ResolvedIn(w, p) => ResolvedIn(v, p)
             /\ Locked(v.wsDeps, v.manifest[p]) \subseteq Locked(w.wsDeps, w.manifest[p])
  <2>1. Edited(g[p], w.manifest[p]) /\ v.tree = w.tree /\ v.wsDeps = w.wsDeps
    BY Zenon DEF Shape, ManifestsOnly
  <2> QED BY Zenon, <1>1, <2>1, TablesShrinkResolved
<1>4. Built(w) \subseteq Crates
  BY Zenon DEF Built, Shape
<1>5. Built(v) \subseteq Built(w)
  BY Zenon, <1>3, <1>4, BuiltShrinks DEF ManifestsOnly
<1>6. LockHolds(w, lk) => LockHolds(v, lk)
  BY Zenon, <1>3, <1>4, <1>5 DEF LockHolds
<1>7. \A p \in v.tree \cap Substrate : AllResolve(v.manifest[p])
  BY Zenon, <1>1 DEF ManifestsOnly, Shape
<1> QED BY Zenon, <1>2, <1>3, <1>4, <1>5, <1>6, <1>7

-----------------------------------------------------------------------------
(* The inductive invariant.                                                *)

Inv ==
    /\ Shape(given, Disk)
    /\ stage \in Stages /\ todo \subseteq Crates
    /\ lock \in [Crates -> SUBSET Names]
    /\ asked \subseteq Unwanted /\ disabled \subseteq Unwanted
    /\ stage # "trees" => tree \subseteq Substrate
    /\ Early => Faithful(given, Disk, asked, disabled)
    /\ ~Early => \A p \in tree : AllResolve(manifest[p])
    /\ \A p \in Built(Disk) : ResolvedIn(Disk, p)
    /\ stage \in {"fixed", "macheted"} => LockHolds(Disk, lock)

\* A crate is built only if it exists; until machete all that exist are resolved.
LEMMA FaithfulResolved ==
    ASSUME NEW g, NEW w, NEW a, NEW b, Faithful(g, w, a, b)
    PROVE  \A p \in Built(w) : ResolvedIn(w, p)
BY Zenon DEF Faithful, Built

\* The checkout satisfies the invariant.
LEMMA InitInv == Init => Inv
<1> SUFFICES ASSUME Init PROVE Inv
  BY Zenon
<1>1. \A p \in Crates : given[p] = manifest[p] /\ manifest[p] \in Manifests[p]
  BY Zenon DEF Init
<1>2. /\ Disk.folders = Folders /\ Disk.tree = Crates /\ Disk.members = Crates /\ Disk.defaults \subseteq Substrate
      /\ Disk.wsDeps = Aliased /\ Disk.manifest = manifest
  BY Zenon, NamesAssumption DEF Init, Disk
<1>3. ASSUME NEW p \in Crates
      PROVE  Edited(given[p], manifest[p]) /\ EntriesResolve(given[p], manifest[p])
  BY Zenon, <1>1, ManifestsAssumption DEF Edited, EntriesResolve
<1>5. \A package : ~Gone(Disk, package)
  BY Zenon, <1>2 DEF Gone
<1>4. Shape(given, Disk)
  <2>1. BelowIn(Disk)
    BY Zenon, <1>2 DEF BelowIn
  <2>2. \A p \in Crates : OwnIn(Disk, p)
    BY Zenon, <1>5 DEF OwnIn
  <2> QED BY Zenon, <1>1, <1>2, <1>3, <2>1, <2>2, NamesAssumption DEF Shape
<1>6. ASSUME NEW p \in Crates
      PROVE  ResolvedIn(Disk, p) /\ DroppedIn(given, Disk, asked, p) /\ KeptIn(given, Disk, asked, disabled, p)
  <2>1. ResolvedIn(Disk, p)
    <3>1. ASSUME NEW t \in Tables, NEW k \in DOMAIN manifest[p].deps[t], manifest[p].deps[t][k] = Workspace
          PROVE  k \in DOMAIN Aliased
      <4>1. manifest[p] \in Manifests[p]
        BY Zenon, <1>1
      <4> QED BY Zenon, <3>1, <4>1, ManifestsAssumption
    <3> QED BY Zenon, <1>2, <1>5, <3>1 DEF ResolvedIn
  <2>2. DroppedIn(given, Disk, asked, p)
    BY <1>1, <1>2, Zenon DEF DroppedIn, Tables
  <2>3. KeptIn(given, Disk, asked, disabled, p)
    BY Zenon, <1>1, <1>2 DEF KeptIn
  <2> QED BY Zenon, <2>1, <2>2, <2>3
<1>7. Faithful(given, Disk, asked, disabled)
  BY Zenon, <1>2, <1>6 DEF Faithful
<1>8. \A p \in Built(Disk) : ResolvedIn(Disk, p)
  BY Zenon, <1>7, FaithfulResolved
<1>9. Early
  BY Zenon DEF Init, Early
<1> QED BY Zenon, <1>4, <1>7, <1>8, <1>9 DEF Init, Inv, Stages

-----------------------------------------------------------------------------
(* One lemma for each command that edits files.                            *)

\* remove_crate_tree preserves the invariant.
LEMMA RemoveCrateTreeInv ==
    ASSUME Inv, NEW f \in Folders, RemoveCrateTree(f)
    PROVE  Inv'
<1> DEFINE v == remove_folder_of_crates(Disk, {f})
<1>1. /\ Disk'.folders = v.folders /\ Disk'.tree = v.tree /\ Disk'.members = v.members /\ Disk'.defaults = v.defaults
      /\ Disk'.wsDeps = v.wsDeps /\ Disk'.manifest = v.manifest
  BY Zenon DEF RemoveCrateTree, Write, Disk
<1>2. Disk' = v
  BY Zenon, <1>1 DEF Disk, remove_folder_of_crates
<1>3. Faithful(given, Disk, asked, disabled)
  BY Zenon DEF Inv, RemoveCrateTree, Early
<1>4. v.tree \subseteq Disk.tree /\ Shape(given, v) /\ Faithful(given, v, asked, disabled)
  BY Zenon, <1>3, RemoveFolderFaithful DEF Inv
<1>5. tree' \subseteq tree
  BY Zenon, <1>1, <1>4 DEF Disk
<1>6. Shape(given, Disk') /\ Faithful(given, Disk', asked, disabled)
  BY Zenon, <1>2, <1>3, <1>4
<1>7. \A p \in Built(Disk') : ResolvedIn(Disk', p)
  BY Zenon, <1>6, FaithfulResolved
<1>8. /\ given' = given /\ asked' = asked /\ disabled' = disabled
      /\ stage' = stage /\ todo' = todo /\ lock' = lock /\ stage \in {"trees", "rest"}
  BY Zenon DEF RemoveCrateTree
<1>9. \A p \in Built(Disk)' : ResolvedIn(Disk, p)'
  BY Zenon, <1>7 DEF Built, ResolvedIn, Gone
<1> QED BY Zenon, <1>5, <1>6, <1>8, <1>9 DEF Inv, Early

\* remove_dependency preserves the invariant.
LEMMA RemoveDependencyInv ==
    ASSUME Inv, NEW d \in Unwanted, RemoveDependency(d)
    PROVE  Inv'
<1>1. ManifestsOnly(Disk, Disk') /\ DependencyRemoved(Disk, Disk', d)
  BY Zenon DEF RemoveDependency, EachManifest, Disk, ManifestsOnly, DependencyRemoved
<1>2. Shape(given, Disk') /\ (Faithful(given, Disk, asked, disabled) => Faithful(given, Disk', asked \cup {d}, disabled))
  BY Zenon, <1>1, RemoveDependencyFaithful DEF Inv
<1>3. /\ given' = given /\ asked' = asked \cup {d} /\ disabled' = disabled /\ stage' = stage /\ todo' = todo /\ lock' = lock
      /\ tree' = tree /\ stage = "rest"
  BY Zenon DEF RemoveDependency
<1>4. Faithful(given, Disk', asked', disabled')
  BY Zenon, <1>2, <1>3 DEF Inv, Early
<1>5. \A p \in Built(Disk') : ResolvedIn(Disk', p)
  BY Zenon, <1>4, FaithfulResolved
<1> QED BY Zenon, <1>2, <1>3, <1>4, <1>5 DEF Inv, Early

\* remove_feature preserves the invariant.
LEMMA RemoveFeatureInv ==
    ASSUME Inv, NEW f \in Unwanted, RemoveFeature(f)
    PROVE  Inv'
<1>1. ManifestsOnly(Disk, Disk') /\ FeatureRemoved(Disk, Disk', f)
  BY Zenon DEF RemoveFeature, EachManifest, Disk, ManifestsOnly, FeatureRemoved
<1>2. Shape(given, Disk') /\ (Faithful(given, Disk, asked, disabled) => Faithful(given, Disk', asked, disabled \cup {f}))
  BY Zenon, <1>1, RemoveFeatureFaithful DEF Inv
<1>3. /\ given' = given /\ asked' = asked /\ disabled' = disabled \cup {f}
      /\ stage' = stage /\ todo' = todo /\ lock' = lock /\ tree' = tree /\ stage \in {"trees", "rest"}
  BY Zenon DEF RemoveFeature
<1>4. Faithful(given, Disk', asked', disabled')
  BY Zenon, <1>2, <1>3 DEF Inv, Early
<1>5. \A p \in Built(Disk') : ResolvedIn(Disk', p)
  BY Zenon, <1>4, FaithfulResolved
<1> QED BY Zenon, <1>2, <1>3, <1>4, <1>5 DEF Inv, Early

\* One turn of the loop of remove_dev_dependencies preserves the invariant.
LEMMA VisitCrateInv ==
    ASSUME Inv, NEW p \in Crates, VisitCrate(p)
    PROVE  Inv'
<1>1. /\ given' = given /\ asked' = asked /\ disabled' = disabled /\ stage' = stage /\ todo' \subseteq todo /\ lock' = lock
      /\ stage = "dev" /\ Faithful(given, Disk, asked, disabled) /\ Shape(given, Disk)
  BY Zenon DEF VisitCrate, Inv, Early
<1>2. Shape(given, Disk') /\ Faithful(given, Disk', asked, disabled) /\ tree' \subseteq tree
  <2>1. CASE p \notin tree
    <3>1. Disk' = Disk /\ tree' = tree
      BY Zenon, <2>1 DEF VisitCrate, Disk
    <3> QED BY Zenon, <1>1, <3>1
  <2>2. CASE p \in tree
    <3> DEFINE w == remove_folder_of_crates(Disk, Tests[p])
    <3>1. w.tree \subseteq Disk.tree /\ Shape(given, w) /\ Faithful(given, w, asked, disabled)
      <4>1. Tests[p] \in SUBSET Folders
        BY Zenon, NamesAssumption
      <4> QED BY Zenon, <1>1, <4>1, RemoveFolderFaithful
    <3>2. ManifestsOnly(w, Disk') /\ Visited(w, Disk', p)
      BY Zenon, <2>2 DEF VisitCrate, Write, Disk, remove_folder_of_crates, ManifestsOnly, Visited
    <3>3. tree' \subseteq tree
      BY Zenon, <3>1, <3>2 DEF Disk, ManifestsOnly
    <3> HIDE DEF w
    <3>4. Shape(given, Disk') /\ Faithful(given, Disk', asked, disabled)
      BY Zenon, <3>1, <3>2, VisitFaithful
    <3> QED BY Zenon, <3>3, <3>4
  <2> QED BY Zenon, <2>1, <2>2
<1>3. \A q \in Built(Disk') : ResolvedIn(Disk', q)
  BY Zenon, <1>2, FaithfulResolved
<1> QED BY Zenon, <1>1, <1>2, <1>3 DEF Inv, Early

\* machete preserves the invariant: the lock file, which is older, still covers
\* what the crates that are built depend on.
LEMMA MacheteInv ==
    ASSUME Inv, NEW unused, Machete(unused)
    PROVE  Inv'
<1> DEFINE un == [p \in Crates |-> {k \in Names : <<p, k>> \in unused}]
<1>1. ManifestsOnly(Disk, Disk') /\ MacheteRan(Disk, Disk', un)
  BY Zenon DEF Machete, Disk, ManifestsOnly, MacheteRan
<1> HIDE DEF un
<1>2. /\ Shape(given, Disk')
      /\ (\A p \in Built(Disk) : ResolvedIn(Disk, p)) => \A p \in Built(Disk') : ResolvedIn(Disk', p)
      /\ LockHolds(Disk, lock) => LockHolds(Disk', lock)
      /\ \A p \in Disk'.tree \cap Substrate : AllResolve(Disk'.manifest[p])
  BY Zenon, <1>1, MacheteResolved DEF Inv
<1>3. /\ given' = given /\ asked' = asked /\ disabled' = disabled /\ todo' = todo /\ lock' = lock /\ tree' = tree
      /\ stage \in {"rest", "fixed"} /\ stage' = IF stage = "rest" THEN "ready" ELSE "macheted"
  BY Zenon DEF Machete
<1>4. stage = "fixed" => LockHolds(Disk', lock)
  BY Zenon, <1>2 DEF Inv
<1>5. \A p \in tree' : AllResolve(manifest'[p])
  <2>1. tree' \subseteq Substrate
    BY Zenon, <1>3 DEF Inv
  <2> QED BY Zenon, <1>2, <2>1 DEF Disk
<1>6. ~Early'
  BY Zenon, <1>3 DEF Early
<1> QED BY Zenon, <1>2, <1>3, <1>4, <1>5, <1>6 DEF Inv, Stages

\* cargo check and cargo fix write a lock file that covers what is built.
LEMMA LockfileHolds ==
    ASSUME Inv
    PROVE  Lockfile \in [Crates -> SUBSET Names] /\ LockHolds(Disk, Lockfile)
<1>1. \A p \in Crates : Locked(wsDeps, manifest[p]) \subseteq Names
  <2>1. Disk.wsDeps = wsDeps /\ Disk.manifest = manifest
    BY Zenon DEF Disk
  <2> QED BY Zenon, <2>1, LockedNames DEF Inv
<1>2. Built(Disk) \subseteq Crates
  BY Zenon DEF Built, Inv, Shape
<1>3. Lockfile \in [Crates -> SUBSET Names]
  BY Zenon, <1>1 DEF Lockfile
<1>4. LockHolds(Disk, Lockfile)
  <2>1. Disk.wsDeps = wsDeps /\ Disk.manifest = manifest
    BY Zenon DEF Disk
  <2> QED BY Zenon, <1>2, <2>1 DEF LockHolds, Lockfile
<1> QED BY Zenon, <1>3, <1>4

\* trim_workspace_dependencies trims by a lock file that covers what is built.
LEMMA TrimIs ==
    ASSUME Inv, TrimWorkspaceDependencies
    PROVE  Trimmed(Disk, lock, AllDepsInLockFile, Disk')
<1>1. LockHolds(Disk, lock) /\ (\A p \in Built(Disk) : ResolvedIn(Disk, p))
  BY Zenon DEF Inv, TrimWorkspaceDependencies
<1>2. \A p \in Built(Disk) : lock[p] \subseteq AllDepsInLockFile
  <2>1. Built(Disk) \subseteq tree /\ tree \subseteq Substrate
    BY Zenon DEF Built, Disk, Inv, TrimWorkspaceDependencies
  <2> QED BY Zenon, <2>1 DEF AllDepsInLockFile
<1>3. Unlocked = {k \in DOMAIN Disk.wsDeps : k \notin AllDepsInLockFile /\ Disk.wsDeps[k] \notin AllDepsInLockFile}
  BY Zenon DEF Unlocked, Disk
<1>4. /\ Disk'.folders = Disk.folders /\ Disk'.tree = Disk.tree /\ Disk'.members = Disk.members /\ Disk'.defaults = Disk.defaults
      /\ Disk'.manifest = Disk.manifest /\ Disk'.wsDeps = Drop(Disk.wsDeps, Unlocked)
  BY Zenon DEF TrimWorkspaceDependencies, Disk
<1> QED BY Zenon, <1>1, <1>2, <1>3, <1>4 DEF Trimmed

\* trim_workspace_dependencies preserves the invariant.
LEMMA TrimInv ==
    ASSUME Inv, TrimWorkspaceDependencies
    PROVE  Inv'
<1>1. Shape(given, Disk') /\ \A p \in Built(Disk') : ResolvedIn(Disk', p)
  BY Zenon, TrimIs, TrimResolved DEF Inv
<1>2. /\ given' = given /\ asked' = asked /\ disabled' = disabled /\ todo' = todo /\ lock' = lock
      /\ tree' = tree /\ manifest' = manifest /\ stage = "macheted" /\ stage' = "trimmed"
  BY Zenon DEF TrimWorkspaceDependencies
<1> QED BY Zenon, <1>1, <1>2 DEF Inv, Stages, Early

-----------------------------------------------------------------------------
(* The theorems.                                                           *)

\* Every command of patch.sh preserves the invariant.
LEMMA NextInv == Inv /\ [Next]_vars => Inv'
<1> SUFFICES ASSUME Inv, [Next]_vars PROVE Inv'
  BY Zenon
<1>1. ASSUME NEW f \in Folders, RemoveCrateTree(f) PROVE Inv'
  BY Zenon, <1>1, RemoveCrateTreeInv
<1>2. ASSUME NEW d \in Unwanted, RemoveDependency(d) PROVE Inv'
  BY Zenon, <1>2, RemoveDependencyInv
<1>3. ASSUME NEW f \in Unwanted, RemoveFeature(f) PROVE Inv'
  BY Zenon, <1>3, RemoveFeatureInv
<1>4. CASE StartDevDependencies
  <2>1. Disk' = Disk
    BY Zenon, <1>4 DEF StartDevDependencies, Disk
  <2>2. /\ given' = given /\ asked' = asked /\ disabled' = disabled /\ lock' = lock /\ tree' = tree /\ todo' = tree
        /\ tree \subseteq Substrate /\ stage = "trees" /\ stage' = "dev"
    BY Zenon, <1>4 DEF StartDevDependencies
  <2>3. tree \subseteq Crates
    BY Zenon DEF Inv, Shape, Disk
  <2> QED BY Zenon, <2>1, <2>2, <2>3 DEF Inv, Stages, Early
<1>5. ASSUME NEW p \in Crates, VisitCrate(p) PROVE Inv'
  BY Zenon, <1>5, VisitCrateInv
<1>6. CASE FinishDevDependencies
  <2>1. Disk' = Disk
    BY Zenon, <1>6 DEF FinishDevDependencies, Disk
  <2> QED BY Zenon, <1>6, <2>1 DEF FinishDevDependencies, Inv, Stages, Early
<1>7. ASSUME NEW unused \in SUBSET Removable, Machete(unused) PROVE Inv'
  BY Zenon, <1>7, MacheteInv
<1>8. CASE CargoCheck
  <2>1. Disk' = Disk
    BY Zenon, <1>8 DEF CargoCheck, Disk
  <2> QED BY Zenon, <1>8, <2>1, LockfileHolds DEF CargoCheck, Inv, Stages, Early
<1>9. CASE CargoFix
  <2>1. Disk' = Disk
    BY Zenon, <1>9 DEF CargoFix, Disk
  <2> QED BY Zenon, <1>9, <2>1, LockfileHolds DEF CargoFix, Inv, Stages, Early
<1>10. CASE TrimWorkspaceDependencies
  BY Zenon, <1>10, TrimInv
<1>11. CASE Finish
  <2>1. Disk' = Disk
    BY Zenon, <1>11 DEF Finish, Disk
  <2> QED BY Zenon, <1>11, <2>1 DEF Finish, Inv, Stages, Early
<1>12. CASE UNCHANGED vars
  <2>1. Disk' = Disk
    BY Zenon, <1>12 DEF vars, Disk
  <2> QED BY Zenon, <1>12, <2>1 DEF vars, Inv, Early
<1> QED
  BY Zenon, <1>1, <1>2, <1>3, <1>4, <1>5, <1>6, <1>7, <1>8, <1>9, <1>10, <1>11, <1>12 DEF Next

\* The invariant implies both properties.
LEMMA InvImplies == Inv => ManifestsConsistent /\ NothingElseDropped
<1> SUFFICES ASSUME Inv PROVE ManifestsConsistent /\ NothingElseDropped
  BY Zenon
<1>1. /\ Disk.folders = folders /\ Disk.tree = tree /\ Disk.members = members /\ Disk.defaults = defaults
      /\ Disk.wsDeps = wsDeps /\ Disk.manifest = manifest
  BY Zenon DEF Disk
<1>2. \A package : Removed(package) <=> Gone(Disk, package)
  BY Zenon, <1>1 DEF Removed, Gone
<1>3. TypeOK
  BY Zenon, <1>1 DEF Inv, Shape, Edited, TypeOK
<1>4. MembersExist
  BY Zenon, <1>1 DEF Inv, Shape, MembersExist
<1>5. WorkspaceDepsResolve
  BY Zenon, <1>1, <1>2 DEF Inv, ResolvedIn, WorkspaceDepsResolve
<1>6. FeatureEntriesResolve
  BY Zenon, <1>1 DEF Inv, Shape, EntriesResolve, AllResolve, FeatureEntriesResolve
<1>7. OnlyOwnAliasesLeft
  BY Zenon, <1>1, <1>2 DEF Inv, Shape, OwnIn, OnlyOwnAliasesLeft
<1>8. OnlyBelowRemoved
  BY Zenon, <1>1 DEF Inv, Shape, BelowIn, OnlyBelowRemoved
<1>9. Early => OnlyRemovedDropped
  BY Zenon, <1>1, <1>2 DEF Inv, Faithful, DroppedIn, OnlyRemovedDropped
<1>10. LostNames(Disk, asked) = GoneNames
  BY Zenon, <1>1 DEF LostNames, GoneNames
<1>11. Early => OnlyMatchingEntriesDropped
  <2>1. ASSUME Early, NEW p \in tree PROVE KeptIn(given, Disk, asked, disabled, p)
    BY Zenon, <1>1, <2>1 DEF Inv, Faithful
  <2>2. ASSUME Early, NEW p \in tree
        PROVE  /\ DOMAIN given[p].features \ DOMAIN manifest[p].features \subseteq disabled
               /\ \A f \in DOMAIN manifest[p].features : \A x \in given[p].features[f] \ manifest[p].features[f] :
                      Matches(given[p], manifest[p], GoneNames, disabled, x)
    BY Zenon, <1>1, <1>10, <2>1, <2>2 DEF KeptIn
  <2> QED BY Zenon, <2>2 DEF Matches, OnlyMatchingEntriesDropped
<1> QED BY Zenon, <1>3, <1>4, <1>5, <1>6, <1>7, <1>8, <1>9, <1>11
        DEF ManifestsConsistent, NothingElseDropped

\* Whatever trees, dependencies, features and tests patch.sh removes, in
\* whatever order, and whatever cargo-machete finds unused, the members exist,
\* what a crate that is built has from the workspace is there, a removed crate
\* is left as a dependency only under a manifest's own alias, and from machete
\* on every entry of a feature names a dependency or a feature.
THEOREM AlwaysConsistent == Spec => []ManifestsConsistent
<1>1. Inv => ManifestsConsistent
  BY Zenon, InvImplies
<1> QED BY InitInv, NextInv, <1>1, PTL DEF Spec

\* Crates go only with a folder they are in, and members by the spelling of
\* their path; until machete dependencies go only with what they are on, and
\* features and their entries only if they match, by name, what was removed.
THEOREM NothingElseEverDropped == Spec => []NothingElseDropped
<1>1. Inv => NothingElseDropped
  BY Zenon, InvImplies
<1> QED BY InitInv, NextInv, <1>1, PTL DEF Spec

-----------------------------------------------------------------------------
(* The root manifest at the end.                                           *)

\* While a round has changed no manifest, the lock file it started with is the
\* current one, and trimming by it leaves the root manifest tidy.
TidyInv ==
    /\ stage = "fixed" => before = manifest /\ Current(Disk, lock)
    /\ stage = "macheted" /\ manifest = before => Current(Disk, lock)
    /\ stage = "trimmed" /\ manifest = before => Tidy(Disk)
    /\ stage = "done" => Tidy(Disk)

\* Every command of patch.sh preserves TidyInv.
LEMMA NextTidy == Inv /\ TidyInv /\ [Next]_vars => TidyInv'
<1> SUFFICES ASSUME Inv, TidyInv, [Next]_vars PROVE TidyInv'
  BY Zenon
<1>1. CASE stage' \in {"trees", "dev", "rest", "ready", "checked"}
  BY Zenon, <1>1 DEF TidyInv
<1>2. ASSUME NEW unused \in SUBSET Removable, Machete(unused), stage = "fixed" PROVE TidyInv'
  <2>1. stage' = "macheted" /\ lock' = lock /\ before' = before
    BY Zenon, <1>2 DEF Machete
  <2>2. ASSUME manifest' = before' PROVE Disk' = Disk
    <3>1. manifest' = manifest
      BY Zenon, <1>2, <2>1, <2>2 DEF TidyInv
    <3> QED BY Zenon, <1>2, <3>1 DEF Machete, Disk
  <2>3. Current(Disk, lock)
    BY Zenon, <1>2 DEF TidyInv
  <2> QED BY Zenon, <2>1, <2>2, <2>3 DEF TidyInv
<1>3. CASE CargoFix
  <2>1. Disk' = Disk /\ lock' = Lockfile /\ before' = manifest' /\ stage' = "fixed"
    BY Zenon, <1>3 DEF CargoFix, Disk
  <2>2. Current(Disk, Lockfile)
    BY Zenon DEF Current, Lockfile, Disk
  <2> QED BY Zenon, <2>1, <2>2 DEF TidyInv
<1>4. CASE TrimWorkspaceDependencies
  <2>1. stage = "macheted" /\ stage' = "trimmed" /\ manifest' = manifest /\ before' = before
    BY Zenon, <1>4 DEF TrimWorkspaceDependencies
  <2>2. ASSUME manifest = before PROVE Tidy(Disk')
    <3>1. Current(Disk, lock)
      BY Zenon, <2>1, <2>2 DEF TidyInv
    <3>2. Trimmed(Disk, lock, AllDepsInLockFile, Disk')
      BY Zenon, <1>4, TrimIs
    <3>3. \A x \in AllDepsInLockFile : \E p \in Crates : x \in lock[p]
      BY Zenon DEF AllDepsInLockFile, Inv, Shape, Disk
    <3> QED BY Zenon, <3>1, <3>2, <3>3, TrimTidies
  <2> QED BY Zenon, <2>1, <2>2 DEF TidyInv
<1>5. CASE Finish
  <2>1. Disk' = Disk /\ stage = "trimmed" /\ manifest = before /\ stage' = "done"
    BY Zenon, <1>5 DEF Finish, Disk
  <2> QED BY Zenon, <2>1 DEF TidyInv
<1>6. CASE UNCHANGED vars
  <2>1. Disk' = Disk
    BY Zenon, <1>6 DEF vars, Disk
  <2> QED BY Zenon, <1>6, <2>1 DEF vars, TidyInv
<1>7. CASE Next
  <2>1. ASSUME NEW unused \in SUBSET Removable, Machete(unused)
        PROVE  stage = "fixed" \/ stage' = "ready"
    BY Zenon, <2>1 DEF Machete
  <2> QED BY Zenon, <1>1, <1>2, <1>3, <1>4, <1>5, <1>7, <2>1
          DEF Next, RemoveCrateTree, RemoveDependency, RemoveFeature, StartDevDependencies,
              VisitCrate, FinishDevDependencies, CargoCheck
<1> QED BY Zenon, <1>6, <1>7

\* patch.sh ends with a root manifest all of whose dependencies are used.
THEOREM EndsTidy == Spec => []WorkspaceTidy
<1>1. Init => TidyInv
  BY Zenon DEF Init, TidyInv
<1>2. TidyInv => WorkspaceTidy
  BY Zenon DEF TidyInv, Tidy, WorkspaceTidy, Disk
<1> QED BY InitInv, NextInv, NextTidy, <1>1, <1>2, PTL DEF Spec
=============================================================================
