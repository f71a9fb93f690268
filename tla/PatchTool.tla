------------------------------ MODULE PatchTool ------------------------------
(***************************************************************************)
(* The tool that derives the trimmed polkadot-sdk (src/main.rs,            *)
(* src/crate_toml.rs, src/workspace_toml.rs, src/discover.rs), driven by   *)
(* patch.sh: trees of crates, features, dependencies and tests are removed *)
(* from a cargo workspace, and every manifest that stays is edited to      *)
(* match.                                                                  *)
(*                                                                         *)
(* A crate is the folder that holds its manifest.  Names of packages, of   *)
(* dependency keys and of features are values of one set, as the strings   *)
(* of the manifests are.  Source edits (remove_trait), versions (upgrade)  *)
(* and the patches patch.sh applies to sources are left out.               *)
(***************************************************************************)
EXTENDS Naturals, FiniteSets

CONSTANTS
    Names,      \* packages, dependency keys and features
    Crates,     \* the crate folders of the checkout
    Folders,    \* the folders that are removed, with the crates below them
    Within,     \* <<folder, folder>>: the first is the second or lies in it
    Below,      \* <<crate, folder>>: the crate is the folder or lies in it
    Spelled,    \* <<crate, folder>>: the crate's path starts with the folder's string
    Packages,   \* the names that are packages, of the checkout or the registry
    Package,    \* the name of a crate's package
    Declares,   \* every name a crate's manifest has on a `name = "` line
    Tests,      \* the folders test, tests, benches and examples of a crate
    Substrate,  \* the crates in the folder substrate
    Aliased,    \* the dependencies of the workspace: key to package
    Manifests,  \* the manifests a crate may start with
    DefaultMembers, \* the default-members the root manifest may start with
    Unwanted,   \* the dependencies and features patch.sh removes by name
    Workspace   \* the specification `workspace = true`

Tables == {"dependencies", "build-dependencies", "dev-dependencies"}

\* The folders and names of the checkout.  Packages and aliases are told apart
\* by name: a name that is declared or that the workspace knows stands for one
\* package, and an alias is not the name of another package.
ASSUME NamesAssumption ==
    /\ \A f \in Folders : <<f, f>> \in Within
    /\ \A p \in Crates, f, g \in Folders : <<p, f>> \in Below /\ <<f, g>> \in Within => <<p, g>> \in Below
    /\ Below \subseteq Spelled
    /\ Substrate \subseteq Crates
    /\ DefaultMembers \subseteq SUBSET Substrate
    /\ Workspace \notin Names /\ Packages \subseteq Names
    /\ Package \in [Crates -> Packages]
    /\ Declares \in [Crates -> SUBSET Names]
    /\ Tests \in [Crates -> SUBSET Folders]
    /\ \A p \in Crates : Declares[p] \cap Packages = {Package[p]}
    /\ \A p, q \in Crates : p # q => Declares[p] \cap Declares[q] = {}
    /\ \A k \in DOMAIN Aliased :
           /\ k \in Names /\ Aliased[k] \in Packages
           /\ \A p \in Crates : k \in Declares[p] => k = Package[p]
           /\ k \in Packages => Aliased[k] = k

VARIABLES
    folders,    \* the folders that exist
    tree,       \* the crates whose folder exists
    members,    \* members of the root manifest
    defaults,   \* default-members of the root manifest; {} when the key is absent
    wsDeps,     \* dependencies of the root manifest: key to package
    manifest,   \* the manifest of each crate: dependency tables and features
    stage,      \* how far patch.sh is
    todo,       \* the crates remove_dev_dependencies has still to visit
    lock,       \* Cargo.lock: the packages each crate depends on
    before,     \* the manifests at the start of the loop's round
    given,      \* the manifests of the checkout (a history variable)
    asked,      \* the names given to remove_dependency (a history variable)
    disabled    \* the names given to remove_feature (a history variable)

vars == <<folders, tree, members, defaults, wsDeps, manifest, stage, todo, lock,
          before, given, asked, disabled>>

---------------------------------------------------------------------------
(* Manifests.                                                              *)

\* The package a dependency is on.
PackageOf(ws, table, k) ==
    IF table[k] # Workspace THEN table[k]
    ELSE IF k \in DOMAIN ws THEN ws[k] ELSE k

\* The manifests of the checkout: a dependency of the workspace is in the root
\* manifest, any other is on a package, under that name or under an alias that
\* means nothing else; a key is on the same package in all tables; a feature's
\* name/feature entry is on a dependency or a feature.
ASSUME ManifestsAssumption ==
    \A p \in Crates : \A m \in Manifests[p] :
        /\ DOMAIN m = {"deps", "features"} /\ DOMAIN m.deps = Tables
        /\ \A t \in Tables : \A k \in DOMAIN m.deps[t] :
               /\ k \in Names
               /\ m.deps[t][k] = Workspace => k \in DOMAIN Aliased
               /\ m.deps[t][k] # Workspace => m.deps[t][k] \in Packages
               /\ m.deps[t][k] \notin {k, Workspace} =>
                      k \notin Packages \cup DOMAIN Aliased \cup UNION {Declares[q] : q \in Crates}
               /\ \A u \in Tables : k \in DOMAIN m.deps[u] =>
                      PackageOf(Aliased, m.deps[t], k) = PackageOf(Aliased, m.deps[u], k)
        /\ \A f \in DOMAIN m.features : \A x \in m.features[f] :
               x.form = "of" => \/ \E t \in Tables : x.name \in DOMAIN m.deps[t]
                                \/ x.name \in DOMAIN m.features

\* A map without the keys in S (toml::Table::remove).
Drop(f, S) == [k \in DOMAIN f \ S |-> f[k]]

\* An entry of a feature is plain (a feature, or an optional dependency),
\* `dep:name`, or name/feature and name?/feature.  A `dep:` is not stripped.
remove_dependencies_from_features(features, d) ==
    [f \in DOMAIN features |-> {x \in features[f] : x.form = "dep" \/ x.name \notin d}]

\* The keys of a table that are another name for a package in d.
AliasesOf(table, d) ==
    {k \in DOMAIN table \ d : table[k] # Workspace /\ table[k] \in d}

\* The names known to be removed once the tables before t, in the order of the
\* code, were edited: an alias met in one table counts in the next.
Known(m, d, t) ==
    LET d2 == d \cup AliasesOf(m.deps["dependencies"], d)
        d3 == d2 \cup AliasesOf(m.deps["build-dependencies"], d2)
        d4 == d3 \cup AliasesOf(m.deps["dev-dependencies"], d3)
    IN  CASE t = "dependencies"       -> d
          [] t = "build-dependencies" -> d2
          [] t = "dev-dependencies"   -> d3
          [] OTHER                    -> d4

\* The alias of a removed crate is looked up in its own inner table, where no
\* such key is: it stays in the table it is in.
remove_dependencies(m, d) ==
    [deps |-> [t \in Tables |-> Drop(m.deps[t], Known(m, d, t))],
     features |-> remove_dependencies_from_features(m.features, Known(m, d, "features"))]

---------------------------------------------------------------------------
(* The workspace, as the tool reads and writes it.                         *)

\* The manifests as they are on disk.
Disk == [folders |-> folders, tree |-> tree, members |-> members, defaults |-> defaults,
         wsDeps |-> wsDeps, manifest |-> manifest]

\* A command writes what it changed.
Write(w) ==
    /\ folders' = w.folders
    /\ tree' = w.tree
    /\ members' = w.members
    /\ defaults' = w.defaults
    /\ wsDeps' = w.wsDeps
    /\ manifest' = w.manifest

\* The crates a folder holds.
discover_all_crates_in_folder(w, f) == {p \in w.tree : <<p, f>> \in Below}

\* The crates below the folders F.  A folder that does not exist is left alone.
Held(w, F) == UNION {discover_all_crates_in_folder(w, f) : f \in F \cap w.folders}

\* The members that go with F.  They are matched by the spelling of their
\* path, and also where a folder holds no crate.
Matched(w, F) == {p \in Crates : \E f \in F \cap w.folders : <<p, f>> \in Spelled}

\* Mutant: an alias in the workspace's dependencies is not looked for.
RemovedNamesDirect(w, F) == UNION {Declares[p] : p \in Held(w, F)}

\* The names that go with F: what the manifests below declare, and the
\* workspace's aliases of those.
RemovedNames(w, F) ==
    LET declared == UNION {Declares[p] : p \in Held(w, F)}
    IN  declared \cup {k \in DOMAIN w.wsDeps : w.wsDeps[k] \in declared}

\* The folders F, one after the other.
remove_folder_of_crates(w, F) ==
    LET rest == w.tree \ Held(w, F)
        names == RemovedNames(w, F)
    IN  [folders |-> {f \in w.folders : \A e \in F : <<f, e>> \notin Within},
         tree |-> rest,
         members |-> w.members \ Matched(w, F),
         defaults |-> w.defaults \ Matched(w, F),
         wsDeps |-> Drop(w.wsDeps, names),
         manifest |-> [p \in Crates |->
             IF p \in rest THEN remove_dependencies(w.manifest[p], names)
             ELSE w.manifest[p]]]

\* remove_feature in one manifest: its declaration, and name/feature entries
\* that activate it; plain entries stay.
WithoutFeature(m, feature) ==
    [deps |-> m.deps,
     features |-> [f \in DOMAIN m.features \ {feature} |->
         {x \in m.features[f] : ~(x.form = "of" /\ x.feature = feature)}]]

\* Mutant: the other kinds of dependencies are not looked at.
WithoutDevAll(m) ==
    LET dev == DOMAIN m.deps["dev-dependencies"]
    IN  [deps |-> [m.deps EXCEPT !["dev-dependencies"] = Drop(@, dev)],
         features |-> remove_dependencies_from_features(m.features, dev)]

\* remove_dev_dependencies in one manifest: a feature keeps an entry on a
\* name that is also another kind of dependency.
WithoutDev(m) ==
    LET dev == DOMAIN m.deps["dev-dependencies"]
        remaining == DOMAIN m.deps["dependencies"] \cup DOMAIN m.deps["build-dependencies"]
    IN  [deps |-> [m.deps EXCEPT !["dev-dependencies"] = Drop(@, dev)],
         features |-> remove_dependencies_from_features(m.features, dev \ remaining)]

\* What machete does to one manifest once cargo-machete removed the unused
\* dependencies: an entry of a feature stays if it is on a dependency of the
\* first kind or on a feature.
Macheted(m, unused) ==
    LET deps == Drop(m.deps["dependencies"], unused)
        named == DOMAIN deps \cup DOMAIN m.features
    IN  [deps |-> [m.deps EXCEPT !["dependencies"] = deps],
         features |-> [f \in DOMAIN m.features |-> {x \in m.features[f] : x.name \in named}]]

\* The packages a manifest depends on, as cargo writes them to Cargo.lock.
Locked(ws, m) ==
    UNION {{PackageOf(ws, m.deps[t], k) : k \in DOMAIN m.deps[t]} : t \in Tables}

---------------------------------------------------------------------------
(* The commands, in the order patch.sh gives them.                         *)

Stages == {"trees", "dev", "rest", "ready", "checked", "fixed", "macheted", "trimmed", "done"}

Init ==
    /\ folders = Folders
    /\ tree = Crates
    /\ members = Crates
    /\ defaults \in DefaultMembers
    /\ wsDeps = Aliased
    /\ manifest \in {m \in [Crates -> UNION {Manifests[p] : p \in Crates}] :
                        \A p \in Crates : m[p] \in Manifests[p]}
    /\ stage = "trees"
    /\ todo = {}
    /\ lock = [p \in Crates |-> {}]
    /\ before = manifest
    /\ given = manifest
    /\ asked = {}
    /\ disabled = {}

\* remove_crate_tree, before and after the tests are removed.
RemoveCrateTree(f) ==
    /\ stage \in {"trees", "rest"}
    /\ Write(remove_folder_of_crates(Disk, {f}))
    /\ UNCHANGED <<stage, todo, lock, before, given, asked, disabled>>

\* Every manifest of the tree, edited by the same function.
EachManifest(Edit(_)) ==
    manifest' = [p \in Crates |-> IF p \in tree THEN Edit(manifest[p]) ELSE manifest[p]]

\* remove_dependency: the root manifest is not edited.
RemoveDependency(d) ==
    /\ stage = "rest"
    /\ EachManifest(LAMBDA m : remove_dependencies(m, {d}))
    /\ asked' = asked \cup {d}
    /\ UNCHANGED <<folders, tree, members, defaults, wsDeps, stage, todo, lock, before, given, disabled>>

\* remove_feature.  The features a dependency is declared with are left out.
RemoveFeature(f) ==
    /\ stage \in {"trees", "rest"}
    /\ EachManifest(LAMBDA m : WithoutFeature(m, f))
    /\ disabled' = disabled \cup {f}
    /\ UNCHANGED <<folders, tree, members, defaults, wsDeps, stage, todo, lock, before, given, asked>>

\* remove_dev_dependencies lists the crates once, in the order of the file
\* system.  patch.sh removed the trees besides substrate by then.
StartDevDependencies ==
    /\ stage = "trees"
    /\ tree \subseteq Substrate
    /\ stage' = "dev"
    /\ todo' = tree
    /\ UNCHANGED <<folders, tree, members, defaults, wsDeps, manifest, lock, before, given, asked, disabled>>

\* The body of its loop: a crate that went with the tests of another is
\* skipped; the manifest is read after the crate's own tests are removed.
VisitCrate(p) ==
    /\ stage = "dev"
    /\ p \in todo
    /\ todo' = todo \ {p}
    /\ LET w == remove_folder_of_crates(Disk, Tests[p])
       IN  IF p \notin tree THEN UNCHANGED <<folders, tree, members, defaults, wsDeps, manifest>>
           ELSE Write([w EXCEPT !.manifest[p] = WithoutDev(@)])
    /\ UNCHANGED <<stage, lock, before, given, asked, disabled>>

FinishDevDependencies ==
    /\ stage = "dev"
    /\ todo = {}
    /\ stage' = "rest"
    /\ UNCHANGED <<folders, tree, members, defaults, wsDeps, manifest, todo, lock, before, given, asked, disabled>>

\* The crates cargo builds: the members, and the crates they depend on.
Built(w) ==
    {p \in w.tree : \A S \in SUBSET w.tree :
        (/\ w.members \cap w.tree \subseteq S
         /\ \A q \in S : \A r \in w.tree :
                Package[r] \in Locked(w.wsDeps, w.manifest[q]) => r \in S)
        => p \in S}

\* What cargo writes to Cargo.lock (external).
Lockfile ==
    [p \in Crates |-> IF p \in Built(Disk) THEN Locked(wsDeps, manifest[p]) ELSE {}]

CargoCheck ==
    /\ stage = "ready"
    /\ stage' = "checked"
    /\ lock' = Lockfile
    /\ UNCHANGED <<folders, tree, members, defaults, wsDeps, manifest, todo, before, given, asked, disabled>>

\* A round of the loop starts with the state of the files and cargo fix.  The
\* loop also goes on when cargo fix changed sources, which are left out.
CargoFix ==
    /\ stage \in {"checked", "trimmed"}
    /\ stage' = "fixed"
    /\ before' = manifest
    /\ lock' = Lockfile
    /\ UNCHANGED <<folders, tree, members, defaults, wsDeps, manifest, todo, given, asked, disabled>>

\* machete, once before the first check and once in each round: cargo-machete
\* (external) finds some dependencies unused.
Machete(unused) ==
    /\ stage \in {"rest", "fixed"}
    /\ stage' = IF stage = "rest" THEN "ready" ELSE "macheted"
    /\ manifest' = [p \in Crates |->
           IF p \in tree \cap Substrate
           THEN Macheted(manifest[p], {k \in Names : <<p, k>> \in unused})
           ELSE manifest[p]]
    /\ UNCHANGED <<folders, tree, members, defaults, wsDeps, todo, lock, before, given, asked, disabled>>

\* The names that the packages of substrate have as dependencies in Cargo.lock.
AllDepsInLockFile == UNION {lock[p] : p \in tree \cap Substrate}

\* Mutant: aliases are not checked.
UnlockedKeys == {k \in DOMAIN wsDeps : k \notin AllDepsInLockFile}

\* trim_workspace_dependencies: a key stays if it, or the package it is an
\* alias for, is in Cargo.lock.
Unlocked == {k \in DOMAIN wsDeps : k \notin AllDepsInLockFile /\ wsDeps[k] \notin AllDepsInLockFile}

TrimWorkspaceDependencies ==
    /\ stage = "macheted"
    /\ stage' = "trimmed"
    /\ wsDeps' = Drop(wsDeps, Unlocked)
    /\ UNCHANGED <<folders, tree, members, defaults, manifest, todo, lock, before, given, asked, disabled>>

\* Mutant: the loop ends after any round.
FinishAnyRound ==
    /\ stage = "trimmed"
    /\ stage' = "done"
    /\ UNCHANGED <<folders, tree, members, defaults, wsDeps, manifest, todo, lock, before, given, asked, disabled>>

\* The loop ends when a round changed no file of substrate.
Finish ==
    /\ stage = "trimmed"
    /\ manifest = before
    /\ stage' = "done"
    /\ UNCHANGED <<folders, tree, members, defaults, wsDeps, manifest, todo, lock, before, given, asked, disabled>>

\* The dependencies that cargo-machete may find unused.
Removable == {e \in tree \X Names : e[2] \in DOMAIN manifest[e[1]].deps["dependencies"]}

Next ==
    \/ \E f \in Folders : RemoveCrateTree(f)
    \/ \E d \in Unwanted : RemoveDependency(d)
    \/ \E f \in Unwanted : RemoveFeature(f)
    \/ StartDevDependencies
    \/ \E p \in Crates : VisitCrate(p)
    \/ FinishDevDependencies
    \/ \E unused \in SUBSET Removable : Machete(unused)
    \/ CargoCheck
    \/ CargoFix
    \/ TrimWorkspaceDependencies
    \/ Finish

Spec == Init /\ [][Next]_vars

---------------------------------------------------------------------------
(* Properties.                                                             *)

\* The variables hold what they are declared to hold.
TypeOK ==
    /\ folders \subseteq Folders
    /\ tree \subseteq Crates
    /\ DOMAIN wsDeps \subseteq DOMAIN Aliased
    /\ \A p \in Crates : \A t \in Tables :
           DOMAIN manifest[p].deps[t] \subseteq DOMAIN given[p].deps[t]
    /\ stage \in Stages
    /\ todo \subseteq Crates
    /\ lock \in [Crates -> SUBSET Names]
    /\ asked \subseteq Unwanted /\ disabled \subseteq Unwanted

\* A member of the workspace is a crate that exists, whichever trees and tests
\* were removed, and a default member is a member: cargo refuses the whole
\* workspace otherwise (remove_folder_of_crates, remove_from_default_members).
MembersExist == members \subseteq tree /\ defaults \subseteq members

\* The package was in the checkout and its crate was removed.
Removed(package) ==
    /\ \E r \in Crates : Package[r] = package
    /\ ~ \E r \in tree : Package[r] = package

\* A dependency `workspace = true` of a crate that cargo builds is in the root
\* manifest, on a package that was not removed: removals edit the root and
\* every manifest alike, and trimming, which goes by a Cargo.lock older than
\* the last machete, drops nothing that is used.
WorkspaceDepsResolve ==
    \A p \in Built(Disk) : \A t \in Tables : \A k \in DOMAIN manifest[p].deps[t] :
        manifest[p].deps[t][k] = Workspace => k \in DOMAIN wsDeps /\ ~Removed(wsDeps[k])

\* A dependency that stays although its crate was removed is one that a
\* manifest has under an alias of its own (see AliasesRemoved).
OnlyOwnAliasesLeft ==
    \A p \in tree : \A t \in Tables : \A k \in DOMAIN manifest[p].deps[t] :
        Removed(PackageOf(Aliased, manifest[p].deps[t], k)) => manifest[p].deps[t][k] \notin {k, Workspace}

Early == stage \in {"trees", "dev", "rest"}

\* Before machete a feature's name/feature entry is on a dependency of its
\* crate, unless a feature has that name too; `dep:` entries and entries on
\* removed features are left behind (remove_dependencies_from_features).
\* From machete on, when cargo runs, every entry of every form names one of
\* the manifest's "dependencies" or one of its features.
FeatureEntriesResolve ==
    \A p \in tree : \A f \in DOMAIN manifest[p].features :
        \A x \in manifest[p].features[f] :
            /\ x.form = "of" => \/ \E t \in Tables : x.name \in DOMAIN manifest[p].deps[t]
                               \/ x.name \in DOMAIN given[p].features
            /\ ~Early => x.name \in DOMAIN manifest[p].deps["dependencies"] \cup DOMAIN manifest[p].features

\* However removals, visits, machete and trimming are ordered, the members of
\* the workspace exist, what a crate that is built has from the workspace is
\* in the root manifest, no dependency on a removed crate is left but under a
\* manifest's own alias, and the entries of features name what is there, all
\* of them from machete on.
ManifestsConsistent ==
    TypeOK /\ MembersExist /\ WorkspaceDepsResolve /\ OnlyOwnAliasesLeft /\ FeatureEntriesResolve

\* A crate goes only with a folder it is in.  A crate that is left is no member
\* any more only if its path starts with the string of a removed folder
\* (remove_from_members).
OnlyBelowRemoved ==
    /\ \A p \in Crates \ tree : \E f \in Folders \ folders : <<p, f>> \in Below
    /\ \A p \in tree \ members : \E f \in Folders \ folders : <<p, f>> \in Spelled

\* A crate, and the root manifest, keep their dependencies on what was not
\* removed: a removed name never takes another package's dependency along.
\* (remove_dev_dependencies removes all dev-dependencies.)
OnlyRemovedDropped ==
    /\ \A p \in tree : \A t \in {"dependencies", "build-dependencies"} :
           \A k \in DOMAIN given[p].deps[t] \ DOMAIN manifest[p].deps[t] :
               \/ Removed(PackageOf(Aliased, given[p].deps[t], k))
               \/ {k, PackageOf(Aliased, given[p].deps[t], k)} \cap asked # {}
    /\ \A k \in DOMAIN Aliased \ DOMAIN wsDeps : Removed(Aliased[k])

\* The names that went: those given to remove_dependency, those that removed
\* manifests declare, and the workspace's aliases of these.
GoneNames ==
    LET declared == UNION {Declares[p] : p \in Crates \ tree}
    IN  asked \cup declared \cup {k \in DOMAIN Aliased : Aliased[k] \in declared}

\* A feature goes only by remove_feature, and an entry of another feature only
\* if it activates such a feature, or by its name: entries on a dependency and
\* on a feature look alike, so an entry goes with a name that went, with a
\* manifest's own alias for one, and with a dev-dependency that is no other
\* kind of dependency of the crate.  A `dep:` entry stays.
OnlyMatchingEntriesDropped ==
    \A p \in tree :
        /\ DOMAIN given[p].features \ DOMAIN manifest[p].features \subseteq disabled
        /\ \A f \in DOMAIN manifest[p].features : \A x \in given[p].features[f] \ manifest[p].features[f] :
               \/ x.form = "of" /\ x.feature \in disabled
               \/ /\ x.form # "dep"
                  /\ \/ x.name \in GoneNames
                     \/ \E t \in Tables : /\ x.name \in DOMAIN given[p].deps[t]
                                          /\ given[p].deps[t][x.name] \in GoneNames
                     \/ /\ x.name \in DOMAIN given[p].deps["dev-dependencies"]
                        /\ \A t \in {"dependencies", "build-dependencies"} :
                               x.name \notin DOMAIN manifest[p].deps[t]

\* remove_folder_of_crates, remove_dependency, remove_feature and
\* remove_dev_dependencies take nothing along but what matches, by name or by
\* the spelling of a path, what they were asked to remove.
NothingElseDropped ==
    /\ OnlyBelowRemoved
    /\ Early => OnlyRemovedDropped /\ OnlyMatchingEntriesDropped

\* The root manifest that patch.sh ends with has no dependency that no crate
\* uses: the loop ends only after a round in which Cargo.lock was current when
\* trim_workspace_dependencies read it.
WorkspaceTidy ==
    stage = "done" =>
        \A k \in DOMAIN wsDeps : \E p \in Built(Disk) :
            {k, wsDeps[k]} \cap Locked(wsDeps, manifest[p]) # {}

\* A dependency on a removed crate is removed, also when a manifest has it
\* under an alias ("If this dependency is an alias for a removed crate,
\* remove it", crate_toml.rs:43).
AliasesRemoved ==
    \A p \in tree : \A t \in Tables : \A k \in DOMAIN manifest[p].deps[t] :
        ~Removed(PackageOf(wsDeps, manifest[p].deps[t], k))

=============================================================================
