---------------------------- MODULE MCPatchTool ----------------------------
(***************************************************************************)
(* A workspace for PatchTool: a crate outside substrate, a crate with a    *)
(* test crate in its folder, a crate whose path starts with the same       *)
(* string, and a crate that depends on them in every way a manifest can.   *)
(* The tests of gossip hold no crate, but a crate beside them is spelled   *)
(* with their path.                                                        *)
(* Name "N" is the package of network, "al" the root manifest's alias for  *)
(* it, "X" a package of the registry and "xl" an alias for another one.    *)
(***************************************************************************)
EXTENDS PatchTool, TLC

MCNames == {"B", "N", "G", "T", "C", "R", "X", "Y", "al", "xl", "own", "std", "f", "network"}
MCCrates == {"bridge", "network", "network-gossip", "network-test", "common", "runtime"}
MCFolders == {"bridges", "network", "network/test", "network-gossip", "network-gossip/test"}
MCWithin == {<<f, f>> : f \in MCFolders}
            \cup {<<"network/test", "network">>, <<"network-gossip/test", "network-gossip">>}
MCBelow == {<<"bridge", "bridges">>, <<"network", "network">>, <<"network-test", "network">>,
            <<"network-test", "network/test">>, <<"network-gossip", "network-gossip">>,
            <<"common", "network-gossip">>}
MCSpelled == MCBelow \cup {<<"network-gossip", "network">>, <<"common", "network">>,
                           <<"common", "network-gossip/test">>}
MCPackages == {"B", "N", "G", "T", "C", "R", "X", "Y"}
MCPackage == "bridge" :> "B" @@ "network" :> "N" @@ "network-gossip" :> "G"
             @@ "network-test" :> "T" @@ "common" :> "C" @@ "runtime" :> "R"
\* The manifest of network also names its library.
MCDeclares == [p \in MCCrates |-> {MCPackage[p]} \cup IF p = "network" THEN {"network"} ELSE {}]
MCTests == [p \in MCCrates |-> CASE p = "network" -> {"network/test"}
                                [] p = "network-gossip" -> {"network-gossip/test"}
                                [] OTHER -> {}]
MCSubstrate == MCCrates \ {"bridge"}
MCAliased == "N" :> "N" @@ "G" :> "G" @@ "T" :> "T" @@ "X" :> "X" @@ "al" :> "N" @@ "xl" :> "Y"
MCDefaultMembers == {{"network-test", "common", "runtime"}}
MCUnwanted == {"X", "f"}

None == [k \in {} |-> k]
Inherits(K) == [k \in K |-> "workspace"]
Deps(deps, build, dev) ==
    [t \in Tables |-> CASE t = "dependencies" -> deps
                        [] t = "build-dependencies" -> build
                        [] t = "dev-dependencies" -> dev]
Of(name, feature) == [form |-> "of", name |-> name, feature |-> feature]
Dep(name) == [form |-> "dep", name |-> name, feature |-> name]
Plain(name) == [form |-> "plain", name |-> name, feature |-> name]

MCManifests ==
    "bridge" :> {[deps |-> Deps(Inherits({"N"}), None, None), features |-> None]}
    @@ "network" :> {[deps |-> Deps(Inherits({"xl"}), None, Inherits({"T"})),
                      features |-> "f" :> {} @@ "std" :> {Of("xl", "std"), Plain("f")}]}
    @@ "network-test" :> {[deps |-> Deps(Inherits({"N", "X"}), None, None), features |-> None]}
    @@ "network-gossip" :> {[deps |-> Deps(Inherits(K), None, "own" :> "T"),
                             features |-> "std" :> {Of("own", "std")}] : K \in {{"N"}, {"al", "X"}}}
    @@ "common" :> {[deps |-> Deps(None, None, None), features |-> None]}
    @@ "runtime" :>
        {[deps |-> Deps(Inherits({"G", "X"}), Inherits({"al"}), Inherits({"X", "T"})),
          features |-> "std" :> {Of("X", "std"), Of("T", "std"), Of("al", "f"), Plain("G")}],
         [deps |-> Deps("own" :> "N" @@ Inherits({"xl"}), "own" :> "N", Inherits({"X"})),
          features |-> "std" :> {Of("own", "std"), Of("X", "std"), Dep("xl")}]}

=============================================================================
