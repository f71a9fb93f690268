SPECIFICATION Spec
CONSTANTS
    Names <- MCNames
    Crates <- MCCrates
    Folders <- MCFolders
    Within <- MCWithin
    Below <- MCBelow
    Spelled <- MCSpelled
    Packages <- MCPackages
    Package <- MCPackage
    Declares <- MCDeclares
    Tests <- MCTests
    Substrate <- MCSubstrate
    Aliased <- MCAliased
    Manifests <- MCManifests
    DefaultMembers <- MCDefaultMembers
    Unwanted <- MCUnwanted
    Workspace = "workspace"
INVARIANTS
    ManifestsConsistent
    NothingElseDropped
    WorkspaceTidy
CHECK_DEADLOCK FALSE
