\* tanzu plugin list/install/upgrade/delete/clean over three plugins and
\* three repositories.
CONSTANTS
    Plugins <- MCPlugins
    CoreName = "core"
    AllPlugins = "all"
    VersionLatest <- MCVersionLatest
    ConfigRepos <- MCConfigRepos
    LocalRepos <- MCLocalRepos
    Catalog <- MCCatalog
    RepoSelector <- MCRepoSelector
    NameOrder <- MCNameOrder
SPECIFICATION Spec
INVARIANTS
    
    ListRowsComplete
