\* PackageReconciler: two addon secrets, local ones getting a PackageInstall
\* and remote ones an App, under data, paused, delete and BOM changes and
\* transient API errors, and each cluster's core package repository; two
\* changes (three make 3.9M states, past the mutant runs' time budget).
CONSTANTS
    r1 = r1
    r2 = r2
    Requests <- MCRequests
    AddonSecretNamespace <- MCAddonSecretNamespace
    AddonNameLabel <- MCAddonNameLabel
    ClusterNameLabel <- MCClusterNameLabel
    RemoteValues = {"", "true"}
    DataChoices <- MCDataChoices
    Boms = {"package", "package-next"}
    BomContent <- MCBomContent
    InitialBom = "package"
    ImageRepository = "projects.registry.vmware.com/tkg"
    Strategy = "package"
    TKGAddonsAppServiceAccount = "tkg-addons-app-sa"
    AppSyncPeriod = "5m0s"
    AppWaitTimeout = "30s"
    MutableRemote = FALSE
    MaxEnvSteps = 2
    MaxFailures = 1
    TKGAddonsAppNamespace = "tkg-system"
    ManagementCluster = "mgmt"
    CorePackageRepositoryComponent = "tkg-core-packages"
    CorePackageRepositoryImage = "tkgCorePackageRepositoryImage"
    DataValueHeader = "#@data/values\n#@overlay/match-child-defaults missing_ok=True\n---\n"

SPECIFICATION Spec

INVARIANTS
    QuiescentConverged
