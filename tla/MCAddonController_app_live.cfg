\* AppReconciler, progress: one addon secret under data, paused, delete and BOM changes and
\* transient errors; the work queue's workers are weakly fair.
CONSTANTS
    r1 = r1
    r2 = r2
    Requests = {r1}
    AddonSecretNamespace <- MCAddonSecretNamespace
    AddonNameLabel <- MCAddonNameLabel
    ClusterNameLabel <- MCClusterNameLabel
    RemoteValues = {"", "true"}
    DataChoices <- MCDataChoices
    Boms = {"legacy", "templates", "missing"}
    BomContent <- MCBomContent
    InitialBom = "legacy"
    ImageRepository = "projects.registry.vmware.com/tkg"
    Strategy = "app"
    TKGAddonsAppServiceAccount = "tkg-addons-app-sa"
    AppSyncPeriod = "5m0s"
    AppWaitTimeout = "30s"
    MutableRemote = FALSE
    MaxEnvSteps = 3
    MaxFailures = 1
    TKGAddonsAppNamespace = "tkg-system"
    ManagementCluster = "mgmt"
    CorePackageRepositoryComponent = "tkg-core-packages"
    CorePackageRepositoryImage = "tkgCorePackageRepositoryImage"
    DataValueHeader = "#@data/values\n#@overlay/match-child-defaults missing_ok=True\n---\n"

SPECIFICATION Spec

PROPERTIES
    EventuallyConverged
    LifecycleRefinement
