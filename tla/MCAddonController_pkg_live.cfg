\* PackageReconciler, progress: one addon secret with remote-annotation flips; weakly fair workers.
CONSTANTS
    r1 = r1
    r2 = r2
    Requests = {r1}
    AddonSecretNamespace <- MCAddonSecretNamespace
    AddonNameLabel <- MCAddonNameLabel
    ClusterNameLabel <- MCClusterNameLabel
    RemoteValues = {"", "true"}
    DataChoices <- MCDataChoices
    Boms = {"package", "package-next"}
    BomContent <- MCBomContent
    InitialBom = "package"
    ImageRepository = "projects.registry.vmware.com/tkg"
    Strategy = "package"
    TKGAddonsAppServiceAccount = "tkg-addons-app-sa"
    AppSyncPeriod = "5m0s"
    AppWaitTimeout = "30s"
    MutableRemote = TRUE
    MaxEnvSteps = 3
    MaxFailures = 1
    TKGAddonsAppNamespace = "tkg-system"
    ManagementCluster = "mgmt"
    CorePackageRepositoryComponent = "tkg-core-packages"
    CorePackageRepositoryImage = "tkgCorePackageRepositoryImage"
    DataValueHeader = "#@data/values\n#@overlay/match-child-defaults missing_ok=True\n---\n"

SPECIFICATION Spec

PROPERTIES
    EventuallyConverged
    DeleteCompletes
