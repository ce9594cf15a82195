\* Two remote addon secrets whose App names collide: they overwrite one App.
CONSTANTS
    r1 = r1
    r2 = r2
    Requests <- CollisionRequests
    AddonSecretNamespace <- CollisionNamespace
    AddonNameLabel <- CollisionAddonName
    ClusterNameLabel <- CollisionClusterName
    RemoteValues = {"true"}
    DataChoices <- CollisionData
    Boms = {"legacy"}
    BomContent <- CollisionBomContent
    InitialBom = "legacy"
    ImageRepository = "projects.registry.vmware.com/tkg"
    Strategy = "app"
    TKGAddonsAppServiceAccount = "tkg-addons-app-sa"
    AppSyncPeriod = "5m0s"
    AppWaitTimeout = "30s"
    MutableRemote = FALSE
    MaxEnvSteps = 0
    MaxFailures = 0
    TKGAddonsAppNamespace = "tkg-system"
    ManagementCluster = "mgmt"
    CorePackageRepositoryComponent = "tkg-core-packages"
    CorePackageRepositoryImage = "tkgCorePackageRepositoryImage"
    DataValueHeader = "#@data/values\n#@overlay/match-child-defaults missing_ok=True\n---\n"

SPECIFICATION Spec

INVARIANT
    QuiescentConverged
