\* The BOM image resolver over every bounded addon config and BOM.
CONSTANTS
    ImageRepository = "projects.registry.vmware.com/tkg"
    CorePackageRepositoryComponent = "tkg-core-packages"
    CorePackageRepositoryImage = "tkgCorePackageRepositoryImage"
    DataValueHeader = "#@data/values\n#@overlay/match-child-defaults missing_ok=True\n---\n"

SPECIFICATION Spec

INVARIANTS
    ImageInfoMatchesReference
    PackageTierIgnoresOtherFields
