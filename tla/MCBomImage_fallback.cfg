\* Spec 4.2 reads "first successful tier wins"; the resolver has no fallback.
CONSTANTS
    ImageRepository = "projects.registry.vmware.com/tkg"
    CorePackageRepositoryComponent = "tkg-core-packages"
    CorePackageRepositoryImage = "tkgCorePackageRepositoryImage"
    DataValueHeader = "#@data/values\n#@overlay/match-child-defaults missing_ok=True\n---\n"

SPECIFICATION Spec

INVARIANT
    TemplateFallsBack
