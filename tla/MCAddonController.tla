-------------------------- MODULE MCAddonController --------------------------
(***************************************************************************)
(* Model values for AddonController: two addon secrets for the antrea     *)
(* addon of two workload clusters in namespace "default" (as in the       *)
(* controller's tests), values with and without ytt annotations, and BOMs *)
(* in the legacy format, the addonTemplatesImage format with container    *)
(* images, the package format, and one whose template image is missing.  *)
(***************************************************************************)
EXTENDS AddonController

CONSTANTS r1, r2

MCRequests == {r1, r2}
MCAddonSecretNamespace == [r \in MCRequests |-> "default"]
MCAddonNameLabel == [r \in MCRequests |-> "antrea"]
MCClusterNameLabel == (r1 :> "wc1") @@ (r2 :> "wc2")

\* Data maps: values.yaml carrying ytt annotations, then a second version
\* that also has an extra key.
ValuesA == [body |-> "serviceCidr: 100.64.0.0/13", annotated |-> TRUE]
ValuesB == [body |-> "serviceCidr: 100.96.0.0/13", annotated |-> TRUE]
MCDataChoices ==
    { "values.yaml" :> ValuesA,
      ("values.yaml" :> ValuesB) @@ ("extra.yaml" :> [body |-> "x: 1", annotated |-> FALSE]) }

AntreaConfig(pkg, ati, path, tag, aci) ==
    [category |-> "cni", packageName |-> pkg, addonTemplatesImage |-> ati,
     templatesImagePath |-> path, templatesImageTag |-> tag, addonContainerImages |-> aci]

\* tkr v1.18: legacy templatesImagePath/Tag, no container images.
BomLegacy ==
    [images |-> EmptyMap,
     addons |-> "antrea" :> AntreaConfig("", <<>>, "addons/antrea-templates", "98adbf4", <<>>)]

\* tkr v1.20: addonTemplatesImage and addonContainerImages.
BomTemplates ==
    [images |-> (<<"tanzu_core_addons", "antreaTemplatesImage">> :>
                    [path |-> "tanzu_core/addons/antrea-templates", tag |-> "v1.3.1"])
                @@ (<<"antrea", "antreaImage">> :>
                    [path |-> "antrea/antrea-debian", tag |-> "v0.11.3_vmware.2"]),
     addons |-> "antrea" :> AntreaConfig("",
                   <<[componentRef |-> "tanzu_core_addons", imageRefs |-> <<"antreaTemplatesImage">>]>>,
                   "", "",
                   <<[componentRef |-> "antrea", imageRefs |-> <<"antreaImage">>]>>)]

\* A BOM whose addonTemplatesImage names an image it does not list.
BomMissingImage ==
    [images |-> EmptyMap,
     addons |-> "antrea" :> AntreaConfig("",
                   <<[componentRef |-> "tanzu_core_addons", imageRefs |-> <<"antreaTemplatesImage">>]>>,
                   "", "", <<>>)]

\* A BOM of the packaging API: the template image is the package's bundle.
BomPackage ==
    [images |-> (<<"tkg-core-packages", "antrea.tanzu.vmware.com">> :>
                    [path |-> "packages/core/antrea", tag |-> "v0.13.3"]
                @@ (<<"tkg-core-packages", "tkgCorePackageRepositoryImage">> :>
                    [path |-> "packages/core/repo", tag |-> "v1.20.4"])),
     addons |-> "antrea" :> AntreaConfig("antrea.tanzu.vmware.com", <<>>, "", "", <<>>)]

\* The next TKR's package BOM: a newer package bundle.
BomPackageNext ==
    [images |-> (<<"tkg-core-packages", "antrea.tanzu.vmware.com">> :>
                    [path |-> "packages/core/antrea", tag |-> "v0.13.4"]
                @@ (<<"tkg-core-packages", "tkgCorePackageRepositoryImage">> :>
                    [path |-> "packages/core/repo", tag |-> "v1.20.5"])),
     addons |-> "antrea" :> AntreaConfig("antrea.tanzu.vmware.com", <<>>, "", "", <<>>)]

MCBomContent ==
    ("legacy" :> BomLegacy) @@ ("templates" :> BomTemplates)
    @@ ("missing" :> BomMissingImage) @@ ("package" :> BomPackage)
    @@ ("package-next" :> BomPackageNext)
=============================================================================
