--------------------------- MODULE MCAddonCollision ---------------------------
(***************************************************************************)
(* Two remote addon secrets in one namespace whose names concatenate to   *)
(* the same App name: addon "cni-antrea" of cluster "wc" and addon        *)
(* "antrea" of cluster "wc-cni" are both "wc-cni-antrea".                 *)
(***************************************************************************)
EXTENDS AddonController

CONSTANTS r1, r2

CollisionRequests == {r1, r2}
CollisionNamespace == [r \in CollisionRequests |-> "default"]
CollisionAddonName == (r1 :> "cni-antrea") @@ (r2 :> "antrea")
CollisionClusterName == (r1 :> "wc") @@ (r2 :> "wc-cni")

CollisionData == {"values.yaml" :> [body |-> "serviceCidr: 100.64.0.0/13", annotated |-> TRUE]}

LegacyConfig(path) ==
    [category |-> "cni", packageName |-> "", addonTemplatesImage |-> <<>>,
     templatesImagePath |-> path, templatesImageTag |-> "98adbf4", addonContainerImages |-> <<>>]

CollisionBomContent ==
    "legacy" :> [images |-> EmptyMap,
                 addons |-> ("antrea" :> LegacyConfig("addons/antrea-templates"))
                            @@ ("cni-antrea" :> LegacyConfig("addons/cni-antrea-templates"))]
=============================================================================
