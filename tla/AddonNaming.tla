----------------------------- MODULE AddonNaming -----------------------------
(***************************************************************************)
(* Naming and routing of the objects derived from an addon secret          *)
(* (src/addons/pkg/util/addon_util.go).  An addon secret is a record       *)
(*   [name, namespace, addonName, clusterName, remoteApp, paused, data]    *)
(* where addonName and clusterName are its two labels ("" when the label   *)
(* is missing), remoteApp is the value of the remote-app annotation ("" when *)
(* absent) and paused is TRUE when the paused annotation is present.       *)
(* Names are strings, so fmt.Sprintf is string concatenation here.         *)
(***************************************************************************)
EXTENDS Sequences

CONSTANTS
    TKGAddonsAppNamespace,   \* constants.TKGAddonsAppNamespace
    ManagementCluster        \* the cluster the controller runs on (localClient)

\* The strings strconv.ParseBool accepts as true; every other string is
\* either false or a parse error, and IsRemoteApp drops the error.
ParseBoolTrue == {"1", "t", "T", "TRUE", "true", "True"}

\* GetAddonNameFromAddonSecret / GetClusterNameFromAddonSecret
GetAddonNameFromAddonSecret(addonSecret) == addonSecret.addonName
GetClusterNameFromAddonSecret(addonSecret) == addonSecret.clusterName

\* IsRemoteApp
IsRemoteApp(addonSecret) ==
    addonSecret.remoteApp # "" /\ addonSecret.remoteApp \in ParseBoolTrue

\* IsAddonPaused: the paused annotation is present.
IsAddonPaused(addonSecret) == addonSecret.paused

\* GenerateAppNameFromAddonSecret: "" when a label it needs is missing.
GenerateAppNameFromAddonSecret(addonSecret) ==
    LET addonName   == GetAddonNameFromAddonSecret(addonSecret)
        clusterName == GetClusterNameFromAddonSecret(addonSecret)
    IN  IF addonName = "" THEN ""
        ELSE IF IsRemoteApp(addonSecret)
             THEN IF clusterName = "" THEN "" ELSE clusterName \o "-" \o addonName
             ELSE addonName

\* GenerateAppSecretNameFromAddonSecret: "-data-values" when the app name is "".
GenerateAppSecretNameFromAddonSecret(addonSecret) ==
    GenerateAppNameFromAddonSecret(addonSecret) \o "-data-values"

\* GenerateAppNamespaceFromAddonSecret
GenerateAppNamespaceFromAddonSecret(addonSecret) ==
    IF IsRemoteApp(addonSecret) THEN addonSecret.namespace ELSE TKGAddonsAppNamespace

\* GetClientFromAddonSecret: a remote App lives on the management cluster
\* (localClient); everything else on the addon's own cluster (remoteClient).
GetClientFromAddonSecret(addonSecret) ==
    IF IsRemoteApp(addonSecret) THEN ManagementCluster
    ELSE GetClusterNameFromAddonSecret(addonSecret)
=============================================================================
