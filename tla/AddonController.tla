--------------------------- MODULE AddonController ---------------------------
(***************************************************************************)
(* The addon reconciliation engine: the App and Package strategies of     *)
(* src/addons/controllers, the naming and BOM helpers they call, and the   *)
(* driver that invokes them once per addon secret.                        *)
(*                                                                         *)
(* The driver (the addon controller's Reconcile, not under src/) is        *)
(* modelled from the spec: a controller-runtime work queue that never      *)
(* processes one addon secret twice at once, reads the secret and the BOM  *)
(* when it starts, then either reconciles the kapp resource and the        *)
(* data-values secret (normal), or deletes the kapp resource and removes   *)
(* its finalizer (delete), and requeues the secret on any error.           *)
(***************************************************************************)
EXTENDS Naturals, FiniteSets, Sequences, TLC, AddonNaming, BomImage, KubeStore

CONSTANTS
    Requests,              \* the addon secrets (model values)
    AddonSecretNamespace,  \* [Requests -> namespace of the addon secret]
    AddonNameLabel,        \* [Requests -> value of the addon-name label]
    ClusterNameLabel,      \* [Requests -> value of the cluster-name label]
    RemoteValues,          \* values the remote-app annotation may take ("" = absent)
    DataChoices,           \* data maps an addon secret may carry
    Boms,                  \* names of the BOMs (one per TKR)
    BomContent,            \* [Boms -> [images |-> ..., addons |-> [addon name -> config]]]
    InitialBom,            \* the BOM in effect at the start
    ImageRepository,
    Strategy,              \* "app" (AppReconciler) or "package" (PackageReconciler)
    TKGAddonsAppServiceAccount,  \* addonconstants.TKGAddonsAppServiceAccount
    AppSyncPeriod,         \* Config.AppSyncPeriod
    AppWaitTimeout,        \* Config.AppWaitTimeout
    MutableRemote,         \* may the remote-app annotation change on a live secret?
    MaxEnvSteps,           \* bound on changes made to secrets and BOM
    MaxFailures            \* bound on transient API errors

ASSUME Strategy \in {"app", "package"} /\ InitialBom \in Boms
ASSUME \A b \in Boms, r \in Requests : AddonNameLabel[r] \in DOMAIN BomContent[b].addons

VARIABLES
    req,       \* [Requests -> addon secret record + phase]
    bom,       \* the BOM in effect
    store,     \* the API servers' objects: <<cluster, kind, namespace, name>> -> object
    queue,     \* addon secrets waiting in the work queue
    wk,        \* [Requests -> [pc, snap, bom]]: the reconcile in progress
    envSteps,
    failures,
    repoQueue  \* workload clusters whose core package repository awaits a reconcile

vars == <<req, bom, store, queue, wk, envSteps, failures, repoQueue>>

Phases == {"live", "deleting", "none"}
Pcs == {"idle", "kapp", "values", "delete"}

(***************************************************************************)
(* Desired objects                                                         *)
(***************************************************************************)
\* vars.TKGAddonsServiceAccount
TKGAddonsServiceAccount == "tkg-addons-app-sa"

\* The workload clusters of the addon secrets.
Clusters == {ClusterNameLabel[r] : r \in Requests}

\* The package strategy reconciles each cluster's core package repository
\* when the cluster is reconciled: at start and on every BOM change.
RepoQueueOnBomChange == IF Strategy = "package" THEN Clusters ELSE {}

TKGAddonsNamespace == "tkg-system"
TKGCorePackageRepositoryName == "core"
CoreRepositoryKey(cluster) ==
    <<cluster, "PackageRepository", TKGAddonsNamespace, TKGCorePackageRepositoryName>>
EmptyPackageRepository == [fetch |-> ""]

\* The objects CreateOrPatch starts from when the Get finds nothing.
NoKubeconfig == [name |-> "", key |-> ""]
EmptyApp ==
    [annotations |-> EmptyMap, cluster |-> NoKubeconfig, serviceAccountName |-> "",
     syncPeriod |-> "", fetch |-> [kind |-> "", url |-> ""],
     template |-> [paths |-> <<>>, secretRef |-> "", kbld |-> <<>>],
     deploy |-> <<>>, noopDelete |-> FALSE]
EmptyPackageInstall ==
    [annotations |-> EmptyMap,
     spec |-> [serviceAccountName |-> "", refName |-> "", prereleases |-> FALSE, values |-> <<>>]]
EmptySecret == [type |-> "", data |-> EmptyMap]

\* util.GetClusterKubeconfigSecretDetails: cluster-api's "<cluster>-kubeconfig", key "value".
GetClusterKubeconfigSecretDetails(addonSecret) ==
    [name |-> GetClusterNameFromAddonSecret(addonSecret) \o "-kubeconfig", key |-> "value"]

\* util.TrimAddonDataValueAnnotations: drops the ytt annotation lines of a value.
TrimAddonDataValueAnnotations(v) == [v EXCEPT !.annotated = FALSE]

\* The three addon annotations every kapp resource gets.
AddonAnnotations(addonSecret, addonConfig) ==
    ("addon-type" :> addonConfig.category \o "/" \o GetAddonNameFromAddonSecret(addonSecret))
    @@ ("addon-name" :> addonSecret.name)
    @@ ("addon-namespace" :> addonSecret.namespace)

KappKey(addonSecret, kind) ==
    <<GetClientFromAddonSecret(addonSecret), kind,
      GenerateAppNamespaceFromAddonSecret(addonSecret), GenerateAppNameFromAddonSecret(addonSecret)>>
DataValuesKey(addonSecret) ==
    <<GetClientFromAddonSecret(addonSecret), "Secret",
      GenerateAppNamespaceFromAddonSecret(addonSecret), GenerateAppSecretNameFromAddonSecret(addonSecret)>>

(***************************************************************************)
(* Read-only lookups of util (addon_util.go), for callers outside this    *)
(* snapshot.  localClient is the management cluster's client and          *)
(* remoteClient the addon's cluster's, as the reconcilers pass them.      *)
(***************************************************************************)
\* Mutation: the clients are swapped.
GetAppSwappedClients(st, canFail, addonSecret) ==
    LET clusterClient == IF IsRemoteApp(addonSecret) THEN GetClusterNameFromAddonSecret(addonSecret)
                         ELSE ManagementCluster
    IN  GetOutcomes(st, canFail, <<clusterClient, "App", GenerateAppNamespaceFromAddonSecret(addonSecret),
                                   GenerateAppNameFromAddonSecret(addonSecret)>>)

\* util.GetApp: Get the App at the derived name and namespace, through the
\* local client for a remote App and the remote client otherwise.
GetApp(st, canFail, addonSecret) ==
    LET clusterClient == IF IsRemoteApp(addonSecret) THEN ManagementCluster
                         ELSE GetClusterNameFromAddonSecret(addonSecret)
    IN  GetOutcomes(st, canFail, <<clusterClient, "App", GenerateAppNamespaceFromAddonSecret(addonSecret),
                                   GenerateAppNameFromAddonSecret(addonSecret)>>)

\* util.GetInstalledPackageFromAddonSecret: Get the InstalledPackage (API
\* group installpackage) at the derived name and namespace through the
\* client the caller passes.
GetInstalledPackageFromAddonSecret(st, canFail, clusterClient, addonSecret) ==
    GetOutcomes(st, canFail, <<clusterClient, "InstalledPackage", GenerateAppNamespaceFromAddonSecret(addonSecret),
                               GenerateAppNameFromAddonSecret(addonSecret)>>)

\* util.IsAppPresent and util.IsInstalledPackagePresent: NotFound is
\* Ok(FALSE), any other error is returned, a found object is Ok(TRUE).
Presence(o) == IF o.notFound THEN Ok(FALSE) ELSE IF o.err THEN Failed ELSE Ok(TRUE)
IsAppPresent(st, canFail, addonSecret) == {Presence(o) : o \in GetApp(st, canFail, addonSecret)}
IsInstalledPackagePresent(st, canFail, clusterClient, addonSecret) ==
    {Presence(o) : o \in GetInstalledPackageFromAddonSecret(st, canFail, clusterClient, addonSecret)}

\* The kind of kapp resource the strategy maintains for a secret.
KappKind(addonSecret) ==
    IF Strategy = "package" /\ ~IsRemoteApp(addonSecret) THEN "PackageInstall" ELSE "App"

(***************************************************************************)
(* Mutate functions: each returns Ok(object) or Failed.                    *)
(***************************************************************************)
\* AppReconciler.ReconcileAddonKappResourceNormal, appMutateFn
AppMutateFn(remoteApp, addonSecret, addonConfig, b, app) ==
    LET url == GetTemplateImageUrl(addonConfig, ImageRepository, b) IN
    IF url.err THEN Failed
    ELSE Ok([app EXCEPT
             !.annotations = AddonAnnotations(addonSecret, addonConfig) @@ @,
             !.cluster = IF remoteApp THEN GetClusterKubeconfigSecretDetails(addonSecret) ELSE @,
             !.serviceAccountName = IF remoteApp THEN @ ELSE TKGAddonsAppServiceAccount,
             !.syncPeriod = AppSyncPeriod,
             !.fetch = [kind |-> "image", url |-> url.val],
             !.template = [paths |-> <<>>,
                           secretRef |-> GenerateAppSecretNameFromAddonSecret(addonSecret),
                           kbld |-> <<>>],
             !.deploy = <<"--wait-timeout=" \o AppWaitTimeout>>,
             !.noopDelete = IF remoteApp THEN TRUE ELSE @])

\* PackageReconciler.ReconcileAddonKappResourceNormal, remote arm, appMutateFn
PackageRemoteAppMutateFn(addonSecret, addonConfig, b, app) ==
    LET url == GetTemplateImageUrl(addonConfig, ImageRepository, b) IN
    IF url.err THEN Failed
    ELSE Ok([app EXCEPT
             !.annotations = AddonAnnotations(addonSecret, addonConfig) @@ @,
             !.cluster = GetClusterKubeconfigSecretDetails(addonSecret),
             !.syncPeriod = AppSyncPeriod,
             !.fetch = [kind |-> "imgpkgBundle", url |-> url.val],
             !.template = [paths |-> <<"config">>,
                           secretRef |-> GenerateAppSecretNameFromAddonSecret(addonSecret),
                           kbld |-> <<"-", ".imgpkg/images.yml">>],
             !.deploy = <<"--wait-timeout=" \o AppWaitTimeout>>,
             !.noopDelete = TRUE])

\* PackageReconciler.ReconcileAddonKappResourceNormal, local arm, ipkgMutateFn
PackageInstallMutateFn(addonSecret, addonConfig, ipkg) ==
    Ok([ipkg EXCEPT
        !.annotations = AddonAnnotations(addonSecret, addonConfig) @@ @,
        !.spec = [serviceAccountName |-> TKGAddonsServiceAccount,
                  refName |-> addonConfig.packageName,
                  prereleases |-> TRUE,
                  values |-> <<GenerateAppSecretNameFromAddonSecret(addonSecret)>>]])

\* Mutation: the secret type is never set.
AppDataValuesMutateFnNoType(addonSecret, addonConfig, b, secret) ==
    LET imageInfo == GetImageInfo(addonConfig, ImageRepository, b) IN
    IF Len(addonConfig.addonContainerImages) > 0 /\ imageInfo.err THEN Failed
    ELSE Ok([secret EXCEPT !.data = IF Len(addonConfig.addonContainerImages) > 0
                                    THEN ("imageInfo.yaml" :> imageInfo.val) @@ addonSecret.data
                                    ELSE addonSecret.data])

\* Mutation: Data is not reset, so keys removed from the addon secret stay.
AppDataValuesMutateFnMerge(addonSecret, addonConfig, b, secret) ==
    LET imageInfo == GetImageInfo(addonConfig, ImageRepository, b) IN
    IF Len(addonConfig.addonContainerImages) > 0 /\ imageInfo.err THEN Failed
    ELSE Ok([secret EXCEPT !.type = "Opaque",
             !.data = (IF Len(addonConfig.addonContainerImages) > 0
                       THEN ("imageInfo.yaml" :> imageInfo.val) @@ addonSecret.data
                       ELSE addonSecret.data) @@ @])

\* AppReconciler.ReconcileAddonDataValuesSecretNormal, addonDataValuesSecretMutateFn
AppDataValuesMutateFn(addonSecret, addonConfig, b, secret) ==
    LET imageInfo == GetImageInfo(addonConfig, ImageRepository, b) IN
    IF Len(addonConfig.addonContainerImages) > 0 /\ imageInfo.err THEN Failed
    ELSE Ok([secret EXCEPT
             !.type = "Opaque",
             !.data = IF Len(addonConfig.addonContainerImages) > 0
                      THEN ("imageInfo.yaml" :> imageInfo.val) @@ addonSecret.data
                      ELSE addonSecret.data])

\* Mutation: the values are copied without trimming their annotations.
PackageDataValuesMutateFnNoTrim(addonSecret, secret) ==
    Ok([secret EXCEPT !.type = "Opaque", !.data = addonSecret.data])

\* PackageReconciler.ReconcileAddonDataValuesSecretNormal, addonDataValuesSecretMutateFn
PackageDataValuesMutateFn(addonSecret, secret) ==
    Ok([secret EXCEPT
        !.type = "Opaque",
        !.data = [k \in DOMAIN addonSecret.data |->
                     TrimAddonDataValueAnnotations(addonSecret.data[k])]])

(***************************************************************************)
(* State                                                                   *)
(***************************************************************************)
AddonSecret(r, phase, remoteApp, paused, data) ==
    [phase |-> phase, name |-> r, namespace |-> AddonSecretNamespace[r],
     addonName |-> AddonNameLabel[r], clusterName |-> ClusterNameLabel[r],
     remoteApp |-> remoteApp, paused |-> paused, data |-> data]

\* A worker holds no snapshot between reconciles.
IdleWorker == [pc |-> "idle"]

TypeOK ==
    /\ \A r \in Requests :
          /\ req[r].phase \in Phases /\ req[r].remoteApp \in RemoteValues
          /\ req[r].paused \in BOOLEAN /\ req[r].data \in DataChoices
          /\ wk[r].pc \in Pcs
    /\ bom \in Boms
    /\ queue \subseteq Requests
    /\ \A k \in DOMAIN store :
          /\ k[2] \in {"App", "PackageInstall", "Secret", "PackageRepository"}
          /\ k[2] = "Secret" => store[k].type = "Opaque"
    /\ envSteps \in 0..MaxEnvSteps /\ failures \in 0..MaxFailures
    /\ repoQueue \subseteq Clusters

Init ==
    /\ req \in {[r \in Requests |-> AddonSecret(r, "live", v[r], FALSE, d[r])] :
                v \in [Requests -> RemoteValues], d \in [Requests -> DataChoices]}
    /\ bom = InitialBom
    /\ store = EmptyMap
    /\ queue = Requests
    /\ wk = [r \in Requests |-> IdleWorker]
    /\ envSteps = 0
    /\ failures = 0
    /\ repoQueue = RepoQueueOnBomChange

CanFail == failures < MaxFailures

(***************************************************************************)
(* Driver (spec_modelled): dequeue a secret, read it and the BOM, and pick *)
(* the path; a deleted secret whose finalizer is gone needs nothing, a     *)
(* paused one is skipped.                                                  *)
(***************************************************************************)
StartReconcile(r) ==
    /\ r \in queue
    /\ wk[r].pc = "idle"
    /\ queue' = queue \ {r}
    /\ wk' = [wk EXCEPT ![r] =
                CASE req[r].phase = "none"     -> IdleWorker
                  [] req[r].phase = "deleting" -> [pc |-> "delete", snap |-> req[r], bom |-> bom]
                  [] IsAddonPaused(req[r])     -> IdleWorker
                  [] OTHER                     -> [pc |-> "kapp", snap |-> req[r], bom |-> bom]]
    /\ UNCHANGED <<req, bom, store, envSteps, failures, repoQueue>>

\* A reconciler call returned: go on to pc on success, requeue on error.
Return(r, ok, failed, pc) ==
    /\ failures' = failures + (IF failed THEN 1 ELSE 0)
    /\ IF ok THEN /\ wk' = [wk EXCEPT ![r] = IF pc = "idle" THEN IdleWorker ELSE [@ EXCEPT !.pc = pc]]
                  /\ UNCHANGED queue
             ELSE /\ wk' = [wk EXCEPT ![r] = IdleWorker]
                  /\ queue' = queue \cup {r}

\* The addon config of the snapshot, bom.GetAddon(addonName).
SnapBom(r) == BomContent[wk[r].bom]
SnapConfig(r) == SnapBom(r).addons[GetAddonNameFromAddonSecret(wk[r].snap)]

(***************************************************************************)
(* AppReconciler                                                           *)
(***************************************************************************)
\* Mutation: a CreateOrPatch error is logged and not returned.
AppReconcileKappNormalIgnoreError(r) ==
    LET s == wk[r].snap
        M(app) == AppMutateFn(IsRemoteApp(s), s, SnapConfig(r), SnapBom(r), app)
    IN  /\ Strategy = "app" /\ wk[r].pc = "kapp"
        /\ \E o \in CreateOrPatch(store, CanFail, KappKey(s, "App"), EmptyApp, M) :
              store' = o.store /\ Return(r, TRUE, o.failed, "values")
        /\ UNCHANGED <<req, bom, envSteps, repoQueue>>

\* ReconcileAddonKappResourceNormal
AppReconcileKappNormal(r) ==
    LET s == wk[r].snap
        M(app) == AppMutateFn(IsRemoteApp(s), s, SnapConfig(r), SnapBom(r), app)
    IN  /\ Strategy = "app" /\ wk[r].pc = "kapp"
        /\ \E o \in CreateOrPatch(store, CanFail, KappKey(s, "App"), EmptyApp, M) :
              /\ store' = o.store
              /\ Return(r, o.ok, o.failed, "values")
        /\ UNCHANGED <<req, bom, envSteps, repoQueue>>

\* ReconcileAddonDataValuesSecretNormal
AppReconcileDataValues(r) ==
    LET s == wk[r].snap
        M(secret) == AppDataValuesMutateFn(s, SnapConfig(r), SnapBom(r), secret)
    IN  /\ Strategy = "app" /\ wk[r].pc = "values"
        /\ \E o \in CreateOrPatch(store, CanFail, DataValuesKey(s), EmptySecret, M) :
              /\ store' = o.store
              /\ Return(r, o.ok, o.failed, "idle")
        /\ UNCHANGED <<req, bom, envSteps, repoQueue>>

\* ReconcileAddonKappResourceDelete (NotFound is success), then the driver
\* removes the finalizer.
FinishDelete(r, o) ==
    /\ store' = o.store
    /\ Return(r, o.ok \/ o.notFound, o.failed, "idle")
    /\ req' = IF o.ok \/ o.notFound THEN [req EXCEPT ![r].phase = "none"] ELSE req

\* Mutation: every Delete error is treated like NotFound.
AppReconcileKappDeleteIgnoreError(r) ==
    /\ Strategy = "app" /\ wk[r].pc = "delete"
    /\ \E o \in DeleteOutcomes(store, CanFail, KappKey(wk[r].snap, "App")) :
          FinishDelete(r, [o EXCEPT !.ok = TRUE])
    /\ UNCHANGED <<bom, envSteps, repoQueue>>

\* Mutation: NotFound is returned as an error.
AppReconcileKappDeleteNotFoundIsError(r) ==
    /\ Strategy = "app" /\ wk[r].pc = "delete"
    /\ \E o \in DeleteOutcomes(store, CanFail, KappKey(wk[r].snap, "App")) :
          FinishDelete(r, [o EXCEPT !.notFound = FALSE])
    /\ UNCHANGED <<bom, envSteps, repoQueue>>

AppReconcileKappDelete(r) ==
    /\ Strategy = "app" /\ wk[r].pc = "delete"
    /\ \E o \in DeleteOutcomes(store, CanFail, KappKey(wk[r].snap, "App")) : FinishDelete(r, o)
    /\ UNCHANGED <<bom, envSteps, repoQueue>>

(***************************************************************************)
(* PackageReconciler                                                       *)
(***************************************************************************)
\* ReconcileAddonKappResourceNormal, remote arm: an App fetching the bundle.
PackageReconcileKappNormalRemote(r) ==
    LET s == wk[r].snap
        M(app) == PackageRemoteAppMutateFn(s, SnapConfig(r), SnapBom(r), app)
    IN  /\ Strategy = "package" /\ wk[r].pc = "kapp" /\ IsRemoteApp(s)
        /\ \E o \in CreateOrPatch(store, CanFail, KappKey(s, "App"), EmptyApp, M) :
              /\ store' = o.store
              /\ Return(r, o.ok, o.failed, "values")
        /\ UNCHANGED <<req, bom, envSteps, repoQueue>>

\* ReconcileAddonKappResourceNormal, local arm: a PackageInstall.
PackageReconcileKappNormalLocal(r) ==
    LET s == wk[r].snap
        M(ipkg) == PackageInstallMutateFn(s, SnapConfig(r), ipkg)
    IN  /\ Strategy = "package" /\ wk[r].pc = "kapp" /\ ~IsRemoteApp(s)
        /\ \E o \in CreateOrPatch(store, CanFail, KappKey(s, "PackageInstall"), EmptyPackageInstall, M) :
              /\ store' = o.store
              /\ Return(r, o.ok, o.failed, "values")
        /\ UNCHANGED <<req, bom, envSteps, repoQueue>>

\* Mutation: a CreateOrPatch error is logged and not returned.
PackageReconcileDataValuesIgnoreError(r) ==
    LET s == wk[r].snap
        M(secret) == PackageDataValuesMutateFn(s, secret)
    IN  /\ Strategy = "package" /\ wk[r].pc = "values"
        /\ \E o \in CreateOrPatch(store, CanFail, DataValuesKey(s), EmptySecret, M) :
              store' = o.store /\ Return(r, TRUE, o.failed, "idle")
        /\ UNCHANGED <<req, bom, envSteps, repoQueue>>

\* ReconcileAddonDataValuesSecretNormal
PackageReconcileDataValues(r) ==
    LET s == wk[r].snap
        M(secret) == PackageDataValuesMutateFn(s, secret)
    IN  /\ Strategy = "package" /\ wk[r].pc = "values"
        /\ \E o \in CreateOrPatch(store, CanFail, DataValuesKey(s), EmptySecret, M) :
              /\ store' = o.store
              /\ Return(r, o.ok, o.failed, "idle")
        /\ UNCHANGED <<req, bom, envSteps, repoQueue>>

\* Mutation: NotFound is returned as an error.
PackageReconcileKappDeleteNotFoundIsError(r) ==
    /\ Strategy = "package" /\ wk[r].pc = "delete"
    /\ \E o \in DeleteOutcomes(store, CanFail, KappKey(wk[r].snap, "PackageInstall")) :
          FinishDelete(r, [o EXCEPT !.notFound = FALSE])
    /\ UNCHANGED <<bom, envSteps, repoQueue>>

\* ReconcileAddonKappResourceDelete: deletes the PackageInstall.
PackageReconcileKappDelete(r) ==
    /\ Strategy = "package" /\ wk[r].pc = "delete"
    /\ \E o \in DeleteOutcomes(store, CanFail, KappKey(wk[r].snap, "PackageInstall")) : FinishDelete(r, o)
    /\ UNCHANGED <<bom, envSteps, repoQueue>>

\* reconcileCorePackageRepository: the core PackageRepository fetches the
\* imgpkg bundle the BOM names.  A missing image returns the error before
\* any API call, and the cluster stays queued.
PackageReconcileCoreRepository(c) ==
    LET image == GetCorePackageRepositoryImageFromBom(BomContent[bom])
        M(repo) == Ok([repo EXCEPT !.fetch = ImageURL(ImageRepository, image.val.path, image.val.tag)])
    IN  /\ Strategy = "package" /\ c \in repoQueue
        /\ IF image.err THEN UNCHANGED <<store, failures, repoQueue>>
           ELSE \E o \in CreateOrPatch(store, CanFail, CoreRepositoryKey(c), EmptyPackageRepository, M) :
                   /\ store' = o.store
                   /\ failures' = failures + (IF o.failed THEN 1 ELSE 0)
                   /\ repoQueue' = IF o.ok THEN repoQueue \ {c} ELSE repoQueue
        /\ UNCHANGED <<req, bom, queue, wk, envSteps>>

(***************************************************************************)
(* Environment: users and upgrades change addon secrets and the BOM; each *)
(* change enqueues the secrets it concerns.                                *)
(***************************************************************************)
EnvStep(r, new) ==
    /\ envSteps < MaxEnvSteps
    /\ envSteps' = envSteps + 1
    /\ req' = [req EXCEPT ![r] = new]
    /\ queue' = queue \cup {r}
    /\ UNCHANGED <<bom, store, wk, failures, repoQueue>>

CreateAddonSecret(r) ==
    /\ req[r].phase = "none"
    /\ \E v \in RemoteValues, d \in DataChoices :
          EnvStep(r, AddonSecret(r, "live", v, FALSE, d))

UpdateAddonData(r) ==
    /\ req[r].phase = "live"
    /\ \E d \in DataChoices \ {req[r].data} : EnvStep(r, [req[r] EXCEPT !.data = d])

SetRemoteAnnotation(r) ==
    /\ MutableRemote /\ req[r].phase = "live"
    /\ \E v \in RemoteValues \ {req[r].remoteApp} : EnvStep(r, [req[r] EXCEPT !.remoteApp = v])

TogglePaused(r) ==
    /\ req[r].phase = "live"
    /\ EnvStep(r, [req[r] EXCEPT !.paused = ~@])

DeleteAddonSecret(r) ==
    /\ req[r].phase = "live"
    /\ EnvStep(r, [req[r] EXCEPT !.phase = "deleting"])

ChangeBom ==
    /\ envSteps < MaxEnvSteps
    /\ \E b \in Boms \ {bom} : bom' = b
    /\ envSteps' = envSteps + 1
    /\ queue' = queue \cup {r \in Requests : req[r].phase = "live"}
    /\ repoQueue' = RepoQueueOnBomChange
    /\ UNCHANGED <<req, store, wk, failures>>

(***************************************************************************)
(* Specification                                                           *)
(***************************************************************************)
\* Nothing is queued and no reconcile is in progress.
Quiescent == queue = {} /\ repoQueue = {} /\ \A r \in Requests : wk[r].pc = "idle"

Reconcile(r) ==
    \/ StartReconcile(r)
    \/ AppReconcileKappNormal(r) \/ AppReconcileDataValues(r) \/ AppReconcileKappDelete(r)
    \/ PackageReconcileKappNormalRemote(r) \/ PackageReconcileKappNormalLocal(r)
    \/ PackageReconcileDataValues(r) \/ PackageReconcileKappDelete(r)

Environment ==
    \/ \E r \in Requests :
          \/ CreateAddonSecret(r) \/ UpdateAddonData(r) \/ SetRemoteAnnotation(r)
          \/ TogglePaused(r) \/ DeleteAddonSecret(r)
    \/ ChangeBom

\* With the queue drained the controller waits for the next event.
WaitForEvents == Quiescent /\ UNCHANGED vars

Next ==
    \/ \E r \in Requests : Reconcile(r)
    \/ \E c \in Clusters : PackageReconcileCoreRepository(c)
    \/ Environment
    \/ WaitForEvents

\* The work queue's workers take every queued secret and finish every call.
Fairness ==
    /\ \A r \in Requests : WF_vars(Reconcile(r))
    /\ \A c \in Clusters : WF_vars(PackageReconcileCoreRepository(c))

Spec == Init /\ [][Next]_vars /\ Fairness

(***************************************************************************)
(* Properties                                                              *)
(***************************************************************************)
\* What the spec says the objects of a live secret must be under the BOM in
\* effect (spec 3, 4.3, 4.4, 4.5), and whether the BOM lets them be built.
ConfigOf(s) == BomContent[bom].addons[s.addonName]
TemplateURL(s) == GetTemplateImageUrl(ConfigOf(s), ImageRepository, BomContent[bom])
ImageInfoOf(s) == GetImageInfo(ConfigOf(s), ImageRepository, BomContent[bom])
HasContainerImages(s) == Len(ConfigOf(s).addonContainerImages) > 0

Buildable(s) ==
    /\ KappKind(s) = "App" => ~TemplateURL(s).err
    /\ (Strategy = "app" /\ HasContainerImages(s)) => ~ImageInfoOf(s).err

KappUpToDate(s) ==
    LET key == KappKey(s, KappKind(s))
        o   == store[key]
    IN  /\ key \in DOMAIN store
        /\ o.annotations["addon-name"] = s.name
        /\ IF KappKind(s) = "PackageInstall"
           THEN /\ o.spec.refName = ConfigOf(s).packageName
                /\ o.spec.values = <<GenerateAppSecretNameFromAddonSecret(s)>>
           ELSE /\ o.fetch.url = TemplateURL(s).val
                /\ o.template.secretRef = GenerateAppSecretNameFromAddonSecret(s)
                /\ o.noopDelete = IsRemoteApp(s)
                /\ IsRemoteApp(s) => o.cluster = GetClusterKubeconfigSecretDetails(s)

ExpectedData(s) ==
    IF Strategy = "package"
    THEN [k \in DOMAIN s.data |-> [s.data[k] EXCEPT !.annotated = FALSE]]
    ELSE IF HasContainerImages(s) THEN ("imageInfo.yaml" :> ImageInfoOf(s).val) @@ s.data
    ELSE s.data

DataValuesUpToDate(s) ==
    DataValuesKey(s) \in DOMAIN store /\ store[DataValuesKey(s)].data = ExpectedData(s)

\* The core package repository of a cluster under the BOM in effect.
CoreRepositoryUpToDate(c) ==
    LET image == GetCorePackageRepositoryImageFromBom(BomContent[bom])
        key   == CoreRepositoryKey(c)
    IN  (Strategy = "package" /\ ~image.err) =>
            key \in DOMAIN store /\ store[key].fetch = ImageURL(ImageRepository, image.val.path, image.val.tag)

Converged(r) ==
    LET s == req[r] IN
    (s.phase = "live" /\ ~IsAddonPaused(s) /\ Buildable(s))
        => KappUpToDate(s) /\ DataValuesUpToDate(s)

\* Once the work queues have drained, every live, unpaused addon secret whose
\* BOM resolves has its kapp resource and data-values secret as the current
\* secret and BOM say, and under the package strategy every cluster's core
\* package repository fetches the current BOM's bundle, whatever changes, failures and requeues came before
\* (the reconcilers' CreateOrPatch calls against the driver's snapshots).
QuiescentConverged ==
    Quiescent => (\A r \in Requests : Converged(r)) /\ \A c \in Clusters : CoreRepositoryUpToDate(c)

\* Once the work queue has drained, every App or PackageInstall in the store
\* is the kapp resource of a live addon secret: a deleted secret leaves none
\* behind (ReconcileAddonKappResourceDelete, spec 3 lifecycle).
NoOrphanKappResource ==
    Quiescent =>
        \A k \in DOMAIN store : k[2] \in {"App", "PackageInstall"} =>
            \E r \in Requests : req[r].phase = "live" /\ k = KappKey(req[r], KappKind(req[r]))

\* The same for data-values secrets (spec 3: derived objects are deleted
\* when the addon secret is removed).
NoOrphanDataValuesSecret ==
    Quiescent =>
        \A k \in DOMAIN store : k[2] = "Secret" =>
            \E r \in Requests : req[r].phase = "live" /\ k = DataValuesKey(req[r])

\* Once the work queue has drained, util.IsAppPresent answers for the App
\* the App strategy maintains: present for every live, unpaused secret
\* whose BOM resolves, absent for every secret that is gone.  GetApp
\* derives the App's cluster again instead of calling
\* GetClientFromAddonSecret, so the two routings must stay in step.
AppPresenceAgrees ==
    Quiescent =>
        \A r \in Requests :
            /\ (req[r].phase = "live" /\ ~IsAddonPaused(req[r]) /\ Buildable(req[r]))
                   => IsAppPresent(store, FALSE, req[r]) = {Ok(TRUE)}
            /\ req[r].phase = "none" => IsAppPresent(store, FALSE, req[r]) = {Ok(FALSE)}

\* Once changes and transient errors stop, the objects of every live secret
\* converge and stay converged (requeue on error, snapshot re-read).
EventuallyConverged ==
    <>[]((\A r \in Requests : Converged(r)) /\ \A c \in Clusters : CoreRepositoryUpToDate(c))

\* A deleted addon secret is eventually released: the delete reconcile
\* succeeds, a NotFound App or PackageInstall included.
DeleteCompletes == \A r \in Requests : req[r].phase = "deleting" ~> req[r].phase = "none"

(***************************************************************************)
(* Refinement: the controller implements AddonLifecycle.  A secret counts *)
(* as deployed while some App or PackageInstall carries its name in the  *)
(* addon-name annotation, wherever that object lives.                    *)
(***************************************************************************)
KappOwners ==
    {r \in Requests : \E k \in DOMAIN store :
        k[2] \in {"App", "PackageInstall"} /\ store[k].annotations["addon-name"] = r}

Lifecycle == INSTANCE AddonLifecycle WITH
    phase <- [r \in Requests |-> req[r].phase], deployed <- KappOwners

\* Every step of the controller and its users is a step of AddonLifecycle:
\* kapp resources are written only for secrets that exist (a reconcile
\* snapshotted before a delete may still write), and the delete reconcile
\* releases a secret (drops its finalizer) in the step that removes the
\* last object annotated with it, never leaving one behind.
LifecycleSafety == Lifecycle!SafetySpec

\* The same, with AddonLifecycle's promise that every deleting secret is
\* eventually released, under the work queue's weak fairness.
LifecycleRefinement == Lifecycle!Spec
=============================================================================
