------------------------------ MODULE MCBomImage ------------------------------
(***************************************************************************)
(* The BOM image resolver checked over bounded inputs.  The state is the  *)
(* addon config and the BOM the resolver is asked about; every step swaps *)
(* one of them, as a TKR upgrade or an edited BOM does.  Every config and *)
(* BOM below is a state, so each invariant is checked on all of them:     *)
(* 36 addon configs (package name, addonTemplatesImage, legacy fields and *)
(* container images that repeat an imageRef across two components) and    *)
(* the 256 BOMs over four image pairs with three possible entries each.   *)
(***************************************************************************)
EXTENDS BomImage, Naturals, FiniteSets

CONSTANT ImageRepository

VARIABLES addonConfig, bom

vars == <<addonConfig, bom>>

PackageName == "antrea.tanzu.vmware.com"
PackagePair == <<CorePackageRepositoryComponent, PackageName>>
TemplatePair == <<"tanzu_core_addons", "antreaTemplatesImage">>
\* One imageRef offered by two components.
ImagePairs == {<<"antrea", "antreaImage">>, <<"antrea-debug", "antreaImage">>}

Entries == {[path |-> "antrea/antrea-debian", tag |-> "v0.11.3"],
            [path |-> "antrea/antrea-debug", tag |-> "v0.11.3"],
            [path |-> "", tag |-> "v0.11.3"]}

Boms ==
    UNION {[images : [D -> Entries]] : D \in SUBSET ({PackagePair, TemplatePair} \cup ImagePairs)}

Refs(c, refs) == [componentRef |-> c, imageRefs |-> refs]

Configs ==
    [category : {"cni"},
     packageName : {"", PackageName},
     addonTemplatesImage : {<<>>, <<Refs("tanzu_core_addons", <<"antreaTemplatesImage">>)>>,
                            <<Refs("tanzu_core_addons", <<>>)>>},
     templatesImagePath : {"addons/antrea-templates"},
     templatesImageTag : {"", "98adbf4"},
     addonContainerImages : {<<>>,
                             <<Refs("antrea", <<"antreaImage">>), Refs("antrea-debug", <<"antreaImage">>)>>,
                             <<Refs("antrea-debug", <<"antreaImage">>), Refs("antrea", <<"antreaImage">>)>>}]

Init == addonConfig \in Configs /\ bom \in Boms

ChangeConfig == \E c \in Configs \ {addonConfig} : addonConfig' = c /\ UNCHANGED bom
ChangeBom == \E b \in Boms \ {bom} : bom' = b /\ UNCHANGED addonConfig

Next == ChangeConfig \/ ChangeBom

Spec == Init /\ [][Next]_vars

\* Two results agree: both errors, or both values and equal.
Agrees(a, b) == a.err = b.err /\ (~a.err => a.val = b.val)

(***************************************************************************)
(* Reference for GetImageInfo, stated over positions rather than a loop:  *)
(* the lookup fails when any listed (component, imageRef) pair is missing *)
(* from the BOM; otherwise each imageRef maps to the entry of the pair    *)
(* that comes last in the order the config lists them.                    *)
(***************************************************************************)
Positions(c) ==
    UNION {{<<i, j>> : j \in 1..Len(c.addonContainerImages[i].imageRefs)} :
               i \in 1..Len(c.addonContainerImages)}
PairAt(c, p) ==
    <<c.addonContainerImages[p[1]].componentRef, c.addonContainerImages[p[1]].imageRefs[p[2]]>>
Before(p, q) == p[1] < q[1] \/ (p[1] = q[1] /\ p[2] < q[2])
LastPosition(c, ref) ==
    CHOOSE p \in Positions(c) :
        PairAt(c, p)[2] = ref /\ \A q \in Positions(c) : PairAt(c, q)[2] = ref => ~Before(p, q)

ImageInfoReference(c, b) ==
    IF \E p \in Positions(c) : PairAt(c, p) \notin DOMAIN b.images THEN Failed
    ELSE Ok(<<DataValueHeader,
              [imageRepository |-> ImageRepository,
               imagePullPolicy |-> TKGAddonsImagePullPolicy,
               images |-> [ref \in {PairAt(c, p)[2] : p \in Positions(c)} |->
                             LET e == b.images[PairAt(c, LastPosition(c, ref))]
                             IN  [imagePath |-> e.path, tag |-> e.tag]]]>>)

\* GetImageInfo (the nested loop over AddonContainerImages, stopping at the
\* first failed lookup and overwriting a repeated imageRef) yields exactly
\* the reference: an error iff a pair is missing, else the last pair wins.
ImageInfoMatchesReference ==
    Agrees(GetImageInfo(addonConfig, ImageRepository, bom), ImageInfoReference(addonConfig, bom))

\* GetTemplateImageUrl with a package name set depends on nothing but the
\* package's BOM entry (spec 8): every config with the same package name
\* resolves alike, whatever its addonTemplatesImage and legacy fields say,
\* and a failed package lookup is not rescued by them.
PackageTierIgnoresOtherFields ==
    addonConfig.packageName # "" =>
        \A c \in Configs : c.packageName = addonConfig.packageName =>
            Agrees(GetTemplateImageUrl(c, ImageRepository, bom),
                   GetTemplateImageUrl(addonConfig, ImageRepository, bom))

(***************************************************************************)
(* Spec 4.2 also says "first successful tier wins".                      *)
(***************************************************************************)
TierResolves(src) == ~src.err /\ src.val.path # "" /\ src.val.tag # ""
PackageTier(c, b) == BomGetImageInfo(b, CorePackageRepositoryComponent, c.packageName)
TemplatesTier(c, b) ==
    IF Len(c.addonTemplatesImage) > 0 /\ Len(c.addonTemplatesImage[1].imageRefs) > 0
    THEN BomGetImageInfo(b, c.addonTemplatesImage[1].componentRef, c.addonTemplatesImage[1].imageRefs[1])
    ELSE Failed
LegacyTier(c) == Ok([path |-> c.templatesImagePath, tag |-> c.templatesImageTag])

\* Spec 4.2: the template image resolves whenever one of the tiers the
\* config declares resolves (the first successful tier wins), i.e.
\* GetTemplateImageUrl falls back from a failed tier to the next.
TemplateFallsBack ==
    LET declared == (IF addonConfig.packageName # "" THEN {PackageTier(addonConfig, bom)} ELSE {})
                    \cup {TemplatesTier(addonConfig, bom), LegacyTier(addonConfig)}
    IN  (\E src \in declared : TierResolves(src))
            => ~GetTemplateImageUrl(addonConfig, ImageRepository, bom).err
=============================================================================
