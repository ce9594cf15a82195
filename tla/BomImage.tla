------------------------------ MODULE BomImage ------------------------------
(***************************************************************************)
(* The BOM image resolver of the addon controller                          *)
(* (src/addons/pkg/util/addon_util.go): how the template image URL of an   *)
(* addon, the core package repository image and the imageInfo document of  *)
(* its container images are resolved from the Bill of Materials.           *)
(*                                                                         *)
(* A BOM is a record [images |-> f] where f maps <<component, imageRef>>  *)
(* to [path, tag]; bom.GetImageInfo(component, "", imageRef) fails exactly *)
(* when the pair is not in DOMAIN f.  An addon config is a record with the *)
(* fields of bomtypes.Addon the resolver reads.                            *)
(***************************************************************************)
EXTENDS Sequences, SequencesExt, TLC

CONSTANTS
    CorePackageRepositoryComponent,  \* constants.TKGCorePackageRepositoryComponentName
    CorePackageRepositoryImage,      \* constants.TKGCorePackageRepositoryImageName
    DataValueHeader                  \* constants.TKGDataValueFormatString

\* vars.TKGAddonsImagePullPolicy
TKGAddonsImagePullPolicy == "IfNotPresent"

\* The two outcomes of a call that returns (value, error).
Ok(v) == [err |-> FALSE, val |-> v]
Failed == [err |-> TRUE, val |-> "none"]

\* An empty Go map.
EmptyMap == [x \in {} |-> "none"]

\* bom.GetImageInfo(component, "", imageRef)
BomGetImageInfo(bom, component, imageRef) ==
    IF <<component, imageRef>> \in DOMAIN bom.images
    THEN Ok(bom.images[<<component, imageRef>>])
    ELSE Failed

\* fmt.Sprintf("%s/%s:%s", imageRepository, path, tag)
ImageURL(imageRepository, path, tag) ==
    imageRepository \o "/" \o path \o ":" \o tag

\* GetCorePackageRepositoryImageFromBom
GetCorePackageRepositoryImageFromBom(bom) ==
    BomGetImageInfo(bom, CorePackageRepositoryComponent, CorePackageRepositoryImage)

(***************************************************************************)
(* GetTemplateImageUrl: the package image when PackageName is set, the    *)
(* legacy path/tag when AddonTemplatesImage has no first image reference, *)
(* the first AddonTemplatesImage reference otherwise.  A failed lookup or *)
(* an empty path or tag is an error; no tier falls back to the next.      *)
(***************************************************************************)
\* Mutation: addonTemplatesImage is consulted before packageName.
TemplateImageSourceTemplatesFirst(addonConfig, bom) ==
    LET ati == addonConfig.addonTemplatesImage IN
    IF Len(ati) > 0 /\ Len(ati[1].imageRefs) > 0
    THEN BomGetImageInfo(bom, ati[1].componentRef, ati[1].imageRefs[1])
    ELSE IF addonConfig.packageName # ""
    THEN BomGetImageInfo(bom, CorePackageRepositoryComponent, addonConfig.packageName)
    ELSE Ok([path |-> addonConfig.templatesImagePath, tag |-> addonConfig.templatesImageTag])

TemplateImageSource(addonConfig, bom) ==
    LET ati == addonConfig.addonTemplatesImage IN
    IF addonConfig.packageName # ""
    THEN BomGetImageInfo(bom, CorePackageRepositoryComponent, addonConfig.packageName)
    ELSE IF Len(ati) < 1 \/ Len(ati[1].imageRefs) < 1
    THEN Ok([path |-> addonConfig.templatesImagePath,
             tag  |-> addonConfig.templatesImageTag])
    ELSE BomGetImageInfo(bom, ati[1].componentRef, ati[1].imageRefs[1])

GetTemplateImageUrl(addonConfig, imageRepository, bom) ==
    LET src == TemplateImageSource(addonConfig, bom) IN
    IF src.err \/ src.val.path = "" \/ src.val.tag = ""
    THEN Failed
    ELSE Ok(ImageURL(imageRepository, src.val.path, src.val.tag))

(***************************************************************************)
(* GetImageInfo: the nested loop over AddonContainerImages and their      *)
(* ImageRefs, returning on the first failed lookup; a later reference     *)
(* with the same name overwrites an earlier one.  The result is the       *)
(* marshalled AddonImageInfo appended to the data-value header, kept here *)
(* as the pair <<header, document>>.                                      *)
(***************************************************************************)
\* The (componentRef, imageRef) pairs in the order the loops visit them.
ContainerImagePairs(addonConfig) ==
    LET refs == addonConfig.addonContainerImages IN
    FlattenSeq([i \in 1..Len(refs) |->
        [j \in 1..Len(refs[i].imageRefs) |-> <<refs[i].componentRef, refs[i].imageRefs[j]>>]])

\* Mutation: the first pair with a repeated imageRef wins.
RECURSIVE CollectImagesFirstWins(_, _, _)
CollectImagesFirstWins(bom, pairs, images) ==
    IF pairs = <<>> THEN Ok(images)
    ELSE LET p     == Head(pairs)
             image == BomGetImageInfo(bom, p[1], p[2])
         IN IF image.err THEN Failed
            ELSE CollectImagesFirstWins(bom, Tail(pairs),
                     images @@ (p[2] :> [imagePath |-> image.val.path, tag |-> image.val.tag]))

RECURSIVE CollectImages(_, _, _)
CollectImages(bom, pairs, images) ==
    IF pairs = <<>> THEN Ok(images)
    ELSE LET p     == Head(pairs)
             image == BomGetImageInfo(bom, p[1], p[2])
         IN IF image.err THEN Failed
            ELSE CollectImages(bom, Tail(pairs),
                               (p[2] :> [imagePath |-> image.val.path,
                                         tag       |-> image.val.tag]) @@ images)

GetImageInfo(addonConfig, imageRepository, bom) ==
    LET images == CollectImages(bom, ContainerImagePairs(addonConfig), EmptyMap) IN
    IF images.err THEN Failed
    ELSE Ok(<<DataValueHeader,
              [imageRepository |-> imageRepository,
               imagePullPolicy |-> TKGAddonsImagePullPolicy,
               images          |-> images.val]>>)
=============================================================================
