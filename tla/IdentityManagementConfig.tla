------------------------ MODULE IdentityManagementConfig ------------------------
(***************************************************************************)
(* The go-swagger model IdentityManagementConfig of the TKG web server     *)
(* (pkg/v1/tkg/web/server/models/identity_management_config.go): decoding  *)
(* a JSON body over the defaults document, Validate, and the binary        *)
(* marshalling.  A JSON value is a tagged record (null, string, bool or    *)
(* number); a JSON object is a function from the keys it has.  A Go value  *)
(* of the struct is a function from the json field names; the *string     *)
(* idm_type is <<>> when nil and <<s>> otherwise.                          *)
(*                                                                         *)
(* Of the 23 fields, the model keeps one of each kind the code treats      *)
(* differently: the required enum pointer idm_type, a string with a        *)
(* default (ldap_group_search_name_attr), the uri oidc_provider_url and    *)
(* the defaulted bool oidc_skip_verify_cert.  The other string fields      *)
(* behave as the defaulted one without a default; the claim-mappings map   *)
(* is left out.                                                            *)
(***************************************************************************)
EXTENDS Functions, TLC

CONSTANT ValidURIs   \* the strings strfmt's "uri" format accepts

Null == [t |-> "null"]
Str(s) == [t |-> "string", s |-> s]
Bool(b) == [t |-> "bool", b |-> b]
Number == [t |-> "number"]

IdmType == "idm_type"
NameAttr == "ldap_group_search_name_attr"
ProviderURL == "oidc_provider_url"
SkipVerify == "oidc_skip_verify_cert"
Fields == {IdmType, NameAttr, ProviderURL, SkipVerify}

\* The Go kind of each field, which decides how encoding/json fills it.
Kind == (IdmType :> "ptrstring") @@ (NameAttr :> "string") @@ (ProviderURL :> "string")
        @@ (SkipVerify :> "bool")

\* The zero struct of `var t IdentityManagementConfigAlias`.
ZeroConfig == (IdmType :> <<>>) @@ (NameAttr :> "") @@ (ProviderURL :> "") @@ (SkipVerify :> FALSE)

\* The defaults document UnmarshalJSON decodes first (its other keys fall
\* on fields the model leaves out).
Defaults == (IdmType :> Str("oidc")) @@ (NameAttr :> Str("cn")) @@ (SkipVerify :> Bool(FALSE))

IdmTypeEnum == {"oidc", "ldap", "none"}

Decoded(v) == [err |-> FALSE, val |-> v]
DecodeError == [err |-> TRUE, val |-> "none"]

(***************************************************************************)
(* encoding/json decoding one value into a field: null sets a pointer to  *)
(* nil and leaves any other kind unchanged; a value of the wrong JSON type *)
(* is an UnmarshalTypeError.                                               *)
(***************************************************************************)
DecodeField(kind, current, jv) ==
    CASE jv.t = "null" -> Decoded(IF kind = "ptrstring" THEN <<>> ELSE current)
      [] jv.t = "string" /\ kind = "ptrstring" -> Decoded(<<jv.s>>)
      [] jv.t = "string" /\ kind = "string" -> Decoded(jv.s)
      [] jv.t = "bool" /\ kind = "bool" -> Decoded(jv.b)
      [] OTHER -> DecodeError

\* json.Unmarshal of an object into t, a struct whose fields have the Go
\* kinds `kind`: every key present is decoded over t; a type error on any
\* key fails the whole call.
JsonUnmarshal(kind, doc, t) ==
    LET r == [f \in DOMAIN kind |-> IF f \in DOMAIN doc THEN DecodeField(kind[f], t[f], doc[f])
                                    ELSE Decoded(t[f])]
    IN  IF \E f \in DOMAIN kind : r[f].err THEN DecodeError
        ELSE Decoded([f \in DOMAIN kind |-> r[f].val])

\* Mutation: the defaults document is not decoded first.
UnmarshalJSONNoDefaults(b) == JsonUnmarshal(Kind, b, ZeroConfig)

\* UnmarshalJSON: the defaults document, then the body, over one struct.
UnmarshalJSON(b) ==
    LET t == JsonUnmarshal(Kind, Defaults, ZeroConfig)
    IN  IF t.err THEN t ELSE JsonUnmarshal(Kind, b, t.val)

(***************************************************************************)
(* Validate: idm_type is required (non-nil) and in the enum; a non-zero   *)
(* oidc_provider_url must have the uri format.  Both errors are collected; *)
(* the model keeps whether there is any.                                   *)
(***************************************************************************)
ValidateIdmType(m) == m[IdmType] # <<>> /\ m[IdmType][1] \in IdmTypeEnum
ValidateOidcProviderURL(m) == m[ProviderURL] = "" \/ m[ProviderURL] \in ValidURIs
Validate(m) == ValidateIdmType(m) /\ ValidateOidcProviderURL(m)

\* The fields json.Marshal leaves out: the omitempty ones holding "" or false.
Omitted(m) == {f \in Fields \ {IdmType} : IF Kind[f] = "bool" THEN m[f] = FALSE ELSE m[f] = ""}

\* Mutation: omitempty on idm_type too, so a nil pointer is left out.
MarshalBinaryOmitNilIdmType(m) ==
    [f \in {g \in Fields : g = IdmType => m[IdmType] # <<>>} \ Omitted(m) |->
        CASE f = IdmType -> Str(m[IdmType][1])
          [] Kind[f] = "bool" -> Bool(m[f])
          [] OTHER -> Str(m[f])]

\* MarshalBinary (swag.WriteJSON, i.e. json.Marshal): idm_type is always
\* written, null when nil; the omitempty fields are left out when "" or
\* false.
MarshalBinary(m) ==
    [f \in Fields \ Omitted(m) |->
        CASE f = IdmType -> IF m[IdmType] = <<>> THEN Null ELSE Str(m[IdmType][1])
          [] Kind[f] = "bool" -> Bool(m[f])
          [] OTHER -> Str(m[f])]

\* UnmarshalBinary (swag.ReadJSON, i.e. json.Unmarshal, which calls
\* UnmarshalJSON).
UnmarshalBinary(b) == UnmarshalJSON(b)
=============================================================================
