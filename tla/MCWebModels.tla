------------------------------ MODULE MCWebModels ------------------------------
(***************************************************************************)
(* IdentityManagementConfig and the subnets binder over every bounded      *)
(* request.  A state is one request: a JSON body for the model, or         *)
(* a query string for GET /api/providers/aws/subnets; every step replaces  *)
(* it by another, as the next request does.                                *)
(*                                                                         *)
(* IdentityManagementConfig bodies have each key absent, null, of the      *)
(* wrong JSON type, or one of a few values (the enum, a value outside it,  *)
(* the empty string, a cleared and a set defaulted string, a valid and an  *)
(* invalid uri, both booleans).  Queries are up to three pairs over the    *)
(* key vpcId and one other key.                                            *)
(***************************************************************************)
EXTENDS WebModels

VARIABLE input

Absent == [t |-> "absent"]

\* The object with the keys r does not mark Absent.
BodyOf(r) == [f \in {g \in DOMAIN r : r[g] # Absent} |-> r[f]]

FieldChoices ==
    (IdmType :> {Null, Number, Str("oidc"), Str("ldap"), Str("none"), Str("saml"), Str("")})
    @@ (NameAttr :> {Null, Number, Str(""), Str("uid")})
    @@ (ProviderURL :> {Null, Str(""), Str("https://dex.example.com"), Str("%zz")})
    @@ (SkipVerify :> {Null, Str("true"), Bool(TRUE), Bool(FALSE)})

IdmBodies ==
    {BodyOf(r) : r \in [idm_type : FieldChoices[IdmType] \cup {Absent},
                        ldap_group_search_name_attr : FieldChoices[NameAttr] \cup {Absent},
                        oidc_provider_url : FieldChoices[ProviderURL] \cup {Absent},
                        oidc_skip_verify_cert : FieldChoices[SkipVerify] \cup {Absent}]}

Queries == BoundedSeq({"vpcId", "region"} \X {"", "vpc-1", "vpc-2"}, 3)

EmptyBody == BodyOf(IdmType :> Absent)

Inputs ==
    {[model |-> "IdentityManagementConfig", body |-> b, query |-> <<>>] : b \in IdmBodies}
    \cup {[model |-> "GetAWSSubnetsParams", body |-> EmptyBody, query |-> q] : q \in Queries}

Init == input \in Inputs
Next == \E i \in Inputs \ {input} : input' = i
Spec == Init /\ [][Next]_input

IdmRequest == input.model = "IdentityManagementConfig"
body == input.body

\* The body as the schema reads it: idm_type absent (so "oidc") or one of
\* the enum, and an oidc_provider_url absent, null, empty or a uri.
SchemaValid(b) ==
    /\ IdmType \notin DOMAIN b \/ (b[IdmType].t = "string" /\ b[IdmType].s \in IdmTypeEnum)
    /\ ProviderURL \notin DOMAIN b \/ b[ProviderURL].t = "null"
       \/ b[ProviderURL].s \in {""} \cup ValidURIs

\* IdentityManagementConfig.UnmarshalJSON: a body decodes exactly when each
\* key has the JSON type of its field (or is null), and the decoded config
\* passes Validate exactly when the schema accepts the body: the defaults
\* document makes idm_type optional, an explicit null makes it missing, and
\* an empty uri is no uri.
ValidateMatchesSchema ==
    IdmRequest =>
        LET d == UnmarshalJSON(body) IN
        /\ d.err <=> \E f \in DOMAIN body :
                        body[f].t \notin {"null", IF Kind[f] = "bool" THEN "bool" ELSE "string"}
        /\ ~d.err => (Validate(d.val) <=> SchemaValid(body))

\* IdentityManagementConfig: marshalling a decoded config and decoding it
\* again gives the same config except for a defaulted field the config
\* holds empty (or false), which the omitempty tag drops and the defaults
\* document fills again; so validity survives the round trip.
RoundTripKeepsConfig ==
    IdmRequest =>
        LET d == UnmarshalJSON(body)
            r == UnmarshalBinary(MarshalBinary(d.val))
        IN  ~d.err =>
                /\ ~r.err
                /\ \A f \in Fields : r.val[f] # d.val[f] => f \in Omitted(d.val) /\ f \in DOMAIN Defaults
                /\ Validate(r.val) = Validate(d.val)

\* Reference: the value of the last vpcId pair of a query string, or "".
LastVpcID(pairs) ==
    IF \A i \in DOMAIN pairs : pairs[i][1] # "vpcId" THEN ""
    ELSE pairs[CHOOSE i \in DOMAIN pairs :
                   pairs[i][1] = "vpcId" /\ \A j \in i+1..Len(pairs) : pairs[j][1] # "vpcId"][2]

\* GetAWSSubnetsParams.BindRequest: the vpcId the subnets handler receives
\* is the value of the last vpcId pair of the query string; the request is
\* rejected exactly when there is none or it is empty, an earlier non-empty
\* vpcId notwithstanding.
VpcIDIsLastValue ==
    input.model = "GetAWSSubnetsParams" =>
        LET res == BindRequest(input.query) IN
        /\ res.err <=> LastVpcID(input.query) = ""
        /\ res.val.VpcID = LastVpcID(input.query)
=============================================================================
