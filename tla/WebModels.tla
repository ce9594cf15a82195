------------------------------ MODULE WebModels ------------------------------
(***************************************************************************)
(* The request binder of GET /api/providers/aws/subnets                   *)
(* (restapi/operations/aws/get_a_w_s_subnets_parameters.go).              *)
(*                                                                         *)
(* A raw query string is the sequence of its key=value pairs in order (a  *)
(* bare key has the value ""); r.URL.Query() groups the values of each key *)
(* in that order.                                                          *)
(***************************************************************************)
EXTENDS IdentityManagementConfig, Sequences, SequencesExt

\* The values of key k in the raw query, in order.
ValuesOf(pairs, k) ==
    LET s == SelectSeq(pairs, LAMBDA p : p[1] = k) IN [i \in DOMAIN s |-> s[i][2]]

\* r.URL.Query(): url.Values, every key present with its values.
URLQuery(pairs) == [k \in {pairs[i][1] : i \in DOMAIN pairs} |-> ValuesOf(pairs, k)]

\* runtime.Values.GetOK: the values and whether the key is present.
GetOK(qs, key) == [values |-> IF key \in DOMAIN qs THEN qs[key] ELSE <<>>,
                   hasKey |-> key \in DOMAIN qs]

NewGetAWSSubnetsParams == [VpcID |-> ""]

BindResult(err, o) == [err |-> err, val |-> o]

\* Mutation: the first value of a repeated key is bound.
BindVpcIDFirst(o, rawData, hasKey) ==
    LET raw == IF Len(rawData) > 0 THEN rawData[1] ELSE ""
    IN  IF ~hasKey \/ raw = "" THEN BindResult(TRUE, o) ELSE BindResult(FALSE, [o EXCEPT !.VpcID = raw])

\* bindVpcID: a missing key is a Required error; otherwise the last value
\* is taken, must be non-empty (RequiredString), and is stored.
BindVpcID(o, rawData, hasKey) ==
    LET raw == IF Len(rawData) > 0 THEN Last(rawData) ELSE ""
    IN  IF ~hasKey \/ raw = "" THEN BindResult(TRUE, o) ELSE BindResult(FALSE, [o EXCEPT !.VpcID = raw])

\* BindRequest on NewGetAWSSubnetsParams() for a request with query `pairs`.
BindRequest(pairs) ==
    LET q == GetOK(URLQuery(pairs), "vpcId")
    IN  BindVpcID(NewGetAWSSubnetsParams, q.values, q.hasKey)
=============================================================================
