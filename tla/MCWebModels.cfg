\* IdentityManagementConfig decoding, Validate and round trip, and the
\* subnets route's vpcId query binding, over every bounded request.
CONSTANTS
    ValidURIs = {"https://dex.example.com"}
SPECIFICATION Spec
INVARIANTS
    ValidateMatchesSchema
    RoundTripKeepsConfig
    VpcIDIsLastValue
