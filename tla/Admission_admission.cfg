\* The validating webhooks over sequences of submissions.
SPECIFICATION Spec
CONSTANTS
    NoSpec = NoSpec
    Families <- All
    Refs <- Names
INVARIANTS TypeOK AdmittedSizes ClaimTemplateHolds OperatorNotLockedOut
PROPERTY ReferencesReviewed
