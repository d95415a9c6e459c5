\* The AIStoreAuth controller: deletions, edits and external access.
SPECIFICATION FairSpec
CONSTANTS
    NoSpec = NoSpec
    Confs = {"a", "b"}
    Scenarios <- Stories
INVARIANT TypeOK
PROPERTIES ReadyMeansRolled ShownClaimKept OtherServiceKept DeletionCompletes AuthSettles
CHECK_DEADLOCK FALSE
