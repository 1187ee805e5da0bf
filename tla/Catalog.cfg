SPECIFICATION Spec
CONSTANTS
    Listings = {l1}
    Titles = {coat}
    Requests = {r1, r2}
    Fills = {f1}
    Ttl = 2
    MaxTime = 2
SYMMETRY Symmetry
INVARIANTS TypeOK StampsFollowStatus GateSuffices PublishIsEntitled BoundedStaleness StaleOnlyIfOvertaken
PROPERTY CurrentStepsFollowContract
