\* Three secrets, two of them at a time.
CONSTANTS
    Secrets = {1, 2, 3}
    Limit = 2
SPECIFICATION Spec
INVARIANTS ListingComplete ErrorIsTheCause AtMostLimit
PROPERTIES NothingPartial ListingEnds
