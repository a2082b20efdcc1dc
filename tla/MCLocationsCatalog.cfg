CONSTANTS
    museum = museum
    cafe = cafe
    stall = stall
    LocationIds = {museum, cafe, stall}
    CategoryOf <- MCCategoryOf
    FeaturedIds <- MCFeaturedIds
    FeaturedLimit = 1
    StoredFavorites <- MCStoredFavorites
    NoDoc = NoDoc
    MaxToggles = 1
    MaxAttempts = 2
SPECIFICATION FairSpec
INVARIANT SearchableIsDetailed
PROPERTY LoaderStops

CHECK_DEADLOCK FALSE
