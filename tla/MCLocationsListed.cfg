CONSTANTS
    museum = museum
    cafe = cafe
    stall = stall
    LocationIds = {museum, cafe}
    CategoryOf <- MCCategoryOf
    FeaturedIds <- MCFeaturedIds
    FeaturedLimit = 1
    StoredFavorites <- MCStoredFavorites
    NoDoc = NoDoc
    MaxToggles = 1
    MaxAttempts = 2
SPECIFICATION Spec
INVARIANT EveryFavoriteListed

CHECK_DEADLOCK FALSE
