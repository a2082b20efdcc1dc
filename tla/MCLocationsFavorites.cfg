CONSTANTS
    museum = museum
    cafe = cafe
    stall = stall
    LocationIds = {museum, cafe}
    CategoryOf <- MCCategoryOf
    FeaturedIds <- MCNoneFeatured
    FeaturedLimit = 1
    StoredFavorites <- MCStoredFavorites
    NoDoc = NoDoc
    MaxToggles = 3
    MaxAttempts = 2
SPECIFICATION Spec
INVARIANT TypeOK
INVARIANT StoredOnce
INVARIANT FavoritesListFresh
INVARIANT AgreementUnlessRaced
PROPERTY OneLocationPerWrite
PROPERTY FavoritesImplemented

CHECK_DEADLOCK FALSE
