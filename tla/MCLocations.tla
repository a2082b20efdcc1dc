----------------------------- MODULE MCLocations -----------------------------
(* Small instances of Locations.  A museum and a cafe are featured, of which *)
(* the limit lets one through; no accommodation is listed, so that list is   *)
(* empty; the session starts without a favorites document or with one that      *)
(* holds the museum.                                                         *)
EXTENDS Locations

CONSTANTS museum, cafe, stall

MCCategoryOf == [l \in LocationIds |->
    CASE l = museum -> "touristSpots"
      [] l = cafe -> "dining"
      [] OTHER -> "shopping"]
MCFeaturedIds == {museum, cafe} \cap LocationIds
MCNoneFeatured == {}
MCStoredFavorites == {NoDoc, <<museum>>}
=============================================================================
