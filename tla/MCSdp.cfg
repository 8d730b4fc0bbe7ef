CONSTANTS
  Layouts <- MCLayouts
  Media <- MCMedia
  Wishes <- MCWishes
SPECIFICATION SdpSpec
INVARIANTS SectionsWhole PreferenceFollowed RatesSet
CHECK_DEADLOCK FALSE
