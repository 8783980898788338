SPECIFICATION Spec
CONSTANTS
    c1 = c1
    c2 = c2
    v1 = v1
    v2 = v2
    o1 = o1
    Court = {c1, c2}
    VenueOf <- TwoVenues
    OwnerOf <- OneOwner
    Days = 2
    Slots = 2
    Draft <- PriceLists
    BasePrice = {100, 175}
    Minutes = 30
    MaxRule = 4
    MaxCreate = 2
    Process = {p1, p2}
    Mixes <- PricingMixes
SYMMETRY ChangeSymmetry
CHECK_DEADLOCK FALSE
INVARIANTS
    RulesAreSound
    SeenIsCharged
    CopyMayChargeTheSame
