SPECIFICATION FairSpec
CONSTANTS
    o1 = o1
    o2 = o2
    c1 = c1
    c2 = c2
    Offers = {o1, o2}
    Claims = {c1, c2}
    NoOffer = NoOffer
    NoClaim = NoClaim
    MaxClock = 2
    MaxFaults = 1
INVARIANTS
    Inductive
    AtMostOneVMPerOffer
PROPERTIES
    LedgerSpec
    OffersDrain
