SPECIFICATION Spec
CONSTANTS
    a1 = a1
    a2 = a2
    a3 = a3
    Ids = {a1, a2, a3}
    Handlers = {h1, h2}
    Asked <- SmallAsked
    Cost <- SmallCost
    Offers <- SmallOffers
    BoardSize = 1
    BenchSize = 2
    StartGold = 3
    ShopSize = 2
    RoundGold = 5
    MaxRound = 2
    MaxMishaps = 1
    Nil = nil
SYMMETRY HandlerSymmetry
INVARIANTS
    RosterTypeOK
    AppliedOnce
    GoldConserved
    NoUnitTwice
    OfferSoldOnce
    RowFollows
PROPERTIES
    SerialActions
CHECK_DEADLOCK FALSE
