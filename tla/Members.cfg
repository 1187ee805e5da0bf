SPECIFICATION MCSpec
CONSTANTS
    Buyers = {b1}
    Seller = s
    Listings = {l1, l2, l3}
    ConversationIds = {1, 2, 3}
    MessageIds = {1, 2, 3, 4, 5}
    Texts = {x1, x2}
    Tokens = {k1, k2}
    Pages = {p1, p2}
    MaxTime = 3
    MaxFaults = 1
    InboxSize = 1
    ThreadSize = 2
    NoCursor = NoCursor
    Hearts = {h1, h2, h3}
    Words = {w}
    Tags = {g1}
    Kinds = {c1, c2}
    Places = {z}
    Prices = {1, 2, 3}
    MaxPrice = 2
    Hash <- MCHash
    Goods = {1, 2, 3}
    PageSize = 1
    AllShops = AllShops
    Named <- MCNamed
    Identities = {1, 2}
    Window = 2
    Limit = 2
    MaxClock = 5
    Users = {u1, a1}
    Founders = {a1}
    Requests = {r1, r2}
    MaxMishaps = 1
    Wordings = {d1, d2}
    MaxQueue = 2
    MaxDeskFaults = 1
SYMMETRY Symmetry
INVARIANTS
    TypeOK SameListingSameThread SentIsStored NothingTwice ThreadPagesComplete InboxPagesComplete
    HeartTellsTruth BrowsePagesComplete BarFollowsUser LimitIsExact ProvisioningConverges
    OneDraftPerForm SavedUnlessUnheard PublishedAsShown
CHECK_DEADLOCK FALSE
