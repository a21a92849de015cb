SPECIFICATION PagesSpec
CONSTANTS
    U64 = 2147483647
    U128 = 2147483647
    FEE_DENOMINATOR = 100
    MAX_FEE_BPS = 10
    MINIMUM_LIQUIDITY = 1
    LamportsPerByte = 5080
    PoolFee = 1
    Whole <- MCWhole
    MIN_LEAD_SECONDS = 4
    Minute = 2
    Order = 101
    Cofactor = 2
    SharedHash <- MCSharedHash
    ViewTag <- MCViewTag
    FeedLimit = 4
    PageNames = {"send", "swap", "locks", "links", "claim", "stealth", "mint", "nft"}
    Starts <- MCStarts
    Forms <- MCForms
    Elsewhere <- MCElsewhere
    Keys <- MCKeys
    Secret = "s0"
    Nft <- MCNft
    ASSET_BYTES = 260
    Secrets <- MCSecrets
INVARIANTS ReceiptsAreReal PromisesKept FreshFormsGoThrough RowsAreGood PaymentsFound ActivityTells
PROPERTIES NothingLeftWrapped RelayerOnlyPays
CHECK_DEADLOCK FALSE
