SPECIFICATION Spec
CONSTANTS
  t1 = t1  t2 = t2  w1 = w1  w2 = w2  w3 = w3
  Parts = {"engine", "store", "account", "pricing", "metrics", "statistics", "carriers"}
  Inputs <- MCInputs  Lists <- MCLists  Hours = {5, 6, 22}
  Ids = {"p1", "p2"}  Seeds = {"p1"}  Tenants = {t1, t2}  NoTenant = "none"
  Actions = {"challenge", "block"}  Torn = "torn"  Writers = {w1, w2}  Readers = {"r"}
  Swaps = {"no", "medium"}  Results = {"verified"}  MaxWrites = 2
  None = None
  Registrations = {w1, w2}  Emails = {"e1", "e2"}  Callers = {"t"}  NewKeys = {"k"}
  Roles = {"admin"}  Logins = {"l"}  Invitations = {"i1", "i2"}
  Unset = Unset
  Customers = {t1, t2}  Products = {"silent_verify", "whatsapp_otp"}  PricedCountries = {"ID", "XX"}
  Volumes = {10000, 10001, 100001}  CustomPrices = {7000}  Discounts = {0, 33}
  UnknownPlan = "gold"  MaxSettings = 2
  Handlers = {w1, w2, w3}  Labels = {"ok", "err"}  Durations = {50, 101}  Bounds <- MCBounds
  Absent = Absent
  Recorders = {w1, w2, w3}  Kinds = {"silentSuccess", "silentFallback", "riskBlocked"}
  Sessions = {"s1", "s2"}  Cap = 3  Limit = 2  MaxEntries = 5
  Missing = Missing  Unreadable = Unreadable
  CallCountries = {"ID", "DE", "FR"}  SandboxCountries = {"ID", "TH"}  Files <- MCFiles
  Calls = {"r"}
SYMMETRY Symmetry
CHECK_DEADLOCK FALSE
INVARIANT MostRestrictiveWins
INVARIANT SignalsNeverHelp
INVARIANT RangesPartTheDay
INVARIANT PolicyRespected
INVARIANT VerdictJustified
INVARIANT UpdatesKept
INVARIANT DuplicatesOnlyFromRaces
PROPERTY RefusedOnlyMeanwhile
INVARIANT OneTenantPerUser
INVARIANT PriceFollowsSettings
INVARIANT TierHoldsVolume
INVARIANT NoRequestLost
INVARIANT PageConsistent
INVARIANT RatesAddUp
INVARIANT QueryFindsNewest
INVARIANT VerifiedOnCarriersWord
INVARIANT ReportedSwapBlocks
INVARIANT EachCountryServedAsListed
