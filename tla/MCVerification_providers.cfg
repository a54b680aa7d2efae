SPECIFICATION FairSpec
CONSTANTS
  t1 = t1  t2 = t2  p1 = p1  p2 = p2  s1 = s1  s2 = s2  r1 = r1  r2 = r2
  sms = sms  wa = wa  sandbox = sandbox  whatsapp = whatsapp  None = None
  Tenants = {t1, t2}
  Phones = {p1}
  SessionIds = {s1}
  TenantOf <- MCTenantOf
  PhoneOf <- MCPhoneOf
  CountryOf <- MCCountryOf
  Supported = {"ID"}
  Requests = {r1, r2}
  UniversalCode = "000000"
  SMS = sms
  Channels = {sms, wa}
  Providers = {sandbox, whatsapp}
  Sandbox = {sandbox}
  ProviderOf <- MCMixed
  Codes = {"a"}
  SessionTTL = 0
  CodeTTL = 0
  Durable = FALSE
  StoreMayFail = FALSE
  Crashes = FALSE
  MaxClock = 1
  MaxSends = 2
INVARIANT SpentCodeNotStored
PROPERTY EveryRequestAnswered
PROPERTY ProofYieldsToken
