SPECIFICATION Spec
CONSTANTS
  t1 = t1  t2 = t2  p1 = p1  p2 = p2  s1 = s1  s2 = s2  r1 = r1  r2 = r2
  sms = sms  wa = wa  sandbox = sandbox  whatsapp = whatsapp  None = None
  Tenants = {t1, t2}
  Phones = {p1}
  SessionIds = {s1, s2}
  TenantOf <- MCTenantOf
  PhoneOf <- MCPhoneOf
  CountryOf <- MCCountryOf
  Supported = {"ID"}
  Requests = {r1, r2}
  UniversalCode = "000000"
  SMS = sms
  Channels = {sms, wa}
  Providers = {sandbox}
  Sandbox = {sandbox}
  ProviderOf <- MCSandboxOnly
  Codes = {"a"}
  SessionTTL = 1
  CodeTTL = 1
  Durable = FALSE
  StoreMayFail = FALSE
  Crashes = TRUE
  MaxClock = 2
  MaxSends = 2
SYMMETRY Symmetry
INVARIANT SettledStatus
PROPERTY StatusMoves
