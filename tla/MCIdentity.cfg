SPECIFICATION Spec
CONSTANTS
  k1 = k1  k2 = k2  i1 = i1  i2 = i2
  web = web  other = other  uuid = uuid  mail = mail  blank = blank
  None = None
  KeySet = {k1, k2}
  Issuer = {i1, i2}
  Client = {web, other}
  Word = {uuid, mail, blank}
  Address = {mail}
  Blank = {blank}
  Uris <- MCUris
  Issuers <- MCIssuers
  Audiences <- MCAudiences
  Tokens <- MCTokens
  Origins <- MCOrigins
  MaxOutages = 1
INVARIANT TypeOK VerdictFits DevTokensAreLocal NothingStatedIsLost
PROPERTY OwnProviderFirst
\* A behaviour ends when the request is answered.
CHECK_DEADLOCK FALSE
