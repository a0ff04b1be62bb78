SPECIFICATION RegistrySpec
CONSTANTS
  Digest = {d1, d2}
  Alias = {a}
  LeaseId = {l}
  NoDigest = NoDigest
  MaxDeaths = 2
INVARIANTS RegistryInv
PROPERTIES NothingProtectedIsRemoved
