SPECIFICATION ProgramSpec
CHECK_DEADLOCK FALSE
CONSTRAINT FewCalls
SYMMETRY Alike
CONSTANTS
  tweet = tweet
  article = article
  d1 = d1
  d2 = d2
  None = None
  Sources = {tweet, article}
  Articles = {article}
  Posted <- PostedAtZero
  Deploys = {d1, d2}
  Ttl = 2
  ChainTtl = 4
  Grace = 1
  Fresh = 1
  MaxSkew = 1
  Horizon = 2
  Forms <- SomeForms
  m1 = m1
  Mints = {m1, m2}
  Hashes = {h1, h2}
  Absent = Absent
  ms = ms
  u1 = u1
  Deployed = {m1}
  ScriptMint = ms
  Users = {u1}
  Creator <- ByItsUser
  HashOf <- ThreeHashes
  hash1 = hash1
  hash2 = hash2
  hash3 = hash3
  Admin = admin
  Actors = {"scripts", "bot", "traders"}
  MaxSent = 2
INVARIANTS LockedAsSigned CallsFit
PROPERTIES FirstLockWins FirstClaimStays
