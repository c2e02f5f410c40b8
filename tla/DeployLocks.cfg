SPECIFICATION ServerSpec
CHECK_DEADLOCK FALSE
CONSTANTS
  m1 = m1
  m2 = m2
  m3 = m3
  s1 = s1
  img = img
  t1 = t1
  t2 = t2
  noImage = noImage
  anonymous = anonymous
  twitter = twitter
  None = None
  Mints = {m1, m2, m3}
  Sources = {s1}
  Source <- TwoOfOneTweet
  Hash <- SharedHashes
  Picture <- SamePicture
  MaxFaults = 1
  Named = {m3}
  ip1 = ip1
  ip2 = ip2
  Ips = {ip1, ip2}
  Window = 2
  MaxHits = 2
  Horizon = 6
  MaxRestarts = 1
  Ids = {1, 2}
  Articles = {"news.com", "netflix.com"}
  Spellings = {{}, {"www", "slash"}}
  NoKey = NoKey
INVARIANTS LocksComeWithThePool LocksDroppedForAReason LoadIsBounded
PROPERTIES PoolInTheEnd OneKeyAPage
