SPECIFICATION FairSpec
CHECK_DEADLOCK FALSE
CONSTANTS
  m1 = m1
  m2 = m2
  m3 = m3
  s1 = s1
  img = img
  t1 = t1
  t2 = t2
  noImage = noImage
  anonymous = anonymous
  twitter = twitter
  None = None
  Mints = {m1, m2}
  Sources = {s1}
  Source <- TwoOfOneTweet
  Hash <- SharedHashes
  Picture <- SamePicture
  MaxFaults = 0
  Named = {}
PROPERTY FirstDeployWins
