SPECIFICATION Spec
CONSTANTS
  e1 = e1
  e2 = e2
  h1 = h1
  h2 = h2
  t1 = t1
  t2 = t2
  Changers <- MCChangers
  Unseen = Unseen
  Nobody = Nobody
  Programs = {"atOnce", "bySetup", "race", "two"}
  Used <- MCUsed
  Easies = {e1, e2}
  HostOf <- MCHostOf
  AllProtocols = {"http", "ftp", "file"}
  HttpOnly = {"http"}
  Settable <- MCSettable
  Configs <- MCConfigs
  MaxGeneration = 2
  NoConfig = NoConfig
  NoSignature = NoSignature
INVARIANT RunsWithinPolicy
INVARIANT SignatureIsHonest
