\* Two processes on one database: starts, writes, a backup, a lost host, restores.
CONSTANTS
  p1 = p1
  p2 = p2
  f1 = f1
  f2 = f2
  env = env
  tok = tok
  dns = dns
  TokenSecret <- Tokens
  DnsSecret <- DnsSecrets
  EnvKey = env
  FileKey <- TwoFileKeys
  Process <- TwoProcesses
  MaxWrites = 1
  MaxStarts = 2
  MaxIssues = 1
SPECIFICATION Spec
SYMMETRY Symmetry
INVARIANTS
  BkTypeOK
  
  OpenStoreReads
  NewestSecretStays
  
  RestoredIsTheBackup
CHECK_DEADLOCK FALSE
