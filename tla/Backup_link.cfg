\* One process; a v2 publication and a backup.
CONSTANTS
  p1 = p1
  p2 = p2
  f1 = f1
  f2 = f2
  env = env
  tok = tok
  dns = dns
  TokenSecret <- Tokens
  DnsSecret <- DnsSecrets
  EnvKey = env
  FileKey <- TwoFileKeys
  Process <- OneProcess
  MaxWrites = 1
  MaxStarts = 3
  MaxIssues = 1
SPECIFICATION Spec
INVARIANT BackupIsPossible
CHECK_DEADLOCK FALSE
