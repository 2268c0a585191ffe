\* Three secrets: the wallet key and two attempts at an issuer DID.
CONSTANTS
  s1 = s1
  s2 = s2
  s3 = s3
  Secrets = {s1, s2, s3}
  Absent = Absent
  Empty = Empty
SPECIFICATION FairSpec
INVARIANTS TypeOK IssuerStable WalletOpens NoOrphan
PROPERTIES FailsTogether
