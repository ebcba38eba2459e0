\* The components that stand alone, one of them in each behaviour.
SPECIFICATION Spec
CONSTANTS
  s1 = s1 s2 = s2 s3 = s3 q1 = q1
  Saves = {s1, s2, s3} Loads = {q1} NoFile = NoFile
  Overwrites = {s3}
  PasswordOf <- Passwords ChainOf <- OneChain
  MaxPowerLosses = 1

  Window = 3 MaxMessages = 3 MaxBytes = 5
  Sizes = {1, 2, 4}
  MaxTime = 5

  Base = 6
  U16Width = 2
  U32Width = 2
  U64Width = 1
  NodeIdLength = 2
  HashLength = 2
  WorkLength = 2
  TargetLength = 2
  PublicKeyLength = 2
  SignatureLength = 2
  MaxChainId = 2
  MaxAddress = 2
  MaxReason = 2
  MaxLocator = 3
  MaxBlockTransactions = 2
  MaxPart = 35
  Domain <- MCDomain
  Values <- MCValues
  MaxEdits <- MCMaxEdits

  Leaf = {t1, t2, t3, t4, t5}
  NoLeaves = NoLeaves
  MaxLeaves = 5

  U64Max = 5 MaxAttempts = 4
CHECK_DEADLOCK FALSE
INVARIANTS DestinationWhole SavedIsThere SentIsRead AcceptedIsCanonical RootFixesList SearchIsExact
PROPERTY ImplementsRateWindow
