SPECIFICATION FairSpec
CONSTANTS
  a1 = a1
  a2 = a2
  a3 = a3
  a4 = a4
  Accounts <- Parties
  Anonymous = Anonymous
  Unset = Unset
  Fees <- TriedFees
  Expirations <- TriedExpirations
  Amounts <- TriedAmounts
  Values <- TriedValues
  MinExpiration = 1
  MaxExpiration = 2
  DisputeWindow = 2
  MaxAmount = 16
  WordSize = 32768
  MaxHeight = 5
INVARIANTS
  TypeOK
  Custody
  ExactPositions
  OneRemedyAtATime
PROPERTIES
  OwnerHasNoPrincipalLever
  ImplementsTrust
  FundsNeverLocked
