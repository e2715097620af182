SPECIFICATION Spec
CONSTANTS
  Tokens <- MCTokens
  Units <- MCUnits
  CredentialIDs <- MCCredentialIDs
  Addresses <- MCAddresses
  Files <- MCFiles
CHECK_DEADLOCK FALSE
INVARIANTS EveryReadIsGranted
