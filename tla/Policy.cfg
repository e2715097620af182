SPECIFICATION Spec
CONSTANTS
  Tokens <- MCTokens
  Units <- MCUnits
  CredentialIDs <- MCCredentialIDs
  Addresses <- MCAddresses
  Files <- MCFiles
CHECK_DEADLOCK FALSE
INVARIANTS TypeOK RequestIsTheAddress ReadKeepsItsSegments PinnedValuesAreReal NamedReadIsGrantedExactly WideningIsMarked
