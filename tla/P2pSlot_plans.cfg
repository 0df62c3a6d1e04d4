CONSTANTS
  KeyOf <- SameKey
  StepsOf <- ThreeSteps
  Slots = 2
  Chunks = 2
  Offers <- AllOffers
SPECIFICATION LiveSpec
INVARIANTS
  PlansAgree
  CompletionIsMutual
PROPERTIES
  ImplementsTransfer
  OperationsComplete
