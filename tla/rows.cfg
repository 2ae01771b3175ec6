SPECIFICATION Spec
CONSTANTS
  None = None
  Conversations <- MCConversations
INVARIANTS
  HashHonest
  Referential
  Projected
PROPERTY
  KeepsLeading
