CONSTANTS
  Request = {"exit", "read", "entry"}
  Kind <- MCKind
  Priority <- MCPriority
  Capacity = 1
  Reserve = 1
  Window = 4
  Spacing = 1
  MutationSpacing = 2
  Cooldown = 3
  Backoff = 1
  MaxAttempts = 2
  Verified = TRUE
  Watched = "READ"
SPECIFICATION LiveSpec
INVARIANTS
  AtMostOneAhead
  CooldownHolds
  BurstBounded
PROPERTIES
  ImplementsGate
  ExitsGetThrough
