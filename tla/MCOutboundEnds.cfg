SPECIFICATION Spec
CONSTANTS
  Mints = {m}
  AnyCooldown = 1
  KeyCooldown = 2
  MaxAttempts = 2
  MaxOrders = 1
  MaxMail = 1
  None = None
INVARIANTS
  CommandsSpareTheCycle
