SPECIFICATION Spec
CONSTANTS
  Jobs = {j1}
  Scopes = {s1}
  NoScope = NoScope
  Limits = {1}
  MaxRestarts = 1
  MaxAdmitting = 1
INVARIANT QuarantineIsReported
