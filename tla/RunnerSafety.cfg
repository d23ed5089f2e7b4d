SPECIFICATION Spec
CONSTANTS
  Jobs = {j1, j2, j3}
  Scopes = {s1, s2}
  NoScope = NoScope
  Limits = {1, 2}
  MaxRestarts = 2
  MaxAdmitting = 1
SYMMETRY Interchange
INVARIANTS TypeOK OneChildPerScope ChildrenAreRecorded RecordsAreReserved AccountingExact
PROPERTY BudgetPromise
