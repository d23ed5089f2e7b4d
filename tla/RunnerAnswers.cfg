SPECIFICATION FairSpec
CONSTANTS
  Jobs = {j1, j2}
  Scopes = {s1}
  NoScope = NoScope
  Limits = {1}
  MaxRestarts = 1
  MaxAdmitting = 1
PROPERTIES AnswersByDeadline ReservationsEnd
