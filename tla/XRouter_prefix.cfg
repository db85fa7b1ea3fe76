CONSTANTS
  Alphabet <- MCAlphabet
  Methods <- MCMethods
  Routes <- MCRoutes
  Probes <- MCProbes
  Requests <- MCRequests
  RedirectTrailingSlash = TRUE
  RedirectFixedPath = TRUE
  HandleOptions = TRUE
  HandleMethodNotAllowed = TRUE
SPECIFICATION Spec
CHECK_DEADLOCK FALSE
INVARIANT RefusesConflicts
