CONSTANTS
    EnvSymbols = {1, 2, 3}
    MaxVars = 4
    MaxFormals = 3

SPECIFICATION Spec
\* Both scopes are finite: once sorted, neither changes again.
CHECK_DEADLOCK FALSE
INVARIANT TypeOK
INVARIANT LastBindingWins
INVARIANT HasMatchesMembership
