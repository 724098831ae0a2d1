\* One user may play from a terminal under a name with no account, the other under
\* its own.
SPECIFICATION Spec
CONSTANTS
    Users = {alice, bob}
    Passwords = {p1}
    Browsers = {b1}
    TypedNames = {bob, carol}
    NoPlayer = noplayer
    Unknown = unknown
    ws = ws
    Workers = {w1, w2}
    MaxGames = 2
    MaxCrashes = 1
INVARIANTS
    CreditsMatch
    RecordBetween
PROPERTY AccountsSurvive
