SPECIFICATION CustodySpec
CONSTANTS
    MaxVersions = 6
    Records = {r1, r2}
    Orgs = {o1, o2}
    None = None
    Gone = Gone
    Damage = {{}}
    Hands = {h1, h2, h3}
    Nobody = Nobody
    MaxEdits = 3
    MaxDeaths = 2
    Hooks = {k1, k2}
    NoHook = NoHook
    Births = {1, 2}
    MaxSecret = 2
    Nothing = Nothing
    MaxLost = 1
INVARIANT RestoreTakesEffect
CHECK_DEADLOCK FALSE
