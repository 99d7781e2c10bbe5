SPECIFICATION Spec
CONSTANTS
    Tabs = {t1}
    Widgets = {w1}
    Calls = {c1, c2}
    MaxTokens = 4
    MaxLogins = 1
    MaxReloads = 1
    None = None
INVARIANTS
    KeptWhileLive
    CookieFollows
    OneSessionPerLogin
PROPERTIES
    EndsAtLogin
CHECK_DEADLOCK FALSE
