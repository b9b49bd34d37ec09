CONSTANTS
    Names      = {a, b}
    Admins     = {a}
    Requests   = {r1}
    Asks       = {"secrets"}
    Prompt     = TRUE
    MaxCrashes = 0
    NoName     = NoName
SPECIFICATION Spec
PROPERTY MembersKeepTheirSecrets
