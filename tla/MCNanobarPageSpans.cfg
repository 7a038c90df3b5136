SPECIFICATION Spec
CONSTANTS
    Bricks = {a, b}
    Statuses = {new, flagged}
    Tags = {t}
    Labels = {l1, l2}
    Attempts = 2
    MaxCalls = 2
    MaxActs = 3
    MaxReplays = 2
    None = None
    Refused = Refused
PROPERTIES NewestSpansShown
