SPECIFICATION FairSpec
CONSTANTS
    Bricks = {a, b}
    Statuses = {new, flagged}
    Tags = {t}
    Labels = {l1, l2}
    Attempts = 2
    MaxCalls = 2
    MaxActs = 3
    MaxReplays = 2
    None = None
    Refused = Refused
INVARIANTS TypeOK BusyIsInFlight VerdictIsOfTrace RunTabOfSelected PanelOfSelected ScenariosOwn
PROPERTIES Settles
