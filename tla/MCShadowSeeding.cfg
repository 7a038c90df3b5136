SPECIFICATION FairSpec
CONSTANTS
    p1 = p1
    p2 = p2
    p3 = p3
    None = None
    Posts = {p1, p2, p3}
    Native = {p3}
    MaxReplays = 3
    MaxFailures = 3
INVARIANTS
    TypeOK
    PostThereForReplay
    NativeKept
    NothingForgotten
PROPERTY SweptInTheEnd
