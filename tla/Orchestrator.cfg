SPECIFICATION FairSpec
CONSTANTS
    Handlers = {h1, h2}
    Warmers = {w1}
    SessionIds = {s1}
    Containers = {c1, c2}
    None = None
    Maint = Maint
    Cleanup = Cleanup
    Server = Server
    Main = Main
INVARIANTS TypeOK OneOwner NoneRemovedInUse NoneForgotten AtMostOneSpare
PROPERTY ShutdownEnds
CHECK_DEADLOCK FALSE
