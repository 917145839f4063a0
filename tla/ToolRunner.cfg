\* Two tabs with two tools each, three jobs.
SPECIFICATION Spec
CONSTANTS
    Tabs = {tab1, tab2}
    Tools = {ping, dns}
    Jobs = {j1, j2, j3}
    None = None
INVARIANTS TypeOK RefusalTellsTruth ShownIsFresh
PROPERTIES NoEmptyAnswer ImplementsSerialRuns
CHECK_DEADLOCK FALSE
