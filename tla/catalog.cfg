SPECIFICATION FairSpec
CONSTANTS
    p1 = p1
    p2 = p2
    p3 = p3
    p4 = p4
    Products = {p1, p2, p3, p4}
    Inventories <- MCInventories
    Filtered = {p4}
    Readers = {r1, r2}
    SharedPages = {r1}
    Selections <- MCSelections
    PerPage = 2
    ExportTTL = 1
    PageTTL = 1
    DownloadTime = 1
    PollInterval = 1
    Timeout = 1
INVARIANTS TypeOK Fresh OneExtraExportEach ScanComplete
PROPERTIES EveryReadEnds
