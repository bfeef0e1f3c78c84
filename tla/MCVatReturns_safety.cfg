SPECIFICATION ReturnsSpec
CONSTANTS
    None = None
    Rates = {"23", "8", "zw"}
    LineLists <- MCLineLists
    Procedures = {"MR_T"}
    Margins <- MCMargins
    Copies <- MCCopies
    Categories = {"transport"}
    Systems = {"optima", "symfonia", "insert", "csv"}
    Patches <- MCPatches
    MaxInvoices = 3
    MaxRequests = 4
\* A bounded number of requests.
CHECK_DEADLOCK FALSE
INVARIANTS
    CorrectionsAddUp
    RowsMatchBooks
    FileAddsUp
