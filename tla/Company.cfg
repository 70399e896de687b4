SPECIFICATION Spec
CONSTANTS
    Workers = {w1, w2}
    MaxCalls = 3
    MaxNow = 0
    Faults = TRUE
    None = None
    CustomerCodes <- MCCodes
    Baskets <- MCBaskets
    Chart <- MCChart
    AccountCodes <- MCAccounts
    Entries <- MCEntries
    InvoiceLines <- MCLines
    Years <- MCYears
    AccountNames <- MCNames
    BankAmount <- MCAmounts
    FiscalCodes = {"RSS", "BNC"}
    Days = {0}
    Stamps <- MCStamps
    Breaks <- MCBreaks
    MemberStates = {"DE", "FR"}
    Skus = {"S1", "S2"}
    Quantities = {0, 4}
    Sequence = {1, 2}
    Refreshed <- MCRuns
    Uuids <- MCUuids
    TopLimit = 1
    ReportNames = {"sales", "hours"}
    CompanyCodes = {1, 4}
    CompanyVats = {"c1", "c2"}
    Scenes <- MCScenes
SYMMETRY Perms
INVARIANTS NumberedOneByOne ConvertedOnce TimelineTells InvoicesWithoutGap PostedOnce LiquidationNearLedger ParentsFirst ImportedOnce HoursMatchTimes FrozenTotals ReadModelOfLastRun ConsolidatedAlike
PROPERTIES DealsGoForward ProducedByLastOperation
