SPECIFICATION TaxSpec
CONSTANTS
    TaxCodes = {"DE"}
    TaxResults <- MCTaxResults
    AssetKinds = {"equity", "other"}
    DeductibleCap = 2
    Exemption = 1
    CarryYears = 2
    CarrybackYears = 2
    MaxTaxYear = 3
INVARIANT PotsUsedOnce
CHECK_DEADLOCK FALSE
