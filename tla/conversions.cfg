\* A conversion ends; there is nothing to do after it.
CONSTANTS
    Int16s <- MCInt16s
    Floats <- MCFloats
    Windows <- MCWindows
    Exponents <- MCExponents
    PrbCounts <- MCPrbCounts
SPECIFICATION FormatSpec
CHECK_DEADLOCK FALSE
INVARIANTS Int16Nearest HelperNearest ExactProductsAgree BfpExact BinsAreCentred
