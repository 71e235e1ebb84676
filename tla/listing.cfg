SPECIFICATION ListingSpec
CONSTANTS
    Document = {d1, d2, d3, d4}
    DefaultLimit = 2
    MaxLimit = 3
SYMMETRY Symmetry
INVARIANT PagesMissNobody
