SPECIFICATION Spec
CONSTANTS
    Bases = {10, 20}
    Lines = {1, 2}
    Pages = {1, 2}
    PagesOf <- MCPagesOf
    Pixels = {"p", "q"}
INVARIANTS
    DoneMeansShown
PROPERTIES
    UpdateShowsMemory
    BaseUpdateAnswered
