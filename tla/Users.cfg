CONSTANTS
    h1 = h1
    h2 = h2
    h3 = h3
    h4 = h4
    Handler = {h1, h2, h3, h4}
    Locale = {"ru", "en"}
    DefaultLocale = "ru"
    Tag <- MCTag
    Primary <- MCPrimary
SYMMETRY Symmetry
SPECIFICATION Spec
CHECK_DEADLOCK FALSE
INVARIANTS
    UsersInv
    StoresAgree
