SPECIFICATION Spec
CONSTANTS
    edge = edge
    lb = lb
    a1 = a1
    a2 = a2
    b = b
    Blank = Blank
    Malformed = Malformed
    Nobody = Nobody
    Addresses <- MCAddresses
    TrustedProxies <- MCTrusted
    Header = TRUE
    Forgeries <- MCForgeries
    MaxHops = 2
    Cidrs <- MCCidrs
    Keyings <- MCKeyings
    Ranges <- MCRanges
    TooWide <- MCTooWide
    Handlers <- MCHandlers
    Crawlers = "ban"
    AdminEnabled = TRUE
    ServeShared = FALSE
    Token = TRUE
    SSO = FALSE
    ReadOnly = FALSE
    Bannable <- MCBannable
    Allowlists <- MCAllowlists
    MaxBans = 2
INVARIANTS BannableIsOrigin NoWayAround ProtectedIsServed ManualBansBite
PROPERTIES BansAreEarned
CHECK_DEADLOCK FALSE
