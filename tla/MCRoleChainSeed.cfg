SPECIFICATION SsmSpec
CONSTANTS
    sre = sre
    ip1 = ip1
    ip2 = ip2
    ip3 = ip3
    Target = Target
    Org = Org
    Names <- MCNames
    Chains <- MCChains
    IPs <- MCIPs
    Ranges <- MCRanges
    MaxRetries = 3
    MaxInterrupts = 2
INVARIANT
    AssumesWithPreviousCredentials
