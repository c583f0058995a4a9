SPECIFICATION RemoteSpec
CONSTANTS
    a = a
    b = b
    h = h
    p = p
    mc = mc
    hm = hm
    sc = sc
    hv = hv
    us = us
    na = na
    np = np
    nhm = nhm
    nmc = nmc
    nsc = nsc
    nhv = nhv
    nus = nus
    stray = stray
    like = like
    u1 = u1
    u2 = u2
    i1 = i1
    i2 = i2
    s1 = s1
    s2 = s2
    space = space
    r1 = r1
    r2 = r2
    v = v
    Nothing = Nothing
    NoNamespace = NoNamespace
    Fleet <- MCFleet
    Unlisted <- MCUnlisted
    Names <- MCNames
    Keys <- MCKeys
    Matches <- MCMatches
    NameOf <- MCNameOf
    Hosted <- MCHosted
    ManagerOf <- MCManagerOf
    ShardOf <- MCShardOf
    Managers <- MCManagers
    ServiceOf <- MCServiceOf
    Asleep <- MCAsleep
    Incidents <- MCIncidents
    RemediationKeys <- MCRemediationKeys
    Installing <- MCInstalling
    Roles <- MCRoles
    ClusterRules <- MCClusterRules
    Envs <- MCEnvs
    Instances <- MCInstances
    Scripts <- MCScripts
    Params <- MCParams
    Rules <- MCRules
    Operators <- MCUsers
    Developers <- MCUsers
    MaxSeconds = 1
    MaxRenders = 2
    MaxRefusals = 1
CHECK_DEADLOCK FALSE
INVARIANTS
    RemoteTypeOK
    LandsWhereAsked
    InstancesAreKnown
    PodsHaveTheirRights
    CommandAndJobAgree
PROPERTY EndsOrStreams
