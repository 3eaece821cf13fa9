SPECIFICATION Spec
CONSTANTS
    c1 = c1
    c2 = c2
    r1 = r1
    r2 = r2
    k1 = k1
    k2 = k2
    a1 = a1
    a2 = a2
    i1 = i1
    i2 = i2
    None = None
    Cert = {c1, c2}
    Cli = {r1, r2}
    Wirings <- MCWirings
    MaxRevoke = 2
    MaxTime = 3
    MaxFault = 1
    Conn = {k1}
    Agent = {a1, a2}
    Identity = {i1, i2}
    IdentityOf <- MCIdentityOf
    NotAfter <- MCNotAfter
    Expiry <- MCExpiry
    OperatorCert = {i1}
    Deployments <- MCDeployments
    MaxTask = 2
SYMMETRY Symmetry
INVARIANTS AdmissionIsEarned RefusalsAreOnRecord SnapshotIsExact
PROPERTIES CrlNeverForgets
