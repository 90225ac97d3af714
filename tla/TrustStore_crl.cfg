SPECIFICATION TrustSpec
CONSTANTS
    Client = {k1, k2}
    Writers = {k1}
    Worker = {w1, w2}
    Cert = {c1, c2}
    Crl = {r1, r2}
    None = None
    Kind <- Gated
    AcceptCurrent = TRUE
    MaxRefs = 1
SYMMETRY Symmetry
INVARIANT CrlsNotOmitted
