SPECIFICATION SlotSpec
CONSTANTS
    c1 = c1  c2 = c2  bundle = bundle  unnamed = unnamed  r1 = r1  r2 = r2
    Worker = {w1, w2, w3}
    Cert <- MCCert
    Crl <- MCCrl
    Bundle = {bundle}
    Unnamed = {unnamed}
    Issued <- MCIssued
    None = None
    Unset = Unset
    TwoFailures = FALSE
    MaxGeneration = 2
SYMMETRY Symmetry
INVARIANT CachesFresh 
