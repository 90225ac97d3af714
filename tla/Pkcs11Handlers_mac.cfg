SPECIFICATION HandlerSpec
CONSTANTS
    Session = {s1, s2, s3, s4}
    Seed = s1
    MaxRo = 2
    MaxRw = 2
    HardCleanup = FALSE
    NoLoan = NoLoan
    Handler = {h1, h2}
    SessionKey = {k1, k2}
    Holder = {h1, h2, k1, k2}
    TokenKey = TokenKey
    Mode = {"digest", "sign", "verify"}
    KeepsOp = {"digest"}
    NoHandler = NoHandler
    NoKey = NoKey
    NoSession = NoSession
SYMMETRY Symmetry
INVARIANTS NoSessionLeak UserStaysLoggedIn SessionOfOneHandler BorrowedKeyAlive PooledSessionIdle
