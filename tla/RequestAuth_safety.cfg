\* Two tokens, copies of one request handled twice at once, a CLI command, restarts.
SPECIFICATION Spec
CONSTANTS
    admin = admin
    other = other
    r1 = r1
    h1 = h1
    h2 = h2
    cli1 = cli1
    Token = {admin, other}
    AdminTokenId = admin
    Permission = {"apply", "force"}
    Cli = {cli1}
    MaxSecret = 2
    MaxCommands = 1
    Request = {r1}
    Handler = {h1, h2}
    Op = {"admin", "force", "ping"}
    Window = 1
    Skew = 1
    Latency = 1
    Ttl = 3
SYMMETRY Symmetry
INVARIANTS
    AuTypeOK
    NonceSpentByItsRequest
    NoDanglingToken

    
