SPECIFICATION Spec
CONSTANTS
    Groups = {g1, g2}
    Users = {u1, u2}
    Passwords = {p1, p2}
    None = None
    WebMails = {m1}
    GateMails = {x1}
    Browsers = {b1, b2}
    gateway = gateway
    MaxReceivers = 2
    MaxRequests = 3
SYMMETRY Symmetry
INVARIANTS TypeOK SentArrives ListedReadable
PROPERTY AccountKept
