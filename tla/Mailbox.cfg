SPECIFICATION Spec
CONSTANTS
    Users = {u1, u2}
    Senders = {s1}
    Readers = {r1}
    Lines = {text, helo}
    Commands = {helo}
    OneReader = TRUE
    MaxMails = 3
    MaxLines = 1
    MaxRcpts = 2
    MaxQuits = 2
    MaxCrashes = 1
INVARIANTS TypeOK AsAsked InOrder LossExplained
