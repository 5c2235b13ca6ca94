SPECIFICATION FairSpec
CONSTANTS
    g1 = g1
    ticket = ticket
    docs = docs
    Pods = {g1}
    Backends = {ticket, docs}
    FailureThreshold = 3
PROPERTIES
    ServiceReturns
