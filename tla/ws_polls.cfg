SPECIFICATION Spec
CONSTANTS
    Clients = {c1, c2}
    c1 = c1
    w50 = w50
    w60 = w60
    w50slots = w50slots
    Texts = {w50, w60, w50slots}
    ParseInt <- Windows
    Invalid = Invalid
    MAX_CONNECTIONS = 2
    MAX_SUBS_PER_CLIENT = 1
    Polls = {q1, q2}
    Failed = Failed
    MaxVersion = 2
INVARIANTS
    WsTypeOK
PROPERTIES
    PricesAreOfThePoll
    OlderOnlyOnOverlap
    OneSubscriberHears
