SPECIFICATION FairSpec
CONSTANTS
    Requests = {r1, r2}
    Configured = {"mongodb", "nats", "temporal", "telegram", "whatsapp"}
    Conns = {c1, c2, c3}
    None = None
INVARIANTS
    TypeOK
    ConnectionsOwned
PROPERTIES
    AnsweredInTime
