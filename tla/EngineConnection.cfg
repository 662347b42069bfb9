CONSTANTS
    Clients = {c1, c2, c3}
    NoClient = NoClient
    Schemes = {"http", "ipc", "ws"}
SPECIFICATION Spec
INVARIANTS
    TypeOK
    DialFailureLoggedOnce
    HealthyClientOpen
PROPERTIES
    StartsWhenEngineUp
    DisconnectDetected
