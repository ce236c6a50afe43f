SPECIFICATION Spec
CONSTANTS
    hysteria = hysteria
    honeypot = honeypot
    Plugins = {hysteria, honeypot}
    Users = {alice}
    Catalog <- MCCatalog
    NeedsConfig = {hysteria}
    None = None
    MaxOperations = 2
    MaxForeign = 1
    MaxFaults = 1
INVARIANTS Agreement CredentialsReady
PROPERTIES FailureRestores
CHECK_DEADLOCK FALSE
