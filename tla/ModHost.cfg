SPECIFICATION Spec
CONSTANTS
    a = a  b = b  c = c
    Host = Host
    None = None
    Mods <- MCMods
    Names = {"f", "g"}
    Hooks = {"h"}
    Catalog <- MCCatalog
    Granted = {"granted"}
    EntryErrors = "report"
    MaxLate = 1
    MaxFires = 2
CHECK_DEADLOCK FALSE
INVARIANTS NamespacesHold CapabilitiesHold
