SPECIFICATION QuorumSpec
CONSTANTS
    Forms = {"p2sh", "p2wsh", "p2tr"}
    Owners <- MCOwners
    Derivers <- MCDerivers
    Counts = {3}
    Thresholds = {2}
    ForeignKeys <- MCForeignKeys
    MS_MAX_PUBKEYS = 3
    TAPSCRIPT_NUMEQUAL = "numequalverify"
INVARIANT IdiomAccepts
CHECK_DEADLOCK FALSE
