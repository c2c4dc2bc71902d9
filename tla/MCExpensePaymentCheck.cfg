\* One clerk, one file, one record.
CONSTANTS
    Clerks = {c1}
    Files = {f1}
    Records = {r1}
    Supplies = {1}
    RecordSupply <- OneEach
    Prepaid = FALSE
    MaxVersion = 5
SPECIFICATION Spec
INVARIANTS
    ConfirmationsKnowTheChecks
