\* One clerk on the document page, two files, one record.
CONSTANTS
    Clerks = {c1}
    Files = {f1, f2}
    Records = {r1}
    Supplies = {1}
    RecordSupply <- OneEach
    Prepaid = FALSE
    MaxVersion = 5
SPECIFICATION Spec
INVARIANTS
    PageShowsWhatItConfirms
