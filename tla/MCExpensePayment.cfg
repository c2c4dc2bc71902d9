\* Two clerks, one file and one record; the supply amount is corrected once.
\* A prepaid document may do whatever another may, and be paid earlier.
CONSTANTS
    Clerks = {c1, c2}
    Files = {f1}
    Records = {r1}
    Supplies = {1, 2}
    RecordSupply <- OneEach
    Prepaid = TRUE
    MaxVersion = 5
SPECIFICATION Spec
SYMMETRY Symmetry
INVARIANTS
    ReviewFitsTheDocument
    AutoConfirmationIsUnquestioned
    OnePaymentPerLook
    PaidAmountStands
    DialogShowsWhatItConfirms
