SPECIFICATION Spec
CONSTANTS
 Key <- Keywords
 Parameters <- SomeParameters
 UtxoSets <- SomeUtxoSets
 Rows <- SomeRows
INVARIANTS NothingUnwritable AmountsArrive ListIsExact
