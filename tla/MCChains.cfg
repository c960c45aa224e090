CONSTANTS
  Chains = {f, a}
  Embedded = {f}
  MaxVersion = 2
  None = None
  Updates = {u1, u2}
SYMMETRY Symmetry
SPECIFICATION Spec
INVARIANT TypeOK
INVARIANT UpdatesOfKnownChains
PROPERTY KeepsKnown
