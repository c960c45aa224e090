CONSTANTS
  Chains = {f, a}
  Embedded = {f}
  First = f
  MaxVersion = 1
  None = None
  Vaults = {v1, v2}
  Tasks = {t1}
  Retired = a
  Upgrading = TRUE
SPECIFICATION Spec
INVARIANT EnabledIsKnown
