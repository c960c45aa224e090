CONSTANTS
  Chains = {f, a}
  Embedded = {f}
  First = f
  MaxVersion = 1
  None = None
  Vaults = {v1}
  Tasks = {t1}
  Retired = a
  Upgrading = FALSE
SPECIFICATION Spec
INVARIANT TypeOK
INVARIANT EnabledIsKnown
INVARIANT KeptForLiveVaults
PROPERTY TurnedOffForgetsHidden
