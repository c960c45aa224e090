CONSTANTS
  e = e
  x = x
  Chains = {e, x}
  Embedded = {e}
  MaxVersion = 0
  None = None
  Origins = {o1}
  Kinds = {"evm", "starknet"}
  Default <- AllDefaultToE
  PlainTypes = {}
  Asked <- AskedSets
  Requests = {r1, r2}
SPECIFICATION Spec
SYMMETRY Symmetry
INVARIANT TypeOK
INVARIANT PermittedIsKnown
INVARIANT EVMCurrentIsPermitted
PROPERTY RunsPermitted
PROPERTY TimerKept
