------------------------------ MODULE MCTxExecutor ------------------------------
\* TLC: small plans of swaps for the executor.
EXTENDS TxExecutor

CONSTANTS a, b

Plan(chains, ready, already, hardware, route) ==
    [chains |-> chains, ready |-> ready, sent |-> already, hardware |-> hardware, route |-> route]

\* A bridge and a swap at its far end.
TwoChains == Plan(<<a, b>>, {a}, {}, FALSE, <<a, b>>)

\* An approval, a swap and a swap at the far end; the page may have sent the approval.
ThreeTxs  == Plan(<<a, a, b>>, {a}, {1}, FALSE, <<a, b>>)

\* An approval and a swap, signed as they come or by a hardware wallet.
OneChain  == Plan(<<a, a>>, {a}, {}, FALSE, <<a>>)
Hardware  == Plan(<<a, a>>, {a}, {}, TRUE, <<a>>)

\* Without a history.
Plain     == Plan(<<a, b>>, {a, b}, {}, FALSE, <<>>)

TwoTxs    == {TwoChains}
AllPlans  == {ThreeTxs, OneChain, Hardware, Plain}
=============================================================================
