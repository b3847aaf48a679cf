------------------------------ MODULE MCTxPool ------------------------------
EXTENDS TxPool

CONSTANTS a, b

Tx(from, nonce, price) == [from |-> from, nonce |-> nonce, price |-> price]

MCTxs == {Tx(a, 0, 20), Tx(a, 0, 30), Tx(a, 1, 20), Tx(b, 0, 10), Tx(b, 1, 40)}
MCSubmissions ==
    [tx : {Tx(a, 0, 20), Tx(a, 0, 30), Tx(b, 1, 40)}, local : {FALSE}]
        \cup [tx : {Tx(a, 1, 20)}, local : BOOLEAN]

MCFunds == [x \in {a, b} |-> IF x = a THEN 45 ELSE 60]
=============================================================================
