---------------------------- MODULE KeeperChain ----------------------------
(***************************************************************************)
(* The blockchain as opencex_swap_api/keeper.py uses it: one keeper        *)
(* account, the transactions its nodes hold (the pool) and the blocks      *)
(* that confirm them.  The chain is external: it is modelled from the      *)
(* calls the keeper makes (eth_getTransactionCount, eth_sendRaw-           *)
(* Transaction, eth_getTransactionReceipt) and from the account-nonce      *)
(* rule those calls rely on.                                               *)
(*                                                                         *)
(* The pool is the union of the pools of several nodes: the public RPC     *)
(* router and a private relay are different endpoints, so two different    *)
(* transactions that carry the same nonce may both be pending.             *)
(***************************************************************************)
EXTENDS SwapPlans

CONSTANT Fees   \* maxFeePerGas values: two fees make two hashes

VARIABLES
    pool,         \* broadcast, not mined, not evicted
    sent,         \* every transaction a node ever accepted
    mined,        \* [tx, ok]: confirmed transactions with receipt status
    chainNonce    \* transaction count of the keeper account at "latest"

chainVars == <<pool, sent, mined, chainNonce>>

\* The record is the identity (the hash) of a signed transaction.
Txs == [ex: Executions, kind: {"approve", "swap"}, nonce: Nat, fee: Fees]

ChainTypeOK ==
    /\ pool \subseteq Txs
    /\ sent \subseteq Txs
    /\ mined \subseteq [tx: Txs, ok: BOOLEAN]
    /\ chainNonce \in Nat

ChainInit ==
    /\ pool = {}
    /\ sent = {}
    /\ mined = {}
    /\ chainNonce = 0

Mined(t) == \E m \in mined : m.tx = t

MinedOk(t) == [tx |-> t, ok |-> TRUE] \in mined

\* The swaps of execution e that moved the keeper's tokens.
SettledSwaps(e) == {m \in mined : m.ok /\ m.tx.kind = "swap" /\ m.tx.ex = e}

\* approve(spender, 2**256 - 1) never runs out: one success is enough.
Approved == \E m \in mined : m.ok /\ m.tx.kind = "approve"

\* A node takes t unless the account has already used its nonce.  A node that
\* does not hold t yet takes it even when another node does.
Accepts(t) == t.nonce >= chainNonce

Broadcast(t) ==
    /\ Accepts(t)
    /\ pool' = pool \cup {t}
    /\ sent' = sent \cup {t}
    /\ UNCHANGED <<mined, chainNonce>>

\* A block confirms t: the account's nonce advances and the transactions with
\* the same nonce can never be mined.  A swap that has to pull tokens through
\* an allowance succeeds only when the allowance is there.
Mine(t, ok) ==
    /\ t \in pool
    /\ t.nonce = chainNonce
    /\ ok /\ t.kind = "swap" /\ NeedsAllowance[t.ex] => Approved
    /\ mined' = mined \cup {[tx |-> t, ok |-> ok]}
    /\ chainNonce' = chainNonce + 1
    /\ pool' = {p \in pool : p.nonce > chainNonce}
    /\ UNCHANGED sent

\* Every node drops a pending transaction (pool full, or too old).
Evict(t) ==
    /\ t \in pool
    /\ pool' = pool \ {t}
    /\ UNCHANGED <<sent, mined, chainNonce>>

ChainStep ==
    \/ \E t \in pool, ok \in BOOLEAN : Mine(t, ok)
    \/ \E t \in pool : Evict(t)
=============================================================================
