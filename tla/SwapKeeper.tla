---------------------------- MODULE SwapKeeper -----------------------------
(***************************************************************************)
(* SwapKeeper.execute (opencex_swap_api/keeper.py) with the balance hooks  *)
(* it calls (opencex_django/balance_hooks.py), as the steps between which  *)
(* another worker, the chain or a crash can act: one step per database     *)
(* statement or RPC call that another actor can tell apart.                *)
(*                                                                         *)
(* A worker holds one job at a time.  pc says where its call to execute    *)
(* is; the other variables are its local variables.  SwapTask composes     *)
(* these steps with the Celery task around them.                           *)
(***************************************************************************)
EXTENDS KeeperChain, BalanceLedger

CONSTANTS
    Workers,      \* Celery worker processes
    MaxRetries,   \* max_retries of the task decorator (2 in the code)
    Faults,       \* which environment faults may happen, from FaultKinds
    NoTx          \* Python None for a transaction hash

FaultKinds == {"config", "early_raise", "hooks_missing", "rpc_raise",
               "unlock_fails", "credit_fails", "result_lost"}

ASSUME KeeperAssumption ==
    /\ MaxRetries \in Nat
    /\ Faults \subseteq FaultKinds
    /\ NoTx \notin Txs

VARIABLES
    pc,       \* where the worker's run is
    job,      \* the message [ex, n] the worker processes
    cur,      \* amount_in_orders as the current hook call read it
    nonce,    \* the nonce execute read for the transaction it is building
    tx,       \* the transaction whose receipt the run waits for, or NoTx
    result    \* ExecutionResult: "success" or the kind of error

runVars == <<pc, job, cur, nonce, tx, result>>

Messages == [ex: Executions, n: 0..MaxRetries]

Results == {"none", "success", "rejected", "lock_failed",
            "timeout_waiting_receipt", "tx_reverted", "exception"}

\* Steps of the run in program order; the first and the last ones belong to
\* the task (SwapTask).
PCs == {"idle", "claim", "execute", "lock", "hold", "web3", "allowance",
        "approve", "approving", "nonce", "send", "wait", "credit",
        "unlock", "free", "write", "raised", "retry", "ack"}

RunTypeOK ==
    /\ pc \in [Workers -> PCs]
    /\ job \in [Workers -> Messages]
    /\ cur \in [Workers -> Int]
    /\ nonce \in [Workers -> Nat]
    /\ tx \in [Workers -> Txs \cup {NoTx}]
    /\ result \in [Workers -> Results]

\* What a worker without a task holds.
NoJob == [ex |-> CHOOSE e \in Executions : TRUE, n |-> 0]

RunInit ==
    /\ pc = [w \in Workers |-> "idle"]
    /\ job = [w \in Workers |-> NoJob]
    /\ cur = [w \in Workers |-> 0]
    /\ nonce = [w \in Workers |-> 0]
    /\ tx = [w \in Workers |-> NoTx]
    /\ result = [w \in Workers |-> "none"]

\* The execution and the owner a worker works for.
Ex(w) == job[w].ex
User(w) == Owner[Ex(w)]

Goto(w, from, to) == pc[w] = from /\ pc' = [pc EXCEPT ![w] = to]

\* return ExecutionResult(error=r)
Returns(w, r) == result' = [result EXCEPT ![w] = r]

----------------------------------------------------------------------------
(* Before the hold *)

\* Neither the keeper key nor the calldata is checked by any earlier step.
RejectPlan(w) ==
    /\ "config" \in Faults
    /\ Goto(w, "execute", "write")
    /\ Returns(w, "rejected")
    /\ UNCHANGED <<job, cur, nonce, tx, chainVars, ledgerVars>>

AcceptPlan(w) ==
    /\ Goto(w, "execute", "lock")
    /\ UNCHANGED <<job, cur, nonce, tx, result, chainVars, ledgerVars>>

\* load_keeper_config or the plan's keys raise; nothing catches it in execute.
RaiseEarly(w) ==
    /\ "early_raise" \in Faults
    /\ Goto(w, "execute", "raised")
    /\ UNCHANGED <<job, cur, nonce, tx, result, chainVars, ledgerVars>>

\* Mutant: the False of lock_balance is ignored.
LockIgnored(w) ==
    /\ "hooks_missing" \in Faults
    /\ Goto(w, "lock", "web3")
    /\ UNCHANGED <<job, cur, nonce, tx, result, chainVars, ledgerVars>>

\* lock_balance returns False: BalanceManager cannot be imported.
LockUnavailable(w) ==
    /\ "hooks_missing" \in Faults
    /\ Goto(w, "lock", "write")
    /\ Returns(w, "lock_failed")
    /\ UNCHANGED <<job, cur, nonce, tx, chainVars, ledgerVars>>

\* lock_balance reads the balance row.
LockRead(w) ==
    /\ Goto(w, "lock", "hold")
    /\ cur' = [cur EXCEPT ![w] = inOrders[User(w)]]
    /\ UNCHANGED <<job, nonce, tx, result, chainVars, ledgerVars>>

\* lock_balance stores the hold it computed from that row.
LockWrite(w) ==
    /\ Goto(w, "hold", "web3")
    /\ SetHold(Ex(w), Raised(Ex(w), cur[w]))
    /\ UNCHANGED <<job, cur, nonce, tx, result, chainVars>>

\* set_hold raises for want of funds.  The handler's log line names exp, an
\* undefined variable, so a NameError leaves lock_balance and execute.
LockRaises(w) ==
    /\ ~Covers(Ex(w))
    /\ Goto(w, "hold", "raised")
    /\ UNCHANGED <<job, cur, nonce, tx, result, chainVars, ledgerVars>>

----------------------------------------------------------------------------
(* The transaction *)

GetWeb3(w) ==
    /\ Goto(w, "web3", "allowance")
    /\ UNCHANGED <<job, cur, nonce, tx, result, chainVars, ledgerVars>>

\* get_web3 of the RPC router finds no provider.  The call is made after the
\* lock and before the try, so the exception passes the unlock by.
GetWeb3Raises(w) ==
    /\ "rpc_raise" \in Faults
    /\ Goto(w, "web3", "raised")
    /\ UNCHANGED <<job, cur, nonce, tx, result, chainVars, ledgerVars>>

AllowanceEnough(w) ==
    /\ NeedsAllowance[Ex(w)] => Approved
    /\ Goto(w, "allowance", "nonce")
    /\ UNCHANGED <<job, cur, nonce, tx, result, chainVars, ledgerVars>>

\* _ensure_allowance reads a nonce of its own for the approval.
AllowanceShort(w) ==
    /\ NeedsAllowance[Ex(w)]
    /\ ~Approved
    /\ Goto(w, "allowance", "approve")
    /\ nonce' = [nonce EXCEPT ![w] = chainNonce]
    /\ UNCHANGED <<job, cur, tx, result, chainVars, ledgerVars>>

ReadNonce(w) ==
    /\ Goto(w, "nonce", "send")
    /\ nonce' = [nonce EXCEPT ![w] = chainNonce]
    /\ UNCHANGED <<job, cur, tx, result, chainVars, ledgerVars>>

Signed(w, kind, fee) ==
    [ex |-> Ex(w), kind |-> kind, nonce |-> nonce[w], fee |-> fee]

\* send_raw_transaction returns the hash.
Send(w, kind, from, to) ==
    /\ Goto(w, from, to)
    /\ \E fee \in Fees :
        /\ Broadcast(Signed(w, kind, fee))
        /\ tx' = [tx EXCEPT ![w] = Signed(w, kind, fee)]
    /\ UNCHANGED <<job, cur, nonce, result, ledgerVars>>

SendApprove(w) == Send(w, "approve", "approve", "approving")
SendSwap(w) == Send(w, "swap", "send", "wait")

\* The except clause: whatever failed, the result carries no hash.
Excepts(w, from) ==
    /\ Goto(w, from, "unlock")
    /\ Returns(w, "exception")
    /\ tx' = [tx EXCEPT ![w] = NoTx]
    /\ UNCHANGED <<job, cur, nonce, ledgerVars>>

\* An RPC call of the try block fails before anything is sent: reading the
\* allowance or the nonce, estimating gas, or a node refusing the transaction.
RpcFails(w) ==
    /\ \E from \in {"allowance", "approve", "nonce", "send"} : Excepts(w, from)
    /\ UNCHANGED chainVars

\* The node takes the transaction and the answer is lost (HTTP timeout).
AnswerLost(w) ==
    \E kind \in {"approve", "swap"}, fee \in Fees :
        /\ Excepts(w, IF kind = "swap" THEN "send" ELSE "approve")
        /\ Broadcast(Signed(w, kind, fee))

\* The approval's receipt status is not looked at.
ApproveMined(w) ==
    /\ Mined(tx[w])
    /\ Goto(w, "approving", "nonce")
    /\ UNCHANGED <<job, cur, nonce, tx, result, chainVars, ledgerVars>>

\* wait_for_transaction_receipt raises when its time is over.
ApproveTimeout(w) ==
    /\ Excepts(w, "approving")
    /\ UNCHANGED chainVars

----------------------------------------------------------------------------
(* The receipt *)

\* Mutant: the receipt's status is not looked at.
ReceiptOfAnyStatus(w) ==
    /\ Mined(tx[w])
    /\ Goto(w, "wait", "credit")
    /\ UNCHANGED <<job, cur, nonce, tx, result, chainVars, ledgerVars>>

ReceiptOk(w) ==
    /\ MinedOk(tx[w])
    /\ Goto(w, "wait", "credit")
    /\ UNCHANGED <<job, cur, nonce, tx, result, chainVars, ledgerVars>>

ReceiptReverted(w) ==
    /\ Mined(tx[w])
    /\ ~MinedOk(tx[w])
    /\ Goto(w, "wait", "unlock")
    /\ Returns(w, "tx_reverted")
    /\ UNCHANGED <<job, cur, nonce, tx, chainVars, ledgerVars>>

\* Mutant: a timeout raises, as wait_for_transaction_receipt does.
ReceiptTimeoutRaises(w) ==
    /\ Goto(w, "wait", "raised")
    /\ UNCHANGED <<job, cur, nonce, tx, result, chainVars, ledgerVars>>

\* _wait_receipt swallows every RPC error, so it may return None even for a
\* transaction that is mined.
ReceiptTimeout(w) ==
    /\ Goto(w, "wait", "unlock")
    /\ Returns(w, "timeout_waiting_receipt")
    /\ UNCHANGED <<job, cur, nonce, tx, chainVars, ledgerVars>>

\* Mutant: the credit of a successful swap is left to someone else.
CreditForgotten(w) ==
    /\ Goto(w, "credit", "write")
    /\ Returns(w, "success")
    /\ UNCHANGED <<job, cur, nonce, tx, chainVars, ledgerVars>>

Credit(w) ==
    /\ Goto(w, "credit", "write")
    /\ Returns(w, "success")
    /\ IncreaseAmount(Ex(w))
    /\ UNCHANGED <<job, cur, nonce, tx, chainVars>>

\* credit_balance swallows its errors and execute ignores what it returns; a
\* plan without an expected buy amount is not credited at all.
CreditNothing(w) ==
    /\ "credit_fails" \in Faults
    /\ Goto(w, "credit", "write")
    /\ Returns(w, "success")
    /\ UNCHANGED <<job, cur, nonce, tx, chainVars, ledgerVars>>

\* unlock_balance reads the balance row ...
UnlockRead(w) ==
    /\ Goto(w, "unlock", "free")
    /\ cur' = [cur EXCEPT ![w] = inOrders[User(w)]]
    /\ UNCHANGED <<job, nonce, tx, result, chainVars, ledgerVars>>

\* ... and stores what is left of the hold.
UnlockWrite(w) ==
    /\ Goto(w, "free", "write")
    /\ FreeHold(Ex(w), Lowered(Ex(w), cur[w]))
    /\ UNCHANGED <<job, cur, nonce, tx, result, chainVars>>

\* unlock_balance swallows its errors: the hold stays.
UnlockFails(w) ==
    /\ "unlock_fails" \in Faults
    /\ Goto(w, "unlock", "write")
    /\ UNCHANGED <<job, cur, nonce, tx, result, chainVars, ledgerVars>>

KeeperStep(w) ==
    \/ RejectPlan(w) \/ AcceptPlan(w) \/ RaiseEarly(w)
    \/ LockUnavailable(w) \/ LockRead(w) \/ LockWrite(w) \/ LockRaises(w)
    \/ GetWeb3(w) \/ GetWeb3Raises(w)
    \/ AllowanceEnough(w) \/ AllowanceShort(w) \/ ReadNonce(w)
    \/ SendApprove(w) \/ SendSwap(w) \/ RpcFails(w) \/ AnswerLost(w)
    \/ ApproveMined(w) \/ ApproveTimeout(w)
    \/ ReceiptOk(w) \/ ReceiptReverted(w) \/ ReceiptTimeout(w)
    \/ Credit(w) \/ CreditNothing(w)
    \/ UnlockRead(w) \/ UnlockWrite(w) \/ UnlockFails(w)
=============================================================================
