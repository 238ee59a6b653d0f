------------------------------ MODULE SwapTask ------------------------------
(***************************************************************************)
(* The custodial swap from enqueue_swap to the final status of its         *)
(* SwapExecution row: the web process that creates the row and publishes   *)
(* the message, the Celery broker, the workers that run execute_swap_task  *)
(* (opencex_django/tasks.py) around SwapKeeper.execute, the chain, and the *)
(* crashes and redeliveries a late-acknowledging task is exposed to.       *)
(*                                                                         *)
(* The broker is external.  acks_late=True: a message leaves the broker    *)
(* when the task has returned.  A connection lost in between makes the     *)
(* broker deliver it again; a worker process that dies alone has its       *)
(* message acknowledged by its parent.                                     *)
(***************************************************************************)
EXTENDS SwapKeeper

CONSTANTS
    MaxCrashes,      \* bound on worker crashes
    MaxDuplicates    \* bound on deliveries of a message still being processed

ASSUME BoundAssumption == MaxCrashes \in Nat /\ MaxDuplicates \in Nat

VARIABLES
    client,     \* per execution: how far enqueue_swap is
    status,     \* SwapExecution.status
    txHash,     \* SwapExecution.tx_hash
    ready,      \* copies of each message the broker will deliver
    crashes,
    duplicates

rowVars == <<client, status, txHash>>
brokerVars == <<ready, crashes, duplicates>>
vars == <<rowVars, brokerVars, runVars, chainVars, ledgerVars>>

\* "absent": the row is not created yet.  LOCKING and CONFIRMING are declared
\* by the model and assigned by no code.
Statuses == {"absent", "queued", "broadcasting", "success", "failed",
             "reverted"}

\* Mutants: statuses the check at the start of the task lets through.
RunnableAfterSuccess == {"queued", "failed", "success"}
RunnableAfterRevert == {"queued", "failed", "reverted"}
RunnableAfterCrash == {"queued", "failed", "broadcasting"}

Runnable == {"queued", "failed"}

RowTypeOK ==
    /\ client \in [Executions -> {"new", "created", "done"}]
    /\ status \in [Executions -> Statuses]
    /\ txHash \in [Executions -> Txs \cup {NoTx}]

BrokerTypeOK ==
    /\ ready \in [Messages -> Nat]
    /\ crashes \in Nat
    /\ duplicates \in Nat

\* Every variable keeps its type.
TypeOK == RowTypeOK /\ BrokerTypeOK /\ RunTypeOK /\ ChainTypeOK /\ LedgerTypeOK

Init ==
    /\ client = [e \in Executions |-> "new"]
    /\ status = [e \in Executions |-> "absent"]
    /\ txHash = [e \in Executions |-> NoTx]
    /\ ready = [m \in Messages |-> 0]
    /\ crashes = 0
    /\ duplicates = 0
    /\ RunInit
    /\ ChainInit
    /\ LedgerInit

----------------------------------------------------------------------------
(* enqueue_swap *)

CreateRow(e) ==
    /\ client[e] = "new"
    /\ client' = [client EXCEPT ![e] = "created"]
    /\ status' = [status EXCEPT ![e] = "queued"]
    /\ UNCHANGED <<txHash, brokerVars, runVars, chainVars, ledgerVars>>

\* Mutant: the web process publishes again for a row it published.
PublishAgain(e) ==
    /\ client[e] = "created"
    /\ ready' = [ready EXCEPT ![[ex |-> e, n |-> 0]] = @ + 1]
    /\ UNCHANGED <<client, status, txHash, crashes, duplicates, runVars,
                   chainVars, ledgerVars>>

\* .delay(); the save of celery_task_id that follows changes no other field.
Publish(e) ==
    /\ client[e] = "created"
    /\ client' = [client EXCEPT ![e] = "done"]
    /\ ready' = [ready EXCEPT ![[ex |-> e, n |-> 0]] = @ + 1]
    /\ UNCHANGED <<status, txHash, crashes, duplicates, runVars, chainVars,
                   ledgerVars>>

\* The broker is down or the web process dies: the row stays queued.
PublishFails(e) ==
    /\ crashes < MaxCrashes
    /\ crashes' = crashes + 1
    /\ client[e] = "created"
    /\ client' = [client EXCEPT ![e] = "done"]
    /\ UNCHANGED <<status, txHash, ready, duplicates, runVars, chainVars,
                   ledgerVars>>

----------------------------------------------------------------------------
(* execute_swap_task *)

\* The task starts: it reads the row and looks at the status of its copy.  No
\* lock is taken on the row.  Any other status ends the task.
Receive(w, m) ==
    /\ ready[m] > 0
    /\ ready' = [ready EXCEPT ![m] = @ - 1]
    /\ Goto(w, "idle", IF status[m.ex] \in Runnable THEN "claim" ELSE "ack")
    /\ job' = [job EXCEPT ![w] = m]
    /\ UNCHANGED <<crashes, duplicates, cur, nonce, tx, result, rowVars,
                   chainVars, ledgerVars>>

\* save(update_fields=["status", ...]) whatever the row holds by now.
Claim(w) ==
    /\ Goto(w, "claim", "execute")
    /\ status' = [status EXCEPT ![Ex(w)] = "broadcasting"]
    /\ UNCHANGED <<client, txHash, brokerVars, job, cur, nonce, tx, result,
                   chainVars, ledgerVars>>

Execute(w) == KeeperStep(w) /\ UNCHANGED <<rowVars, brokerVars>>

\* Mutants: a timeout is shown as CONFIRMING, or as REVERTED.
StatusConfirming(r) ==
    IF r = "success" THEN "success"
    ELSE IF r = "tx_reverted" THEN "reverted"
    ELSE IF r = "timeout_waiting_receipt" THEN "confirming" ELSE "failed"
StatusOfTimeout(r) ==
    IF r = "success" THEN "success"
    ELSE IF r \in {"tx_reverted", "timeout_waiting_receipt"} THEN "reverted"
    ELSE "failed"

StatusOf(r) ==
    IF r = "success" THEN "success"
    ELSE IF r = "tx_reverted" THEN "reverted" ELSE "failed"

\* Mutant: the hash of an earlier attempt is kept.
WriteResultKeepsHash(w) ==
    /\ Goto(w, "write", "ack")
    /\ status' = [status EXCEPT ![Ex(w)] = StatusOf(result[w])]
    /\ txHash' = [txHash EXCEPT ![Ex(w)] = IF @ = NoTx THEN tx[w] ELSE @]
    /\ UNCHANGED <<client, brokerVars, job, cur, nonce, tx, result, chainVars,
                   ledgerVars>>

\* The atomic block: the refreshed row is overwritten, whatever it says.
WriteResult(w) ==
    /\ Goto(w, "write", "ack")
    /\ status' = [status EXCEPT ![Ex(w)] = StatusOf(result[w])]
    /\ txHash' = [txHash EXCEPT ![Ex(w)] = tx[w]]
    /\ UNCHANGED <<client, brokerVars, job, cur, nonce, tx, result, chainVars,
                   ledgerVars>>

\* The atomic block raises; the task fails without a retry.
ResultLost(w) ==
    /\ "result_lost" \in Faults
    /\ Goto(w, "write", "ack")
    /\ UNCHANGED <<job, cur, nonce, tx, result, rowVars, brokerVars, chainVars,
                   ledgerVars>>

\* Mutant: the retry is published without saving FAILED first.
FailedNotSaved(w) ==
    /\ Goto(w, "raised", "retry")
    /\ UNCHANGED <<rowVars, brokerVars, job, cur, nonce, tx, result, chainVars,
                   ledgerVars>>

\* except Exception around keeper.execute: status and error are saved ...
SaveFailed(w) ==
    /\ Goto(w, "raised", "retry")
    /\ status' = [status EXCEPT ![Ex(w)] = "failed"]
    /\ UNCHANGED <<client, txHash, brokerVars, job, cur, nonce, tx, result,
                   chainVars, ledgerVars>>

\* ... and self.retry publishes the next attempt while there is one left.
Retry(w) ==
    /\ Goto(w, "retry", "ack")
    /\ ready' = IF job[w].n < MaxRetries
                THEN [ready EXCEPT ![[ex |-> Ex(w), n |-> job[w].n + 1]] = @ + 1]
                ELSE ready
    /\ UNCHANGED <<crashes, duplicates, job, cur, nonce, tx, result, rowVars,
                   chainVars, ledgerVars>>

\* The worker is idle and nothing of its run is left in memory.
Forget(w) ==
    /\ pc' = [pc EXCEPT ![w] = "idle"]
    /\ job' = [job EXCEPT ![w] = NoJob]
    /\ cur' = [cur EXCEPT ![w] = 0]
    /\ nonce' = [nonce EXCEPT ![w] = 0]
    /\ tx' = [tx EXCEPT ![w] = NoTx]
    /\ result' = [result EXCEPT ![w] = "none"]

\* The task has returned or raised; its message is acknowledged.
Ack(w) ==
    /\ pc[w] = "ack"
    /\ Forget(w)
    /\ UNCHANGED <<rowVars, brokerVars, chainVars, ledgerVars>>

----------------------------------------------------------------------------
(* Crashes and redelivery *)

\* A crash loses the run; the message is redelivered or acknowledged.
Crash(w) ==
    /\ crashes < MaxCrashes
    /\ crashes' = crashes + 1
    /\ pc[w] # "idle"
    /\ Forget(w)
    /\ \/ ready' = [ready EXCEPT ![job[w]] = @ + 1]
       \/ ready' = ready
    /\ UNCHANGED <<duplicates, rowVars, chainVars, ledgerVars>>

\* The broker's visibility timeout ends while the task is still running.
Redeliver(w) ==
    /\ duplicates < MaxDuplicates
    /\ duplicates' = duplicates + 1
    /\ pc[w] # "idle"
    /\ ready' = [ready EXCEPT ![job[w]] = @ + 1]
    /\ UNCHANGED <<crashes, rowVars, runVars, chainVars, ledgerVars>>

Enqueue == \E e \in Executions : CreateRow(e) \/ Publish(e) \/ PublishFails(e)

\* One step of the task a worker runs.
TaskStep(w) ==
    \/ Claim(w) \/ Execute(w) \/ WriteResult(w) \/ ResultLost(w)
    \/ SaveFailed(w) \/ Retry(w) \/ Ack(w)

Deliver(w) == \E m \in Messages : Receive(w, m)

Faulty(w) == Crash(w) \/ Redeliver(w)

Chain == ChainStep /\ UNCHANGED <<rowVars, brokerVars, runVars, ledgerVars>>

Next ==
    \/ Enqueue
    \/ \E w \in Workers : Deliver(w) \/ TaskStep(w) \/ Faulty(w)
    \/ Chain

Spec == Init /\ [][Next]_vars

\* enqueue_swap runs to its end; a worker that has a task goes on with it and
\* an idle one takes what is ready.  Nothing is assumed of the chain: the
\* keeper's waits end by their own timeouts.
Fairness ==
    /\ \A e \in Executions : WF_vars(Publish(e))
    /\ \A w \in Workers : WF_vars(TaskStep(w)) /\ WF_vars(Deliver(w))

FairSpec == Spec /\ Fairness

----------------------------------------------------------------------------
(* Properties *)

\* A worker in one of these places may still change the row of its execution.
Live(w) == pc[w] \notin {"idle", "retry", "ack"}

\* A worker in one of these places has taken a hold it has not given back.
Holding == {"web3", "allowance", "approve", "approving", "nonce", "send",
            "wait", "credit", "unlock", "free"}

Swaps(e) == {t \in sent : t.ex = e /\ t.kind = "swap"}

\* The final statuses tell what the chain did: the hash of a SUCCESS row is a
\* swap of that row which was mined and succeeded, the hash of a REVERTED row
\* one which was mined and failed.  The receipt is read several steps before
\* the row is written, with crashes, redeliveries and other runs in between.
FinalMatchesChain ==
    \A e \in Executions :
        /\ status[e] = "success" =>
              \E m \in SettledSwaps(e) : m.tx = txHash[e]
        /\ status[e] = "reverted" =>
              \E m \in mined : /\ m.tx = txHash[e] /\ ~m.ok
                               /\ m.tx.ex = e /\ m.tx.kind = "swap"

\* The strengthening that makes FinalMatchesChain inductive: what a run knows
\* of the chain, from the moment it waits for its swap until the row is written.
OwnSwap(w) == tx[w] \in Txs /\ tx[w].ex = Ex(w) /\ tx[w].kind = "swap"

RunKnows(w) ==
    /\ pc[w] \in {"wait", "credit"} => OwnSwap(w)
    /\ pc[w] = "credit" => MinedOk(tx[w])
    /\ pc[w] \in {"unlock", "free"} => result[w] # "success"
    /\ pc[w] = "write" /\ result[w] = "success" =>
          OwnSwap(w) /\ MinedOk(tx[w])
    /\ pc[w] \in {"unlock", "free", "write"} /\ result[w] = "tx_reverted" =>
          OwnSwap(w) /\ [tx |-> tx[w], ok |-> FALSE] \in mined

\* No units of the sell token appear or vanish between the free balance and
\* the orders of a user, although every hook writes an amount_in_orders
\* computed from an earlier read.
Conservation == \A u \in Users : avail[u] + inOrders[u] = Deposit[u]

\* The orders of a user cover every run that trades with the user's hold.
HoldCoversRuns ==
    \A w \in Workers : pc[w] \in Holding => inOrders[User(w)] >= Amount[Ex(w)]

\* The buy amount of an execution is credited once at the most, and only for a
\* swap of that execution which settled on the chain.
CreditedOnce ==
    \A e \in Executions :
        /\ credits[e] <= 1
        /\ credits[e] > 0 => SettledSwaps(e) # {}

\* While the broker delivers exactly once, two workers never run the same
\* execution, although the status check takes no lock.
OneRunPerExecution ==
    \A v, w \in Workers : v # w /\ Live(v) /\ Live(w) => Ex(v) # Ex(w)

\* While the broker delivers exactly once, no execution has two swaps on the
\* network: the task retries only what raised, and nothing raises once a swap
\* may have left.
OneSwapPerExecution == \A e \in Executions : Cardinality(Swaps(e)) <= 1

\* While the broker delivers exactly once, a REVERTED row, whose hold went back
\* to the user, has no swap that settled, and none that still can.
RevertedMeansUnsettled ==
    \A e \in Executions : status[e] = "reverted" =>
        SettledSwaps(e) = {} /\ Swaps(e) \cap pool = {}

\* A BROADCASTING row that no run works on (its worker died, or its result was
\* lost) is never run again, by no redelivery: its swap may have settled.
Stranded(e) ==
    /\ status[e] = "broadcasting"
    /\ \A w \in Workers : Live(w) => Ex(w) # e

NoResumeAfterCrash ==
    [][\A e \in Executions :
         Stranded(e) => Stranded(e)' /\ Swaps(e)' = Swaps(e)]_vars

\* README.md: "credit buy / unlock on failure".  A FAILED row that no run works
\* on has no hold left.
UnlockedOnFailure ==
    \A e \in Executions :
        status[e] = "failed" /\ (\A w \in Workers : Live(w) => Ex(w) # e)
            => holds[e] = 0

\* README.md: "credit buy".  As long as the balance manager does not fail, the
\* row shows SUCCESS only once the buy amount of its execution is credited.
SuccessIsCredited ==
    \A e \in Executions : status[e] = "success" => credits[e] > 0

\* ops/LOAD_TEST.md: "concurrency 2-4 (nonce-safe)".  Two workers never wait
\* for transactions that carry the same nonce: one of them can never be mined.
NonceSafe ==
    \A v, w \in Workers :
        v # w /\ pc[v] = "wait" /\ pc[w] = "wait" => tx[v].nonce # tx[w].nonce

\* tests/test_keeper_e2e.py, test_lock_insufficient_returns_false: a lock the
\* user's balance does not cover is refused with False, without an exception.
InsufficientIsRefused ==
    [][\A w \in Workers : pc[w] = "hold" /\ ~Covers(Ex(w)) => pc'[w] # "raised"]_vars

\* A row is created once, before its message: while it is absent nobody runs it.
AbsentUntouched ==
    \A e \in Executions : client[e] = "new" =>
        /\ status[e] = "absent"
        /\ \A w \in Workers : Live(w) => Ex(w) # e

Settled(e) == status[e] \in {"success", "failed", "reverted"}

\* No run works on the row and no message will start one.
Abandoned(e) ==
    /\ \A w \in Workers : Live(w) => Ex(w) # e
    /\ \A m \in Messages : m.ex = e => ready[m] = 0

\* Every published execution comes to rest in a final status, retries and
\* redeliveries included, whatever the chain does; only a crash can leave one
\* that nobody works on any more without a status.
PublishedSettles ==
    \A e \in Executions :
        client[e] = "done" ~> [](Settled(e) \/ (crashes > 0 /\ Abandoned(e)))

\* With one worker the detailed system implements the abstract swap.
Abstract == INSTANCE CustodialSwap WITH
    phase <- status,
    settled <- {e \in Executions : SettledSwaps(e) # {}},
    credited <- {e \in Executions : credits[e] > 0}

ImplementsCustodialSwap == Abstract!Spec
=============================================================================
