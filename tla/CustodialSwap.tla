--------------------------- MODULE CustodialSwap ---------------------------
(***************************************************************************)
(* What the custodial swap promises for each execution, without workers,   *)
(* brokers or balances: the statuses of SwapExecution                      *)
(* (opencex_django/models.py) and the order in which a caller may see      *)
(* them, tied to what happened on the chain.  SUCCESS and REVERTED are     *)
(* final; SUCCESS is shown only after the swap settled; the buy amount is  *)
(* credited once, while the row is BROADCASTING, for a settled swap.  A    *)
(* FAILED row may start again, and its swap may settle late.               *)
(***************************************************************************)
CONSTANT Executions

VARIABLES
    phase,      \* what GET /swap/executions/<id>/ shows; "absent" before
    settled,    \* executions with a successful swap on the chain
    credited    \* executions whose buy amount was credited

vars == <<phase, settled, credited>>

Init ==
    /\ phase = [e \in Executions |-> "absent"]
    /\ settled = {}
    /\ credited = {}

Moves(e, from, to) ==
    /\ phase[e] \in from
    /\ phase' = [phase EXCEPT ![e] = to]
    /\ UNCHANGED <<settled, credited>>

Submit(e) == Moves(e, {"absent"}, "queued")

Start(e) == Moves(e, {"queued", "failed"}, "broadcasting")

Settle(e) ==
    /\ phase[e] \notin {"absent", "queued", "success"}
    /\ settled' = settled \cup {e}
    /\ UNCHANGED <<phase, credited>>

Credit(e) ==
    /\ phase[e] = "broadcasting"
    /\ e \in settled \ credited
    /\ credited' = credited \cup {e}
    /\ UNCHANGED <<phase, settled>>

Succeed(e) == e \in settled /\ Moves(e, {"broadcasting"}, "success")

Fail(e) == Moves(e, {"broadcasting"}, "failed")

Revert(e) == Moves(e, {"broadcasting"}, "reverted")

Next ==
    \E e \in Executions :
        \/ Submit(e) \/ Start(e) \/ Settle(e) \/ Credit(e)
        \/ Succeed(e) \/ Fail(e) \/ Revert(e)

Spec == Init /\ [][Next]_vars
=============================================================================
