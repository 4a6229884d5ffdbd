------------------------------ MODULE MCWorker ------------------------------
(***************************************************************************)
(* Three modules that share no state, checked in one run: a behaviour is a *)
(* behaviour of the module that part names, and the rest stands still.     *)
(***************************************************************************)
EXTENDS WorkerLease, ExecutionLedger, Delivery, TLC

CONSTANTS e1, e2, t1

MCParent == (e1 :> NoExec) @@ (e2 :> e1)
MCTargetOf == [s \in Send |-> t1]

\* The processes that compete for one worker id are interchangeable.
Interchangeable == Permutations(Proc)

VARIABLE part

InPart(name, others) == part = name /\ UNCHANGED <<part, others>>

PartsInit ==
    /\ part \in {"lease", "ledger", "delivery"}
    /\ LeaseInit /\ LedgerInit /\ DeliveryInit
    /\ part # "delivery" => live = {}

PartsNext ==
    \/ InPart("lease", <<ledgerVars, deliveryVars>>) /\ LeaseNext
    \/ InPart("ledger", <<leaseVars, deliveryVars>>) /\ LedgerNext
    \/ InPart("delivery", <<leaseVars, ledgerVars>>) /\ DeliveryNext

PartsSpec ==
    PartsInit /\ [][PartsNext]_<<part, leaseVars, ledgerVars, deliveryVars>>

\* The variables of every module keep to their types; the lease in particular
\* is never held without an expiry (registry.py, SET NX EX).
PartsTypeOK ==
    /\ part = "lease" => LeaseTypeOK
    /\ part = "ledger" => LedgerTypeOK
    /\ part = "delivery" => DeliveryTypeOK
=============================================================================
