--------------------------- MODULE RequestLedger ---------------------------
(***************************************************************************)
(* What the request_id of a tool call promises, with no cache in sight: an *)
(* identifier remembers at most one operation, an operation is started for *)
(* it at most once, and the identifier cannot be given to another          *)
(* operation, nor forgotten, while the remembered one is still at work.    *)
(* RetryCache implements this with a bounded, expiring table.              *)
(***************************************************************************)
EXTENDS Naturals

CONSTANTS Ids,      \* request identifiers
          Ops       \* the operations that may be started, positive naturals

NoOp == 0

VARIABLES remembered,   \* remembered[i]: the operation i stands for, or NoOp
          started,      \* the operations ever started under an identifier
          atWork        \* those of them whose effect is not over

ledgerVars == <<remembered, started, atWork>>

LedgerInit == /\ remembered = [i \in Ids |-> NoOp]
              /\ started = {}
              /\ atWork = {}

\* An identifier may be forgotten at any time, but never under a working operation.
MayForget(i) == remembered'[i] \in {remembered[i]} \cup
                  (IF remembered[i] \in atWork THEN {} ELSE {NoOp})

\* A fresh operation takes the identifier i.
Start(i, o) == /\ o \notin started
               /\ remembered[i] \notin atWork
               /\ remembered' \in [Ids -> Ops \cup {NoOp}]
               /\ remembered'[i] = o
               /\ \A j \in Ids \ {i} : MayForget(j)
               /\ started' = started \cup {o}
               /\ atWork' = atWork \cup {o}

\* An operation ends; what its identifier remembers stays.
Finish(o) == /\ o \in atWork
             /\ atWork' = atWork \ {o}
             /\ UNCHANGED <<remembered, started>>

Forget == /\ remembered' \in [Ids -> Ops \cup {NoOp}]
          /\ \A i \in Ids : MayForget(i)
          /\ UNCHANGED <<started, atWork>>

LedgerNext == \/ \E i \in Ids, o \in Ops : Start(i, o)
              \/ \E o \in Ops : Finish(o)
              \/ Forget

LedgerSpec == LedgerInit /\ [][LedgerNext]_ledgerVars
=============================================================================
