---------------------------- MODULE StalePayments ----------------------------
(***************************************************************************)
(* The Celery Beat task expire_stale_pending_payments.  One run reads a    *)
(* batch of PENDING rows older than ten minutes, closes its session, and   *)
(* then deals with the rows one by one, each in a transaction of its own.  *)
(* A run whose SELECT fails is retried by Celery or started again by Beat, *)
(* which changes nothing here.                                             *)
(***************************************************************************)
EXTENDS StkInitiation, FiniteSets

CONSTANTS
  Jobs,         \* runs of the task that may be in progress at once
  BatchLimit    \* the LIMIT of its SELECT, 50 in the code

ASSUME JobAssumption == BatchLimit \in Nat \ {0}

VARIABLES
  old,      \* rows created more than ten minutes ago
  batch     \* batch[j]: the rows run j has read and not dealt with yet

jobVars == <<old, batch>>

Item == [payment : Requests, receipt : Checkouts \cup {Null}]

JobInit ==
  /\ old   = {}
  /\ batch = [j \in Jobs |-> {}]

JobTypeOK ==
  /\ old   \in SUBSET Requests
  /\ batch \in [Jobs -> SUBSET Item]

\* (mistake: the SELECT has lost its condition on the status)
StaleAny == {p \in old : Exists(p)}

StalePending == {p \in old : payments[p].status = "pending"}

\* Ten minutes pass.  With the default settings no call lasts that long:
\* three attempts of at most 10+30+10+5 s each, for the push and for its token.
GrowOld(p) ==
  /\ Exists(p)
  /\ p \notin old
  /\ pc[p] \notin Critical
  /\ old' = old \cup {p}
  /\ UNCHANGED <<payments, batch>>

\* SELECT id, mpesa_receipt ... LIMIT; an empty result ends the run
SelectStale(j) ==
  /\ batch[j] = {}
  /\ \E S \in SUBSET StalePending :
       /\ \/ S = StalePending /\ Cardinality(S) <= BatchLimit
          \/ Cardinality(S) = BatchLimit
       /\ batch' = [batch EXCEPT ![j] =
                      {[payment |-> p, receipt |-> payments[p].receipt] : p \in S}]
  /\ UNCHANGED <<payments, old>>

\* (mistake: every row is left to the status query)
QueryOne(j) ==
  /\ \E item \in batch[j] : batch' = [batch EXCEPT ![j] = @ \ {item}]
  /\ UNCHANGED <<payments, old>>

\* A row with a receipt is only queried, and nothing comes of the query;
\* any other is marked failed, with no look at what it has become.
ExpireOne(j) ==
  /\ \E item \in batch[j] :
       /\ batch' = [batch EXCEPT ![j] = @ \ {item}]
       /\ IF item.receipt # Null
            THEN UNCHANGED payments
            ELSE MarkFailed(item.payment, "expired")
  /\ UNCHANGED old

\* The transaction of one row fails: logged, and on to the next row
SkipOne(j) ==
  /\ Fault("db")
  /\ \E item \in batch[j] : batch' = [batch EXCEPT ![j] = @ \ {item}]
  /\ UNCHANGED <<payments, old>>

\* The worker dies.  The task is acknowledged early: its batch is gone.
CrashJob(j) ==
  /\ Fault("crash")
  /\ batch[j] # {}
  /\ batch' = [batch EXCEPT ![j] = {}]
  /\ UNCHANGED <<payments, old>>

JobNext ==
  \/ \E p \in Requests : GrowOld(p)
  \/ \E j \in Jobs : SelectStale(j) \/ ExpireOne(j) \/ SkipOne(j) \/ CrashJob(j)
=============================================================================
