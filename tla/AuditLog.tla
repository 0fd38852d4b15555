------------------------------ MODULE AuditLog ------------------------------
(***************************************************************************)
(* AuditLogRepository: the audit rows of one payment and their chain of    *)
(* checksums, written by transactions that read what is committed.  A row  *)
(* is dated by the database with the start of its transaction, and rows    *)
(* of one date come out of a query in any order.  Of a row's columns,      *)
(* `event` stands for the type and the sanitised payload, which the        *)
(* checksum covers; `origin` for the actor, the address and the request    *)
(* id, `prev` for previous_checksum and `at` for created_at, which it does *)
(* not.  A checksum stands for what it is computed from: SHA-256 is taken  *)
(* to tell any two of those apart.                                         *)
(***************************************************************************)
EXTENDS SequencesExt, Integers

CONSTANTS
  Transactions,   \* each is used once
  Events,         \* what may be appended
  MaxRows         \* bound on the rows appended

ASSUME AuditAssumption == MaxRows \in Nat \ {0}

VARIABLES
  phase,      \* phase[t]: where transaction t is
  began,      \* began[t]: what now() is in t
  clock,      \* the time
  previous,   \* previous[t]: the checksum t has read and not used yet
  rows,       \* the rows, uncommitted ones included
  mixed,      \* history: two transactions overlapped, or one appended twice
  tampered    \* what was done to the table behind the repository's back

vars == <<phase, began, clock, previous, rows, mixed, tampered>>

None == <<>>

\* (mistake: the previous checksum is left out)
ChecksumOfEvent(event, prev) == <<event>>

\* compute_checksum
Checksum(event, prev) == <<event, prev>>

Init ==
  /\ phase    = [t \in Transactions |-> "idle"]
  /\ began    = [t \in Transactions |-> 0]
  /\ clock    = 1
  /\ previous = [t \in Transactions |-> None]
  /\ rows     = {}
  /\ mixed    = FALSE
  /\ tampered = "no"

Open == {t \in Transactions : phase[t] \in {"open", "read"}}
Written(t) == {row \in rows : row.txn = t}

\* What a statement of t sees, under READ COMMITTED
Visible(t) == {row \in rows : row.txn = t \/ phase[row.txn] = "committed"}
Committed == {row \in rows : phase[row.txn] = "committed"}

\* The rows ORDER BY created_at DESC may put first
Latest(S) == {row \in S : \A other \in S : other.at <= row.at}

Begin(t) ==
  /\ phase[t] = "idle"
  /\ phase' = [phase EXCEPT ![t] = "open"]
  /\ began' = [began EXCEPT ![t] = clock]
  /\ clock' = clock + 1
  /\ mixed' = (mixed \/ Open # {})
  /\ UNCHANGED <<previous, rows, tampered>>

\* (mistake: the oldest row is taken for the latest)
ReadOldest(t) ==
  /\ phase[t] = "open"
  /\ Cardinality(rows) < MaxRows
  /\ mixed' = (mixed \/ Written(t) # {})
  /\ phase' = [phase EXCEPT ![t] = "read"]
  /\ IF Visible(t) = {}
       THEN previous' = [previous EXCEPT ![t] = None]
       ELSE \E row \in Visible(t) :
              /\ \A other \in Visible(t) : row.at <= other.at
              /\ previous' = [previous EXCEPT ![t] = row.checksum]
  /\ UNCHANGED <<began, clock, rows, tampered>>

\* append, up to its SELECT
ReadPrevious(t) ==
  /\ phase[t] = "open"
  /\ Cardinality(rows) < MaxRows
  /\ mixed' = (mixed \/ Written(t) # {})
  /\ phase' = [phase EXCEPT ![t] = "read"]
  /\ IF Visible(t) = {}
       THEN previous' = [previous EXCEPT ![t] = None]
       ELSE \E row \in Latest(Visible(t)) :
              previous' = [previous EXCEPT ![t] = row.checksum]
  /\ UNCHANGED <<began, clock, rows, tampered>>

\* The row append adds: number is that of the row in its transaction
NewRow(t, event) ==
  [txn      |-> t,
   number   |-> Cardinality(Written(t)),
   event    |-> event,
   origin   |-> "caller",
   prev     |-> previous[t],
   checksum |-> Checksum(event, previous[t]),
   at       |-> began[t]]

\* (mistake: the row is dated with its own insertion)
InsertDatedLater(t) ==
  /\ phase[t] = "read"
  /\ phase' = [phase EXCEPT ![t] = "open"]
  /\ \E event \in Events :
       rows' = rows \cup
         {[NewRow(t, event) EXCEPT !.at = clock]}
  /\ UNCHANGED <<began, clock, previous, mixed, tampered>>

\* append, from there to its flush
Insert(t) ==
  /\ phase[t] = "read"
  /\ phase' = [phase EXCEPT ![t] = "open"]
  /\ \E event \in Events :
       rows' = rows \cup {NewRow(t, event)}
  /\ UNCHANGED <<began, clock, previous, mixed, tampered>>

Commit(t) ==
  /\ phase[t] = "open"
  /\ phase' = [phase EXCEPT ![t] = "committed"]
  /\ UNCHANGED <<began, clock, previous, rows, mixed, tampered>>

Rollback(t) ==
  /\ t \in Open
  /\ phase' = [phase EXCEPT ![t] = "rolledback"]
  /\ rows' = rows \ Written(t)
  /\ UNCHANGED <<began, clock, previous, mixed, tampered>>

\* What may be done to the table by hand, once and while nothing else is under
\* way: a row is exchanged for another
Exchange(row, other, how) ==
  /\ tampered = "no" /\ Open = {}
  /\ rows' = (rows \ {row}) \cup {other}
  /\ tampered' = how
  /\ UNCHANGED <<phase, began, clock, previous, mixed>>

Checksums == {None} \cup {row.checksum : row \in rows}

\* ... its type or payload has changed
Alter ==
  \E row \in rows : \E event \in Events \ {row.event} :
    Exchange(row, [row EXCEPT !.event = event], "altered")

\* ... its checksum has
AlterChecksum ==
  \E row \in rows : \E sum \in Checksums \ {row.checksum} :
    Exchange(row, [row EXCEPT !.checksum = sum], "broken")

\* ... its actor, address or request id, or its previous_checksum has
Retouch ==
  \E row \in rows :
    \/ Exchange(row, [row EXCEPT !.origin = "another"], "retouched")
    \/ \E sum \in Checksums \ {row.prev} :
         Exchange(row, [row EXCEPT !.prev = sum], "retouched")

\* ... its date has
Redate ==
  \E row \in rows : \E date \in (0 .. clock - 1) \ {row.at} :
    Exchange(row, [row EXCEPT !.at = date], "redated")

\* A row is deleted; the chain cannot show it when it was the last one
Delete ==
  /\ tampered = "no" /\ Open = {}
  /\ \E row \in rows :
       /\ rows' = rows \ {row}
       /\ tampered' = IF row \in Latest(rows) THEN "truncated" ELSE "broken"
  /\ UNCHANGED <<phase, began, clock, previous, mixed>>

Next ==
  \/ \E t \in Transactions :
       Begin(t) \/ ReadPrevious(t) \/ Insert(t) \/ Commit(t) \/ Rollback(t)
  \/ Alter \/ AlterChecksum \/ Retouch \/ Redate \/ Delete

Spec == Init /\ [][Next]_vars

TypeOK ==
  /\ phase \in [Transactions -> {"idle", "open", "read", "committed", "rolledback"}]
  /\ clock \in Nat /\ began \in [Transactions -> 0 .. clock - 1]
  /\ \A row \in rows :
       /\ row.txn \in Transactions /\ row.event \in Events /\ row.at \in 0 .. clock - 1
       /\ tampered # "redated" => row.at = began[row.txn]
  /\ mixed \in BOOLEAN
  /\ tampered \in {"no", "altered", "broken", "truncated", "retouched", "redated"}

-----------------------------------------------------------------------------
\* get_payment_history: the orders in which ORDER BY created_at may return it
Histories ==
  {s \in SetToSeqs(Committed) :
     \A i, j \in DOMAIN s : i < j => s[i].at <= s[j].at}

\* verify_chain_intergrity, of one history
Verifies(s) ==
  \A i \in DOMAIN s :
    s[i].checksum =
      Checksum(s[i].event, IF i = 1 THEN None ELSE s[i - 1].checksum)

\* A table nobody has touched passes the check, if the transactions about the
\* payment came one after the other and appended one row each.  The
\* documentation makes no such condition (audit.py:192, "Returns True if chain
\* is intact"); it cannot be left out (see README).  So does a table in which
\* the columns were changed that the checksum does not cover, previous_checksum
\* among them: the check never reads them.
IntactVerifies ==
  tampered \in {"no", "retouched"} /\ ~mixed => \A s \in Histories : Verifies(s)

\* A row whose type or payload was changed fails the check, however the rows
\* came about and whatever is appended afterwards.  A table with a changed
\* checksum, or without a row that was not the last, fails it unless the chain
\* had forked, when the change may repair it.  Nothing is said of a changed
\* date: it shows only if it puts the rows in another order.
TamperingShows ==
  tampered = "altered" \/ (tampered = "broken" /\ ~mixed)
    => \A s \in Histories : ~Verifies(s)
=============================================================================
