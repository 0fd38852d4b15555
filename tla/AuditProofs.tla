----------------------------- MODULE AuditProofs -----------------------------
(***************************************************************************)
(* Proofs about AuditLog, for any transactions and events and any number   *)
(* of rows: its types, that a table that nobody has touched verifies, and  *)
(* that one does not whose checksums no longer fit.  They rest on the      *)
(* order in which rows come about.  While transactions do not overlap, the *)
(* open one began after all others, so what it reads is the end of the     *)
(* chain, and stays it until it inserts: the rows form one chain, in which *)
(* no two checksums are the same, and a row taken out of it is missed by   *)
(* the next.                                                               *)
(***************************************************************************)
EXTENDS AuditLog, FiniteSetTheorems, TLAPS

-----------------------------------------------------------------------------
(***************************************************************************)
(* The inductive invariant.                                                *)
(***************************************************************************)

Begun == {t \in Transactions : phase[t] # "idle"}

IsRow(row) ==
  row = [txn |-> row.txn, number |-> row.number, event |-> row.event, origin |-> row.origin,
         prev |-> row.prev, checksum |-> row.checksum, at |-> row.at]

\* Rows belong to transactions that are open or committed
RowsInv ==
  /\ IsFiniteSet(rows)
  /\ \A row \in rows : IsRow(row)
  /\ \A row \in rows : phase[row.txn] \in {"open", "read", "committed"}

PreviousInv == DOMAIN previous = Transactions

\* Later transactions have later dates
DatesInv == \A t, u \in Begun : began[t] = began[u] => t = u

Earlier(row) == {other \in rows : other.at < row.at}

\* The checksums with which the rows in S may end
Ends(S) == IF S = {} THEN {None} ELSE {last.checksum : last \in Latest(S)}

\* Transactions that come one after the other, and append one row each
AloneInv ==
  /\ \A row \in rows : row.at = began[row.txn]
  /\ \A t \in Open : \A u \in Begun \ {t} : began[u] < began[t]
  /\ \A row, other \in rows : row.txn = other.txn => row = other
  /\ \A t \in Transactions : phase[t] = "read" => Written(t) = {} /\ previous[t] \in Ends(rows)

\* A row carries on from the one before it
Chained(row) == \E prev \in Ends(Earlier(row)) : row.checksum = Checksum(row.event, prev)

\* All rows but the last are carried on from, and checksums tell rows apart
LinkedInv ==
  /\ \A row \in rows : Chained(row)
  /\ \A row, other \in rows : row.checksum = other.checksum => row = other
  /\ \A row \in rows :
       row \in Latest(rows) \/ \E next \in rows : next.checksum = Checksum(next.event, row.checksum)

\* Where a row is missing, the one after it shows it
GapInv == \E row \in Committed : ~Chained(row)

\* A checksum is that of its row's event, until someone changes one of them
Signed(row) == row.checksum[1] = row.event
SignedInv ==
  /\ tampered = "altered" => \E row \in Committed : ~Signed(row)
  /\ tampered = "no" => \A row \in rows : Signed(row)

IInv ==
  /\ TypeOK /\ RowsInv /\ PreviousInv /\ DatesInv /\ SignedInv
  /\ ~mixed /\ tampered # "redated" =>
       /\ AloneInv
       /\ tampered \in {"no", "retouched"} => LinkedInv
       /\ tampered = "broken" => GapInv

Change == Alter \/ AlterChecksum \/ Retouch \/ Redate

-----------------------------------------------------------------------------
(***************************************************************************)
(* What a change by hand comes to.                                         *)
(***************************************************************************)

\* A row is exchanged for another of its transaction
ExchangedFor(row, other) ==
  /\ row \in rows /\ rows' = (rows \ {row}) \cup {other}
  /\ tampered = "no" /\ Open = {} /\ UNCHANGED <<phase, began, clock, previous, mixed>>
  /\ IsRow(other)
  /\ other.txn = row.txn /\ other.event \in Events /\ other.at \in 0 .. clock - 1
  /\ tampered' \in {"altered", "broken", "retouched", "redated"}
  /\ tampered' # "redated" => other.at = row.at
  /\ tampered' = "altered" => other.event # row.event /\ other.checksum = row.checksum
  /\ tampered' = "broken" => other.event = row.event /\ other.checksum # row.checksum
  /\ tampered' = "retouched" => other.event = row.event /\ other.checksum = row.checksum

LEMMA ChangeExchanges ==
  ASSUME TypeOK, RowsInv, Change
  PROVE  \E row, other : ExchangedFor(row, other)
<1>1. CASE Alter
  <2>1. PICK row \in rows : \E event \in Events \ {row.event} :
               Exchange(row, [row EXCEPT !.event = event], "altered")
    BY <1>1 DEF Alter
  <2>2. PICK event \in Events \ {row.event} :
               Exchange(row, [row EXCEPT !.event = event], "altered")
    BY <2>1
  <2>3. tampered' = "altered"
    BY <2>2 DEF Exchange
  <2> DEFINE other == [row EXCEPT !.event = event]
  <2>4. /\ rows' = (rows \ {row}) \cup {other} /\ tampered = "no" /\ Open = {}
        /\ UNCHANGED <<phase, began, clock, previous, mixed>>
    BY <2>2 DEF Exchange
  <2>5. /\ IsRow(other) /\ other.txn = row.txn
        /\ other.event = event /\ other.checksum = row.checksum /\ other.at = row.at
    BY DEF RowsInv, IsRow
  <2> HIDE DEF other
  <2>6. ExchangedFor(row, other)
    BY <2>3, <2>4, <2>5 DEF ExchangedFor, TypeOK
  <2> QED
    BY <2>6
<1>2. CASE AlterChecksum
  <2>1. PICK row \in rows : \E sum \in Checksums \ {row.checksum} :
               Exchange(row, [row EXCEPT !.checksum = sum], "broken")
    BY <1>2 DEF AlterChecksum
  <2>2. PICK sum \in Checksums \ {row.checksum} :
               Exchange(row, [row EXCEPT !.checksum = sum], "broken")
    BY <2>1
  <2>3. tampered' = "broken"
    BY <2>2 DEF Exchange
  <2> DEFINE other == [row EXCEPT !.checksum = sum]
  <2>4. /\ rows' = (rows \ {row}) \cup {other} /\ tampered = "no" /\ Open = {}
        /\ UNCHANGED <<phase, began, clock, previous, mixed>>
    BY <2>2 DEF Exchange
  <2>5. /\ IsRow(other) /\ other.txn = row.txn
        /\ other.event = row.event /\ other.checksum = sum /\ other.at = row.at
    BY DEF RowsInv, IsRow
  <2> HIDE DEF other
  <2>6. ExchangedFor(row, other)
    BY <2>3, <2>4, <2>5 DEF ExchangedFor, TypeOK
  <2> QED
    BY <2>6
<1>3. CASE Retouch
  <2>1. PICK row \in rows :
          \/ Exchange(row, [row EXCEPT !.origin = "another"], "retouched")
          \/ \E sum \in Checksums \ {row.prev} :
               Exchange(row, [row EXCEPT !.prev = sum], "retouched")
    BY <1>3 DEF Retouch
  <2>2. ASSUME Exchange(row, [row EXCEPT !.origin = "another"], "retouched")
        PROVE  ExchangedFor(row, [row EXCEPT !.origin = "another"])
    <3> DEFINE other == [row EXCEPT !.origin = "another"]
    <3>1. /\ rows' = (rows \ {row}) \cup {other} /\ tampered = "no" /\ Open = {}
          /\ tampered' = "retouched" /\ UNCHANGED <<phase, began, clock, previous, mixed>>
      BY <2>2 DEF Exchange
    <3>2. /\ IsRow(other) /\ other.txn = row.txn
          /\ other.event = row.event /\ other.checksum = row.checksum /\ other.at = row.at
      BY DEF RowsInv, IsRow
    <3> HIDE DEF other
    <3>3. ExchangedFor(row, other)
      BY <3>1, <3>2 DEF ExchangedFor, TypeOK
    <3> QED
      BY <3>3 DEF other
  <2>3. ASSUME NEW sum, Exchange(row, [row EXCEPT !.prev = sum], "retouched")
        PROVE  ExchangedFor(row, [row EXCEPT !.prev = sum])
    <3> DEFINE other == [row EXCEPT !.prev = sum]
    <3>1. /\ rows' = (rows \ {row}) \cup {other} /\ tampered = "no" /\ Open = {}
          /\ tampered' = "retouched" /\ UNCHANGED <<phase, began, clock, previous, mixed>>
      BY <2>3 DEF Exchange
    <3>2. /\ IsRow(other) /\ other.txn = row.txn
          /\ other.event = row.event /\ other.checksum = row.checksum /\ other.at = row.at
      BY DEF RowsInv, IsRow
    <3> HIDE DEF other
    <3>3. ExchangedFor(row, other)
      BY <3>1, <3>2 DEF ExchangedFor, TypeOK
    <3> QED
      BY <3>3 DEF other
  <2> QED
    BY <2>1, <2>2, <2>3
<1>4. CASE Redate
  <2>1. PICK row \in rows : \E date \in (0 .. clock - 1) \ {row.at} :
               Exchange(row, [row EXCEPT !.at = date], "redated")
    BY <1>4 DEF Redate
  <2>2. PICK date \in (0 .. clock - 1) \ {row.at} :
               Exchange(row, [row EXCEPT !.at = date], "redated")
    BY <2>1
  <2>3. tampered' = "redated"
    BY <2>2 DEF Exchange
  <2> DEFINE other == [row EXCEPT !.at = date]
  <2>4. /\ rows' = (rows \ {row}) \cup {other} /\ tampered = "no" /\ Open = {}
        /\ UNCHANGED <<phase, began, clock, previous, mixed>>
    BY <2>2 DEF Exchange
  <2>5. /\ IsRow(other) /\ other.txn = row.txn
        /\ other.event = row.event /\ other.checksum = row.checksum /\ other.at = date
    BY DEF RowsInv, IsRow
  <2> HIDE DEF other
  <2>6. ExchangedFor(row, other)
    BY <2>3, <2>4, <2>5 DEF ExchangedFor, TypeOK
  <2> QED
    BY <2>6
<1> QED
  BY <1>1, <1>2, <1>3, <1>4 DEF Change

-----------------------------------------------------------------------------
(***************************************************************************)
(* Types.                                                                  *)
(***************************************************************************)

LEMMA TypeInit == Init => TypeOK
<1> SUFFICES ASSUME Init PROVE TypeOK
  OBVIOUS
<1>1. clock = 1 /\ 0 \in 0 .. clock - 1
  BY DEF Init
<1>2. clock \in Nat /\ began \in [Transactions -> 0 .. clock - 1]
  BY <1>1 DEF Init
<1>3. rows = {}
  BY DEF Init
<1> QED
  BY <1>2, <1>3 DEF Init, TypeOK

LEMMA TypeStep ==
  ASSUME TypeOK, RowsInv, [Next]_vars
  PROVE  TypeOK'
<1> USE DEF TypeOK
<1>1. ASSUME NEW t \in Transactions, Begin(t) PROVE TypeOK'
  <2>1. \A row \in rows : row.txn # t
    BY <1>1 DEF Begin, RowsInv
  <2>2. began' \in [Transactions -> 0 .. clock' - 1] /\ clock' \in Nat
    BY <1>1 DEF Begin
  <2>3. \A row \in rows : began'[row.txn] = began[row.txn] /\ row.at \in 0 .. clock' - 1
    BY <1>1, <2>1 DEF Begin
  <2> QED
    BY <1>1, <2>2, <2>3 DEF Begin
<1>2. ASSUME NEW t \in Transactions, ReadPrevious(t) PROVE TypeOK'
  BY <1>2 DEF ReadPrevious
<1>3. ASSUME NEW t \in Transactions, Insert(t) PROVE TypeOK'
  BY <1>3 DEF Insert, NewRow
<1>4. ASSUME NEW t \in Transactions, Commit(t) PROVE TypeOK'
  BY <1>4 DEF Commit
<1>5. ASSUME NEW t \in Transactions, Rollback(t) PROVE TypeOK'
  BY <1>5 DEF Rollback
<1>6. CASE Change
  <2>1. PICK row, other : ExchangedFor(row, other)
    BY <1>6, ChangeExchanges
  <2> QED
    BY <2>1 DEF ExchangedFor
<1>7. CASE Delete
  BY <1>7 DEF Delete
<1>8. CASE UNCHANGED vars
  BY <1>8 DEF vars
<1> QED
  BY <1>1, <1>2, <1>3, <1>4, <1>5, <1>6, <1>7, <1>8 DEF Next, Change

-----------------------------------------------------------------------------
(***************************************************************************)
(* Rows and dates.                                                         *)
(***************************************************************************)

LEMMA RowsStep ==
  ASSUME TypeOK, RowsInv, [Next]_vars
  PROVE  RowsInv'
<1> USE DEF RowsInv, TypeOK
<1>1. ASSUME NEW t \in Transactions, Begin(t) PROVE RowsInv'
  BY <1>1 DEF Begin
<1>2. ASSUME NEW t \in Transactions, ReadPrevious(t) PROVE RowsInv'
  BY <1>2 DEF ReadPrevious
<1>3. ASSUME NEW t \in Transactions, Insert(t) PROVE RowsInv'
  <2>0. PICK event \in Events : rows' = rows \cup {NewRow(t, event)}
    BY <1>3 DEF Insert
  <2> DEFINE row == NewRow(t, event)
  <2>1. /\ rows' = rows \cup {row} /\ row.txn = t
        /\ IsRow(row)
    BY <2>0 DEF NewRow, IsRow
  <2>2. IsFiniteSet(rows')
    BY <2>1, FS_AddElement
  <2> HIDE DEF row
  <2> QED
    BY <1>3, <2>1, <2>2 DEF Insert
<1>4. ASSUME NEW t \in Transactions, Commit(t) PROVE RowsInv'
  BY <1>4 DEF Commit
<1>5. ASSUME NEW t \in Transactions, Rollback(t) PROVE RowsInv'
  <2>1. IsFiniteSet(rows')
    BY <1>5, FS_Subset DEF Rollback
  <2> QED
    BY <1>5, <2>1 DEF Rollback, Written
<1>6. CASE Change
  <2>1. PICK row, other : ExchangedFor(row, other)
    BY <1>6, ChangeExchanges
  <2>2. /\ rows' = (rows \ {row}) \cup {other} /\ phase' = phase /\ other.txn = row.txn
        /\ IsRow(other)
    BY <2>1 DEF ExchangedFor
  <2>3. IsFiniteSet(rows')
    BY <2>2, FS_RemoveElement, FS_AddElement
  <2>4. RowsInv'
    <3>1. \A r \in rows' : IsRow(r) /\ phase'[r.txn] \in {"open", "read", "committed"}
      BY <2>1, <2>2 DEF ExchangedFor
    <3> QED
      BY <2>3, <3>1
  <2> QED
    BY <2>4
<1>7. CASE Delete
  <2>1. IsFiniteSet(rows')
    BY <1>7, FS_RemoveElement DEF Delete
  <2> QED
    BY <1>7, <2>1 DEF Delete
<1>8. CASE UNCHANGED vars
  BY <1>8 DEF vars
<1> QED
  BY <1>1, <1>2, <1>3, <1>4, <1>5, <1>6, <1>7, <1>8 DEF Next, Change

LEMMA DatesStep ==
  ASSUME TypeOK, DatesInv, [Next]_vars
  PROVE  DatesInv'
<1> USE DEF DatesInv, TypeOK, Begun
<1>1. ASSUME NEW t \in Transactions, Begin(t) PROVE DatesInv'
  <2>1. began'[t] = clock /\ \A u \in Transactions : began[u] < clock
    BY <1>1 DEF Begin
  <2>2. \A u \in Transactions \ {t} : began'[u] = began[u] /\ phase'[u] = phase[u]
    BY <1>1 DEF Begin
  <2> QED
    BY <1>1, <2>1, <2>2
<1>2. ASSUME NEW t \in Transactions,
             ReadPrevious(t) \/ Insert(t) \/ Commit(t) \/ Rollback(t)
      PROVE  DatesInv'
  <2>1. began' = began /\ Begun' = Begun
    BY <1>2 DEF ReadPrevious, Insert, Commit, Rollback, Open
  <2> QED
    BY <2>1
<1>3. CASE Change \/ Delete \/ UNCHANGED vars
  BY <1>3 DEF Change, Alter, AlterChecksum, Retouch, Redate, Exchange, Delete, vars
<1> QED
  BY <1>1, <1>2, <1>3 DEF Next, Change

-----------------------------------------------------------------------------
(***************************************************************************)
(* The chain.                                                              *)
(***************************************************************************)

\* The transaction that is open comes after all the rows of the others
LEMMA OpenIsLast ==
  ASSUME TypeOK, RowsInv, AloneInv, NEW t \in Open, NEW row \in rows, row.txn # t
  PROVE  row.at < began[t]
<1>1. row.txn \in Begun \ {t} /\ row.at = began[row.txn]
  BY DEF TypeOK, RowsInv, Begun, AloneInv
<1> QED
  BY <1>1 DEF AloneInv

\* What the open transaction sees is everything
LEMMA VisibleIsAll ==
  ASSUME TypeOK, RowsInv, AloneInv, NEW t \in Open
  PROVE  Visible(t) = rows
<1>1. ASSUME NEW row \in rows, row.txn # t PROVE phase[row.txn] = "committed"
  <2>1. row.txn \in Begun \ {t} /\ (phase[row.txn] # "committed" => row.txn \in Open)
    BY <1>1 DEF TypeOK, RowsInv, Begun, Open
  <2>2. t \in Begun /\ t \in Transactions /\ began[t] \in Int /\ began[row.txn] \in Int
    BY <2>1 DEF Open, Begun, TypeOK
  <2> QED
    BY <2>1, <2>2 DEF AloneInv
<1> QED
  BY <1>1 DEF Visible

\* What an insertion adds comes after all rows, and carries on from the last
LEMMA InsertAlone ==
  ASSUME TypeOK, RowsInv, AloneInv, NEW t \in Transactions, Insert(t)
  PROVE  \E row : /\ rows' = rows \cup {row}
                  /\ row.txn = t /\ row.at = began[t]
                  /\ previous[t] \in Ends(rows) /\ row.checksum = Checksum(row.event, previous[t])
                  /\ \A other \in rows : other.txn # t /\ other.at < row.at
                  /\ {other \in rows' : other.at < row.at} = rows
                  /\ \A other \in rows : {o \in rows' : o.at < other.at} = Earlier(other)
<1>1. PICK event \in Events : rows' = rows \cup {NewRow(t, event)}
  BY DEF Insert
<1> DEFINE row == NewRow(t, event)
<1>2. /\ rows' = rows \cup {row} /\ row.txn = t /\ row.at = began[t]
      /\ row.checksum = Checksum(row.event, previous[t])
  BY <1>1 DEF NewRow
<1> HIDE DEF row
<1>3. t \in Open /\ Written(t) = {} /\ previous[t] \in Ends(rows)
  BY DEF Insert, Open, AloneInv
<1>4. \A other \in rows : other.txn # t /\ other.at < row.at
  BY <1>2, <1>3, OpenIsLast DEF Written
<1>5. row.at \in Int /\ \A other \in rows : other.at \in Int
  BY <1>2 DEF TypeOK
<1>6. {other \in rows' : other.at < row.at} = rows
  BY <1>2, <1>4, <1>5
<1>7. \A other \in rows : {o \in rows' : o.at < other.at} = Earlier(other)
  BY <1>2, <1>4, <1>5 DEF Earlier
<1> QED
  BY <1>2, <1>3, <1>4, <1>6, <1>7

\* What a rollback takes away came after all other rows
LEMMA RollbackAlone ==
  ASSUME TypeOK, RowsInv, AloneInv, NEW t \in Transactions, Rollback(t)
  PROVE  /\ rows' = rows \ Written(t)
         /\ \A row \in rows' : /\ row \in rows /\ row.txn # t /\ row.at < began[t]
                               /\ {o \in rows' : o.at < row.at} = Earlier(row)
         /\ \A row \in Written(t) : Earlier(row) = rows'
<1>1. t \in Open /\ rows' = rows \ Written(t)
  BY DEF Rollback
<1>2. began[t] \in Int /\ \A row \in rows : row.at \in Int
  BY DEF TypeOK
<1>3. \A row \in Written(t) : row.at = began[t]
  BY DEF Written, AloneInv
<1>4. \A row \in rows' : row \in rows /\ row.txn # t /\ row.at < began[t]
  BY <1>1, OpenIsLast DEF Written
<1>5. \A row \in rows' : {o \in rows' : o.at < row.at} = Earlier(row)
  BY <1>1, <1>2, <1>3, <1>4 DEF Earlier
<1>6. \A row \in Written(t) : Earlier(row) = rows'
  BY <1>1, <1>2, <1>3, <1>4 DEF Earlier
<1> QED
  BY <1>1, <1>4, <1>5, <1>6

LEMMA AloneStep ==
  ASSUME TypeOK, RowsInv, PreviousInv, AloneInv, Next, ~mixed', tampered' # "redated"
  PROVE  AloneInv'
<1>0. TypeOK' /\ RowsInv' /\ \A t \in Transactions : began[t] \in Int
  BY TypeStep, RowsStep DEF TypeOK
<1>d. \A row \in rows' : row.at = began'[row.txn]
  BY <1>0 DEF TypeOK
<1>1. ASSUME NEW t \in Transactions, Begin(t) PROVE AloneInv'
  <2>1. Open = {} /\ rows' = rows /\ previous' = previous
    BY <1>1 DEF Begin, TypeOK
  <2>2. \A u \in Transactions \ {t} : phase'[u] = phase[u] /\ began'[u] = began[u] /\ began[u] < clock
    BY <1>1 DEF Begin, TypeOK
  <2>3. began'[t] = clock /\ phase'[t] = "open" /\ phase[t] = "idle"
    BY <1>1 DEF Begin, TypeOK
  <2>4. Open' = {t}
    BY <2>1, <2>2, <2>3 DEF Open
  <2>5. \A u \in Begun' \ {t} : began'[u] < began'[t]
    BY <2>2, <2>3 DEF Begun
  <2>6. \A u \in Transactions : phase'[u] # "read"
    BY <2>1, <2>2, <2>3 DEF Open
  <2> QED
    BY <1>d, <2>1, <2>4, <2>5, <2>6 DEF AloneInv
<1>2. ASSUME NEW t \in Transactions, ReadPrevious(t) PROVE AloneInv'
  <2>1. /\ t \in Open /\ Open' = Open /\ Begun' = Begun /\ began' = began /\ rows' = rows
        /\ Written(t) = {}
    BY <1>2 DEF ReadPrevious, Open, Begun, TypeOK
  <2>2. Visible(t) = rows
    BY <2>1, VisibleIsAll
  <2>3. previous'[t] \in Ends(rows)
    <3>1. CASE rows = {}
      BY <1>2, <2>2, <3>1 DEF ReadPrevious, Ends, PreviousInv
    <3>2. CASE rows # {}
      <4>1. PICK row \in Latest(rows) : previous' = [previous EXCEPT ![t] = row.checksum]
        BY <1>2, <2>2, <3>2 DEF ReadPrevious
      <4>2. previous'[t] = row.checksum
        BY <4>1 DEF PreviousInv
      <4> QED
        BY <3>2, <4>1, <4>2 DEF Ends
    <3> QED
      BY <3>1, <3>2
  <2>4. \A u \in Transactions \ {t} : phase'[u] # "read"
    <3>1. \A u \in Open : u = t
      BY <1>0, <2>1 DEF AloneInv, Open, Begun
    <3> QED
      BY <1>2, <3>1 DEF ReadPrevious, Open, TypeOK
  <2>5. \A u \in Transactions : phase'[u] = "read" => Written(u)' = {} /\ previous'[u] \in Ends(rows')
    BY <2>1, <2>3, <2>4 DEF Written
  <2>6. Ends(rows)' = Ends(rows')
    BY DEF Ends, Latest
  <2> QED
    BY <1>d, <2>1, <2>5, <2>6 DEF AloneInv
<1>3. ASSUME NEW t \in Transactions, Insert(t) PROVE AloneInv'
  <2>1. PICK row : /\ rows' = rows \cup {row} /\ row.txn = t
                   /\ \A other \in rows : other.txn # t
    BY <1>3, InsertAlone
  <2>2. /\ t \in Open /\ Open' = Open /\ Begun' = Begun /\ began' = began /\ previous' = previous
        /\ phase'[t] = "open" /\ \A u \in Transactions \ {t} : phase'[u] = phase[u]
    BY <1>3 DEF Insert, Open, Begun, TypeOK
  <2>3. \A u \in Transactions : phase'[u] # "read"
    <3>1. \A u \in Open : u = t
      BY <1>0, <2>2 DEF AloneInv, Open, Begun
    <3> QED
      BY <2>2, <3>1 DEF Open
  <2> QED
    BY <1>d, <2>1, <2>2, <2>3 DEF AloneInv
<1>4. ASSUME NEW t \in Transactions, Commit(t) PROVE AloneInv'
  <2>1. /\ rows' = rows /\ previous' = previous /\ began' = began /\ Begun' = Begun
        /\ Open' \subseteq Open /\ \A u \in Transactions : phase'[u] = "read" => phase[u] = "read"
    BY <1>4 DEF Commit, Open, Begun, TypeOK
  <2> QED
    BY <1>d, <2>1 DEF AloneInv, Ends, Latest, Written
<1>5. ASSUME NEW t \in Transactions, Rollback(t) PROVE AloneInv'
  <2>1. /\ t \in Open /\ rows' = rows \ Written(t) /\ began' = began
        /\ Begun' = Begun /\ Open' \subseteq Open
        /\ \A u \in Transactions : phase'[u] = "read" => phase[u] = "read" /\ u # t
    BY <1>5 DEF Rollback, Open, Begun, TypeOK
  <2>2. \A u \in Transactions : phase'[u] # "read"
    <3>1. \A u \in Open : u = t
      BY <1>0, <2>1 DEF AloneInv, Open, Begun
    <3> QED
      BY <2>1, <3>1 DEF Open
  <2> QED
    BY <1>d, <2>1, <2>2 DEF AloneInv
<1>6. CASE Change
  <2>1. PICK row, other : ExchangedFor(row, other)
    BY <1>6, ChangeExchanges
  <2>2. /\ rows' = (rows \ {row}) \cup {other} /\ other.txn = row.txn /\ phase' = phase
        /\ Open = {} /\ Open' = {}
    BY <2>1 DEF ExchangedFor, Open
  <2>3. \A u \in Transactions : phase'[u] # "read"
    BY <2>2 DEF Open
  <2>4. \A a, b \in rows' : a.txn = b.txn => a = b
    BY <2>1, <2>2 DEF AloneInv, ExchangedFor
  <2> QED
    BY <1>d, <2>2, <2>3, <2>4 DEF AloneInv
<1>7. CASE Delete
  <2>1. rows' \subseteq rows /\ Open' = Open /\ Open = {} /\ phase' = phase
    BY <1>7 DEF Delete, Open
  <2>2. \A u \in Transactions : phase'[u] # "read"
    BY <2>1 DEF Open
  <2> QED
    BY <1>d, <2>1, <2>2 DEF AloneInv
<1> QED
  BY <1>1, <1>2, <1>3, <1>4, <1>5, <1>6, <1>7 DEF Next, Change

-----------------------------------------------------------------------------
(***************************************************************************)
(* The links of the chain.                                                 *)
(***************************************************************************)

\* A checksum tells what it was computed from
LEMMA ChecksumTells ==
  ASSUME NEW e, NEW f, NEW p, NEW q
  PROVE  /\ Checksum(e, p) # None
         /\ Checksum(e, p) = Checksum(f, q) => e = f /\ p = q
         /\ Checksum(e, p)[1] = e
<1>1. Len(<<e, p>>) = 2 /\ Len(<<>>) = 0
  OBVIOUS
<1> QED
  BY <1>1 DEF Checksum, None

\* What Ends yields is no row's checksum, or that of a last row
LEMMA EndIsLast ==
  ASSUME NEW S, NEW prev \in Ends(S)
  PROVE  (S = {} /\ prev = None) \/ \E last \in Latest(S) : prev = last.checksum
BY DEF Ends

\* The row that carries on from a checksum comes after the row that has it
LEMMA NextIsLater ==
  ASSUME LinkedInv, NEW row \in rows, NEW next \in rows,
         next.checksum = Checksum(next.event, row.checksum)
  PROVE  row \in Latest(Earlier(next))
<1>1. Chained(next) /\ Chained(row)
  BY DEF LinkedInv
<1>2. row.checksum # None
  BY <1>1, ChecksumTells DEF Chained
<1>3. row.checksum \in Ends(Earlier(next))
  <2>1. PICK prev \in Ends(Earlier(next)) : next.checksum = Checksum(next.event, prev)
    BY <1>1 DEF Chained
  <2>2. Checksum(next.event, prev) = Checksum(next.event, row.checksum)
    BY <2>1
  <2>3. prev = row.checksum
    BY <2>2, ChecksumTells
  <2> QED
    BY <2>1, <2>3
<1>4. PICK last \in Latest(Earlier(next)) : row.checksum = last.checksum
  BY <1>2, <1>3, EndIsLast
<1>5. last = row
  BY <1>4 DEF LinkedInv, Latest, Earlier
<1> QED
  BY <1>4, <1>5

\* What follows the last row has a checksum of its own
LEMMA FreshChecksum ==
  ASSUME TypeOK, LinkedInv, NEW prev \in Ends(rows), NEW event, NEW other \in rows
  PROVE  other.checksum # Checksum(event, prev)
<1>1. SUFFICES ASSUME other.checksum = Checksum(event, prev) PROVE FALSE
  OBVIOUS
<1>2. PICK last \in Latest(rows) : prev = last.checksum
  BY EndIsLast
<1>3. last \in rows /\ other.at <= last.at /\ last.at \in Int /\ other.at \in Int
  BY <1>2 DEF Latest, TypeOK
<1>4. prev \in Ends(Earlier(other))
  BY <1>1, ChecksumTells DEF LinkedInv, Chained
<1>5. other.checksum = Checksum(other.event, last.checksum)
  BY <1>1, <1>2, <1>4, ChecksumTells DEF LinkedInv, Chained
<1>6. last \in Latest(Earlier(other))
  BY <1>3, <1>5, NextIsLater
<1> QED
  BY <1>3, <1>6 DEF Latest, Earlier

\* Rows that look alike to the check are linked alike
LEMMA RetouchedStaysLinked ==
  ASSUME RowsInv, LinkedInv, NEW row, NEW other, ExchangedFor(row, other), tampered' = "retouched"
  PROVE  LinkedInv'
<1>1. /\ rows' = (rows \ {row}) \cup {other} /\ row \in rows
      /\ other.at = row.at /\ other.event = row.event /\ other.checksum = row.checksum
  BY DEF ExchangedFor
<1> DEFINE was(r) == IF r = other THEN row ELSE r
           now(r) == IF r = row THEN other ELSE r
<1>2. \A r \in rows' : /\ was(r) \in rows /\ was(r).at = r.at /\ was(r).event = r.event
                        /\ was(r).checksum = r.checksum
  BY <1>1
<1>3. \A r \in rows : /\ now(r) \in rows' /\ now(r).at = r.at /\ now(r).event = r.event
                       /\ now(r).checksum = r.checksum
  BY <1>1
<1> HIDE DEF was, now
<1>4. ASSUME NEW r \in rows' PROVE Chained(r)'
  <2>1. PICK prev \in Ends(Earlier(was(r))) : was(r).checksum = Checksum(was(r).event, prev)
    BY <1>2, <1>4 DEF LinkedInv, Chained
  <2> DEFINE before == {o \in rows' : o.at < r.at}
  <2>2. prev \in Ends(before)
    <3>1. CASE Earlier(was(r)) = {}
      <4>1. before = {}
        BY <1>2, <3>1 DEF Earlier
      <4> QED
        BY <2>1, <3>1, <4>1 DEF Ends
    <3>2. CASE Earlier(was(r)) # {}
      <4>1. PICK last \in Latest(Earlier(was(r))) : prev = last.checksum
        BY <2>1, <3>2 DEF Ends
      <4>2. now(last) \in Latest(before)
        BY <1>2, <1>3, <1>4, <4>1 DEF Latest, Earlier
      <4>3. prev = now(last).checksum /\ before # {}
        BY <1>3, <4>1, <4>2 DEF Latest, Earlier
      <4> QED
        BY <4>2, <4>3 DEF Ends
    <3> QED
      BY <3>1, <3>2
  <2>3. r.checksum = Checksum(r.event, prev)
    BY <1>2, <2>1
  <2> QED
    BY <2>2, <2>3 DEF Chained, Earlier, Ends, Latest, Checksum
<1>5. ASSUME NEW a \in rows', NEW b \in rows', a.checksum = b.checksum PROVE a = b
  <2>1. was(a) = was(b)
    BY <1>2, <1>5 DEF LinkedInv
  <2> QED
    BY <1>1, <2>1, <1>5 DEF was
<1>6. ASSUME NEW r \in rows', r \notin Latest(rows')
      PROVE  \E next \in rows' : next.checksum = Checksum(next.event, r.checksum)
  <2>1. was(r) \notin Latest(rows)
    BY <1>2, <1>3, <1>6 DEF Latest
  <2>2. PICK next \in rows : next.checksum = Checksum(next.event, was(r).checksum)
    BY <1>2, <1>6, <2>1 DEF LinkedInv
  <2> QED
    BY <1>2, <1>3, <1>6, <2>2
<1> QED
  BY <1>4, <1>5, <1>6 DEF LinkedInv, Latest, Checksum

LEMMA LinkedStep ==
  ASSUME TypeOK, RowsInv, DatesInv, AloneInv, LinkedInv, Next, tampered' \in {"no", "retouched"}
  PROVE  LinkedInv'
<1> USE DEF TypeOK
<1>1. ASSUME rows' = rows PROVE LinkedInv'
  BY <1>1 DEF LinkedInv, Chained, Ends, Earlier, Latest
<1>2. ASSUME NEW t \in Transactions, Insert(t) PROVE LinkedInv'
  <2>1. PICK row : /\ rows' = rows \cup {row}
                   /\ row.txn = t /\ row.at = began[t]
                   /\ previous[t] \in Ends(rows) /\ row.checksum = Checksum(row.event, previous[t])
                   /\ \A other \in rows : other.txn # t /\ other.at < row.at
                   /\ {other \in rows' : other.at < row.at} = rows
                   /\ \A other \in rows : {o \in rows' : o.at < other.at} = Earlier(other)
    BY <1>2, InsertAlone
  <2>2. row.at \in Int /\ \A other \in rows : other.at \in Int
    BY <2>1
  <2>3. Chained(row)'
    BY <2>1 DEF Chained, Earlier, Ends, Latest
  <2>4. ASSUME NEW other \in rows PROVE Chained(other)'
    <3>1. Chained(other)
      BY DEF LinkedInv
    <3> QED
      BY <2>1, <3>1 DEF Chained, Earlier, Ends, Latest
  <2>5. \A a, b \in rows' : a.checksum = b.checksum => a = b
    <3>1. \A other \in rows : other.checksum # row.checksum
      BY <2>1, FreshChecksum
    <3> QED
      BY <2>1, <3>1 DEF LinkedInv
  <2>6. row \in Latest(rows')
    BY <2>1, <2>2 DEF Latest
  <2>7. ASSUME NEW other \in Latest(rows) PROVE row.checksum = Checksum(row.event, other.checksum)
    <3>1. PICK last \in Latest(rows) : previous[t] = last.checksum
      BY <2>1, EndIsLast DEF Latest
    <3>2. last.at = other.at /\ last \in rows /\ other \in rows
      BY <2>2, <3>1 DEF Latest
    <3>3. last = other
      BY <3>2 DEF RowsInv, DatesInv, AloneInv, Begun
    <3> QED
      BY <2>1, <3>1, <3>3
  <2>8. \A other \in rows' :
          \/ other \in Latest(rows')
          \/ \E next \in rows' : next.checksum = Checksum(next.event, other.checksum)
    BY <2>1, <2>6, <2>7 DEF LinkedInv
  <2>9. \A other \in rows' : Chained(other)'
    BY <2>1, <2>3, <2>4
  <2> QED
    BY <2>5, <2>8, <2>9 DEF LinkedInv, Latest, Checksum
<1>3. ASSUME NEW t \in Transactions, Rollback(t) PROVE LinkedInv'
  <2>1. /\ rows' = rows \ Written(t)
        /\ \A row \in rows' : /\ row \in rows /\ row.txn # t /\ row.at < began[t]
                              /\ {o \in rows' : o.at < row.at} = Earlier(row)
        /\ \A row \in Written(t) : Earlier(row) = rows'
    BY <1>3, RollbackAlone
  <2>2. ASSUME NEW row \in rows' PROVE Chained(row)'
    <3>1. Chained(row)
      BY <2>1 DEF LinkedInv
    <3> QED
      BY <2>1, <3>1 DEF Chained, Earlier, Ends, Latest
  <2>3. ASSUME NEW row \in rows', row \notin Latest(rows')
        PROVE  \E next \in rows' : next.checksum = Checksum(next.event, row.checksum)
    <3>1. row \in rows /\ row \notin Latest(rows)
      BY <2>1, <2>3 DEF Latest
    <3>2. PICK next \in rows : next.checksum = Checksum(next.event, row.checksum)
      BY <3>1 DEF LinkedInv
    <3>3. row \in Latest(Earlier(next))
      BY <3>1, <3>2, NextIsLater
    <3>4. next \notin Written(t)
      BY <2>1, <2>3, <3>3
    <3> QED
      BY <2>1, <3>2, <3>4
  <2> QED
    BY <2>1, <2>2, <2>3 DEF LinkedInv, Latest, Checksum
<1>4. ASSUME NEW t \in Transactions, Begin(t) \/ ReadPrevious(t) \/ Commit(t) PROVE rows' = rows
  BY <1>4 DEF Begin, ReadPrevious, Commit
<1>5. CASE Change
  <2>1. PICK row, other : ExchangedFor(row, other)
    BY <1>5, ChangeExchanges
  <2>2. tampered' = "retouched"
    BY <2>1 DEF ExchangedFor
  <2> QED
    BY <2>1, <2>2, RetouchedStaysLinked
<1>6. CASE Delete
  BY <1>6 DEF Delete
<1> QED
  BY <1>1, <1>2, <1>3, <1>4, <1>5, <1>6 DEF Next, Change

\* While nothing is open, all rows are committed
LEMMA AllCommitted ==
  ASSUME TypeOK, RowsInv, Open = {}
  PROVE  Committed = rows
BY DEF TypeOK, RowsInv, Open, Committed

\* A row once committed stays, unless someone tampers with it
LEMMA CommittedStays ==
  ASSUME TypeOK, Next, tampered' = tampered, tampered # "no", NEW row \in Committed
  PROVE  row \in Committed'
<1> USE DEF Committed, TypeOK
<1>1. ASSUME NEW t \in Transactions, Begin(t) \/ ReadPrevious(t) \/ Insert(t) \/ Commit(t)
      PROVE  row \in Committed'
  <2>1. row \in rows' /\ phase'[row.txn] = "committed"
    BY <1>1 DEF Begin, ReadPrevious, Insert, Commit
  <2> QED
    BY <2>1
<1>2. ASSUME NEW t \in Transactions, Rollback(t) PROVE row \in Committed'
  BY <1>2 DEF Rollback, Open, Written
<1>3. CASE Change \/ Delete
  BY <1>3 DEF Change, Alter, AlterChecksum, Retouch, Redate, Exchange, Delete
<1> QED
  BY <1>1, <1>2, <1>3 DEF Next, Change

LEMMA GapStep ==
  ASSUME TypeOK, RowsInv, DatesInv, AloneInv, tampered = "no" => LinkedInv,
         tampered = "broken" => GapInv, Next, tampered' = "broken"
  PROVE  GapInv'
<1>1. CASE Delete
  <2>1. PICK row \in rows : rows' = rows \ {row} /\ row \notin Latest(rows)
    BY <1>1 DEF Delete
  <2>2. LinkedInv /\ Open = {} /\ phase' = phase
    BY <1>1 DEF Delete
  <2>3. PICK next \in rows : next.checksum = Checksum(next.event, row.checksum)
    BY <2>1, <2>2 DEF LinkedInv
  <2>4. next # row
    <3>1. row \in Latest(Earlier(next))
      BY <2>2, <2>3, NextIsLater
    <3> QED
      BY <3>1 DEF Latest, Earlier, TypeOK
  <2>5. next \in Committed'
    BY <2>1, <2>2, <2>4, AllCommitted DEF Committed
  <2>6. row.checksum # None /\ \A other \in rows' : other.checksum # row.checksum
    BY <2>1, <2>2, ChecksumTells DEF LinkedInv, Chained
  <2>7. row.checksum \notin Ends({o \in rows' : o.at < next.at})
    BY <2>6 DEF Ends, Latest
  <2>8. ~Chained(next)'
    <3>1. ASSUME NEW prev, next.checksum = Checksum(next.event, prev) PROVE prev = row.checksum
      <4>1. Checksum(next.event, prev) = Checksum(next.event, row.checksum)
        BY <2>3, <3>1
      <4> QED
        BY <4>1, ChecksumTells
    <3> QED
      BY <2>7, <3>1 DEF Chained, Ends, Earlier, Latest, Checksum
  <2> QED
    BY <2>5, <2>8 DEF GapInv
<1>2. CASE Change
  <2>1. PICK row, other : ExchangedFor(row, other)
    BY <1>2, ChangeExchanges
  <2>2. /\ rows' = (rows \ {row}) \cup {other} /\ row \in rows /\ LinkedInv /\ Open = {}
        /\ phase' = phase /\ other.txn = row.txn /\ other.at = row.at
        /\ other.event = row.event /\ other.checksum # row.checksum
    BY <2>1 DEF ExchangedFor
  <2>3. other \in Committed'
    BY <2>2, AllCommitted DEF Committed
  <2>4. {o \in rows' : o.at < other.at} = Earlier(row)
    BY <2>2 DEF Earlier, TypeOK
  <2>5. PICK end \in Ends(Earlier(row)) : row.checksum = Checksum(row.event, end)
    BY <2>2 DEF LinkedInv, Chained
  <2>6. \A prev \in Ends(Earlier(row)) : prev = end
    <3>1. \A a, b \in Latest(Earlier(row)) : a = b
      <4>1. SUFFICES ASSUME NEW a \in Latest(Earlier(row)), NEW b \in Latest(Earlier(row))
                     PROVE  a = b
        OBVIOUS
      <4>2. a \in rows /\ b \in rows /\ a.at = b.at
        BY DEF Latest, Earlier, TypeOK
      <4> QED
        BY <4>2 DEF RowsInv, DatesInv, AloneInv, Begun, TypeOK
    <3> QED
      BY <3>1 DEF Ends
  <2>7. ~Chained(other)'
    BY <2>2, <2>4, <2>5, <2>6 DEF Chained, Ends, Earlier, Latest, Checksum
  <2> QED
    BY <2>3, <2>7 DEF GapInv
<1>3. CASE ~Delete /\ ~Change
  <2>1. tampered = "broken"
    BY <1>3 DEF Next, Begin, ReadPrevious, Insert, Commit, Rollback, Change
  <2>2. PICK row \in Committed : ~Chained(row)
    BY <2>1 DEF GapInv
  <2>3. row \in Committed' /\ row \in rows /\ row \in rows'
    BY <2>1, <2>2, CommittedStays DEF Committed
  <2>4. {o \in rows' : o.at < row.at} = Earlier(row)
    <3>1. ASSUME NEW t \in Transactions, Begin(t) \/ ReadPrevious(t) \/ Commit(t)
          PROVE  {o \in rows' : o.at < row.at} = Earlier(row)
      BY <3>1 DEF Begin, ReadPrevious, Commit, Earlier
    <3>2. ASSUME NEW t \in Transactions, Insert(t)
          PROVE  {o \in rows' : o.at < row.at} = Earlier(row)
      BY <2>3, <3>2, InsertAlone
    <3>3. ASSUME NEW t \in Transactions, Rollback(t)
          PROVE  {o \in rows' : o.at < row.at} = Earlier(row)
      BY <2>3, <3>3, RollbackAlone
    <3> QED
      BY <1>3, <3>1, <3>2, <3>3 DEF Next, Change
  <2>5. ~Chained(row)'
    BY <2>2, <2>4 DEF Chained, Ends, Earlier, Latest
  <2> QED
    BY <2>3, <2>5 DEF GapInv
<1> QED
  BY <1>1, <1>2, <1>3

LEMMA SignedStep ==
  ASSUME TypeOK, RowsInv, SignedInv, Next
  PROVE  SignedInv'
<1>1. CASE Change
  <2>1. PICK row, other : ExchangedFor(row, other)
    BY <1>1, ChangeExchanges
  <2>2. tampered' # "no" /\ other \in rows' /\ Open = {} /\ row \in rows
    BY <2>1 DEF ExchangedFor
  <2>3. ASSUME tampered' = "altered" PROVE other \in Committed' /\ ~Signed(other)
    <3>1. row.checksum[1] = row.event /\ row \in Committed
      BY <2>1, <2>2, AllCommitted DEF ExchangedFor, SignedInv, Signed
    <3> QED
      BY <2>1, <2>3, <3>1 DEF ExchangedFor, Committed, Signed
  <2> QED
    BY <2>2, <2>3 DEF SignedInv, Signed
<1>2. CASE Delete
  BY <1>2 DEF Delete, SignedInv, Signed
<1>3. CASE ~Change /\ ~Delete
  <2>1. tampered' = tampered
    BY <1>3 DEF Next, Begin, ReadPrevious, Insert, Commit, Rollback, Change
  <2>2. ASSUME tampered = "altered" PROVE \E row \in Committed' : ~Signed(row)
    <3>1. PICK row \in Committed : ~Signed(row)
      BY <2>2 DEF SignedInv
    <3>2. row \in Committed'
      BY <2>1, <2>2, CommittedStays
    <3> QED
      BY <3>1, <3>2
  <2>3. ASSUME tampered = "no" PROVE \A row \in rows' : Signed(row)
    <3>1. ASSUME NEW t \in Transactions, Insert(t), NEW row \in rows' PROVE Signed(row)
      <4>1. PICK event \in Events : rows' = rows \cup {NewRow(t, event)}
        BY <3>1 DEF Insert
      <4>2. Signed(NewRow(t, event))
        BY ChecksumTells DEF Signed, NewRow
      <4> QED
        BY <2>3, <3>1, <4>1, <4>2 DEF SignedInv
    <3>2. ASSUME NEW t \in Transactions, Begin(t) \/ ReadPrevious(t) \/ Commit(t) \/ Rollback(t)
          PROVE  rows' \subseteq rows
      BY <3>2 DEF Begin, ReadPrevious, Commit, Rollback
    <3> QED
      BY <1>3, <2>3, <3>1, <3>2 DEF Next, Change, SignedInv
  <2> QED
    BY <2>1, <2>2, <2>3 DEF SignedInv, Signed
<1> QED
  BY <1>1, <1>2, <1>3

LEMMA Inductive == Spec => []IInv
<1>1. ASSUME Init PROVE IInv
  <2>1. RowsInv /\ PreviousInv /\ DatesInv
    BY <1>1, FS_EmptySet DEF Init, RowsInv, PreviousInv, DatesInv, Begun
  <2>2. AloneInv /\ LinkedInv /\ SignedInv
    BY <1>1 DEF Init, AloneInv, LinkedInv, SignedInv, Open
  <2>3. tampered = "no"
    BY <1>1 DEF Init
  <2> QED
    BY <2>1, <2>2, <2>3, <1>1, TypeInit DEF IInv
<1>2. ASSUME IInv, [Next]_vars PROVE IInv'
  <2>1. TypeOK' /\ RowsInv' /\ DatesInv'
    BY <1>2, TypeStep, RowsStep, DatesStep DEF IInv
  <2>2. PreviousInv'
    BY <1>2 DEF IInv, PreviousInv, Next, Begin, ReadPrevious, Insert, Commit, Rollback, Alter,
                AlterChecksum, Retouch, Redate, Exchange, Delete, vars
  <2>3. CASE UNCHANGED vars
    <3>1. SignedInv' = SignedInv /\ AloneInv' = AloneInv
      BY <2>3 DEF vars, SignedInv, Signed, AloneInv, Ends, Latest, Written, Open, Begun, Committed
    <3>2. \A row : Chained(row)' = Chained(row)
      BY <2>3 DEF vars, Chained, Ends, Earlier, Latest
    <3>3. LinkedInv' = LinkedInv /\ GapInv' = GapInv
      BY <2>3, <3>2 DEF vars, LinkedInv, GapInv, Latest, Committed
    <3> QED
      BY <1>2, <2>1, <2>2, <2>3, <3>1, <3>3 DEF IInv, vars
  <2>4. CASE Next
    <3>1. SignedInv'
      BY <1>2, <2>4, SignedStep DEF IInv
    <3>2. ASSUME ~mixed', tampered' # "redated" PROVE ~mixed /\ tampered # "redated" /\ AloneInv
      <4>1. (mixed => mixed') /\ (tampered' = tampered \/ tampered = "no")
        <5>1. ASSUME NEW t \in Transactions, Begin(t) \/ ReadPrevious(t)
              PROVE  (mixed => mixed') /\ tampered' = tampered
          BY <5>1 DEF Begin, ReadPrevious
        <5>2. ASSUME NEW t \in Transactions, Insert(t) \/ Commit(t) \/ Rollback(t)
              PROVE  mixed' = mixed /\ tampered' = tampered
          BY <5>2 DEF Insert, Commit, Rollback
        <5>3. CASE Change \/ Delete
          BY <5>3 DEF Change, Alter, AlterChecksum, Retouch, Redate, Exchange, Delete
        <5> QED
          BY <2>4, <5>1, <5>2, <5>3 DEF Next, Change
      <4> QED
        BY <1>2, <3>2, <4>1 DEF IInv
    <3>3. ASSUME ~mixed', tampered' # "redated" PROVE AloneInv'
      BY <1>2, <2>4, <3>2, <3>3, AloneStep DEF IInv
    <3>a. ASSUME tampered' # tampered PROVE tampered = "no"
      <4>1. ASSUME NEW t \in Transactions,
                   Begin(t) \/ ReadPrevious(t) \/ Insert(t) \/ Commit(t) \/ Rollback(t)
            PROVE  tampered' = tampered
        BY <4>1 DEF Begin, ReadPrevious, Insert, Commit, Rollback
      <4>2. CASE Change \/ Delete
        BY <4>2 DEF Change, Alter, AlterChecksum, Retouch, Redate, Exchange, Delete
      <4> QED
        BY <2>4, <3>a, <4>1, <4>2 DEF Next, Change
    <3>4. ASSUME ~mixed', tampered' \in {"no", "retouched"} PROVE LinkedInv'
      BY <1>2, <2>4, <3>2, <3>4, <3>a, LinkedStep DEF IInv
    <3>5. ASSUME ~mixed', tampered' = "broken" PROVE GapInv'
      BY <1>2, <2>4, <3>2, <3>5, GapStep DEF IInv
    <3> QED
      BY <2>1, <2>2, <3>1, <3>3, <3>4, <3>5 DEF IInv
  <2> QED
    BY <1>2, <2>3, <2>4
<1> QED
  BY <1>1, <1>2, PTL DEF Spec

\* The transactions and their rows keep their types, and a row keeps the date
\* of its transaction, unless it is changed by hand.
THEOREM TypeCorrect == Spec => []TypeOK
<1>1. IInv => TypeOK
  BY DEF IInv
<1> QED
  BY <1>1, Inductive, PTL

-----------------------------------------------------------------------------
(***************************************************************************)
(* The check.                                                              *)
(***************************************************************************)

\* A history has every committed row exactly once
LEMMA HistoryIsAll ==
  ASSUME RowsInv, NEW s \in Histories
  PROVE  /\ Cardinality(Committed) \in Nat
         /\ DOMAIN s = 1 .. Cardinality(Committed)
         /\ \A i \in DOMAIN s : s[i] \in Committed
         /\ \A row \in Committed : \E i \in DOMAIN s : s[i] = row
         /\ \A i, j \in DOMAIN s : i # j => s[i] # s[j]
         /\ \A i, j \in DOMAIN s : i < j => s[i].at <= s[j].at
<1> DEFINE n == Cardinality(Committed)
<1>1. IsFiniteSet(Committed)
  BY FS_Subset DEF RowsInv, Committed
<1>2. n \in Nat
  BY <1>1, FS_CardinalityType
<1> HIDE DEF n
<1>3. /\ s \in [1 .. n -> Committed] /\ \A i, j \in 1 .. n : i # j => s[i] # s[j]
      /\ \A i, j \in DOMAIN s : i < j => s[i].at <= s[j].at
  BY DEF Histories, SetToSeqs, n
<1>4. IsFiniteSet(1 .. n) /\ Cardinality(1 .. n) = n
  BY <1>2, FS_Interval
<1>5. s \in Injection(1 .. n, Committed)
  BY <1>3 DEF Injection, IsInjective
<1>6. s \in Surjection(1 .. n, Committed)
  BY <1>1, <1>4, <1>5, FS_Injection DEF n
<1>7. \A row \in Committed : \E i \in 1 .. n : s[i] = row
  BY <1>6 DEF Surjection
<1> QED
  BY <1>2, <1>3, <1>7 DEF n

\* The check looks at what the rows carry on from
LEMMA VerifiesIffChained ==
  ASSUME TypeOK, RowsInv, DatesInv, AloneInv, NEW s \in Histories
  PROVE  Verifies(s) <=> \A row \in Committed : Chained(row)
<1> DEFINE n == Cardinality(Committed)
<1>1. /\ n \in Nat /\ DOMAIN s = 1 .. n
      /\ \A i \in 1 .. n : s[i] \in Committed /\ s[i] \in rows
      /\ \A row \in Committed : \E i \in 1 .. n : s[i] = row
      /\ \A i, j \in 1 .. n : i # j => s[i] # s[j]
      /\ \A i, j \in 1 .. n : i < j => s[i].at <= s[j].at
  BY HistoryIsAll DEF Committed
<1> HIDE DEF n
<1>2. \A row \in rows : row.at \in Int
  BY DEF TypeOK
<1>3. ASSUME NEW row \in Committed PROVE Earlier(row) \subseteq Committed
  <2>1. ASSUME NEW other \in Earlier(row), phase[other.txn] # "committed" PROVE FALSE
    <3>1. /\ other \in rows /\ other.at < row.at /\ other.txn \in Open
          /\ row \in rows /\ row.txn # other.txn /\ other.at = began[other.txn]
      BY <2>1 DEF Earlier, RowsInv, TypeOK, Open, Committed, AloneInv
    <3>2. row.at < other.at
      BY <3>1, OpenIsLast
    <3> QED
      BY <1>2, <3>1, <3>2
  <2> QED
    BY <2>1 DEF Committed, Earlier
<1>4. \A row, other \in rows : row.at = other.at => row = other
  BY DEF TypeOK, RowsInv, DatesInv, Begun, AloneInv
<1>5. ASSUME NEW i \in 1 .. n
      PROVE  Ends(Earlier(s[i])) = {IF i = 1 THEN None ELSE s[i - 1].checksum}
  <2>1. ASSUME NEW other \in Earlier(s[i]) PROVE \E j \in 1 .. n : j < i /\ s[j] = other
    <3>1. PICK j \in 1 .. n : s[j] = other
      BY <1>1, <1>3
    <3>2. s[j].at < s[i].at /\ s[j].at \in Int /\ s[i].at \in Int
      BY <1>1, <1>2, <3>1 DEF Earlier
    <3>3. j < i
      BY <1>1, <3>2
    <3> QED
      BY <3>1, <3>3
  <2>2. CASE i = 1
    <3>1. Earlier(s[i]) = {}
      BY <2>1, <2>2
    <3> QED
      BY <2>2, <3>1 DEF Ends
  <2>3. CASE i # 1
    <3>1. i - 1 \in 1 .. n /\ i - 1 < i
      BY <1>1, <2>3
    <3>2. s[i - 1] # s[i]
      BY <1>1, <3>1
    <3>3. s[i - 1] \in Earlier(s[i])
      BY <1>1, <1>2, <1>4, <3>1, <3>2 DEF Earlier
    <3>4. ASSUME NEW other \in Earlier(s[i]) PROVE other.at <= s[i - 1].at
      <4>1. PICK j \in 1 .. n : j < i /\ s[j] = other
        BY <2>1
      <4>2. j < i - 1 \/ j = i - 1
        BY <1>1, <3>1, <4>1
      <4> QED
        BY <1>1, <1>2, <3>1, <4>1, <4>2
    <3>5. s[i - 1] \in Latest(Earlier(s[i]))
      BY <3>3, <3>4 DEF Latest
    <3>6. \A last \in Latest(Earlier(s[i])) : last = s[i - 1]
      <4>1. SUFFICES ASSUME NEW last \in Latest(Earlier(s[i])) PROVE last = s[i - 1]
        OBVIOUS
      <4>2. last \in rows /\ s[i - 1] \in rows /\ last.at <= s[i - 1].at /\ s[i - 1].at <= last.at
        BY <3>3, <3>4, <4>1 DEF Latest, Earlier
      <4> QED
        BY <1>2, <1>4, <4>2
    <3> QED
      BY <2>3, <3>3, <3>5, <3>6 DEF Ends
  <2> QED
    BY <2>2, <2>3
<1>6. \A i \in 1 .. n :
        Chained(s[i]) <=> s[i].checksum = Checksum(s[i].event, IF i = 1 THEN None ELSE s[i - 1].checksum)
  BY <1>5 DEF Chained
<1>7. Verifies(s) <=> \A i \in 1 .. n : Chained(s[i])
  BY <1>1, <1>6 DEF Verifies
<1> QED
  BY <1>1, <1>7

\* A table that nobody has touched passes the check, and so does one of which
\* only columns were changed that the checksum does not cover, if its
\* transactions came one after the other and appended one row each.
THEOREM IntactVerifiesHolds == Spec => []IntactVerifies
<1>1. ASSUME IInv PROVE IntactVerifies
  BY <1>1, VerifiesIffChained DEF IInv, IntactVerifies, LinkedInv, Committed
<1> QED
  BY <1>1, Inductive, PTL

\* A table with a row whose type or payload was changed fails the check; so does
\* one with a changed checksum, or that misses a row before the last, if its
\* transactions came one after the other and appended one row each: in every
\* order the rows may come in, and whatever is appended to it afterwards.
THEOREM TamperingShowsHolds == Spec => []TamperingShows
<1>1. ASSUME IInv, NEW s \in Histories, tampered = "altered" PROVE ~Verifies(s)
  <2>1. PICK row \in Committed : ~Signed(row)
    BY <1>1 DEF IInv, SignedInv
  <2>2. PICK i \in DOMAIN s : s[i] = row
    BY <1>1, HistoryIsAll DEF IInv
  <2> QED
    BY <2>1, <2>2, ChecksumTells DEF Verifies, Signed
<1>2. ASSUME IInv, NEW s \in Histories, tampered = "broken", ~mixed PROVE ~Verifies(s)
  BY <1>2, VerifiesIffChained DEF IInv, GapInv
<1>3. IInv => TamperingShows
  BY <1>1, <1>2 DEF TamperingShows
<1> QED
  BY <1>3, Inductive, PTL
=============================================================================
