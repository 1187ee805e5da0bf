------------------------------- MODULE Keyset --------------------------------
(***************************************************************************)
(* Keyset pagination, as the inbox, the thread and the public grid do it:  *)
(* rows in descending (key, id) order, a page of at most size rows that    *)
(* are strictly after the cursor, one row more to see whether there is a   *)
(* next page, and a cursor that is bound to what it was minted for.        *)
(***************************************************************************)
EXTENDS Integers, Sequences, FiniteSets

CONSTANT NoCursor      \* the first page

Precedes(a, b) == a.key > b.key \/ (a.key = b.key /\ a.id > b.id)

\* Mutant: the comparison without its tie-break.
AfterKeyOnly(row, cursor) == row.key < cursor.key

\* The cursor's predicate.
After(row, cursor) == Precedes(cursor, row)

\* A cursor that was minted for something else is no cursor.
Decode(cursor, owner) ==
    IF cursor # NoCursor /\ cursor.owner = owner THEN cursor ELSE NoCursor

\* What follows the cursor.
Rest(rows, cursor) == {r \in rows : cursor = NoCursor \/ After(r, cursor)}

\* The k-th of some rows is the one that k - 1 of them precede.
Ranked(rows, k) == CHOOSE r \in rows : Cardinality({x \in rows : Precedes(x, r)}) = k - 1

\* The rows that follow the cursor, at most size of them, in order.
Rows(rows, cursor, size) ==
    LET rest == Rest(rows, cursor)
    IN  [k \in 1..(IF Cardinality(rest) < size THEN Cardinality(rest) ELSE size) |-> Ranked(rest, k)]

\* The cursor of the next page, when there is one.
NextCursor(rows, cursor, size, owner) ==
    LET extra == Rows(rows, cursor, size + 1)
    IN  IF Len(extra) > size
        THEN [owner |-> owner, key |-> extra[size].key, id |-> extra[size].id]
        ELSE NoCursor
=============================================================================
