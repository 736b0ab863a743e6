-------------------------------- MODULE Paging --------------------------------
(***************************************************************************)
(* Cursor pagination: a client reads a list page by page while others      *)
(* write to the table.  Each page is a query of its own, the cursor is the *)
(* id of the last row the client got.                                      *)
(*                                                                         *)
(* contributionRecords and sharedGoals are ordered by the database and end *)
(* on the id; members are loaded without an order and cut in memory.  The  *)
(* database returns such rows in the order they are stored in, where an    *)
(* UPDATE may put the row's new version anywhere.  Rows are never deleted. *)
(* A row is the number that its list is ordered by.                        *)
(***************************************************************************)
EXTENDS Naturals, SequencesExt

CONSTANTS
  Items,                          \* the rows there may be, as numbers
  DefaultPageSize, MaxPageSize,
  MaxChanges                      \* model bound

ASSUME PagingAssumption ==
  /\ Items \subseteq Nat \ {0}   \* an id is never taken for the lack of a cursor
  /\ DefaultPageSize \in 1..MaxPageSize
  /\ MaxPageSize \in Nat
  /\ MaxChanges \in Nat

VARIABLES
  rows,     \* the rows, in the order that a query returns them in
  changes,  \* how many of them were written
  scan      \* where the client is

pagingVars == <<rows, changes, scan>>

Field == {"contributionRecords", "sharedGoals", "members"}
isOrdered(field) == field # "members"

NoCursor == 0
First == 0..(MaxPageSize + 1)

\* present: the rows at the start; moved: a row changed its place since.
Scan == [at : {"idle", "reading", "done"}, field : Field, first : First,
         after : Items \cup {NoCursor}, seen : Seq(Items), present : SUBSET Items,
         moved : BOOLEAN]

PagingTypeOK ==
  /\ rows \in Seq(Items)
  /\ changes \in 0..MaxChanges
  /\ scan \in Scan

PagingInit ==
  /\ rows = <<>>
  /\ changes = 0
  /\ scan = [at |-> "idle", field |-> "members", first |-> 1, after |-> NoCursor,
             seen |-> <<>>, present |-> {}, moved |-> FALSE]

-----------------------------------------------------------------------------
(* What others do to the table. *)

positionsFor(i) ==
  {k \in 1..Len(rows) + 1 :
     isOrdered(scan.field) =>
       /\ \A j \in 1..(k - 1) : rows[j] < i
       /\ \A j \in k..Len(rows) : i < rows[j]}

\* A record may become visible after one that is newer, a goal's id is random.
InsertRow(i) ==
  /\ scan.at # "done"
  /\ i \notin Range(rows)
  /\ changes < MaxChanges
  /\ \E k \in positionsFor(i) : rows' = InsertAt(rows, k, i)
  /\ changes' = changes + 1
  /\ UNCHANGED scan

\* Unordered rows: the new version of a row is stored elsewhere.
UpdateRow(i) ==
  /\ scan.at = "reading" /\ ~isOrdered(scan.field)
  /\ i \in Range(rows)
  /\ changes < MaxChanges
  /\ \E h, k \in DOMAIN rows : rows[h] = i /\ rows' = InsertAt(RemoveAt(rows, h), k, i)
  /\ changes' = changes + 1
  /\ scan' = [scan EXCEPT !.moved = @ \/ rows' # rows]

-----------------------------------------------------------------------------
(* The client. *)

\* Nothing, zero or less is the default size.
clampPageSize(first) ==
  IF first < 1 THEN DefaultPageSize
  ELSE IF first > MaxPageSize THEN MaxPageSize ELSE first

\* A list that is not ordered is written before it is read, or in any order.
StartScan(field, first) ==
  /\ scan.at = "idle"
  /\ isOrdered(field) => \A j \in 1..(Len(rows) - 1) : rows[j] < rows[j + 1]
  /\ scan' = [scan EXCEPT !.at = "reading", !.field = field, !.first = first,
                          !.present = Range(rows)]
  /\ UNCHANGED <<rows, changes>>

indexOf(after) == IF after = NoCursor THEN 0 ELSE CHOOSE k \in DOMAIN rows : rows[k] = after

\* Faulty: both the cursor and the skip pass over a row.
pageSkippingTwice(after, size) ==
  LET start == IF after = NoCursor THEN 0 ELSE indexOf(after) + 1
      end == start + size
  IN  SubSeq(rows, start + 1, IF end < Len(rows) THEN end ELSE Len(rows))

\* pageSlice, and the cursor and skip of prismaPage: SubSeq stops at the end.
pageAfter(after, size) ==
  LET start == indexOf(after)
      end == start + size
  IN  SubSeq(rows, start + 1, IF end < Len(rows) THEN end ELSE Len(rows))

\* An empty page ends the list.
FetchPage ==
  LET page == pageAfter(scan.after, clampPageSize(scan.first))
  IN  /\ scan.at = "reading"
      /\ scan' = IF page = <<>> THEN [scan EXCEPT !.at = "done"]
                 ELSE [scan EXCEPT !.seen = @ \o page, !.after = Last(page)]
      /\ UNCHANGED <<rows, changes>>

PagingNext ==
  \/ \E i \in Items : InsertRow(i) \/ UpdateRow(i)
  \/ \E field \in Field, first \in First : StartScan(field, first)
  \/ FetchPage

PagingSpec == PagingInit /\ [][PagingNext]_pagingVars

-----------------------------------------------------------------------------
(* Properties. *)

sawEachOnce ==
  /\ scan.present \subseteq Range(scan.seen)
  /\ IsInjective(scan.seen)

\* A client that follows the cursors to the end gets every row that was there
\* when it began, and no row twice, whatever is inserted meanwhile and wherever
\* (CHK017): as long as no row changes its place.
ScansAreComplete == (scan.at = "done" /\ ~scan.moved) => sawEachOnce

\* pagination.ts: "stable input order": a scan of the members too.
MembersKeepTheirPlace == scan.at = "done" => sawEachOnce

=============================================================================
