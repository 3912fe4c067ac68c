----------------------------- MODULE My402Sort -----------------------------
(***************************************************************************)
(* sorting() of src/warmup2/my402sort.c, the exchange sort the warmup      *)
(* program runs on the list read() has filled with transactions.  It keeps *)
(* the cells where they are and swaps the obj pointers of two cells when   *)
(* the earlier one's transaction has the later time; equal times only      *)
(* print "Duplicate timestamp values".  An object of Objs is a pointer to  *)
(* a transaction, TimeOf its time field.                                   *)
(***************************************************************************)
EXTENDS My402List, Integers

CONSTANT TimeOf

ASSUME TimeOf \in [Objs -> Int]

\* The inner for loop: nextelem runs from the cell after elem to the end,
\* and o is the obj field of every cell as the swaps leave it.
RECURSIVE InnerLoop(_, _, _)
\* Mutant: the swap without temp, elem->obj overwritten first.
MutInnerLoop(elem, nextelem, o) ==
    IF nextelem = NULL THEN o
    ELSE InnerLoop(elem, My402ListNext(nextelem),
                   IF TimeOf[o[elem]] > TimeOf[o[nextelem]]
                   THEN [o EXCEPT ![elem] = o[nextelem], ![nextelem] = o[nextelem]]
                   ELSE o)

InnerLoop(elem, nextelem, o) ==
    IF nextelem = NULL THEN o
    ELSE InnerLoop(elem, My402ListNext(nextelem),
                   IF TimeOf[o[elem]] > TimeOf[o[nextelem]]
                   THEN [o EXCEPT ![elem] = o[nextelem], ![nextelem] = o[elem]]
                   ELSE o)

\* The outer for loop: elem runs from the first cell while it has a next.
RECURSIVE OuterLoop(_, _)
OuterLoop(elem, o) ==
    IF My402ListNext(elem) = NULL THEN o
    ELSE OuterLoop(My402ListNext(elem), InnerLoop(elem, My402ListNext(elem), o))

\* The obj fields after sorting(&mylist), for a list with a first cell.
\* On an empty list My402ListFirst is NULL and the loop condition
\* My402ListNext(mylist, NULL) reads NULL->next: the program crashes.
Sorting == OuterLoop(My402ListFirst, obj)

SortCrashes == My402ListFirst = NULL

\* The transactions in list order once sorting has run.
SortedItems == [i \in 1..Len(Cells) |-> Sorting[Cells[i]]]

\* On every list the program can hold, sorting() leaves the transactions in
\* non-decreasing time order and holds exactly the transactions it was
\* given, each as often as before: the swaps lose or duplicate no pointer.
\* Only the empty list is excluded: there sorting() dereferences NULL.
SortCorrect ==
    ~SortCrashes =>
        /\ \A i, j \in 1..Len(SortedItems) :
               i < j => TimeOf[SortedItems[i]] <= TimeOf[SortedItems[j]]
        /\ ToBag(SortedItems) = ToBag(Items)
=============================================================================
