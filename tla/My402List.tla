----------------------------- MODULE My402List -----------------------------
(***************************************************************************)
(* The circular doubly linked list of src/warmup2/my402list.c at the level *)
(* of its pointers.  The list is an anchor element whose next and prev     *)
(* close the ring; every member is a heap cell (My402ListElem) allocated   *)
(* by malloc in the insert calls and freed by the unlink calls.  A cell is *)
(* a model value of Elems, the anchor the model value Anchor, the C NULL   *)
(* the model value NULL, an object pointer (void *obj) a value of Objs.    *)
(* malloc returning NULL is a call that returns FALSE and changes nothing: *)
(* it is the case where every cell of Elems is in use.                     *)
(***************************************************************************)
EXTENDS Naturals, Sequences, SequencesExt, Functions, FiniteSets

CONSTANTS Elems, Objs, Anchor, NULL

ASSUME Anchor \notin Elems /\ NULL \notin Elems \cup Objs \cup {Anchor}

Nodes == Elems \cup {Anchor}

VARIABLES
    next,   \* next field of every cell and of the anchor
    prev,   \* prev field
    obj,    \* obj field
    num,    \* list->num_members
    heap,   \* the cells malloc has handed out and free has not taken back
    call    \* history: the last call, as the side of the member it named

vars == <<next, prev, obj, num, heap, call>>

Called(side, e) == call' = [side |-> side, at |-> e]

(***************************************************************************)
(* Reading the list.  Cells is the ring walked from anchor.next, stopped   *)
(* at the anchor or after more steps than there are cells.                 *)
(***************************************************************************)
RECURSIVE WalkFrom(_, _)
WalkFrom(c, k) ==
    IF c \notin Elems \/ k = 0 THEN <<>> ELSE <<c>> \o WalkFrom(next[c], k - 1)

Cells == WalkFrom(next[Anchor], Cardinality(Elems) + 1)

\* The objects the list holds, in order: what AbstractList calls items.
Items == [i \in 1..Len(Cells) |-> obj[Cells[i]]]

My402ListLength == num

My402ListEmpty == num = 0

My402ListFirst == IF num = 0 THEN NULL ELSE next[Anchor]

My402ListLast == IF num = 0 THEN NULL ELSE prev[Anchor]

My402ListNext(elem) == IF next[elem] = Anchor THEN NULL ELSE next[elem]

My402ListPrev(elem) == IF prev[elem] = Anchor THEN NULL ELSE prev[elem]

\* The loop of My402ListFind: length steps along next from the first cell.
RECURSIVE FindLoop(_, _, _)
\* Mutant: the loop stops with one member left to look at.
MutFindLoop(o, elem, length) ==
    IF length <= 1 THEN NULL
    ELSE IF obj[elem] = o THEN elem
    ELSE FindLoop(o, next[elem], length - 1)

FindLoop(o, elem, length) ==
    IF length = 0 THEN NULL
    ELSE IF obj[elem] = o THEN elem
    ELSE FindLoop(o, next[elem], length - 1)

My402ListFind(o) == FindLoop(o, My402ListFirst, My402ListLength)

(***************************************************************************)
(* The calls that change the list.                                         *)
(***************************************************************************)
\* My402ListInit: an empty ring through the anchor; the cells are unused.
My402ListInit ==
    /\ next = [c \in Nodes |-> IF c = Anchor THEN Anchor ELSE NULL]
    /\ prev = [c \in Nodes |-> IF c = Anchor THEN Anchor ELSE NULL]
    /\ obj = [c \in Nodes |-> NULL]
    /\ num = 0
    /\ heap = {}
    /\ call = [side |-> "none", at |-> NULL]

\* What every insert does to cell n, fresh from malloc, and the count.
Link(n, o) ==
    /\ heap' = heap \cup {n}
    /\ num' = num + 1
    /\ obj' = [obj EXCEPT ![n] = o]

My402ListAppend(o) ==
    \E n \in Elems \ heap :
        /\ Link(n, o)
        /\ Called("after", NULL)
        /\ next' = [next EXCEPT ![n] = Anchor, ![prev[Anchor]] = n]
        /\ prev' = [prev EXCEPT ![n] = prev[Anchor], ![Anchor] = n]

My402ListPrepend(o) ==
    \E n \in Elems \ heap :
        /\ Link(n, o)
        /\ Called("before", NULL)
        /\ next' = [next EXCEPT ![n] = next[Anchor], ![Anchor] = n]
        /\ prev' = [prev EXCEPT ![n] = Anchor, ![next[Anchor]] = n]

\* Mutant: the new cell is linked on the wrong side of elem, as the body
\* of My402ListInsertBefore would link it.
MutInsertAfterWrongSide(o, elem) ==
    IF elem = NULL THEN My402ListAppend(o)
    ELSE \E n \in Elems \ heap :
        LET p == prev[elem] IN
        /\ Link(n, o)
        /\ Called("after", elem)
        /\ next' = [next EXCEPT ![n] = elem, ![p] = n]
        /\ prev' = [prev EXCEPT ![n] = p, ![elem] = n]

\* newnode->prev is elem->next->prev, read before elem->next->prev changes.
My402ListInsertAfter(o, elem) ==
    IF elem = NULL THEN My402ListAppend(o)
    ELSE \E n \in Elems \ heap :
        LET s == next[elem] IN
        /\ Link(n, o)
        /\ Called("after", elem)
        /\ next' = [next EXCEPT ![n] = s, ![elem] = n]
        /\ prev' = [prev EXCEPT ![n] = prev[s], ![s] = n]

\* Mutant: elem->prev->next is not pointed at the new cell.
MutInsertBeforeNoLink(o, elem) ==
    IF elem = NULL THEN My402ListPrepend(o)
    ELSE \E n \in Elems \ heap :
        LET p == prev[elem] IN
        /\ Link(n, o)
        /\ Called("before", elem)
        /\ next' = [next EXCEPT ![n] = elem]
        /\ prev' = [prev EXCEPT ![n] = p, ![elem] = n]

My402ListInsertBefore(o, elem) ==
    IF elem = NULL THEN My402ListPrepend(o)
    ELSE \E n \in Elems \ heap :
        LET p == prev[elem] IN
        /\ Link(n, o)
        /\ Called("before", elem)
        /\ next' = [next EXCEPT ![n] = elem, ![p] = n]
        /\ prev' = [prev EXCEPT ![n] = p, ![elem] = n]

\* Mutant: num_members is not decremented.
MutUnlinkKeepCount(elem) ==
    LET p == prev[elem]
        s == next[elem]
    IN  /\ next' = [next EXCEPT ![p] = s, ![elem] = NULL]
        /\ prev' = [prev EXCEPT ![s] = p, ![elem] = NULL]
        /\ obj' = [obj EXCEPT ![elem] = NULL]
        /\ heap' = heap \ {elem}
        /\ num' = num
        /\ Called("drop", elem)

\* The neighbours are joined, the cell's fields cleared and the cell freed.
My402ListUnlink(elem) ==
    LET p == prev[elem]
        s == next[elem]
    IN  /\ next' = [next EXCEPT ![p] = s, ![elem] = NULL]
        /\ prev' = [prev EXCEPT ![s] = p, ![elem] = NULL]
        /\ obj' = [obj EXCEPT ![elem] = NULL]
        /\ heap' = heap \ {elem}
        /\ num' = num - 1
        /\ Called("drop", elem)

\* The loop of My402ListUnlinkAll: temp is read from elem->next before
\* elem is freed and advanced after elem has become temp.  Its result is
\* the set of cells the loop frees.
RECURSIVE FreeLoop(_, _, _)
FreeLoop(elem, temp, freed) ==
    IF elem = Anchor THEN freed
    ELSE FreeLoop(temp, next[temp], freed \cup {elem})

\* Every freed cell has its fields cleared; My402ListInit then resets the
\* anchor and num_members.
My402ListUnlinkAll ==
    LET freed == FreeLoop(next[Anchor], next[next[Anchor]], {}) IN
    /\ next' = [c \in Nodes |-> IF c = Anchor THEN Anchor
                                ELSE IF c \in freed THEN NULL ELSE next[c]]
    /\ prev' = [c \in Nodes |-> IF c = Anchor THEN Anchor
                                ELSE IF c \in freed THEN NULL ELSE prev[c]]
    /\ obj' = [c \in Nodes |-> IF c = Anchor \/ c \in freed THEN NULL ELSE obj[c]]
    /\ heap' = heap \ freed
    /\ num' = 0
    /\ Called("clear", NULL)

(***************************************************************************)
(* A client may call any function on any member of the list it holds.     *)
(***************************************************************************)
ListInit == My402ListInit

ListNext ==
    \/ \E o \in Objs : My402ListAppend(o) \/ My402ListPrepend(o)
    \/ \E o \in Objs, e \in heap \cup {NULL} :
           My402ListInsertAfter(o, e) \/ My402ListInsertBefore(o, e)
    \/ \E e \in heap : My402ListUnlink(e)
    \/ My402ListUnlinkAll

ListSpec == ListInit /\ [][ListNext]_vars

(***************************************************************************)
(* Properties.                                                             *)
(***************************************************************************)
TypeOK ==
    /\ next \in [Nodes -> Nodes \cup {NULL}]
    /\ prev \in [Nodes -> Nodes \cup {NULL}]
    /\ obj \in [Nodes -> Objs \cup {NULL}]
    /\ num \in 0..Cardinality(Elems)
    /\ heap \subseteq Elems
    /\ call \in [side : {"none", "after", "before", "drop", "clear"}, at : Elems \cup {NULL}]

\* After any sequence of calls the pointers form one ring through the
\* anchor: following next from the anchor meets every allocated cell once
\* and comes back, prev undoes next along the ring, num_members counts the
\* ring, and a freed cell keeps no pointer (Unlink and UnlinkAll clear them).
ListWellFormed ==
    LET ring == <<Anchor>> \o Cells
        succ(i) == ring[(i % Len(ring)) + 1]
    IN  /\ IsInjective(Cells)
        /\ Range(Cells) = heap
        /\ Len(Cells) = num
        /\ \A i \in 1..Len(ring) : next[ring[i]] = succ(i) /\ prev[succ(i)] = ring[i]
        /\ \A c \in Elems \ heap : next[c] = NULL /\ prev[c] = NULL /\ obj[c] = NULL

\* My402ListFind returns the first cell, from the front, holding o, and
\* NULL when no member holds o.
FindCorrect ==
    \A o \in Objs :
        LET at == {i \in 1..Len(Items) : Items[i] = o} IN
        My402ListFind(o) = IF at = {} THEN NULL
                           ELSE Cells[CHOOSE i \in at : \A j \in at : i <= j]

\* Every call does to the members what AbstractList says: an insert puts
\* the new cell exactly after or before the member it names (or at the
\* end or front for NULL), an unlink takes out that member and no other,
\* unlink-all empties the list.  A cell is the member's handle.
Members == [i \in 1..Len(Cells) |-> [h |-> Cells[i], o |-> obj[Cells[i]]]]

Abs == INSTANCE AbstractList WITH Handles <- Elems, NoHandle <- NULL, items <- Members, call <- call

ListRefinement == Abs!Spec
=============================================================================
