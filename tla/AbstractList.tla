---------------------------- MODULE AbstractList ----------------------------
(***************************************************************************)
(* What the warmup list library (src/warmup2/my402list.c) promises its     *)
(* callers: a sequence of members, each an object pointer together with    *)
(* the handle (the My402ListElem * the caller gets back from First, Next,  *)
(* Find...) by which it names the member in later calls.  An object goes  *)
(* in at the end, at the front, or right after or right before a named    *)
(* member; a named member can be taken out; the whole list can be emptied. *)
(* The anchor and the links are invisible.                                 *)
(***************************************************************************)
EXTENDS Naturals, Sequences, SequencesExt

CONSTANTS Handles, Objs, NoHandle

VARIABLES
    items,  \* the members, in order
    call    \* which side of which member the last call named

vars == <<items, call>>

TypeOK ==
    /\ items \in Seq([h : Handles, o : Objs])
    /\ call \in [side : {"none", "after", "before", "drop", "clear"}, at : Handles \cup {NoHandle}]

InUse == {items[i].h : i \in 1..Len(items)}

Pos(e) == CHOOSE i \in 1..Len(items) : items[i].h = e

Init == items = <<>> /\ call = [side |-> "none", at |-> NoHandle]

\* A fresh handle h for object o becomes the i-th member.
Put(h, o, i) == items' = InsertAt(items, i, [h |-> h, o |-> o])

\* After e, or at the end when e is NoHandle.
AddAfter(h, o, e) ==
    /\ Put(h, o, IF e = NoHandle THEN Len(items) + 1 ELSE Pos(e) + 1)
    /\ call' = [side |-> "after", at |-> e]

\* Before e, or at the front when e is NoHandle.
AddBefore(h, o, e) ==
    /\ Put(h, o, IF e = NoHandle THEN 1 ELSE Pos(e))
    /\ call' = [side |-> "before", at |-> e]

Drop(e) ==
    /\ items' = RemoveAt(items, Pos(e))
    /\ call' = [side |-> "drop", at |-> e]

Clear ==
    /\ items' = <<>>
    /\ call' = [side |-> "clear", at |-> NoHandle]

Next ==
    \/ \E h \in Handles \ InUse, o \in Objs, e \in InUse \cup {NoHandle} :
           AddAfter(h, o, e) \/ AddBefore(h, o, e)
    \/ \E e \in InUse : Drop(e)
    \/ Clear

Spec == Init /\ [][Next]_vars
=============================================================================
