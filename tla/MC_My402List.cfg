\* The warmup list under every sequence of library calls, with the exchange
\* sort of my402sort.c checked on every list reached.
CONSTANTS
    c1 = c1
    c2 = c2
    c3 = c3
    c4 = c4
    t1 = t1
    t2 = t2
    t3 = t3
    Anchor = Anchor
    NULL = NULL
    Elems <- MC_Elems
    Objs <- MC_Objs
    TimeOf <- MC_TimeOf

INIT ListInit
NEXT ListNext

INVARIANT TypeOK
INVARIANT ListWellFormed
INVARIANT FindCorrect
INVARIANT SortCorrect
PROPERTY ListRefinement
