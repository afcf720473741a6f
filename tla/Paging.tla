------------------------------- MODULE Paging -------------------------------
(***************************************************************************)
(* getPaginationData, the arithmetic behind every listing, as the code     *)
(* computes it from the number of rows and the page and page size a client *)
(* asked for.                                                              *)
(***************************************************************************)
EXTENDS Integers

AtLeast(x, low)  == IF x < low THEN low ELSE x
AtMost(x, high)  == IF x > high THEN high ELSE x
OrElse(x, other) == IF x = 0 THEN other ELSE x      \* Number(x) || other

\* Math.ceil(n / d)
Ceil(n, d) == (n + d - 1) \div d

SafePageSize(pageSize) == AtLeast(OrElse(pageSize, 10), 1)
TotalPages(totalCount, pageSize) == AtLeast(Ceil(totalCount, SafePageSize(pageSize)), 1)

\* Mutation: the page is not clamped to the last one.
UnclampedPage(totalCount, page, pageSize) == AtLeast(OrElse(page, 1), 1)

SafePage(totalCount, page, pageSize) ==
    AtMost(AtLeast(OrElse(page, 1), 1), TotalPages(totalCount, pageSize))

\* Mutation: the pages are counted from 0.
SkipFromZero(totalCount, page, pageSize) ==
    SafePage(totalCount, page, pageSize) * SafePageSize(pageSize)

Skip(totalCount, page, pageSize) ==
    AtLeast((SafePage(totalCount, page, pageSize) - 1) * SafePageSize(pageSize), 0)

getPaginationData(totalCount, page, pageSize) ==
    [totalItems   |-> totalCount,
     totalPages   |-> TotalPages(totalCount, pageSize),
     safePage     |-> SafePage(totalCount, page, pageSize),
     safePageSize |-> SafePageSize(pageSize),
     skip         |-> Skip(totalCount, page, pageSize)]
=============================================================================
