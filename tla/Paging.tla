------------------------------- MODULE Paging -------------------------------
(***************************************************************************)
(* The paging arithmetic of the panel (dashboard.go): how a request's page *)
(* number and page size are normalised, and which slice [start, end) of    *)
(* the filtered, sorted entries a page shows.  Positions count from 0, as  *)
(* in the code; page numbers from 1.  The dashboard's pager computes from  *)
(* the same numbers which pages it offers.                                 *)
(***************************************************************************)
EXTENDS Integers

CONSTANTS DefaultPageSize,  \* page size of a request that names none
          MaxPageSize       \* largest page size a request may ask for

ASSUME PageSizeAssumption ==
    /\ DefaultPageSize \in Nat \ {0}
    /\ MaxPageSize \in Nat \ {0}
    /\ DefaultPageSize <= MaxPageSize

\* The page number and page size a query stands for.
NormalPage(page) == IF page < 1 THEN 1 ELSE page

NormalPageSize(size) ==
    CASE size < 1           -> DefaultPageSize
      [] size > MaxPageSize -> MaxPageSize
      [] OTHER              -> size

\* How many pages "total" entries fill; an empty list still has one page.
PageCount(total, size) ==
    LET whole == total \div size
        pages == IF total % size # 0 THEN whole + 1 ELSE whole
    IN  IF pages < 1 THEN 1 ELSE pages

\* A page number past the last page stands for the last page.
ClampPage(total, size, page) ==
    IF page > PageCount(total, size) THEN PageCount(total, size) ELSE page

WindowStart(size, page) == (page - 1) * size

WindowEnd(total, size, page) ==
    IF WindowStart(size, page) + size > total
    THEN total
    ELSE WindowStart(size, page) + size

\* The slice of a page: "page" as clamped, and the positions it covers.
PageWindow(total, size, page) ==
    LET p == ClampPage(total, size, page)
    IN  [page  |-> p,
         start |-> WindowStart(size, p),
         end   |-> WindowEnd(total, size, p)]

\* Page numbers as the pager writes them out: all of at most seven; of more,
\* the first, the last, and those around the current one.
NumberedPages(pages, page) ==
    IF pages <= 7 THEN 1 .. pages
    ELSE {1, pages} \cup {n \in 2 .. pages - 1 : page - 1 <= n /\ n <= page + 1}

\* The pages to which a button of the pager leads (renderPager): those it
\* numbers, the one before and the one after, but not the current one.
OfferedPages(total, size, page) ==
    LET pages == PageCount(total, size)
    IN  IF pages = 1 THEN {}
        ELSE (NumberedPages(pages, page) \ {page})
             \cup {n \in {page - 1} : page > 1}
             \cup {n \in {page + 1} : page < pages}
=============================================================================
