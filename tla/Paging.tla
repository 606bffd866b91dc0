-------------------------------- MODULE Paging --------------------------------
(***************************************************************************)
(* Pages of a list (src/result/result.go): NormalizePage and Offset.  An   *)
(* int of the code wraps around at half, which is 2^63 on the platforms    *)
(* the services run on.                                                    *)
(***************************************************************************)
EXTENDS Integers

DefaultPageIndex == 1
DefaultPageSize  == 10
MaxPageSize      == 100

Wrap(n, half) == ((n + half) % (2 * half)) - half

Index(pageIndex) == IF pageIndex < 1 THEN DefaultPageIndex ELSE pageIndex
Size(pageSize)   == IF pageSize < 1 THEN DefaultPageSize ELSE pageSize

NormalizePage(pageIndex, pageSize) ==
  <<Index(pageIndex), IF Size(pageSize) > MaxPageSize THEN MaxPageSize ELSE Size(pageSize)>>

\* The SQL offset of a page.  Nothing bounds the index from above.
Offset(pageIndex, pageSize, half) ==
  Wrap((Index(pageIndex) - 1) * Size(pageSize), half)
=============================================================================
