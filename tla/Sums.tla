-------------------------------- MODULE Sums --------------------------------
(***************************************************************************)
(* The aggregate the code asks the database for, SELECT SUM(column) over a  *)
(* set of rows (Prisma's aggregate({ _sum })): f maps a row to its column,  *)
(* S is the set of rows of the WHERE clause.  Over no rows it is 0, which   *)
(* is what the code's "?? 0" makes of SQL's NULL.                          *)
(***************************************************************************)
EXTENDS Integers

SumOver(f, S) ==
  LET sum[T \in SUBSET S] ==
        IF T = {} THEN 0
        ELSE LET x == CHOOSE y \in T : TRUE
             IN  f[x] + sum[T \ {x}]
  IN  sum[S]
=============================================================================
