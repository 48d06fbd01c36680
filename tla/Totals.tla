------------------------------- MODULE Totals -------------------------------
(***************************************************************************)
(* The sum of a token-valued function, counted token by token: the amount  *)
(* f[n] held by n is the set of the tokens <<n, 1>>, ..., <<n, f[n]>>, and *)
(* the total is the number of tokens.  Counting a set instead of folding   *)
(* keeps the sum within reach of the library's cardinality theorems.       *)
(***************************************************************************)
EXTENDS Integers, FiniteSets

\* The tokens the function f hands out, each with its holder.
Tokens(f) == UNION {{n} \X (1..f[n]) : n \in DOMAIN f}

\* The sum of f over its whole (finite) domain.
Total(f) == Cardinality(Tokens(f))

\* f and g added (or subtracted) holder by holder.
Plus(f, g) == [n \in DOMAIN f |-> f[n] + g[n]]
Less(f, g) == [n \in DOMAIN f |-> f[n] - g[n]]

\* The function on S that gives v to x and nothing to anybody else.
Only(S, x, v) == [n \in S |-> IF n = x THEN v ELSE 0]
=============================================================================
