-------------------------------- MODULE Sums --------------------------------
(***************************************************************************)
(* Sums and selections, as recursive functions that can be reasoned about. *)
(***************************************************************************)
EXTENDS Integers, Sequences, FiniteSetsExt

(* The sum of the values of a function over a finite set of its arguments *)
SumOver(f, S) == MapThenSumSet(LAMBDA x : f[x], S)

(* The elements of s that are in S, in their order *)
Only(s, S) ==
  LET upTo[n \in 0 .. Len(s)] ==
        IF n = 0 THEN <<>>
        ELSE IF s[n] \in S THEN Append(upTo[n - 1], s[n]) ELSE upTo[n - 1]
  IN upTo[Len(s)]
=============================================================================
