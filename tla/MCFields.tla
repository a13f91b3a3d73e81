------------------------------- MODULE MCFields --------------------------------
(* One input, the initial term, and the end date it comes to: two dates.     *)
EXTENDS Fields, TLC

CONSTANTS term, d1, d2

Dates == [v \in [Inputs -> Values] |-> v[term]]
PersonsSymmetry == Permutations(Persons)

(* States that differ only in what no later step reads are one: who wrote    *)
(* last, who touched a value that is not a person's or an amendment's, and   *)
(* what a run found once something else was written.                         *)
Seen(r) ==
  [r EXCEPT !.by = IF r.source \in {"user", "amendment"} THEN @ ELSE Nobody,
            !.from = IF r.source = "amendment" THEN @ ELSE Nobody]
View ==
  <<[f \in Fields |-> Seen(row[f])],
    [k \in 1..Len(runs) |-> IF since = k THEN runs[k] ELSE [runs[k] EXCEPT !.was = 0]],
    asked, renewal, since, writes>>
=============================================================================
