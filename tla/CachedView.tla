------------------------------ MODULE CachedView ------------------------------
(***************************************************************************)
(* What a cache of answers about a changing table promises: it answers     *)
(* with the truth, or with an excuse, and no answer lives longer than Ttl. *)
(* Only a change of the table or a new answer brings an excuse, and it     *)
(* goes with the answer.  SmeStats implements it.                          *)
(***************************************************************************)
EXTENDS Integers

CONSTANT Ttl

VARIABLES
  truth,   \* what the table would answer
  answer,  \* what the cache does
  life,    \* for how long it still will; not at all when 0
  excused  \* it may be wrong

vars == <<truth, answer, life, excused>>

Init == life = 0 /\ excused = FALSE

\* The table changes; an answer that lives on is excused.
Change ==
  /\ excused' = (life > 0)
  /\ UNCHANGED <<answer, life>>

\* A new answer, the truth unless it is excused from the beginning.
Fill ==
  /\ life' = Ttl
  /\ excused' \in BOOLEAN
  /\ excused' \/ answer' = truth
  /\ UNCHANGED truth

Age ==
  /\ life > 0
  /\ life' = life - 1
  /\ excused' = (excused /\ life' > 0)
  /\ UNCHANGED <<truth, answer>>

\* The answer is dropped.
Drop == life' = 0 /\ excused' = FALSE /\ UNCHANGED truth

Next == Change \/ Fill \/ Age \/ Drop

Spec == Init /\ [][Next]_vars

\* So an answer that is not excused is true.
TrueUnlessExcused == life > 0 /\ ~excused => answer = truth
=============================================================================
