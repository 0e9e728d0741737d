-------------------------- MODULE MCUserDirectory --------------------------
(* Model values for TLC: two MAX users, either or both of them listed.         *)
EXTENDS UserDirectory

CONSTANTS u1, u2, w1, w2

MCIds == {u1, u2}

(* No list, one id, two, and one id written twice.                          *)
MCLists == {<< >>, <<u1>>, <<u1, u2>>, <<u2, u2>>}

MCWorkers == {w1, w2}
=============================================================================
