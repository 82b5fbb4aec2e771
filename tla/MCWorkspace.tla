----------------------------- MODULE MCWorkspace -----------------------------
(* Two writers, one place, two graphs of two files; two rebuilds and two     *)
(* changes of the workspace; two keys and an address, a value, the same in   *)
(* quotes, and a value of three lines, which empty the first key and assign  *)
(* to the second.  The file lists the address between the keys, a request    *)
(* has the second key first.                                                 *)
EXTENDS Workspace, TLC

CONSTANTS w1, w2, p1, a1, a2, f1, f2, k1, k2, url, x, q, xxx, r1, r2

MCRead == x :> x @@ q :> x @@ xxx :> q
MCBare == [v \in {x, q, xxx} |-> x]
MCFurther == [v \in {x, q, xxx} |->
  [n \in {k1, k2, url} |-> CASE v = xxx /\ n = k1 -> None
                             [] v = xxx /\ n = k2 -> x
                             [] OTHER -> Same]]
MCFit == ({k1, k2} \X {x, q, xxx}) \cup ({url} \X {x, xxx})
MCAsked == k2 :> 1 @@ k1 :> 2 @@ url :> 3
MCListed == k1 :> 1 @@ url :> 2 @@ k2 :> 3

\* Files, settings and index share nothing but a restart: one of them at a
\* time is away from where it began.
OneAtATime ==
  LET away ==
        <<out # [k \in Kind \X Place |-> {}] \/ lock # {} \/ \E w \in Writer : job[w] # NoJob,
          dotenv # [n \in Name |-> None] \/ env # dotenv \/ behind # {},
          edition # 0 \/ status # "idle" \/ table.version # 0 \/ broken>>
  IN \A i, j \in 1 .. 3 : away[i] /\ away[j] => i = j

Symmetry == Permutations({w1, w2}) \cup Permutations({a1, a2}) \cup Permutations({f1, f2})
              \cup Permutations({r1, r2})
=============================================================================
