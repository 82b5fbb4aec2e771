---------------------------- MODULE MCTimeTravel ----------------------------
(* One run with forks of forks: three checkpoints, three ids of forks, at     *)
(* most one fork per run and a depth of two, and two requests at a time; a   *)
(* state near its limits, one that is past them when it is redacted, and     *)
(* reducers of every operation, some of which hide a secret in a value.      *)
EXTENDS TimeTravel, TLC

CONSTANTS r1, f1, f2, f3, k1, k2, k3, c1, c2, x, y, z

Of(kind, n, size, change) == [kind |-> kind, n |-> n, size |-> size, change |-> change]
Number(n) == Of("int", n, 1, 0)
Words(size, change) == Of("text", 0, size, change)

\* z is the secret key.
MCState(entries, secret) ==
  [t \in Target |-> CASE t = "iteration" -> Number(1)
                      [] t = "messages" -> Of("dicts", 0, 0, 0)
                      [] t = x -> entries
                      [] t = z -> secret
                      [] OTHER -> Absent]

MCStates ==
  { MCState(Of("dict", 1, 1, 0), Number(5)),
    MCState(Of("dict", 1, 3, 1), Words(1, 0)) }

Reduce(op, target, value) == [op |-> op, target |-> target, value |-> value]

MCRequested ==
  { <<Reduce("SET", y, Words(1, 0))>>,
    <<Reduce("SET", x, Words(1, 1)), Reduce("SET", z, Number(7))>>,
    <<Reduce("SET", "iteration", Number(0)), Reduce("INCREMENT", "iteration", Number(-1))>>,
    <<Reduce("APPEND_LIST", "messages", Of("dict", 1, 1, 1))>>,
    <<Reduce("APPEND_LIST", "messages", Words(1, 0))>>,
    <<Reduce("MERGE_DICT", x, Of("dict", 0, 1, 0)), Reduce("MERGE_DICT", x, Of("dict", 1, 1, 0))>> }

Symmetry == Permutations({f1, f2, f3}) \cup Permutations({k1, k2, k3})
              \cup Permutations({c1, c2})
=============================================================================
