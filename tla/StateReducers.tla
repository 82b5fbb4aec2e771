---------------------------- MODULE StateReducers ---------------------------
(***************************************************************************)
(* The agent state and the reducers that change it: an operation on one    *)
(* target, applied to a copy, and kept only if the whole state is legal    *)
(* then; and the redaction of the secrets in a state.                      *)
(*                                                                         *)
(* A state is a value per target: the iteration and the messages, which    *)
(* every state has, and the keys of custom_state and metadata, which may   *)
(* be absent.  The other fields are like these.  Of a list or a dictionary *)
(* the length is kept, of an integer its value, of each value its size in  *)
(* bytes and by how much redaction changes that size: it grows by a short  *)
(* secret and shrinks by a long text.                                      *)
(***************************************************************************)
EXTENDS Integers, Sequences, FiniteSetsExt

CONSTANTS
  Key,             \* keys of custom_state and metadata
  SecretKey,       \* those whose values are secret, like "token"
  MaxIterations,   \* CAPS.max_loop_iterations
  MaxItems,        \* the longest list
  MaxEntries,      \* the largest dictionary
  MaxText,         \* the longest text
  MaxSize,         \* CAPS.max_state_bytes
  MarkerSize       \* the size of "[REDACTED]"

ASSUME StateAssumption ==
  /\ {MaxIterations, MaxItems, MaxEntries, MaxText, MaxSize, MarkerSize} \subseteq Nat
  /\ MarkerSize =< MaxText
  /\ SecretKey \subseteq Key /\ Key \cap {"iteration", "messages"} = {}

Target == {"iteration", "messages"} \cup Key

\* "dicts" is a list of dictionaries.  A text is cut when it is redacted.
Kind == {"int", "dicts", "list", "dict", "text"}
Value ==
  {v \in [kind : Kind, n : Int, size : Nat, change : Int] :
     v.size + v.change >= 0 /\ (v.kind = "text" => v.size + v.change =< MaxText)}

Absent == [kind |-> "absent", n |-> 0, size |-> 0, change |-> 0]
Marker == [kind |-> "text", n |-> 0, size |-> MarkerSize, change |-> 0]

State == [Target -> Value \cup {Absent}]

Size(s) == MapThenSumSet(LAMBDA t : s[t].size, Target)

\* What the validation of the fields accepts.
FieldsFit(s) ==
  /\ s["iteration"].kind = "int" /\ s["iteration"].n \in 0 .. MaxIterations
  /\ s["messages"].kind = "dicts"
  /\ \A t \in Target :
       /\ s[t].kind \in {"dicts", "list"} => s[t].n =< MaxItems
       /\ s[t].kind = "dict" => s[t].n =< MaxEntries
       /\ s[t].kind = "text" => s[t].size =< MaxText

\* What the validation of the whole state accepts.
Legal(s) == FieldsFit(s) /\ Size(s) =< MaxSize

Op == {"SET", "APPEND_LIST", "MERGE_DICT", "INCREMENT"}
Reducer == [op : Op, target : Target, value : Value]

Rejected == [t \in {} |-> Absent]

\* The operation on the current value fits it.
Fits(r, current) ==
  CASE r.op = "SET" -> TRUE
    [] r.op = "APPEND_LIST" -> current.kind \in {"dicts", "list"}
    [] r.op = "MERGE_DICT" -> current.kind = "dict" /\ r.value.kind = "dict"
    [] r.op = "INCREMENT" -> current.kind = "int" /\ r.value.kind = "int"

Joined(u, v, kind, n) ==
  [kind |-> kind, n |-> n, size |-> u.size + v.size, change |-> u.change + v.change]

\* The new value; a merge is one of entries that are not there yet, and a number
\* keeps its size.
Result(r, current) ==
  CASE r.op = "SET" -> r.value
    [] r.op = "APPEND_LIST" ->
         Joined(current, r.value,
                IF r.value.kind = "dict" THEN current.kind ELSE "list", current.n + 1)
    [] r.op = "MERGE_DICT" -> Joined(current, r.value, "dict", current.n + r.value.n)
    [] r.op = "INCREMENT" -> [current EXCEPT !.n = @ + r.value.n]

\* Mutant: the copy is not validated.
ApplyUnvalidated(s, r) ==
  LET current == s[r.target] IN
  IF current = Absent \/ ~Fits(r, current) THEN Rejected
  ELSE [s EXCEPT ![r.target] = Result(r, current)]

\* apply_reducer.  It reads the target before it knows the operation, so that
\* not even SET gets past a key that is not there.
Apply(s, r) ==
  LET current == s[r.target]
      candidate == [s EXCEPT ![r.target] = Result(r, current)]
  IN IF current # Absent /\ Fits(r, current) /\ Legal(candidate)
       THEN candidate ELSE Rejected

\* All the reducers of a request, or none.
Applied(s, reducers) ==
  LET after[i \in 0 .. Len(reducers)] ==
        IF i = 0 THEN s
        ELSE IF after[i - 1] = Rejected THEN Rejected
        ELSE Apply(after[i - 1], reducers[i])
  IN after[Len(reducers)]

\* A value without its secrets.
Clean(v) == [kind |-> v.kind, n |-> v.n, size |-> v.size + v.change, change |-> 0]

\* redact_payload: the value of a secret key becomes the marker, and secrets
\* within the other values do.  What is cut of a list or a dictionary is more
\* than a legal state holds.
Redacted(s) ==
  [t \in Target |->
     IF s[t] = Absent THEN Absent
     ELSE IF t \in SecretKey THEN Marker
     ELSE Clean(s[t])]
=============================================================================
