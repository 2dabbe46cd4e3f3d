----------------------------- MODULE JsonEvents -----------------------------
(***************************************************************************)
(* The event loader and classifier shared by both analysis scripts: a     *)
(* JSONL line is stripped, skipped when blank, dropped when json.loads     *)
(* rejects it, and otherwise kept; records are then selected by their      *)
(* "event" field.                                                          *)
(*                                                                         *)
(* A decoded JSON object is a TLA+ function from its keys to its values,   *)
(* so that dict.get(k, d) and d[k] keep their meaning: a missing key is a  *)
(* key outside DOMAIN.  A JSON value that is not an object (a number, a    *)
(* list) is the model value Scalar.                                        *)
(***************************************************************************)
EXTENDS Sequences

CONSTANTS
    Blank,        \* a line that is empty after strip()
    Garbage,      \* a line json.loads rejects with JSONDecodeError
    Scalar,       \* a line that is valid JSON but not an object
    None          \* Python None, returned by dict.get for a missing key

\* The lines of a file that the loader keeps, in file order.
Decoded(c) == SelectSeq(c, LAMBDA l : l \notin {Blank, Garbage})

Get(e, k, d) == IF k \in DOMAIN e THEN e[k] ELSE d

\* An optional dict entry: present only when the code's `if` holds.
Opt(c, kv) == IF c THEN kv ELSE [k \in {} |-> None]

OfKind(evs, k) == SelectSeq(evs, LAMBDA e : Get(e, "event", None) = k)

=============================================================================
