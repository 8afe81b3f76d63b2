------------------------- MODULE MCHttpTransaction --------------------------
(* HttpTransaction for TLC: requests with and without key, body and length.  *)
EXTENDS HttpTransaction

CONSTANTS t1, t2

Kind(to, key, length, json, args, full) ==
  [to |-> to, key |-> key, length |-> length, json |-> json, args |-> args, full |-> full]
Texts == {"none", "later", "good"}
MCKinds ==
  {Kind("variable", k, 2, j, FALSE, f) : k \in BOOLEAN, j \in Texts, f \in BOOLEAN}
  \cup {Kind("set", k, n, j, a, TRUE) : k \in BOOLEAN, n \in {0, 2}, j \in Texts, a \in BOOLEAN}
  \cup {Kind("blockly", k, 1, j, FALSE, TRUE) : k \in BOOLEAN, j \in Texts \cup {"first"}}
  \cup {Kind("variable", TRUE, 0, "good", TRUE, f) : f \in BOOLEAN}
  \cup {Kind("page", k, -1, "good", TRUE, TRUE) : k \in BOOLEAN}
  \cup {Kind("nowhere", TRUE, -1, "good", TRUE, TRUE)}
=============================================================================
