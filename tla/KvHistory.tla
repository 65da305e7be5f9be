------------------------------ MODULE KvHistory ------------------------------
(* What a key holds after a sequence of entries, without going through them. *)
EXTENDS Naturals

\* The answer to a Get of a key that the map does not have.
Undefined == "undefined"

\* The entries among the first k of s that are about a key.
WritesTo(s, k, key) == {i \in 1..k : s[i].value.key = key}

\* The last of them decides.
ValueAfter(s, k, key) ==
  IF WritesTo(s, k, key) = {} THEN Undefined
  ELSE LET last == CHOOSE i \in WritesTo(s, k, key) :
                     \A j \in WritesTo(s, k, key) : j <= i
       IN  IF s[last].value.op = "Set" THEN s[last].value.text ELSE Undefined
=============================================================================
