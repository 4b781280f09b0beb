------------------------------- MODULE KeySet -------------------------------
(***************************************************************************)
(* What a table of breakpoints promises: it is a set of keys.              *)
(***************************************************************************)
CONSTANT Keys

VARIABLE keys

Init == keys = {}

\* Asking for a key, and making the table larger or smaller.
Ask == UNCHANGED keys

Set(k) == keys' = keys \cup {k}

Delete(k) == keys' = keys \ {k}

Free == keys' = {}

Next == Ask \/ (\E k \in Keys : Set(k) \/ Delete(k)) \/ Free

Spec == Init /\ [][Next]_keys
=============================================================================
