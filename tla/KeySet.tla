------------------------------- MODULE KeySet -------------------------------
(***************************************************************************)
(* What the key store promises its callers (key_store.h): a bounded set of *)
(* authorized keys that changes by one whole key at a time and, because it *)
(* is persistent, is not changed by losing power or by booting.            *)
(***************************************************************************)
EXTENDS Integers, FiniteSets

CONSTANTS Keys, KEY_MAX

VARIABLE authorized

Init == authorized = {}

Add(k) ==
    /\ k \notin authorized
    /\ Cardinality(authorized) < KEY_MAX
    /\ authorized' = authorized \cup {k}

Revoke(k) ==
    /\ k \in authorized
    /\ authorized' = authorized \ {k}

Next == \E k \in Keys : Add(k) \/ Revoke(k)

Spec == Init /\ [][Next]_authorized

=============================================================================
