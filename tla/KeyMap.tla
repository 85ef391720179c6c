-------------------------------- MODULE KeyMap --------------------------------
(***************************************************************************)
(* What the key store promises (vt-crypto/src/key_provider.rs): a set of   *)
(* references that hold a key, to which one call adds one reference or     *)
(* takes one away.  The other modules use the key store as this.           *)
(***************************************************************************)
CONSTANT Key
VARIABLE keys

Init == keys \subseteq Key
StoreKey(k) == keys' = keys \cup {k}
DeleteKey(k) == keys' = keys \ {k}
Next == \E k \in Key : StoreKey(k) \/ DeleteKey(k)
Spec == Init /\ [][Next]_keys
===============================================================================
