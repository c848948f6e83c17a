------------------------------- MODULE DictMap -------------------------------
(***************************************************************************)
(* What data_structures.h promises of a dictionary: it holds one value per *)
(* key, the last one put, until the key is removed.                        *)
(***************************************************************************)
CONSTANTS Keys, Values, NoValue

VARIABLE contents   \* per key: its value, or NoValue

Init == contents = [k \in Keys |-> NoValue]

Put(k, v) == contents' = [contents EXCEPT ![k] = v]

Remove(k) == contents' = [contents EXCEPT ![k] = NoValue]

Next == \E k \in Keys : Remove(k) \/ \E v \in Values : Put(k, v)

Spec == Init /\ [][Next]_contents
=============================================================================
