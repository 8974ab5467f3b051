----------------------------- MODULE Dictionary -----------------------------
(***************************************************************************)
(* What hashmap.h promises: a map from keys to values.  Setting and        *)
(* removing take effect at one instant, and a get answers with the value   *)
(* the key has at one instant, or with NULL.  Nothing is said of slots,    *)
(* probing or capacity.                                                    *)
(***************************************************************************)
CONSTANTS Keys, Values,
          NoValue,  \* NULL, the answer for a key that is not there
          Nothing   \* no answer is being given

VARIABLES dict,  \* the value of each key
          found  \* the answer of the get that is returning

Set(k, v) ==
  /\ dict' = [dict EXCEPT ![k] = v]
  /\ UNCHANGED found

Remove(k) ==
  /\ dict' = [dict EXCEPT ![k] = NoValue]
  /\ UNCHANGED found

Get(k) ==
  /\ found = Nothing
  /\ found' = [key |-> k, value |-> dict[k]]
  /\ UNCHANGED dict

Return ==
  /\ found # Nothing
  /\ found' = Nothing
  /\ UNCHANGED dict

Init ==
  /\ dict = [k \in Keys |-> NoValue]
  /\ found = Nothing

Next ==
  \/ \E k \in Keys : Remove(k) \/ Get(k) \/ \E v \in Values : Set(k, v)
  \/ Return

Spec == Init /\ [][Next]_<<dict, found>>
=============================================================================
