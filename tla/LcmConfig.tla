----------------------------- MODULE LcmConfig ------------------------------
(* The part of the configuration that both views of the LCM engine, one     *)
(* conversation in detail (LcmContext) and the store across conversations   *)
(* (LcmStore), go by: section context.lcm of src/config.rs.                 *)
EXTENDS Integers

CONSTANTS FreshTail,      \* context.lcm.fresh_tail_count
          MinFanout       \* context.lcm.min_condensed_fanout

(* config.rs refuses zero for the tail, and a fanout < 2. *)
ASSUME LcmConfigAssumption ==
    /\ FreshTail \in Nat \ {0}
    /\ MinFanout \in Nat \ {0, 1}
=============================================================================
