----------------------------- MODULE MCDrivers -----------------------------
(* Instance of Drivers: a boot CPU and one more; the two drivers of the    *)
(* tree, with their priorities, and two more whose masks ignore a bit.     *)
EXTENDS Drivers

s(n) == [len |-> n, hex |-> FALSE]
h(n) == [len |-> n, hex |-> TRUE]

\* A line whose text ends it, one with an empty text, a hexadecimal number.
ModelMessages == {<<s(1), s(2)>>, <<s(1), s(0), s(1)>>, <<s(1), h(2)>>}

ModelDrivers == [serial |-> [match_id |-> {0}, match_mask |-> {0, 1}],
                 ipi |-> [match_id |-> {1}, match_mask |-> {0, 1}],
                 wide |-> [match_id |-> {0, 1}, match_mask |-> {1}],
                 half |-> [match_id |-> {}, match_mask |-> {0}]]
ModelDevices == [serial |-> [match_id |-> {0}, init_priority |-> 10],
                 ipi |-> [match_id |-> {1}, init_priority |-> 10],
                 wide |-> [match_id |-> {0, 1}, init_priority |-> 5],
                 half |-> [match_id |-> {}, init_priority |-> 0]]
============================================================================
