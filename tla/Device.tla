------------------------------- MODULE Device -------------------------------
(***************************************************************************)
(* The device framework, kernel/device.c: a registry of drivers and one of *)
(* devices, matching by masked identifier, and initialisation in priority  *)
(* order.  The boot CPU calls it.  A 16-bit identifier is the set of its   *)
(* bits.  What a probe or init callback answers is left open, but for the  *)
(* drivers of the tree: ipi accepts and initialises always, serial accepts *)
(* always and fails to initialise a device without private data.           *)
(***************************************************************************)
EXTENDS Integers, Sequences, SequencesExt

CONSTANTS
    Drivers,      \* driver -> [match_id, match_mask]
    Devices,      \* device -> [match_id, init_priority]
    MAX_DEVICES   \* 32 in the kernel

Driver == DOMAIN Drivers
Device == DOMAIN Devices
NoDriver == "NULL"
InTree == {"serial", "ipi"}  \* the drivers of this source tree
DeviceState == {"UNINITIALIZED", "PROBED", "INITIALIZED", "FAILED"}

ASSUME DeviceAssumption ==
    MAX_DEVICES \in Nat /\ InTree \subseteq Driver \cap Device

VARIABLES
    driver_list, device_list,  \* the registries, front first
    dev,                       \* device -> [state, bound_driver, driver_data]
    todo,                      \* devices_to_init that device_init_all has left
    done                       \* history: those it has initialised, in order

devVars == <<driver_list, device_list, dev, todo, done>>

\* Only com1_device is defined with private data.
DevInit ==
    /\ driver_list = << >> /\ device_list = << >>
    /\ dev = [d \in Device |-> [state |-> "UNINITIALIZED", bound_driver |-> NoDriver,
                                driver_data |-> d = "serial"]]
    /\ todo = << >> /\ done = << >>

(* driver_register: to the front of the list.  A driver registers once. *)
driver_register(r) ==
    /\ driver_list' = <<r>> \o driver_list
    /\ UNCHANGED <<todo, done>>

\* device_register: the new state, or the refusal of a full table.
Full == Len(device_list) >= MAX_DEVICES
Registered == [state |-> "UNINITIALIZED", bound_driver |-> NoDriver, driver_data |-> FALSE]

device_register(d) ==
    IF Full
    THEN UNCHANGED <<device_list, dev>>
    ELSE /\ device_list' = <<d>> \o device_list
         /\ dev' = [dev EXCEPT ![d] = Registered]

\* serial_driver_init, ipi_driver_init and the like: both, in this order.
driver_init(r) ==
    /\ todo = << >> /\ ~Contains(driver_list, r)
    /\ driver_register(r) /\ device_register(r)

Matches(r, d) ==
    Devices[d].match_id \cap Drivers[r].match_mask
        = Drivers[r].match_id \cap Drivers[r].match_mask

\* A probe callback may refuse; those of the tree never do.
MayRefuse == {p \in (Driver \ InTree) \X Device : Matches(p[1], p[2])}
Probes(refused, r, d) == Matches(r, d) /\ <<r, d>> \notin refused

(* device_probe_all: the first driver of the list that accepts is bound. *)
device_probe_all ==
    /\ todo = << >>
    /\ \E refused \in SUBSET MayRefuse :
       LET Hits(d) == SelectSeq(driver_list, LAMBDA r : Probes(refused, r, d)) IN
       dev' = [d \in Device |->
                 IF Contains(device_list, d) /\ Hits(d) # << >>
                 THEN [dev[d] EXCEPT !.state = "PROBED", !.bound_driver = Head(Hits(d))]
                 ELSE dev[d]]
    /\ UNCHANGED <<driver_list, device_list, todo, done>>

----------------------------------------------------------------------------
Priority(d) == Devices[d].init_priority

\* The pairs that the two loops of the bubble sort compare, in order.
Passes(n) == FlattenSeq([i \in 1..n |-> [j \in 1..(n - i) |-> j]])

Swap(s, j) == [s EXCEPT ![j] = s[j + 1], ![j + 1] = s[j]]

\* Mutant: devices of equal priority are exchanged.
Compare_equal(s, j) == IF Priority(s[j]) >= Priority(s[j + 1]) THEN Swap(s, j) ELSE s
Compare(s, j) == IF Priority(s[j]) > Priority(s[j + 1]) THEN Swap(s, j) ELSE s

BubbleSort(s) == FoldLeft(Compare, s, Passes(Len(s)))

\* Phase 1 of device_init_all.
Probed == SelectSeq(device_list,
            LAMBDA d : dev[d].state = "PROBED" /\ dev[d].bound_driver # NoDriver)

(* device_init_all: collect and sort. *)
device_init_all ==
    /\ todo = << >>
    /\ todo' = BubbleSort(Probed) /\ done' = << >>
    /\ UNCHANGED <<driver_list, device_list, dev>>

\* The init callbacks.
InitResults(r, d) ==
    CASE r = "serial" -> {IF dev[d].driver_data THEN "INITIALIZED" ELSE "FAILED"}
      [] r = "ipi" -> {"INITIALIZED"}
      [] OTHER -> {"INITIALIZED", "FAILED"}

(* One iteration of phase 3. *)
InitDevice ==
    /\ todo # << >>
    /\ LET d == Head(todo) IN
       /\ \E s \in InitResults(dev[d].bound_driver, d) :
             dev' = [dev EXCEPT ![d].state = s]
       /\ done' = Append(done, d)
    /\ todo' = Tail(todo)
    /\ UNCHANGED <<driver_list, device_list>>

----------------------------------------------------------------------------
\* Position of a device in the registry.
Place(d) == CHOOSE n \in 1..Len(device_list) : device_list[n] = d

(***************************************************************************)
(* device_init_all initialises the probed devices "in priority order"       *)
(* (kernel/device.c:173), each of them once: the order is that of the       *)
(* priorities, and of the registry among equals, and while it works every   *)
(* device that has a driver and is still PROBED is one that it has left.    *)
(***************************************************************************)
InitOrdered ==
    LET s == done \o todo IN
    /\ \A i, j \in 1..Len(s) : i < j =>
          \/ Priority(s[i]) < Priority(s[j])
          \/ Priority(s[i]) = Priority(s[j]) /\ Place(s[i]) < Place(s[j])
    /\ todo # << >> => ToSet(todo) = {d \in ToSet(device_list) : dev[d].state = "PROBED"}
=============================================================================
