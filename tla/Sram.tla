-------------------------------- MODULE Sram --------------------------------
(***************************************************************************)
(* The scratchpad of one NPU core (src/src/sram.cpp) as operators on a     *)
(* record                                                                  *)
(*   entries : transfer id -> [size, ready, ref], defined exactly on the   *)
(*             transfers that have an entry (entries_),                    *)
(*   used    : used_bytes_.                                                *)
(* Every mutator returns the new record; the boolean the C++ method        *)
(* returns is the operator named Can... or Is... beside it.  The data type *)
(* tag of an entry is left out: nothing reads it.                          *)
(***************************************************************************)
EXTENDS Task

CONSTANT Capacity   \* capacity_bytes_, in abstract size units

ASSUME CapacityAssumption == Capacity \in Nat

SramEntry == [size : Nat, ready : BOOLEAN, ref : Nat]

(* used is an integer here; that it never wraps below zero is part of the
   accounting invariant of the modules that use this one. *)
SramTypeOK(s) ==
    /\ s = [entries |-> s.entries, used |-> s.used]
    /\ DOMAIN s.entries \subseteq Tid
    /\ s.entries \in [DOMAIN s.entries -> SramEntry]
    /\ s.used \in Int

EmptySram == [entries |-> <<>>, used |-> 0]

-----------------------------------------------------------------------------

HasData(s, t) == t \in DOMAIN s.entries

IsReady(s, t) == HasData(s, t) /\ s.entries[t].ready

(* Faulty: only looks at what is in use before. *)
CanAllocateOverCommit(s, t, size) == HasData(s, t) \/ s.used < Capacity

(* What allocate() answers: an existing entry is success whatever its size. *)
CanAllocate(s, t, size) == HasData(s, t) \/ s.used + size <= Capacity

Insert(s, t, size, ref) ==
    [entries |-> [x \in DOMAIN s.entries \cup {t} |->
                    IF x = t THEN [size |-> size, ready |-> FALSE, ref |-> ref]
                             ELSE s.entries[x]],
     used    |-> s.used + size]

Allocate(s, t, size, ref) ==
    IF ~HasData(s, t) /\ CanAllocate(s, t, size)
        THEN Insert(s, t, size, ref) ELSE s

MarkReady(s, t) ==
    IF HasData(s, t) THEN [s EXCEPT !.entries[t].ready = TRUE] ELSE s

(* Faulty: the bytes are not given back. *)
DeallocateKeepingBytes(s, t) ==
    [s EXCEPT !.entries = [x \in DOMAIN @ \ {t} |-> @[x]]]

Deallocate(s, t) ==
    IF HasData(s, t)
        THEN [entries |-> [x \in DOMAIN s.entries \ {t} |-> s.entries[x]],
              used    |-> s.used - s.entries[t].size]
        ELSE s

(* Faulty: whoever is done frees the entry. *)
ReleaseRefAtOnce(s, t) == Deallocate(s, t)

(* The last reference frees the entry; an entry allocated with no reference
   is freed by the first release as well. *)
ReleaseRef(s, t) ==
    IF ~HasData(s, t) THEN s
    ELSE IF s.entries[t].ref <= 1 THEN Deallocate(s, t)
    ELSE [s EXCEPT !.entries[t].ref = @ - 1]

=============================================================================
