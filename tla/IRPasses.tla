------------------------------ MODULE IRPasses ------------------------------
(***************************************************************************)
(* What GeminiParser's post-processing does to the workload list of one    *)
(* core (src/src/gemini_parser.cpp).                                       *)
(***************************************************************************)
EXTENDS Task, IdOrder, SequencesExt

-----------------------------------------------------------------------------
(* topological_sort_workloads, on the list of one core.                    *)

OutputTids(w) == {out.tid : out \in ToSet(w.outputs)}
(* Faulty: looks at the first source only. *)
LocalTidsOfFirst(w) ==
    {w.sources[k].tid : k \in {i \in DOMAIN w.sources \cap {1} :
                                  w.sources[i].from # DRAM}}

LocalTids(w) == {s.tid : s \in {x \in ToSet(w.sources) : x.from # DRAM}}

(* The workload that produces t: the last one that lists it. *)
Producers(list, t) == {i \in DOMAIN list : t \in OutputTids(list[i])}

Deps(list, i) ==
    {Max(Producers(list, t)) :
        t \in {u \in LocalTids(list[i]) : Producers(list, u) # {}}} \ {i}

(* Kahn's algorithm: queue[n] is the queue after n workloads are taken from
   it; taking one appends, by index, those it was the last dependency of. *)
LastWaitFor(list, queue, n) ==
    {i \in DOMAIN list :
        /\ queue[n] \in Deps(list, i)
        /\ Deps(list, i) \subseteq {queue[k] : k \in 1 .. n}}

AfterTaking(list, queue, n) ==
    IF n > Len(queue) THEN queue
                      ELSE queue \o InIdOrder(LastWaitFor(list, queue, n))

KahnQueue(list) ==
    LET queue[n \in 0 .. Len(list)] ==
          IF n = 0 THEN InIdOrder({i \in DOMAIN list : Deps(list, i) = {}})
                   ELSE AfterTaking(list, queue[n - 1], n)
    IN  queue[Len(list)]

(* A dependency cycle leaves the list as it is, except that the workloads
   already moved into the sorted one are left empty. *)
Sorted(list) ==
    LET order == KahnQueue(list)
    IN  IF Len(list) <= 1 THEN list
        ELSE IF Len(order) = Len(list) THEN [i \in DOMAIN list |-> list[order[i]]]
        ELSE [i \in DOMAIN list |->
                IF i \in ToSet(order)
                  THEN [list[i] EXCEPT !.sources = <<>>, !.outputs = <<>>]
                  ELSE list[i]]

-----------------------------------------------------------------------------
(* fix_output_ref_counts: an output read more often by its own core than   *)
(* it lists core destinations gets dummy destinations, core 0, at the end. *)

LocalUses(list, t) ==
    Cardinality(UNION {{<<i, j>> : j \in {k \in DOMAIN list[i].sources :
                              /\ list[i].sources[k].tid = t
                              /\ list[i].sources[k].from # DRAM}}
        : i \in DOMAIN list})

CoreDests(out) == Cardinality({j \in DOMAIN out.dests : out.dests[j] # DRAM})

Counted(list) ==
    LET Missing(out) == LocalUses(list, out.tid) - CoreDests(out)
        Fixed(out)   == [out EXCEPT !.dests =
                            @ \o [i \in 1 .. Missing(out) |-> 0]]
    IN  [i \in DOMAIN list |->
           [list[i] EXCEPT !.outputs = [k \in DOMAIN @ |-> Fixed(@[k])]]]

=============================================================================
