------------------------------ MODULE MCIRTools ------------------------------
(***************************************************************************)
(* Small results of SET-IR.  Workload w outputs transfer w and reads the   *)
(* outputs of the workloads R relates it to, or loads transfer 10 + w when *)
(* there are none; its weights are transfer 20 + w.  Workload ids count    *)
(* through all cores, as in the files of the repository.  A file GEMINI     *)
(* itself writes has the ids of its mesh, which counts columns of memory   *)
(* controllers, and the ids in the DRAM entries.                           *)
(***************************************************************************)
EXTENDS IRToolsInvariants

MCLayer == {"a", "b"}

Network(R, On) ==
    LET works == DOMAIN On
        read(w) == InIdOrder({r[2] : r \in {x \in R : x[1] = w}})
        ifmap(w) == IF read(w) = <<>> THEN <<10 + w>> ELSE read(w)
        readers(w) == InIdOrder({r[1] : r \in {x \in R : x[2] = w}})
        from(t) == [tid |-> t, from |-> IF t \in works THEN On[t] ELSE DRAM]
        sources(w) == [i \in DOMAIN ifmap(w) |-> from(ifmap(w)[i])]
        dests(w) == IF readers(w) = <<>> THEN <<DRAM>>
                    ELSE [i \in DOMAIN readers(w) |-> On[readers(w)[i]]]
        work(w) == [wid |-> w - 1, layer |-> IF w % 2 = 0 THEN "a" ELSE "b",
                    ifmap |-> ifmap(w), buffers |-> <<30 + w, 40 + w>>,
                    ofmap |-> <<[tid |-> w, dests |-> dests(w)]>>]
        list(c) == InIdOrder({w \in works : On[w] = c})
        written == InIdOrder({w \in works : readers(w) = <<>>})
        loaded == InIdOrder({10 + w : w \in {x \in works : read(x) = <<>>}})
                    \o [w \in works |-> 20 + w]
    IN  [cores |-> [c \in ToSet(On) |->
                       [i \in DOMAIN list(c) |-> work(list(c)[i])]],
         data |-> [d \in {30 + w : w \in works} |->
                      [weight |-> FALSE, source |-> sources(d - 30)]]
                  @@ [d \in {40 + w : w \in works} |->
                      [weight |-> TRUE, source |-> <<from(d - 20)>>]],
         in |-> [i \in DOMAIN written |->
                    [tid |-> written[i], core |-> On[written[i]]]],
         out |-> [i \in DOMAIN loaded |->
                    [tid |-> loaded[i], dests |-> <<On[loaded[i] % 10]>>]]]

Pairs(n) == (1 .. n) \X (1 .. n)

(* Any reads, cyclic ones included, on two cores, and all acyclic ones on
   three. *)
MCSetIRs ==
    {Network(R, <<2, 2, 2, 5>>) : R \in SUBSET {x \in Pairs(4) : x[1] # x[2]}}
    \cup {Network(R, <<5, 1, 2, 5, 2>>) : R \in SUBSET {x \in Pairs(5) : x[2] < x[1]}}

Described(net, w) ==
    LET source(d) == net.data[d].source
    IN  [wid |-> w.wid, layer |-> w.layer, ifmap |-> w.ifmap,
         sources |-> source(w.buffers[1]) \o source(w.buffers[2]),
         weight |-> <<source(w.buffers[2])[1].tid>>,
         ofmap |-> [k \in DOMAIN w.ofmap |->
             [tid |-> w.ofmap[k].tid, dests |->
                 [j \in DOMAIN w.ofmap[k].dests |->
                     [core |-> w.ofmap[k].dests[j], wl |-> 0]]]]]
Written(net) ==
    [cores |-> [c \in DOMAIN net.cores |->
                   [i \in DOMAIN net.cores[c] |-> Described(net, net.cores[c][i])]],
     in |-> [i \in DOMAIN net.in |->
                [tid |-> net.in[i].tid, core |-> net.in[i].core,
                 wl |-> net.in[i].tid - 1]],
     out |-> [i \in DOMAIN net.out |->
                [tid |-> net.out[i].tid,
                 dests |-> <<[core |-> net.out[i].dests[1],
                              wl |-> (net.out[i].tid % 10) - 1]>>]]]

MCGeminiIRs ==
    {Written(Network(R, <<2, 8, 2, 8>>)) :
        R \in SUBSET {x \in Pairs(4) : x[2] < x[1]}}
=============================================================================
