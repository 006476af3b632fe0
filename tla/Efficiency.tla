----------------------------- MODULE Efficiency -----------------------------
(***************************************************************************)
(* How well a run used its processes and its devices: the parallel         *)
(* efficiencies of src/analysis/pop_efficiency.py and the starvation of    *)
(* the devices of src/analysis/cct.py.  A ratio is <<numerator,            *)
(* denominator>>, <<>> where there is none.                                *)
(***************************************************************************)
EXTENDS Projection

(***************************************************************************)
(* The length of the union of intervals, swept in start order.             *)
(***************************************************************************)
Sweep(st, lo, hi) ==
    IF lo > st.hi THEN [total |-> st.total + st.hi - st.lo, lo |-> lo, hi |-> hi] ELSE [st EXCEPT !.hi = Max({@, hi})]
MergeIntervals(spans, S) ==
    LET order == Ordered(S, LAMBDA a, b : Before(spans, a, b))
        first == spans[order[1]]
        st == FoldLeft(LAMBDA t, i : Sweep(t, spans[i].start, EndOf(spans[i])), [total |-> 0, lo |-> first.start, hi |-> EndOf(first)], order)
    IN IF S = {} THEN 0 ELSE st.total + st.hi - st.lo

(***************************************************************************)
(* Useful time: neither communication, nor moving data, nor submitting.    *)
(***************************************************************************)
UsefulCats == {"cpu", "cuda", "rocm", "opencl", "openmp", "sycl"}
DataMovementTypes == {"memcpy", "memcpy_async", "alloc", "free", "HtoD", "DtoH", "memset"}
SubmissionTypes == {"launch", "event_record", "stream_wait"}
Useful(spans, p) == {i \in TimedOf(spans) : spans[i].pid = p /\ spans[i].cat \in UsefulCats /\ Tag(spans[i], "type") \notin DataMovementTypes \cup SubmissionTypes}
UsefulTimeByPid(spans) ==
    [p \in {q \in {spans[i].pid : i \in DOMAIN spans} : Useful(spans, q) # {}} |-> MergeIntervals(spans, Useful(spans, p))]
Most(useful) == Max({useful[p] : p \in DOMAIN useful})
LoadBalance(useful) ==
    IF DOMAIN useful = {} \/ Most(useful) <= 0 THEN <<>>
    ELSE <<SumOver(DOMAIN useful, LAMBDA p : useful[p]), Cardinality(DOMAIN useful) * Most(useful)>>
CommEfficiency(useful, wall) == IF DOMAIN useful = {} THEN <<>> ELSE <<Min({wall, Most(useful)}), wall>>
CommSpans(spans) == {i \in TimedOf(spans) : spans[i].cat \in {"mpi", "nccl"} /\ Tag(spans[i], "type") # "group"}
\* analyze, for a run without a baseline; the fitted latency and bandwidth
\* and the shares of a peak, which are estimates, are left out.
Serialization(spans, view) ==
    SerializationEfficiency(spans, [k \in DOMAIN view |-> view[k].span], [k \in DOMAIN view |-> view[k].credited], [k \in DOMAIN view |-> view[k].gap],
                            [k \in 1 .. (Len(view) - 1) |-> view[k + 1].kind], CommSpans(spans))
Efficiencies(spans, view, useful, wall) ==
    LET balance == LoadBalance(useful)
        comm == CommEfficiency(useful, wall)
    IN [useful |-> useful, wall |-> wall, balance |-> balance, comm |-> comm, serialization |-> Serialization(spans, view),
        parallel |-> IF balance = <<>> \/ comm = <<>> THEN <<>> ELSE <<balance[1] * comm[1], balance[2] * comm[2]>>]

(***************************************************************************)
(* gpu_starvation.                                                         *)
(***************************************************************************)
SyncNames == {"cudaDeviceSynchronize", "cudaStreamSynchronize", "cudaEventSynchronize", "hipDeviceSynchronize", "hipStreamSynchronize",
              "hipEventSynchronize", "clFinish", "clWaitForEvents"}
SyncCallsOf(spans) == {i \in TimedOf(spans) : spans[i].name \in SyncNames /\ Tag(spans[i], "side") # "gpu"}
BusyTwice(spans, kernels, syncs) == MergeIntervals(spans, kernels) + MergeIntervals(spans, syncs)     \* mutant: added, not merged
BusyNs(spans, kernels, syncs) == MergeIntervals(spans, kernels \cup syncs)
Starvation(spans, kernels, syncs, wall) ==
    [active |-> MergeIntervals(spans, kernels), stall |-> SumOver(syncs, LAMBDA i : spans[i].dur), calls |-> Cardinality(syncs),
     gap |-> Max({0, wall - BusyNs(spans, kernels, syncs)})]
GpuStarvation(spans, wall) == Starvation(spans, KernelActivity(spans).used, SyncCallsOf(spans), wall)
=============================================================================
