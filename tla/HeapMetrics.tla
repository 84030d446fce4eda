----------------------------- MODULE HeapMetrics -----------------------------
(***************************************************************************)
(* The heap metrics (esp_diagnostics_heap_metrics.c): free memory, the     *)
(* largest free block and the least free memory ever, read one after the   *)
(* other while every task allocates and frees.  A dump is made by the work *)
(* queue at a timeout, by init, and by any task whose allocation fails.    *)
(***************************************************************************)
EXTENDS Naturals, Sequences

CONSTANTS
  HeapSize,      \* bytes of the heap
  MaxHeapCalls   \* bound: allocations, frees, timeouts and calls

ASSUME HeapAssumption == HeapSize \in Nat \ {0} /\ MaxHeapCalls \in Nat

Dumpers == {"worker", "app", "other"}

VARIABLES
  heap,      \* external: free memory, and the least there ever was
  calls,     \* number of allocations, frees, timeouts and calls so far
  metrics,   \* s_priv_data; whether a timer runs, the callback is registered
  named,     \* the metrics are registered
  dumper,    \* each task: its step, what it read, whether an allocation failed
  sample     \* the last values the store took

heapVars == <<heap, calls, metrics, named, dumper, sample>>

NoSample == [free |-> 0, lfb |-> 0, min |-> 0]
Off == [pc |-> "off", read |-> NoSample, failed |-> FALSE]

HeapInit ==
  /\ heap = [free |-> HeapSize, min |-> HeapSize] /\ calls = 0
  /\ metrics = [init |-> FALSE, handle |-> FALSE, timer |-> FALSE, hook |-> FALSE] /\ named = FALSE
  /\ dumper = [t \in Dumpers |-> Off]
  /\ sample = NoSample

Counts == calls < MaxHeapCalls /\ calls' = calls + 1

-----------------------------------------------------------------------------
(* External: the heap *)

Alloc ==
  /\ Counts /\ \E free \in 0..(heap.free - 1) :
       heap' = [free |-> free, min |-> IF free < heap.min THEN free ELSE heap.min]
  /\ UNCHANGED <<metrics, named, dumper, sample>>

Release ==
  /\ Counts /\ \E free \in (heap.free + 1)..HeapSize : heap' = [heap EXCEPT !.free = free]
  /\ UNCHANGED <<metrics, named, dumper, sample>>

\* alloc_failed_hook, in the task whose allocation failed
AllocFails(t) ==
  /\ Counts /\ metrics.hook /\ dumper[t].pc = "off" /\ t # "worker"
  /\ dumper' = [dumper EXCEPT ![t] = [pc |-> "dump", read |-> NoSample, failed |-> TRUE]]
  /\ UNCHANGED <<heap, metrics, named, sample>>

-----------------------------------------------------------------------------
(* esp_diag_heap_metrics_dump *)

\* Faulty variant: the least ever is read before what is free now.
ReadOrderSwapped == <<"min", "lfb", "free", "report">>

\* What is read after what.
ReadOrder == <<"free", "lfb", "min", "report">>
After(field) == ReadOrder[(CHOOSE i \in 1..3 : ReadOrder[i] = field) + 1]

\* The dump ends; a failed allocation is then told, as a metric and an event.
EndDump(t) == dumper' = [dumper EXCEPT ![t].pc = IF dumper[t].failed THEN "event" ELSE "off"]

EnterDump(t) ==
  /\ dumper[t].pc = "dump"
  /\ IF metrics.init THEN dumper' = [dumper EXCEPT ![t].pc = ReadOrder[1]] ELSE EndDump(t)
  /\ UNCHANGED <<heap, calls, metrics, named, sample>>

\* External: what the heap answers.
Reading(field) ==
  CASE field = "free" -> {heap.free}
    [] field = "lfb" -> 0..heap.free
    [] field = "min" -> {heap.min}

ReadHeap(t, field) ==
  /\ dumper[t].pc = field
  /\ \E v \in Reading(field) :
       dumper' = [dumper EXCEPT ![t].read[field] = v, ![t].pc = After(field)]
  /\ UNCHANGED <<heap, calls, metrics, named, sample>>

\* The values in this order, up to the first that is refused.
ReportSample(t) ==
  /\ dumper[t].pc = "report"
  /\ \E accepted \in IF named THEN {{}, {"free"}, {"free", "lfb"}, {"free", "lfb", "min"}} ELSE {{}} :
       sample' = [f \in DOMAIN sample |-> IF f \in accepted THEN dumper[t].read[f] ELSE sample[f]]
  /\ EndDump(t)
  /\ UNCHANGED <<heap, calls, metrics, named>>

\* The size as a metric and a log message: no state of this code.
TellFailure(t) ==
  /\ dumper[t].pc = "event"
  /\ dumper' = [dumper EXCEPT ![t] = Off]
  /\ UNCHANGED <<heap, calls, metrics, named, sample>>

-----------------------------------------------------------------------------
(* Timer, init and deinit; the callback for failed allocations stays *)

HeapTimeout ==
  /\ Counts /\ metrics.timer /\ dumper["worker"].pc = "off"
  /\ dumper' = [dumper EXCEPT !["worker"] = [Off EXCEPT !.pc = "dump"]]
  /\ UNCHANGED <<heap, metrics, named, sample>>

\* Without a timer it ends in an assertion, as deinit does then: no step.  The
\* timer stops or starts, if its queue takes the command.
HeapResetInterval ==
  /\ Counts /\ metrics.init /\ metrics.handle
  /\ \E timer \in BOOLEAN : metrics' = [metrics EXCEPT !.timer = timer]
  /\ UNCHANGED <<heap, named, dumper, sample>>

HeapMetricsInit ==
  /\ Counts /\ ~metrics.init /\ dumper["app"].pc = "off"
  /\ \E handle \in BOOLEAN, started \in BOOLEAN :
       metrics' = [init |-> TRUE, handle |-> handle, timer |-> metrics.timer \/ (handle /\ started), hook |-> TRUE]
  /\ named' = TRUE
  /\ dumper' = [dumper EXCEPT !["app"] = [Off EXCEPT !.pc = "dump"]]
  /\ UNCHANGED <<heap, sample>>

\* A timer that could not be deleted in time runs on.
HeapMetricsDeinit ==
  /\ Counts /\ metrics.init /\ metrics.handle /\ dumper["app"].pc = "off"
  /\ \E timer \in {FALSE, metrics.timer} :
       metrics' = [metrics EXCEPT !.init = FALSE, !.handle = FALSE, !.timer = timer]
  /\ named' = FALSE
  /\ UNCHANGED <<heap, dumper, sample>>

HeapNext ==
  \/ Alloc \/ Release \/ (\E t \in Dumpers : AllocFails(t))
  \/ \E t \in Dumpers :
       EnterDump(t) \/ (\E f \in {"free", "lfb", "min"} : ReadHeap(t, f)) \/ ReportSample(t) \/ TellFailure(t)
  \/ HeapTimeout \/ HeapResetInterval \/ HeapMetricsInit \/ HeapMetricsDeinit

-----------------------------------------------------------------------------
(* Properties *)

\* No dump tells of less memory free than there ever was, whatever was
\* allocated and freed between its readings.
FreeAboveMin ==
  \A t \in Dumpers : dumper[t].pc = "report" => dumper[t].read.min <= dumper[t].read.free

=============================================================================
