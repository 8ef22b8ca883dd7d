-------------------------- MODULE MCTransportWrites --------------------------
(* Three events and a queue of one: one event in flight, one queued, and one  *)
(* whose call waits for room; a write of two asks for more than the queue     *)
(* holds. The hybrid transport POSTs up to two at a time and drops a batch      *)
(* after two failures, the ccr transport sends one at a time for ever.        *)
EXTENDS TransportWrites

MCEvent == 1..3
Config(batch, queue, failures) ==
    [maxBatchSize |-> batch, maxQueueSize |-> queue, maxConsecutiveFailures |-> failures]
MCConfigs == {Config(2, 1, 2), Config(1, 1, 0)}
MCTransports == {[kind |-> "hybrid", config |-> Config(2, 1, 2)],
                 [kind |-> "ccr", config |-> Config(1, 1, 0)]}

\* A ccr transport whose queue is never full.
RoomyConfigs == {Config(1, 3, 0)}
RoomyTransports == [kind : {"ccr"}, config : RoomyConfigs]
=============================================================================
