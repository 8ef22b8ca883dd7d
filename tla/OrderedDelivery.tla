-------------------------- MODULE OrderedDelivery --------------------------
(* What an ordered, at-least-once uploader promises its callers: events are *)
(* accepted into a log, and the set of events that are settled (received    *)
(* by the server, or given up) always grows along that log. An event is     *)
(* never received before an earlier one is settled; only an event given up  *)
(* earlier may still turn up later (a request that outlived its timeout).   *)
(* EventUploader implements it.                                             *)
EXTENDS Integers, Sequences

CONSTANT Event              \* the events callers hand over

VARIABLES
    log,                    \* the events accepted, in the order of acceptance
    received,               \* the events the server has received
    givenUp,                \* the events the uploader has given up on
    open                    \* the uploader still accepts events

vars == <<log, received, givenUp, open>>

\* The first n events accepted.
Prefix(n) == { log[p] : p \in 1..n }

Init ==
    /\ log = <<>>
    /\ received = {}
    /\ givenUp = {}
    /\ open = TRUE

\* More events are accepted, after those accepted before.
Accept ==
    /\ open
    /\ log' \in Seq(Event)
    /\ Len(log) <= Len(log')
    /\ SubSeq(log', 1, Len(log)) = log
    /\ UNCHANGED <<received, givenUp, open>>

\* Events among the first n are received or given up, and then all of these
\* n are settled: nothing is skipped silently and nothing overtakes.
Settle ==
    /\ \E n \in 0..Len(log) :
         \E got, lost \in SUBSET Prefix(n) :
            /\ received' = received \cup got
            /\ givenUp' = givenUp \cup lost
            /\ Prefix(n) \subseteq received' \cup givenUp'
    /\ UNCHANGED <<log, open>>

\* The uploader is closed: what is not settled may never be.
Shut ==
    /\ open' = FALSE
    /\ UNCHANGED <<log, received, givenUp>>

Next == Accept \/ Settle \/ Shut

Spec == Init /\ [][Next]_vars
=============================================================================
