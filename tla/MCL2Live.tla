------------------------------ MODULE MCL2Live -------------------------------
(* The second-level cache with a bound on the requests of a behaviour, for *)
(* liveness: an L1 that cannot go on stops asking, because what waits for  *)
(* its answer fills the ROB, which the model of one cache does not hold.   *)
EXTENDS MCL2Cache

CONSTANTS MaxRequests           \* bound: requests from above

VARIABLE requests

MCInit == Init /\ requests = 0

MCNext ==
    \/ Requests /\ requests < MaxRequests /\ requests' = requests + 1
    \/ Operate /\ UNCHANGED requests

MCvars == <<vars, requests>>

(* Every cycle calls the four handlers, and the LLC and its WQ and PQ make *)
(* progress.                                                               *)
MCSpec ==
    /\ MCInit /\ [][MCNext]_MCvars
    /\ \A x \in Line \cup PageTable :
        /\ WF_MCvars((\E m \in InMshr(x), w \in Way : handle_fill(m, w)) /\ UNCHANGED requests)
        /\ WF_MCvars(LLC_takes(x) /\ UNCHANGED requests)
        /\ WF_MCvars(return_data(x) /\ UNCHANGED requests)
    /\ WF_MCvars((\E w \in Way : handle_writeback(w)) /\ UNCHANGED requests)
    /\ WF_MCvars(handle_read /\ UNCHANGED requests)
    /\ WF_MCvars(handle_prefetch /\ UNCHANGED requests)

(* Every request is answered and every queue runs empty. *)
Drains ==
    <>[](/\ rq = <<>> /\ wq = <<>> /\ pq = <<>> /\ mshr = {}
         /\ \A c \in Client : waiting[c] = {})
=============================================================================
