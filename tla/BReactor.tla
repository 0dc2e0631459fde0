------------------------------ MODULE BReactor ------------------------------
(***************************************************************************)
(* The event loop of system/BReactor_badvpn.c (epoll) with the job list of *)
(* base/BPending.c.  The loop serves jobs first, the latest job first, then *)
(* expired timers, then the file descriptors that epoll returned.  A        *)
(* handler may call BReactor_Synchronize: it runs the jobs that are above a *)
(* mark in the job list, from inside the handler.                           *)
(***************************************************************************)
EXTENDS Integers, Sequences

CONSTANTS
    NoFd,                   \* a returned descriptor that was removed before its turn
    BSYSTEM_MAX_RESULTS     \* room in epoll_results

ASSUME ResultsPositive == BSYSTEM_MAX_RESULTS \in Nat \ {0}

VARIABLES
    jobs,       \* pending_jobs, the next one to run first
    syncs,      \* the calls of BReactor_Synchronize in progress, outermost first
    timer,      \* state of tcp_timer, the only timer
    due,        \* the time of the running timer has come
    active,     \* registered file descriptors
    armed,      \* those with events to wait for
    results,    \* epoll_results from epoll_results_pos on
    exiting     \* BReactor_Quit was called

reactorVars == <<jobs, syncs, timer, due, active, armed, results, exiting>>

(* The object that SYNC_FROMHERE puts in the job list for the n-th nested   *)
(* BReactor_Synchronize.                                                    *)
Mark(n) == <<"sync_mark", <<"outer", "inner">>[n]>>

(* j is in the job list q.                                                  *)
BPending_IsSet(q, j) == \E i \in DOMAIN q : q[i] = j

(* j leaves the list if it is there.                                        *)
BPending_Free(q, j) ==
    IF BPending_IsSet(q, j)
    THEN LET at == CHOOSE i \in DOMAIN q : q[i] = j
         IN  [k \in 1..(Len(q) - 1) |-> IF k < at THEN q[k] ELSE q[k + 1]]
    ELSE q

(* j becomes the next job to run, wherever it was before.                   *)
BPending_Set(q, j) == <<j>> \o BPending_Free(q, j)

BReactor_Init ==
    /\ jobs' = <<>> /\ syncs' = <<>>
    /\ timer' = "off" /\ due' = FALSE
    /\ active' = {} /\ armed' = {} /\ results' = <<>>
    /\ exiting' = FALSE
-----------------------------------------------------------------------------
(* Mutant: BReactor_Synchronize runs every job that is pending.             *)
executesJob_all(j) ==
    /\ ~exiting /\ jobs # <<>>
    /\ IF syncs # <<>> /\ Head(jobs) = Mark(Len(syncs))
       THEN Len(jobs) > 1 /\ jobs[2] = j
       ELSE Head(jobs) = j

(* What BReactor_Exec does next.  BReactor_Synchronize, when one is in      *)
(* progress, runs jobs as long as the next one is not its mark.             *)
executesJob(j) ==
    /\ ~exiting /\ jobs # <<>> /\ Head(jobs) = j
    /\ syncs # <<>> => j # Mark(Len(syncs))

synchronized ==
    /\ syncs # <<>>
    /\ exiting \/ (jobs # <<>> /\ Head(jobs) = Mark(Len(syncs)))
    /\ jobs' = BPending_Free(jobs, Mark(Len(syncs)))
    /\ syncs' = SubSeq(syncs, 1, Len(syncs) - 1)
    /\ UNCHANGED <<timer, due, active, armed, results, exiting>>

(* The mark is put above the jobs q; what the code then sets is above it.   *)
SYNC_FROMHERE(q) == BPending_Set(q, Mark(Len(syncs) + 1))

(* BReactor_Synchronize begins with the jobs q; what names the code that    *)
(* waits.                                                                   *)
SYNC_COMMIT(what, q) == jobs' = q /\ syncs' = Append(syncs, what)

expiresTimer == ~exiting /\ jobs = <<>> /\ syncs = <<>> /\ timer = "expired"

dispatches(fd) ==
    /\ ~exiting /\ jobs = <<>> /\ syncs = <<>> /\ timer # "expired"
    /\ results # <<>> /\ Head(results) = fd

(* An entry that was removed since epoll returned it.                       *)
skipsRemoved ==
    /\ dispatches(NoFd)
    /\ results' = Tail(results)
    /\ UNCHANGED <<jobs, syncs, timer, due, active, armed, exiting>>

(* n of the descriptors, each once, in any order.                           *)
epoll_wait(n) == {s \in [1..n -> active] : \A i, k \in 1..n : s[i] = s[k] => i = k}

(* Timers that are due are moved to the expired list without waiting;       *)
(* otherwise epoll returns descriptors, as many as there is room for: errors *)
(* and hang-ups are reported for those that are not armed as well.          *)
wait_for_events ==
    /\ ~exiting /\ jobs = <<>> /\ syncs = <<>> /\ timer # "expired" /\ results = <<>>
    /\ \/ /\ timer = "running" /\ due
          /\ timer' = "expired" /\ due' = FALSE
          /\ UNCHANGED results
       \/ /\ ~(timer = "running" /\ due)
          /\ \E n \in 1..BSYSTEM_MAX_RESULTS : results' \in epoll_wait(n)
          /\ UNCHANGED <<timer, due>>
    /\ UNCHANGED <<jobs, syncs, active, armed, exiting>>

(* Time passes.                                                             *)
timePasses ==
    /\ timer = "running" /\ ~due
    /\ due' = TRUE
    /\ UNCHANGED <<jobs, syncs, timer, active, armed, results, exiting>>

BReactor_SetTimer == timer' = "running" /\ due' = FALSE

BReactor_RemoveTimer == timer' = "off" /\ due' = FALSE

(* Mutant: the entry that epoll returned keeps its pointer.                 *)
BReactor_RemoveFileDescriptor_stale(fd, res) ==
    /\ active' = active \ {fd} /\ armed' = armed \ {fd}
    /\ results' = res

(* res are the results that are still to be served.                         *)
BReactor_RemoveFileDescriptor(fd, res) ==
    /\ active' = active \ {fd} /\ armed' = armed \ {fd}
    /\ results' = [i \in DOMAIN res |-> IF res[i] = fd THEN NoFd ELSE res[i]]
=============================================================================
