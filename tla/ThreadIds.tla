------------------------------ MODULE ThreadIds ------------------------------
(***************************************************************************)
(* The ids that index the per-thread contractors and evaluators.  They are *)
(* handed out by one counter of the process, each at the first touch of a  *)
(* PerThread table, and the destructor of any pool sets the counter back.  *)
(* A client is a thread that calls the solver, one call after another; a   *)
(* call builds a Context of its own with its pool and its tables.          *)
(***************************************************************************)
EXTENDS Integers, FiniteSets

CONSTANTS
  Client,    \* the threads that call CheckSatisfiability
  MaxJobs,   \* bound: the largest number_of_jobs
  NoId

ASSUME MaxJobsAssumption == MaxJobs \in Nat \ {0}
ASSUME NoIdAssumption == NoId \notin Nat

\* Thread 0 of a client is the client itself, the others are workers of its pool.
Thread == Client \X (0 .. MaxJobs - 1)

VARIABLES
  global_thread_id_index,
  id,       \* [Thread -> Nat \cup {NoId}], the thread_local of get_thread_id
  jobs      \* [Client -> 0 .. MaxJobs], 0 outside a call

idVars == <<global_thread_id_index, id, jobs>>

IdsInit ==
  /\ global_thread_id_index = 0
  /\ id = [t \in Thread |-> NoId]
  /\ jobs = [c \in Client |-> 0]

\* get_thread_id of thread t.
GetThreadId(t) ==
  IF id[t] = NoId
  THEN /\ id' = [id EXCEPT ![t] = global_thread_id_index]
       /\ global_thread_id_index' = global_thread_id_index + 1
  ELSE UNCHANGED <<id, global_thread_id_index>>

\* A slip: the pool does not ask for the id of the thread that creates it.
OpenCallSilently(c) ==
  /\ jobs[c] = 0
  /\ \E n \in 1 .. MaxJobs : jobs' = [jobs EXCEPT ![c] = n]
  /\ UNCHANGED <<id, global_thread_id_index>>

\* A call builds its Context; with more than one job that builds a pool, whose
\* constructor asks for the id of the thread it runs on.
OpenCall(c) ==
  /\ jobs[c] = 0
  /\ \E n \in 1 .. MaxJobs :
       /\ jobs' = [jobs EXCEPT ![c] = n]
       /\ IF n > 1 THEN GetThreadId(<<c, 0>>) ELSE UNCHANGED <<id, global_thread_id_index>>

\* A thread of the call touches a table.
Touch(c, i) ==
  /\ i < jobs[c]
  /\ id[<<c, i>>] = NoId
  /\ GetThreadId(<<c, i>>)
  /\ UNCHANGED jobs

\* A slip: the counter keeps counting.
CloseCallWithoutReset(c) ==
  /\ jobs[c] > 0
  /\ jobs' = [jobs EXCEPT ![c] = 0]
  /\ id' = [t \in Thread |-> IF t[1] = c /\ t[2] > 0 THEN NoId ELSE id[t]]
  /\ UNCHANGED global_thread_id_index

\* The call returns; a pool joins its threads and sets the counter to 1.
CloseCall(c) ==
  /\ jobs[c] > 0
  /\ jobs' = [jobs EXCEPT ![c] = 0]
  /\ id' = [t \in Thread |-> IF t[1] = c /\ t[2] > 0 THEN NoId ELSE id[t]]
  /\ global_thread_id_index' = IF jobs[c] > 1 THEN 1 ELSE global_thread_id_index

IdsNext ==
  \E c \in Client : OpenCall(c) \/ CloseCall(c) \/ \E i \in 0 .. MaxJobs - 1 : Touch(c, i)

IdsSpec == IdsInit /\ [][IdsNext]_idVars

-----------------------------------------------------------------------------
IdsTypeOK ==
  /\ global_thread_id_index \in Nat
  /\ id \in [Thread -> Nat \cup {NoId}]
  /\ jobs \in [Client -> 0 .. MaxJobs]

(* "Each worker thread holds a distinct id" (PerThread): no two threads of *)
(* a call share a slot of its tables, which nothing locks.                 *)
SlotsAreNotShared ==
  \A c \in Client : \A i, j \in 0 .. MaxJobs - 1 :
    i < j /\ j < jobs[c] /\ id[<<c, i>>] # NoId => id[<<c, i>>] # id[<<c, j>>]

(* "Within a single call, number_of_jobs > 1 uses parallel ICP safely":    *)
(* every thread of a call has a slot in the tables made for its jobs, so   *)
(* that GetOrCreate never throws.                                          *)
IdsAreInRange ==
  \A c \in Client : \A i \in 0 .. MaxJobs - 1 :
    i < jobs[c] /\ id[<<c, i>>] # NoId => id[<<c, i>>] < jobs[c]
=============================================================================
