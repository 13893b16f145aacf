--------------------------- MODULE ChunkedMining ---------------------------
(***************************************************************************)
(* The proof-of-work search: run_chunked_mining (core/mining_scheduler.py) *)
(* under _native_proof_of_work and proof_of_work (core/block.py).          *)
(*                                                                         *)
(* Worker threads take chunks of nonces from one allocator and hand them   *)
(* to a kernel, C or GPU code that looks at the cancel flag now and then.  *)
(* A worker that finds a nonce records it, sets the stop event of its      *)
(* search, and raises the cancel flag to get the others out of their       *)
(* kernels.  The node raises the same flag, from the event loop, to end a  *)
(* search; every search resets it where it starts and where it ends.  It   *)
(* is one flag in the process, but kept in several places (native_pow.py,  *)
(* powmodule.c, cuda_pow.py): python code and GPU kernels see it whenever  *)
(* it is raised, CPU kernels see that of the extension, which is loaded by *)
(* the first call of one and not reached before.  (Where GPU kernels are   *)
(* in the extension, on macOS, it is loaded before workers start.)         *)
(*                                                                         *)
(* A search here is a task that calls proof_of_work again and again:       *)
(* automine, or a user who mines by hand, which nothing excludes while     *)
(* automine runs.  Only automine is ever asked to end a search.  Attempts, *)
(* progress and timings are left out, and so are the timed searches of     *)
(* mining_tuning.py.                                                       *)
(***************************************************************************)
EXTENDS Integers, FiniteSets

CONSTANTS
    Searches,             \* tasks that mine
    Automines,            \* those of them that run automine
    CpuWorkers,           \* number of CPU workers of a search
    GpuWorkers,           \* number of GPU workers of a search
    CpuChunk, GpuChunk,   \* nonces in a chunk
    CheckInterval,        \* CANCEL_CHECK_INTERVAL
    SolutionSets,         \* the sets of nonces that may meet a block's difficulty
    MaxNonce,             \* bound: the allocator counts no further
    MayFail,              \* workers whose kernel may raise an exception
    Backends              \* "native": the workers; "python": run_python_mining;
                          \* "auto": the workers, and python after a failure

Workers == 1 .. CpuWorkers + GpuWorkers
IsGpu(w) == w > CpuWorkers

NoNonce == -1

ASSUME WorkersAssumption == CpuWorkers \in Nat /\ GpuWorkers \in Nat
ASSUME ChunkAssumption == CpuChunk \in Nat \ {0} /\ GpuChunk \in Nat \ {0}
ASSUME IntervalAssumption == CheckInterval \in Nat \ {0}
ASSUME NonceAssumption == MaxNonce \in Nat /\ SolutionSets \subseteq SUBSET Nat
ASSUME FailAssumption == MayFail \subseteq Workers
ASSUME BackendAssumption == Backends \subseteq {"native", "auto", "python"}
ASSUME AutominesAssumption == Automines \subseteq Searches

VARIABLES
    cancel,    \* _python_cancel_requested, and the flag of cuda_pow
    loaded,    \* whether the extension is loaded
    native,    \* cancel_requested of the extension
    search,    \* search -> the locals of its call
    worker     \* search -> worker -> the locals of its thread

flags == <<cancel, loaded, native>>
vars == <<flags, search, worker>>

(* A search: the solutions of its block, its backend, phase, the stop       *)
(* event, the allocator's next nonce, winner, what the call ended with, and *)
(* whether the node asked for its end (a history variable).  A worker:      *)
(* where it is, the nonce it tries, the bounds of its chunk, and its        *)
(* _WorkerOutcome.                                                          *)
NewSearch(solutions, backend) ==
    [ solutions |-> solutions, backend |-> backend, phase |-> "called", stop |-> FALSE,
      next |-> 0, winner |-> NoNonce, result |-> "none", asked |-> FALSE ]
NewWorker == [pc |-> "unstarted", start |-> 0, at |-> 0, end |-> 0, outcome |-> "none"]

Init ==
    /\ cancel = FALSE /\ loaded = FALSE /\ native = FALSE
    /\ search = [s \in Searches |-> [NewSearch({}, "auto") EXCEPT !.phase = "returned"]]
    /\ worker = [s \in Searches |-> [w \in Workers |-> NewWorker]]

At(s, w, pc) == search[s].phase = "searching" /\ worker[s][w].pc = pc

\* request_pow_cancel and reset_pow_cancel: the extension's flag too, if there is one.
RaiseFlags == cancel' = TRUE /\ native' = (native \/ loaded) /\ UNCHANGED loaded
ResetFlags == cancel' = FALSE /\ native' = (native /\ ~loaded) /\ UNCHANGED loaded

SetSearch(s, locals) == search' = [search EXCEPT ![s] = locals]
SetWorker(s, w, locals) == worker' = [worker EXCEPT ![s][w] = locals]

----------------------------------------------------------------------------
(* The thread that searches: what it does before, around and after the     *)
(* workers.                                                                *)

\* A task mines a block: it has read the tip and goes on to select
\* transactions and to look up the tuning of the workers.  Which nonces meet the
\* difficulty depends on the block, and the user may change the backend between calls.
Call(s) ==
    /\ search[s].phase = "returned"
    /\ \E solutions \in SolutionSets, backend \in Backends :
          SetSearch(s, NewSearch(solutions, backend))
    /\ worker' = [worker EXCEPT ![s] = [w \in Workers |-> NewWorker]]
    /\ UNCHANGED flags

\* Mutant of ResetAtStart: the flag is left as it is.
StartWithoutReset(s) ==
    /\ search[s].phase = "called"
    /\ search[s].backend # "python"
    /\ SetSearch(s, [search[s] EXCEPT !.phase = "searching"])
    /\ UNCHANGED <<flags, worker>>

\* reset_pow_cancel before the first worker starts.
ResetAtStart(s) ==
    /\ search[s].phase = "called"
    /\ search[s].backend # "python"
    /\ SetSearch(s, [search[s] EXCEPT !.phase = "searching"])
    /\ ResetFlags
    /\ UNCHANGED worker

\* The python backend leaves the flag as it is.
StartPython(s) ==
    /\ search[s].phase = "called"
    /\ search[s].backend = "python"
    /\ SetSearch(s, [search[s] EXCEPT !.phase = "python"])
    /\ UNCHANGED <<flags, worker>>

\* The workers are started one after the other and run meanwhile.
StartWorker(s, w) ==
    /\ At(s, w, "unstarted")
    /\ \A v \in 1 .. w - 1 : worker[s][v].pc # "unstarted"
    /\ SetWorker(s, w, [worker[s][w] EXCEPT !.pc = "ready"])
    /\ UNCHANGED <<flags, search>>

WithOutcome(s, outcome) == {w \in Workers : worker[s][w].outcome = outcome}

\* Mutant of Result: one worker that was cancelled is enough.
ResultCancelled(s) ==
    IF WithOutcome(s, "cancelled") # {} THEN "cancelled"
    ELSE IF search[s].winner = NoNonce THEN "failed" ELSE "found"

\* A CPU worker's error is raised, a GPU worker's tolerated; without a winner
\* _native_proof_of_work raises ProofOfWorkCancelled.
Result(s) ==
    IF \E w \in WithOutcome(s, "error") : ~IsGpu(w) THEN "failed"
    ELSE IF search[s].winner = NoNonce THEN "cancelled" ELSE "found"

\* The workers are joined, the flag is reset, and proof_of_work returns or
\* raises, or goes on in python from the first nonce.
Return(s) ==
    /\ \A w \in Workers : At(s, w, "done")
    /\ search[s].phase = "searching"
    /\ ResetFlags
    /\ \/ /\ Result(s) = "failed" /\ search[s].backend = "auto"
          /\ SetSearch(s, [search[s] EXCEPT !.phase = "python", !.next = 0])
       \/ /\ Result(s) # "failed" \/ search[s].backend # "auto"
          /\ SetSearch(s, [search[s] EXCEPT !.phase = "returned", !.result = Result(s)])
    /\ UNCHANGED worker

\* One turn of run_python_mining.
PythonTry(s) ==
    /\ search[s].phase = "python"
    /\ \/ /\ cancel
          /\ SetSearch(s, [search[s] EXCEPT !.phase = "returned", !.result = "cancelled"])
       \/ /\ ~cancel /\ search[s].next \in search[s].solutions
          /\ SetSearch(s, [search[s] EXCEPT !.phase = "returned", !.result = "found",
                                            !.winner = search[s].next])
       \/ /\ ~cancel /\ search[s].next \notin search[s].solutions /\ search[s].next < MaxNonce
          /\ SetSearch(s, [search[s] EXCEPT !.next = @ + 1])
    /\ UNCHANGED <<flags, worker>>

----------------------------------------------------------------------------
(* run_cpu_worker and run_gpu_worker.                                      *)

CheckStop(s, w) ==
    /\ At(s, w, "ready")
    /\ SetWorker(s, w, IF search[s].stop
                       THEN [worker[s][w] EXCEPT !.pc = "done", !.outcome = "cancelled"]
                       ELSE [worker[s][w] EXCEPT !.pc = "allocating"])
    /\ UNCHANGED <<flags, search>>

ChunkSize(w) == IF IsGpu(w) THEN GpuChunk ELSE CpuChunk

\* Mutants of Advance: by a CPU chunk whoever asks; not at all.
AdvanceByCpuChunk(next, w) == IF next < MaxNonce THEN next + CpuChunk ELSE next
AdvanceNot(next, w) == next

Advance(next, w) == IF next < MaxNonce THEN next + ChunkSize(w) ELSE next

\* _NonceChunkAllocator.allocate, under its lock.
Allocate(s, w) ==
    /\ At(s, w, "allocating")
    /\ LET next == search[s].next
       IN  /\ SetWorker(s, w, [worker[s][w] EXCEPT !.pc = "scanning", !.start = next,
                                  !.at = next, !.end = next + ChunkSize(w)])
           /\ SetSearch(s, [search[s] EXCEPT !.next = Advance(next, w)])
    /\ UNCHANGED flags

\* The first kernel of a CPU worker loads the extension, which may have to be
\* built first.
LoadExtension(s, w) ==
    /\ At(s, w, "scanning")
    /\ ~IsGpu(w) /\ ~loaded
    /\ loaded' = TRUE
    /\ UNCHANGED <<cancel, native, search, worker>>

\* The flag a worker's kernel looks at.
FlagOf(w) == IF IsGpu(w) THEN cancel ELSE native

\* Mutant of SeesCancel: the kernel never looks at the flag.
SeesNothing(s, w) == FALSE

\* The kernel looks at the flag before every CheckInterval-th nonce of a chunk.
SeesCancel(s, w) ==
    /\ FlagOf(w)
    /\ (worker[s][w].at - worker[s][w].start) % CheckInterval = 0

ChunkIsDone(s, w) == worker[s][w].at + 1 = worker[s][w].end

\* One nonce of search_pow_range, or its cancellation.
KernelStep(s, w) ==
    /\ At(s, w, "scanning")
    /\ IsGpu(w) \/ loaded
    /\ \/ /\ SeesCancel(s, w)
          /\ SetWorker(s, w, [worker[s][w] EXCEPT !.pc = "done", !.outcome = "cancelled"])
       \/ /\ ~SeesCancel(s, w) /\ worker[s][w].at \in search[s].solutions
          /\ SetWorker(s, w, [worker[s][w] EXCEPT !.pc = "found"])
       \/ /\ ~SeesCancel(s, w) /\ worker[s][w].at \notin search[s].solutions
          /\ SetWorker(s, w, IF ChunkIsDone(s, w)
                             THEN [worker[s][w] EXCEPT !.pc = "ready"]
                             ELSE [worker[s][w] EXCEPT !.at = @ + 1])
    /\ UNCHANGED <<flags, search>>

\* The kernel raises: a GPU worker just ends, a CPU worker stops the search.
KernelFails(s, w) ==
    /\ At(s, w, "scanning")
    /\ w \in MayFail
    /\ SetWorker(s, w, [worker[s][w] EXCEPT !.pc = IF IsGpu(w) THEN "done" ELSE "stopping",
                                            !.outcome = "error"])
    /\ UNCHANGED <<flags, search>>

\* Mutant of KeptWinner: the last one is kept.
KeptLast(winner, nonce) == nonce

KeptWinner(winner, nonce) == IF winner = NoNonce THEN nonce ELSE winner

\* record_winner, under its lock.
RecordWinner(s, w) ==
    /\ At(s, w, "found")
    /\ SetSearch(s, [search[s] EXCEPT !.winner = KeptWinner(@, worker[s][w].at)])
    /\ SetWorker(s, w, [worker[s][w] EXCEPT !.pc = "stopping", !.outcome = "winner"])
    /\ UNCHANGED flags

\* stop_event.set()
SetStop(s, w) ==
    /\ At(s, w, "stopping")
    /\ SetSearch(s, [search[s] EXCEPT !.stop = TRUE])
    /\ SetWorker(s, w, [worker[s][w] EXCEPT !.pc = "cancelling"])
    /\ UNCHANGED flags

\* request_pow_cancel()
RaiseCancel(s, w) ==
    /\ At(s, w, "cancelling")
    /\ RaiseFlags
    /\ SetWorker(s, w, [worker[s][w] EXCEPT !.pc = "done"])
    /\ UNCHANGED search

----------------------------------------------------------------------------
(* The event loop.                                                         *)

\* The node asks for the end of the search, because the tip moved or the user
\* stops automine.  While a mined block is broadcast no search runs, and the
\* flag it raises then is meant for none; before the first call nothing raises it.
RequestCancel(s) ==
    /\ s \in Automines
    /\ search[s].phase # "returned" \/ search[s].result # "none"
    /\ RaiseFlags
    /\ SetSearch(s, [search[s] EXCEPT !.asked = @ \/ search[s].phase # "returned"])
    /\ UNCHANGED worker

\* The automine loop ends or starts anew, or whoever stopped it has waited for it.
LeaveAutomine(s) ==
    /\ s \in Automines
    /\ search[s].phase = "returned"
    /\ ResetFlags
    /\ UNCHANGED <<search, worker>>

----------------------------------------------------------------------------

CallerStep(s) ==
    \/ ResetAtStart(s)
    \/ StartPython(s)
    \/ \E w \in Workers : StartWorker(s, w)
    \/ Return(s)
    \/ PythonTry(s)

WorkerStep(s, w) ==
    \/ CheckStop(s, w)
    \/ Allocate(s, w)
    \/ LoadExtension(s, w)
    \/ KernelStep(s, w)
    \/ RecordWinner(s, w)
    \/ SetStop(s, w)
    \/ RaiseCancel(s, w)

Next ==
    \E s \in Searches :
        \/ Call(s)
        \/ CallerStep(s)
        \/ \E w \in Workers : WorkerStep(s, w) \/ KernelFails(s, w)
        \/ RequestCancel(s)
        \/ LeaveAutomine(s)

\* The operating system schedules every thread.
Fairness ==
    \A s \in Searches :
        /\ WF_vars(CallerStep(s))
        /\ \A w \in Workers : WF_vars(WorkerStep(s, w))

Spec == Init /\ [][Next]_vars /\ Fairness

----------------------------------------------------------------------------
(* Properties.                                                             *)

SearchState ==
    [ solutions : SUBSET Nat, backend : {"native", "auto", "python"},
      phase : {"called", "searching", "python", "returned"}, stop : BOOLEAN,
      next : Nat, winner : Nat \cup {NoNonce},
      result : {"none", "found", "cancelled", "failed"}, asked : BOOLEAN ]

Places ==
    { "unstarted", "ready", "allocating", "scanning", "found", "stopping", "cancelling", "done" }
Outcomes == {"none", "winner", "cancelled", "error"}

WorkerState == [pc : Places, start : Nat, at : Nat, end : Nat, outcome : Outcomes]

InChunk(s, w) ==
    worker[s][w].pc = "scanning" =>
        worker[s][w].at \in worker[s][w].start .. worker[s][w].end - 1

\* The extension's flag is never raised alone.
FlagsAreSound ==
    /\ cancel \in BOOLEAN /\ loaded \in BOOLEAN /\ native \in BOOLEAN
    /\ native => cancel /\ loaded

\* A worker tries nonces of its chunk only, and every field has its type.
TypeOK ==
    /\ FlagsAreSound
    /\ search \in [Searches -> SearchState]
    /\ worker \in [Searches -> [Workers -> WorkerState]]
    /\ \A s \in Searches : \A w \in Workers : InChunk(s, w)

\* Two workers never have a nonce in common: the chunk handed out is the chunk
\* the allocator goes past, whatever the sizes of CPU and GPU chunks are.
ChunksAreDisjoint ==
    \A s \in Searches : \A v, w \in Workers :
        /\ v # w
        /\ worker[s][v].pc = "scanning" /\ worker[s][w].pc = "scanning"
        /\ worker[s][v].start < MaxNonce /\ worker[s][w].start < MaxNonce
        => worker[s][v].end <= worker[s][w].start \/ worker[s][w].end <= worker[s][v].start

\* A nonce a worker found is not lost to the workers it cancels: the call
\* returns a solution unless a CPU worker's error is raised instead.
FoundIsReturned ==
    \A s \in Searches :
        /\ search[s].phase = "returned" /\ search[s].result # "none"
        /\ WithOutcome(s, "winner") # {}
        => \/ search[s].result = "found" /\ search[s].winner \in search[s].solutions
           \/ \E w \in WithOutcome(s, "error") : ~IsGpu(w)

\* The first nonce recorded is the one the call returns, though a second
\* worker may find one before it sees that it should stop.
FirstWinnerStays ==
    [][\A s \in Searches :
          search[s].phase = "searching" /\ search[s].winner # NoNonce
          => search'[s].winner = search[s].winner]_vars

\* A search by workers is cancelled only if its end was asked for after it was called:
\* no cancellation is left over from an earlier search, or comes from the
\* flag a worker raises.  _automine_loop takes every ProofOfWorkCancelled for
\* a newer tip or a stop.
CancelledOnlyIfAsked ==
    \A s \in Searches :
        search[s].result = "cancelled" /\ search[s].backend # "python" => search[s].asked

\* An error of a kernel that leaves a search without a nonce reaches its caller,
\* the comment on the workers' except clauses: "surfaced to caller"
\* (core/mining_scheduler.py:267 and 302).
ErrorsSurface ==
    \A s \in Searches :
        /\ search[s].phase = "returned" /\ search[s].winner = NoNonce
        /\ \A w \in Workers : worker[s][w].outcome = "error"
        => search[s].result = "failed"

\* Nonces that meet the difficulty keep coming.
Recur(solutions) == MaxNonce .. MaxNonce + CpuChunk + GpuChunk \subseteq solutions

\* Every search ends when solutions recur, whatever fails and is cancelled meanwhile.
SearchEnds ==
    \A s \in Searches :
        search[s].phase = "called" /\ Recur(search[s].solutions) ~> search[s].phase = "returned"

\* A cancellation that finds the workers at work gets all of them out of their
\* kernels, at whatever point of their loop they are and also if no nonce is
\* ever found, once it reaches the flags they look at: one that comes before
\* the first kernel of the process has loaded the extension does not.
CancelEndsWorkers ==
    \A s \in Searches :
        search[s].phase = "searching" /\ (\A w \in Workers : FlagOf(w))
            ~> search[s].phase # "searching"

\* A cancellation asked for after the call ends it: native/powmodule.c:951,
\* "Request cancellation of the current proof-of-work loop."
CancelEndsCall == \A s \in Searches : search[s].asked ~> search[s].phase = "returned"

=============================================================================
