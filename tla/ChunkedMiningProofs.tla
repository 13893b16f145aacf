------------------------ MODULE ChunkedMiningProofs ------------------------
(* Theorems about ChunkedMining, for any number of workers, any chunk sizes *)
(* and any set of solutions.                                                *)
EXTENDS ChunkedMining, TLAPS

----------------------------------------------------------------------------
(* What the updates of the actions do to each field.                       *)

LEMMA ChunksAreNotEmpty ==
    ASSUME NEW w \in Workers
    PROVE  ChunkSize(w) \in Nat /\ ChunkSize(w) >= 1
BY ChunkAssumption DEF ChunkSize

LEMMA WorkerSet ==
    ASSUME TypeOK, NEW s \in Searches, NEW w \in Workers, NEW locals, SetWorker(s, w, locals)
    PROVE  /\ \A t \in Searches, v \in Workers :
                 worker'[t][v] = IF t = s /\ v = w THEN locals ELSE worker[t][v]
           /\ locals \in WorkerState => worker' \in [Searches -> [Workers -> WorkerState]]
BY DEF TypeOK, SetWorker

LEMMA SearchSet ==
    ASSUME TypeOK, NEW s \in Searches, NEW locals, SetSearch(s, locals)
    PROVE  /\ \A t \in Searches : search'[t] = IF t = s THEN locals ELSE search[t]
           /\ locals \in SearchState => search' \in [Searches -> SearchState]
BY DEF TypeOK, SetSearch

\* Whatever a step does to the flags, they stay sound.
LEMMA FlagsStaySound ==
    ASSUME TypeOK
    PROVE  UNCHANGED flags \/ RaiseFlags \/ ResetFlags => FlagsAreSound'
<1>1. FlagsAreSound
    BY DEF TypeOK
<1>2. CASE UNCHANGED flags
    BY <1>1, <1>2 DEF FlagsAreSound, flags
<1>3. CASE RaiseFlags
    BY <1>1, <1>3, Zenon DEF FlagsAreSound, RaiseFlags
<1>4. CASE ResetFlags
    <2>1. native' \in BOOLEAN /\ (native' <=> native /\ ~loaded)
        BY <1>1, <1>4, Zenon DEF FlagsAreSound, ResetFlags
    <2>2. ~native'
        BY <1>1, <2>1 DEF FlagsAreSound
    <2>3. QED  BY <1>1, <1>4, <2>1, <2>2, Zenon DEF FlagsAreSound, ResetFlags
<1>5. QED  BY <1>2, <1>3, <1>4

\* Workers keep their chunks, and only w may move or get an outcome.
Moved(s, w, pc, outcome) ==
    /\ worker' \in [Searches -> [Workers -> WorkerState]]
    /\ \A t \in Searches, v \in Workers :
          /\ worker'[t][v].start = worker[t][v].start
          /\ worker'[t][v].at = worker[t][v].at
          /\ worker'[t][v].end = worker[t][v].end
          /\ worker'[t][v].pc = IF t = s /\ v = w THEN pc ELSE worker[t][v].pc
          /\ worker'[t][v].outcome = IF t = s /\ v = w THEN outcome ELSE worker[t][v].outcome

LEMMA PcSet ==
    ASSUME TypeOK, NEW s \in Searches, NEW w \in Workers, NEW pc \in Places,
           SetWorker(s, w, [worker[s][w] EXCEPT !.pc = pc])
    PROVE  Moved(s, w, pc, worker[s][w].outcome)
<1> DEFINE locals == [worker[s][w] EXCEPT !.pc = pc]
<1>1. worker[s][w] \in WorkerState
    BY DEF TypeOK
<1>2. /\ locals \in WorkerState /\ locals.pc = pc /\ locals.start = worker[s][w].start
      /\ locals.at = worker[s][w].at /\ locals.end = worker[s][w].end
      /\ locals.outcome = worker[s][w].outcome
    BY <1>1 DEF WorkerState
<1>3. SetWorker(s, w, locals)
    OBVIOUS
<1> HIDE DEF locals
<1>4. QED  BY <1>2, <1>3, WorkerSet DEF Moved

LEMMA PcAndOutcomeSet ==
    ASSUME TypeOK, NEW s \in Searches, NEW w \in Workers, NEW pc \in Places,
           NEW outcome \in Outcomes,
           SetWorker(s, w, [worker[s][w] EXCEPT !.pc = pc, !.outcome = outcome])
    PROVE  Moved(s, w, pc, outcome)
<1> DEFINE locals == [worker[s][w] EXCEPT !.pc = pc, !.outcome = outcome]
<1>1. worker[s][w] \in WorkerState
    BY DEF TypeOK
<1>2. /\ locals \in WorkerState /\ locals.pc = pc /\ locals.start = worker[s][w].start
      /\ locals.at = worker[s][w].at /\ locals.end = worker[s][w].end
      /\ locals.outcome = outcome
    BY <1>1 DEF WorkerState
<1>3. SetWorker(s, w, locals)
    OBVIOUS
<1> HIDE DEF locals
<1>4. QED  BY <1>2, <1>3, WorkerSet DEF Moved

SameJob(s, locals) == locals.solutions = search[s].solutions /\ locals.backend = search[s].backend

\* Only the fields of search s named by the arguments may change.
Became(s, phase, stop, next, winner, result, asked) ==
    /\ search' \in [Searches -> SearchState]
    /\ SameJob(s, search'[s])
    /\ \A t \in Searches : t # s => search'[t] = search[t]
    /\ search'[s].phase = phase /\ search'[s].stop = stop /\ search'[s].next = next
    /\ search'[s].winner = winner /\ search'[s].result = result /\ search'[s].asked = asked

LEMMA LocalsSet ==
    ASSUME TypeOK, NEW s \in Searches, NEW locals \in SearchState, SetSearch(s, locals),
           SameJob(s, locals)
    PROVE  Became(s, locals.phase, locals.stop, locals.next, locals.winner, locals.result,
                  locals.asked)
BY SearchSet DEF Became

\* Nothing but the phase of search s may change.
PhaseBecame(s, phase) ==
    Became(s, phase, search[s].stop, search[s].next, search[s].winner, search[s].result,
           search[s].asked)

LEMMA CallDoes ==
    ASSUME TypeOK, NEW s \in Searches, Call(s)
    PROVE  /\ search' \in [Searches -> SearchState]
           /\ \A t \in Searches : t # s => search'[t] = search[t]
           /\ search'[s].phase = "called" /\ search'[s].stop = FALSE
           /\ search'[s].winner = NoNonce /\ search'[s].result = "none"
           /\ worker' \in [Searches -> [Workers -> WorkerState]]
           /\ \A t \in Searches, v \in Workers :
                 worker'[t][v] = IF t = s THEN NewWorker ELSE worker[t][v]
<1>1. PICK solutions \in SolutionSets, backend \in Backends :
         SetSearch(s, NewSearch(solutions, backend))
    BY DEF Call
<1>2. NewSearch(solutions, backend) \in SearchState
    <2>1. solutions \in SUBSET Nat /\ backend \in {"native", "auto", "python"}
        BY NonceAssumption, BackendAssumption
    <2>2. QED  BY <2>1 DEF NewSearch, SearchState, NoNonce
<1>3. NewWorker \in WorkerState
    BY DEF NewWorker, WorkerState, Places, Outcomes
<1>4. QED  BY <1>1, <1>2, <1>3, SearchSet DEF NewSearch, Call, TypeOK

LEMMA StartDoes ==
    ASSUME TypeOK, NEW s \in Searches
    PROVE  /\ ResetAtStart(s) => PhaseBecame(s, "searching")
           /\ StartPython(s) => PhaseBecame(s, "python")
<1>1. search[s] \in SearchState
    BY DEF TypeOK
<1>2. ASSUME NEW phase \in {"searching", "python"},
             SetSearch(s, [search[s] EXCEPT !.phase = phase])
      PROVE  PhaseBecame(s, phase)
    <2> DEFINE locals == [search[s] EXCEPT !.phase = phase]
    <2>1. /\ locals \in SearchState /\ SameJob(s, locals)
          /\ locals.phase = phase /\ locals.stop = search[s].stop
          /\ locals.next = search[s].next /\ locals.winner = search[s].winner
          /\ locals.result = search[s].result /\ locals.asked = search[s].asked
        BY <1>1 DEF SearchState, SameJob
    <2>2. SetSearch(s, locals)
        BY <1>2
    <2> HIDE DEF locals
    <2>3. QED  BY <2>1, <2>2, LocalsSet DEF PhaseBecame, Became, SameJob
<1>3. QED  BY <1>2 DEF ResetAtStart, StartPython

LEMMA ReturnDoes ==
    ASSUME TypeOK, NEW s \in Searches, Return(s)
    PROVE  \/ /\ Result(s) = "failed"
              /\ Became(s, "python", search[s].stop, 0, search[s].winner, search[s].result,
                        search[s].asked)
           \/ Became(s, "returned", search[s].stop, search[s].next, search[s].winner,
                     Result(s), search[s].asked)
<1>1. search[s] \in SearchState
    BY DEF TypeOK
<1>2. Result(s) \in {"found", "cancelled", "failed"}
    BY DEF Result
<1>3. CASE Result(s) = "failed" /\ search[s].backend = "auto"
    <2> DEFINE locals == [search[s] EXCEPT !.phase = "python", !.next = 0]
    <2>1. /\ locals \in SearchState /\ SameJob(s, locals)
          /\ locals.phase = "python"
          /\ locals.stop = search[s].stop
          /\ locals.next = 0
          /\ locals.winner = search[s].winner
          /\ locals.result = search[s].result
          /\ locals.asked = search[s].asked
        BY <1>1 DEF SearchState, SameJob
    <2>2. SetSearch(s, locals)
        BY <1>3 DEF Return
    <2> HIDE DEF locals
    <2>3. QED  BY <1>3, <2>1, <2>2, LocalsSet DEF Became
<1>4. CASE Result(s) # "failed" \/ search[s].backend # "auto"
    <2> DEFINE locals == [search[s] EXCEPT !.phase = "returned", !.result = Result(s)]
    <2>1. /\ locals \in SearchState /\ SameJob(s, locals)
          /\ locals.phase = "returned"
          /\ locals.stop = search[s].stop
          /\ locals.next = search[s].next
          /\ locals.winner = search[s].winner
          /\ locals.result = Result(s)
          /\ locals.asked = search[s].asked
        BY <1>1, <1>2 DEF SearchState, SameJob
    <2>2. SetSearch(s, locals)
        BY <1>4 DEF Return
    <2> HIDE DEF locals
    <2>3. QED  BY <1>4, <2>1, <2>2, LocalsSet DEF Became
<1>5. QED  BY <1>3, <1>4

LEMMA PythonTryDoes ==
    ASSUME TypeOK, NEW s \in Searches, PythonTry(s)
    PROVE  \/ /\ cancel
              /\ Became(s, "returned", search[s].stop, search[s].next, search[s].winner,
                        "cancelled", search[s].asked)
           \/ /\ search[s].next \in search[s].solutions
              /\ Became(s, "returned", search[s].stop, search[s].next, search[s].next,
                        "found", search[s].asked)
           \/ Became(s, "python", search[s].stop, search[s].next + 1, search[s].winner,
                     search[s].result, search[s].asked)
<1>1. search[s] \in SearchState
    BY DEF TypeOK
<1>2. CASE cancel
    <2> DEFINE locals == [search[s] EXCEPT !.phase = "returned", !.result = "cancelled"]
    <2>1. /\ locals \in SearchState /\ SameJob(s, locals)
          /\ locals.phase = "returned"
          /\ locals.stop = search[s].stop
          /\ locals.next = search[s].next
          /\ locals.winner = search[s].winner
          /\ locals.result = "cancelled"
          /\ locals.asked = search[s].asked
        BY <1>1 DEF SearchState, SameJob
    <2>2. SetSearch(s, locals)
        BY <1>2 DEF PythonTry
    <2> HIDE DEF locals
    <2>3. QED  BY <1>2, <2>1, <2>2, LocalsSet DEF Became
<1>3. CASE ~cancel /\ search[s].next \in search[s].solutions
    <2> DEFINE locals == [search[s] EXCEPT !.phase = "returned", !.result = "found",
                                         !.winner = search[s].next]
    <2>1. /\ locals \in SearchState /\ SameJob(s, locals)
          /\ locals.phase = "returned"
          /\ locals.stop = search[s].stop
          /\ locals.next = search[s].next
          /\ locals.winner = search[s].next
          /\ locals.result = "found"
          /\ locals.asked = search[s].asked
        BY <1>1 DEF SearchState, SameJob
    <2>2. SetSearch(s, locals)
        BY <1>3 DEF PythonTry
    <2> HIDE DEF locals
    <2>3. QED  BY <1>3, <2>1, <2>2, LocalsSet DEF Became
<1>4. CASE ~cancel /\ search[s].next \notin search[s].solutions
    <2> DEFINE locals == [search[s] EXCEPT !.next = @ + 1]
    <2>1. /\ locals \in SearchState /\ SameJob(s, locals)
          /\ locals.phase = "python"
          /\ locals.stop = search[s].stop
          /\ locals.next = search[s].next + 1
          /\ locals.winner = search[s].winner
          /\ locals.result = search[s].result
          /\ locals.asked = search[s].asked
        BY <1>1 DEF SearchState, SameJob, PythonTry
    <2>2. SetSearch(s, locals)
        BY <1>4 DEF PythonTry
    <2> HIDE DEF locals
    <2>3. QED  BY <1>4, <2>1, <2>2, LocalsSet DEF Became
<1>5. QED  BY <1>2, <1>3, <1>4

LEMMA CheckStopDoes ==
    ASSUME TypeOK, NEW s \in Searches, NEW w \in Workers, CheckStop(s, w)
    PROVE  \/ search[s].stop /\ Moved(s, w, "done", "cancelled")
           \/ ~search[s].stop /\ Moved(s, w, "allocating", worker[s][w].outcome)
<1>1. CASE search[s].stop
    BY <1>1, PcAndOutcomeSet DEF CheckStop, Places, Outcomes
<1>2. CASE ~search[s].stop
    BY <1>2, PcSet DEF CheckStop, Places
<1>3. QED  BY <1>1, <1>2

LEMMA AllocateDoes ==
    ASSUME TypeOK, NEW s \in Searches, NEW w \in Workers, Allocate(s, w)
    PROVE  /\ Became(s, search[s].phase, search[s].stop, Advance(search[s].next, w),
                     search[s].winner, search[s].result, search[s].asked)
           /\ worker' \in [Searches -> [Workers -> WorkerState]]
           /\ \A t \in Searches, v \in Workers :
                 t # s \/ v # w => worker'[t][v] = worker[t][v]
           /\ worker'[s][w].pc = "scanning"
           /\ worker'[s][w].start = search[s].next
           /\ worker'[s][w].at = search[s].next
           /\ worker'[s][w].end = search[s].next + ChunkSize(w)
           /\ worker'[s][w].outcome = worker[s][w].outcome
<1> DEFINE next == search[s].next
           end == next + ChunkSize(w)
           here == [worker[s][w] EXCEPT !.pc = "scanning", !.start = next, !.at = next,
                                        !.end = end]
           locals == [search[s] EXCEPT !.next = Advance(next, w)]
<1>1. search[s] \in SearchState /\ worker[s][w] \in WorkerState
    BY DEF TypeOK
<1>2. next \in Nat /\ Advance(next, w) \in Nat
    BY <1>1, ChunksAreNotEmpty DEF SearchState, Advance
<1>3. /\ here \in WorkerState /\ here.pc = "scanning" /\ here.start = next /\ here.at = next
      /\ here.end = end /\ here.outcome = worker[s][w].outcome
    <2>1. end \in Nat
        BY <1>2, ChunksAreNotEmpty
    <2> HIDE DEF end, next
    <2>2. QED  BY <1>1, <1>2, <2>1 DEF WorkerState, Places
<1>4. /\ locals \in SearchState /\ SameJob(s, locals) /\ locals.phase = search[s].phase
      /\ locals.stop = search[s].stop /\ locals.next = Advance(next, w)
      /\ locals.winner = search[s].winner /\ locals.result = search[s].result
      /\ locals.asked = search[s].asked
    BY <1>1, <1>2 DEF SearchState, SameJob
<1>5. SetWorker(s, w, here) /\ SetSearch(s, locals)
    BY DEF Allocate
<1> HIDE DEF here, locals
<1>6. QED  BY <1>3, <1>4, <1>5, WorkerSet, LocalsSet DEF Became

LEMMA KernelStepDoes ==
    ASSUME TypeOK, NEW s \in Searches, NEW w \in Workers, KernelStep(s, w)
    PROVE  \/ cancel /\ Moved(s, w, "done", "cancelled")
           \/ worker[s][w].at \in search[s].solutions /\ Moved(s, w, "found", worker[s][w].outcome)
           \/ Moved(s, w, "ready", worker[s][w].outcome)
           \/ /\ worker' \in [Searches -> [Workers -> WorkerState]]
              /\ \A t \in Searches, v \in Workers :
                    t # s \/ v # w => worker'[t][v] = worker[t][v]
              /\ worker'[s][w].pc = "scanning"
              /\ worker'[s][w].start = worker[s][w].start
              /\ worker'[s][w].at = worker[s][w].at + 1
              /\ worker[s][w].at + 1 # worker[s][w].end
              /\ worker'[s][w].end = worker[s][w].end
              /\ worker'[s][w].outcome = worker[s][w].outcome
<1>1. CASE SeesCancel(s, w)
    BY <1>1, PcAndOutcomeSet DEF KernelStep, SeesCancel, FlagOf, TypeOK, FlagsAreSound, Places,
                                 Outcomes
<1>2. CASE ~SeesCancel(s, w) /\ worker[s][w].at \in search[s].solutions
    BY <1>2, PcSet DEF KernelStep, Places
<1>3. CASE ~SeesCancel(s, w) /\ worker[s][w].at \notin search[s].solutions /\ ChunkIsDone(s, w)
    BY <1>3, PcSet DEF KernelStep, Places
<1>4. CASE ~SeesCancel(s, w) /\ worker[s][w].at \notin search[s].solutions /\ ~ChunkIsDone(s, w)
    <2> DEFINE here == [worker[s][w] EXCEPT !.at = @ + 1]
    <2>1. worker[s][w] \in WorkerState
        BY DEF TypeOK
    <2>2. /\ here \in WorkerState /\ here.pc = worker[s][w].pc
          /\ here.start = worker[s][w].start /\ here.at = worker[s][w].at + 1
          /\ here.end = worker[s][w].end /\ here.outcome = worker[s][w].outcome
        BY <2>1 DEF WorkerState
    <2>3. SetWorker(s, w, here)
        BY <1>4 DEF KernelStep
    <2> HIDE DEF here
    <2>4. QED  BY <1>4, <2>2, <2>3, WorkerSet DEF KernelStep, At, ChunkIsDone
<1>5. QED  BY <1>1, <1>2, <1>3, <1>4

LEMMA KernelFailsDoes ==
    ASSUME TypeOK, NEW s \in Searches, NEW w \in Workers, KernelFails(s, w)
    PROVE  Moved(s, w, IF IsGpu(w) THEN "done" ELSE "stopping", "error")
<1> DEFINE pc == IF IsGpu(w) THEN "done" ELSE "stopping"
<1>1. pc \in Places /\ "error" \in Outcomes
    BY DEF Places, Outcomes
<1>2. SetWorker(s, w, [worker[s][w] EXCEPT !.pc = pc, !.outcome = "error"])
    BY DEF KernelFails
<1> HIDE DEF pc
<1>3. Moved(s, w, pc, "error")
    BY <1>1, <1>2, PcAndOutcomeSet
<1>4. QED  BY <1>3 DEF pc

LEMMA RecordWinnerDoes ==
    ASSUME TypeOK, NEW s \in Searches, NEW w \in Workers, RecordWinner(s, w)
    PROVE  /\ Became(s, search[s].phase, search[s].stop, search[s].next,
                     KeptWinner(search[s].winner, worker[s][w].at), search[s].result,
                     search[s].asked)
           /\ Moved(s, w, "stopping", "winner")
<1> DEFINE winner == KeptWinner(search[s].winner, worker[s][w].at)
           locals == [search[s] EXCEPT !.winner = winner]
<1>1. search[s] \in SearchState /\ worker[s][w] \in WorkerState
    BY DEF TypeOK
<1>2. winner \in Nat \cup {NoNonce}
    BY <1>1 DEF KeptWinner, SearchState, WorkerState
<1>3. SetSearch(s, locals)
    BY DEF RecordWinner
<1> HIDE DEF winner
<1>4. /\ locals \in SearchState /\ SameJob(s, locals) /\ locals.phase = search[s].phase
      /\ locals.stop = search[s].stop /\ locals.next = search[s].next
      /\ locals.winner = winner /\ locals.result = search[s].result
      /\ locals.asked = search[s].asked
    BY <1>1, <1>2 DEF SearchState, SameJob
<1> HIDE DEF locals
<1>5. Became(s, search[s].phase, search[s].stop, search[s].next, winner, search[s].result,
             search[s].asked)
    BY <1>3, <1>4, LocalsSet DEF Became
<1>6. Moved(s, w, "stopping", "winner")
    BY PcAndOutcomeSet DEF RecordWinner, Places, Outcomes
<1>7. QED  BY <1>5, <1>6 DEF winner

LEMMA SetStopDoes ==
    ASSUME TypeOK, NEW s \in Searches, NEW w \in Workers, SetStop(s, w)
    PROVE  /\ Became(s, search[s].phase, TRUE, search[s].next, search[s].winner,
                     search[s].result, search[s].asked)
           /\ Moved(s, w, "cancelling", worker[s][w].outcome)
<1> DEFINE locals == [search[s] EXCEPT !.stop = TRUE]
<1>1. search[s] \in SearchState
    BY DEF TypeOK
<1>2. /\ locals \in SearchState /\ SameJob(s, locals) /\ locals.phase = search[s].phase
      /\ locals.stop = TRUE /\ locals.next = search[s].next
      /\ locals.winner = search[s].winner /\ locals.result = search[s].result
      /\ locals.asked = search[s].asked
    BY <1>1 DEF SearchState, SameJob
<1>3. SetSearch(s, locals)
    BY DEF SetStop
<1> HIDE DEF locals
<1>4. Moved(s, w, "cancelling", worker[s][w].outcome)
    BY PcSet DEF SetStop, Places
<1>5. QED  BY <1>2, <1>3, <1>4, LocalsSet DEF Became

LEMMA RequestCancelDoes ==
    ASSUME TypeOK, NEW s \in Searches, RequestCancel(s)
    PROVE  Became(s, search[s].phase, search[s].stop, search[s].next, search[s].winner,
                  search[s].result, search[s].asked \/ search[s].phase # "returned")
<1> DEFINE asked == search[s].asked \/ search[s].phase # "returned"
           locals == [search[s] EXCEPT !.asked = asked]
<1>1. search[s] \in SearchState /\ asked \in BOOLEAN
    BY DEF TypeOK, SearchState
<1>2. SetSearch(s, locals)
    BY DEF RequestCancel
<1> HIDE DEF asked
<1>3. /\ locals \in SearchState /\ SameJob(s, locals) /\ locals.phase = search[s].phase
      /\ locals.stop = search[s].stop /\ locals.next = search[s].next
      /\ locals.winner = search[s].winner /\ locals.result = search[s].result
      /\ locals.asked = asked
    BY <1>1 DEF SearchState, SameJob
<1> HIDE DEF locals
<1>4. Became(s, search[s].phase, search[s].stop, search[s].next, search[s].winner,
             search[s].result, asked)
    BY <1>2, <1>3, LocalsSet DEF Became
<1>5. QED  BY <1>4 DEF asked

----------------------------------------------------------------------------
(* The inductive invariant, of each search by itself.                      *)

CpuFailed(s) == \E w \in WithOutcome(s, "error") : ~IsGpu(w)

NotYet == {"unstarted", "ready", "allocating", "scanning", "found"}

\* What a worker left behind says where it is, and what it holds.
WorkerInv(s, w) ==
    LET here == worker[s][w]
    IN  /\ here.pc \in NotYet <=> here.outcome = "none"
        /\ here.pc \in {"stopping", "cancelling"} =>
               here.outcome = "winner" \/ (here.outcome = "error" /\ ~IsGpu(w))
        /\ here.pc = "found" => here.at \in search[s].solutions
        /\ here.outcome = "winner" => search[s].winner # NoNonce
        /\ here.pc = "scanning" /\ here.start < MaxNonce => here.end <= search[s].next
        /\ search[s].phase # "searching" => here.pc \in {"unstarted", "done"}
        /\ search[s].phase = "called" => here.pc = "unstarted"

\* What a search has when no worker runs.
SearchInv(s) ==
    /\ search[s].winner # NoNonce => search[s].winner \in search[s].solutions
    /\ search[s].result = "found" => search[s].winner # NoNonce
    /\ search[s].phase = "called" => ~search[s].stop
    /\ search[s].phase = "python" => CpuFailed(s) \/ WithOutcome(s, "winner") = {}
    /\ search[s].phase = "returned" =>
           \/ CpuFailed(s) \/ WithOutcome(s, "winner") = {}
           \/ search[s].result = "found"

Disjoint(s) ==
    \A v, w \in Workers :
        /\ v # w
        /\ worker[s][v].pc = "scanning" /\ worker[s][w].pc = "scanning"
        /\ worker[s][v].start < MaxNonce /\ worker[s][w].start < MaxNonce
        => worker[s][v].end <= worker[s][w].start \/ worker[s][w].end <= worker[s][v].start

Inv(s) == SearchInv(s) /\ Disjoint(s) /\ \A w \in Workers : WorkerInv(s, w)

IInv == TypeOK /\ \A s \in Searches : Inv(s)

SameLocals(t) ==
    /\ search'[t] = search[t]
    /\ \A v \in Workers :
          /\ worker'[t][v].pc = worker[t][v].pc /\ worker'[t][v].start = worker[t][v].start
          /\ worker'[t][v].at = worker[t][v].at /\ worker'[t][v].end = worker[t][v].end
          /\ worker'[t][v].outcome = worker[t][v].outcome

LEMMA SameInv ==
    ASSUME NEW t \in Searches, Inv(t), SameLocals(t)
    PROVE  Inv(t)'
<1>1. CpuFailed(t)' = CpuFailed(t) /\ WithOutcome(t, "winner")' = WithOutcome(t, "winner")
    BY DEF CpuFailed, WithOutcome, SameLocals
<1>2. SearchInv(t)'
    BY <1>1 DEF Inv, SearchInv, SameLocals
<1>3. Disjoint(t)' /\ \A w \in Workers : WorkerInv(t, w)'
    BY DEF Inv, Disjoint, WorkerInv, SameLocals
<1>4. QED  BY <1>2, <1>3 DEF Inv

\* A step changes the locals of one search only.
LEMMA OneSearch ==
    ASSUME IInv, NEW s \in Searches, FlagsAreSound',
           search' \in [Searches -> SearchState],
           worker' \in [Searches -> [Workers -> WorkerState]],
           \A t \in Searches : t # s => SameLocals(t),
           \A w \in Workers : InChunk(s, w)', Inv(s)'
    PROVE  IInv'
<1>1. ASSUME NEW t \in Searches PROVE Inv(t)' /\ \A w \in Workers : InChunk(t, w)'
    <2>1. CASE t = s
        BY <2>1
    <2>2. CASE t # s
        BY <2>2, SameInv DEF IInv, TypeOK, InChunk, SameLocals
    <2>3. QED  BY <2>1, <2>2
<1>2. QED  BY <1>1 DEF IInv, TypeOK

\* One worker moves, and not into a chunk.
LEMMA OneWorker ==
    ASSUME IInv, NEW s \in Searches, NEW w \in Workers, NEW pc \in Places \ {"scanning"},
           NEW outcome, Moved(s, w, pc, outcome), FlagsAreSound',
           search' \in [Searches -> SearchState],
           \A t \in Searches : t # s => search'[t] = search[t],
           search'[s].next = search[s].next, search[s].phase = "searching",
           search'[s].phase = "searching",
           SameJob(s, search'[s]), SearchInv(s)',
           outcome = "winner" \/ search'[s].winner = search[s].winner,
           search[s].winner # NoNonce => search'[s].winner # NoNonce,
           WorkerInv(s, w)'
    PROVE  IInv'
<1>1. \A t \in Searches : t # s => SameLocals(t)
    BY DEF SameLocals, Moved
<1>2. \A v \in Workers : InChunk(s, v)'
    BY DEF Moved, IInv, TypeOK, InChunk
<1>3. Disjoint(s)'
    BY DEF Moved, IInv, Inv, Disjoint
<1>4. ASSUME NEW v \in Workers, v # w PROVE WorkerInv(s, v)'
    BY <1>4 DEF Moved, IInv, Inv, WorkerInv, SameJob
<1>5. Inv(s)'
    BY <1>3, <1>4 DEF Inv
<1>6. QED  BY <1>1, <1>2, <1>5, OneSearch DEF Moved

----------------------------------------------------------------------------
(* Every step keeps the invariant: first what the searching thread does,   *)
(* with its workers at rest.                                               *)

LEMMA InvInit == Init => IInv
<1> SUFFICES ASSUME Init PROVE IInv
    OBVIOUS
<1>1. /\ [NewSearch({}, "auto") EXCEPT !.phase = "returned"] \in SearchState
      /\ NewWorker \in WorkerState
    BY DEF NewSearch, NewWorker, SearchState, WorkerState, Places, Outcomes, NoNonce
<1>2. TypeOK
    BY <1>1 DEF Init, TypeOK, FlagsAreSound, InChunk, NewWorker
<1>3. ASSUME NEW s \in Searches PROVE Inv(s)
    <2>1. /\ search[s].phase = "returned" /\ search[s].winner = NoNonce
          /\ search[s].result = "none"
        BY DEF Init, NewSearch
    <2>2. \A w \in Workers : worker[s][w].pc = "unstarted" /\ worker[s][w].outcome = "none"
        BY DEF Init, NewWorker
    <2>3. QED  BY <2>1, <2>2 DEF Inv, SearchInv, Disjoint, WorkerInv, WithOutcome, NotYet
<1>4. QED  BY <1>2, <1>3 DEF IInv

LEMMA CallKeeps == ASSUME IInv, NEW s \in Searches, Call(s) PROVE IInv'
<1>1. /\ search' \in [Searches -> SearchState]
      /\ \A t \in Searches : t # s => search'[t] = search[t]
      /\ search'[s].phase = "called" /\ search'[s].stop = FALSE
      /\ search'[s].winner = NoNonce /\ search'[s].result = "none"
      /\ worker' \in [Searches -> [Workers -> WorkerState]]
      /\ \A t \in Searches, v \in Workers :
            worker'[t][v] = IF t = s THEN NewWorker ELSE worker[t][v]
    BY CallDoes DEF IInv
<1>2. \A w \in Workers : worker'[s][w].pc = "unstarted" /\ worker'[s][w].outcome = "none"
    BY <1>1 DEF NewWorker
<1>3. Inv(s)'
    BY <1>1, <1>2 DEF Inv, SearchInv, Disjoint, WorkerInv, WithOutcome, NotYet
<1>4. FlagsAreSound'
    BY FlagsStaySound DEF Call, IInv, TypeOK
<1>5. QED  BY <1>1, <1>2, <1>3, <1>4, OneSearch DEF SameLocals, InChunk

\* The thread changes the locals of its search while no worker moves.
LEMMA ThreadKeeps ==
    ASSUME IInv, NEW s \in Searches, FlagsAreSound', worker' = worker,
           search' \in [Searches -> SearchState],
           \A t \in Searches : t # s => search'[t] = search[t],
           SearchInv(s)', \A w \in Workers : WorkerInv(s, w)'
    PROVE  IInv'
<1>1. Disjoint(s)' /\ \A w \in Workers : InChunk(s, w)'
    BY DEF IInv, Inv, Disjoint, TypeOK, InChunk
<1>2. QED  BY <1>1, OneSearch DEF IInv, TypeOK, SameLocals, Inv

LEMMA StartKeeps ==
    ASSUME IInv, NEW s \in Searches, ResetAtStart(s) \/ StartPython(s)
    PROVE  IInv'
<1>1. PICK phase \in {"searching", "python"} : PhaseBecame(s, phase)
    BY StartDoes DEF IInv
<1>2. search[s].phase = "called" /\ worker' = worker /\ FlagsAreSound'
    BY FlagsStaySound DEF ResetAtStart, StartPython, IInv, TypeOK
<1>3. \A w \in Workers : worker[s][w].pc = "unstarted" /\ worker[s][w].outcome = "none"
    BY <1>2 DEF IInv, Inv, WorkerInv, NotYet
<1>4. SearchInv(s)'
    BY <1>1, <1>2, <1>3 DEF IInv, Inv, SearchInv, PhaseBecame, Became, SameJob, WithOutcome
<1>5. \A w \in Workers : WorkerInv(s, w)'
    BY <1>1, <1>2, <1>3 DEF WorkerInv, PhaseBecame, Became, SameJob, NotYet
<1>6. QED  BY <1>1, <1>2, <1>4, <1>5, ThreadKeeps DEF PhaseBecame, Became, SameJob

LEMMA ReturnKeeps == ASSUME IInv, NEW s \in Searches, Return(s) PROVE IInv'
<1>1. /\ worker' = worker /\ FlagsAreSound'
      /\ \A w \in Workers : worker[s][w].pc = "done"
      /\ search' \in [Searches -> SearchState]
      /\ \A t \in Searches : t # s => search'[t] = search[t]
      /\ search'[s].winner = search[s].winner /\ SameJob(s, search'[s])
    BY FlagsStaySound, ReturnDoes DEF Return, At, IInv, Became
<1>2. \/ Result(s) = "failed" /\ search'[s].phase = "python"
                              /\ search'[s].result = search[s].result
      \/ search'[s].phase = "returned" /\ search'[s].result = Result(s)
    BY ReturnDoes DEF IInv, Became, SameJob
<1>3. CpuFailed(s)' = CpuFailed(s) /\ WithOutcome(s, "winner")' = WithOutcome(s, "winner")
    BY <1>1 DEF CpuFailed, WithOutcome
<1>4. Result(s) = "failed" => CpuFailed(s)
    BY DEF Result, CpuFailed
<1>5. Result(s) = "found" => search[s].winner # NoNonce
    BY DEF Result
<1>6. WithOutcome(s, "winner") # {} => Result(s) # "cancelled"
    BY DEF IInv, Inv, WorkerInv, WithOutcome, Result
<1>7. Result(s) \in {"failed", "cancelled", "found"}
    BY DEF Result
<1>8. SearchInv(s)'
    BY <1>1, <1>2, <1>3, <1>4, <1>5, <1>6, <1>7 DEF IInv, Inv, SearchInv, SameJob
<1>9. \A w \in Workers : WorkerInv(s, w)'
    BY <1>1, <1>2 DEF IInv, Inv, WorkerInv, NotYet, SameJob
<1>10. QED  BY <1>1, <1>8, <1>9, ThreadKeeps

LEMMA PythonTryKeeps == ASSUME IInv, NEW s \in Searches, PythonTry(s) PROVE IInv'
<1>1. /\ search[s].phase = "python" /\ worker' = worker
      /\ FlagsAreSound' /\ search[s].next \in Nat
    BY FlagsStaySound DEF PythonTry, IInv, TypeOK, SearchState
<1>2. /\ search' \in [Searches -> SearchState] /\ SameJob(s, search'[s])
      /\ \A t \in Searches : t # s => search'[t] = search[t]
    BY PythonTryDoes DEF IInv, Became, SameJob
<1>3. \/ /\ search'[s].phase = "returned" /\ search'[s].result = "cancelled"
         /\ search'[s].winner = search[s].winner
      \/ /\ search'[s].phase = "returned" /\ search'[s].result = "found"
         /\ search'[s].winner = search[s].next /\ search[s].next \in search[s].solutions
      \/ /\ search'[s].phase = "python" /\ search'[s].result = search[s].result
         /\ search'[s].winner = search[s].winner
    BY PythonTryDoes DEF IInv, Became, SameJob
<1>4. CpuFailed(s)' = CpuFailed(s) /\ WithOutcome(s, "winner")' = WithOutcome(s, "winner")
    BY <1>1 DEF CpuFailed, WithOutcome
<1>5. search[s].next # NoNonce
    BY <1>1 DEF NoNonce
<1>6. SearchInv(s)'
    BY <1>1, <1>2, <1>3, <1>4, <1>5 DEF IInv, Inv, SearchInv, SameJob
<1>7. \A w \in Workers : WorkerInv(s, w)'
    BY <1>1, <1>2, <1>3, <1>5 DEF IInv, Inv, WorkerInv, SameJob
<1>8. QED  BY <1>1, <1>2, <1>6, <1>7, ThreadKeeps

LEMMA FlagKeeps ==
    ASSUME IInv, NEW s \in Searches, RequestCancel(s) \/ LeaveAutomine(s)
    PROVE  IInv'
<1>1. CASE RequestCancel(s)
    <2>1. Became(s, search[s].phase, search[s].stop, search[s].next, search[s].winner,
                 search[s].result, search[s].asked \/ search[s].phase # "returned")
        BY <1>1, RequestCancelDoes DEF IInv
    <2>2. worker' = worker /\ FlagsAreSound'
        BY FlagsStaySound, <1>1 DEF RequestCancel, IInv
    <2>3. SearchInv(s)'
        BY <2>1, <2>2 DEF IInv, Inv, SearchInv, Became, SameJob, WithOutcome, CpuFailed
    <2>4. \A w \in Workers : WorkerInv(s, w)'
        BY <2>1, <2>2 DEF IInv, Inv, WorkerInv, Became, SameJob
    <2>5. QED  BY <2>1, <2>2, <2>3, <2>4, ThreadKeeps DEF Became
<1>2. CASE LeaveAutomine(s)
    <2>1. search' = search /\ worker' = worker /\ FlagsAreSound'
        BY FlagsStaySound, <1>2 DEF LeaveAutomine, IInv
    <2>2. SearchInv(s)' /\ \A w \in Workers : WorkerInv(s, w)'
        BY <2>1 DEF IInv, Inv, SearchInv, WorkerInv, WithOutcome, CpuFailed
    <2>3. QED  BY <2>1, <2>2, ThreadKeeps DEF IInv, TypeOK
<1>3. QED  BY <1>1, <1>2

----------------------------------------------------------------------------
(* Then what the workers do, while the thread starts and joins them.       *)

LEMMA StartWorkerKeeps ==
    ASSUME IInv, NEW s \in Searches, NEW w \in Workers, StartWorker(s, w)
    PROVE  IInv'
<1>1. Moved(s, w, "ready", worker[s][w].outcome)
    BY PcSet DEF StartWorker, Places, IInv
<1>2. /\ search' = search /\ search[s].phase = "searching" /\ FlagsAreSound'
      /\ worker[s][w].pc = "unstarted"
    BY FlagsStaySound DEF StartWorker, At, IInv, TypeOK
<1>3. SearchInv(s)'
    BY <1>2 DEF IInv, Inv, SearchInv
<1>4. WorkerInv(s, w)'
    BY <1>1, <1>2 DEF Moved, IInv, Inv, WorkerInv, NotYet
<1>5. QED  BY <1>1, <1>2, <1>3, <1>4, OneWorker DEF IInv, TypeOK, Places, SameJob

LEMMA CheckStopKeeps ==
    ASSUME IInv, NEW s \in Searches, NEW w \in Workers, CheckStop(s, w)
    PROVE  IInv'
<1>1. /\ search' = search /\ search[s].phase = "searching" /\ FlagsAreSound'
      /\ worker[s][w].pc = "ready"
    BY FlagsStaySound DEF CheckStop, At, IInv, TypeOK
<1>2. PICK pc \in {"done", "allocating"}, outcome \in Outcomes :
         /\ Moved(s, w, pc, outcome)
         /\ pc = "done" => outcome = "cancelled"
         /\ pc = "allocating" => outcome = worker[s][w].outcome
    BY CheckStopDoes DEF IInv, TypeOK, WorkerState, Outcomes
<1>3. SearchInv(s)'
    BY <1>1 DEF IInv, Inv, SearchInv
<1>4. WorkerInv(s, w)'
    BY <1>1, <1>2 DEF Moved, IInv, Inv, WorkerInv, NotYet
<1>5. QED  BY <1>1, <1>2, <1>3, <1>4, OneWorker DEF IInv, TypeOK, Places, SameJob

LEMMA AllocateKeeps ==
    ASSUME IInv, NEW s \in Searches, NEW w \in Workers, Allocate(s, w)
    PROVE  IInv'
<1> DEFINE next == search[s].next
<1>1. /\ search[s].phase = "searching" /\ worker[s][w].pc = "allocating"
      /\ FlagsAreSound' /\ next \in Nat
    BY FlagsStaySound DEF Allocate, At, IInv, TypeOK, SearchState
<1>2. /\ Became(s, search[s].phase, search[s].stop, Advance(next, w), search[s].winner,
                search[s].result, search[s].asked)
      /\ worker' \in [Searches -> [Workers -> WorkerState]]
      /\ \A t \in Searches, v \in Workers :
            t # s \/ v # w => worker'[t][v] = worker[t][v]
      /\ worker'[s][w].pc = "scanning" /\ worker'[s][w].start = next
      /\ worker'[s][w].at = next /\ worker'[s][w].end = next + ChunkSize(w)
      /\ worker'[s][w].outcome = worker[s][w].outcome
    BY AllocateDoes DEF IInv
<1>3. /\ next < MaxNonce => search'[s].next = next + ChunkSize(w)
      /\ search'[s].next \in Nat /\ next <= search'[s].next
    BY <1>1, <1>2, ChunksAreNotEmpty, NonceAssumption DEF Advance, Became
<1>4. SearchInv(s)'
    BY <1>1, <1>2 DEF IInv, Inv, SearchInv, Became, SameJob
<1>5. WorkerInv(s, w)'
    BY <1>1, <1>2, <1>3, ChunksAreNotEmpty DEF IInv, Inv, WorkerInv, Became, SameJob, NotYet
<1>6. ASSUME NEW v \in Workers, v # w PROVE WorkerInv(s, v)'
    <2>1. worker'[s][v] = worker[s][v]
        BY <1>2, <1>6
    <2>2. worker[s][v] \in WorkerState
        BY DEF IInv, TypeOK
    <2>3. worker[s][v].end \in Nat
        BY <2>2 DEF WorkerState
    <2>4. QED  BY <1>1, <1>2, <1>3, <2>1, <2>3 DEF IInv, Inv, WorkerInv, Became, SameJob
<1>7. ASSUME NEW v \in Workers, v # w, worker[s][v].pc = "scanning",
             worker[s][v].start < MaxNonce
      PROVE  worker'[s][v].end <= worker'[s][w].start
    BY <1>2, <1>7 DEF IInv, Inv, WorkerInv
<1>8. Disjoint(s)'
    BY <1>2, <1>7 DEF IInv, Inv, Disjoint
<1>9. \A v \in Workers : InChunk(s, v)'
    BY <1>1, <1>2, ChunksAreNotEmpty DEF IInv, TypeOK, InChunk
<1>10. \A t \in Searches : t # s => SameLocals(t)
    BY <1>2 DEF SameLocals, Became
<1>11. Inv(s)'
    BY <1>4, <1>5, <1>6, <1>8 DEF Inv
<1>12. search' \in [Searches -> SearchState]
    BY <1>2 DEF Became
<1>13. QED  BY <1>1, <1>2, <1>9, <1>10, <1>11, <1>12, OneSearch

LEMMA LoadKeeps ==
    ASSUME IInv, NEW s \in Searches, NEW w \in Workers, LoadExtension(s, w)
    PROVE  IInv'
<1>1. search' = search /\ worker' = worker /\ FlagsAreSound'
    BY DEF LoadExtension, IInv, TypeOK, FlagsAreSound
<1>2. QED  BY <1>1 DEF IInv, TypeOK, InChunk, Inv, SearchInv, Disjoint, WorkerInv, CpuFailed,
                       WithOutcome

LEMMA KernelStepKeeps ==
    ASSUME IInv, NEW s \in Searches, NEW w \in Workers, KernelStep(s, w)
    PROVE  IInv'
<1>1. /\ search' = search /\ search[s].phase = "searching" /\ FlagsAreSound'
      /\ worker[s][w].pc = "scanning"
    BY FlagsStaySound DEF KernelStep, At, IInv, TypeOK
<1>2. SearchInv(s)'
    <2>1. SearchInv(s)
        BY DEF IInv, Inv
    <2>2. QED  BY <1>1, <2>1 DEF SearchInv
<1>3. ASSUME NEW pc \in {"done", "found", "ready"}, NEW outcome \in Outcomes,
             Moved(s, w, pc, outcome),
             outcome = IF pc = "done" THEN "cancelled" ELSE worker[s][w].outcome,
             pc = "found" => worker[s][w].at \in search[s].solutions
      PROVE  IInv'
    <2>1. WorkerInv(s, w)'
        BY <1>1, <1>3 DEF Moved, IInv, Inv, WorkerInv, NotYet
    <2>2. QED  BY <1>1, <1>2, <1>3, <2>1, OneWorker DEF IInv, TypeOK, Places, SameJob
<1>4. ASSUME /\ worker' \in [Searches -> [Workers -> WorkerState]]
             /\ \A t \in Searches, v \in Workers :
                   t # s \/ v # w => worker'[t][v] = worker[t][v]
             /\ worker'[s][w].pc = "scanning"
             /\ worker'[s][w].start = worker[s][w].start
             /\ worker'[s][w].at = worker[s][w].at + 1
             /\ worker[s][w].at + 1 # worker[s][w].end
             /\ worker'[s][w].end = worker[s][w].end
             /\ worker'[s][w].outcome = worker[s][w].outcome
      PROVE  IInv'
    <2>1. \A v \in Workers : WorkerInv(s, v)'
        BY <1>1, <1>4 DEF IInv, Inv, WorkerInv
    <2>2. Disjoint(s)'
        BY <1>1, <1>4 DEF IInv, Inv, Disjoint
    <2>3. worker[s][w] \in WorkerState /\ InChunk(s, w)
        BY DEF IInv, TypeOK
    <2>4. InChunk(s, w)'
        <3>1. /\ worker[s][w].at \in worker[s][w].start .. worker[s][w].end - 1
              /\ worker[s][w].at \in Nat /\ worker[s][w].start \in Nat
              /\ worker[s][w].end \in Nat
            BY <1>1, <2>3 DEF InChunk, WorkerState
        <3>2. \A at, start, end \in Nat :
                 at \in start .. end - 1 /\ at + 1 # end => at + 1 \in start .. end - 1
            OBVIOUS
        <3>3. QED  BY <1>4, <3>1, <3>2 DEF InChunk
    <2>5. \A v \in Workers : InChunk(s, v)'
        BY <1>4, <2>4 DEF IInv, TypeOK, InChunk
    <2>6. \A t \in Searches : t # s => SameLocals(t)
        BY <1>1, <1>4 DEF SameLocals
    <2>7. QED  BY <1>1, <1>2, <1>4, <2>1, <2>2, <2>5, <2>6, OneSearch DEF Inv, IInv, TypeOK
<1>5. worker[s][w].outcome \in Outcomes
    BY DEF IInv, TypeOK, WorkerState
<1>6. CASE Moved(s, w, "done", "cancelled")
    BY <1>3, <1>6 DEF Outcomes
<1>7. CASE worker[s][w].at \in search[s].solutions /\ Moved(s, w, "found", worker[s][w].outcome)
    BY <1>3, <1>5, <1>7
<1>8. CASE Moved(s, w, "ready", worker[s][w].outcome)
    BY <1>3, <1>5, <1>8
<1>9. QED  BY <1>4, <1>6, <1>7, <1>8, KernelStepDoes DEF IInv

LEMMA KernelFailsKeeps ==
    ASSUME IInv, NEW s \in Searches, NEW w \in Workers, KernelFails(s, w)
    PROVE  IInv'
<1>1. /\ search' = search /\ search[s].phase = "searching" /\ FlagsAreSound'
      /\ worker[s][w].pc = "scanning"
    BY FlagsStaySound DEF KernelFails, At, IInv, TypeOK
<1>2. PICK pc \in {"done", "stopping"} :
         Moved(s, w, pc, "error") /\ (pc = "stopping" => ~IsGpu(w))
    BY KernelFailsDoes DEF IInv
<1>3. SearchInv(s)'
    <2>1. SearchInv(s)
        BY DEF IInv, Inv
    <2>2. QED  BY <1>1, <2>1 DEF SearchInv
<1>4. WorkerInv(s, w)'
    BY <1>1, <1>2 DEF Moved, IInv, Inv, WorkerInv, NotYet
<1>5. QED  BY <1>1, <1>2, <1>3, <1>4, OneWorker DEF IInv, TypeOK, Places, SameJob

LEMMA RecordWinnerKeeps ==
    ASSUME IInv, NEW s \in Searches, NEW w \in Workers, RecordWinner(s, w)
    PROVE  IInv'
<1>1. /\ search[s].phase = "searching" /\ FlagsAreSound'
      /\ worker[s][w].pc = "found" /\ worker[s][w].at \in search[s].solutions
    BY FlagsStaySound DEF RecordWinner, At, IInv, TypeOK, Inv, WorkerInv
<1>2. /\ Became(s, search[s].phase, search[s].stop, search[s].next,
                KeptWinner(search[s].winner, worker[s][w].at), search[s].result,
                search[s].asked)
      /\ Moved(s, w, "stopping", "winner")
    BY RecordWinnerDoes DEF IInv
<1>3. search'[s].winner # NoNonce /\ search'[s].winner \in search'[s].solutions
    <2>1. worker[s][w].at # NoNonce
        BY DEF IInv, TypeOK, WorkerState, NoNonce
    <2>2. SearchInv(s)
        BY DEF IInv, Inv
    <2>3. QED  BY <1>1, <1>2, <2>1, <2>2 DEF SearchInv, Became, SameJob, KeptWinner
<1>4. SearchInv(s)'
    BY <1>1, <1>2, <1>3 DEF SearchInv, Became, SameJob
<1>5. WorkerInv(s, w)'
    BY <1>1, <1>2, <1>3 DEF Moved, Became, SameJob, WorkerInv, NotYet
<1>6. QED  BY <1>1, <1>2, <1>3, <1>4, <1>5, OneWorker DEF Became, Places, SameJob

LEMMA SetStopKeeps ==
    ASSUME IInv, NEW s \in Searches, NEW w \in Workers, SetStop(s, w)
    PROVE  IInv'
<1>1. /\ search[s].phase = "searching" /\ FlagsAreSound'
      /\ worker[s][w].pc = "stopping"
    BY FlagsStaySound DEF SetStop, At, IInv, TypeOK
<1>2. /\ Became(s, search[s].phase, TRUE, search[s].next, search[s].winner,
                search[s].result, search[s].asked)
      /\ Moved(s, w, "cancelling", worker[s][w].outcome)
    BY SetStopDoes DEF IInv
<1>3. SearchInv(s)'
    BY <1>1, <1>2 DEF IInv, Inv, SearchInv, Became, SameJob
<1>4. WorkerInv(s, w)'
    BY <1>1, <1>2 DEF Moved, Became, SameJob, IInv, Inv, WorkerInv, NotYet
<1>5. QED  BY <1>1, <1>2, <1>3, <1>4, OneWorker DEF Became, Places, SameJob

LEMMA RaiseCancelKeeps ==
    ASSUME IInv, NEW s \in Searches, NEW w \in Workers, RaiseCancel(s, w)
    PROVE  IInv'
<1>1. /\ search' = search /\ search[s].phase = "searching" /\ FlagsAreSound'
      /\ worker[s][w].pc = "cancelling"
    BY FlagsStaySound DEF RaiseCancel, At, IInv
<1>2. Moved(s, w, "done", worker[s][w].outcome)
    BY PcSet DEF RaiseCancel, Places, IInv
<1>3. SearchInv(s)'
    <2>1. SearchInv(s)
        BY DEF IInv, Inv
    <2>2. QED  BY <1>1, <2>1 DEF SearchInv
<1>4. WorkerInv(s, w)'
    BY <1>1, <1>2 DEF Moved, IInv, Inv, WorkerInv, NotYet
<1>5. QED  BY <1>1, <1>2, <1>3, <1>4, OneWorker DEF IInv, TypeOK, Places, SameJob

LEMMA InvStep == IInv /\ [Next]_vars => IInv'
<1> SUFFICES ASSUME IInv, [Next]_vars PROVE IInv'
    OBVIOUS
<1>1. CASE Next
    BY <1>1, CallKeeps, StartKeeps, ReturnKeeps, PythonTryKeeps, FlagKeeps,
       StartWorkerKeeps, CheckStopKeeps, AllocateKeeps, LoadKeeps, KernelStepKeeps,
       KernelFailsKeeps, RecordWinnerKeeps, SetStopKeeps,
       RaiseCancelKeeps DEF Next, CallerStep, WorkerStep
<1>2. CASE UNCHANGED vars
    BY <1>2 DEF vars, flags, IInv, TypeOK, FlagsAreSound, InChunk, Inv, SearchInv, Disjoint,
                WorkerInv, CpuFailed, WithOutcome
<1>3. QED  BY <1>1, <1>2

LEMMA Invariant == Spec => []IInv
BY InvInit, InvStep, PTL DEF Spec

----------------------------------------------------------------------------
(* Why a search by workers is cancelled, when it has the flag for itself    *)
(* and a CPU worker to surface its errors.                                  *)

Alone ==
    /\ \A s, t \in Searches : s = t
    /\ CpuWorkers > 0

\* What gets workers out of their kernels and loops.
Stopped(s) == cancel \/ search[s].stop \/ WithOutcome(s, "cancelled") # {}

\* What stops a search that nobody asked to stop.
Decided(s) == CpuFailed(s) \/ WithOutcome(s, "winner") # {}

AskedInv(s) ==
    /\ search[s].phase = "searching" /\ ~search[s].asked /\ Stopped(s) => Decided(s)
    /\ search[s].phase = "python" /\ search[s].backend # "python" /\ cancel => search[s].asked
    /\ search[s].result = "cancelled" /\ search[s].backend # "python" => search[s].asked

LEMMA AskedReturn ==
    ASSUME IInv, Alone, NEW s \in Searches, AskedInv(s), Return(s)
    PROVE  AskedInv(s)'
<1>1. /\ search'[s].asked = search[s].asked /\ ~cancel' /\ SameJob(s, search'[s])
      /\ search'[s].phase # "searching"
      /\ search'[s].result \in {search[s].result, Result(s)}
    BY ReturnDoes DEF IInv, Became, SameJob, Return, ResetFlags
<1>2. ASSUME Result(s) = "cancelled" PROVE search[s].asked
    <2>1. ~CpuFailed(s) /\ search[s].winner = NoNonce
        BY <1>2 DEF Result, CpuFailed
    <2>2. WithOutcome(s, "winner") = {}
        BY <2>1 DEF WithOutcome, IInv, Inv, WorkerInv
    <2>3. 1 \in Workers /\ ~IsGpu(1)
        BY WorkersAssumption DEF Alone, Workers, IsGpu
    <2>4. worker[s][1].pc = "done" /\ worker[s][1].outcome \in Outcomes
        BY <2>3 DEF Return, At, IInv, TypeOK, WorkerState
    <2>5. worker[s][1].outcome \notin {"none", "error", "winner"}
        BY <2>1, <2>2, <2>3, <2>4 DEF IInv, Inv, WorkerInv, NotYet, CpuFailed, WithOutcome
    <2>6. 1 \in WithOutcome(s, "cancelled")
        BY <2>3, <2>4, <2>5 DEF WithOutcome, Outcomes
    <2>7. search[s].phase = "searching" /\ Stopped(s) /\ ~Decided(s)
        BY <2>1, <2>2, <2>6 DEF Return, Stopped, Decided
    <2>8. QED  BY <2>7 DEF AskedInv
<1>3. QED  BY <1>1, <1>2 DEF AskedInv, SameJob

LEMMA AskedOfThread ==
    ASSUME IInv, Alone, NEW s \in Searches, AskedInv(s),
           \/ Call(s) \/ ResetAtStart(s) \/ StartPython(s) \/ PythonTry(s)
           \/ RequestCancel(s) \/ LeaveAutomine(s)
    PROVE  AskedInv(s)'
<1>1. CASE Call(s)
    BY <1>1, CallDoes DEF IInv, Became, SameJob, AskedInv
<1>2. CASE ResetAtStart(s)
    <2>1. PhaseBecame(s, "searching") /\ ~cancel' /\ worker' = worker
        BY <1>2, StartDoes DEF IInv, ResetAtStart, ResetFlags
    <2>2. ~search[s].stop /\ \A w \in Workers : worker[s][w].outcome = "none"
        BY <1>2 DEF ResetAtStart, IInv, Inv, SearchInv, WorkerInv, NotYet
    <2>3. ~Stopped(s)'
        BY <2>1, <2>2 DEF Stopped, WithOutcome, PhaseBecame, Became, SameJob
    <2>4. QED  BY <2>1, <2>3 DEF AskedInv, PhaseBecame, Became, SameJob
<1>3. CASE StartPython(s)
    <2>1. search[s].backend = "python" /\ PhaseBecame(s, "python")
        BY <1>3, StartDoes DEF IInv, StartPython
    <2>2. QED  BY <2>1 DEF AskedInv, PhaseBecame, Became, SameJob
<1>4. CASE PythonTry(s)
    <2>1. search[s].phase = "python" /\ cancel' = cancel
        BY <1>4 DEF PythonTry, flags
    <2>2. /\ search'[s].asked = search[s].asked /\ SameJob(s, search'[s])
          /\ search'[s].phase \in {"python", "returned"}
          /\ \/ cancel
             \/ search'[s].result \in {search[s].result, "found"}
        BY <1>4, PythonTryDoes DEF IInv, Became, SameJob
    <2>3. QED  BY <2>1, <2>2 DEF AskedInv, SameJob
<1>5. CASE RequestCancel(s)
    <2>1. /\ search'[s].phase = search[s].phase /\ search'[s].result = search[s].result
          /\ search'[s].asked = (search[s].asked \/ search[s].phase # "returned")
          /\ SameJob(s, search'[s])
        BY <1>5, RequestCancelDoes DEF IInv, Became, SameJob
    <2>2. QED  BY <2>1 DEF AskedInv, SameJob
<1>6. CASE LeaveAutomine(s)
    BY <1>6 DEF LeaveAutomine, AskedInv
<1>7. QED  BY <1>1, <1>2, <1>3, <1>4, <1>5, <1>6

\* A worker that moves keeps what decided its search, and gets out of a kernel
\* or a loop only when the search was stopped, or decides it.
LEMMA AskedOfMove ==
    ASSUME IInv, NEW s \in Searches, AskedInv(s), NEW w \in Workers, NEW pc,
           NEW outcome, Moved(s, w, pc, outcome), search[s].phase = "searching",
           search'[s].phase = "searching", search'[s].asked = search[s].asked,
           search'[s].result = search[s].result, SameJob(s, search'[s]),
           worker[s][w].outcome \in {"none", outcome},
           Stopped(s)' /\ ~search[s].asked =>
               Stopped(s) \/ outcome = "winner" \/ (outcome = "error" /\ ~IsGpu(w))
    PROVE  AskedInv(s)'
<1>1. Decided(s) => Decided(s)'
    BY DEF Decided, CpuFailed, WithOutcome, Moved
<1>2. outcome = "winner" \/ (outcome = "error" /\ ~IsGpu(w)) => Decided(s)'
    BY DEF Decided, CpuFailed, WithOutcome, Moved
<1>3. QED  BY <1>1, <1>2 DEF AskedInv, SameJob

LEMMA AskedOfWorker ==
    ASSUME IInv, NEW s \in Searches, AskedInv(s), NEW w \in Workers,
           \/ StartWorker(s, w) \/ WorkerStep(s, w) \/ KernelFails(s, w)
    PROVE  AskedInv(s)'
<1> DEFINE here == worker[s][w]
<1>1. WorkerInv(s, w) /\ search[s].phase = "searching"
    BY DEF IInv, Inv, StartWorker, WorkerStep, CheckStop, Allocate, LoadExtension, KernelStep,
           KernelFails, RecordWinner, SetStop, RaiseCancel, At
<1>2. CASE StartWorker(s, w)
    <2>1. Moved(s, w, "ready", here.outcome) /\ search' = search /\ cancel' = cancel
        BY <1>2, PcSet DEF StartWorker, Places, IInv, flags
    <2>2. Stopped(s)' => Stopped(s)
        BY <2>1 DEF Stopped, WithOutcome, Moved
    <2>3. QED  BY <1>1, <2>1, <2>2, AskedOfMove DEF SameJob
<1>3. CASE CheckStop(s, w)
    <2>1. search' = search /\ cancel' = cancel /\ here.pc = "ready"
        BY <1>3 DEF CheckStop, At, flags
    <2>2. CASE search[s].stop /\ Moved(s, w, "done", "cancelled")
        BY <1>1, <2>1, <2>2, AskedOfMove DEF SameJob, WorkerInv, NotYet, Stopped
    <2>3. CASE Moved(s, w, "allocating", here.outcome)
        <3>1. Stopped(s)' => Stopped(s)
            BY <2>1, <2>3 DEF Stopped, WithOutcome, Moved
        <3>2. QED  BY <1>1, <2>1, <2>3, <3>1, AskedOfMove DEF SameJob
    <2>4. QED  BY <1>3, <2>2, <2>3, CheckStopDoes DEF IInv
<1>4. CASE Allocate(s, w)
    <2>1. /\ search'[s].phase = search[s].phase /\ search'[s].stop = search[s].stop
          /\ search'[s].asked = search[s].asked /\ search'[s].result = search[s].result
          /\ cancel' = cancel /\ SameJob(s, search'[s])
          /\ \A v \in Workers : worker'[s][v].outcome = worker[s][v].outcome
        BY <1>4, AllocateDoes DEF IInv, Became, SameJob, Allocate, flags
    <2>2. Stopped(s)' = Stopped(s) /\ Decided(s)' = Decided(s)
        BY <2>1 DEF Stopped, Decided, CpuFailed, WithOutcome
    <2>3. QED  BY <2>1, <2>2 DEF AskedInv, SameJob
<1>5. CASE KernelStep(s, w)
    <2>1. search' = search /\ cancel' = cancel /\ here.pc = "scanning"
        BY <1>5 DEF KernelStep, At, flags
    <2>2. CASE cancel /\ Moved(s, w, "done", "cancelled")
        BY <1>1, <2>1, <2>2, AskedOfMove DEF SameJob, WorkerInv, NotYet, Stopped
    <2>3. CASE \A v \in Workers : worker'[s][v].outcome = worker[s][v].outcome
        <3>1. Stopped(s)' = Stopped(s) /\ Decided(s)' = Decided(s)
            BY <2>1, <2>3 DEF Stopped, Decided, CpuFailed, WithOutcome
        <3>2. QED  BY <2>1, <3>1 DEF AskedInv
    <2>4. QED  BY <1>5, <2>2, <2>3, KernelStepDoes DEF IInv, Moved
<1>6. CASE KernelFails(s, w)
    <2>1. search' = search /\ cancel' = cancel /\ here.pc = "scanning"
        BY <1>6 DEF KernelFails, At, flags
    <2>2. Moved(s, w, IF IsGpu(w) THEN "done" ELSE "stopping", "error")
        BY <1>6, KernelFailsDoes DEF IInv
    <2>3. Stopped(s)' => Stopped(s)
        BY <2>1, <2>2 DEF Stopped, WithOutcome, Moved
    <2>4. QED  BY <1>1, <2>1, <2>2, <2>3, AskedOfMove DEF SameJob, WorkerInv, NotYet
<1>7. CASE RecordWinner(s, w)
    <2>1. here.pc = "found"
        BY <1>7 DEF RecordWinner, At
    <2>2. /\ search'[s].phase = search[s].phase /\ search'[s].asked = search[s].asked
          /\ search'[s].result = search[s].result /\ SameJob(s, search'[s])
          /\ Moved(s, w, "stopping", "winner")
        BY <1>7, RecordWinnerDoes DEF IInv, Became, SameJob
    <2>3. QED  BY <1>1, <2>1, <2>2, AskedOfMove DEF SameJob, WorkerInv, NotYet
<1>8. CASE SetStop(s, w)
    <2>1. here.pc = "stopping"
        BY <1>8 DEF SetStop, At
    <2>2. /\ search'[s].phase = search[s].phase /\ search'[s].asked = search[s].asked
          /\ search'[s].result = search[s].result /\ SameJob(s, search'[s])
          /\ Moved(s, w, "cancelling", here.outcome)
        BY <1>8, SetStopDoes DEF IInv, Became, SameJob
    <2>3. here.outcome = "winner" \/ (here.outcome = "error" /\ ~IsGpu(w))
        BY <1>1, <2>1 DEF WorkerInv
    <2>4. QED  BY <1>1, <2>2, <2>3, AskedOfMove DEF SameJob
<1>9. CASE RaiseCancel(s, w)
    <2>1. here.pc = "cancelling" /\ search' = search
        BY <1>9 DEF RaiseCancel, At
    <2>2. Moved(s, w, "done", here.outcome)
        BY <1>9, PcSet DEF RaiseCancel, Places, IInv
    <2>3. here.outcome = "winner" \/ (here.outcome = "error" /\ ~IsGpu(w))
        BY <1>1, <2>1 DEF WorkerInv
    <2>4. QED  BY <1>1, <2>1, <2>2, <2>3, AskedOfMove DEF SameJob
<1>10. CASE LoadExtension(s, w)
    BY <1>10 DEF LoadExtension, AskedInv, Stopped, Decided, CpuFailed, WithOutcome
<1>11. QED
    BY <1>2, <1>3, <1>4, <1>5, <1>6, <1>7, <1>8, <1>9, <1>10 DEF WorkerStep

AllAsked == \A s \in Searches : AskedInv(s)

LEMMA AskedStep == IInv /\ (Alone => AllAsked) /\ [Next]_vars => (Alone => AllAsked')
<1> SUFFICES ASSUME IInv, Alone, AllAsked, [Next]_vars, NEW s \in Searches
             PROVE  AskedInv(s)'
    BY DEF AllAsked
<1>1. AskedInv(s)
    BY DEF AllAsked
<1>2. CASE Next
    <2>1. \/ Call(s) \/ ResetAtStart(s) \/ StartPython(s) \/ Return(s) \/ PythonTry(s)
          \/ RequestCancel(s) \/ LeaveAutomine(s)
          \/ \E w \in Workers : StartWorker(s, w) \/ WorkerStep(s, w) \/ KernelFails(s, w)
        <3>1. PICK t \in Searches :
                 \/ Call(t) \/ CallerStep(t) \/ RequestCancel(t) \/ LeaveAutomine(t)
                 \/ \E w \in Workers : WorkerStep(t, w) \/ KernelFails(t, w)
            BY <1>2 DEF Next
        <3>2. t = s
            BY DEF Alone
        <3>3. QED  BY <3>1, <3>2 DEF CallerStep
    <2>2. QED  BY <1>1, <2>1, AskedReturn, AskedOfThread, AskedOfWorker
<1>3. CASE UNCHANGED vars
    BY <1>1, <1>3 DEF vars, flags, AskedInv, Stopped, Decided, CpuFailed, WithOutcome
<1>4. QED  BY <1>2, <1>3

----------------------------------------------------------------------------
(* The theorems.                                                           *)

\* The fields of searches and workers have their types, and a worker tries nonces
\* of its chunk only.
THEOREM TypeCorrect == Spec => []TypeOK
<1>1. IInv => TypeOK
    BY DEF IInv
<1>2. QED  BY <1>1, Invariant, PTL

\* Workers never search a nonce twice, whatever the number of workers and the
\* sizes of their chunks.
THEOREM ChunksStayDisjoint == Spec => []ChunksAreDisjoint
<1>1. IInv => ChunksAreDisjoint
    BY DEF IInv, Inv, Disjoint, ChunksAreDisjoint
<1>2. QED  BY <1>1, Invariant, PTL

\* A call in which a worker found a nonce returns one, unless a CPU worker raised.
THEOREM FoundStaysFound == Spec => []FoundIsReturned
<1>1. IInv => FoundIsReturned
    BY DEF IInv, Inv, SearchInv, CpuFailed, FoundIsReturned
<1>2. QED  BY <1>1, Invariant, PTL

\* The first nonce recorded is kept to the end of the search.
THEOREM FirstIsKept == Spec => FirstWinnerStays
<1> DEFINE Kept == \A s \in Searches :
                      search[s].phase = "searching" /\ search[s].winner # NoNonce
                      => search'[s].winner = search[s].winner
<1>1. ASSUME IInv, [Next]_vars PROVE Kept
    <2> SUFFICES ASSUME NEW s \in Searches, search[s].phase = "searching",
                        search[s].winner # NoNonce
                 PROVE  search'[s].winner = search[s].winner
        OBVIOUS
    <2>1. ASSUME NEW t \in Searches, Call(t) PROVE search'[s].winner = search[s].winner
        BY <1>1, <2>1, CallDoes DEF Call, IInv, Became
    <2>2. ASSUME NEW t \in Searches, CallerStep(t)
          PROVE  search'[s].winner = search[s].winner
        <3>1. CASE ResetAtStart(t) \/ StartPython(t)
            BY <1>1, <3>1, StartDoes DEF IInv, PhaseBecame, Became, SameJob
        <3>2. CASE \E w \in Workers : StartWorker(t, w)
            BY <3>2 DEF StartWorker
        <3>3. CASE Return(t)
            BY <1>1, <3>3, ReturnDoes DEF IInv, Became, SameJob
        <3>4. CASE PythonTry(t)
            <4>1. t # s
                BY <3>4 DEF PythonTry
            <4>2. QED  BY <1>1, <3>4, <4>1, PythonTryDoes DEF IInv, Became, SameJob
        <3>5. QED  BY <2>2, <3>1, <3>2, <3>3, <3>4 DEF CallerStep
    <2>3. ASSUME NEW t \in Searches, NEW w \in Workers,
                 WorkerStep(t, w) \/ KernelFails(t, w)
          PROVE  search'[s].winner = search[s].winner
        <3>1. CASE \/ CheckStop(t, w) \/ LoadExtension(t, w) \/ KernelStep(t, w)
                   \/ KernelFails(t, w) \/ RaiseCancel(t, w)
            BY <3>1 DEF CheckStop, LoadExtension, KernelStep, KernelFails, RaiseCancel
        <3>2. CASE Allocate(t, w)
            BY <1>1, <3>2, AllocateDoes DEF IInv, Became, SameJob
        <3>3. CASE RecordWinner(t, w)
            BY <1>1, <3>3, RecordWinnerDoes DEF IInv, Became, SameJob, KeptWinner
        <3>4. CASE SetStop(t, w)
            BY <1>1, <3>4, SetStopDoes DEF IInv, Became, SameJob
        <3>5. QED  BY <2>3, <3>1, <3>2, <3>3, <3>4 DEF WorkerStep
    <2>4. ASSUME NEW t \in Searches, RequestCancel(t) \/ LeaveAutomine(t)
          PROVE  search'[s].winner = search[s].winner
        BY <1>1, <2>4, RequestCancelDoes DEF IInv, Became, SameJob, LeaveAutomine
    <2>5. CASE UNCHANGED vars
        BY <2>5 DEF vars
    <2>6. QED  BY <1>1, <2>1, <2>2, <2>3, <2>4, <2>5 DEF Next
<1>2. IInv /\ [Next]_vars => [Kept]_vars
    BY <1>1
<1>3. QED  BY <1>2, Invariant, PTL DEF Spec, FirstWinnerStays

\* A search that shares the flag with no other and has a CPU worker is cancelled
\* only if somebody asked for it.
THEOREM CancelledOnlyIfAskedWhenAlone == Spec => [](Alone => CancelledOnlyIfAsked)
<1>1. Init => (Alone => AllAsked)
    BY DEF Init, AllAsked, AskedInv, NewSearch
<1>2. AllAsked => CancelledOnlyIfAsked
    BY DEF AllAsked, AskedInv, CancelledOnlyIfAsked
<1> DEFINE Strong == Alone => AllAsked
<1>3. Init => Strong
    BY <1>1
<1>4. IInv /\ Strong /\ [Next]_vars => Strong'
    BY AskedStep
<1>5. Strong => (Alone => CancelledOnlyIfAsked)
    BY <1>2
<1> HIDE DEF Strong
<1>6. QED  BY <1>3, <1>4, <1>5, Invariant, PTL DEF Spec

=============================================================================
