------------------------------- MODULE Tuning -------------------------------
(* core/mining_tuning.py.  Before a search, a mining thread asks for the    *)
(* parameters of the search, one after the other.  An answer comes from the *)
(* memory of the process, from the file mining_tuning.json, or from a       *)
(* benchmark, which measures every candidate, the best ones again, and      *)
(* keeps the fastest.  Benchmarks are timed searches: a cancellation meant  *)
(* for another search of the process ends their workers too, and a          *)
(* candidate looks slower than it is.  Values overridden by environment     *)
(* variables are left out, and so is what a value means: candidates are     *)
(* numbered in the order of the code.                                       *)
EXTENDS Integers, Sequences, FiniteSets, FiniteSetsExt

CONSTANTS
    Threads,       \* the mining threads of the process
    NoThread,
    Machines,      \* [gpu, properties : BOOLEAN, rate : section -> sequence of rates]
    RetriedCount,  \* section -> how many candidates are measured again
    MaxFaults,     \* bound on disturbed measurements and failed writes
    MaxRestarts    \* bound on crashes and restarts

ASSUME TuningAssumption ==
    /\ NoThread \notin Threads
    /\ MaxFaults \in Nat /\ MaxRestarts \in Nat

VARIABLES
    machine,   \* what the process runs on
    disabled,  \* UNCCOIN_DISABLE_MINING_AUTOTUNE
    memory,    \* the four dictionaries _cached_..._results: question -> answer
    file,      \* AUTOTUNE_PATH
    owner,     \* the thread that holds _autotune_lock
    thread,    \* where each thread is
    faults, restarts,
    kept,      \* questions whose answer was saved and not lost since (history)
    spoiled    \* questions whose last benchmark was disturbed (history)

vars == <<machine, disabled, memory, file, owner, thread, faults, restarts, kept, spoiled>>

Launch == "gpu_tuning"
Multiplier == "gpu_chunk_multiplier_tuning"
GpuWorkers == "gpu_worker_tuning"
CpuWorkers == "worker_tuning"
Sections == {Launch, Multiplier, GpuWorkers, CpuWorkers}

\* Every parameter has a candidate, and some are measured again.
Rates == Seq([hybrid : Nat, gpu : Nat]) \ {<<>>}

ASSUME MachinesAssumption ==
    /\ \A m \in Machines : m.gpu \in BOOLEAN /\ m.properties \in BOOLEAN
    /\ \A m \in Machines : m.rate \in [Sections -> Rates]
    /\ RetriedCount \in [Sections -> Nat \ {0}]

----------------------------------------------------------------------------
(* Questions.                                                              *)

\* What _native_proof_of_work asks with each backend, and the resident search.
PlanOf(backend) ==
    CASE ~machine.gpu \/ backend = "native" -> <<CpuWorkers>>
      [] machine.gpu /\ backend = "gpu" -> <<Launch, Multiplier, GpuWorkers>>
      [] machine.gpu /\ backend = "cloud" -> <<Launch, Multiplier>>
      [] OTHER -> <<Launch, Multiplier, GpuWorkers, CpuWorkers>>

Backends == {"native", "gpu", "auto", "cloud"}

\* The arguments of a question are the answers before it: they are the key in memory
\* and the signature in the file.
QuestionAt(plan, got, i) == <<plan[i], SubSeq(got, 1, i - 1)>>
Question(t) == QuestionAt(thread[t].plan, thread[t].got, Len(thread[t].got) + 1)

\* Without the properties of the GPU its answers have no signature.
HasSignature(q) == q[1] = CpuWorkers \/ machine.properties

\* A dictionary after dictionary[q] = answer.
Put(dictionary, q, answer) ==
    [p \in DOMAIN dictionary \cup {q} |-> IF p = q THEN answer ELSE dictionary[p]]

Default == 0
CandidatesOf(section) == DOMAIN machine.rate[section]

----------------------------------------------------------------------------
(* The file.                                                               *)

\* A section maps signatures to entries; files of older versions hold one entry, flat.
EmptySection == [flat |-> FALSE, entries |-> <<>>]
EmptyPayload == [s \in Sections |-> EmptySection]

\* A missing or unreadable file reads as empty.
Payload == IF file.readable THEN file.section ELSE EmptyPayload
Readable(payload) == [readable |-> TRUE, section |-> payload]

InFile(q) == HasSignature(q) /\ q \in DOMAIN Payload[q[1]].entries
Loaded(q) == Payload[q[1]].entries[q]

\* Mutant of SavedIn: the section starts anew with every entry.
SavedAlone(payload, q, answer) ==
    [payload EXCEPT ![q[1]] = [flat |-> FALSE, entries |-> Put(<<>>, q, answer)]]

SavedIn(payload, q, answer) ==
    [payload EXCEPT ![q[1]] =
        [flat |-> FALSE,
         entries |-> Put(IF @.flat THEN <<>> ELSE @.entries, q, answer)]]

----------------------------------------------------------------------------
(* Benchmarks.                                                             *)

Idle == [at |-> "idle", plan |-> <<>>, got |-> <<>>, todo |-> <<>>, score |-> <<>>,
         again |-> {}, sound |-> TRUE, answer |-> Default, payload |-> EmptyPayload]

NoScore == [first |-> 0, hybrid |-> 0, gpu |-> 0]

FirstRound(section) ==
    [c \in CandidatesOf(section) |-> [candidate |-> c, kind |-> "first"]]

\* Mutant of Place: sorted without reverse=True.
PlaceFromSlowest(section, score, c) ==
    Cardinality({d \in CandidatesOf(section) :
                    \/ score[d].first < score[c].first
                    \/ score[d].first = score[c].first /\ d <= c})

\* Candidates by their first score, the fastest first, equal ones in their order.
Place(section, score, c) ==
    Cardinality({d \in CandidatesOf(section) :
                    \/ score[d].first > score[c].first
                    \/ score[d].first = score[c].first /\ d <= c})

Top(section, score) ==
    {c \in CandidatesOf(section) : Place(section, score, c) <= RetriedCount[section]}

\* A worker count is measured again once, the rest twice, launches without CPU workers too.
Repetitions(section) ==
    CASE section = CpuWorkers -> <<"hybrid">>
      [] section = Launch -> <<"gpu", "gpu", "hybrid", "hybrid">>
      [] OTHER -> <<"hybrid", "hybrid">>

\* The candidate at a place.
Ranked(section, score, place) ==
    CHOOSE c \in CandidatesOf(section) : Place(section, score, c) = place

\* How many are measured again: the slice [:count] of the sorted candidates.
Retried(section) == Min({RetriedCount[section], Len(machine.rate[section])})

SecondRound(section, score) ==
    LET kinds == Repetitions(section)
    IN [i \in 1 .. Retried(section) * Len(kinds) |->
           [candidate |-> Ranked(section, score, ((i - 1) \div Len(kinds)) + 1),
            kind |-> kinds[((i - 1) % Len(kinds)) + 1]]]

\* The median of two is their mean, so sums of two are compared; the third part breaks ties.
\* A launch that was not measured again comes after all that were.
Key(section, score, again, c) ==
    CASE section = Launch /\ c \in again -> <<score[c].hybrid, score[c].gpu, c>>
      [] section = Launch /\ c \notin again -> <<0, 2 * score[c].first, c>>
      [] section = CpuWorkers -> <<IF c \in again THEN score[c].hybrid ELSE score[c].first, 0, -c>>
      [] OTHER -> <<IF c \in again THEN score[c].hybrid ELSE 2 * score[c].first, 0,
                    IF section = GpuWorkers THEN -c ELSE c>>

Exceeds(a, b) ==
    \/ a[1] > b[1]
    \/ a[1] = b[1] /\ a[2] > b[2]
    \/ a[1] = b[1] /\ a[2] = b[2] /\ a[3] > b[3]

Chosen(section, score, again) ==
    LET key(c) == Key(section, score, again, c)
        best == CHOOSE c \in CandidatesOf(section) :
                    \A d \in CandidatesOf(section) \ {c} : Exceeds(key(c), key(d))
    IN IF key(best)[1] = 0 /\ key(best)[2] = 0 THEN Default ELSE best

\* What a timed search that nobody disturbs measures.
RateOf(section, m) ==
    IF m.kind = "gpu" THEN machine.rate[section][m.candidate].gpu
    ELSE machine.rate[section][m.candidate].hybrid

\* No candidate is faster than the answer, and where none works it is the default.  A launch
\* on a GPU of unknown properties is not measured.
IsFastest(q, answer) ==
    LET rate == machine.rate[q[1]]
    IN IF \/ q[1] = Launch /\ ~machine.properties
          \/ \A c \in DOMAIN rate : rate[c].hybrid = 0 /\ rate[c].gpu = 0
       THEN answer = Default
       ELSE \/ /\ answer \in DOMAIN rate
               /\ \A c \in DOMAIN rate : rate[c].hybrid <= rate[answer].hybrid
            \/ answer = Default /\ \A c \in DOMAIN rate : rate[c].hybrid = 0

----------------------------------------------------------------------------
(* Actions.                                                                *)

Init ==
    /\ machine \in Machines
    /\ disabled = FALSE
    /\ memory = <<>>
    /\ \/ file = Readable(EmptyPayload)
       \/ file = [readable |-> FALSE, section |-> EmptyPayload]
       \/ \E c \in CandidatesOf(CpuWorkers) : \* written by an older version
              /\ IsFastest(<<CpuWorkers, <<>>>>, c)
              /\ file = Readable([EmptyPayload EXCEPT ![CpuWorkers] =
                           [flat |-> TRUE, entries |-> Put(<<>>, <<CpuWorkers, <<>>>>, c)]])
    /\ owner = NoThread
    /\ thread = [t \in Threads |-> Idle]
    /\ faults = 0 /\ restarts = 0
    /\ kept = {} /\ spoiled = {}

At(t, place) == thread[t].at = place

\* A search begins: proof_of_work, or the plan of the cloud-native miner.
Call(t, backend) ==
    /\ thread[t].at \in {"idle", "mining"}
    /\ thread' = [thread EXCEPT ![t] = [Idle EXCEPT !.at = "asking", !.plan = PlanOf(backend)]]
    /\ UNCHANGED <<machine, disabled, memory, file, owner, faults, restarts, kept, spoiled>>

\* The thread has the answer and goes on with the next question, or with its search.
Told(t, answer) ==
    LET got == Append(thread[t].got, answer)
    IN thread' = [thread EXCEPT ![t] =
           [Idle EXCEPT !.at = IF Len(got) = Len(thread[t].plan) THEN "mining" ELSE "asking",
                        !.plan = thread[t].plan, !.got = got]]

\* get_tuned_...: without the lock.
Look(t) ==
    /\ At(t, "asking")
    /\ \/ disabled /\ Told(t, Default)
       \/ ~disabled /\ Question(t) \in DOMAIN memory /\ Told(t, memory[Question(t)])
       \/ /\ ~disabled /\ Question(t) \notin DOMAIN memory
          /\ thread' = [thread EXCEPT ![t].at = "waiting"]
    /\ UNCHANGED <<machine, disabled, memory, file, owner, faults, restarts, kept, spoiled>>

\* With the properties of the GPU unknown, the default launch is taken without a measurement.
StartBenchmark(t, section) ==
    /\ owner' = t
    /\ thread' = [thread EXCEPT ![t] =
           IF section = Launch /\ ~machine.properties
           THEN [@ EXCEPT !.at = "saving", !.answer = Default]
           ELSE [@ EXCEPT !.at = "measuring", !.todo = FirstRound(section),
                          !.score = [c \in CandidatesOf(section) |-> NoScore]]]
    /\ UNCHANGED memory

Load(t, q) ==
    /\ memory' = Put(memory, q, Loaded(q))
    /\ Told(t, Loaded(q))
    /\ UNCHANGED owner

\* Mutant of Enter: memory is not looked at again under the lock.
EnterBlind(t) ==
    /\ At(t, "waiting") /\ owner = NoThread
    /\ LET q == Question(t)
       IN \/ InFile(q) /\ Load(t, q)
          \/ ~InFile(q) /\ StartBenchmark(t, q[1])
    /\ UNCHANGED <<machine, disabled, file, faults, restarts, kept, spoiled>>

\* get_tuned_...: the lock is taken, memory looked at again, then the file.
Enter(t) ==
    /\ At(t, "waiting") /\ owner = NoThread
    /\ LET q == Question(t)
       IN \/ q \in DOMAIN memory /\ Told(t, memory[q]) /\ UNCHANGED <<memory, owner>>
          \/ q \notin DOMAIN memory /\ InFile(q) /\ Load(t, q)
          \/ q \notin DOMAIN memory /\ ~InFile(q) /\ StartBenchmark(t, q[1])
    /\ UNCHANGED <<machine, disabled, file, faults, restarts, kept, spoiled>>

Scored(t, rate, sound) ==
    LET m == Head(thread[t].todo)
    IN [thread[t] EXCEPT !.todo = Tail(@),
                         !.score[m.candidate][m.kind] = @ + rate,
                         !.sound = @ /\ sound]

\* _measure_hash_rate.  The workers of a disturbed search stop early, its time runs on; a
\* search that fails counts as rate 0.
Measure(t) ==
    /\ At(t, "measuring") /\ thread[t].todo /= <<>>
    /\ \E rate \in 0 .. RateOf(Question(t)[1], Head(thread[t].todo)) :
           LET sound == rate = RateOf(Question(t)[1], Head(thread[t].todo))
           IN /\ sound \/ faults < MaxFaults
              /\ faults' = IF sound THEN faults ELSE faults + 1
              /\ thread' = [thread EXCEPT ![t] = Scored(t, rate, sound)]
    /\ UNCHANGED <<machine, disabled, memory, file, owner, restarts, kept, spoiled>>

MeasureAgain(t) ==
    /\ At(t, "measuring") /\ thread[t].todo = <<>> /\ thread[t].again = {}
    /\ LET section == Question(t)[1]
       IN thread' = [thread EXCEPT ![t].todo = SecondRound(section, thread[t].score),
                                   ![t].again = Top(section, thread[t].score)]
    /\ UNCHANGED <<machine, disabled, memory, file, owner, faults, restarts, kept, spoiled>>

\* The return of _benchmark_...
Choose(t) ==
    /\ At(t, "measuring") /\ thread[t].todo = <<>> /\ thread[t].again /= {}
    /\ LET q == Question(t)
       IN /\ thread' = [thread EXCEPT ![t].at = "saving", ![t].todo = <<>>,
                            ![t].answer = Chosen(q[1], thread[t].score, thread[t].again)]
          /\ spoiled' = IF thread[t].sound THEN spoiled \ {q} ELSE spoiled \cup {q}
    /\ UNCHANGED <<machine, disabled, memory, file, owner, faults, restarts, kept>>

\* The answer goes into memory, and the lock is released.
Leave(t) ==
    /\ memory' = Put(memory, Question(t), thread[t].answer)
    /\ owner' = NoThread
    /\ Told(t, thread[t].answer)

\* _save_cached_...: nothing is saved without a signature; the file is opened, which empties it.
Open(t) ==
    /\ At(t, "saving")
    /\ \/ /\ ~HasSignature(Question(t))
          /\ Leave(t)
          /\ UNCHANGED <<file, faults>>
       \/ /\ HasSignature(Question(t)) /\ faults < MaxFaults \* an OSError
          /\ Leave(t)
          /\ faults' = faults + 1 /\ UNCHANGED file
       \/ /\ HasSignature(Question(t))
          /\ file' = [file EXCEPT !.readable = FALSE]
          /\ thread' = [thread EXCEPT ![t].at = "writing",
                            ![t].payload = SavedIn(Payload, Question(t), thread[t].answer)]
          /\ UNCHANGED <<memory, owner, faults>>
    /\ UNCHANGED <<machine, disabled, restarts, kept, spoiled>>

Write(t) ==
    /\ At(t, "writing")
    /\ Leave(t)
    /\ \/ /\ file' = Readable(thread[t].payload)
          /\ kept' = kept \cup {Question(t)}
          /\ UNCHANGED faults
       \/ /\ faults < MaxFaults \* an OSError after the file was emptied
          /\ faults' = faults + 1
          /\ kept' = {}
          /\ UNCHANGED file
    /\ UNCHANGED <<machine, disabled, restarts, spoiled>>

\* The process ends at any moment and is started again, with or without tuning.
Restart ==
    /\ restarts < MaxRestarts
    /\ restarts' = restarts + 1
    /\ disabled' \in BOOLEAN
    /\ memory' = <<>>
    /\ owner' = NoThread
    /\ thread' = [t \in Threads |-> Idle]
    /\ kept' = IF file.readable THEN kept ELSE {}
    /\ UNCHANGED <<machine, file, faults, spoiled>>

Next ==
    \/ \E t \in Threads :
           \/ \E backend \in Backends : Call(t, backend)
           \/ Look(t)
           \/ Enter(t)
           \/ Measure(t)
           \/ MeasureAgain(t)
           \/ Choose(t)
           \/ Open(t)
           \/ Write(t)
    \/ Restart

Spec == Init /\ [][Next]_vars

----------------------------------------------------------------------------
(* Properties.                                                             *)

TypeOK ==
    /\ machine \in Machines /\ disabled \in BOOLEAN
    /\ owner \in Threads \cup {NoThread}
    /\ \A t \in Threads :
           thread[t].at \in {"idle", "asking", "waiting", "measuring", "saving", "writing",
                            "mining"}
    /\ \A t \in Threads :
           thread[t].at \in {"measuring", "saving", "writing"} <=> owner = t
    /\ faults \in 0 .. MaxFaults /\ restarts \in 0 .. MaxRestarts

\* All threads of a process search with the same parameters, whenever they asked: the
\* look without the lock, the one under it, the file and the benchmark, disturbed or not,
\* saved or not, never give two answers to one question.
OneAnswer ==
    \A t \in Threads : \A i \in DOMAIN thread[t].got :
        disabled \/ LET q == QuestionAt(thread[t].plan, thread[t].got, i)
                    IN q \in DOMAIN memory /\ memory[q] = thread[t].got[i]

\* "benchmarks ... once and caches the fastest result" (docs/mining.md:51): an answer that was
\* saved is not measured again, by no thread and after no restart, unless the file was lost
\* in the middle of a write.
BenchmarkedOnce ==
    \A t \in Threads : At(t, "measuring") => Question(t) \notin kept

\* If nothing disturbed its benchmark, no candidate is faster than the answer: the first round,
\* the choice of those measured again and the ties do not lose it.
FastestUnlessDisturbed ==
    \A q \in DOMAIN memory : q \in spoiled \/ IsFastest(q, memory[q])

\* The same without the condition, as docs/mining.md:51-52 says it.
FastestIsCached == \A q \in DOMAIN memory : IsFastest(q, memory[q])
=============================================================================
