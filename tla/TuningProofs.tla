---------------------------- MODULE TuningProofs ----------------------------
(* The threads of a process never disagree about an answer, measure nothing *)
(* twice and settle on the fastest, for any number of threads, any machines *)
(* and any bounds on faults and restarts.                                   *)
EXTENDS Tuning, FiniteSetTheorems, NaturalsInduction, TLAPS

Busy == {"measuring", "saving", "writing"}

IsSequence(s) == \E S : s \in Seq(S)

\* A record with the fields that matter here.
IsThread(r) ==
    /\ {"at", "plan", "got", "payload"} \subseteq DOMAIN r
    /\ IsSequence(r.got)

ThreadsAreTyped ==
    /\ thread = [t \in Threads |-> thread[t]]
    /\ \A t \in Threads : IsThread(thread[t])

\* The lock is held by the thread that measures, saves or writes, and by no other.
LockIsHeld == \A t \in Threads : thread[t].at \in Busy <=> owner = t

QuestionOf(r) == QuestionAt(r.plan, r.got, Len(r.got) + 1)

\* A question is only benchmarked while memory has no answer to it.  Enter looks under
\* the lock, and only the thread that has the lock adds to memory.
BenchmarksAreNew == \A t \in Threads : owner = t => QuestionOf(thread[t]) \notin DOMAIN memory

\* What a thread was told is what memory says.
ToldBy(r, mem, off) ==
    \A i \in DOMAIN r.got :
        off \/ LET q == QuestionAt(r.plan, r.got, i) IN q \in DOMAIN mem /\ mem[q] = r.got[i]

\* What OneAnswer needs to be inductive.
IInv == ThreadsAreTyped /\ LockIsHeld /\ BenchmarksAreNew /\ OneAnswer

Grows(old, new) == \A q \in DOMAIN old : q \in DOMAIN new /\ new[q] = old[q]

----------------------------------------------------------------------------
(* Sequences.                                                              *)

LEMMA EmptyIsSequence == IsSequence(<<>>)
BY <<>> \in Seq({}) DEF IsSequence

LEMMA AppendedSequence ==
    ASSUME NEW s, IsSequence(s), NEW e
    PROVE /\ IsSequence(Append(s, e))
          /\ Len(s) \in Nat /\ DOMAIN s = 1 .. Len(s)
          /\ DOMAIN Append(s, e) = 1 .. Len(s) + 1
          /\ Append(s, e)[Len(s) + 1] = e
          /\ \A i \in 1 .. Len(s) : Append(s, e)[i] = s[i]
          /\ \A i \in 1 .. Len(s) + 1 : SubSeq(Append(s, e), 1, i - 1) = SubSeq(s, 1, i - 1)
<1>1. PICK S : s \in Seq(S)
  BY DEF IsSequence
<1> DEFINE T == S \cup {e}
           a == Append(s, e)
<1>2. s \in Seq(T)
  BY <1>1
<1>3. e \in T
  OBVIOUS
<1> HIDE DEF T
<1>4. a \in Seq(T) /\ Len(a) = Len(s) + 1 /\ Len(s) \in Nat
  BY <1>2, <1>3
<1>5. a[Len(s) + 1] = e /\ \A i \in 1 .. Len(s) : a[i] = s[i]
  BY <1>2, <1>3
<1>6. ASSUME NEW i \in 1 .. Len(s) + 1
      PROVE SubSeq(a, 1, i - 1) = SubSeq(s, 1, i - 1)
  <2>1. SubSeq(a, 1, i - 1) = [j \in 1 .. i - 1 |-> a[j]]
    BY <1>4
  <2>2. SubSeq(s, 1, i - 1) = [j \in 1 .. i - 1 |-> s[j]]
    BY <1>2, <1>4
  <2>3. \A j \in 1 .. i - 1 : a[j] = s[j]
    BY <1>4, <1>5
  <2> QED
    BY <2>1, <2>2, <2>3
<1> QED
  BY <1>2, <1>4, <1>5, <1>6 DEF IsSequence

----------------------------------------------------------------------------
(* Steps of one thread.                                                    *)

\* What a step that makes r of thread t has to show.
LEMMA ThreadStep ==
    ASSUME IInv, NEW t \in Threads, NEW r, IsThread(r),
           thread' = [thread EXCEPT ![t] = r], disabled' = disabled,
           Grows(memory, memory'), ToldBy(r, memory', disabled),
           r.at \in Busy <=> owner' = t,
           owner' = t => QuestionOf(r) \notin DOMAIN memory',
           \A u \in Threads \ {t} : owner' = u <=> owner = u,
           \A u \in Threads \ {t} : owner = u => memory' = memory
    PROVE IInv'
<1>1. /\ thread'[t] = r
      /\ \A u \in Threads \ {t} : thread'[u] = thread[u]
      /\ thread' = [u \in Threads |-> thread'[u]]
  BY DEF IInv, ThreadsAreTyped
<1>2. ThreadsAreTyped'
  BY <1>1 DEF IInv, ThreadsAreTyped, IsThread
<1>3. LockIsHeld'
  BY <1>1 DEF IInv, LockIsHeld
<1>4. BenchmarksAreNew'
  BY <1>1 DEF IInv, BenchmarksAreNew
<1>5. ASSUME NEW u \in Threads
      PROVE ToldBy(thread'[u], memory', disabled)
  <2>1. CASE u = t
    BY <1>1, <2>1
  <2>2. CASE u /= t
    <3>1. ToldBy(thread[u], memory, disabled)
      BY DEF IInv, OneAnswer, ToldBy
    <3> QED
      BY <1>1, <2>2, <3>1 DEF ToldBy, Grows
  <2> QED
    BY <2>1, <2>2
<1>6. OneAnswer'
  BY <1>5 DEF OneAnswer, ToldBy
<1> QED
  BY <1>2, <1>3, <1>4, <1>6 DEF IInv

\* A thread that goes on without an answer, a lock or a release.
LEMMA QuietStep ==
    ASSUME IInv, NEW t \in Threads, NEW r, IsThread(r),
           thread' = [thread EXCEPT ![t] = r],
           r.plan = thread[t].plan, r.got = thread[t].got,
           r.at \in Busy <=> thread[t].at \in Busy,
           UNCHANGED <<disabled, memory, owner>>
    PROVE IInv'
<1>1. Grows(memory, memory')
  BY DEF Grows
<1>2. ToldBy(thread[t], memory, disabled)
  BY DEF IInv, OneAnswer, ToldBy
<1>3. ToldBy(r, memory', disabled)
  BY <1>2 DEF ToldBy
<1>4. r.at \in Busy <=> owner' = t
  BY DEF IInv, LockIsHeld
<1>5. owner' = t => QuestionOf(r) \notin DOMAIN memory'
  BY DEF IInv, BenchmarksAreNew, QuestionOf
<1> QED
  BY <1>1, <1>3, <1>4, <1>5, ThreadStep

LEMMA FreshThread ==
    ASSUME NEW at, NEW plan, NEW got, IsSequence(got)
    PROVE IsThread([Idle EXCEPT !.at = at, !.plan = plan, !.got = got])
BY DEF Idle, IsThread

\* A thread that is told an answer which memory has or gets, and holds no lock any more.
LEMMA ToldStep ==
    ASSUME IInv, NEW t \in Threads, NEW answer, Told(t, answer), disabled' = disabled,
           \/ disabled
           \/ /\ Question(t) \in DOMAIN memory'
              /\ memory'[Question(t)] = answer,
           Grows(memory, memory'), owner' /= t,
           \A u \in Threads \ {t} : owner' = u <=> owner = u,
           \A u \in Threads \ {t} : owner = u => memory' = memory
    PROVE IInv'
<1> DEFINE got == Append(thread[t].got, answer)
           r == [Idle EXCEPT
                    !.at = IF Len(got) = Len(thread[t].plan) THEN "mining" ELSE "asking",
                    !.plan = thread[t].plan, !.got = got]
<1>1. thread' = [thread EXCEPT ![t] = r]
  BY DEF Told
<1>2. /\ r.plan = thread[t].plan /\ r.got = got
      /\ r.at \in {"mining", "asking"}
  BY DEF Idle
<1>3. IsSequence(thread[t].got)
  BY DEF IInv, ThreadsAreTyped, IsThread
<1>4. IsThread(r)
  BY <1>3, AppendedSequence, FreshThread
<1>5. ToldBy(thread[t], memory, disabled)
  BY DEF IInv, OneAnswer, ToldBy
<1> HIDE DEF r
<1>6. ASSUME NEW i \in DOMAIN got, ~disabled
      PROVE /\ QuestionAt(r.plan, r.got, i) \in DOMAIN memory'
            /\ memory'[QuestionAt(r.plan, r.got, i)] = got[i]
  <2>1. /\ Len(thread[t].got) \in Nat /\ DOMAIN thread[t].got = 1 .. Len(thread[t].got)
        /\ i \in 1 .. Len(thread[t].got) + 1
        /\ SubSeq(got, 1, i - 1) = SubSeq(thread[t].got, 1, i - 1)
        /\ got[Len(thread[t].got) + 1] = answer
        /\ i \in 1 .. Len(thread[t].got) => got[i] = thread[t].got[i]
    BY <1>3, AppendedSequence
  <2>2. QuestionAt(r.plan, r.got, i) = QuestionAt(thread[t].plan, thread[t].got, i)
    BY <1>2, <2>1 DEF QuestionAt
  <2>3. CASE i = Len(thread[t].got) + 1
    BY <1>6, <2>1, <2>2, <2>3 DEF Question
  <2>4. CASE i \in 1 .. Len(thread[t].got)
    BY <1>5, <1>6, <2>1, <2>2, <2>4 DEF ToldBy, Grows
  <2> QED
    BY <2>1, <2>3, <2>4
<1>7. ToldBy(r, memory', disabled)
  BY <1>2, <1>6 DEF ToldBy
<1>8. r.at \notin Busy
  BY <1>2 DEF Busy
<1> QED
  BY <1>1, <1>4, <1>7, <1>8, ThreadStep

----------------------------------------------------------------------------
(* One lemma per action.                                                   *)

LEMMA InitEstablishes == Init => IInv
<1> SUFFICES ASSUME Init PROVE IInv
  OBVIOUS
<1>1. \A t \in Threads : thread[t] = Idle
  BY DEF Init
<1>2. /\ Idle.at = "idle" /\ Idle.got = <<>>
      /\ {"at", "plan", "got", "payload"} \subseteq DOMAIN Idle
  BY DEF Idle
<1>3. ThreadsAreTyped
  BY <1>1, <1>2, EmptyIsSequence DEF Init, ThreadsAreTyped, IsThread
<1>4. LockIsHeld
  BY <1>1, <1>2, TuningAssumption DEF Init, LockIsHeld, Busy
<1>5. BenchmarksAreNew
  BY TuningAssumption DEF Init, BenchmarksAreNew
<1>6. OneAnswer
  BY <1>1, <1>2 DEF OneAnswer
<1> QED
  BY <1>3, <1>4, <1>5, <1>6 DEF IInv

LEMMA CallKeeps ==
    ASSUME IInv, NEW t \in Threads, NEW backend, Call(t, backend)
    PROVE IInv'
<1> DEFINE r == [Idle EXCEPT !.at = "asking", !.plan = PlanOf(backend)]
<1>1. thread' = [thread EXCEPT ![t] = r]
  BY DEF Call
<1>2. {"at", "plan", "got", "payload"} \subseteq DOMAIN r /\ r.at = "asking" /\ r.got = <<>>
  BY DEF Idle
<1> HIDE DEF r
<1>3. IsThread(r)
  BY <1>2, EmptyIsSequence DEF IsThread
<1>4. owner /= t
  BY DEF IInv, LockIsHeld, Call, Busy
<1>5. Grows(memory, memory') /\ ToldBy(r, memory', disabled)
  BY <1>2 DEF Call, Grows, ToldBy
<1>6. UNCHANGED <<disabled, memory, owner>>
  BY DEF Call
<1> QED
  BY <1>1, <1>2, <1>3, <1>4, <1>5, <1>6, ThreadStep DEF Busy

\* A step that sets other fields of the thread than its plan and what it was told.
LEMMA FieldStep ==
    ASSUME IInv, NEW t \in Threads,
           thread' = [thread EXCEPT ![t] = thread'[t]],
           DOMAIN thread'[t] = DOMAIN thread[t],
           thread'[t].plan = thread[t].plan, thread'[t].got = thread[t].got,
           thread'[t].at \in Busy <=> thread[t].at \in Busy,
           UNCHANGED <<disabled, memory, owner>>
    PROVE IInv'
<1>1. IsThread(thread'[t])
  BY DEF IInv, ThreadsAreTyped, IsThread
<1> QED
  BY <1>1, QuietStep

LEMMA LookKeeps ==
    ASSUME IInv, NEW t \in Threads, Look(t)
    PROVE IInv'
<1>1. /\ UNCHANGED <<disabled, memory, owner>>
      /\ thread[t].at = "asking"
      /\ thread[t] = thread[t] /\ DOMAIN thread = Threads
      /\ {"at", "plan", "got", "payload"} \subseteq DOMAIN thread[t]
  BY DEF Look, At, IInv, ThreadsAreTyped, IsThread
<1>2. Grows(memory, memory') /\ owner' /= t
  BY <1>1 DEF IInv, LockIsHeld, Busy, Grows
<1>3. CASE disabled /\ Told(t, Default)
  BY <1>1, <1>2, <1>3, ToldStep
<1>4. CASE Question(t) \in DOMAIN memory /\ Told(t, memory[Question(t)])
  BY <1>1, <1>2, <1>4, ToldStep
<1>5. CASE thread' = [thread EXCEPT ![t].at = "waiting"]
  BY <1>1, <1>5, FieldStep DEF Busy
<1> QED
  BY <1>3, <1>4, <1>5 DEF Look

LEMMA EnterKeeps ==
    ASSUME IInv, NEW t \in Threads, Enter(t)
    PROVE IInv'
<1> DEFINE q == Question(t)
<1>1. /\ disabled' = disabled
      /\ thread[t].at = "waiting" /\ owner = NoThread
      /\ DOMAIN thread = Threads
      /\ {"at", "plan", "got", "payload"} \subseteq DOMAIN thread[t]
      /\ t /= NoThread /\ \A u \in Threads : owner /= u
  BY TuningAssumption DEF Enter, At, IInv, ThreadsAreTyped, IsThread
<1>2. CASE q \in DOMAIN memory /\ Told(t, memory[q]) /\ UNCHANGED <<memory, owner>>
  <2>1. Grows(memory, memory')
    BY <1>2 DEF Grows
  <2> QED
    BY <1>1, <1>2, <2>1, ToldStep
<1>3. CASE q \notin DOMAIN memory /\ Load(t, q)
  <2>1. q \in DOMAIN memory' /\ memory'[q] = Loaded(q) /\ Grows(memory, memory')
    BY <1>3 DEF Load, Grows, Put
  <2> QED
    BY <1>1, <1>3, <2>1, ToldStep DEF Load
<1>4. CASE q \notin DOMAIN memory /\ StartBenchmark(t, q[1])
  <2>1. /\ thread' = [thread EXCEPT ![t] = thread'[t]]
        /\ {"at", "plan", "got", "payload"} \subseteq DOMAIN thread'[t]
        /\ thread'[t].plan = thread[t].plan /\ thread'[t].got = thread[t].got
        /\ thread'[t].at \in {"measuring", "saving"}
    BY <1>1, <1>4 DEF StartBenchmark
  <2>2. owner' = t /\ memory' = memory
    BY <1>4 DEF StartBenchmark
  <2>3. IsThread(thread'[t])
    BY <2>1 DEF IInv, ThreadsAreTyped, IsThread
  <2>4. Grows(memory, memory')
    BY <2>2 DEF Grows
  <2>5. ToldBy(thread'[t], memory', disabled)
    BY <2>1, <2>2 DEF IInv, OneAnswer, ToldBy
  <2>6. QuestionOf(thread'[t]) \notin DOMAIN memory'
    BY <1>4, <2>1, <2>2 DEF QuestionOf, Question
  <2> QED
    BY <1>1, <2>1, <2>2, <2>3, <2>4, <2>5, <2>6, ThreadStep DEF Busy
<1> QED
  BY <1>2, <1>3, <1>4 DEF Enter

\* Measure, MeasureAgain and Choose set fields of a thread that goes on holding the lock.
LEMMA BenchmarkKeeps ==
    ASSUME IInv, NEW t \in Threads, Measure(t) \/ MeasureAgain(t) \/ Choose(t)
    PROVE IInv'
<1>1. /\ UNCHANGED <<disabled, memory, owner>>
      /\ thread[t].at = "measuring"
      /\ DOMAIN thread = Threads
      /\ {"at", "plan", "got", "payload"} \subseteq DOMAIN thread[t]
  BY DEF Measure, MeasureAgain, Choose, At, IInv, ThreadsAreTyped, IsThread
<1>2. CASE Measure(t)
  <2>1. PICK rate, sound : thread' = [thread EXCEPT ![t] = Scored(t, rate, sound)]
    BY <1>2 DEF Measure
  <2>2. /\ DOMAIN thread'[t] = DOMAIN thread[t]
        /\ thread'[t].at = thread[t].at
        /\ thread'[t].plan = thread[t].plan /\ thread'[t].got = thread[t].got
    BY <1>1, <2>1 DEF Scored
  <2> QED
    BY <1>1, <2>1, <2>2, FieldStep
<1>3. CASE MeasureAgain(t)
  <2>1. /\ thread' = [thread EXCEPT ![t] = thread'[t]]
        /\ DOMAIN thread'[t] = DOMAIN thread[t]
        /\ thread'[t].at = thread[t].at
        /\ thread'[t].plan = thread[t].plan /\ thread'[t].got = thread[t].got
    BY <1>1, <1>3 DEF MeasureAgain
  <2> QED
    BY <1>1, <2>1, FieldStep
<1>4. CASE Choose(t)
  <2>1. /\ thread' = [thread EXCEPT ![t] = thread'[t]]
        /\ DOMAIN thread'[t] = DOMAIN thread[t]
        /\ thread'[t].at = "saving"
        /\ thread'[t].plan = thread[t].plan /\ thread'[t].got = thread[t].got
    BY <1>1, <1>4 DEF Choose
  <2> QED
    BY <1>1, <2>1, FieldStep DEF Busy
<1> QED
  BY <1>2, <1>3, <1>4

LEMMA LeaveKeeps ==
    ASSUME IInv, NEW t \in Threads, owner = t, Leave(t), disabled' = disabled
    PROVE IInv'
<1>1. Question(t) \notin DOMAIN memory
  BY DEF IInv, BenchmarksAreNew, Question, QuestionOf
<1>2. /\ Question(t) \in DOMAIN memory'
      /\ memory'[Question(t)] = thread[t].answer
      /\ Grows(memory, memory')
  BY <1>1 DEF Leave, Grows, Put
<1>3. owner' = NoThread /\ NoThread \notin Threads
  BY TuningAssumption DEF Leave
<1> QED
  BY <1>2, <1>3, ToldStep DEF Leave

LEMMA OpenKeeps ==
    ASSUME IInv, NEW t \in Threads, Open(t)
    PROVE IInv'
<1>1. /\ disabled' = disabled /\ owner = t
      /\ thread[t].at = "saving"
      /\ DOMAIN thread = Threads
      /\ {"at", "plan", "got", "payload"} \subseteq DOMAIN thread[t]
  BY DEF Open, At, IInv, LockIsHeld, Busy, ThreadsAreTyped, IsThread
<1>2. CASE Leave(t)
  BY <1>1, <1>2, LeaveKeeps
<1>3. CASE /\ thread' = [thread EXCEPT ![t].at = "writing",
                            ![t].payload = SavedIn(Payload, Question(t), thread[t].answer)]
           /\ UNCHANGED <<memory, owner>>
  <2>1. /\ thread' = [thread EXCEPT ![t] = thread'[t]]
        /\ DOMAIN thread'[t] = DOMAIN thread[t]
        /\ thread'[t].at = "writing"
        /\ thread'[t].plan = thread[t].plan /\ thread'[t].got = thread[t].got
    BY <1>1, <1>3
  <2> QED
    BY <1>1, <1>3, <2>1, FieldStep DEF Busy
<1> QED
  BY <1>2, <1>3 DEF Open

LEMMA WriteKeeps ==
    ASSUME IInv, NEW t \in Threads, Write(t)
    PROVE IInv'
<1>1. disabled' = disabled /\ owner = t /\ Leave(t)
  BY DEF Write, At, IInv, LockIsHeld, Busy
<1> QED
  BY <1>1, LeaveKeeps

LEMMA RestartKeeps == IInv /\ Restart => IInv'
<1> SUFFICES ASSUME Restart PROVE IInv'
  OBVIOUS
<1>1. \A t \in Threads : thread'[t] = Idle
  BY DEF Restart
<1>2. /\ Idle.at = "idle" /\ Idle.got = <<>>
      /\ {"at", "plan", "got", "payload"} \subseteq DOMAIN Idle
  BY DEF Idle
<1>3. ThreadsAreTyped'
  BY <1>1, <1>2, EmptyIsSequence DEF Restart, ThreadsAreTyped, IsThread
<1>4. LockIsHeld' /\ BenchmarksAreNew'
  BY <1>1, <1>2, TuningAssumption DEF Restart, LockIsHeld, BenchmarksAreNew, Busy
<1>5. OneAnswer'
  BY <1>1, <1>2 DEF OneAnswer
<1> QED
  BY <1>3, <1>4, <1>5 DEF IInv

----------------------------------------------------------------------------
(* The file.                                                               *)

\* A thread that still has a question to ask.
Asks(r) == r.plan \in Seq(Sections) /\ Len(r.got) < Len(r.plan)

ThreadsAsk == \A t \in Threads : thread[t].at \notin {"idle", "mining"} => Asks(thread[t])

Holds(payload, q) ==
    /\ q[1] \in Sections
    /\ q \in DOMAIN payload[q[1]].entries
    /\ ~payload[q[1]].flat

\* What was saved is in the file or, while the file is being written, in what is written.
FileIsTyped == DOMAIN file = {"readable", "section"} /\ DOMAIN file.section = Sections

KeptInFile ==
    /\ \A q \in kept : HasSignature(q)
    /\ file.readable => \A q \in kept : Holds(file.section, q)
    /\ ~file.readable => kept = {} \/ \E t \in Threads : thread[t].at = "writing"

KeptInPayload ==
    \A t \in Threads : thread[t].at = "writing" =>
        /\ ~file.readable
        /\ HasSignature(Question(t))
        /\ DOMAIN thread[t].payload = Sections
        /\ \A q \in kept \cup {Question(t)} : Holds(thread[t].payload, q)

\* What BenchmarkedOnce needs to be inductive, with IInv.
SInv == ThreadsAsk /\ FileIsTyped /\ KeptInFile /\ KeptInPayload /\ BenchmarkedOnce

LEMMA InitEstablishesSInv == Init => SInv
<1> SUFFICES ASSUME Init PROVE SInv
  OBVIOUS
<1>1. \A t \in Threads : thread[t] = Idle /\ Idle.at = "idle"
  BY DEF Init, Idle
<1>2. kept = {}
  BY DEF Init
<1>3. FileIsTyped
  BY DEF Init, FileIsTyped, Readable, EmptyPayload
<1> QED
  BY <1>1, <1>2, <1>3 DEF SInv, ThreadsAsk, KeptInFile, KeptInPayload, BenchmarkedOnce, At

\* A step of one thread that leaves the file alone.
LEMMA SavedStep ==
    ASSUME IInv, SInv, NEW t \in Threads,
           thread' = [thread EXCEPT ![t] = thread'[t]],
           thread'[t].at \notin {"idle", "mining"} => Asks(thread'[t]),
           thread'[t].at /= "writing", thread[t].at /= "writing",
           thread'[t].at = "measuring" => QuestionOf(thread'[t]) \notin kept,
           UNCHANGED <<machine, file, kept>>
    PROVE SInv'
<1>1. \A u \in Threads \ {t} : thread'[u] = thread[u]
  BY DEF IInv, ThreadsAreTyped
<1>2. ThreadsAsk'
  BY <1>1 DEF SInv, ThreadsAsk
<1>3. FileIsTyped'
  BY DEF SInv, FileIsTyped
<1>4. \A q \in kept : HasSignature(q)'
  BY DEF SInv, KeptInFile, HasSignature
<1>5. KeptInFile'
  BY <1>1, <1>4 DEF SInv, KeptInFile
<1>6. KeptInPayload'
  BY <1>1 DEF SInv, KeptInPayload, HasSignature, Question
<1>7. BenchmarkedOnce'
  BY <1>1 DEF SInv, BenchmarkedOnce, At, Question, QuestionOf
<1> QED
  BY <1>2, <1>3, <1>5, <1>6, <1>7 DEF SInv

LEMMA ToldAsks ==
    ASSUME IInv, NEW t \in Threads, NEW answer, Asks(thread[t]), Told(t, answer)
    PROVE /\ thread' = [thread EXCEPT ![t] = thread'[t]]
          /\ thread'[t].at \in {"mining", "asking"}
          /\ thread'[t].at = "asking" => Asks(thread'[t])
<1> DEFINE got == Append(thread[t].got, answer)
           r == [Idle EXCEPT
                    !.at = IF Len(got) = Len(thread[t].plan) THEN "mining" ELSE "asking",
                    !.plan = thread[t].plan, !.got = got]
<1>1. thread' = [thread EXCEPT ![t] = r] /\ DOMAIN thread = Threads
  BY DEF Told, IInv, ThreadsAreTyped
<1>2. /\ r.plan = thread[t].plan /\ r.got = got
      /\ r.at = IF Len(got) = Len(thread[t].plan) THEN "mining" ELSE "asking"
  BY DEF Idle
<1> HIDE DEF r
<1>3. PICK S : thread[t].got \in Seq(S)
  BY DEF IInv, ThreadsAreTyped, IsThread, IsSequence
<1>4. /\ Len(got) = Len(thread[t].got) + 1
      /\ Len(thread[t].got) \in Nat /\ Len(thread[t].plan) \in Nat
  <2>1. thread[t].got \in Seq(S \cup {answer})
    BY <1>3
  <2> QED
    BY <2>1 DEF Asks
<1> QED
  BY <1>1, <1>2, <1>4 DEF Asks

LEMMA QuestionIsKnown ==
    ASSUME IInv, NEW t \in Threads, Asks(thread[t])
    PROVE Question(t)[1] \in Sections
<1>1. PICK S : thread[t].got \in Seq(S)
  BY DEF IInv, ThreadsAreTyped, IsThread, IsSequence
<1>2. Len(thread[t].got) + 1 \in 1 .. Len(thread[t].plan)
  BY <1>1 DEF Asks
<1> QED
  BY <1>2 DEF Asks, Question, QuestionAt

LEMMA PlansAreKnown ==
    ASSUME NEW backend
    PROVE PlanOf(backend) \in Seq(Sections) /\ Len(PlanOf(backend)) > 0
<1>1. {Launch, Multiplier, GpuWorkers, CpuWorkers} \subseteq Sections
  BY DEF Sections
<1> QED
  BY <1>1 DEF PlanOf

LEMMA CallSaves ==
    ASSUME IInv, SInv, NEW t \in Threads, NEW backend, Call(t, backend)
    PROVE SInv'
<1> DEFINE r == [Idle EXCEPT !.at = "asking", !.plan = PlanOf(backend)]
<1>1. thread' = [thread EXCEPT ![t] = r] /\ DOMAIN thread = Threads
  BY DEF Call, IInv, ThreadsAreTyped
<1>2. r.at = "asking" /\ r.got = <<>> /\ r.plan = PlanOf(backend)
  BY DEF Idle
<1> HIDE DEF r
<1>3. Asks(r)
  BY <1>2, PlansAreKnown DEF Asks
<1>4. thread'[t] = r /\ thread[t].at /= "writing" /\ UNCHANGED <<machine, file, kept>>
  BY <1>1 DEF Call
<1> QED
  BY <1>1, <1>2, <1>3, <1>4, SavedStep

LEMMA LookSaves ==
    ASSUME IInv, SInv, NEW t \in Threads, Look(t)
    PROVE SInv'
<1>1. /\ UNCHANGED <<machine, file, kept>>
      /\ thread[t].at = "asking" /\ Asks(thread[t])
      /\ DOMAIN thread = Threads
      /\ {"at", "plan", "got", "payload"} \subseteq DOMAIN thread[t]
  BY DEF Look, At, SInv, ThreadsAsk, IInv, ThreadsAreTyped, IsThread
<1>2. CASE \E answer : Told(t, answer)
  <2>1. PICK answer : Told(t, answer)
    BY <1>2
  <2>2. /\ thread' = [thread EXCEPT ![t] = thread'[t]]
        /\ thread'[t].at \in {"mining", "asking"}
        /\ thread'[t].at = "asking" => Asks(thread'[t])
    BY <1>1, <2>1, ToldAsks
  <2> QED
    BY <1>1, <2>2, SavedStep
<1>3. CASE thread' = [thread EXCEPT ![t].at = "waiting"]
  <2>1. /\ thread' = [thread EXCEPT ![t] = thread'[t]]
        /\ thread'[t].at = "waiting"
        /\ thread'[t].plan = thread[t].plan /\ thread'[t].got = thread[t].got
    BY <1>1, <1>3
  <2>2. Asks(thread'[t])
    BY <1>1, <2>1 DEF Asks
  <2> QED
    BY <1>1, <2>1, <2>2, SavedStep
<1> QED
  BY <1>2, <1>3 DEF Look

\* The lock is free, so nobody writes: what is not in the file was not kept.
LEMMA NotInFile ==
    ASSUME IInv, SInv, NEW q, owner = NoThread, ~InFile(q)
    PROVE q \notin kept
<1> SUFFICES ASSUME q \in kept PROVE FALSE
  OBVIOUS
<1>1. \A t \in Threads : thread[t].at /= "writing"
  BY TuningAssumption DEF IInv, LockIsHeld, Busy
<1>2. HasSignature(q) /\ file.readable
  BY <1>1 DEF SInv, KeptInFile
<1>3. Holds(file.section, q)
  BY <1>2 DEF SInv, KeptInFile
<1> QED
  BY <1>2, <1>3 DEF InFile, Payload, Holds

LEMMA EnterSaves ==
    ASSUME IInv, SInv, NEW t \in Threads, Enter(t)
    PROVE SInv'
<1> DEFINE q == Question(t)
<1>1. /\ UNCHANGED <<machine, file, kept>>
      /\ thread[t].at = "waiting" /\ Asks(thread[t]) /\ owner = NoThread
      /\ DOMAIN thread = Threads
      /\ {"at", "plan", "got", "payload"} \subseteq DOMAIN thread[t]
  BY DEF Enter, At, SInv, ThreadsAsk, IInv, ThreadsAreTyped, IsThread
<1>2. CASE \E answer : Told(t, answer)
  <2>1. PICK answer : Told(t, answer)
    BY <1>2
  <2>2. /\ thread' = [thread EXCEPT ![t] = thread'[t]]
        /\ thread'[t].at \in {"mining", "asking"}
        /\ thread'[t].at = "asking" => Asks(thread'[t])
    BY <1>1, <2>1, ToldAsks
  <2> QED
    BY <1>1, <2>2, SavedStep
<1>3. CASE ~InFile(q) /\ StartBenchmark(t, q[1])
  <2>1. /\ thread' = [thread EXCEPT ![t] = thread'[t]]
        /\ thread'[t].plan = thread[t].plan /\ thread'[t].got = thread[t].got
        /\ thread'[t].at \in {"measuring", "saving"}
    BY <1>1, <1>3 DEF StartBenchmark
  <2>2. Asks(thread'[t])
    BY <1>1, <2>1 DEF Asks
  <2>3. q \notin kept
    BY <1>1, <1>3, NotInFile
  <2>4. QuestionOf(thread'[t]) \notin kept
    BY <2>1, <2>3 DEF QuestionOf, Question
  <2> QED
    BY <1>1, <2>1, <2>2, <2>4, SavedStep
<1> QED
  BY <1>2, <1>3 DEF Enter, Load

LEMMA BenchmarkSaves ==
    ASSUME IInv, SInv, NEW t \in Threads, Measure(t) \/ MeasureAgain(t) \/ Choose(t)
    PROVE SInv'
<1>1. /\ UNCHANGED <<machine, file, kept>>
      /\ thread[t].at = "measuring" /\ Asks(thread[t]) /\ Question(t) \notin kept
      /\ DOMAIN thread = Threads
      /\ {"at", "plan", "got", "payload"} \subseteq DOMAIN thread[t]
  BY DEF Measure, MeasureAgain, Choose, At, SInv, ThreadsAsk, BenchmarkedOnce, IInv,
     ThreadsAreTyped, IsThread
<1>2. ASSUME thread' = [thread EXCEPT ![t] = thread'[t]],
             thread'[t].at \in {"measuring", "saving"},
             thread'[t].plan = thread[t].plan, thread'[t].got = thread[t].got
      PROVE SInv'
  <2>1. Asks(thread'[t]) /\ QuestionOf(thread'[t]) \notin kept
    BY <1>1, <1>2 DEF Asks, Question, QuestionOf
  <2> QED
    BY <1>1, <1>2, <2>1, SavedStep
<1>3. CASE Measure(t)
  <2>1. PICK rate, sound : thread' = [thread EXCEPT ![t] = Scored(t, rate, sound)]
    BY <1>3 DEF Measure
  <2> QED
    BY <1>1, <1>2, <2>1 DEF Scored
<1>4. CASE MeasureAgain(t)
  BY <1>1, <1>2, <1>4 DEF MeasureAgain
<1>5. CASE Choose(t)
  BY <1>1, <1>2, <1>5 DEF Choose
<1> QED
  BY <1>3, <1>4, <1>5

\* An entry is added to its section; no other section changes, and no entry is lost.
LEMMA SavedInHolds ==
    ASSUME NEW payload, DOMAIN payload = Sections, NEW q, q[1] \in Sections, NEW answer
    PROVE /\ DOMAIN SavedIn(payload, q, answer) = Sections
          /\ Holds(SavedIn(payload, q, answer), q)
          /\ \A p : Holds(payload, p) => Holds(SavedIn(payload, q, answer), p)
<1> DEFINE entries == IF payload[q[1]].flat THEN <<>> ELSE payload[q[1]].entries
           section == [flat |-> FALSE, entries |-> Put(entries, q, answer)]
           new == SavedIn(payload, q, answer)
<1>1. new = [payload EXCEPT ![q[1]] = section]
  BY DEF SavedIn
<1>2. DOMAIN section.entries = DOMAIN entries \cup {q} /\ section.flat = FALSE
  BY DEF Put
<1> HIDE DEF section, new
<1>3. new[q[1]] = section /\ \A s \in Sections \ {q[1]} : new[s] = payload[s]
  BY <1>1
<1>4. ASSUME NEW p, Holds(payload, p) PROVE Holds(new, p)
  <2>1. CASE p[1] = q[1]
    BY <1>2, <1>3, <1>4, <2>1 DEF Holds
  <2>2. CASE p[1] /= q[1]
    BY <1>3, <1>4, <2>2 DEF Holds
  <2> QED
    BY <2>1, <2>2
<1> QED
  BY <1>1, <1>2, <1>3, <1>4 DEF Holds, new

\* The thread that holds the lock is the only one that can write.
LEMMA OneWrites ==
    ASSUME IInv, NEW t \in Threads, owner = t
    PROVE \A u \in Threads \ {t} : thread[u].at \notin Busy
BY DEF IInv, LockIsHeld

LEMMA LeaveAsks ==
    ASSUME IInv, NEW t \in Threads, Asks(thread[t]), Leave(t)
    PROVE /\ thread' = [thread EXCEPT ![t] = thread'[t]]
          /\ thread'[t].at \in {"mining", "asking"}
          /\ thread'[t].at = "asking" => Asks(thread'[t])
BY ToldAsks DEF Leave

LEMMA OpenSaves ==
    ASSUME IInv, SInv, NEW t \in Threads, Open(t)
    PROVE SInv'
<1> DEFINE q == Question(t)
<1>1. /\ machine' = machine /\ kept' = kept /\ owner = t
      /\ thread[t].at = "saving" /\ Asks(thread[t])
      /\ DOMAIN thread = Threads
      /\ {"at", "plan", "got", "payload"} \subseteq DOMAIN thread[t]
  BY DEF Open, At, SInv, ThreadsAsk, IInv, LockIsHeld, Busy, ThreadsAreTyped, IsThread
<1>2. CASE Leave(t) /\ file' = file
  BY <1>1, <1>2, LeaveAsks, SavedStep
<1>3. CASE /\ HasSignature(q)
           /\ file' = [file EXCEPT !.readable = FALSE]
           /\ thread' = [thread EXCEPT ![t].at = "writing",
                            ![t].payload = SavedIn(Payload, q, thread[t].answer)]
  <2>1. /\ thread'[t].at = "writing"
        /\ thread'[t].plan = thread[t].plan /\ thread'[t].got = thread[t].got
        /\ \A u \in Threads \ {t} : thread'[u] = thread[u]
    BY <1>1, <1>3
  <2>2. "payload" \in DOMAIN thread[t] =>
            thread'[t].payload = SavedIn(Payload, q, thread[t].answer)
    BY <1>1, <1>3
  <2>3. "payload" \in DOMAIN thread[t]
    BY <1>1 DEF IInv, ThreadsAreTyped, IsThread
  <2>4. \A u \in Threads \ {t} : thread[u].at /= "writing"
    BY <1>1, OneWrites DEF Busy
  <2>5. ~file'.readable /\ file'.section = file.section
        /\ DOMAIN file' = {"readable", "section"}
    BY <1>3 DEF SInv, FileIsTyped
  <2>6. DOMAIN Payload = Sections /\ \A p \in kept : Holds(Payload, p)
    <3>1. CASE file.readable
      BY <3>1 DEF Payload, SInv, FileIsTyped, KeptInFile
    <3>2. CASE ~file.readable
      <4>1. kept = {}
        BY <1>1, <2>4, <3>2 DEF SInv, KeptInFile
      <4> QED
        BY <3>2, <4>1 DEF Payload, EmptyPayload
    <3> QED
      BY <3>1, <3>2
  <2>7. /\ DOMAIN thread'[t].payload = Sections
        /\ \A p \in kept \cup {q} : Holds(thread'[t].payload, p)
    BY <1>1, <2>2, <2>3, <2>6, SavedInHolds, QuestionIsKnown
  <2>8. Question(t)' = q /\ Asks(thread'[t])
    BY <1>1, <2>1 DEF Question, Asks
  <2>9. ThreadsAsk'
    BY <2>1, <2>8 DEF SInv, ThreadsAsk
  <2>10. FileIsTyped'
    BY <2>5 DEF SInv, FileIsTyped
  <2>11. KeptInFile'
    BY <1>1, <2>1, <2>5 DEF SInv, KeptInFile, HasSignature
  <2>12. KeptInPayload'
    BY <1>1, <1>3, <2>1, <2>4, <2>5, <2>7, <2>8 DEF KeptInPayload, HasSignature
  <2>13. BenchmarkedOnce'
    BY <1>1, <2>1 DEF SInv, BenchmarkedOnce, At, Question
  <2> QED
    BY <2>9, <2>10, <2>11, <2>12, <2>13 DEF SInv
<1> QED
  BY <1>2, <1>3 DEF Open

LEMMA WriteSaves ==
    ASSUME IInv, SInv, NEW t \in Threads, Write(t)
    PROVE SInv'
<1> DEFINE q == Question(t)
<1>1. /\ machine' = machine /\ owner = t
      /\ thread[t].at = "writing" /\ Asks(thread[t]) /\ Leave(t)
      /\ DOMAIN thread = Threads
  BY DEF Write, At, SInv, ThreadsAsk, IInv, LockIsHeld, Busy, ThreadsAreTyped
<1>2. /\ thread'[t].at \in {"mining", "asking"}
      /\ thread'[t].at = "asking" => Asks(thread'[t])
      /\ \A u \in Threads \ {t} : thread'[u] = thread[u]
  BY <1>1, LeaveAsks
<1>3. \A u \in Threads \ {t} : thread[u].at \notin Busy
  BY <1>1, OneWrites
<1>4. \A u \in Threads : thread'[u].at \notin {"measuring", "writing"}
  BY <1>2, <1>3 DEF Busy
<1>5. ThreadsAsk'
  BY <1>2 DEF SInv, ThreadsAsk
<1>6. KeptInPayload' /\ BenchmarkedOnce'
  BY <1>4 DEF KeptInPayload, BenchmarkedOnce, At
<1>7. FileIsTyped' /\ KeptInFile'
  <2>1. CASE file' = Readable(thread[t].payload) /\ kept' = kept \cup {q}
    <3>1. file'.readable /\ file'.section = thread[t].payload
          /\ DOMAIN file' = {"readable", "section"}
      BY <2>1 DEF Readable
    <3>2. /\ HasSignature(q) /\ DOMAIN thread[t].payload = Sections
          /\ \A p \in kept' : Holds(thread[t].payload, p)
      BY <1>1, <2>1 DEF SInv, KeptInPayload
    <3>3. \A p \in kept' : HasSignature(p)
      BY <2>1, <3>2 DEF SInv, KeptInFile
    <3>4. \A p \in kept' : HasSignature(p)'
      BY <1>1, <3>3 DEF HasSignature
    <3> QED
      BY <3>1, <3>2, <3>4 DEF FileIsTyped, KeptInFile
  <2>2. CASE kept' = {} /\ file' = file
    BY <2>2 DEF SInv, FileIsTyped, KeptInFile
  <2> QED
    BY <2>1, <2>2 DEF Write
<1> QED
  BY <1>5, <1>6, <1>7 DEF SInv

LEMMA RestartSaves == SInv /\ Restart => SInv'
<1> SUFFICES ASSUME SInv, Restart PROVE SInv'
  OBVIOUS
<1>1. \A t \in Threads : thread'[t].at = "idle"
  BY DEF Restart, Idle
<1>2. ThreadsAsk' /\ KeptInPayload' /\ BenchmarkedOnce'
  BY <1>1 DEF ThreadsAsk, KeptInPayload, BenchmarkedOnce, At
<1>3. FileIsTyped' /\ KeptInFile'
  BY DEF Restart, SInv, FileIsTyped, KeptInFile, HasSignature
<1> QED
  BY <1>2, <1>3 DEF SInv

----------------------------------------------------------------------------
(* The theorems.                                                           *)

\* The inductive invariant: whoever benchmarks holds the lock, and memory has no answer
\* to the question.
THEOREM IInvHolds == Spec => []IInv
<1>1. ASSUME IInv, [Next]_vars PROVE IInv'
  <2>1. CASE \E t \in Threads, backend \in Backends : Call(t, backend)
    BY <1>1, <2>1, CallKeeps
  <2>2. CASE \E t \in Threads : Look(t)
    BY <1>1, <2>2, LookKeeps
  <2>3. CASE \E t \in Threads : Enter(t)
    BY <1>1, <2>3, EnterKeeps
  <2>4. CASE \E t \in Threads : Measure(t) \/ MeasureAgain(t) \/ Choose(t)
    BY <1>1, <2>4, BenchmarkKeeps
  <2>5. CASE \E t \in Threads : Open(t)
    BY <1>1, <2>5, OpenKeeps
  <2>6. CASE \E t \in Threads : Write(t)
    BY <1>1, <2>6, WriteKeeps
  <2>7. CASE Restart
    BY <1>1, <2>7, RestartKeeps
  <2>8. CASE UNCHANGED vars
    BY <1>1, <2>8 DEF vars, IInv, ThreadsAreTyped, IsThread, LockIsHeld, BenchmarksAreNew,
       OneAnswer
  <2> QED
    BY <1>1, <2>1, <2>2, <2>3, <2>4, <2>5, <2>6, <2>7, <2>8 DEF Next
<1> QED
  BY <1>1, InitEstablishes, PTL DEF Spec

\* All threads of a process search with the same parameters: the two looks at memory and
\* the lock of core/mining_tuning.py never let two answers to one question out.
THEOREM AnswersAgree == Spec => []OneAnswer
<1>1. IInv => OneAnswer
  BY DEF IInv
<1> QED
  BY <1>1, IInvHolds, PTL

\* With the file: what was saved is in it, or in what the thread with the lock is writing.
THEOREM SInvHolds == Spec => []SInv
<1>1. ASSUME IInv, SInv, [Next]_vars PROVE SInv'
  <2>1. CASE \E t \in Threads, backend \in Backends : Call(t, backend)
    BY <1>1, <2>1, CallSaves
  <2>2. CASE \E t \in Threads : Look(t)
    BY <1>1, <2>2, LookSaves
  <2>3. CASE \E t \in Threads : Enter(t)
    BY <1>1, <2>3, EnterSaves
  <2>4. CASE \E t \in Threads : Measure(t) \/ MeasureAgain(t) \/ Choose(t)
    BY <1>1, <2>4, BenchmarkSaves
  <2>5. CASE \E t \in Threads : Open(t)
    BY <1>1, <2>5, OpenSaves
  <2>6. CASE \E t \in Threads : Write(t)
    BY <1>1, <2>6, WriteSaves
  <2>7. CASE Restart
    BY <1>1, <2>7, RestartSaves
  <2>8. CASE UNCHANGED vars
    BY <1>1, <2>8 DEF vars, SInv, ThreadsAsk, FileIsTyped, KeptInFile, KeptInPayload,
       BenchmarkedOnce, At, Question, HasSignature
  <2> QED
    BY <1>1, <2>1, <2>2, <2>3, <2>4, <2>5, <2>6, <2>7, <2>8 DEF Next
<1> QED
  BY <1>1, InitEstablishesSInv, IInvHolds, PTL DEF Spec

\* An answer that was saved is not measured again, by no thread and after no restart of
\* core/mining_tuning.py, unless the file was lost in the middle of a write.
THEOREM NothingIsMeasuredTwice == Spec => []BenchmarkedOnce
<1>1. SInv => BenchmarkedOnce
  BY DEF SInv
<1> QED
  BY <1>1, SInvHolds, PTL

----------------------------------------------------------------------------
(* The least element of a set of naturals.                                *)

LEMMA LeastNatural == \A T \in SUBSET Nat : T # {} => \E m \in T : \A k \in T : m <= k
<1>1. IsWellFoundedOn(OpToRel(<, Nat), Nat)
  BY NatLessThanWellFounded
<1>2. SUFFICES ASSUME NEW T \in SUBSET Nat, T # {}
               PROVE  \E m \in T : \A k \in T : m <= k
  OBVIOUS
<1>3. PICK m \in T : \A k \in T : ~(<<k, m>> \in OpToRel(<, Nat))
  BY <1>1, <1>2, WFMin
<1>4. \A k \in T : ~(k < m)
  BY <1>3, <1>2 DEF OpToRel
<1> QED
  BY <1>4, <1>2

----------------------------------------------------------------------------
(* The fastest.                                                            *)

Jobs == [candidate : Nat, kind : {"first", "hybrid", "gpu"}]

Size(section) == Len(machine.rate[section])
HybridRate(section, c) == machine.rate[section][c].hybrid
GpuRate(section, c) == machine.rate[section][c].gpu

\* The scores when the first p measurements of the first round are done, and nobody disturbed.
FirstScore(section, p) ==
    [c \in CandidatesOf(section) |->
        [first |-> IF c <= p THEN HybridRate(section, c) ELSE 0, hybrid |-> 0, gpu |-> 0]]

Measured(section) == FirstScore(section, Size(section))

Rank(section, c) == Place(section, Measured(section), c)
Often(section) == Len(Repetitions(section))

\* Of the first x repetitions of a candidate, how many are of each kind.
Between(x, n) == IF x <= 0 THEN 0 ELSE IF x >= n THEN n ELSE x
HybridRuns(section, x) ==
    CASE section = Launch -> Between(x - 2, 2)
      [] section = CpuWorkers -> Between(x, 1)
      [] OTHER -> Between(x, 2)
GpuRuns(section, x) == IF section = Launch THEN Between(x, 2) ELSE 0

Times(n, rate) == IF n = 0 THEN 0 ELSE IF n = 1 THEN rate ELSE rate + rate

\* The scores when the first p measurements of the second round are done.
SecondScore(section, p) ==
    [c \in CandidatesOf(section) |->
        LET x == p - (Rank(section, c) - 1) * Often(section)
        IN [first |-> HybridRate(section, c),
            hybrid |-> Times(HybridRuns(section, x), HybridRate(section, c)),
            gpu |-> Times(GpuRuns(section, x), GpuRate(section, c))]]

\* The jobs of a round that are left after the first p.
LeftOf(todo, round, size, p) ==
    /\ todo \in Seq(Jobs) /\ Len(todo) = size - p
    /\ \A j \in 1 .. Len(todo) : todo[j] = round[p + j]

InFirstRound(r, section) ==
    \E p \in 0 .. Size(section) :
        /\ r.again = {}
        /\ r.score = FirstScore(section, p)
        /\ LeftOf(r.todo, FirstRound(section), Size(section), p)

InSecondRound(r, section) ==
    \E p \in 0 .. Retried(section) * Often(section) :
        /\ r.again = Top(section, Measured(section))
        /\ r.score = SecondScore(section, p)
        /\ LeftOf(r.todo, SecondRound(section, Measured(section)),
                  Retried(section) * Often(section), p)

Fast(q, answer) == q \in spoiled \/ IsFastest(q, answer)

\* An entry that a thread may load.
Listed(payload, q) ==
    q[1] \in Sections /\ HasSignature(q) /\ q \in DOMAIN payload[q[1]].entries

EntriesAreFast(payload) == \A q : Listed(payload, q) => Fast(q, payload[q[1]].entries[q])

ThreadIsFast(r, q) ==
    /\ {"todo", "score", "again", "sound", "answer"} \subseteq DOMAIN r
    /\ r.at \in {"asking", "waiting"} => r.again = {}
    /\ r.at = "measuring" =>
          /\ ~InFile(q)
          /\ ~(q[1] = Launch /\ ~machine.properties)
          /\ r.sound => InFirstRound(r, q[1]) \/ InSecondRound(r, q[1])
    /\ r.at \in {"saving", "writing"} => Fast(q, r.answer)
    /\ r.at = "writing" => EntriesAreFast(r.payload)

\* What FastestUnlessDisturbed needs to be inductive, with IInv and SInv.
FInv ==
    /\ machine \in Machines
    /\ FastestUnlessDisturbed
    /\ file.readable => EntriesAreFast(file.section)
    /\ \A t \in Threads : ThreadIsFast(thread[t], QuestionOf(thread[t]))

----------------------------------------------------------------------------
(* Candidates and their places.                                            *)

LEMMA RatesAreKnown ==
    ASSUME machine \in Machines, NEW section \in Sections
    PROVE /\ Size(section) \in Nat /\ Size(section) >= 1
          /\ CandidatesOf(section) = 1 .. Size(section)
          /\ \A c \in CandidatesOf(section) :
                HybridRate(section, c) \in Nat /\ GpuRate(section, c) \in Nat
<1> DEFINE rate == machine.rate[section]
           R == [hybrid : Nat, gpu : Nat]
<1>1. rate \in Seq(R) /\ rate /= <<>>
  BY MachinesAssumption DEF Rates
<1> HIDE DEF rate, R
<1>2. Len(rate) \in Nat /\ DOMAIN rate = 1 .. Len(rate) /\ \A c \in 1 .. Len(rate) : rate[c] \in R
  BY <1>1
<1>3. Len(rate) /= 0
  BY <1>1, <1>2
<1> QED
  BY <1>2, <1>3 DEF Size, CandidatesOf, HybridRate, GpuRate, rate, R

\* The candidates that are not after c.
UpTo(section, score, c) ==
    {d \in CandidatesOf(section) :
        \/ score[d].first > score[c].first
        \/ score[d].first = score[c].first /\ d <= c}

HasFirsts(section, score) == \A c \in CandidatesOf(section) : score[c].first \in Nat

LEMMA PlaceType ==
    ASSUME machine \in Machines, NEW section \in Sections, NEW score,
           HasFirsts(section, score), NEW c \in CandidatesOf(section)
    PROVE /\ IsFiniteSet(UpTo(section, score, c))
          /\ Place(section, score, c) = Cardinality(UpTo(section, score, c))
          /\ Place(section, score, c) \in 1 .. Size(section)
<1> DEFINE n == Size(section)
           S == UpTo(section, score, c)
<1>1. n \in Nat /\ n >= 1 /\ CandidatesOf(section) = 1 .. n
  BY RatesAreKnown
<1>2. IsFiniteSet(1 .. n) /\ Cardinality(1 .. n) = n
  <2>1. 1 \in Int /\ n \in Int
    BY <1>1
  <2>2. IsFiniteSet(1 .. n) /\ Cardinality(1 .. n) = IF 1 > n THEN 0 ELSE n - 1 + 1
    BY <2>1, FS_Interval
  <2> QED
    BY <1>1, <2>2
<1>3. S \in SUBSET (1 .. n) /\ c \in S
  BY <1>1 DEF UpTo, HasFirsts
<1> HIDE DEF S, n
<1>4. IsFiniteSet(S) /\ Cardinality(S) <= n /\ Cardinality(S) \in Nat
  BY <1>2, <1>3, FS_Subset, FS_CardinalityType
<1>5. Cardinality(S) /= 0
  BY <1>3, <1>4, FS_EmptySet
<1>6. Cardinality(S) \in 1 .. n
  BY <1>1, <1>4, <1>5
<1>7. Place(section, score, c) = Cardinality(S)
  BY DEF Place, UpTo, S
<1> QED
  BY <1>4, <1>6, <1>7 DEF S, n

\* Whoever is before another has a smaller place, and of two one is before the other.
LEMMA PlacesDiffer ==
    ASSUME machine \in Machines, NEW section \in Sections, NEW score,
           HasFirsts(section, score),
           NEW c \in CandidatesOf(section), NEW d \in CandidatesOf(section), c /= d
    PROVE Place(section, score, c) /= Place(section, score, d)
<1>1. ASSUME NEW a \in CandidatesOf(section), NEW b \in CandidatesOf(section), a /= b,
             a \in UpTo(section, score, b)
      PROVE Place(section, score, a) < Place(section, score, b)
  <2> DEFINE A == UpTo(section, score, a)
             B == UpTo(section, score, b)
  <2>1. a \in Nat /\ b \in Nat /\ \A e \in CandidatesOf(section) : e \in Nat
    BY RatesAreKnown
  <2>2. b \in B /\ b \notin A /\ \A e \in A : e \in B
    <3>1. \A e \in CandidatesOf(section) : score[e].first \in Nat
      BY DEF HasFirsts
    <3> QED
      BY <1>1, <2>1, <3>1 DEF UpTo
  <2>3. /\ IsFiniteSet(A) /\ IsFiniteSet(B)
        /\ Place(section, score, a) = Cardinality(A)
        /\ Place(section, score, b) = Cardinality(B)
    BY PlaceType
  <2> HIDE DEF A, B
  <2>4. Cardinality(A) <= Cardinality(B) /\ Cardinality(A) /= Cardinality(B)
    BY <2>2, <2>3, FS_Subset
  <2>5. Cardinality(A) \in Nat /\ Cardinality(B) \in Nat
    BY <2>3, FS_CardinalityType
  <2> QED
    BY <2>3, <2>4, <2>5
<1>2. c \in UpTo(section, score, d) \/ d \in UpTo(section, score, c)
  <2>1. c \in Nat /\ d \in Nat
    BY RatesAreKnown
  <2> QED
    BY <2>1 DEF UpTo, HasFirsts
<1>3. Place(section, score, c) \in Nat /\ Place(section, score, d) \in Nat
  BY PlaceType, RatesAreKnown
<1> QED
  BY <1>1, <1>2, <1>3

\* Every place is taken, by one candidate.
LEMMA PlacesAreTaken ==
    ASSUME machine \in Machines, NEW section \in Sections, NEW score,
           HasFirsts(section, score)
    PROVE /\ \A i \in 1 .. Size(section) :
                /\ Ranked(section, score, i) \in CandidatesOf(section)
                /\ Place(section, score, Ranked(section, score, i)) = i
          /\ \A c \in CandidatesOf(section) :
                Ranked(section, score, Place(section, score, c)) = c
<1> DEFINE n == Size(section)
           place == [c \in 1 .. n |-> Place(section, score, c)]
<1>1. n \in Nat /\ CandidatesOf(section) = 1 .. n
  BY RatesAreKnown
<1>2. place \in [1 .. n -> 1 .. n]
  BY <1>1, PlaceType
<1>3. \A c, d \in 1 .. n : c /= d => place[c] /= place[d]
  BY <1>1, PlacesDiffer
<1> HIDE DEF place
<1>4. place \in Injection(1 .. n, 1 .. n)
  BY <1>2, <1>3 DEF Injection, IsInjective
<1>5. IsFiniteSet(1 .. n)
  <2>1. 1 \in Int /\ n \in Int
    BY <1>1
  <2> QED
    BY <2>1, FS_Interval
<1> HIDE DEF n
<1>6. place \in Surjection(1 .. n, 1 .. n)
  BY <1>4, <1>5, FS_Injection
<1>7. \A i \in 1 .. n : \E c \in 1 .. n : place[c] = i
  BY <1>6 DEF Surjection
<1>8. \A c \in 1 .. n : place[c] = Place(section, score, c) /\ place[c] \in 1 .. n
  BY <1>2 DEF place
<1>9. ASSUME NEW i \in 1 .. n
      PROVE /\ Ranked(section, score, i) \in 1 .. n
            /\ Place(section, score, Ranked(section, score, i)) = i
  <2>1. \E c \in CandidatesOf(section) : Place(section, score, c) = i
    BY <1>1, <1>7, <1>8 DEF n
  <2> QED
    BY <1>1, <2>1 DEF Ranked, n
<1>10. ASSUME NEW c \in 1 .. n
       PROVE Ranked(section, score, Place(section, score, c)) = c
  <2>1. Place(section, score, c) \in 1 .. n
    BY <1>8
  <2>2. /\ Ranked(section, score, Place(section, score, c)) \in 1 .. n
        /\ Place(section, score, Ranked(section, score, Place(section, score, c)))
              = Place(section, score, c)
    BY <1>9, <2>1
  <2> QED
    BY <1>3, <1>8, <2>2
<1> QED
  BY <1>1, <1>9, <1>10 DEF n

\* The best are measured again: at least one, and whoever is not has no higher first score.
LEMMA TopIsFastest ==
    ASSUME machine \in Machines, NEW section \in Sections, NEW score,
           HasFirsts(section, score)
    PROVE /\ Top(section, score) /= {}
          /\ Top(section, score) \subseteq CandidatesOf(section)
          /\ \A c \in Top(section, score) :
                \A d \in CandidatesOf(section) \ Top(section, score) :
                    score[d].first <= score[c].first
<1>1. RetriedCount[section] \in Nat /\ RetriedCount[section] >= 1
  BY MachinesAssumption
<1>2. 1 \in 1 .. Size(section)
  BY RatesAreKnown
<1>3. Ranked(section, score, 1) \in Top(section, score)
  BY <1>1, <1>2, PlacesAreTaken DEF Top
<1>4. ASSUME NEW c \in Top(section, score), NEW d \in CandidatesOf(section) \ Top(section, score),
             score[d].first > score[c].first
      PROVE FALSE
  <2> DEFINE A == UpTo(section, score, d)
             B == UpTo(section, score, c)
  <2>1. c \in CandidatesOf(section) /\ c \in Nat /\ d \in Nat
        /\ \A e \in CandidatesOf(section) : e \in Nat
    BY RatesAreKnown DEF Top
  <2>2. \A e \in A : e \in B
    <3>1. ASSUME NEW e \in A PROVE e \in B
      <4>1. e \in CandidatesOf(section) /\ d \in CandidatesOf(section)
        BY DEF UpTo
      <4>2. score[e].first \in Nat /\ score[d].first \in Nat /\ score[c].first \in Nat
        BY <2>1, <4>1 DEF HasFirsts
      <4>3. score[e].first >= score[d].first
        BY <4>2 DEF UpTo
      <4>4. score[e].first > score[c].first
        BY <1>4, <4>2, <4>3
      <4> QED
        BY <4>1, <4>4 DEF UpTo
    <3> QED
      BY <3>1
  <2>3. /\ IsFiniteSet(A) /\ IsFiniteSet(B)
        /\ Place(section, score, d) = Cardinality(A)
        /\ Place(section, score, c) = Cardinality(B)
    BY <2>1, PlaceType
  <2> HIDE DEF A, B
  <2>4. Cardinality(A) <= Cardinality(B)
    BY <2>2, <2>3, FS_Subset
  <2>5. Cardinality(A) \in Nat /\ Cardinality(B) \in Nat
    BY <2>3, FS_CardinalityType
  <2>6. Place(section, score, c) <= RetriedCount[section]
    BY DEF Top
  <2>7. ~(Place(section, score, d) <= RetriedCount[section])
    BY DEF Top
  <2> QED
    BY <1>1, <2>3, <2>4, <2>5, <2>6, <2>7
<1>5. \A c \in Top(section, score), d \in CandidatesOf(section) \ Top(section, score) :
          score[d].first <= score[c].first
  BY <1>4 DEF HasFirsts, Top
<1> QED
  BY <1>3, <1>5 DEF Top

----------------------------------------------------------------------------
(* The choice.                                                             *)

\* What holds of 1 and goes on holding holds of the last number.
LEMMA ReachesLast ==
    ASSUME NEW last \in Nat, last >= 1, NEW S, 1 \in S,
           \A n \in 1 .. last : n /= last /\ n \in S => n + 1 \in S
    PROVE  last \in S
<1> DEFINE Missing == {n \in 1 .. last : n \notin S}
<1>1. SUFFICES ASSUME last \notin S PROVE FALSE
  OBVIOUS
<1>2. Missing \in SUBSET Nat /\ Missing /= {}
  BY <1>1
<1>3. PICK n \in Missing : \A m \in Missing : n <= m
  <2> HIDE DEF Missing
  <2> QED
    BY <1>2, LeastNatural
<1>4. n /= 1 /\ n \in 1 .. last
  OBVIOUS
<1>5. n - 1 \in 1 .. last /\ n - 1 /= last /\ (n - 1) + 1 = n
  BY <1>4
<1>6. n - 1 \in S
  BY <1>3, <1>5
<1> QED
  BY <1>5, <1>6

NatScores(section, score) ==
    \A c \in CandidatesOf(section) :
        score[c].first \in Nat /\ score[c].hybrid \in Nat /\ score[c].gpu \in Nat

LEMMA KeysDiffer ==
    ASSUME machine \in Machines, NEW section \in Sections, NEW score, NEW again,
           NatScores(section, score), NEW c \in CandidatesOf(section)
    PROVE /\ Key(section, score, again, c)[1] \in Nat
          /\ Key(section, score, again, c)[2] \in Nat
          /\ Key(section, score, again, c)[3] =
                IF section \in {CpuWorkers, GpuWorkers} THEN -c ELSE c
<1>1. c \in Nat /\ score[c].first \in Nat /\ score[c].hybrid \in Nat /\ score[c].gpu \in Nat
  BY RatesAreKnown DEF NatScores
<1>2. /\ Launch /= CpuWorkers /\ Launch /= GpuWorkers /\ Launch /= Multiplier
      /\ Multiplier /= CpuWorkers /\ Multiplier /= GpuWorkers /\ CpuWorkers /= GpuWorkers
  BY DEF Launch, Multiplier, GpuWorkers, CpuWorkers
<1>3. CASE section = Launch
  BY <1>1, <1>2, <1>3 DEF Key
<1>4. CASE section = CpuWorkers
  BY <1>1, <1>2, <1>4 DEF Key
<1>5. CASE section = GpuWorkers
  BY <1>1, <1>2, <1>5 DEF Key
<1>6. CASE section = Multiplier
  BY <1>1, <1>2, <1>6 DEF Key
<1> QED
  BY <1>3, <1>4, <1>5, <1>6 DEF Sections

\* One candidate is better than all the others.
LEMMA BestExists ==
    ASSUME machine \in Machines, NEW section \in Sections, NEW score, NEW again,
           NatScores(section, score)
    PROVE \E b \in CandidatesOf(section) : \A d \in CandidatesOf(section) \ {b} :
              Exceeds(Key(section, score, again, b), Key(section, score, again, d))
<1> DEFINE n == Size(section)
           key(c) == Key(section, score, again, c)
           S == {k \in 1 .. n : \E b \in 1 .. k : \A d \in (1 .. k) \ {b} : Exceeds(key(b), key(d))}
<1>1. n \in Nat /\ n >= 1 /\ CandidatesOf(section) = 1 .. n
  BY RatesAreKnown
<1> HIDE DEF n
<1>2. ASSUME NEW c \in 1 .. n
      PROVE key(c)[1] \in Int /\ key(c)[2] \in Int /\ key(c)[3] \in Int
  BY <1>1, KeysDiffer
<1>3. ASSUME NEW c \in 1 .. n, NEW d \in 1 .. n, c /= d
      PROVE key(c)[3] /= key(d)[3]
  <2>1. /\ key(c)[3] = IF section \in {CpuWorkers, GpuWorkers} THEN -c ELSE c
        /\ key(d)[3] = IF section \in {CpuWorkers, GpuWorkers} THEN -d ELSE d
    BY <1>1, KeysDiffer
  <2> HIDE DEF key
  <2> QED
    BY <1>3, <2>1
<1> HIDE DEF key
<1>4. ASSUME NEW c \in 1 .. n, NEW d \in 1 .. n, c /= d
      PROVE Exceeds(key(c), key(d)) \/ Exceeds(key(d), key(c))
  BY <1>2, <1>3, <1>4 DEF Exceeds
<1>5. ASSUME NEW c \in 1 .. n, NEW d \in 1 .. n, NEW e \in 1 .. n,
             Exceeds(key(c), key(d)), Exceeds(key(d), key(e))
      PROVE Exceeds(key(c), key(e))
  <2>1. /\ key(c)[1] \in Int /\ key(c)[2] \in Int /\ key(c)[3] \in Int
        /\ key(d)[1] \in Int /\ key(d)[2] \in Int /\ key(d)[3] \in Int
        /\ key(e)[1] \in Int /\ key(e)[2] \in Int /\ key(e)[3] \in Int
    BY <1>2
  <2> QED
    BY <1>5, <2>1 DEF Exceeds
<1>6. 1 \in S
  <2>1. 1 \in 1 .. n /\ (1 .. 1) = {1}
    BY <1>1
  <2> QED
    BY <2>1
<1>7. ASSUME NEW k \in 1 .. n, k /= n, k \in S
      PROVE k + 1 \in S
  <2>1. PICK b \in 1 .. k : \A d \in (1 .. k) \ {b} : Exceeds(key(b), key(d))
    BY <1>7
  <2>2. /\ k + 1 \in 1 .. n /\ b \in 1 .. n /\ b /= k + 1 /\ b \in 1 .. k + 1
        /\ k + 1 \in 1 .. k + 1
        /\ \A d \in 1 .. k + 1 : d \in 1 .. n /\ (d = k + 1 \/ d \in 1 .. k)
    BY <1>1, <1>7
  <2>3. CASE Exceeds(key(b), key(k + 1))
    <3>1. \A d \in (1 .. k + 1) \ {b} : Exceeds(key(b), key(d))
      BY <2>1, <2>2, <2>3
    <3> QED
      BY <2>2, <3>1
  <2>4. CASE Exceeds(key(k + 1), key(b))
    <3>1. ASSUME NEW d \in (1 .. k + 1) \ {k + 1}
          PROVE Exceeds(key(k + 1), key(d))
      <4>1. d \in 1 .. k /\ d \in 1 .. n
        BY <2>2, <3>1
      <4>2. CASE d = b
        BY <2>4, <4>2
      <4>3. CASE d /= b
        BY <1>5, <2>1, <2>2, <2>4, <4>1, <4>3
      <4> QED
        BY <4>2, <4>3
    <3> QED
      BY <2>2, <3>1
  <2> QED
    BY <1>4, <2>2, <2>3, <2>4
<1>8. n \in S
  <2> HIDE DEF S
  <2> QED
    BY <1>1, <1>6, <1>7, ReachesLast
<1> QED
  BY <1>1, <1>8 DEF key

\* The answer of a benchmark: the candidate whose first key is highest, or the default if
\* its two keys are 0.
LEMMA ChosenIsBest ==
    ASSUME machine \in Machines, NEW section \in Sections, NEW score, NEW again,
           NatScores(section, score)
    PROVE \E b \in CandidatesOf(section) :
             /\ \A d \in CandidatesOf(section) :
                    Key(section, score, again, d)[1] <= Key(section, score, again, b)[1]
             /\ Chosen(section, score, again) =
                    IF /\ Key(section, score, again, b)[1] = 0
                       /\ Key(section, score, again, b)[2] = 0
                    THEN Default ELSE b
<1> DEFINE key(c) == Key(section, score, again, c)
           b == CHOOSE c \in CandidatesOf(section) :
                    \A d \in CandidatesOf(section) \ {c} : Exceeds(key(c), key(d))
<1>1. b \in CandidatesOf(section) /\ \A d \in CandidatesOf(section) \ {b} : Exceeds(key(b), key(d))
  BY BestExists
<1>2. Chosen(section, score, again) = IF key(b)[1] = 0 /\ key(b)[2] = 0 THEN Default ELSE b
  BY DEF Chosen
<1> HIDE DEF b
<1>3. ASSUME NEW d \in CandidatesOf(section)
      PROVE key(d)[1] <= key(b)[1]
  <2>1. key(d)[1] \in Nat /\ key(b)[1] \in Nat
    BY <1>1, KeysDiffer
  <2> HIDE DEF key
  <2>2. CASE d = b
    BY <2>1, <2>2
  <2>3. CASE d /= b
    BY <1>1, <2>1, <2>3 DEF Exceeds
  <2> QED
    BY <2>2, <2>3
<1> QED
  BY <1>1, <1>2, <1>3

----------------------------------------------------------------------------
(* What an undisturbed benchmark measures.                                 *)

LEMMA SectionsDiffer ==
    /\ Launch /= CpuWorkers /\ Launch /= GpuWorkers /\ Launch /= Multiplier
    /\ Multiplier /= CpuWorkers /\ Multiplier /= GpuWorkers /\ CpuWorkers /= GpuWorkers
BY DEF Launch, Multiplier, GpuWorkers, CpuWorkers

LEMMA RepetitionsOf ==
    ASSUME NEW section \in Sections
    PROVE /\ section = Launch => /\ Often(section) = 4
                                 /\ Repetitions(section) = <<"gpu", "gpu", "hybrid", "hybrid">>
          /\ section = CpuWorkers => Often(section) = 1 /\ Repetitions(section) = <<"hybrid">>
          /\ section \in {GpuWorkers, Multiplier} =>
                Often(section) = 2 /\ Repetitions(section) = <<"hybrid", "hybrid">>
<1>1. section = Launch \/ section = CpuWorkers \/ section \in {GpuWorkers, Multiplier}
  BY DEF Sections
<1>2. CASE section = Launch
  <2>1. Repetitions(section) = <<"gpu", "gpu", "hybrid", "hybrid">>
    BY <1>2, SectionsDiffer DEF Repetitions
  <2> QED
    BY <1>2, <2>1, SectionsDiffer DEF Often
<1>3. CASE section = CpuWorkers
  <2>1. Repetitions(section) = <<"hybrid">>
    BY <1>3, SectionsDiffer DEF Repetitions
  <2> QED
    BY <1>3, <2>1, SectionsDiffer DEF Often
<1>4. CASE section \in {GpuWorkers, Multiplier}
  <2>1. Repetitions(section) = <<"hybrid", "hybrid">>
    BY <1>4, SectionsDiffer DEF Repetitions
  <2> QED
    BY <1>4, <2>1, SectionsDiffer DEF Often
<1> QED
  BY <1>1, <1>2, <1>3, <1>4

LEMMA RetriedIs ==
    ASSUME machine \in Machines, NEW section \in Sections
    PROVE /\ Retried(section) \in 1 .. Size(section)
          /\ \A i \in 1 .. Size(section) :
                i <= RetriedCount[section] <=> i <= Retried(section)
<1> DEFINE a == RetriedCount[section]
           b == Size(section)
<1>1. a \in Nat /\ a >= 1 /\ b \in Nat /\ b >= 1
  BY MachinesAssumption, RatesAreKnown
<1>2. Retried(section) = CHOOSE x \in {a, b} : \A y \in {a, b} : x <= y
  BY DEF Retried, Min, Size
<1> HIDE DEF a, b
<1>3. \E x \in {a, b} : \A y \in {a, b} : x <= y
  BY <1>1
<1>4. Retried(section) \in {a, b} /\ Retried(section) <= a /\ Retried(section) <= b
  BY <1>2, <1>3
<1> QED
  BY <1>1, <1>4 DEF a, b

LEMMA MeasuredIs ==
    ASSUME machine \in Machines, NEW section \in Sections
    PROVE /\ HasFirsts(section, Measured(section))
          /\ \A c \in CandidatesOf(section) :
                /\ Measured(section)[c].first = HybridRate(section, c)
                /\ Rank(section, c) \in 1 .. Size(section)
<1>1. \A c \in CandidatesOf(section) :
         Measured(section)[c].first = HybridRate(section, c) /\ HybridRate(section, c) \in Nat
  BY RatesAreKnown DEF Measured, FirstScore
<1>2. HasFirsts(section, Measured(section))
  BY <1>1 DEF HasFirsts
<1> QED
  BY <1>1, <1>2, PlaceType DEF Rank

LEMMA TimesType ==
    ASSUME NEW n, NEW rate \in Nat
    PROVE Times(n, rate) \in Nat
BY DEF Times

LEMMA SecondScoreType ==
    ASSUME machine \in Machines, NEW section \in Sections, NEW p
    PROVE NatScores(section, SecondScore(section, p))
<1> SUFFICES ASSUME NEW c \in CandidatesOf(section)
             PROVE /\ SecondScore(section, p)[c].first \in Nat
                   /\ SecondScore(section, p)[c].hybrid \in Nat
                   /\ SecondScore(section, p)[c].gpu \in Nat
  BY DEF NatScores
<1> DEFINE x == p - (Rank(section, c) - 1) * Often(section)
<1>1. /\ SecondScore(section, p)[c].first = HybridRate(section, c)
      /\ SecondScore(section, p)[c].hybrid =
            Times(HybridRuns(section, x), HybridRate(section, c))
      /\ SecondScore(section, p)[c].gpu = Times(GpuRuns(section, x), GpuRate(section, c))
  BY DEF SecondScore
<1> QED
  BY <1>1, RatesAreKnown, TimesType

\* The number of measurements of the second round.
Second(section) == Retried(section) * Often(section)

\* At the end, every candidate that was measured again has all its measurements.
LEMMA SecondScoreEnds ==
    ASSUME machine \in Machines, NEW section \in Sections,
           NEW c \in Top(section, Measured(section))
    PROVE LET s == SecondScore(section, Second(section))[c]
          IN /\ section = Launch => /\ s.hybrid = 2 * HybridRate(section, c)
                                    /\ s.gpu = 2 * GpuRate(section, c)
             /\ section = CpuWorkers => s.hybrid = HybridRate(section, c)
             /\ section \in {GpuWorkers, Multiplier} => s.hybrid = 2 * HybridRate(section, c)
<1> DEFINE s == SecondScore(section, Second(section))[c]
           k == Rank(section, c)
           x == Second(section) - (k - 1) * Often(section)
           h == HybridRate(section, c)
           g == GpuRate(section, c)
<1>1. c \in CandidatesOf(section) /\ k \in 1 .. Size(section) /\ k <= RetriedCount[section]
  BY MeasuredIs DEF Top, Rank
<1>2. k \in Nat /\ k >= 1 /\ k <= Retried(section) /\ Retried(section) \in Nat
  BY <1>1, RetriedIs, RatesAreKnown
<1>3. s.hybrid = Times(HybridRuns(section, x), h) /\ s.gpu = Times(GpuRuns(section, x), g)
  BY <1>1 DEF SecondScore
<1>4. h \in Nat /\ g \in Nat
  BY <1>1, RatesAreKnown
<1> HIDE DEF s, h, g, k
<1>5. CASE section = Launch
  <2>1. Often(section) = 4
    BY <1>5, RepetitionsOf
  <2>2. x \in Int /\ x >= 4
    BY <1>2, <2>1 DEF Second
  <2> HIDE DEF x
  <2>3. HybridRuns(section, x) = 2 /\ GpuRuns(section, x) = 2
    BY <1>5, <2>2, SectionsDiffer DEF HybridRuns, GpuRuns, Between
  <2> QED
    BY <1>3, <1>4, <1>5, <2>3, SectionsDiffer DEF Times, s, h, g
<1>6. CASE section = CpuWorkers
  <2>1. Often(section) = 1
    BY <1>6, RepetitionsOf
  <2>2. x \in Int /\ x >= 1
    BY <1>2, <2>1 DEF Second
  <2> HIDE DEF x
  <2>3. HybridRuns(section, x) = 1
    BY <1>6, <2>2, SectionsDiffer DEF HybridRuns, Between
  <2> QED
    BY <1>3, <1>4, <1>6, <2>3, SectionsDiffer DEF Times, s, h
<1>7. CASE section \in {GpuWorkers, Multiplier}
  <2>1. Often(section) = 2
    BY <1>7, RepetitionsOf
  <2>2. x \in Int /\ x >= 2
    BY <1>2, <2>1 DEF Second
  <2> HIDE DEF x
  <2>3. HybridRuns(section, x) = 2
    BY <1>7, <2>2, SectionsDiffer DEF HybridRuns, Between
  <2> QED
    BY <1>3, <1>4, <1>7, <2>3, SectionsDiffer DEF Times, s, h
<1> QED
  BY <1>5, <1>6, <1>7 DEF Sections, s, h, g

LEMMA LaunchKeys ==
    ASSUME NEW score, NEW again, NEW c
    PROVE Key(Launch, score, again, c) =
              IF c \in again THEN <<score[c].hybrid, score[c].gpu, c>>
              ELSE <<0, 2 * score[c].first, c>>
BY SectionsDiffer DEF Key

\* The answer of an undisturbed benchmark is the fastest.
LEMMA ChosenIsFastest ==
    ASSUME machine \in Machines, NEW q, q[1] \in Sections,
           ~(q[1] = Launch /\ ~machine.properties)
    PROVE IsFastest(q, Chosen(q[1], SecondScore(q[1], Second(q[1])), Top(q[1], Measured(q[1]))))
<1> DEFINE section == q[1]
           score == SecondScore(section, Second(section))
           again == Top(section, Measured(section))
           answer == Chosen(section, score, again)
           C == CandidatesOf(section)
           h(c) == HybridRate(section, c)
           g(c) == GpuRate(section, c)
           first(c) == Key(section, score, again, c)[1]
           second(c) == Key(section, score, again, c)[2]
<1>1. PICK b \in C : /\ \A d \in C : first(d) <= first(b)
                     /\ answer = IF first(b) = 0 /\ second(b) = 0 THEN Default ELSE b
  BY SecondScoreType, ChosenIsBest
<1>2. \A c \in C : h(c) \in Nat /\ g(c) \in Nat /\ score[c].first = h(c)
  BY RatesAreKnown DEF SecondScore
<1>3. again /= {} /\ again \subseteq C /\ \A c \in again : \A d \in C \ again : h(d) <= h(c)
  BY MeasuredIs, TopIsFastest
<1>4. CASE section = Launch
  <2>1. \A c \in again : first(c) = 2 * h(c) /\ second(c) = 2 * g(c)
    <3>1. \A c \in again : score[c].hybrid = 2 * h(c) /\ score[c].gpu = 2 * g(c)
      BY <1>4, SecondScoreEnds
    <3>2. \A c \in again : Key(section, score, again, c) = <<score[c].hybrid, score[c].gpu, c>>
      BY <1>4, LaunchKeys
    <3> HIDE DEF score, again
    <3> QED
      BY <3>1, <3>2
  <2>2. \A c \in C \ again : first(c) = 0 /\ second(c) = 2 * h(c)
    <3>1. \A c \in C \ again : Key(section, score, again, c) = <<0, 2 * score[c].first, c>>
      BY <1>4, LaunchKeys
    <3> HIDE DEF score, again
    <3> QED
      BY <1>2, <3>1
  <2>3. (\A c \in C : h(c) = 0 /\ g(c) = 0) => answer = Default
    <3> HIDE DEF C, h, g, first, second, answer, again
    <3> QED
      BY <1>1, <1>3, <2>1, <2>2
  <2>4. \/ answer \in C /\ \A c \in C : h(c) <= h(answer)
        \/ answer = Default /\ \A c \in C : h(c) = 0
    <3> HIDE DEF C, h, g, first, second, answer, again
    <3>1. CASE b \in again
      <4>1. \A c \in C : h(c) <= h(b)
        BY <1>1, <1>2, <1>3, <2>1, <3>1
      <4> QED
        BY <1>1, <1>2, <2>1, <3>1, <4>1
    <3>2. CASE b \notin again
      <4>1. \A c \in again : h(c) = 0
        BY <1>1, <1>2, <1>3, <2>1, <2>2, <3>2
      <4>2. \A c \in C : h(c) = 0
        BY <1>2, <1>3, <4>1
      <4> QED
        BY <1>1, <2>2, <3>2, <4>2
    <3> QED
      BY <3>1, <3>2
  <2> QED
    BY <2>3, <2>4 DEF IsFastest, CandidatesOf, HybridRate, GpuRate
<1>5. CASE section /= Launch
  <2>1. PICK w \in {1, 2} : \A c \in C : first(c) = w * h(c)
    <3>1. CASE section = CpuWorkers
      <4>1. \A c \in C : first(c) = h(c)
        BY <1>2, <3>1, SecondScoreEnds, SectionsDiffer DEF Key
      <4> QED
        BY <1>2, <4>1
    <3>2. CASE section \in {GpuWorkers, Multiplier}
      <4>1. \A c \in C : first(c) = 2 * h(c)
        BY <1>2, <3>2, SecondScoreEnds, SectionsDiffer DEF Key
      <4> QED
        BY <4>1
    <3> QED
      BY <1>5, <3>1, <3>2 DEF Sections
  <2>2. \A c \in C : second(c) = 0
    BY <1>5, SectionsDiffer DEF Key, Sections
  <2> HIDE DEF C, h, g, first, second, answer, again
  <2>3. \A c \in C : h(c) <= h(b)
    BY <1>1, <1>2, <2>1
  <2>4. first(b) = 0 <=> h(b) = 0
    BY <1>2, <2>1
  <2>5. (\A c \in C : h(c) = 0 /\ g(c) = 0) => answer = Default
    BY <1>1, <2>2, <2>4
  <2>6. \/ answer \in C /\ \A c \in C : h(c) <= h(answer)
        \/ answer = Default /\ \A c \in C : h(c) = 0
    BY <1>1, <1>2, <2>2, <2>3, <2>4
  <2> QED
    BY <2>5, <2>6 DEF IsFastest, CandidatesOf, HybridRate, GpuRate, C, h, g, answer, again
<1> QED
  BY <1>4, <1>5

----------------------------------------------------------------------------
(* The rounds.                                                             *)

\* The scores after a measurement m.
Added(score, m, rate) == [score EXCEPT ![m.candidate][m.kind] = @ + rate]

Kinds == {"first", "hybrid", "gpu"}

LEMMA AddedIs ==
    ASSUME NEW score, NEW m, NEW rate, m.candidate \in DOMAIN score,
           m.kind \in DOMAIN score[m.candidate]
    PROVE /\ DOMAIN Added(score, m, rate) = DOMAIN score
          /\ Added(score, m, rate) = [c \in DOMAIN score |-> Added(score, m, rate)[c]]
          /\ \A c \in DOMAIN score \ {m.candidate} : Added(score, m, rate)[c] = score[c]
          /\ Added(score, m, rate)[m.candidate] =
                [k \in DOMAIN score[m.candidate] |->
                    IF k = m.kind THEN score[m.candidate][k] + rate ELSE score[m.candidate][k]]
BY DEF Added

\* One job less is left.
LEMMA TailIsLeft ==
    ASSUME NEW round, NEW size \in Nat, NEW p \in 0 .. size, NEW todo,
           LeftOf(todo, round, size, p), todo /= <<>>
    PROVE /\ p + 1 \in 0 .. size
          /\ Head(todo) = round[p + 1] /\ Head(todo) \in Jobs
          /\ LeftOf(Tail(todo), round, size, p + 1)
<1>1. todo \in Seq(Jobs) /\ Len(todo) = size - p /\ \A j \in 1 .. Len(todo) : todo[j] = round[p + j]
  BY DEF LeftOf
<1>2. Len(todo) \in Nat /\ Len(todo) >= 1
  BY <1>1
<1>3. /\ Tail(todo) \in Seq(Jobs) /\ Len(Tail(todo)) = Len(todo) - 1
      /\ \A j \in 1 .. Len(todo) - 1 : Tail(todo)[j] = todo[j + 1]
      /\ Head(todo) = todo[1] /\ Head(todo) \in Jobs
  BY <1>1, <1>2
<1>4. \A j \in 1 .. Len(Tail(todo)) : Tail(todo)[j] = round[(p + 1) + j]
  <2>1. \A j \in 1 .. Len(todo) - 1 : j + 1 \in 1 .. Len(todo) /\ p + (j + 1) = (p + 1) + j
    BY <1>2
  <2> QED
    BY <1>1, <1>3, <2>1
<1> QED
  BY <1>1, <1>2, <1>3, <1>4 DEF LeftOf

LEMMA FirstRoundGoesOn ==
    ASSUME machine \in Machines, NEW section \in Sections, NEW r, InFirstRound(r, section),
           r.todo /= <<>>, NEW m, m = Head(r.todo),
           NEW w, w.again = r.again, w.todo = Tail(r.todo),
           w.score = Added(r.score, m, RateOf(section, m))
    PROVE InFirstRound(w, section)
<1> DEFINE n == Size(section)
           C == CandidatesOf(section)
<1>1. n \in Nat /\ C = 1 .. n /\ \A c \in C : HybridRate(section, c) \in Nat
  BY RatesAreKnown
<1>2. PICK p \in 0 .. n :
         /\ r.again = {}
         /\ r.score = FirstScore(section, p)
         /\ LeftOf(r.todo, FirstRound(section), n, p)
  BY DEF InFirstRound
<1>3. /\ p + 1 \in 0 .. n /\ m = FirstRound(section)[p + 1]
      /\ LeftOf(w.todo, FirstRound(section), n, p + 1)
  <2> DEFINE todo == r.todo
             round == FirstRound(section)
  <2>1. n \in Nat /\ p \in 0 .. n /\ LeftOf(todo, round, n, p) /\ todo /= <<>>
    BY <1>1, <1>2
  <2>2. m = Head(todo) /\ w.todo = Tail(todo)
    OBVIOUS
  <2> HIDE DEF n, todo, round
  <2>3. /\ p + 1 \in 0 .. n /\ Head(todo) = round[p + 1]
        /\ LeftOf(Tail(todo), round, n, p + 1)
    BY <2>1, TailIsLeft
  <2> QED
    BY <2>2, <2>3 DEF round
<1>4. p + 1 \in C
  BY <1>1, <1>2, <1>3
<1>5. m.candidate = p + 1 /\ m.kind = "first"
  BY <1>3, <1>4 DEF FirstRound
<1>6. RateOf(section, m) = HybridRate(section, p + 1)
  BY <1>5 DEF RateOf, HybridRate
<1> DEFINE s == r.score
           a == w.score
<1>7. /\ DOMAIN s = C
      /\ \A c \in C : s[c] = [first |-> IF c <= p THEN HybridRate(section, c) ELSE 0,
                              hybrid |-> 0, gpu |-> 0]
  BY <1>2 DEF FirstScore
<1>8. /\ a = [c \in C |-> a[c]]
      /\ \A c \in C \ {p + 1} : a[c] = s[c]
      /\ a[p + 1] = [k \in DOMAIN s[p + 1] |->
                        IF k = "first" THEN s[p + 1][k] + HybridRate(section, p + 1)
                        ELSE s[p + 1][k]]
  <2>3. a = Added(s, m, HybridRate(section, p + 1))
    BY <1>6
  <2> HIDE DEF s, a, C
  <2>1. DOMAIN s[p + 1] = Kinds
    <3>1. s[p + 1] = [first |-> IF p + 1 <= p THEN HybridRate(section, p + 1) ELSE 0,
                      hybrid |-> 0, gpu |-> 0]
      BY <1>4, <1>7
    <3> QED
      BY <3>1 DEF Kinds
  <2>2. m.candidate \in DOMAIN s /\ m.kind \in DOMAIN s[m.candidate]
    BY <1>4, <1>5, <1>7, <2>1 DEF Kinds
  <2> QED
    BY <1>5, <1>7, <2>2, <2>3, AddedIs
<1> HIDE DEF s, a, n
<1>9. a[p + 1] = [first |-> HybridRate(section, p + 1), hybrid |-> 0, gpu |-> 0]
  <2>1. s[p + 1] = [first |-> 0, hybrid |-> 0, gpu |-> 0]
    BY <1>2, <1>4, <1>7
  <2> QED
    BY <1>1, <1>4, <1>8, <2>1
<1>10. \A c \in C : a[c] = [first |-> IF c <= p + 1 THEN HybridRate(section, c) ELSE 0,
                            hybrid |-> 0, gpu |-> 0]
  <2>1. \A c \in C \ {p + 1} : (c <= p <=> c <= p + 1)
    BY <1>1, <1>2
  <2> QED
    BY <1>2, <1>7, <1>8, <1>9, <2>1
<1>11. a = FirstScore(section, p + 1)
  BY <1>8, <1>10 DEF FirstScore
<1> QED
  BY <1>2, <1>3, <1>11 DEF InFirstRound, a, n

\* A job of the second round: of a candidate of known place, a repetition of known kind.
LEMMA SecondRoundIs ==
    ASSUME machine \in Machines, NEW section \in Sections, NEW i \in 1 .. Second(section)
    PROVE LET m == SecondRound(section, Measured(section))[i]
              k == ((i - 1) \div Often(section)) + 1
          IN /\ k \in 1 .. Retried(section)
             /\ m.candidate \in CandidatesOf(section) /\ Rank(section, m.candidate) = k
             /\ m.kind = Repetitions(section)[((i - 1) % Often(section)) + 1]
             /\ m \in Jobs /\ m.kind \in {"hybrid", "gpu"}
<1> DEFINE o == Often(section)
           n == Retried(section)
           k == ((i - 1) \div o) + 1
           m == SecondRound(section, Measured(section))[i]
           kind == Repetitions(section)[((i - 1) % o) + 1]
<1>1. o \in {1, 2, 4} /\ \A j \in 1 .. o : Repetitions(section)[j] \in {"hybrid", "gpu"}
  <2>1. section = Launch \/ section = CpuWorkers \/ section \in {GpuWorkers, Multiplier}
    BY DEF Sections
  <2> QED
    BY <2>1, RepetitionsOf
<1>2. n \in Nat /\ n >= 1 /\ n \in 1 .. Size(section) /\ Size(section) \in Nat
  BY RetriedIs, RatesAreKnown
<1>3. m.candidate = Ranked(section, Measured(section), k) /\ m.kind = kind
      /\ m = [candidate |-> Ranked(section, Measured(section), k), kind |-> kind]
  BY DEF SecondRound, Second, Often
<1>4. k \in 1 .. n /\ ((i - 1) % o) + 1 \in 1 .. o
  <2>1. i \in 1 .. n * o
    BY DEF Second
  <2> HIDE DEF n, o
  <2>2. CASE o = 1
    BY <1>2, <2>1, <2>2
  <2>3. CASE o = 2
    BY <1>2, <2>1, <2>3
  <2>4. CASE o = 4
    BY <1>2, <2>1, <2>4
  <2> QED
    BY <1>1, <2>2, <2>3, <2>4
<1>5. k \in 1 .. Size(section)
  BY <1>2, <1>4
<1> HIDE DEF k
<1>6. m.candidate \in CandidatesOf(section) /\ Rank(section, m.candidate) = k
  BY <1>3, <1>5, MeasuredIs, PlacesAreTaken DEF Rank
<1>7. CandidatesOf(section) \subseteq Nat
  BY RatesAreKnown
<1>8. kind \in {"hybrid", "gpu"}
  BY <1>1, <1>4
<1> HIDE DEF kind
<1>9. m \in Jobs
  BY <1>3, <1>6, <1>7, <1>8 DEF Jobs
<1> QED
  BY <1>3, <1>4, <1>6, <1>8, <1>9 DEF k, kind

\* A measurement of the second round is a run of one candidate, the one whose turn it is.
LEMMA RunsGoOn ==
    ASSUME NEW section \in Sections, NEW k \in Nat, k >= 1, NEW p \in Nat,
           NEW x, x = p - (k - 1) * Often(section),
           NEW y, y = (p + 1) - (k - 1) * Often(section),
           NEW kind, kind = Repetitions(section)[(p % Often(section)) + 1]
    PROVE IF k = (p \div Often(section)) + 1
          THEN /\ kind = "hybrid" =>
                      /\ HybridRuns(section, x) \in {0, 1}
                      /\ HybridRuns(section, y) = HybridRuns(section, x) + 1
                      /\ GpuRuns(section, y) = GpuRuns(section, x)
               /\ kind = "gpu" =>
                      /\ GpuRuns(section, x) \in {0, 1}
                      /\ GpuRuns(section, y) = GpuRuns(section, x) + 1
                      /\ HybridRuns(section, y) = HybridRuns(section, x)
          ELSE /\ HybridRuns(section, y) = HybridRuns(section, x)
               /\ GpuRuns(section, y) = GpuRuns(section, x)
<1>1. CASE section = Launch
  <2>1. Often(section) = 4 /\ Repetitions(section) = <<"gpu", "gpu", "hybrid", "hybrid">>
    BY <1>1, RepetitionsOf
  <2>2. /\ x \in Int /\ y = x + 1
        /\ k = (p \div 4) + 1 <=> x \in 0 .. 3
        /\ k = (p \div 4) + 1 => p % 4 = x
    BY <2>1
  <2>3. /\ HybridRuns(section, x) = Between(x - 2, 2) /\ GpuRuns(section, x) = Between(x, 2)
        /\ HybridRuns(section, y) = Between(y - 2, 2) /\ GpuRuns(section, y) = Between(y, 2)
    BY <1>1, SectionsDiffer DEF HybridRuns, GpuRuns
  <2>4. CASE x \in 0 .. 3
    <3>1. x = 0 \/ x = 1 \/ x = 2 \/ x = 3
      BY <2>4
    <3>2. kind = <<"gpu", "gpu", "hybrid", "hybrid">>[x + 1]
      BY <2>1, <2>2, <2>4
    <3>3. x \in {0, 1} => kind = "gpu"
      BY <3>2
    <3>4. x \in {2, 3} => kind = "hybrid"
      BY <3>2
    <3> QED
      BY <2>1, <2>2, <2>3, <2>4, <3>1, <3>3, <3>4 DEF Between
  <2>5. CASE x \notin 0 .. 3
    BY <2>1, <2>2, <2>3, <2>5 DEF Between
  <2> QED
    BY <2>4, <2>5
<1>2. CASE section = CpuWorkers
  <2>1. Often(section) = 1 /\ Repetitions(section) = <<"hybrid">>
    BY <1>2, RepetitionsOf
  <2>2. /\ x \in Int /\ y = x + 1
        /\ k = (p \div 1) + 1 <=> x = 0
        /\ p % 1 = 0
    BY <2>1
  <2>3. /\ HybridRuns(section, x) = Between(x, 1) /\ GpuRuns(section, x) = 0
        /\ HybridRuns(section, y) = Between(y, 1) /\ GpuRuns(section, y) = 0
    BY <1>2, SectionsDiffer DEF HybridRuns, GpuRuns
  <2>4. kind = "hybrid"
    BY <2>1, <2>2
  <2> QED
    BY <2>1, <2>2, <2>3, <2>4 DEF Between
<1>3. CASE section \in {GpuWorkers, Multiplier}
  <2>1. Often(section) = 2 /\ Repetitions(section) = <<"hybrid", "hybrid">>
    BY <1>3, RepetitionsOf
  <2>2. /\ x \in Int /\ y = x + 1
        /\ k = (p \div 2) + 1 <=> x \in 0 .. 1
        /\ p % 2 = 0 \/ p % 2 = 1
    BY <2>1
  <2>3. /\ HybridRuns(section, x) = Between(x, 2) /\ GpuRuns(section, x) = 0
        /\ HybridRuns(section, y) = Between(y, 2) /\ GpuRuns(section, y) = 0
    BY <1>3, SectionsDiffer DEF HybridRuns, GpuRuns
  <2>4. kind = "hybrid"
    BY <2>1, <2>2
  <2> QED
    BY <2>1, <2>2, <2>3, <2>4 DEF Between
<1> QED
  BY <1>1, <1>2, <1>3 DEF Sections

LEMMA OneMoreTime ==
    ASSUME NEW n \in {0, 1}, NEW rate \in Nat
    PROVE Times(n + 1, rate) = Times(n, rate) + rate
BY DEF Times

LEMMA RanksAreOwn ==
    ASSUME machine \in Machines, NEW section \in Sections,
           NEW c \in CandidatesOf(section), NEW d \in CandidatesOf(section),
           Rank(section, c) = Rank(section, d)
    PROVE c = d
BY MeasuredIs, PlacesDiffer DEF Rank

LEMMA SecondRoundGoesOn ==
    ASSUME machine \in Machines, NEW section \in Sections, NEW r, InSecondRound(r, section),
           r.todo /= <<>>, NEW m, m = Head(r.todo),
           NEW w, w.again = r.again, w.todo = Tail(r.todo),
           w.score = Added(r.score, m, RateOf(section, m))
    PROVE InSecondRound(w, section)
<1> DEFINE n == Second(section)
           o == Often(section)
           C == CandidatesOf(section)
           round == SecondRound(section, Measured(section))
           h(c) == HybridRate(section, c)
           g(c) == GpuRate(section, c)
           x(c, p) == p - (Rank(section, c) - 1) * o
           At2(c, p) == [first |-> h(c), hybrid |-> Times(HybridRuns(section, x(c, p)), h(c)),
                         gpu |-> Times(GpuRuns(section, x(c, p)), g(c))]
<1>1. /\ n \in Nat
      /\ \A c \in C : h(c) \in Nat /\ g(c) \in Nat /\ Rank(section, c) \in Nat
                      /\ Rank(section, c) >= 1
  <2>1. Retried(section) \in Nat /\ Size(section) \in Nat
    BY RetriedIs, RatesAreKnown
  <2>2. o \in Nat
    <3>1. section = Launch \/ section = CpuWorkers \/ section \in {GpuWorkers, Multiplier}
      BY DEF Sections
    <3> QED
      BY <3>1, RepetitionsOf
  <2>3. n \in Nat
    <3> HIDE DEF o
    <3>1. Retried(section) * o \in Nat
      BY <2>1, <2>2
    <3> QED
      BY <3>1 DEF Second, o
  <2>4. \A c \in C : Rank(section, c) \in 1 .. Size(section)
    BY MeasuredIs
  <2>5. \A c \in C : h(c) \in Nat /\ g(c) \in Nat
    BY RatesAreKnown
  <2> HIDE DEF C, h, g
  <2>6. \A c \in C : Rank(section, c) \in Nat /\ Rank(section, c) >= 1
    BY <2>1, <2>4
  <2> QED
    BY <2>3, <2>5, <2>6
<1>2. PICK p \in 0 .. n :
         /\ r.again = Top(section, Measured(section))
         /\ r.score = SecondScore(section, p)
         /\ LeftOf(r.todo, round, n, p)
  BY DEF InSecondRound, Second
<1>3. /\ p + 1 \in 0 .. n /\ m = round[p + 1] /\ LeftOf(w.todo, round, n, p + 1)
  <2> DEFINE todo == r.todo
  <2>1. n \in Nat /\ p \in 0 .. n /\ LeftOf(todo, round, n, p) /\ todo /= <<>>
    BY <1>1, <1>2
  <2>2. m = Head(todo) /\ w.todo = Tail(todo)
    OBVIOUS
  <2> HIDE DEF n, todo, round
  <2>3. /\ p + 1 \in 0 .. n /\ Head(todo) = round[p + 1]
        /\ LeftOf(Tail(todo), round, n, p + 1)
    BY <2>1, TailIsLeft
  <2> QED
    BY <2>2, <2>3
<1>4. p \in Nat /\ p + 1 \in 1 .. n
  BY <1>1, <1>2, <1>3
<1> DEFINE d == m.candidate
<1>5. /\ d \in C /\ Rank(section, d) = (p \div o) + 1 /\ m.kind = Repetitions(section)[(p % o) + 1]
      /\ m.kind \in Kinds \ {"first"}
  <2> DEFINE i == p + 1
  <2>1. i \in 1 .. Second(section) /\ i - 1 = p
    BY <1>4
  <2> HIDE DEF i
  <2>2. /\ round[i].candidate \in C
        /\ Rank(section, round[i].candidate) = ((i - 1) \div o) + 1
        /\ round[i].kind = Repetitions(section)[((i - 1) % o) + 1]
        /\ round[i].kind \in {"hybrid", "gpu"}
    BY <2>1, SecondRoundIs
  <2>3. round[i] = m
    BY <1>3 DEF i
  <2> HIDE DEF round, C, o
  <2>4. m.kind \in Kinds \ {"first"}
    BY <2>2, <2>3 DEF Kinds
  <2> QED
    BY <2>1, <2>2, <2>3, <2>4
<1> DEFINE s == r.score
           a == w.score
<1>6. DOMAIN s = C /\ \A c \in C : s[c] = At2(c, p)
  BY <1>2 DEF SecondScore
<1>7. a = Added(s, m, RateOf(section, m))
  OBVIOUS
<1>8. RateOf(section, m) = IF m.kind = "gpu" THEN g(d) ELSE h(d)
  BY DEF RateOf, HybridRate, GpuRate
<1> HIDE DEF s, a, C, n, round, h, g
<1>9. /\ a = [c \in C |-> a[c]]
      /\ \A c \in C \ {d} : a[c] = s[c]
      /\ a[d] = [k \in Kinds |->
                    IF k = m.kind THEN s[d][k] + RateOf(section, m) ELSE s[d][k]]
  <2>1. DOMAIN s[d] = Kinds
    <3>1. s[d] = At2(d, p)
      BY <1>5, <1>6
    <3> QED
      BY <3>1 DEF Kinds
  <2>2. m.candidate \in DOMAIN s /\ m.kind \in DOMAIN s[m.candidate]
    BY <1>5, <1>6, <2>1
  <2> QED
    BY <1>6, <1>7, <2>1, <2>2, AddedIs
<1>10. ASSUME NEW c \in C PROVE a[c] = At2(c, p + 1)
  <2> DEFINE u == x(c, p)
             v == x(c, p + 1)
  <2>1. Rank(section, c) \in Nat /\ Rank(section, c) >= 1 /\ h(c) \in Nat /\ g(c) \in Nat
    BY <1>1
  <2>2. /\ u = p - (Rank(section, c) - 1) * Often(section)
        /\ v = (p + 1) - (Rank(section, c) - 1) * Often(section)
    OBVIOUS
  <2>3. s[c] = [first |-> h(c), hybrid |-> Times(HybridRuns(section, u), h(c)),
                gpu |-> Times(GpuRuns(section, u), g(c))]
    BY <1>6
  <2>4. At2(c, p + 1) = [first |-> h(c), hybrid |-> Times(HybridRuns(section, v), h(c)),
                         gpu |-> Times(GpuRuns(section, v), g(c))]
    OBVIOUS
  <2> HIDE DEF u, v, At2
  <2>5. CASE Rank(section, c) /= (p \div o) + 1
    <3>1. /\ HybridRuns(section, v) = HybridRuns(section, u)
          /\ GpuRuns(section, v) = GpuRuns(section, u)
      BY <1>4, <2>1, <2>2, <2>5, RunsGoOn
    <3>2. c /= d
      BY <1>5, <2>5
    <3> QED
      BY <1>9, <2>3, <2>4, <3>1, <3>2
  <2>6. CASE Rank(section, c) = (p \div o) + 1
    <3>1. c = d
      BY <1>5, <2>6, RanksAreOwn DEF C
    <3>2. /\ a[c] = [k \in Kinds |->
                        IF k = m.kind THEN s[c][k] + RateOf(section, m) ELSE s[c][k]]
      BY <1>9, <3>1
    <3>3. m.kind = "hybrid" \/ m.kind = "gpu"
      BY <1>5 DEF Kinds
    <3> DEFINE kind == m.kind
    <3>6. /\ kind = Repetitions(section)[(p % Often(section)) + 1]
          /\ Rank(section, c) = (p \div Often(section)) + 1
      BY <1>5, <2>6
    <3> HIDE DEF kind
    <3>7. /\ kind = "hybrid" =>
                /\ HybridRuns(section, u) \in {0, 1}
                /\ HybridRuns(section, v) = HybridRuns(section, u) + 1
                /\ GpuRuns(section, v) = GpuRuns(section, u)
          /\ kind = "gpu" =>
                /\ GpuRuns(section, u) \in {0, 1}
                /\ GpuRuns(section, v) = GpuRuns(section, u) + 1
                /\ HybridRuns(section, v) = HybridRuns(section, u)
      BY ONLY <1>4, <2>1, <2>2, <3>6, RunsGoOn
    <3>4. CASE m.kind = "hybrid"
      <4>1. /\ HybridRuns(section, u) \in {0, 1}
            /\ HybridRuns(section, v) = HybridRuns(section, u) + 1
            /\ GpuRuns(section, v) = GpuRuns(section, u)
        BY <3>4, <3>7 DEF kind
      <4>2. Times(HybridRuns(section, v), h(c)) = Times(HybridRuns(section, u), h(c)) + h(c)
        BY <2>1, <4>1, OneMoreTime
      <4>3. RateOf(section, m) = h(c)
        BY <1>8, <3>1, <3>4
      <4> QED
        BY <2>3, <2>4, <3>2, <3>4, <4>1, <4>2, <4>3 DEF Kinds
    <3>5. CASE m.kind = "gpu"
      <4>1. /\ GpuRuns(section, u) \in {0, 1}
            /\ GpuRuns(section, v) = GpuRuns(section, u) + 1
            /\ HybridRuns(section, v) = HybridRuns(section, u)
        BY <3>5, <3>7 DEF kind
      <4>2. Times(GpuRuns(section, v), g(c)) = Times(GpuRuns(section, u), g(c)) + g(c)
        BY <2>1, <4>1, OneMoreTime
      <4>3. RateOf(section, m) = g(c)
        BY <1>8, <3>1, <3>5
      <4> QED
        BY <2>3, <2>4, <3>2, <3>5, <4>1, <4>2, <4>3 DEF Kinds
    <3> QED
      BY <3>3, <3>4, <3>5
  <2> QED
    BY <2>5, <2>6
<1>11. a = SecondScore(section, p + 1)
  BY <1>9, <1>10 DEF SecondScore, C, h, g
<1> QED
  BY <1>2, <1>3, <1>11 DEF InSecondRound, a, n, round, Second

LEMMA NothingLeft ==
    ASSUME NEW round, NEW size \in Nat, NEW p \in 0 .. size, LeftOf(<<>>, round, size, p)
    PROVE p = size
<1>1. Len(<<>>) = 0 /\ Len(<<>>) = size - p
  BY DEF LeftOf
<1> QED
  BY <1>1

LEMMA AllIsLeft ==
    ASSUME NEW size \in Nat, NEW round, round = [i \in 1 .. size |-> round[i]],
           \A i \in 1 .. size : round[i] \in Jobs
    PROVE LeftOf(round, round, size, 0)
<1>1. round \in Seq(Jobs) /\ Len(round) = size
  OBVIOUS
<1> QED
  BY <1>1 DEF LeftOf

LEMMA SizeOfSecond ==
    ASSUME machine \in Machines, NEW section \in Sections
    PROVE Second(section) \in Nat
<1>1. Retried(section) \in Nat
  BY RetriedIs, RatesAreKnown
<1>2. section = Launch \/ section = CpuWorkers \/ section \in {GpuWorkers, Multiplier}
  BY DEF Sections
<1> DEFINE n == Retried(section)
<1> HIDE DEF n
<1>3. n * 1 \in Nat /\ n * 2 \in Nat /\ n * 4 \in Nat
  BY <1>1 DEF n
<1> QED
  BY <1>2, <1>3, RepetitionsOf DEF Second, n

\* The first round starts with all its jobs.
LEMMA FirstRoundBegins ==
    ASSUME machine \in Machines, NEW section \in Sections, NEW r, r.again = {},
           r.todo = FirstRound(section),
           r.score = [c \in CandidatesOf(section) |-> NoScore]
    PROVE InFirstRound(r, section)
<1>1. /\ Size(section) \in Nat /\ CandidatesOf(section) = 1 .. Size(section)
      /\ 0 \in 0 .. Size(section)
  BY RatesAreKnown
<1>2. r.score = FirstScore(section, 0)
  BY <1>1 DEF FirstScore, NoScore
<1>3. LeftOf(FirstRound(section), FirstRound(section), Size(section), 0)
  <2>1. FirstRound(section) = [i \in 1 .. Size(section) |-> FirstRound(section)[i]]
    BY <1>1 DEF FirstRound
  <2>2. \A i \in 1 .. Size(section) : FirstRound(section)[i] \in Jobs
    BY <1>1 DEF FirstRound, Jobs
  <2> QED
    BY <1>1, <2>1, <2>2, AllIsLeft
<1> QED
  BY <1>1, <1>2, <1>3 DEF InFirstRound

LEMMA FirstRoundEnds ==
    ASSUME machine \in Machines, NEW section \in Sections, NEW r, InFirstRound(r, section),
           r.todo = <<>>
    PROVE r.score = Measured(section)
<1>1. Size(section) \in Nat
  BY RatesAreKnown
<1> QED
  BY <1>1, NothingLeft DEF InFirstRound, Measured

\* Before the second round nothing was measured again.
LEMMA SecondScoreBegins ==
    ASSUME machine \in Machines, NEW section \in Sections
    PROVE SecondScore(section, 0) = Measured(section)
<1> SUFFICES ASSUME NEW c \in CandidatesOf(section)
             PROVE SecondScore(section, 0)[c] = Measured(section)[c]
  BY DEF SecondScore, Measured, FirstScore
<1> DEFINE k == Rank(section, c)
           o == Often(section)
           x == 0 - (k - 1) * o
           h == HybridRate(section, c)
           g == GpuRate(section, c)
<1>1. /\ SecondScore(section, 0)[c] = [first |-> h, hybrid |-> Times(HybridRuns(section, x), h),
                                       gpu |-> Times(GpuRuns(section, x), g)]
      /\ Measured(section)[c] = [first |-> IF c <= Size(section) THEN h ELSE 0,
                                 hybrid |-> 0, gpu |-> 0]
  BY DEF SecondScore, Measured, FirstScore
<1>2. c <= Size(section) /\ k \in Nat /\ k >= 1
  BY MeasuredIs, RatesAreKnown
<1>3. section = Launch \/ section = CpuWorkers \/ section \in {GpuWorkers, Multiplier}
  BY DEF Sections
<1>4. o = 1 \/ o = 2 \/ o = 4
  BY <1>3, RepetitionsOf
<1>5. x \in Int /\ x <= 0
  <2> HIDE DEF k, o
  <2> QED
    BY <1>2, <1>4
<1> HIDE DEF x, h, g, k, o
<1>6. HybridRuns(section, x) = 0 /\ GpuRuns(section, x) = 0
  BY <1>3, <1>5, SectionsDiffer DEF HybridRuns, GpuRuns, Between
<1>7. Times(0, h) = 0 /\ Times(0, g) = 0
  BY DEF Times
<1> QED
  BY <1>1, <1>2, <1>6, <1>7

LEMMA SecondRoundBegins ==
    ASSUME machine \in Machines, NEW section \in Sections, NEW r,
           r.score = Measured(section), r.again = Top(section, Measured(section)),
           r.todo = SecondRound(section, Measured(section))
    PROVE InSecondRound(r, section)
<1> DEFINE n == Second(section)
           round == SecondRound(section, Measured(section))
<1>1. n \in Nat /\ 0 \in 0 .. n
  BY SizeOfSecond
<1>2. round = [i \in 1 .. n |-> round[i]]
  BY DEF SecondRound, Second, Often
<1>3. \A i \in 1 .. n : round[i] \in Jobs
  BY SecondRoundIs
<1>4. LeftOf(round, round, n, 0)
  <2> HIDE DEF round, n
  <2> QED
    BY <1>1, <1>2, <1>3, AllIsLeft
<1> QED
  BY <1>1, <1>4, SecondScoreBegins DEF InSecondRound, Second

LEMMA SecondRoundEnds ==
    ASSUME machine \in Machines, NEW section \in Sections, NEW r, InSecondRound(r, section)
    PROVE /\ r.again = Top(section, Measured(section)) /\ r.again /= {}
          /\ r.todo = <<>> => r.score = SecondScore(section, Second(section))
<1>1. Second(section) \in Nat
  BY SizeOfSecond
<1>2. r.again = Top(section, Measured(section)) /\ r.again /= {}
  BY MeasuredIs, TopIsFastest DEF InSecondRound
<1>3. ASSUME r.todo = <<>> PROVE r.score = SecondScore(section, Second(section))
  BY <1>1, <1>3, NothingLeft DEF InSecondRound, Second
<1> QED
  BY <1>2, <1>3

----------------------------------------------------------------------------
(* One lemma per action.                                                   *)

\* What is known of a thread stays known while the machine, the history and, as long as the
\* thread measures, the file are the same.
LEMMA FastStays ==
    ASSUME UNCHANGED <<machine, spoiled>>, NEW r, NEW q, ThreadIsFast(r, q),
           r.at = "measuring" => file' = file
    PROVE ThreadIsFast(r, q)'
<1>1. \A p, answer : Fast(p, answer)' <=> Fast(p, answer)
  BY DEF Fast, IsFastest
<1>2. \A payload : EntriesAreFast(payload) => EntriesAreFast(payload)'
  BY <1>1 DEF EntriesAreFast, Listed, HasSignature
<1>3. /\ InFirstRound(r, q[1])' <=> InFirstRound(r, q[1])
      /\ InSecondRound(r, q[1])' <=> InSecondRound(r, q[1])
  BY DEF InFirstRound, InSecondRound, Size, CandidatesOf, FirstScore, FirstRound, Top,
     Place, Measured, SecondScore, SecondRound, Ranked, Retried, Rank, HybridRate, GpuRate,
     LeftOf
<1>4. file' = file => (InFile(q)' <=> InFile(q))
  BY DEF InFile, HasSignature, Payload, EmptyPayload
<1> QED
  BY <1>1, <1>2, <1>3, <1>4 DEF ThreadIsFast

\* What a step that makes w of thread t has to show.
LEMMA FastStep ==
    ASSUME IInv, FInv, NEW t \in Threads, NEW w, thread' = [thread EXCEPT ![t] = w],
           UNCHANGED <<machine, spoiled>>,
           FastestUnlessDisturbed',
           file'.readable => EntriesAreFast(file'.section),
           ThreadIsFast(w, QuestionOf(w)), w.at = "measuring" => file' = file,
           file' = file \/ \A u \in Threads \ {t} : thread[u].at \notin Busy
    PROVE FInv'
<1>1. thread'[t] = w /\ \A u \in Threads \ {t} : thread'[u] = thread[u]
  BY DEF IInv, ThreadsAreTyped
<1>2. \A payload : EntriesAreFast(payload) => EntriesAreFast(payload)'
  <2>1. \A p, answer : Fast(p, answer)' <=> Fast(p, answer)
    BY DEF Fast, IsFastest
  <2> QED
    BY <2>1 DEF EntriesAreFast, Listed, HasSignature
<1>3. ASSUME NEW u \in Threads
      PROVE ThreadIsFast(thread[u], QuestionOf(thread[u]))'
  <2> DEFINE x == IF u = t THEN w ELSE thread[u]
  <2>1. PICK r : r = x
    OBVIOUS
  <2>2. PICK q : q = QuestionOf(r)
    OBVIOUS
  <2>3. ThreadIsFast(r, q) /\ (r.at = "measuring" => file' = file)
    BY <2>1, <2>2 DEF FInv, Busy
  <2>4. ThreadIsFast(r, q)'
    BY <2>3, FastStays
  <2>5. r = thread'[u] /\ q = QuestionOf(thread'[u])
    BY <1>1, <2>1, <2>2 DEF QuestionOf, QuestionAt
  <2> QED
    BY <2>4, <2>5
<1>4. \A u \in Threads : ThreadIsFast(thread[u], QuestionOf(thread[u]))'
  BY <1>3
<1>5. machine' \in Machines
  BY DEF FInv
<1>6. file'.readable => EntriesAreFast(file.section)'
  BY <1>2
<1> QED
  BY <1>4, <1>5, <1>6 DEF FInv

\* A thread that is not busy says nothing about what is fast.
LEMMA RestIsFast ==
    ASSUME NEW r, NEW q, {"todo", "score", "again", "sound", "answer"} \subseteq DOMAIN r,
           r.at \in {"idle", "mining", "asking", "waiting"},
           r.at \in {"asking", "waiting"} => r.again = {}
    PROVE ThreadIsFast(r, q)
BY DEF ThreadIsFast

\* A thread that was told starts anew.
LEMMA ToldIsFast ==
    ASSUME IInv, NEW t \in Threads, NEW answer, Told(t, answer)
    PROVE \E w : /\ thread' = [thread EXCEPT ![t] = w]
                 /\ ThreadIsFast(w, QuestionOf(w)) /\ w.at /= "measuring"
<1> DEFINE got == Append(thread[t].got, answer)
           r == [Idle EXCEPT
                    !.at = IF Len(got) = Len(thread[t].plan) THEN "mining" ELSE "asking",
                    !.plan = thread[t].plan, !.got = got]
<1>1. thread' = [thread EXCEPT ![t] = r]
  BY DEF Told
<1>2. /\ {"todo", "score", "again", "sound", "answer"} \subseteq DOMAIN r
      /\ r.at \in {"mining", "asking"} /\ r.again = {}
  BY DEF Idle
<1> HIDE DEF r
<1>3. ThreadIsFast(r, QuestionOf(r)) /\ r.at /= "measuring"
  BY <1>2, RestIsFast
<1> QED
  BY <1>1, <1>3

\* A fast answer joins the memory.
LEMMA PutIsFast ==
    ASSUME FastestUnlessDisturbed, UNCHANGED <<machine, spoiled>>, NEW q, NEW answer,
           Fast(q, answer), memory' = Put(memory, q, answer)
    PROVE FastestUnlessDisturbed'
<1>1. /\ DOMAIN memory' = DOMAIN memory \cup {q}
      /\ \A p \in DOMAIN memory' : memory'[p] = IF p = q THEN answer ELSE memory[p]
  BY DEF Put
<1>2. \A p, a : IsFastest(p, a)' <=> IsFastest(p, a)
  BY DEF IsFastest
<1> QED
  BY <1>1, <1>2 DEF FastestUnlessDisturbed, Fast

LEMMA SameIsFast ==
    ASSUME FastestUnlessDisturbed, UNCHANGED <<machine, spoiled, memory>>
    PROVE FastestUnlessDisturbed'
<1>1. \A p, a : IsFastest(p, a)' <=> IsFastest(p, a)
  BY DEF IsFastest
<1> QED
  BY <1>1 DEF FastestUnlessDisturbed

LEMMA InitIsFast == Init => FInv
<1> SUFFICES ASSUME Init PROVE FInv
  OBVIOUS
<1>1. machine \in Machines /\ memory = <<>>
  BY DEF Init
<1>2. FastestUnlessDisturbed
  BY <1>1 DEF FastestUnlessDisturbed
<1>3. \A t \in Threads : ThreadIsFast(thread[t], QuestionOf(thread[t]))
  <2>1. \A t \in Threads : thread[t] = Idle
    BY DEF Init
  <2>2. {"todo", "score", "again", "sound", "answer"} \subseteq DOMAIN Idle /\ Idle.at = "idle"
    BY DEF Idle
  <2> QED
    BY <2>1, <2>2, RestIsFast
<1>4. file.readable => EntriesAreFast(file.section)
  <2> SUFFICES ASSUME NEW q, Listed(file.section, q)
               PROVE IsFastest(q, file.section[q[1]].entries[q])
    BY DEF EntriesAreFast, Fast
  <2>1. CASE file.section = EmptyPayload
    BY <2>1 DEF Listed, EmptyPayload, EmptySection
  <2>2. CASE \E c \in CandidatesOf(CpuWorkers) :
                /\ IsFastest(<<CpuWorkers, <<>>>>, c)
                /\ file = Readable([EmptyPayload EXCEPT ![CpuWorkers] =
                             [flat |-> TRUE, entries |-> Put(<<>>, <<CpuWorkers, <<>>>>, c)]])
    <3> DEFINE k == <<CpuWorkers, <<>>>>
    <3>1. PICK c \in CandidatesOf(CpuWorkers) :
             /\ IsFastest(k, c)
             /\ file = Readable([EmptyPayload EXCEPT ![CpuWorkers] =
                          [flat |-> TRUE, entries |-> Put(<<>>, k, c)]])
      BY <2>2
    <3> DEFINE section == [flat |-> TRUE, entries |-> Put(<<>>, k, c)]
               payload == [EmptyPayload EXCEPT ![CpuWorkers] = section]
    <3>2. file.section = payload
      BY <3>1 DEF Readable
    <3>3. DOMAIN section.entries = {k} /\ section.entries[k] = c
      BY DEF Put
    <3> HIDE DEF section
    <3>4. /\ payload[CpuWorkers] = section
          /\ \A s \in Sections \ {CpuWorkers} : payload[s].entries = <<>>
      BY DEF EmptyPayload, EmptySection, Sections
    <3> HIDE DEF payload
    <3>5. q[1] = CpuWorkers /\ q = k
      BY <3>2, <3>3, <3>4 DEF Listed
    <3>6. file.section[q[1]].entries[q] = c
      BY <3>2, <3>3, <3>4, <3>5
    <3> QED
      BY <3>1, <3>5, <3>6
  <2> QED
    BY <2>1, <2>2 DEF Init, Readable
<1> QED
  BY <1>1, <1>2, <1>3, <1>4 DEF FInv

LEMMA CallIsFast ==
    ASSUME IInv, FInv, NEW t \in Threads, NEW backend, Call(t, backend)
    PROVE FInv'
<1> DEFINE r == [Idle EXCEPT !.at = "asking", !.plan = PlanOf(backend)]
<1>1. thread' = [thread EXCEPT ![t] = r] /\ DOMAIN thread = Threads
  BY DEF Call, IInv, ThreadsAreTyped
<1>2. /\ {"todo", "score", "again", "sound", "answer"} \subseteq DOMAIN r
      /\ r.at = "asking" /\ r.again = {}
  BY DEF Idle
<1> HIDE DEF r
<1>4. ThreadIsFast(r, QuestionOf(r))
  BY <1>2, RestIsFast
<1>5. UNCHANGED <<machine, memory, file, spoiled>>
  BY DEF Call
<1>6. FastestUnlessDisturbed' /\ (file'.readable => EntriesAreFast(file'.section))
  BY <1>5, SameIsFast DEF FInv
<1> QED
  BY <1>1, <1>2, <1>4, <1>5, <1>6, FastStep

LEMMA LookIsFast ==
    ASSUME IInv, FInv, NEW t \in Threads, Look(t)
    PROVE FInv'
<1>1. UNCHANGED <<machine, memory, file, spoiled>> /\ thread[t].at = "asking"
      /\ DOMAIN thread = Threads /\ "at" \in DOMAIN thread[t]
  BY DEF Look, At, IInv, ThreadsAreTyped, IsThread
<1>2. FastestUnlessDisturbed' /\ (file'.readable => EntriesAreFast(file'.section))
  BY <1>1, SameIsFast DEF FInv
<1>3. CASE \E answer : Told(t, answer)
  BY <1>1, <1>2, <1>3, ToldIsFast, FastStep
<1>4. CASE thread' = [thread EXCEPT ![t].at = "waiting"]
  <2> DEFINE w == [thread[t] EXCEPT !.at = "waiting"]
  <2>1. thread' = [thread EXCEPT ![t] = w]
    BY <1>4
  <2>2. w.at = "waiting" /\ DOMAIN w = DOMAIN thread[t] /\ w.again = thread[t].again
    BY <1>1
  <2>3. /\ {"todo", "score", "again", "sound", "answer"} \subseteq DOMAIN thread[t]
        /\ thread[t].again = {}
    BY <1>1 DEF FInv, ThreadIsFast
  <2> HIDE DEF w
  <2>4. ThreadIsFast(w, QuestionOf(w)) /\ w.at /= "measuring"
    BY <2>2, <2>3, RestIsFast
  <2> QED
    BY <1>1, <1>2, <2>1, <2>4, FastStep
<1> QED
  BY <1>3, <1>4 DEF Look

\* What is loaded from the file is fast.
LEMMA LoadedIsFast ==
    ASSUME FInv, NEW q, q[1] \in Sections, InFile(q)
    PROVE Fast(q, Loaded(q))
<1>1. file.readable
  BY DEF InFile, Payload, EmptyPayload, EmptySection
<1>2. Listed(file.section, q) /\ Loaded(q) = file.section[q[1]].entries[q]
  BY <1>1 DEF InFile, Payload, Listed, Loaded
<1> QED
  BY <1>1, <1>2 DEF FInv, EntriesAreFast

LEMMA EnterIsFast ==
    ASSUME IInv, SInv, FInv, NEW t \in Threads, Enter(t)
    PROVE FInv'
<1> DEFINE q == Question(t)
<1>1. UNCHANGED <<machine, file, spoiled>> /\ thread[t].at = "waiting"
      /\ DOMAIN thread = Threads /\ {"at", "plan", "got", "payload"} \subseteq DOMAIN thread[t]
  BY DEF Enter, At, IInv, ThreadsAreTyped, IsThread
<1>2. /\ {"todo", "score", "again", "sound", "answer"} \subseteq DOMAIN thread[t]
      /\ thread[t].again = {} /\ machine \in Machines
  BY <1>1 DEF FInv, ThreadIsFast
<1>3. q[1] \in Sections
  BY <1>1, QuestionIsKnown DEF SInv, ThreadsAsk
<1>4. file'.readable => EntriesAreFast(file'.section)
  BY <1>1 DEF FInv
<1>5. CASE q \in DOMAIN memory /\ Told(t, memory[q]) /\ UNCHANGED <<memory, owner>>
  <2>1. FastestUnlessDisturbed'
    BY <1>1, <1>5, SameIsFast DEF FInv
  <2> QED
    BY <1>1, <1>4, <1>5, <2>1, ToldIsFast, FastStep
<1>6. CASE InFile(q) /\ Load(t, q)
  <2>1. Fast(q, Loaded(q)) /\ FastestUnlessDisturbed
    BY <1>3, <1>6, LoadedIsFast DEF FInv
  <2>2. memory' = Put(memory, q, Loaded(q)) /\ Told(t, Loaded(q))
    BY <1>6 DEF Load
  <2> HIDE DEF q
  <2>3. FastestUnlessDisturbed'
    BY <1>1, <2>1, <2>2, PutIsFast
  <2> QED
    BY <1>1, <1>4, <2>2, <2>3, ToldIsFast, FastStep
<1>7. CASE ~InFile(q) /\ StartBenchmark(t, q[1])
  <2> DEFINE r == thread[t]
  <2>1. FastestUnlessDisturbed'
    BY <1>1, <1>7, SameIsFast DEF FInv, StartBenchmark
  <2>2. CASE q[1] = Launch /\ ~machine.properties
    <3> DEFINE w == [r EXCEPT !.at = "saving", !.answer = Default]
    <3>1. thread' = [thread EXCEPT ![t] = w]
      BY <1>7, <2>2 DEF StartBenchmark
    <3>2. w.at = "saving" /\ w.plan = r.plan /\ w.got = r.got /\ DOMAIN w = DOMAIN r
      BY <1>1
    <3>3. w.answer = Default
      BY <1>2
    <3> HIDE DEF w
    <3>4. QuestionOf(w) = q
      BY <3>2 DEF QuestionOf, Question
    <3>5. Fast(q, Default)
      BY <2>2 DEF Fast, IsFastest
    <3> HIDE DEF q
    <3>6. ThreadIsFast(w, q) /\ w.at /= "measuring"
      BY <1>2, <3>2, <3>3, <3>5 DEF ThreadIsFast
    <3> QED
      BY <1>1, <1>4, <2>1, <3>1, <3>4, <3>6, FastStep
  <2>3. CASE ~(q[1] = Launch /\ ~machine.properties)
    <3> DEFINE todo == FirstRound(q[1])
               score == [c \in CandidatesOf(q[1]) |-> NoScore]
               w == [r EXCEPT !.at = "measuring", !.todo = todo, !.score = score]
    <3>1. thread' = [thread EXCEPT ![t] = w]
      BY <1>7, <2>3 DEF StartBenchmark
    <3> HIDE DEF todo, score
    <3>2. w.at = "measuring" /\ w.plan = r.plan /\ w.got = r.got /\ DOMAIN w = DOMAIN r
      BY <1>1
    <3>3. w.todo = todo /\ w.score = score /\ w.again = {}
      BY <1>2
    <3> HIDE DEF w
    <3>4. QuestionOf(w) = q
      BY <3>2 DEF QuestionOf, Question
    <3>5. InFirstRound(w, q[1])
      BY <1>2, <1>3, <3>3, FirstRoundBegins DEF todo, score
    <3>6. ~InFile(q)
      BY <1>7
    <3> HIDE DEF q
    <3>7. ThreadIsFast(w, q)
      BY <1>2, <2>3, <3>2, <3>3, <3>5, <3>6 DEF ThreadIsFast
    <3> QED
      BY <1>1, <1>4, <2>1, <3>1, <3>4, <3>7, FastStep
  <2> QED
    BY <2>2, <2>3
<1> QED
  BY <1>5, <1>6, <1>7 DEF Enter, Load

LEMMA MeasureIsFast ==
    ASSUME IInv, SInv, FInv, NEW t \in Threads, Measure(t)
    PROVE FInv'
<1> DEFINE r == thread[t]
           q == Question(t)
           m == Head(r.todo)
<1>1. /\ UNCHANGED <<machine, memory, file, spoiled>> /\ r.at = "measuring" /\ r.todo /= <<>>
      /\ DOMAIN thread = Threads /\ {"at", "plan", "got", "payload"} \subseteq DOMAIN r
  BY DEF Measure, At, IInv, ThreadsAreTyped, IsThread
<1>2. /\ {"todo", "score", "again", "sound", "answer"} \subseteq DOMAIN r
      /\ ~InFile(q) /\ ~(q[1] = Launch /\ ~machine.properties)
      /\ r.sound => InFirstRound(r, q[1]) \/ InSecondRound(r, q[1])
      /\ machine \in Machines
  BY <1>1 DEF FInv, ThreadIsFast, Question, QuestionOf
<1>3. q[1] \in Sections
  BY <1>1, QuestionIsKnown DEF SInv, ThreadsAsk
<1>4. FastestUnlessDisturbed' /\ (file'.readable => EntriesAreFast(file'.section))
  BY <1>1, SameIsFast DEF FInv
<1>5. PICK rate : thread' = [thread EXCEPT ![t] = Scored(t, rate, rate = RateOf(q[1], m))]
  BY DEF Measure
<1> DEFINE w == Scored(t, rate, rate = RateOf(q[1], m))
<1>6. /\ w.at = "measuring" /\ w.plan = r.plan /\ w.got = r.got /\ DOMAIN w = DOMAIN r
      /\ w.again = r.again
  BY <1>1, <1>2 DEF Scored
<1>7. /\ w.todo = Tail(r.todo) /\ w.score = Added(r.score, m, rate)
      /\ w.sound => r.sound /\ rate = RateOf(q[1], m)
  BY <1>2 DEF Scored, Added
<1>11. thread' = [thread EXCEPT ![t] = w]
  BY <1>5
<1> HIDE DEF w
<1>8. QuestionOf(w) = q
  BY <1>6 DEF QuestionOf, Question
<1>9. ASSUME w.sound
      PROVE InFirstRound(w, q[1]) \/ InSecondRound(w, q[1])
  <2>1. w.score = Added(r.score, m, RateOf(q[1], m))
    BY <1>7, <1>9
  <2>2. CASE InFirstRound(r, q[1])
    BY <1>1, <1>2, <1>3, <1>6, <1>7, <2>1, <2>2, FirstRoundGoesOn
  <2>3. CASE InSecondRound(r, q[1])
    BY <1>1, <1>2, <1>3, <1>6, <1>7, <2>1, <2>3, SecondRoundGoesOn
  <2> QED
    BY <1>2, <1>7, <1>9, <2>2, <2>3
<1> HIDE DEF q, r
<1>10. ThreadIsFast(w, q)
  BY <1>2, <1>6, <1>9 DEF ThreadIsFast
<1> QED
  BY <1>1, <1>4, <1>8, <1>10, <1>11, FastStep

LEMMA MeasureAgainIsFast ==
    ASSUME IInv, SInv, FInv, NEW t \in Threads, MeasureAgain(t)
    PROVE FInv'
<1> DEFINE r == thread[t]
           q == Question(t)
           todo == SecondRound(q[1], r.score)
           again == Top(q[1], r.score)
           w == [r EXCEPT !.todo = todo, !.again = again]
<1>1. /\ UNCHANGED <<machine, memory, file, spoiled>> /\ r.at = "measuring" /\ r.todo = <<>>
      /\ r.again = {}
      /\ DOMAIN thread = Threads /\ {"at", "plan", "got", "payload"} \subseteq DOMAIN r
  BY DEF MeasureAgain, At, IInv, ThreadsAreTyped, IsThread
<1>2. /\ {"todo", "score", "again", "sound", "answer"} \subseteq DOMAIN r
      /\ ~InFile(q) /\ ~(q[1] = Launch /\ ~machine.properties)
      /\ r.sound => InFirstRound(r, q[1]) \/ InSecondRound(r, q[1])
      /\ machine \in Machines
  BY <1>1 DEF FInv, ThreadIsFast, Question, QuestionOf
<1>3. q[1] \in Sections
  BY <1>1, QuestionIsKnown DEF SInv, ThreadsAsk
<1>4. FastestUnlessDisturbed' /\ (file'.readable => EntriesAreFast(file'.section))
  BY <1>1, SameIsFast DEF FInv
<1>5. thread' = [thread EXCEPT ![t] = w]
  BY <1>1 DEF MeasureAgain
<1> HIDE DEF todo, again
<1>6. /\ w.at = "measuring" /\ w.plan = r.plan /\ w.got = r.got /\ DOMAIN w = DOMAIN r
      /\ w.score = r.score /\ w.sound = r.sound
  BY <1>1
<1>7. w.todo = todo /\ w.again = again
  BY <1>2
<1> HIDE DEF w
<1>8. QuestionOf(w) = q
  BY <1>6 DEF QuestionOf, Question
<1>9. ASSUME r.sound PROVE InSecondRound(w, q[1])
  <2>1. InFirstRound(r, q[1])
    BY <1>1, <1>2, <1>3, <1>9, SecondRoundEnds
  <2>2. r.score = Measured(q[1])
    BY <1>1, <1>2, <1>3, <2>1, FirstRoundEnds
  <2> QED
    BY <1>2, <1>3, <1>6, <1>7, <2>2, SecondRoundBegins DEF todo, again
<1> HIDE DEF q, r
<1>10. ThreadIsFast(w, q)
  BY <1>2, <1>6, <1>9 DEF ThreadIsFast
<1> QED
  BY <1>1, <1>4, <1>5, <1>8, <1>10, FastStep

\* An undisturbed benchmark leaves the fastest; a disturbed one is remembered.
LEMMA ChooseIsFast ==
    ASSUME IInv, SInv, FInv, NEW t \in Threads, Choose(t)
    PROVE FInv'
<1> DEFINE r == thread[t]
           q == Question(t)
           answer == Chosen(q[1], r.score, r.again)
           w == [r EXCEPT !.at = "saving", !.todo = <<>>, !.answer = answer]
<1>1. /\ UNCHANGED <<machine, memory, file>> /\ r.at = "measuring" /\ r.todo = <<>>
      /\ r.again /= {} /\ owner = t
      /\ DOMAIN thread = Threads /\ {"at", "plan", "got", "payload"} \subseteq DOMAIN r
  BY DEF Choose, At, IInv, ThreadsAreTyped, IsThread, LockIsHeld, Busy
<1>2. /\ {"todo", "score", "again", "sound", "answer"} \subseteq DOMAIN r
      /\ ~InFile(q) /\ ~(q[1] = Launch /\ ~machine.properties)
      /\ r.sound => InFirstRound(r, q[1]) \/ InSecondRound(r, q[1])
      /\ machine \in Machines
  BY <1>1 DEF FInv, ThreadIsFast, Question, QuestionOf
<1>3. q[1] \in Sections
  BY <1>1, QuestionIsKnown DEF SInv, ThreadsAsk
<1>4. /\ thread' = [thread EXCEPT ![t] = w]
      /\ spoiled' = IF r.sound THEN spoiled \ {q} ELSE spoiled \cup {q}
  BY <1>1 DEF Choose
<1> HIDE DEF answer
<1>5. w.at = "saving" /\ w.plan = r.plan /\ w.got = r.got /\ DOMAIN w = DOMAIN r
  BY <1>1
<1>6. w.answer = answer
  BY <1>2
<1> HIDE DEF w
<1>7. QuestionOf(w) = q
  BY <1>5 DEF QuestionOf, Question
<1>8. r.sound => IsFastest(q, answer)
  <2> SUFFICES ASSUME r.sound PROVE IsFastest(q, answer)
    OBVIOUS
  <2>1. InSecondRound(r, q[1])
    BY <1>1, <1>2 DEF InFirstRound
  <2>2. /\ r.again = Top(q[1], Measured(q[1]))
        /\ r.score = SecondScore(q[1], Second(q[1]))
    BY <1>1, <1>2, <1>3, <2>1, SecondRoundEnds
  <2>3. answer = Chosen(q[1], SecondScore(q[1], Second(q[1])), Top(q[1], Measured(q[1])))
    BY <2>2 DEF answer
  <2> HIDE DEF q
  <2> QED
    BY <1>2, <1>3, <2>3, ChosenIsFastest
<1>9. \A p, a : p /= q \/ ~r.sound => (Fast(p, a) => Fast(p, a)')
  BY <1>1, <1>4 DEF Fast, IsFastest
<1>16. PICK k, a, v : k = q /\ a = answer /\ v = w
  OBVIOUS
<1>10. Fast(k, a)'
  <2>1. r.sound => IsFastest(k, a)
    BY <1>8, <1>16
  <2>2. spoiled' = IF r.sound THEN spoiled \ {k} ELSE spoiled \cup {k}
    BY <1>4, <1>16
  <2> HIDE DEF r
  <2>3. IsFastest(k, a)' <=> IsFastest(k, a)
    BY <1>1 DEF IsFastest
  <2> QED
    BY <2>1, <2>2, <2>3 DEF Fast
<1>11. q \notin DOMAIN memory
  BY <1>1 DEF IInv, BenchmarksAreNew, Question, QuestionOf
<1>12. FastestUnlessDisturbed'
  <2>1. \A p \in DOMAIN memory : Fast(p, memory[p])
    BY DEF FInv, FastestUnlessDisturbed, Fast
  <2>2. \A p \in DOMAIN memory : Fast(p, memory[p])'
    BY <1>1, <1>9, <1>11, <2>1
  <2> QED
    BY <1>1, <2>2 DEF FastestUnlessDisturbed, Fast
<1>13. file'.readable => EntriesAreFast(file.section)'
  <2> SUFFICES ASSUME file.readable, NEW p, Listed(file.section, p)
               PROVE Fast(p, file.section[p[1]].entries[p])'
    BY <1>1 DEF EntriesAreFast, Listed, HasSignature
  <2>1. p /= q
    BY <1>2 DEF Listed, InFile, Payload
  <2>2. Fast(p, file.section[p[1]].entries[p])
    BY DEF FInv, EntriesAreFast
  <2> QED
    BY <1>1, <1>9, <2>1, <2>2
<1>14. \A u \in Threads \ {t} : thread'[u] = thread[u] /\ thread[u].at \notin Busy
  BY <1>1, <1>4, OneWrites
<1>15. ASSUME NEW u \in Threads
       PROVE ThreadIsFast(thread[u], QuestionOf(thread[u]))'
  <2>1. CASE u = t
    <3>1. thread'[t] = v
      BY <1>1, <1>4, <1>16
    <3>2. /\ {"todo", "score", "again", "sound", "answer"} \subseteq DOMAIN v
          /\ v.at = "saving" /\ v.answer = a /\ QuestionOf(v) = k
      BY <1>2, <1>5, <1>6, <1>7, <1>16
    <3>3. ThreadIsFast(v, k)'
      BY <1>10, <3>2 DEF ThreadIsFast
    <3> QED
      BY <2>1, <3>1, <3>2, <3>3 DEF QuestionOf, QuestionAt
  <2>2. CASE u /= t
    <3>1. /\ {"todo", "score", "again", "sound", "answer"} \subseteq DOMAIN thread[u]
          /\ thread[u].at \in {"asking", "waiting"} => thread[u].again = {}
      BY DEF FInv, ThreadIsFast
    <3> QED
      BY <1>14, <2>2, <3>1 DEF ThreadIsFast, Busy
  <2> QED
    BY <2>1, <2>2
<1> QED
  BY <1>1, <1>2, <1>12, <1>13, <1>15 DEF FInv

LEMMA SavedInIsFast ==
    ASSUME NEW payload, DOMAIN payload = Sections, EntriesAreFast(payload),
           NEW q, q[1] \in Sections, NEW answer, Fast(q, answer)
    PROVE EntriesAreFast(SavedIn(payload, q, answer))
<1> DEFINE entries == IF payload[q[1]].flat THEN <<>> ELSE payload[q[1]].entries
           section == [flat |-> FALSE, entries |-> Put(entries, q, answer)]
           new == SavedIn(payload, q, answer)
<1>1. new = [payload EXCEPT ![q[1]] = section]
  BY DEF SavedIn
<1>2. /\ DOMAIN section.entries = DOMAIN entries \cup {q}
      /\ \A p \in DOMAIN section.entries :
            section.entries[p] = IF p = q THEN answer ELSE entries[p]
  BY DEF Put
<1> HIDE DEF section, new
<1>3. new[q[1]] = section /\ \A s \in Sections \ {q[1]} : new[s] = payload[s]
  BY <1>1
<1>4. ASSUME NEW p, Listed(new, p) PROVE Fast(p, new[p[1]].entries[p])
  <2>1. CASE p[1] /= q[1]
    BY <1>3, <1>4, <2>1 DEF Listed, EntriesAreFast
  <2>2. CASE p = q
    BY <1>2, <1>3, <2>2
  <2>3. CASE p[1] = q[1] /\ p /= q
    <3>1. p \in DOMAIN entries /\ new[p[1]].entries[p] = entries[p]
      BY <1>2, <1>3, <1>4, <2>3 DEF Listed
    <3>2. entries = payload[p[1]].entries
      BY <2>3, <3>1
    <3>3. Listed(payload, p)
      <4> HIDE DEF entries
      <4> QED
        BY <1>4, <3>1, <3>2 DEF Listed
    <3> QED
      BY <3>1, <3>2, <3>3 DEF EntriesAreFast
  <2> QED
    BY <2>1, <2>2, <2>3
<1> QED
  BY <1>4 DEF EntriesAreFast, new

\* The answer goes into memory, and the file is as it was or empty or fast.
LEMMA LeaveIsFast ==
    ASSUME IInv, FInv, NEW t \in Threads, thread[t].at \in {"saving", "writing"}, Leave(t),
           UNCHANGED <<machine, spoiled>>,
           file'.readable => EntriesAreFast(file'.section)
    PROVE FInv'
<1> DEFINE q == Question(t)
           answer == thread[t].answer
<1>1. Fast(q, answer) /\ FastestUnlessDisturbed
  BY DEF FInv, ThreadIsFast, Question, QuestionOf
<1>2. memory' = Put(memory, q, answer) /\ Told(t, answer)
  BY DEF Leave
<1>3. \A u \in Threads \ {t} : thread[u].at \notin Busy
  BY OneWrites DEF IInv, LockIsHeld, Busy
<1> HIDE DEF q, answer
<1>4. FastestUnlessDisturbed'
  BY <1>1, <1>2, PutIsFast
<1>5. PICK w : /\ thread' = [thread EXCEPT ![t] = w]
               /\ ThreadIsFast(w, QuestionOf(w)) /\ w.at /= "measuring"
  BY <1>2, ToldIsFast
<1> QED
  BY <1>3, <1>4, <1>5, FastStep

LEMMA OpenIsFast ==
    ASSUME IInv, SInv, FInv, NEW t \in Threads, Open(t)
    PROVE FInv'
<1> DEFINE r == thread[t]
           q == Question(t)
           payload == SavedIn(Payload, q, r.answer)
<1>1. /\ UNCHANGED <<machine, spoiled>> /\ r.at = "saving" /\ owner = t
      /\ DOMAIN thread = Threads /\ {"at", "plan", "got", "payload"} \subseteq DOMAIN r
  BY DEF Open, At, IInv, ThreadsAreTyped, IsThread, LockIsHeld, Busy
<1>2. CASE Leave(t) /\ file' = file
  BY <1>1, <1>2, LeaveIsFast DEF FInv
<1>3. CASE /\ file' = [file EXCEPT !.readable = FALSE]
           /\ thread' = [thread EXCEPT ![t].at = "writing", ![t].payload = payload]
           /\ UNCHANGED <<memory, owner>>
  <2> DEFINE w == [r EXCEPT !.at = "writing", !.payload = payload]
  <2>1. thread' = [thread EXCEPT ![t] = w]
    BY <1>1, <1>3
  <2>2. Fast(q, r.answer) /\ {"todo", "score", "again", "sound", "answer"} \subseteq DOMAIN r
    BY <1>1 DEF FInv, ThreadIsFast, Question, QuestionOf
  <2>3. q[1] \in Sections
    BY <1>1, QuestionIsKnown DEF SInv, ThreadsAsk
  <2>4. DOMAIN Payload = Sections /\ EntriesAreFast(Payload)
    <3>1. CASE file.readable
      BY <3>1 DEF Payload, SInv, FileIsTyped, FInv
    <3>2. CASE ~file.readable
      <4>1. Payload = EmptyPayload
        BY <3>2 DEF Payload
      <4>2. \A s \in Sections : EmptyPayload[s].entries = <<>>
        BY DEF EmptyPayload, EmptySection
      <4>3. DOMAIN EmptyPayload = Sections
        BY DEF EmptyPayload
      <4> QED
        BY <4>1, <4>2, <4>3 DEF EntriesAreFast, Listed
    <3> QED
      BY <3>1, <3>2
  <2>5. EntriesAreFast(payload)
    BY <2>2, <2>3, <2>4, SavedInIsFast
  <2> HIDE DEF payload
  <2>6. /\ w.at = "writing" /\ w.plan = r.plan /\ w.got = r.got /\ w.payload = payload
        /\ DOMAIN w = DOMAIN r
    BY <1>1
  <2>7. w.answer = r.answer
    BY <2>2
  <2> HIDE DEF w
  <2>8. QuestionOf(w) = q
    BY <2>6 DEF QuestionOf, Question
  <2>9. ~file'.readable
    BY <1>3 DEF SInv, FileIsTyped
  <2>10. FastestUnlessDisturbed'
    BY <1>1, <1>3, SameIsFast DEF FInv
  <2>11. \A u \in Threads \ {t} : thread[u].at \notin Busy
    BY <1>1, OneWrites
  <2> HIDE DEF q, r
  <2>12. ThreadIsFast(w, q) /\ w.at /= "measuring"
    BY <2>2, <2>5, <2>6, <2>7 DEF ThreadIsFast
  <2> QED
    BY <1>1, <2>1, <2>8, <2>9, <2>10, <2>11, <2>12, FastStep
<1> QED
  BY <1>2, <1>3 DEF Open

LEMMA WriteIsFast ==
    ASSUME IInv, SInv, FInv, NEW t \in Threads, Write(t)
    PROVE FInv'
<1>1. UNCHANGED <<machine, spoiled>> /\ thread[t].at = "writing" /\ Leave(t)
  BY DEF Write, At
<1>2. EntriesAreFast(thread[t].payload)
  BY <1>1 DEF FInv, ThreadIsFast
<1>3. file' = Readable(thread[t].payload) \/ file' = file
  BY DEF Write
<1>4. file'.readable => EntriesAreFast(file'.section)
  BY <1>2, <1>3 DEF Readable, FInv
<1> QED
  BY <1>1, <1>4, LeaveIsFast

LEMMA RestartIsFast == FInv /\ Restart => FInv'
<1> SUFFICES ASSUME FInv, Restart PROVE FInv'
  OBVIOUS
<1>1. UNCHANGED <<machine, file, spoiled>> /\ memory' = <<>>
      /\ \A t \in Threads : thread'[t] = Idle
  BY DEF Restart
<1>2. {"todo", "score", "again", "sound", "answer"} \subseteq DOMAIN Idle /\ Idle.at = "idle"
  BY DEF Idle
<1>3. \A t \in Threads : ThreadIsFast(thread[t], QuestionOf(thread[t]))'
  BY <1>1, <1>2 DEF ThreadIsFast
<1>4. FastestUnlessDisturbed'
  BY <1>1 DEF FastestUnlessDisturbed
<1>5. \A p, a : Fast(p, a)' <=> Fast(p, a)
  BY <1>1 DEF Fast, IsFastest
<1>6. file'.readable => EntriesAreFast(file.section)'
  BY <1>1, <1>5 DEF FInv, EntriesAreFast, Listed, HasSignature
<1> QED
  BY <1>1, <1>3, <1>4, <1>6 DEF FInv

\* The measurements of a benchmark that nobody disturbs are the rates of the machine, in the
\* first round and in the second, and the choice among them does not lose the fastest.
THEOREM FInvHolds == Spec => []FInv
<1>1. ASSUME IInv, SInv, FInv, [Next]_vars PROVE FInv'
  <2>1. CASE \E t \in Threads, backend \in Backends : Call(t, backend)
    BY <1>1, <2>1, CallIsFast
  <2>2. CASE \E t \in Threads : Look(t)
    BY <1>1, <2>2, LookIsFast
  <2>3. CASE \E t \in Threads : Enter(t)
    BY <1>1, <2>3, EnterIsFast
  <2>4. CASE \E t \in Threads : Measure(t)
    BY <1>1, <2>4, MeasureIsFast
  <2>5. CASE \E t \in Threads : MeasureAgain(t)
    BY <1>1, <2>5, MeasureAgainIsFast
  <2>6. CASE \E t \in Threads : Choose(t)
    BY <1>1, <2>6, ChooseIsFast
  <2>7. CASE \E t \in Threads : Open(t)
    BY <1>1, <2>7, OpenIsFast
  <2>8. CASE \E t \in Threads : Write(t)
    BY <1>1, <2>8, WriteIsFast
  <2>9. CASE Restart
    BY <1>1, <2>9, RestartIsFast
  <2>10. CASE UNCHANGED vars
    <3>1. UNCHANGED <<machine, memory, file, thread, spoiled>>
      BY <2>10 DEF vars
    <3>2. FastestUnlessDisturbed'
      BY <1>1, <3>1, SameIsFast DEF FInv
    <3>3. \A p, a : Fast(p, a)' <=> Fast(p, a)
      BY <3>1 DEF Fast, IsFastest
    <3>4. file'.readable => EntriesAreFast(file.section)'
      BY <1>1, <3>1, <3>3 DEF FInv, EntriesAreFast, Listed, HasSignature
    <3>5. ASSUME NEW t \in Threads
          PROVE ThreadIsFast(thread[t], QuestionOf(thread[t]))'
      <4>1. PICK r, q : r = thread[t] /\ q = QuestionOf(r)
        OBVIOUS
      <4>2. ThreadIsFast(r, q)'
        BY <1>1, <3>1, <4>1, FastStays DEF FInv
      <4> QED
        BY <3>1, <4>1, <4>2 DEF QuestionOf, QuestionAt
    <3> QED
      BY <1>1, <3>1, <3>2, <3>4, <3>5 DEF FInv
  <2> QED
    BY <1>1, <2>1, <2>2, <2>3, <2>4, <2>5, <2>6, <2>7, <2>8, <2>9, <2>10 DEF Next
<1> QED
  BY <1>1, InitIsFast, IInvHolds, SInvHolds, PTL DEF Spec

\* The answer of a benchmark that nobody disturbed is a candidate that no other beats: the
\* order of the first scores, the slice of those measured again, the medians and the ties of
\* core/mining_tuning.py never lose the fastest, and neither do the file and a restart.
THEOREM FastestIsChosen == Spec => []FastestUnlessDisturbed
<1>1. FInv => FastestUnlessDisturbed
  BY DEF FInv
<1> QED
  BY <1>1, FInvHolds, PTL
====
